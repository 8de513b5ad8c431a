------------------------------ MODULE SocialGraph ------------------------------
(***************************************************************************)
(* The social half of linkora-contracts/src/lib.rs: profiles with their    *)
(* username index and registry, the adjacency-set follow graph (Edge rows  *)
(* plus one NeighbourIndex per user and side), block lists and the lazy    *)
(* deletion of profiles.  A contract call is one atomic action; a call     *)
(* that panics is rolled back by the host and is therefore no step.  The   *)
(* parts of block_user and batch_cleanup_profile that touch posts and      *)
(* likes belong to the module Content.                                     *)
(***************************************************************************)
EXTENDS NeighbourIndex, FiniteSets

CONSTANTS Name,          \* usernames that pass validate_username
          NoName,        \* stands for a missing Profile row
          NoUser,        \* stands for a missing UsernameIndex row
          MaxEntries     \* largest max_entries of a cleanup call

ASSUME NamesAreDistinct == NoName \notin Name /\ NoUser \notin User
ASSUME MaxEntriesIsNat == MaxEntries \in Nat

VARIABLES
    username,      \* Profile(u).username, NoName when there is no profile
    owner,         \* UsernameIndex(n), NoUser when the row is missing
    registered,    \* REGISTERED_USERS
    profileCount,  \* PROFILE_CREATED_CT
    deleted,       \* users with a DeletedProfile tombstone
    blocks,        \* pairs <<blocker, blocked>>
    edge,          \* pairs <<follower, followee>> with an Edge row
    following,     \* the Following* rows of each user
    followers,     \* the Followers* rows of each user
    paused         \* PauseModule::Social (or the global flag) is set

profileVars == <<username, owner, registered, profileCount, deleted>>
graphVars   == <<edge, following, followers>>
vars        == <<profileVars, blocks, graphVars, paused>>

(* The rows of the social half have the types that set_profile, follow and
   block_user write. *)
TypeOK ==
    /\ username \in [User -> Name \cup {NoName}]
    /\ owner \in [Name -> User \cup {NoUser}]
    /\ registered \in SUBSET User
    /\ profileCount \in Nat
    /\ deleted \in SUBSET User
    /\ blocks \in SUBSET (User \X User)
    /\ edge \in SUBSET (User \X User)
    /\ DOMAIN following = User /\ \A u \in User : IndexOK(following[u])
    /\ DOMAIN followers = User /\ \A u \in User : IndexOK(followers[u])
    /\ paused \in BOOLEAN

Init ==
    /\ username = [u \in User |-> NoName]
    /\ owner = [n \in Name |-> NoUser]
    /\ registered = {}
    /\ profileCount = 0
    /\ deleted = {}
    /\ blocks = {}
    /\ edge = {}
    /\ following = [u \in User |-> NoRows]
    /\ followers = [u \in User |-> NoRows]
    /\ paused = FALSE

-------------------------------------------------------------------------------
(***************************************************************************)
(* Profiles                                                                *)
(***************************************************************************)
HasProfile(u) == username[u] # NoName

(* Mutant: a rename leaves the old name taken. *)
OwnersAfterStale(u, n) == [owner EXCEPT ![n] = u]

(***************************************************************************)
(* The name index after set_profile: a rename frees the old name.          *)
(***************************************************************************)
OwnersAfter(u, n) ==
    [m \in Name |-> IF m = n THEN u
                    ELSE IF m = username[u] THEN NoUser
                    ELSE owner[m]]

(***************************************************************************)
(* The first set_profile of a user registers it, counts it and writes zero *)
(* graph counts.                                                           *)
(***************************************************************************)
RegisterIfNew(u) ==
    IF HasProfile(u)
    THEN UNCHANGED <<registered, profileCount, following, followers>>
    ELSE /\ registered' = registered \cup {u}
         /\ profileCount' = profileCount + 1
         /\ following' = [following EXCEPT ![u] = ResetCount(@)]
         /\ followers' = [followers EXCEPT ![u] = ResetCount(@)]

(***************************************************************************)
(* set_profile: the name must be free or already the caller's.  The        *)
(* DeletedProfile tombstone is not read.                                   *)
(***************************************************************************)
SetProfile(u, n) ==
    /\ owner[n] \in {u, NoUser}
    /\ username' = [username EXCEPT ![u] = n]
    /\ owner' = OwnersAfter(u, n)
    /\ RegisterIfNew(u)
    /\ UNCHANGED <<deleted, blocks, edge, paused>>

(***************************************************************************)
(* delete_profile removes the O(1) rows and leaves the graph rows to the   *)
(* cleanup calls the tombstone permits.                                    *)
(***************************************************************************)
DeleteProfile(u) ==
    /\ HasProfile(u)
    /\ username' = [username EXCEPT ![u] = NoName]
    /\ owner' = [owner EXCEPT ![username[u]] = NoUser]
    /\ profileCount' = IF profileCount > 0 THEN profileCount - 1 ELSE 0
    /\ registered' = registered \ {u}
    /\ blocks' = {b \in blocks : b[1] # u}
    /\ deleted' = deleted \cup {u}
    /\ UNCHANGED <<graphVars, paused>>

-------------------------------------------------------------------------------
(***************************************************************************)
(* Follow graph                                                            *)
(***************************************************************************)
Blocked(a, b) == <<a, b>> \in blocks

(***************************************************************************)
(* The "graph entry expired - pay rent" guard: a registered user must own  *)
(* both count rows.                                                        *)
(***************************************************************************)
CountersPresent(u) ==
    u \in registered => following[u].counted /\ followers[u].counted

(* Mutant: only the follower's own block list is consulted. *)
FollowAllowedOneWay(a, b) ==
    /\ a # b /\ ~paused
    /\ ~Blocked(a, b)
    /\ CountersPresent(a) /\ CountersPresent(b)

FollowAllowed(a, b) ==
    /\ a # b /\ ~paused
    /\ ~Blocked(a, b) /\ ~Blocked(b, a)
    /\ CountersPresent(a) /\ CountersPresent(b)

Follow(a, b) ==
    /\ FollowAllowed(a, b)
    /\ IF <<a, b>> \in edge
       THEN UNCHANGED graphVars
       ELSE /\ edge' = edge \cup {<<a, b>>}
            /\ following' = [following EXCEPT ![a] = AppendTo(@, b)]
            /\ followers' = [followers EXCEPT ![b] = AppendTo(@, a)]
    /\ UNCHANGED <<profileVars, blocks, paused>>

Unfollow(a, b) ==
    /\ a # b /\ ~paused
    /\ IF <<a, b>> \notin edge
       THEN UNCHANGED graphVars
       ELSE /\ SwapRemoveSucceeds(following[a], b)
            /\ SwapRemoveSucceeds(followers[b], a)
            /\ edge' = edge \ {<<a, b>>}
            /\ following' = [following EXCEPT ![a] = SwapRemove(@, b)]
            /\ followers' = [followers EXCEPT ![b] = SwapRemove(@, a)]
    /\ UNCHANGED <<profileVars, blocks, paused>>

(* Mutant: only the blocker's own edge is cut. *)
EdgesBetweenOneWay(a, b) == {<<a, b>>} \cap edge

(***************************************************************************)
(* cleanup_follow_on_block: for x to y, then for y to x, the edge and its  *)
(* two index entries go if the edge exists.  The two directions touch four *)
(* different indexes, so their order does not show.                        *)
(***************************************************************************)
EdgesBetween(a, b) == {<<a, b>>, <<b, a>>} \cap edge

CleanupFollowOnBlock(a, b) ==
    LET gone == EdgesBetween(a, b)
    IN  /\ \A e \in gone : /\ SwapRemoveSucceeds(following[e[1]], e[2])
                           /\ SwapRemoveSucceeds(followers[e[2]], e[1])
        /\ edge' = edge \ gone
        /\ following' = [u \in User |->
               IF u = a /\ <<a, b>> \in gone THEN SwapRemove(following[u], b)
               ELSE IF u = b /\ <<b, a>> \in gone
                    THEN SwapRemove(following[u], a)
               ELSE following[u]]
        /\ followers' = [u \in User |->
               IF u = a /\ <<b, a>> \in gone THEN SwapRemove(followers[u], b)
               ELSE IF u = b /\ <<a, b>> \in gone
                    THEN SwapRemove(followers[u], a)
               ELSE followers[u]]

BlockUser(a, b) ==
    /\ a # b /\ ~paused
    /\ blocks' = blocks \cup {<<a, b>>}
    /\ CleanupFollowOnBlock(a, b)
    /\ UNCHANGED <<profileVars, paused>>

UnblockUser(a, b) ==
    /\ a # b /\ ~paused
    /\ blocks' = blocks \ {<<a, b>>}
    /\ UNCHANGED <<profileVars, graphVars, paused>>

-------------------------------------------------------------------------------
(***************************************************************************)
(* batch_cleanup_profile(u, n), open to anyone once the tombstone exists:  *)
(* up to n follower entries, then with what is left of the budget up to    *)
(* that many followee entries; each one takes its edge, its rows in u's    *)
(* index and, by swap-remove, its entry in the neighbour's index.  The     *)
(* tombstone goes when both indexes and the authored posts are used up;    *)
(* postsLeft says whether authored posts remain.                           *)
(***************************************************************************)
LeastOf(m, n) == IF m < n THEN m ELSE n

BatchCleanupProfile(u, n, postsLeft) ==
    LET n1   == LeastOf(n, followers[u].count)
        n2   == LeastOf(n - n1, following[u].count)
        from == TopUsers(followers[u], n1)
        to   == TopUsers(following[u], n2)
        mine == DropTop(followers[u], n1)
        my2  == DropTop(following[u], n2)
    IN  /\ u \in deleted
        /\ \A v \in from : SwapRemoveSucceeds(following[v], u)
        /\ \A v \in to : SwapRemoveSucceeds(followers[v], u)
        /\ edge' = edge \ ({<<v, u>> : v \in from} \cup {<<u, v>> : v \in to})
        /\ following' = [v \in User |->
               IF v = u THEN my2
               ELSE IF v \in from THEN SwapRemove(following[v], u)
               ELSE following[v]]
        /\ followers' = [v \in User |->
               IF v = u THEN mine
               ELSE IF v \in to THEN SwapRemove(followers[v], u)
               ELSE followers[v]]
        /\ deleted' = IF mine.count = 0 /\ my2.count = 0 /\ ~postsLeft
                      THEN deleted \ {u} ELSE deleted
        /\ UNCHANGED <<username, owner, registered, profileCount,
                       blocks, paused>>

(***************************************************************************)
(* pause_module / unpause_module by a Pauser or Admin, or the global flag. *)
(***************************************************************************)
SetPaused(p) ==
    /\ paused' = p
    /\ UNCHANGED <<profileVars, blocks, graphVars>>

Next ==
    \/ \E u \in User, n \in Name : SetProfile(u, n)
    \/ \E u \in User : DeleteProfile(u)
    \/ \E a, b \in User : Follow(a, b)
    \/ \E a, b \in User : Unfollow(a, b)
    \/ \E a, b \in User : BlockUser(a, b)
    \/ \E a, b \in User : UnblockUser(a, b)
    \/ \E u \in User, n \in 0 .. MaxEntries, p \in BOOLEAN :
           BatchCleanupProfile(u, n, p)
    \/ \E p \in BOOLEAN : SetPaused(p)

Spec == Init /\ [][Next]_vars

(***************************************************************************)
(* The clients this contract is written for: nobody creates a profile for  *)
(* an address that still has rows in the follow graph, so the zero counts  *)
(* of set_profile overwrite nothing.  The contract does not enforce it.    *)
(***************************************************************************)
HasRows(u) == following[u].count > 0 \/ followers[u].count > 0

CleanRegistration == \A u \in registered' \ registered : ~HasRows(u)

CleanSpec == Init /\ [][Next /\ CleanRegistration]_vars

-------------------------------------------------------------------------------
(***************************************************************************)
(* Properties                                                              *)
(***************************************************************************)

(***************************************************************************)
(* Through any interleaving of set_profile, renames and delete_profile,    *)
(* Profile rows and UsernameIndex rows stay inverse to each other: no name *)
(* resolves to a user who gave it up, no two users hold one name.          *)
(***************************************************************************)
UsernameIndexExact ==
    \A u \in User, n \in Name : username[u] = n <=> owner[n] = u

(***************************************************************************)
(* The registry follow() consults and the profile counter track exactly    *)
(* the addresses that have a profile now.                                  *)
(***************************************************************************)
RegistryExact ==
    /\ registered = {u \in User : HasProfile(u)}
    /\ profileCount = Cardinality(registered)

(***************************************************************************)
(* The profile rows together: of the right shape, names and owners         *)
(* inverse, registry and counter exact.                                    *)
(***************************************************************************)
ProfilesExact == TypeOK /\ UsernameIndexExact /\ RegistryExact

(***************************************************************************)
(* Blocking is a clean break: no edge in either direction between a        *)
(* blocker and the blocked, whoever calls what afterwards.                 *)
(***************************************************************************)
NoEdgeAcrossBlock ==
    \A a, b \in User :
        <<a, b>> \in blocks => <<a, b>> \notin edge /\ <<b, a>> \notin edge

(***************************************************************************)
(* ADR-001: for every user the two indexes enumerate exactly the edges, so *)
(* counts equal the rows stored and both ends of an edge agree on it.      *)
(***************************************************************************)
Followees(u) == {v \in User : <<u, v>> \in edge}
FollowersOf(u) == {v \in User : <<v, u>> \in edge}

GraphConsistent ==
    \A u \in User : /\ Enumerates(following[u], Followees(u))
                    /\ Enumerates(followers[u], FollowersOf(u))

(***************************************************************************)
(* A client that walks get_followers page by page meets every follower, on *)
(* exactly one page, and nobody else.                                      *)
(***************************************************************************)
PagesPartitionFollowers ==
    \A u \in User, limit \in 1 .. 2 :
        LET page(i) == PageOf(followers[u], i * limit, limit)
            pages   == 0 .. Cardinality(User)
        IN  /\ UNION {page(i) : i \in pages} = FollowersOf(u)
            /\ \A i, j \in pages : i # j => page(i) \cap page(j) = {}

(***************************************************************************)
(* ADR-002: a DeletedProfile tombstone is removed only when no edge        *)
(* mentions the user any more, so a partial cleanup orphans nothing.       *)
(***************************************************************************)
TombstoneOutlivesEdges ==
    [][\A u \in deleted \ deleted' :
           \A e \in edge' : u \notin {e[1], e[2]}]_vars

(***************************************************************************)
(* tests/invariant_social_graph.rs: two registered users who do not block  *)
(* each other can follow after any sequence of follow and unfollow calls.  *)
(***************************************************************************)
RegisteredCanFollow ==
    \A a, b \in registered :
        a # b /\ ~paused /\ ~Blocked(a, b) /\ ~Blocked(b, a)
            => FollowAllowed(a, b)

(***************************************************************************)
(* What a reader sees: the pairs get_following returns.  Through it the    *)
(* rows implement the plain relation of FollowRelation.                    *)
(***************************************************************************)
VisibleFollows ==
    {e \in User \X User :
        e[2] \in PageOf(following[e[1]], 0, following[e[1]].count)}

Abstract == INSTANCE FollowRelation
                WITH follows <- VisibleFollows, blocked <- blocks

(***************************************************************************)
(* Every contract call changes the visible relation as one abstract step   *)
(* or not at all.                                                          *)
(***************************************************************************)
ImplementsFollowRelation == Abstract!Spec
================================================================================
