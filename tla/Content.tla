-------------------------------- MODULE Content --------------------------------
(***************************************************************************)
(* Posts of linkora-contracts/src/lib.rs through their whole life: create, *)
(* like, report with a stake, removal by moderation, appeal and restore,   *)
(* deletion with a tombstone, and the batched cleanup of what is left.     *)
(* One contract call is one atomic action; a call that panics is no step.  *)
(* Rows outside this module appear as parameters: cooldowns left for a     *)
(* post, graph entries left for a user.                                    *)
(***************************************************************************)
EXTENDS Integers, FiniteSets, Sequences, SequencesExt

CONSTANTS User,
          Mod,         \* admins of the "mods" pool
          Threshold,   \* its threshold
          MaxPosts,    \* bound on posts ever created
          MaxEntries   \* largest max_entries of a cleanup call

ASSUME ThresholdReachable == Threshold \in 1 .. Cardinality(Mod)
ASSUME BoundsAreNat == MaxPosts \in Nat /\ MaxEntries \in Nat

VARIABLES
    postCount,    \* POST_CT
    post,         \* live Post rows: id -> [author, likes]
    removed,      \* RemovedPost with its ModerationRecord:
                  \*   id -> [author, likes, open], open: before the deadline
    deleted,      \* ids with a DeletedPost tombstone
    authorPosts,  \* AuthorPosts(u), a sequence of ids
    like,         \* Like rows, pairs <<id, user>>
    likers,       \* PostLikersIdx/PostLikersCount: id -> [idx, count]
    blocks,       \* pairs <<blocker, blocked>>
    gone,         \* users with a DeletedProfile tombstone
    report,       \* Report rows: <<id, reporter>> -> status
    reporters,    \* PostReportersIdx up to ReportCount: id -> sequence
    escrow,       \* report stakes held by the contract
    appeal,       \* Appeal rows: id -> [status, approvers, rejecters]
    paused        \* paused modules, of those that matter here

likeVars == <<like, likers>>
modVars  == <<report, reporters, escrow, appeal>>
vars     == <<postCount, post, removed, deleted, authorPosts, likeVars,
              blocks, gone, modVars, paused>>

Module == {"Posts", "Social"}
Id == 1 .. MaxPosts
NoLikers == [idx |-> <<>>, count |-> 0]
Status == {"Pending", "Upheld", "Dismissed"}

Put(rows, k, v) ==
    [j \in DOMAIN rows \cup {k} |-> IF j = k THEN v ELSE rows[j]]
Del(rows, k) == [j \in DOMAIN rows \ {k} |-> rows[j]]

(***************************************************************************)
(* The post, like, report and appeal rows have the types that create_post, *)
(* like_post, report_post and appeal_moderation write.                     *)
(***************************************************************************)
PostRow    == [author : User, likes : Nat]
RemovedRow == [author : User, likes : Nat, open : BOOLEAN]
AppealRow  == [status : {"Pending", "Approved", "Rejected"},
               approvers : SUBSET Mod, rejecters : SUBSET Mod]

PostTypes ==
    /\ postCount \in 0 .. MaxPosts
    /\ DOMAIN post \subseteq 1 .. postCount
    /\ \A p \in DOMAIN post : post[p] \in PostRow
    /\ DOMAIN removed \subseteq 1 .. postCount
    /\ \A p \in DOMAIN removed : removed[p] \in RemovedRow
    /\ deleted \in SUBSET (1 .. postCount)
    /\ authorPosts \in [User -> Seq(Id)]

LikeTypes ==
    /\ like \in SUBSET (Id \X User)
    /\ DOMAIN likers = Id
    /\ \A p \in Id : /\ likers[p].count \in Nat
                     /\ DOMAIN likers[p].idx \subseteq Nat
                     /\ \A k \in DOMAIN likers[p].idx : likers[p].idx[k] \in User

ReportTypes ==
    /\ DOMAIN report \subseteq Id \X User
    /\ \A r \in DOMAIN report : report[r] \in Status
    /\ reporters \in [Id -> Seq(User)]
    /\ escrow \in Nat

OtherTypes ==
    /\ blocks \in SUBSET (User \X User)
    /\ gone \in SUBSET User
    /\ DOMAIN appeal \subseteq Id
    /\ \A p \in DOMAIN appeal : appeal[p] \in AppealRow
    /\ paused \in SUBSET Module

TypeOK == PostTypes /\ LikeTypes /\ ReportTypes /\ OtherTypes

Init ==
    /\ postCount = 0
    /\ post = <<>> /\ removed = <<>> /\ deleted = {}
    /\ authorPosts = [u \in User |-> <<>>]
    /\ like = {} /\ likers = [p \in Id |-> NoLikers]
    /\ blocks = {} /\ gone = {}
    /\ report = <<>> /\ reporters = [p \in Id |-> <<>>]
    /\ escrow = 0
    /\ appeal = <<>>
    /\ paused = {}

Blocked(a, b) == <<a, b>> \in blocks
Live(p) == p \in DOMAIN post

-------------------------------------------------------------------------------
(***************************************************************************)
(* Posts and likes                                                         *)
(***************************************************************************)
(* Mutant: ids follow the number of live posts. *)
FreshIdByCount == Cardinality(DOMAIN post) + 1

FreshId == postCount + 1

CreatePost(u) ==
    LET id == FreshId
    IN  /\ postCount < MaxPosts
        /\ "Posts" \notin paused
        /\ postCount' = id
        /\ post' = Put(post, id, [author |-> u, likes |-> 0])
        /\ authorPosts' = [authorPosts EXCEPT ![u] = Append(@, id)]
        /\ UNCHANGED <<removed, deleted, likeVars, blocks, gone, modVars,
                       paused>>

(***************************************************************************)
(* delete_post and moderation both drop the id, where it first occurs,     *)
(* from the author's list.                                                 *)
(***************************************************************************)
Unlisted(u, p) == [authorPosts EXCEPT ![u] = RemoveFirst(@, p)]

DeletePost(u, p) ==
    /\ "Posts" \notin paused
    /\ Live(p) /\ post[p].author = u
    /\ post' = Del(post, p)
    /\ deleted' = deleted \cup {p}
    /\ authorPosts' = Unlisted(u, p)
    /\ UNCHANGED <<postCount, removed, likeVars, blocks, gone, modVars, paused>>

(***************************************************************************)
(* like_post: the slot and the index count both come from like_count.      *)
(***************************************************************************)
LikePost(u, p) ==
    /\ "Posts" \notin paused
    /\ <<p, u>> \notin like
    /\ Live(p)
    /\ ~Blocked(post[p].author, u) /\ ~Blocked(u, post[p].author)
    /\ LET n == post[p].likes
       IN  /\ post' = [post EXCEPT ![p].likes = n + 1]
           /\ likers' = [likers EXCEPT
                  ![p] = [idx |-> Put(@.idx, n, u), count |-> n + 1]]
    /\ like' = like \cup {<<p, u>>}
    /\ UNCHANGED <<postCount, removed, deleted, authorPosts, blocks, gone,
                   modVars, paused>>

(***************************************************************************)
(* swap_remove_like_from_index finds the user by scanning the slots below  *)
(* the count and moves the last entry into the hole.                       *)
(***************************************************************************)
SlotsOf(ix, u) ==
    {k \in DOMAIN ix.idx : k < ix.count /\ ix.idx[k] = u}

(* Mutant: the last slot goes without filling the hole. *)
SwapRemoveLikeNoMove(ix, u) ==
    IF SlotsOf(ix, u) = {} THEN ix
    ELSE [idx |-> Del(ix.idx, ix.count - 1), count |-> ix.count - 1]

SwapRemoveLike(ix, u) ==
    IF SlotsOf(ix, u) = {} THEN ix
    ELSE LET pos  == CHOOSE k \in SlotsOf(ix, u) :
                         \A j \in SlotsOf(ix, u) : k =< j
             last == ix.count - 1
             fill == IF pos # last /\ last \in DOMAIN ix.idx
                     THEN Put(ix.idx, pos, ix.idx[last]) ELSE ix.idx
         IN  [idx |-> Del(fill, last), count |-> last]

(* Mutant: only the likes of the blocked user on the blocker's posts. *)
LikesBetweenOneWay(a, b) ==
    {l \in like : Live(l[1]) /\ l[2] = b /\ post[l[1]].author = a}

(***************************************************************************)
(* cleanup_likes_on_block: the likes of either user on live posts of the   *)
(* other.                                                                  *)
(***************************************************************************)
LikesBetween(a, b) ==
    {l \in like : /\ Live(l[1])
                  /\ {l[2], post[l[1]].author} = {a, b}}

(***************************************************************************)
(* The only possible liker among a and b of a post by the other one.       *)
(***************************************************************************)
BlockUser(a, b) ==
    LET cut == LikesBetween(a, b)
        hit == {l[1] : l \in cut}
        who(p) == IF <<p, a>> \in cut THEN a ELSE b
    IN  /\ a # b /\ "Social" \notin paused
        /\ blocks' = blocks \cup {<<a, b>>}
        /\ like' = like \ cut
        /\ post' = [p \in DOMAIN post |->
               IF p \in hit /\ post[p].likes > 0
               THEN [post[p] EXCEPT !.likes = @ - 1] ELSE post[p]]
        /\ likers' = [p \in Id |->
               IF p \in hit THEN SwapRemoveLike(likers[p], who(p))
               ELSE likers[p]]
        /\ UNCHANGED <<postCount, removed, deleted, authorPosts, gone,
                       modVars, paused>>

UnblockUser(a, b) ==
    /\ a # b /\ "Social" \notin paused
    /\ blocks' = blocks \ {<<a, b>>}
    /\ UNCHANGED <<postCount, post, removed, deleted, authorPosts, likeVars,
                   gone, modVars, paused>>

-------------------------------------------------------------------------------
(***************************************************************************)
(* Reports and moderation                                                  *)
(***************************************************************************)
ReportPost(u, p) ==
    /\ Live(p) /\ post[p].author # u
    /\ <<p, u>> \notin DOMAIN report
    /\ escrow' = escrow + 1
    /\ report' = Put(report, <<p, u>>, "Pending")
    /\ reporters' = [reporters EXCEPT ![p] = Append(@, u)]
    /\ UNCHANGED <<postCount, post, removed, deleted, authorPosts, likeVars,
                   blocks, gone, appeal, paused>>

(***************************************************************************)
(* The removal done by an upheld report, when the post is still live.      *)
(***************************************************************************)
ModerateAway(p) ==
    /\ removed' = Put(removed, p, [author |-> post[p].author,
                                   likes |-> post[p].likes, open |-> TRUE])
    /\ post' = Del(post, p)
    /\ authorPosts' = Unlisted(post[p].author, p)

(* Mutant: a report can be reviewed again. *)
ReviewableAgain(p, u) == <<p, u>> \in DOMAIN report

Reviewable(p, u) ==
    /\ <<p, u>> \in DOMAIN report
    /\ report[<<p, u>>] = "Pending"

(***************************************************************************)
(* review_report: the stake leaves escrow under either verdict, to the     *)
(* reporter or to the treasury.                                            *)
(***************************************************************************)
ReviewReport(p, u, verdict) ==
    /\ Reviewable(p, u)
    /\ IF verdict = "Upheld" /\ Live(p)
       THEN ModerateAway(p)
       ELSE UNCHANGED <<removed, post, authorPosts>>
    /\ escrow > 0   \* the token transfer panics on an insufficient balance
    /\ escrow' = escrow - 1
    /\ report' = [report EXCEPT ![<<p, u>>] = verdict]
    /\ UNCHANGED <<postCount, deleted, likeVars, blocks, gone, reporters,
                   appeal, paused>>

(***************************************************************************)
(* The ledger passes ModerationRecord.appeal_deadline.                     *)
(***************************************************************************)
AppealWindowCloses(p) ==
    /\ p \in DOMAIN removed /\ removed[p].open
    /\ removed' = [removed EXCEPT ![p].open = FALSE]
    /\ UNCHANGED <<postCount, post, deleted, authorPosts, likeVars, blocks,
                   gone, modVars, paused>>

AppealModeration(u, p) ==
    /\ p \in DOMAIN removed
    /\ removed[p].author = u /\ removed[p].open
    /\ p \notin DOMAIN appeal
    /\ appeal' = Put(appeal, p, [status |-> "Pending", approvers |-> {},
                                 rejecters |-> {}])
    /\ UNCHANGED <<postCount, post, removed, deleted, authorPosts, likeVars,
                   blocks, gone, report, reporters, escrow, paused>>

(* Mutant: the moderated copy is kept. *)
RestoreKeepsCopy(p) ==
    IF p \in DOMAIN removed
    THEN LET who == removed[p].author
         IN  /\ post' = Put(post, p, [author |-> who,
                                      likes |-> removed[p].likes])
             /\ authorPosts' = IF Contains(authorPosts[who], p) THEN authorPosts
                               ELSE [authorPosts EXCEPT ![who] = Append(@, p)]
             /\ UNCHANGED removed
    ELSE UNCHANGED <<post, authorPosts, removed>>

(***************************************************************************)
(* restore_moderated_post                                                  *)
(***************************************************************************)
Restore(p) ==
    IF p \in DOMAIN removed
    THEN LET who == removed[p].author
         IN  /\ post' = Put(post, p, [author |-> who,
                                      likes |-> removed[p].likes])
             /\ authorPosts' = IF Contains(authorPosts[who], p) THEN authorPosts
                               ELSE [authorPosts EXCEPT ![who] = Append(@, p)]
             /\ removed' = Del(removed, p)
    ELSE UNCHANGED <<post, authorPosts, removed>>

ReviewAppeal(m, p, approve) ==
    /\ p \in DOMAIN appeal /\ appeal[p].status = "Pending"
    /\ LET yes == IF approve THEN appeal[p].approvers \cup {m}
                  ELSE appeal[p].approvers
           no  == IF approve THEN appeal[p].rejecters
                  ELSE appeal[p].rejecters \cup {m}
           new(s) == [appeal EXCEPT ![p] = [status |-> s, approvers |-> yes,
                                            rejecters |-> no]]
       IN  \/ /\ Cardinality(yes) >= Threshold
              /\ Restore(p)
              /\ appeal' = new("Approved")
           \/ /\ Cardinality(yes) < Threshold
              /\ appeal' = IF Cardinality(no) >= Threshold THEN new("Rejected")
                           ELSE new("Pending")
              /\ UNCHANGED <<post, authorPosts, removed>>
    /\ UNCHANGED <<postCount, deleted, likeVars, blocks, gone, report,
                   reporters, escrow, paused>>

-------------------------------------------------------------------------------
(***************************************************************************)
(* Cleanup.  Likers are taken from the top slot down, then reporters, then *)
(* tip cooldowns, within one budget; the tombstone goes with the last row. *)
(***************************************************************************)
LeastOf(m, n) == IF m < n THEN m ELSE n

TopLikers(ix, n) ==
    {ix.idx[k] : k \in {j \in DOMAIN ix.idx :
                            j < ix.count /\ ix.count - n =< j}}

DropLikers(ix, n) ==
    [idx   |-> [k \in {j \in DOMAIN ix.idx :
                           ~(j < ix.count /\ ix.count - n =< j)} |-> ix.idx[k]],
     count |-> ix.count - n]

LastReporters(p, n) ==
    {reporters[p][k] : k \in Len(reporters[p]) - n + 1 .. Len(reporters[p])}

(* Mutant: reports are not waited for. *)
CleanupDoneLikesOnly(p, n1, n2) == n1 = likers[p].count

CleanupDone(p, n1, n2) == n1 = likers[p].count /\ n2 = Len(reporters[p])

BatchCleanupPost(p, n, cooldownsLeft) ==
    LET n1  == LeastOf(n, likers[p].count)
        n2  == LeastOf(n - n1, Len(reporters[p]))
        out == {<<p, u>> : u \in LastReporters(p, n2)}
    IN  /\ p \in deleted
        /\ like' = like \ {<<p, u>> : u \in TopLikers(likers[p], n1)}
        /\ likers' = [likers EXCEPT ![p] = DropLikers(@, n1)]
        /\ report' = [r \in DOMAIN report \ out |-> report[r]]
        /\ reporters' = [reporters EXCEPT ![p] = SubSeq(@, 1, Len(@) - n2)]
        /\ deleted' = IF CleanupDone(p, n1, n2) /\ ~cooldownsLeft
                      THEN deleted \ {p} ELSE deleted
        /\ UNCHANGED <<postCount, post, removed, authorPosts, blocks, gone,
                       escrow, appeal, paused>>

(***************************************************************************)
(* delete_profile, as far as posts are concerned: the user's block list    *)
(* goes and the tombstone admits the cleanup below.                        *)
(***************************************************************************)
DeleteProfile(u) ==
    /\ blocks' = {b \in blocks : b[1] # u}
    /\ gone' = gone \cup {u}
    /\ UNCHANGED <<postCount, post, removed, deleted, authorPosts, likeVars,
                   modVars, paused>>

(***************************************************************************)
(* batch_cleanup_profile, authored posts: the last n of the list are       *)
(* tombstoned and lose their Post row and all their like and report rows.  *)
(***************************************************************************)
CleanupAuthoredPosts(u, n, graphLeft) ==
    LET list == authorPosts[u]
        keep == Len(list) - LeastOf(n, Len(list))
        ids  == {list[k] : k \in keep + 1 .. Len(list)}
    IN  /\ u \in gone
        /\ graphLeft => n = 0   \* posts come after the graph entries
        /\ deleted' = deleted \cup ids
        /\ post' = [p \in DOMAIN post \ ids |-> post[p]]
        /\ like' = {l \in like : l[1] \in ids =>
                        l[2] \notin TopLikers(likers[l[1]], likers[l[1]].count)}
        /\ likers' = [p \in Id |->
               IF p \in ids THEN DropLikers(likers[p], likers[p].count)
               ELSE likers[p]]
        /\ report' = [r \in {q \in DOMAIN report : q[1] \in ids =>
                                 ~Contains(reporters[q[1]], q[2])} |-> report[r]]
        /\ reporters' = [p \in Id |-> IF p \in ids THEN <<>> ELSE reporters[p]]
        /\ authorPosts' = [authorPosts EXCEPT ![u] = SubSeq(@, 1, keep)]
        /\ gone' = IF keep = 0 /\ ~graphLeft THEN gone \ {u} ELSE gone
        /\ UNCHANGED <<postCount, removed, blocks, escrow, appeal, paused>>

(***************************************************************************)
(* pause_module and unpause_module move one module, the global flag all of *)
(* them at once, back to whatever the modules' own flags say.              *)
(***************************************************************************)
SetPaused(ms) ==
    /\ ms \subseteq paused \/ paused \subseteq ms
    /\ paused' = ms
    /\ UNCHANGED <<postCount, post, removed, deleted, authorPosts, likeVars,
                   blocks, gone, modVars>>

Next ==
    \/ \E u \in User : CreatePost(u)
    \/ \E u \in User, p \in Id : DeletePost(u, p)
    \/ \E u \in User, p \in Id : LikePost(u, p)
    \/ \E a, b \in User : BlockUser(a, b)
    \/ \E a, b \in User : UnblockUser(a, b)
    \/ \E u \in User, p \in Id : ReportPost(u, p)
    \/ \E u \in User, p \in Id, v \in {"Upheld", "Dismissed"} :
           ReviewReport(p, u, v)
    \/ \E p \in Id : AppealWindowCloses(p)
    \/ \E u \in User, p \in Id : AppealModeration(u, p)
    \/ \E m \in Mod, p \in Id, a \in BOOLEAN : ReviewAppeal(m, p, a)
    \/ \E p \in Id, n \in 0 .. MaxEntries, c \in BOOLEAN :
           BatchCleanupPost(p, n, c)
    \/ \E u \in User : DeleteProfile(u)
    \/ \E u \in User, n \in 0 .. MaxEntries, g \in BOOLEAN :
           CleanupAuthoredPosts(u, n, g)
    \/ \E ms \in SUBSET Module : SetPaused(ms)

Spec == Init /\ [][Next]_vars

-------------------------------------------------------------------------------
(***************************************************************************)
(* Properties                                                              *)
(***************************************************************************)
LikersOf(p) == {u \in User : <<p, u>> \in like}

(***************************************************************************)
(* tests/invariant_social_graph.rs: like_count is the number of distinct   *)
(* likers; here with the index behind it, for live posts and for snapshots *)
(* a successful appeal would bring back, through blocks and cleanups.      *)
(***************************************************************************)
LikesMatch(p, n) ==
    /\ n = Cardinality(LikersOf(p)) /\ likers[p].count = n
    /\ DOMAIN likers[p].idx = 0 .. n - 1
    /\ {likers[p].idx[k] : k \in 0 .. n - 1} = LikersOf(p)

LikeCountExact ==
    /\ \A p \in DOMAIN post : LikesMatch(p, post[p].likes)
    /\ \A p \in DOMAIN removed : LikesMatch(p, removed[p].likes)

(***************************************************************************)
(* Every live post is listed once under its author, and nothing else is:   *)
(* deletion, moderation and restore keep AuthorPosts in step with Post.    *)
(***************************************************************************)
AuthorListExact ==
    \A u \in User :
        /\ ToSet(authorPosts[u]) = {p \in DOMAIN post : post[p].author = u}
        /\ IsInjective(authorPosts[u])

(***************************************************************************)
(* A post is live, removed by moderation, or tombstoned, never two of      *)
(* these; so no cleanup can eat the rows of a post that is still readable. *)
(***************************************************************************)
OneLifeStage ==
    /\ DOMAIN post \cap DOMAIN removed = {}
    /\ DOMAIN post \cap deleted = {}
    /\ DOMAIN removed \cap deleted = {}

(***************************************************************************)
(* ADR-002: when the tombstone of a post is gone, so are all like and      *)
(* report rows that point at it.                                           *)
(***************************************************************************)
NothingOrphaned ==
    \A p \in Id :
        p \notin DOMAIN post \cup DOMAIN removed \cup deleted
            => LikersOf(p) = {} /\ {r \in DOMAIN report : r[1] = p} = {}

(***************************************************************************)
(* ADR-002: ids are never recycled.  A post that was deleted, by its       *)
(* author or with the author's profile, is never readable again; only a    *)
(* moderated one can come back.                                            *)
(***************************************************************************)
DeletedStaysDeleted ==
    [][\A p \in 1 .. postCount :
           p \in DOMAIN post' => p \in DOMAIN post \cup DOMAIN removed]_vars

Pending == {r \in DOMAIN report : report[r] = "Pending"}

(***************************************************************************)
(* Every stake a pending report can still claim is covered by tokens the   *)
(* contract holds.                                                         *)
(***************************************************************************)
EscrowCoversReports == escrow >= Cardinality(Pending)

AcrossBlock(l) ==
    \/ Blocked(post[l[1]].author, l[2])
    \/ Blocked(l[2], post[l[1]].author)

(***************************************************************************)
(* block_user is a clean break: no like on a live post joins two users one *)
(* of whom blocks the other, whatever the order of likes, blocks, reports  *)
(* and cleanups.  Posts that an appeal brought back are excepted: while    *)
(* they are removed, cleanup_likes_on_block does not see their likes.      *)
(***************************************************************************)
NoLikeAcrossBlockUnlessRestored ==
    \A l \in like :
        Live(l[1]) /\ l[1] \notin DOMAIN appeal => ~AcrossBlock(l)

(***************************************************************************)
(* What the post rows say together after any sequence of calls: their      *)
(* shape, one life stage per post, and author lists of the live posts.     *)
(***************************************************************************)
PostsConsistent == TypeOK /\ OneLifeStage /\ AuthorListExact
================================================================================
