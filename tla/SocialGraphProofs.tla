--------------------------- MODULE SocialGraphProofs ---------------------------
(***************************************************************************)
(* Theorems about SocialGraph for any set of users and names.              *)
(***************************************************************************)
EXTENDS SocialGraph, FiniteSetTheorems, TLAPS

-------------------------------------------------------------------------------
(***************************************************************************)
(* The rows of one index: what each operation does to the set of addresses *)
(* they enumerate                                                          *)
(***************************************************************************)

(***************************************************************************)
(* Rows are well formed after every operation, even on rows that enumerate *)
(* nothing in particular.                                                  *)
(***************************************************************************)
LEMMA NoRowsOK == IndexOK(NoRows) /\ Enumerates(NoRows, {})
  BY DEF IndexOK, NoRows, Enumerates

LEMMA AppendToOK ==
    ASSUME NEW ix, IndexOK(ix), NEW v \in User
    PROVE  IndexOK(AppendTo(ix, v))
  BY DEF IndexOK, AppendTo, Put

LEMMA ResetCountOK ==
    ASSUME NEW ix, IndexOK(ix)
    PROVE  IndexOK(ResetCount(ix))
  BY DEF IndexOK, ResetCount

LEMMA SwapRemoveOK ==
    ASSUME NEW ix, IndexOK(ix), NEW v \in User, SwapRemoveSucceeds(ix, v)
    PROVE  IndexOK(SwapRemove(ix, v))
  <1>1. CASE ix.count = 0
    BY <1>1 DEF SwapRemove
  <1>2. CASE ix.count # 0
    <2> DEFINE last  == ix.count - 1
               slot  == ix.pos[v]
               moved == ix.idx[last]
               new   == SwapRemove(ix, v)
    <2>1. /\ last \in Nat /\ slot \in Nat
          /\ slot # last => last \in DOMAIN ix.idx /\ moved \in User
      BY <1>2 DEF IndexOK, SwapRemoveSucceeds
    <2>2. CASE slot = last
      <3>1. new = [idx |-> Del(ix.idx, last), pos |-> Del(ix.pos, v),
                   count |-> last, counted |-> last # 0]
        BY <1>2, <2>2 DEF SwapRemove
      <3> QED
        BY <3>1, <2>1 DEF IndexOK, Del
    <2>3. CASE slot # last
      <3>1. new = [idx |-> Del(Put(ix.idx, slot, moved), last),
                   pos |-> Del(Put(ix.pos, moved, slot), v),
                   count |-> last, counted |-> last # 0]
        BY <1>2, <2>3 DEF SwapRemove
      <3> QED
        BY <3>1, <2>1, <2>3 DEF IndexOK, Del, Put
    <2> QED
      BY <2>2, <2>3
  <1> QED
    BY <1>1, <1>2

LEMMA DropTopOK ==
    ASSUME NEW ix, IndexOK(ix), NEW n \in Nat
    PROVE  IndexOK(DropTop(ix, n))
  BY DEF IndexOK, DropTop

-------------------------------------------------------------------------------
(***************************************************************************)
(* follow() adds exactly the new neighbour.                                *)
(***************************************************************************)
LEMMA AppendToEnumerates ==
    ASSUME NEW ix, IndexOK(ix), NEW S, Enumerates(ix, S),
           NEW v \in User, v \notin S
    PROVE  Enumerates(AppendTo(ix, v), S \cup {v})
  <1> DEFINE new == AppendTo(ix, v)
  <1>1. /\ DOMAIN new.idx = 0 .. new.count - 1
        /\ DOMAIN new.pos = S \cup {v}
    BY DEF AppendTo, Put, Enumerates, IndexOK
  <1>2. \A k \in DOMAIN new.idx :
            new.idx[k] \in S \cup {v} /\ new.pos[new.idx[k]] = k
    BY DEF AppendTo, Put, Enumerates, IndexOK
  <1>3. \A w \in S \cup {v} :
            new.pos[w] \in DOMAIN new.idx /\ new.idx[new.pos[w]] = w
    BY DEF AppendTo, Put, Enumerates, IndexOK
  <1> QED
    BY <1>1, <1>2, <1>3 DEF Enumerates

(***************************************************************************)
(* Swap-remove never panics on rows that enumerate the neighbour ...       *)
(***************************************************************************)
LEMMA EnumeratesSwapRemoves ==
    ASSUME NEW ix, IndexOK(ix), NEW S, Enumerates(ix, S), NEW v \in S
    PROVE  SwapRemoveSucceeds(ix, v) /\ ix.count > 0
  BY DEF IndexOK, Enumerates, SwapRemoveSucceeds

(***************************************************************************)
(* ... and removes exactly that one, leaving no gap behind.                *)
(***************************************************************************)
LEMMA SwapRemoveEnumerates ==
    ASSUME NEW ix, IndexOK(ix), NEW S, Enumerates(ix, S), NEW v \in S
    PROVE  Enumerates(SwapRemove(ix, v), S \ {v})
  <1> DEFINE last  == ix.count - 1
             slot  == ix.pos[v]
             moved == ix.idx[last]
             new   == SwapRemove(ix, v)
  <1>1. /\ ix.count > 0 /\ last \in DOMAIN ix.idx /\ slot \in DOMAIN ix.idx
        /\ last \in Nat /\ moved \in S /\ ix.pos[moved] = last
        /\ ix.idx[slot] = v /\ slot \in Nat
        /\ DOMAIN ix.idx = 0 .. last /\ DOMAIN ix.pos = S
    BY DEF IndexOK, Enumerates
  <1>2. \A k \in DOMAIN ix.idx : ix.idx[k] \in S /\ ix.pos[ix.idx[k]] = k
    BY DEF Enumerates
  <1>3. \A w \in S : ix.pos[w] \in DOMAIN ix.idx /\ ix.idx[ix.pos[w]] = w
    BY DEF Enumerates
  <1>4. CASE slot = last
    <2>1. new = [idx |-> Del(ix.idx, last), pos |-> Del(ix.pos, v),
                 count |-> last, counted |-> last # 0]
      BY <1>1, <1>4 DEF SwapRemove
    <2> QED
      BY <2>1, <1>1, <1>2, <1>3, <1>4 DEF Del, Enumerates
  <1>5. CASE slot # last
    <2>1. new = [idx |-> Del(Put(ix.idx, slot, moved), last),
                 pos |-> Del(Put(ix.pos, moved, slot), v),
                 count |-> last, counted |-> last # 0]
      BY <1>1, <1>5 DEF SwapRemove
    <2>2. moved # v
      BY <1>1, <1>5
    <2>3. /\ DOMAIN new.idx = 0 .. last - 1
          /\ DOMAIN new.pos = S \ {v}
      BY <2>1, <2>2, <1>1, <1>5 DEF Del, Put
    <2>4. \A k \in 0 .. last - 1 :
              new.idx[k] = IF k = slot THEN moved ELSE ix.idx[k]
      BY <2>1, <1>1, <1>5 DEF Del, Put
    <2>5. \A w \in S \ {v} :
              new.pos[w] = IF w = moved THEN slot ELSE ix.pos[w]
      BY <2>1, <2>2, <1>1 DEF Del, Put
    <2>6. \A k \in DOMAIN new.idx :
              new.idx[k] \in S \ {v} /\ new.pos[new.idx[k]] = k
      <3> SUFFICES ASSUME NEW k \in 0 .. last - 1
                   PROVE  new.idx[k] \in S \ {v} /\ new.pos[new.idx[k]] = k
        BY <2>3
      <3>1. CASE k = slot
        BY <3>1, <2>2, <2>4, <2>5, <1>1
      <3>2. CASE k # slot
        <4>1. new.idx[k] = ix.idx[k] /\ k \in DOMAIN ix.idx /\ k # last
          BY <3>2, <2>4, <1>1
        <4>2. /\ ix.idx[k] \in S /\ ix.pos[ix.idx[k]] = k
              /\ ix.idx[k] # v /\ ix.idx[k] # moved
          BY <4>1, <3>2, <1>1, <1>2
        <4> QED
          BY <4>1, <4>2, <2>5
      <3> QED
        BY <3>1, <3>2
    <2>7. \A w \in S \ {v} :
              new.pos[w] \in DOMAIN new.idx /\ new.idx[new.pos[w]] = w
      BY <2>2, <2>3, <2>4, <2>5, <1>1, <1>3, <1>5
    <2>8. new.count = last
      BY <2>1
    <2> QED
      BY <2>3, <2>6, <2>7, <2>8 DEF Enumerates
  <1> QED
    BY <1>4, <1>5

(***************************************************************************)
(* The cleanup loop removes exactly the addresses found in the top slots.  *)
(***************************************************************************)
LEMMA DropTopEnumerates ==
    ASSUME NEW ix, IndexOK(ix), NEW S, Enumerates(ix, S),
           NEW n \in Nat, n =< ix.count
    PROVE  /\ TopUsers(ix, n) \subseteq S
           /\ Enumerates(DropTop(ix, n), S \ TopUsers(ix, n))
           /\ DropTop(ix, n).count = ix.count - n
  <1> DEFINE new == DropTop(ix, n)
             rest == ix.count - n
  <1>1. /\ ix.count \in Nat /\ rest \in Nat
        /\ DOMAIN ix.idx = 0 .. ix.count - 1 /\ DOMAIN ix.pos = S
    BY DEF IndexOK, Enumerates
  <1>2. \A k \in DOMAIN ix.idx : ix.idx[k] \in S /\ ix.pos[ix.idx[k]] = k
    BY DEF Enumerates
  <1>3. \A w \in S : ix.pos[w] \in DOMAIN ix.idx /\ ix.idx[ix.pos[w]] = w
    BY DEF Enumerates
  <1>4. TopSlots(ix, n) = rest .. ix.count - 1
    BY <1>1 DEF TopSlots
  <1>5. \A w \in S : w \in TopUsers(ix, n) <=> ix.pos[w] >= rest
    BY <1>1, <1>2, <1>3, <1>4 DEF TopUsers
  <1>6. TopUsers(ix, n) \subseteq S
    BY <1>1, <1>2, <1>4 DEF TopUsers
  <1>7. /\ DOMAIN new.idx = 0 .. rest - 1
        /\ DOMAIN new.pos = S \ TopUsers(ix, n)
        /\ new.count = rest
    BY <1>1, <1>4 DEF DropTop
  <1>8. /\ \A k \in DOMAIN new.idx : new.idx[k] = ix.idx[k]
        /\ \A w \in DOMAIN new.pos : new.pos[w] = ix.pos[w]
    BY <1>7 DEF DropTop
  <1>9. \A k \in DOMAIN new.idx : /\ new.idx[k] \in S \ TopUsers(ix, n)
                                  /\ new.pos[new.idx[k]] = k
    <2> SUFFICES ASSUME NEW k \in 0 .. rest - 1
                 PROVE  /\ new.idx[k] \in S \ TopUsers(ix, n)
                        /\ new.pos[new.idx[k]] = k
      BY <1>7
    <2>1. new.idx[k] = ix.idx[k] /\ k \in DOMAIN ix.idx
      BY <1>1, <1>7, <1>8
    <2>2. ix.idx[k] \in S /\ ix.pos[ix.idx[k]] = k
      BY <2>1, <1>2
    <2>3. ix.idx[k] \notin TopUsers(ix, n)
      BY <2>2, <1>1, <1>5
    <2> QED
      BY <2>1, <2>2, <2>3, <1>7, <1>8
  <1>10. \A w \in S \ TopUsers(ix, n) : /\ new.pos[w] \in DOMAIN new.idx
                                        /\ new.idx[new.pos[w]] = w
    <2> SUFFICES ASSUME NEW w \in S \ TopUsers(ix, n)
                 PROVE  /\ new.pos[w] \in DOMAIN new.idx
                        /\ new.idx[new.pos[w]] = w
      OBVIOUS
    <2>1. /\ ix.pos[w] \in DOMAIN ix.idx /\ ix.idx[ix.pos[w]] = w
          /\ ~(ix.pos[w] >= rest)
      BY <1>3, <1>5
    <2>2. ix.pos[w] \in 0 .. rest - 1
      BY <2>1, <1>1
    <2> QED
      BY <2>1, <2>2, <1>7, <1>8
  <1> QED
    BY <1>6, <1>7, <1>9, <1>10 DEF Enumerates

(***************************************************************************)
(* A zero count means no neighbour, and writing it again changes nothing.  *)
(***************************************************************************)
LEMMA ResetCountEnumerates ==
    ASSUME NEW ix, IndexOK(ix), NEW S, Enumerates(ix, S), ix.count = 0
    PROVE  S = {} /\ Enumerates(ResetCount(ix), S)
  BY DEF Enumerates, IndexOK, ResetCount

(***************************************************************************)
(* A page that spans the count holds every neighbour and nobody else.      *)
(***************************************************************************)
LEMMA FullPage ==
    ASSUME NEW ix, IndexOK(ix), NEW S, Enumerates(ix, S)
    PROVE  PageOf(ix, 0, ix.count) = S
  BY DEF PageOf, Enumerates, IndexOK

-------------------------------------------------------------------------------
(***************************************************************************)
(* The contract                                                            *)
(***************************************************************************)

(***************************************************************************)
(* Row families and profile tables keep their shape through every call,    *)
(* also on rows that set_profile has left inconsistent.                    *)
(***************************************************************************)
LEMMA TypeStep == TypeOK /\ [Next]_vars => TypeOK'
  <1> SUFFICES ASSUME TypeOK, [Next]_vars PROVE TypeOK'
    OBVIOUS
  <1> USE DEF TypeOK
  <1>1. ASSUME NEW u \in User, NEW n \in Name, SetProfile(u, n)
        PROVE  TypeOK'
    <2>1. CASE HasProfile(u)
      BY <1>1, <2>1 DEF SetProfile, OwnersAfter, RegisterIfNew
    <2>2. CASE ~HasProfile(u)
      <3>1. /\ IndexOK(ResetCount(following[u]))
            /\ IndexOK(ResetCount(followers[u]))
        BY ResetCountOK
      <3> QED
        BY <1>1, <2>2, <3>1 DEF SetProfile, OwnersAfter, RegisterIfNew
    <2> QED
      BY <2>1, <2>2
  <1>2. ASSUME NEW u \in User, DeleteProfile(u)
        PROVE  TypeOK'
    BY <1>2 DEF DeleteProfile, HasProfile, graphVars
  <1>3. ASSUME NEW a \in User, NEW b \in User, Follow(a, b)
        PROVE  TypeOK'
    <2>1. IndexOK(AppendTo(following[a], b)) /\ IndexOK(AppendTo(followers[b], a))
      BY AppendToOK
    <2> QED
      BY <1>3, <2>1 DEF Follow, profileVars, graphVars
  <1>4. ASSUME NEW a \in User, NEW b \in User, Unfollow(a, b)
        PROVE  TypeOK'
    <2>1. CASE <<a, b>> \notin edge
      BY <1>4, <2>1 DEF Unfollow, profileVars, graphVars
    <2>2. CASE <<a, b>> \in edge
      <3>1. /\ IndexOK(SwapRemove(following[a], b))
            /\ IndexOK(SwapRemove(followers[b], a))
        BY <1>4, <2>2, SwapRemoveOK DEF Unfollow
      <3> QED
        BY <1>4, <2>2, <3>1 DEF Unfollow, profileVars
    <2> QED
      BY <2>1, <2>2
  <1>5. ASSUME NEW a \in User, NEW b \in User, BlockUser(a, b)
        PROVE  TypeOK'
    <2> DEFINE gone == EdgesBetween(a, b)
    <2>1. /\ <<a, b>> \in gone => /\ IndexOK(SwapRemove(following[a], b))
                                  /\ IndexOK(SwapRemove(followers[b], a))
          /\ <<b, a>> \in gone => /\ IndexOK(SwapRemove(following[b], a))
                                  /\ IndexOK(SwapRemove(followers[a], b))
      BY <1>5, SwapRemoveOK DEF BlockUser, CleanupFollowOnBlock, EdgesBetween
    <2>2. DOMAIN following' = User /\ DOMAIN followers' = User
      BY <1>5 DEF BlockUser, CleanupFollowOnBlock
    <2>3. \A u \in User : IndexOK(following'[u]) /\ IndexOK(followers'[u])
      BY <1>5, <2>1 DEF BlockUser, CleanupFollowOnBlock
    <2>4. edge' \in SUBSET (User \X User) /\ blocks' \in SUBSET (User \X User)
      BY <1>5 DEF BlockUser, CleanupFollowOnBlock
    <2> QED
      BY <1>5, <2>2, <2>3, <2>4 DEF BlockUser, profileVars
  <1>6. ASSUME NEW a \in User, NEW b \in User, UnblockUser(a, b)
        PROVE  TypeOK'
    BY <1>6 DEF UnblockUser, profileVars, graphVars
  <1>7. ASSUME NEW u \in User, NEW n \in 0 .. MaxEntries, NEW p \in BOOLEAN,
               BatchCleanupProfile(u, n, p)
        PROVE  TypeOK'
    <2> DEFINE n1   == LeastOf(n, followers[u].count)
               n2   == LeastOf(n - n1, following[u].count)
               from == TopUsers(followers[u], n1)
               to   == TopUsers(following[u], n2)
    <2>1. n1 \in Nat /\ n2 \in Nat
      BY MaxEntriesIsNat DEF LeastOf, IndexOK
    <2>2. /\ IndexOK(DropTop(followers[u], n1))
          /\ IndexOK(DropTop(following[u], n2))
      BY <2>1, DropTopOK
    <2>3. /\ \A v \in from : v \in User => IndexOK(SwapRemove(following[v], u))
          /\ \A v \in to : v \in User => IndexOK(SwapRemove(followers[v], u))
      BY <1>7, SwapRemoveOK DEF BatchCleanupProfile
    <2>4. DOMAIN following' = User /\ DOMAIN followers' = User
      BY <1>7 DEF BatchCleanupProfile
    <2>5. \A v \in User : IndexOK(following'[v]) /\ IndexOK(followers'[v])
      BY <1>7, <2>2, <2>3 DEF BatchCleanupProfile
    <2>6. edge' \in SUBSET (User \X User) /\ deleted' \in SUBSET User
      BY <1>7 DEF BatchCleanupProfile
    <2> QED
      BY <1>7, <2>4, <2>5, <2>6 DEF BatchCleanupProfile
  <1>8. ASSUME NEW p \in BOOLEAN, SetPaused(p)
        PROVE  TypeOK'
    BY <1>8 DEF SetPaused, profileVars, graphVars
  <1>9. CASE UNCHANGED vars
    BY <1>9 DEF vars, profileVars, graphVars
  <1> QED
    BY <1>1, <1>2, <1>3, <1>4, <1>5, <1>6, <1>7, <1>8, <1>9 DEF Next

LEMMA TypeInit == Init => TypeOK
  <1> SUFFICES ASSUME Init PROVE TypeOK
    OBVIOUS
  <1>1. \A u \in User : following[u] = NoRows /\ followers[u] = NoRows
    BY DEF Init
  <1>2. \A u \in User : IndexOK(following[u]) /\ IndexOK(followers[u])
    BY <1>1, NoRowsOK
  <1> QED
    BY <1>2 DEF Init, TypeOK

(***************************************************************************)
(* Type correctness of the contract's social state.                        *)
(***************************************************************************)
THEOREM TypeCorrect == Spec => []TypeOK
  BY TypeInit, TypeStep, PTL DEF Spec

-------------------------------------------------------------------------------
(***************************************************************************)
(* Profiles                                                                *)
(***************************************************************************)

(***************************************************************************)
(* Usernames and profiles stay inverse to each other.                      *)
(***************************************************************************)
LEMMA UsernameStep ==
    TypeOK /\ UsernameIndexExact /\ [Next]_vars => UsernameIndexExact'
  <1> SUFFICES ASSUME TypeOK, UsernameIndexExact, [Next]_vars
               PROVE  UsernameIndexExact'
    OBVIOUS
  <1> USE NamesAreDistinct DEF TypeOK, UsernameIndexExact
  <1>1. ASSUME NEW u \in User, NEW n \in Name, SetProfile(u, n)
        PROVE  UsernameIndexExact'
    <2> SUFFICES ASSUME NEW w \in User, NEW m \in Name
                 PROVE  username'[w] = m <=> owner'[m] = w
      OBVIOUS
    <2>1. CASE m = n
      BY <1>1, <2>1 DEF SetProfile, OwnersAfter, RegisterIfNew
    <2>2. CASE m # n
      BY <1>1, <2>2 DEF SetProfile, OwnersAfter, RegisterIfNew
    <2> QED
      BY <2>1, <2>2
  <1>2. ASSUME NEW u \in User, DeleteProfile(u)
        PROVE  UsernameIndexExact'
    BY <1>2 DEF DeleteProfile, HasProfile
  <1>3. CASE UNCHANGED <<username, owner>>
    BY <1>3
  <1> QED
    BY <1>1, <1>2, <1>3
    DEF Next, Follow, Unfollow, BlockUser, UnblockUser, BatchCleanupProfile,
        SetPaused, vars, profileVars

(***************************************************************************)
(* No username resolves to an address that gave it up, and none is shared. *)
(***************************************************************************)
THEOREM UsernamesExact == Spec => []UsernameIndexExact
  <1>1. Init => UsernameIndexExact
    BY NamesAreDistinct DEF Init, UsernameIndexExact
  <1> QED
    BY <1>1, UsernameStep, TypeCorrect, PTL DEF Spec

(***************************************************************************)
(* The registry and the profile counter, with the finiteness the counter's *)
(* meaning needs.                                                          *)
(***************************************************************************)
RegistryInv == RegistryExact /\ IsFiniteSet(registered)

LEMMA RegistryStep ==
    TypeOK /\ RegistryInv /\ [Next]_vars => RegistryInv'
  <1> SUFFICES ASSUME TypeOK, RegistryInv, [Next]_vars
               PROVE  RegistryInv'
    OBVIOUS
  <1> USE NamesAreDistinct DEF TypeOK, RegistryInv, RegistryExact, HasProfile
  <1>1. ASSUME NEW u \in User, NEW n \in Name, SetProfile(u, n)
        PROVE  RegistryInv'
    <2>1. CASE HasProfile(u)
      BY <1>1, <2>1 DEF SetProfile, OwnersAfter, RegisterIfNew
    <2>2. CASE ~HasProfile(u)
      <3>1. u \notin registered /\ registered' = registered \cup {u}
        BY <1>1, <2>2 DEF SetProfile, OwnersAfter, RegisterIfNew
      <3>2. /\ IsFiniteSet(registered \cup {u})
            /\ Cardinality(registered \cup {u}) = Cardinality(registered) + 1
        BY <3>1, FS_AddElement
      <3>3. registered' = {w \in User : username'[w] # NoName}
        BY <1>1, <3>1 DEF SetProfile, OwnersAfter, RegisterIfNew
      <3> QED
        BY <1>1, <2>2, <3>1, <3>2, <3>3 DEF SetProfile, OwnersAfter, RegisterIfNew
    <2> QED
      BY <2>1, <2>2
  <1>2. ASSUME NEW u \in User, DeleteProfile(u)
        PROVE  RegistryInv'
    <2>1. u \in registered /\ registered' = registered \ {u}
      BY <1>2 DEF DeleteProfile
    <2>2. /\ IsFiniteSet(registered \ {u})
          /\ Cardinality(registered \ {u}) = Cardinality(registered) - 1
      BY <2>1, FS_RemoveElement
    <2>3. Cardinality(registered) \in Nat /\ Cardinality(registered \ {u}) \in Nat
      BY <2>2, FS_CardinalityType
    <2>4. profileCount' = profileCount - 1
      BY <1>2, <2>2, <2>3 DEF DeleteProfile
    <2>5. registered' = {w \in User : username'[w] # NoName}
      BY <1>2, <2>1 DEF DeleteProfile
    <2> QED
      BY <2>1, <2>2, <2>4, <2>5
  <1>3. CASE UNCHANGED <<username, registered, profileCount>>
    BY <1>3
  <1> QED
    BY <1>1, <1>2, <1>3
    DEF Next, Follow, Unfollow, BlockUser, UnblockUser, BatchCleanupProfile,
        SetPaused, vars, profileVars

(***************************************************************************)
(* The registry follow() consults holds exactly the users with a profile,  *)
(* and get_profile_count is their number.                                  *)
(***************************************************************************)
THEOREM RegistryCorrect == Spec => []RegistryExact
  <1>1. Init => RegistryInv
    BY FS_EmptySet DEF Init, RegistryInv, RegistryExact, HasProfile
  <1>2. RegistryInv => RegistryExact
    BY DEF RegistryInv
  <1> QED
    BY <1>1, <1>2, RegistryStep, TypeCorrect, PTL DEF Spec

(***************************************************************************)
(* The rows of set_profile and delete_profile agree after every sequence   *)
(* of calls, for any number of users and names.                            *)
(***************************************************************************)
THEOREM ProfilesStayExact == Spec => []ProfilesExact
  <1>1. TypeOK /\ UsernameIndexExact /\ RegistryExact => ProfilesExact
    BY DEF ProfilesExact
  <1> QED
    BY <1>1, TypeCorrect, UsernamesExact, RegistryCorrect, PTL

-------------------------------------------------------------------------------
(***************************************************************************)
(* Blocks                                                                  *)
(***************************************************************************)

LEMMA BlockStep ==
    TypeOK /\ NoEdgeAcrossBlock /\ [Next]_vars => NoEdgeAcrossBlock'
  <1> SUFFICES ASSUME TypeOK, NoEdgeAcrossBlock, [Next]_vars
               PROVE  NoEdgeAcrossBlock'
    OBVIOUS
  <1> USE DEF NoEdgeAcrossBlock, EdgesBetween
  <1>1. ASSUME NEW a \in User, NEW b \in User, Follow(a, b)
        PROVE  NoEdgeAcrossBlock'
    <2>1. <<a, b>> \notin blocks /\ <<b, a>> \notin blocks
      BY <1>1 DEF Follow, FollowAllowed, Blocked
    <2>2. blocks' = blocks /\ edge' \subseteq edge \cup {<<a, b>>}
      BY <1>1 DEF Follow, graphVars
    <2> QED
      BY <2>1, <2>2
  <1>2. ASSUME NEW a \in User, NEW b \in User, BlockUser(a, b)
        PROVE  NoEdgeAcrossBlock'
    BY <1>2 DEF BlockUser, CleanupFollowOnBlock
  <1>3. CASE blocks' \subseteq blocks /\ edge' \subseteq edge
    BY <1>3
  <1>4. ASSUME NEW u \in User, NEW n \in Name, SetProfile(u, n)
        PROVE  blocks' \subseteq blocks /\ edge' \subseteq edge
    BY <1>4 DEF SetProfile, OwnersAfter, RegisterIfNew
  <1>5. ASSUME NEW u \in User, DeleteProfile(u)
        PROVE  blocks' \subseteq blocks /\ edge' \subseteq edge
    BY <1>5 DEF DeleteProfile, graphVars
  <1>6. ASSUME NEW a \in User, NEW b \in User,
               Unfollow(a, b) \/ UnblockUser(a, b)
        PROVE  blocks' \subseteq blocks /\ edge' \subseteq edge
    BY <1>6 DEF Unfollow, UnblockUser, graphVars
  <1>7. ASSUME NEW u \in User, NEW n \in 0 .. MaxEntries, NEW p \in BOOLEAN,
               BatchCleanupProfile(u, n, p)
        PROVE  blocks' \subseteq blocks /\ edge' \subseteq edge
    BY <1>7 DEF BatchCleanupProfile
  <1>8. ASSUME NEW p \in BOOLEAN, SetPaused(p)
        PROVE  blocks' \subseteq blocks /\ edge' \subseteq edge
    BY <1>8 DEF SetPaused, graphVars
  <1>9. UNCHANGED vars => blocks' \subseteq blocks /\ edge' \subseteq edge
    BY DEF vars, graphVars
  <1> QED
    BY <1>1, <1>2, <1>3, <1>4, <1>5, <1>6, <1>7, <1>8, <1>9 DEF Next

(***************************************************************************)
(* block_user is a clean break that no later call undoes.                  *)
(***************************************************************************)
THEOREM BlockIsCleanBreak == Spec => []NoEdgeAcrossBlock
  <1>1. Init => NoEdgeAcrossBlock
    BY DEF Init, NoEdgeAcrossBlock
  <1> QED
    BY <1>1, BlockStep, TypeCorrect, PTL DEF Spec

-------------------------------------------------------------------------------
(***************************************************************************)
(* The adjacency sets.  Consistency of the rows is inductive together with *)
(* the absence of self-edges: cleaning up a user who followed itself would *)
(* swap-remove in the very index it is emptying.                           *)
(***************************************************************************)
NoSelfEdge == \A u \in User : <<u, u>> \notin edge

GraphInv == GraphConsistent /\ NoSelfEdge

CleanNext == Next /\ CleanRegistration

LEMMA GraphSetProfile ==
    ASSUME TypeOK, GraphInv, NEW u \in User, NEW n \in Name,
           RegistryExact, SetProfile(u, n), CleanRegistration
    PROVE  GraphInv'
  <1> USE DEF GraphInv, GraphConsistent, NoSelfEdge
  <1>1. edge' = edge
    BY DEF SetProfile, OwnersAfter, RegisterIfNew
  <1>2. \A w \in User : Followees(w)' = Followees(w) /\ FollowersOf(w)' = FollowersOf(w)
    BY <1>1 DEF Followees, FollowersOf
  <1>3. CASE HasProfile(u)
    BY <1>1, <1>2, <1>3 DEF SetProfile, OwnersAfter, RegisterIfNew
  <1>4. CASE ~HasProfile(u)
    <2>1. u \in registered' \ registered
      BY <1>4 DEF SetProfile, OwnersAfter, RegisterIfNew, RegistryExact
    <2>2. /\ following[u].count = 0 /\ followers[u].count = 0
          /\ IndexOK(following[u]) /\ IndexOK(followers[u])
      BY <2>1 DEF CleanRegistration, HasRows, TypeOK, IndexOK
    <2>3. /\ Enumerates(ResetCount(following[u]), Followees(u))
          /\ Enumerates(ResetCount(followers[u]), FollowersOf(u))
      BY <2>2, ResetCountEnumerates
    <2>4. \A w \in User :
              /\ following'[w] = IF w = u THEN ResetCount(following[u])
                                         ELSE following[w]
              /\ followers'[w] = IF w = u THEN ResetCount(followers[u])
                                         ELSE followers[w]
      BY <1>4 DEF SetProfile, OwnersAfter, RegisterIfNew, TypeOK
    <2> QED
      BY <1>1, <1>2, <2>3, <2>4
  <1> QED
    BY <1>3, <1>4

LEMMA GraphFollow ==
    ASSUME TypeOK, GraphInv, NEW a \in User, NEW b \in User, Follow(a, b)
    PROVE  GraphInv'
  <1> USE DEF GraphInv, GraphConsistent, NoSelfEdge
  <1>1. CASE <<a, b>> \in edge
    BY <1>1 DEF Follow, graphVars, Followees, FollowersOf
  <1>2. CASE <<a, b>> \notin edge
    <2>1. a # b /\ edge' = edge \cup {<<a, b>>}
      BY <1>2 DEF Follow, FollowAllowed
    <2>2. \A w \in User :
              /\ following'[w] = IF w = a THEN AppendTo(following[a], b)
                                         ELSE following[w]
              /\ followers'[w] = IF w = b THEN AppendTo(followers[b], a)
                                         ELSE followers[w]
      BY <1>2 DEF Follow, TypeOK
    <2>3. \A w \in User :
              /\ Followees(w)' = IF w = a THEN Followees(a) \cup {b}
                                         ELSE Followees(w)
              /\ FollowersOf(w)' = IF w = b THEN FollowersOf(b) \cup {a}
                                           ELSE FollowersOf(w)
      BY <2>1 DEF Followees, FollowersOf
    <2>4. b \notin Followees(a) /\ a \notin FollowersOf(b)
      BY <1>2 DEF Followees, FollowersOf
    <2>5. /\ Enumerates(AppendTo(following[a], b), Followees(a) \cup {b})
          /\ Enumerates(AppendTo(followers[b], a), FollowersOf(b) \cup {a})
      BY <2>4, AppendToEnumerates DEF TypeOK
    <2>6. GraphConsistent'
      BY <2>2, <2>3, <2>5
    <2> QED
      BY <2>1, <2>6
  <1> QED
    BY <1>1, <1>2

LEMMA GraphUnfollow ==
    ASSUME TypeOK, GraphInv, NEW a \in User, NEW b \in User, Unfollow(a, b)
    PROVE  GraphInv'
  <1> USE DEF GraphInv, GraphConsistent, NoSelfEdge
  <1>1. CASE <<a, b>> \notin edge
    BY <1>1 DEF Unfollow, graphVars, Followees, FollowersOf
  <1>2. CASE <<a, b>> \in edge
    <2>1. edge' = edge \ {<<a, b>>}
      BY <1>2 DEF Unfollow
    <2>2. \A w \in User :
              /\ following'[w] = IF w = a THEN SwapRemove(following[a], b)
                                         ELSE following[w]
              /\ followers'[w] = IF w = b THEN SwapRemove(followers[b], a)
                                         ELSE followers[w]
      BY <1>2 DEF Unfollow, TypeOK
    <2>3. \A w \in User :
              /\ Followees(w)' = IF w = a THEN Followees(a) \ {b}
                                         ELSE Followees(w)
              /\ FollowersOf(w)' = IF w = b THEN FollowersOf(b) \ {a}
                                           ELSE FollowersOf(w)
      BY <2>1 DEF Followees, FollowersOf
    <2>4. b \in Followees(a) /\ a \in FollowersOf(b)
      BY <1>2 DEF Followees, FollowersOf
    <2>5. /\ Enumerates(SwapRemove(following[a], b), Followees(a) \ {b})
          /\ Enumerates(SwapRemove(followers[b], a), FollowersOf(b) \ {a})
      BY <2>4, SwapRemoveEnumerates DEF TypeOK
    <2>6. GraphConsistent'
      BY <2>2, <2>3, <2>5
    <2> QED
      BY <2>1, <2>6
  <1> QED
    BY <1>1, <1>2

LEMMA GraphBlock ==
    ASSUME TypeOK, GraphInv, NEW a \in User, NEW b \in User, BlockUser(a, b)
    PROVE  GraphInv'
  <1> USE DEF GraphInv, GraphConsistent, NoSelfEdge
  <1> DEFINE ab == <<a, b>> \in edge
             ba == <<b, a>> \in edge
  <1>1. a # b /\ edge' = edge \ {<<a, b>>, <<b, a>>}
    BY DEF BlockUser, CleanupFollowOnBlock, EdgesBetween
  <1>2. \A w \in User :
            /\ following'[w] = IF w = a /\ ab THEN SwapRemove(following[w], b)
                               ELSE IF w = b /\ ba
                                    THEN SwapRemove(following[w], a)
                               ELSE following[w]
            /\ followers'[w] = IF w = a /\ ba THEN SwapRemove(followers[w], b)
                               ELSE IF w = b /\ ab
                                    THEN SwapRemove(followers[w], a)
                               ELSE followers[w]
    BY DEF BlockUser, CleanupFollowOnBlock, EdgesBetween
  <1>3. \A w \in User :
            /\ Followees(w)' = IF w = a /\ ab THEN Followees(w) \ {b}
                               ELSE IF w = b /\ ba THEN Followees(w) \ {a}
                               ELSE Followees(w)
            /\ FollowersOf(w)' = IF w = a /\ ba THEN FollowersOf(w) \ {b}
                                 ELSE IF w = b /\ ab THEN FollowersOf(w) \ {a}
                                 ELSE FollowersOf(w)
    BY <1>1 DEF Followees, FollowersOf
  <1>4. /\ ab => /\ Enumerates(SwapRemove(following[a], b), Followees(a) \ {b})
                 /\ Enumerates(SwapRemove(followers[b], a), FollowersOf(b) \ {a})
        /\ ba => /\ Enumerates(SwapRemove(following[b], a), Followees(b) \ {a})
                 /\ Enumerates(SwapRemove(followers[a], b), FollowersOf(a) \ {b})
    BY SwapRemoveEnumerates DEF TypeOK, Followees, FollowersOf
  <1>5. GraphConsistent'
    BY <1>1, <1>2, <1>3, <1>4
  <1> QED
    BY <1>1, <1>5

(***************************************************************************)
(* A cleanup call keeps the rows consistent, and it takes the tombstone    *)
(* only with the user's last edge.                                         *)
(***************************************************************************)
LEMMA GraphCleanup ==
    ASSUME TypeOK, GraphInv, NEW u \in User, NEW n \in 0 .. MaxEntries,
           NEW p \in BOOLEAN, BatchCleanupProfile(u, n, p)
    PROVE  /\ GraphInv'
           /\ edge' \subseteq edge
           /\ \A e \in edge \ edge' : u \in {e[1], e[2]}
           /\ \A w \in deleted \ deleted' :
                  w = u /\ \A e \in edge' : u \notin {e[1], e[2]}
  <1> USE DEF GraphInv, GraphConsistent, NoSelfEdge
  <1> DEFINE ixr  == followers[u]
             ixg  == following[u]
             n1   == LeastOf(n, ixr.count)
             n2   == LeastOf(n - n1, ixg.count)
             from == TopUsers(ixr, n1)
             to   == TopUsers(ixg, n2)
  <1>1. IndexOK(ixr) /\ IndexOK(ixg)
    BY DEF TypeOK
  <1>2. /\ n1 \in Nat /\ n1 =< ixr.count
        /\ n2 \in Nat /\ n2 =< ixg.count
    BY <1>1, MaxEntriesIsNat DEF LeastOf, IndexOK
  <1>3. /\ from \subseteq FollowersOf(u)
        /\ Enumerates(DropTop(ixr, n1), FollowersOf(u) \ from)
    BY <1>1, <1>2, DropTopEnumerates
  <1>4. /\ to \subseteq Followees(u)
        /\ Enumerates(DropTop(ixg, n2), Followees(u) \ to)
    BY <1>1, <1>2, DropTopEnumerates
  <1>5. /\ from \subseteq User /\ u \notin from /\ \A v \in from : u \in Followees(v)
        /\ to \subseteq User /\ u \notin to /\ \A v \in to : u \in FollowersOf(v)
    BY <1>3, <1>4 DEF Followees, FollowersOf
  <1>6. edge' = edge \ ({<<v, u>> : v \in from} \cup {<<u, v>> : v \in to})
    BY DEF BatchCleanupProfile
  <1>7. \A w \in User :
            /\ following'[w] = IF w = u THEN DropTop(ixg, n2)
                               ELSE IF w \in from THEN SwapRemove(following[w], u)
                               ELSE following[w]
            /\ followers'[w] = IF w = u THEN DropTop(ixr, n1)
                               ELSE IF w \in to THEN SwapRemove(followers[w], u)
                               ELSE followers[w]
    BY DEF BatchCleanupProfile
  <1>8. \A w \in User :
            /\ Followees(w)' = IF w = u THEN Followees(w) \ to
                               ELSE IF w \in from THEN Followees(w) \ {u}
                               ELSE Followees(w)
            /\ FollowersOf(w)' = IF w = u THEN FollowersOf(w) \ from
                                 ELSE IF w \in to THEN FollowersOf(w) \ {u}
                                 ELSE FollowersOf(w)
    BY <1>5, <1>6 DEF Followees, FollowersOf
  <1>9. /\ \A v \in from : Enumerates(SwapRemove(following[v], u), Followees(v) \ {u})
        /\ \A v \in to : Enumerates(SwapRemove(followers[v], u), FollowersOf(v) \ {u})
    BY <1>5, SwapRemoveEnumerates DEF TypeOK
  <1>10. GraphConsistent'
    BY <1>3, <1>4, <1>7, <1>8, <1>9
  <1>11. edge' \subseteq edge /\ \A e \in edge \ edge' : u \in {e[1], e[2]}
    BY <1>6
  <1>12. ASSUME NEW w \in deleted \ deleted'
         PROVE  w = u /\ \A e \in edge' : u \notin {e[1], e[2]}
    <2>1. /\ w = u
          /\ DropTop(ixr, n1).count = 0 /\ DropTop(ixg, n2).count = 0
      BY <1>12 DEF BatchCleanupProfile
    <2>2. FollowersOf(u) \ from = {} /\ Followees(u) \ to = {}
      BY <2>1, <1>3, <1>4 DEF Enumerates
    <2>3. FollowersOf(u)' = {} /\ Followees(u)' = {}
      BY <2>2, <1>8
    <2>4. edge' \subseteq User \X User
      BY <1>6 DEF TypeOK
    <2> QED
      BY <2>1, <2>3, <2>4 DEF Followees, FollowersOf
  <1> QED
    BY <1>6, <1>10, <1>11, <1>12

(***************************************************************************)
(* Every other action leaves the three graph variables alone.              *)
(***************************************************************************)
LEMMA GraphStep ==
    TypeOK /\ RegistryExact /\ GraphInv /\ [CleanNext]_vars => GraphInv'
  <1> SUFFICES ASSUME TypeOK, RegistryExact, GraphInv, [CleanNext]_vars
               PROVE  GraphInv'
    OBVIOUS
  <1>1. CASE UNCHANGED graphVars
    BY <1>1 DEF graphVars, GraphInv, GraphConsistent, NoSelfEdge, Followees,
                FollowersOf
  <1>2. CASE UNCHANGED vars
    BY <1>1, <1>2 DEF vars
  <1>3. ASSUME NEW u \in User, DeleteProfile(u)
        PROVE  GraphInv'
    BY <1>1, <1>3 DEF DeleteProfile
  <1>4. ASSUME NEW a \in User, NEW b \in User, UnblockUser(a, b)
        PROVE  GraphInv'
    BY <1>1, <1>4 DEF UnblockUser
  <1>5. ASSUME NEW p \in BOOLEAN, SetPaused(p)
        PROVE  GraphInv'
    BY <1>1, <1>5 DEF SetPaused
  <1> QED
    BY <1>2, <1>3, <1>4, <1>5, GraphSetProfile, GraphFollow, GraphUnfollow,
       GraphBlock, GraphCleanup
    DEF CleanNext, Next

LEMMA GraphInit == Init => GraphInv
  <1> SUFFICES ASSUME Init PROVE GraphInv
    OBVIOUS
  <1>1. \A u \in User : /\ following[u] = NoRows /\ Followees(u) = {}
                        /\ followers[u] = NoRows /\ FollowersOf(u) = {}
    BY DEF Init, Followees, FollowersOf
  <1> QED
    BY <1>1, NoRowsOK DEF GraphInv, GraphConsistent, NoSelfEdge, Init

LEMMA CleanIsSpec == CleanSpec => Spec
  <1>1. [CleanNext]_vars => [Next]_vars
    BY DEF CleanNext
  <1> QED
    BY <1>1, PTL DEF CleanSpec, Spec, CleanNext

LEMMA CleanInv == CleanSpec => [](TypeOK /\ RegistryExact /\ GraphInv)
  BY CleanIsSpec, TypeCorrect, RegistryCorrect, GraphInit, GraphStep, PTL
  DEF CleanSpec, CleanNext

(***************************************************************************)
(* As long as no profile is created over existing rows, both indexes of    *)
(* every user enumerate exactly the edges, whatever the interleaving of    *)
(* follow, unfollow, block and cleanup calls.                              *)
(***************************************************************************)
THEOREM GraphStaysConsistent == CleanSpec => []GraphConsistent
  <1>1. GraphInv => GraphConsistent
    BY DEF GraphInv
  <1> QED
    BY <1>1, CleanInv, PTL

(***************************************************************************)
(* A tombstone goes only with the last edge of its user.                   *)
(***************************************************************************)
THEOREM TombstoneGoesLast == CleanSpec => TombstoneOutlivesEdges
  <1>1. TypeOK /\ GraphInv /\ [CleanNext]_vars
            => [\A u \in deleted \ deleted' :
                    \A e \in edge' : u \notin {e[1], e[2]}]_vars
    <2> SUFFICES ASSUME TypeOK, GraphInv, CleanNext,
                        NEW w \in deleted \ deleted'
                 PROVE  \A e \in edge' : w \notin {e[1], e[2]}
      OBVIOUS
    <2>1. PICK u \in User, n \in 0 .. MaxEntries, p \in BOOLEAN :
              BatchCleanupProfile(u, n, p)
      BY DEF CleanNext, Next, SetProfile, OwnersAfter, RegisterIfNew,
             DeleteProfile, Follow, Unfollow,
             BlockUser, UnblockUser, SetPaused, profileVars
    <2> QED
      BY <2>1, GraphCleanup
  <1> QED
    BY <1>1, CleanInv, PTL DEF CleanSpec, CleanNext, TombstoneOutlivesEdges

-------------------------------------------------------------------------------
(***************************************************************************)
(* Refinement of FollowRelation                                            *)
(***************************************************************************)
LEMMA VisibleIsEdge == TypeOK /\ GraphInv => VisibleFollows = edge
  <1> SUFFICES ASSUME TypeOK, GraphInv PROVE VisibleFollows = edge
    OBVIOUS
  <1>1. \A u \in User :
            PageOf(following[u], 0, following[u].count) = Followees(u)
    BY FullPage DEF TypeOK, GraphInv, GraphConsistent
  <1>2. \A e \in User \X User : e \in VisibleFollows <=> e \in edge
    BY <1>1 DEF VisibleFollows, Followees
  <1> QED
    BY <1>2 DEF VisibleFollows, TypeOK

LEMMA AbstractStep ==
    ASSUME TypeOK, GraphInv, TypeOK', GraphInv', CleanNext
    PROVE  [Abstract!Next]_(Abstract!vars)
  <1> USE DEF Abstract!Between
  <1>1. VisibleFollows = edge /\ VisibleFollows' = edge'
    <2>1. VisibleFollows = edge
      BY VisibleIsEdge
    <2>2. (VisibleFollows = edge)'
      BY VisibleIsEdge, PTL
    <2> QED
      BY <2>1, <2>2
  <1>2. CASE UNCHANGED <<edge, blocks>>
    BY <1>1, <1>2 DEF Abstract!vars
  <1>3. ASSUME NEW u \in User, DeleteProfile(u)
        PROVE  Abstract!Next
    <2>1. Abstract!ForgetBlocks(u)
      BY <1>1, <1>3 DEF DeleteProfile, graphVars, Abstract!ForgetBlocks
    <2> QED
      BY <2>1 DEF Abstract!Next
  <1>4. ASSUME NEW a \in User, NEW b \in User, Follow(a, b)
        PROVE  Abstract!Next
    <2>1. Abstract!Follow(a, b)
      BY <1>1, <1>4 DEF Follow, FollowAllowed, Blocked, graphVars,
                        Abstract!Follow
    <2> QED
      BY <2>1 DEF Abstract!Next
  <1>5. ASSUME NEW a \in User, NEW b \in User, Unfollow(a, b)
        PROVE  Abstract!Next
    <2>1. Abstract!Unfollow(a, b)
      BY <1>1, <1>5 DEF Unfollow, graphVars, Abstract!Unfollow
    <2> QED
      BY <2>1 DEF Abstract!Next
  <1>6. ASSUME NEW a \in User, NEW b \in User, BlockUser(a, b)
        PROVE  Abstract!Next
    <2>1. Abstract!Block(a, b)
      BY <1>1, <1>6 DEF BlockUser, CleanupFollowOnBlock, EdgesBetween,
                        Abstract!Block
    <2> QED
      BY <2>1 DEF Abstract!Next
  <1>7. ASSUME NEW a \in User, NEW b \in User, UnblockUser(a, b)
        PROVE  Abstract!Next
    <2>1. Abstract!Unblock(a, b)
      BY <1>1, <1>7 DEF UnblockUser, graphVars, Abstract!Unblock
    <2> QED
      BY <2>1 DEF Abstract!Next
  <1>8. ASSUME NEW u \in User, NEW n \in 0 .. MaxEntries, NEW p \in BOOLEAN,
               BatchCleanupProfile(u, n, p)
        PROVE  Abstract!Next
    <2>1. edge' \subseteq edge /\ \A e \in edge \ edge' : u \in {e[1], e[2]}
      BY <1>8, GraphCleanup
    <2>2. Abstract!Detach(u)
      <3>1. /\ edge \ edge' \in SUBSET {e \in edge : u \in {e[1], e[2]}}
            /\ edge' = edge \ (edge \ edge')
        BY <2>1
      <3>2. UNCHANGED blocks
        BY <1>8 DEF BatchCleanupProfile
      <3> QED
        BY <1>1, <3>1, <3>2 DEF Abstract!Detach
    <2> QED
      BY <2>2 DEF Abstract!Next
  <1>9. ASSUME NEW u \in User, NEW n \in Name, SetProfile(u, n)
        PROVE  UNCHANGED <<edge, blocks>>
    BY <1>9 DEF SetProfile, OwnersAfter, RegisterIfNew
  <1>10. ASSUME NEW p \in BOOLEAN, SetPaused(p)
         PROVE  UNCHANGED <<edge, blocks>>
    BY <1>10 DEF SetPaused, graphVars
  <1> QED
    BY <1>2, <1>3, <1>4, <1>5, <1>6, <1>7, <1>8, <1>9, <1>10 DEF CleanNext, Next

(***************************************************************************)
(* What readers see through get_following behaves as the plain relation of *)
(* FollowRelation.                                                         *)
(***************************************************************************)
THEOREM RefinesFollowRelation == CleanSpec => ImplementsFollowRelation
  <1>1. Init => Abstract!Init
    <2> SUFFICES ASSUME Init PROVE Abstract!Init
      OBVIOUS
    <2>1. VisibleFollows = edge
      BY TypeInit, GraphInit, VisibleIsEdge
    <2> QED
      BY <2>1 DEF Init, Abstract!Init
  <1>2. /\ TypeOK /\ GraphInv /\ TypeOK' /\ GraphInv' /\ [CleanNext]_vars
        => [Abstract!Next]_(Abstract!vars)
    <2>1. UNCHANGED vars => UNCHANGED Abstract!vars
      BY DEF vars, graphVars, Abstract!vars, VisibleFollows, PageOf
    <2> QED
      BY <2>1, AbstractStep
  <1> QED
    BY <1>1, <1>2, CleanInv, PTL
    DEF CleanSpec, CleanNext, ImplementsFollowRelation, Abstract!Spec

-------------------------------------------------------------------------------
(***************************************************************************)
(* Pages                                                                   *)
(***************************************************************************)

(***************************************************************************)
(* An index that enumerates a set of users has no more slots than there    *)
(* are users.                                                              *)
(***************************************************************************)
LEMMA CountBounded ==
    ASSUME NEW ix, IndexOK(ix), NEW S \in SUBSET User, Enumerates(ix, S), IsFiniteSet(User)
    PROVE  ix.count =< Cardinality(User) /\ Cardinality(User) \in Nat
  <1> DEFINE slots == 0 .. ix.count - 1
             f == [k \in slots |-> ix.idx[k]]
  <1>1. ix.count \in Nat /\ DOMAIN ix.idx = slots
    BY DEF IndexOK, Enumerates
  <1>2. \A k \in slots : ix.idx[k] \in User /\ ix.pos[ix.idx[k]] = k
    BY <1>1 DEF Enumerates
  <1>3. f \in Injection(slots, User)
    BY <1>2 DEF Injection, IsInjective
  <1>4. Cardinality(slots) =< Cardinality(User)
    BY <1>3, FS_Injection
  <1>5. Cardinality(slots) = ix.count
    BY <1>1, FS_Interval
  <1> QED
    BY <1>4, <1>5, FS_CardinalityType

(***************************************************************************)
(* Division, as the pages need it.                                         *)
(***************************************************************************)
LEMMA PageOfSlot ==
    ASSUME NEW limit \in Nat \ {0}, NEW k \in Nat
    PROVE  /\ \E i \in 0 .. k : i * limit =< k /\ k < i * limit + limit
           /\ \A i, j \in Nat : /\ i * limit =< k /\ k < i * limit + limit
                                /\ j * limit =< k /\ k < j * limit + limit
                                => i = j
  <1>1. /\ k \div limit \in 0 .. k
        /\ (k \div limit) * limit =< k /\ k < (k \div limit) * limit + limit
    OBVIOUS
  <1>2. ASSUME NEW i \in Nat, NEW j \in Nat, i < j
        PROVE  i * limit + limit =< j * limit
    BY <1>2
  <1>3. ASSUME NEW i \in Nat, NEW j \in Nat, i * limit =< k, k < i * limit + limit,
               j * limit =< k, k < j * limit + limit
        PROVE  i = j
    <2>1. i * limit \in Nat /\ j * limit \in Nat
      OBVIOUS
    <2>2. ~(i < j)
      BY <1>2, <1>3, <2>1
    <2>3. ~(j < i)
      BY <1>2, <1>3, <2>1
    <2> QED
      BY <2>2, <2>3
  <1> QED
    BY <1>1, <1>3

(***************************************************************************)
(* Pages of any one size partition what an index enumerates.               *)
(***************************************************************************)
LEMMA PagesPartition ==
    ASSUME NEW ix, IndexOK(ix), NEW S, Enumerates(ix, S), NEW limit \in Nat \ {0},
           NEW n \in Nat, ix.count =< n
    PROVE  /\ UNION {PageOf(ix, i * limit, limit) : i \in 0 .. n} = S
           /\ \A i, j \in 0 .. n :
                  i # j => PageOf(ix, i * limit, limit) \cap PageOf(ix, j * limit, limit) = {}
  <1>0. /\ ix.count \in Nat /\ DOMAIN ix.idx = 0 .. ix.count - 1
        /\ \A k \in DOMAIN ix.idx : ix.idx[k] \in S /\ ix.pos[ix.idx[k]] = k
        /\ \A v \in S : ix.pos[v] \in DOMAIN ix.idx /\ ix.idx[ix.pos[v]] = v
    BY DEF IndexOK, Enumerates
  <1> DEFINE On(i, k) == i * limit =< k /\ k < i * limit + limit
             page(i) == PageOf(ix, i * limit, limit)
  <1>1. ASSUME NEW i \in 0 .. n, NEW v
        PROVE  v \in page(i) <=> v \in S /\ On(i, ix.pos[v])
    BY <1>0 DEF PageOf
  <1>2. ASSUME NEW v \in S PROVE \E i \in 0 .. n : On(i, ix.pos[v])
    <2>1. ix.pos[v] \in Nat /\ ix.pos[v] =< n
      BY <1>0
    <2>2. PICK i \in 0 .. ix.pos[v] : On(i, ix.pos[v])
      BY <2>1, PageOfSlot
    <2> QED
      BY <2>1, <2>2
  <1>3. ASSUME NEW v \in S, NEW i \in 0 .. n, NEW j \in 0 .. n, On(i, ix.pos[v]), On(j, ix.pos[v])
        PROVE  i = j
    <2>1. ix.pos[v] \in Nat /\ i \in Nat /\ j \in Nat
      BY <1>0
    <2> QED
      BY <1>3, <2>1, PageOfSlot
  <1> HIDE DEF On, page
  <1>4. UNION {page(i) : i \in 0 .. n} = S
    BY <1>1, <1>2
  <1>5. \A i, j \in 0 .. n : i # j => page(i) \cap page(j) = {}
    BY <1>1, <1>3
  <1> QED
    BY <1>4, <1>5 DEF page

(***************************************************************************)
(* A client that walks the pages of get_followers meets every follower on  *)
(* exactly one of them.                                                    *)
(***************************************************************************)
THEOREM PagesMeetEveryFollower ==
    ASSUME IsFiniteSet(User)
    PROVE  CleanSpec => []PagesPartitionFollowers
  <1>1. TypeOK /\ GraphInv => PagesPartitionFollowers
    <2> SUFFICES ASSUME TypeOK, GraphInv, NEW u \in User, NEW limit \in 1 .. 2
                 PROVE  LET page(i) == PageOf(followers[u], i * limit, limit)
                            pages   == 0 .. Cardinality(User)
                        IN  /\ UNION {page(i) : i \in pages} = FollowersOf(u)
                            /\ \A i, j \in pages : i # j => page(i) \cap page(j) = {}
      BY DEF PagesPartitionFollowers
    <2>1. IndexOK(followers[u]) /\ Enumerates(followers[u], FollowersOf(u))
      BY DEF TypeOK, GraphInv, GraphConsistent
    <2>2. FollowersOf(u) \in SUBSET User /\ limit \in Nat \ {0}
      BY DEF FollowersOf
    <2>3. followers[u].count =< Cardinality(User) /\ Cardinality(User) \in Nat
      BY <2>1, <2>2, CountBounded
    <2> QED
      BY <2>1, <2>2, <2>3, PagesPartition
  <1> QED
    BY <1>1, CleanInv, PTL
================================================================================
