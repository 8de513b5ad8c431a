----------------------------- MODULE ContentProofs -----------------------------
(***************************************************************************)
(* Theorems about Content for any number of users, posts, moderators and   *)
(* cleanup batches.                                                        *)
(***************************************************************************)
EXTENDS Content, FiniteSetTheorems, SequenceTheorems, TLAPS

-------------------------------------------------------------------------------
(***************************************************************************)
(* The index of the likers of one post                                     *)
(***************************************************************************)

(***************************************************************************)
(* The slots below the count hold every element of S once, and there are   *)
(* no other slots.                                                         *)
(***************************************************************************)
Indexed(ix, S) ==
    /\ ix.count \in Nat
    /\ DOMAIN ix.idx = 0 .. ix.count - 1
    /\ \A k \in 0 .. ix.count - 1 : ix.idx[k] \in S
    /\ \A u \in S : \E k \in 0 .. ix.count - 1 : ix.idx[k] = u
    /\ \A j, k \in 0 .. ix.count - 1 : ix.idx[j] = ix.idx[k] => j = k

(***************************************************************************)
(* What makes slots and a count an index.                                  *)
(***************************************************************************)
LEMMA IndexedForm ==
    ASSUME NEW f, NEW n \in Nat, NEW S,
           DOMAIN f = 0 .. n - 1,
           \A k \in 0 .. n - 1 : f[k] \in S,
           \A u \in S : \E k \in 0 .. n - 1 : f[k] = u,
           \A j, k \in 0 .. n - 1 : f[j] = f[k] => j = k
    PROVE  Indexed([idx |-> f, count |-> n], S)
  <1> DEFINE ix == [idx |-> f, count |-> n]
  <1>1. ix.idx = f /\ ix.count = n
    OBVIOUS
  <1> HIDE DEF ix
  <1>2. Indexed(ix, S)
    BY <1>1 DEF Indexed
  <1> QED
    BY <1>2 DEF ix

(***************************************************************************)
(* A post nobody has liked has an empty index.                             *)
(***************************************************************************)
LEMMA EmptyIndexed == Indexed(NoLikers, {})
  BY DEF Indexed, NoLikers

(***************************************************************************)
(* The index of no likers has no slot and counts none.                     *)
(***************************************************************************)
LEMMA IndexedEmpty ==
    ASSUME NEW ix, NEW S, Indexed(ix, S)
    PROVE  ix.count = 0 <=> S = {}
  BY DEF Indexed

(***************************************************************************)
(* like_post puts a new liker into the slot after the last.                *)
(***************************************************************************)
LEMMA IndexedPut ==
    ASSUME NEW ix, NEW S, Indexed(ix, S), NEW u, u \notin S
    PROVE  Indexed([idx |-> Put(ix.idx, ix.count, u), count |-> ix.count + 1], S \cup {u})
  <1> DEFINE n == ix.count
             new == Put(ix.idx, n, u)
  <1>1. n \in Nat /\ 0 .. (n + 1) - 1 = (0 .. n - 1) \cup {n} /\ n \notin 0 .. n - 1
    BY DEF Indexed
  <1>2. /\ DOMAIN new = 0 .. (n + 1) - 1
        /\ new[n] = u
        /\ \A k \in 0 .. n - 1 : new[k] = ix.idx[k]
    BY <1>1 DEF Indexed, Put
  <1> HIDE DEF new
  <1> DEFINE m == n + 1
  <1>3. m \in Nat /\ 0 .. m - 1 = (0 .. n - 1) \cup {n} /\ DOMAIN new = 0 .. m - 1
    BY <1>1, <1>2
  <1> HIDE DEF m
  <1>4. \A k \in 0 .. m - 1 : new[k] \in S \cup {u}
    BY <1>2, <1>3 DEF Indexed
  <1>5. \A v \in S \cup {u} : \E k \in 0 .. m - 1 : new[k] = v
    BY <1>2, <1>3 DEF Indexed
  <1>6. \A j, k \in 0 .. m - 1 : new[j] = new[k] => j = k
    BY <1>2, <1>3 DEF Indexed
  <1>7. Indexed([idx |-> new, count |-> m], S \cup {u})
    BY <1>3, <1>4, <1>5, <1>6, IndexedForm
  <1> QED
    BY <1>7 DEF new, m

(***************************************************************************)
(* swap_remove_like_from_index takes out exactly the one user.             *)
(***************************************************************************)
LEMMA IndexedSwapRemove ==
    ASSUME NEW ix, NEW S, Indexed(ix, S), NEW u \in S
    PROVE  /\ Indexed(SwapRemoveLike(ix, u), S \ {u})
           /\ SwapRemoveLike(ix, u).count = ix.count - 1
           /\ ix.count > 0
  <1> DEFINE last == ix.count - 1
  <1>1. PICK k \in 0 .. last : ix.idx[k] = u
    BY DEF Indexed
  <1>2. SlotsOf(ix, u) = {k}
    BY <1>1 DEF SlotsOf, Indexed
  <1>3. (CHOOSE i \in SlotsOf(ix, u) : \A j \in SlotsOf(ix, u) : i =< j) = k
    BY <1>2
  <1> DEFINE fill == IF k # last THEN Put(ix.idx, k, ix.idx[last]) ELSE ix.idx
  <1>4. last \in Nat /\ DOMAIN ix.idx = 0 .. last /\ last \in DOMAIN ix.idx
    BY <1>1 DEF Indexed
  <1>5. SwapRemoveLike(ix, u) = [idx |-> Del(fill, last), count |-> last]
    BY <1>2, <1>3, <1>4 DEF SwapRemoveLike
  <1>6. /\ DOMAIN fill = 0 .. last
        /\ k # last => fill[k] = ix.idx[last]
        /\ \A j \in 0 .. last : j # k => fill[j] = ix.idx[j]
    BY <1>1, <1>4 DEF Put
  <1> HIDE DEF fill
  <1>7. 0 .. last - 1 = (0 .. last) \ {last}
    BY <1>4
  <1>8. /\ DOMAIN Del(fill, last) = 0 .. last - 1
        /\ \A j \in 0 .. last - 1 : Del(fill, last)[j] = fill[j]
    BY <1>6, <1>7 DEF Del
  <1> DEFINE new == Del(fill, last)
  <1> HIDE DEF new
  <1>9. \A j \in 0 .. last - 1 : new[j] = IF j = k THEN ix.idx[last] ELSE ix.idx[j]
    BY <1>6, <1>7, <1>8 DEF new
  <1>10. \A j \in 0 .. last - 1 : new[j] \in S \ {u}
    BY <1>1, <1>4, <1>7, <1>9 DEF Indexed
  <1>11. \A v \in S \ {u} : \E j \in 0 .. last - 1 : new[j] = v
    <2> SUFFICES ASSUME NEW v \in S \ {u} PROVE \E j \in 0 .. last - 1 : new[j] = v
      OBVIOUS
    <2>1. PICK j \in 0 .. last : ix.idx[j] = v
      BY DEF Indexed
    <2>2. CASE j = last
      BY <1>1, <1>7, <1>9, <2>1, <2>2
    <2>3. CASE j # last
      BY <1>1, <1>7, <1>9, <2>1, <2>3
    <2> QED
      BY <2>2, <2>3
  <1>12. \A i, j \in 0 .. last - 1 : new[i] = new[j] => i = j
    BY <1>1, <1>4, <1>7, <1>9 DEF Indexed
  <1>13. Indexed([idx |-> new, count |-> last], S \ {u})
    <2>1. DOMAIN new = 0 .. last - 1
      BY <1>8 DEF new
    <2> QED
      BY <1>4, <1>10, <1>11, <1>12, <2>1, IndexedForm
  <1>14. SwapRemoveLike(ix, u) = [idx |-> new, count |-> last]
    BY <1>5 DEF new
  <1>15. SwapRemoveLike(ix, u).count = last /\ ix.count > 0
    BY <1>4, <1>14 DEF Indexed
  <1> QED
    BY <1>13, <1>14, <1>15

(***************************************************************************)
(* Cleanup that takes the top n slots takes exactly the users in them.     *)
(***************************************************************************)
LEMMA IndexedDrop ==
    ASSUME NEW ix, NEW S, Indexed(ix, S), NEW n \in 0 .. ix.count
    PROVE  /\ Indexed(DropLikers(ix, n), S \ TopLikers(ix, n))
           /\ DropLikers(ix, n).count = ix.count - n
           /\ n = ix.count => TopLikers(ix, n) = S
  <1> DEFINE top == {j \in DOMAIN ix.idx : j < ix.count /\ ix.count - n =< j}
             rest == {j \in DOMAIN ix.idx : ~(j < ix.count /\ ix.count - n =< j)}
  <1>1. /\ ix.count \in Nat /\ n \in Nat /\ ix.count - n \in Nat
        /\ rest = 0 .. (ix.count - n) - 1
        /\ top = (ix.count - n) .. ix.count - 1
    BY DEF Indexed
  <1>2. TopLikers(ix, n) = {ix.idx[k] : k \in top}
    BY DEF TopLikers
  <1> DEFINE new == [k \in rest |-> ix.idx[k]]
  <1>3. DropLikers(ix, n) = [idx |-> new, count |-> ix.count - n]
    BY DEF DropLikers
  <1>4. DOMAIN new = rest /\ \A k \in rest : new[k] = ix.idx[k]
    OBVIOUS
  <1> HIDE DEF new, top, rest
  <1>5. \A k \in rest : ix.idx[k] \in S \ TopLikers(ix, n)
    BY <1>1, <1>2 DEF Indexed
  <1>6. \A v \in S \ TopLikers(ix, n) : \E k \in rest : ix.idx[k] = v
    BY <1>1, <1>2 DEF Indexed
  <1>7. \A j, k \in rest : ix.idx[j] = ix.idx[k] => j = k
    BY <1>1 DEF Indexed
  <1>8. Indexed([idx |-> new, count |-> ix.count - n], S \ TopLikers(ix, n))
    <2> DEFINE m == ix.count - n
    <2>1. m \in Nat /\ rest = 0 .. m - 1
      BY <1>1
    <2> HIDE DEF m
    <2>2. DOMAIN new = 0 .. m - 1 /\ \A k \in 0 .. m - 1 : new[k] = ix.idx[k]
      BY <1>4, <2>1
    <2>3. /\ \A k \in 0 .. m - 1 : new[k] \in S \ TopLikers(ix, n)
          /\ \A j, k \in 0 .. m - 1 : new[j] = new[k] => j = k
      BY <1>5, <1>7, <2>1, <2>2
    <2>4. \A v \in S \ TopLikers(ix, n) : \E k \in 0 .. m - 1 : new[k] = v
      BY <1>6, <2>1, <2>2
    <2>5. Indexed([idx |-> new, count |-> m], S \ TopLikers(ix, n))
      BY <2>1, <2>2, <2>3, <2>4, IndexedForm
    <2> QED
      BY <2>5 DEF m
  <1>9. n = ix.count => TopLikers(ix, n) = S
    BY <1>1, <1>2 DEF Indexed
  <1> QED
    BY <1>3, <1>8, <1>9

(***************************************************************************)
(* The count of an index is the number of users in it.                     *)
(***************************************************************************)
LEMMA IndexedCount ==
    ASSUME NEW ix, NEW S, Indexed(ix, S)
    PROVE  /\ ix.count = Cardinality(S)
           /\ {ix.idx[k] : k \in 0 .. ix.count - 1} = S
  <1> DEFINE n == ix.count
             f == [k \in 0 .. n - 1 |-> ix.idx[k]]
  <1>1. n \in Nat
    BY DEF Indexed
  <1>2. f \in Bijection(0 .. n - 1, S)
    BY DEF Indexed, Bijection, Injection, Surjection, IsInjective
  <1>3. ExistsBijection(0 .. n - 1, S)
    BY <1>2 DEF ExistsBijection
  <1>4. IsFiniteSet(0 .. n - 1) /\ Cardinality(0 .. n - 1) = n
    BY <1>1, FS_Interval
  <1>5. Cardinality(S) = n
    BY <1>3, <1>4, FS_Bijection
  <1>6. {ix.idx[k] : k \in 0 .. n - 1} = S
    BY DEF Indexed
  <1> QED
    BY <1>5, <1>6

-------------------------------------------------------------------------------
(***************************************************************************)
(* Lists without repetition: an author's posts, a post's reporters         *)
(***************************************************************************)
Lists(s, S) == ToSet(s) = S /\ IsInjective(s)

(***************************************************************************)
(* Appending a new element.                                                *)
(***************************************************************************)
LEMMA ListsAppend ==
    ASSUME NEW T, NEW s \in Seq(T), NEW S, Lists(s, S), NEW e \in T, e \notin S
    PROVE  Append(s, e) \in Seq(T) /\ Lists(Append(s, e), S \cup {e})
  <1> DEFINE t == Append(s, e)
  <1>1. /\ t \in Seq(T) /\ Len(s) \in Nat /\ Len(t) = Len(s) + 1
        /\ DOMAIN s = 1 .. Len(s) /\ DOMAIN t = 1 .. Len(s) + 1
        /\ t[Len(s) + 1] = e /\ \A i \in 1 .. Len(s) : t[i] = s[i]
    BY AppendProperties, LenProperties
  <1> HIDE DEF t
  <1>2. 1 .. Len(s) + 1 = (1 .. Len(s)) \cup {Len(s) + 1}
    BY <1>1
  <1>3. ToSet(t) = S \cup {e}
    BY <1>1, <1>2 DEF Lists, ToSet
  <1>4. IsInjective(t)
    BY <1>1, <1>2 DEF Lists, ToSet, IsInjective
  <1> QED
    BY <1>1, <1>3, <1>4 DEF Lists, t

(***************************************************************************)
(* What stands in a sequence after position n.                             *)
(***************************************************************************)
Beyond(s, n) == {s[k] : k \in n + 1 .. Len(s)}

(***************************************************************************)
(* Cutting a list after position n keeps exactly the elements before.      *)
(***************************************************************************)
LEMMA ListsPrefix ==
    ASSUME NEW T, NEW s \in Seq(T), NEW S, Lists(s, S), NEW n \in 0 .. Len(s)
    PROVE  /\ SubSeq(s, 1, n) \in Seq(T)
           /\ Len(SubSeq(s, 1, n)) = n
           /\ Lists(SubSeq(s, 1, n), S \ Beyond(s, n))
           /\ Beyond(s, n) \subseteq S
  <1> DEFINE t == SubSeq(s, 1, n)
  <1>1. Len(s) \in Nat /\ DOMAIN s = 1 .. Len(s) /\ n \in Nat /\ n =< Len(s)
        /\ \A i \in 1 .. Len(s) : s[i] \in T
    BY LenProperties, ElementOfSeq
  <1>2. /\ t \in Seq(T) /\ Len(t) = n /\ \A i \in 1 .. n : t[i] = s[i]
    BY <1>1, SubSeqProperties
  <1>3. DOMAIN t = 1 .. n
    BY <1>2, LenProperties
  <1> HIDE DEF t
  <1>4. 1 .. Len(s) = (1 .. n) \cup (n + 1 .. Len(s)) /\ \A i \in 1 .. n : i \notin n + 1 .. Len(s)
    BY <1>1
  <1>5. ToSet(t) = {s[i] : i \in 1 .. n}
    BY <1>2, <1>3 DEF ToSet
  <1>6. S = {s[i] : i \in 1 .. Len(s)} /\ \A i, j \in 1 .. Len(s) : s[i] = s[j] => i = j
    BY <1>1 DEF Lists, ToSet, IsInjective
  <1>7. ToSet(t) = S \ {s[k] : k \in n + 1 .. Len(s)}
    BY <1>4, <1>5, <1>6
  <1>8. IsInjective(t)
    BY <1>2, <1>3, <1>4, <1>6 DEF IsInjective
  <1> QED
    BY <1>2, <1>4, <1>6, <1>7, <1>8 DEF Lists, t, Beyond

(***************************************************************************)
(* Removing an element where it first occurs removes it.                   *)
(***************************************************************************)
LEMMA ListsRemove ==
    ASSUME NEW T, NEW s \in Seq(T), NEW S, Lists(s, S), NEW e
    PROVE  RemoveFirst(s, e) \in Seq(T) /\ Lists(RemoveFirst(s, e), S \ {e})
  <1>1. Len(s) \in Nat /\ DOMAIN s = 1 .. Len(s) /\ \A i \in 1 .. Len(s) : s[i] \in T
    BY LenProperties, ElementOfSeq
  <1>2. S = {s[i] : i \in 1 .. Len(s)} /\ \A i, j \in 1 .. Len(s) : s[i] = s[j] => i = j
    BY <1>1 DEF Lists, ToSet, IsInjective
  <1>3. CASE ~\E i \in 1 .. Len(s) : s[i] = e
    <2>1. RemoveFirst(s, e) = s
      BY <1>3 DEF RemoveFirst
    <2>2. S \ {e} = S
      BY <1>2, <1>3
    <2> QED
      BY <2>1, <2>2
  <1>4. CASE \E i \in 1 .. Len(s) : s[i] = e
    <2>1. PICK k \in 1 .. Len(s) : s[k] = e
      BY <1>4
    <2>2. {i \in 1 .. Len(s) : s[i] = e} = {k}
      BY <1>2, <2>1
    <2>3. Min({k}) = k
      BY <2>1 DEF Min
    <2>4. RemoveFirst(s, e) = RemoveAt(s, k)
      BY <1>4, <2>2, <2>3 DEF RemoveFirst, SelectInSeq
    <2> DEFINE a == SubSeq(s, 1, k - 1)
               b == SubSeq(s, k + 1, Len(s))
               t == a \o b
    <2>5. a \in Seq(T) /\ Len(a) = k - 1 /\ \A i \in 1 .. k - 1 : a[i] = s[i]
      <3>1. k - 1 \in Int /\ \A i \in 1 .. k - 1 : s[i] \in T
        BY <1>1, <2>1
      <3>2. /\ a \in Seq(T) /\ Len(a) = (IF 1 <= k - 1 THEN (k - 1) - 1 + 1 ELSE 0)
            /\ \A i \in 1 .. (k - 1) - 1 + 1 : a[i] = s[1 + i - 1]
        BY <3>1, SubSeqProperties
      <3> HIDE DEF a
      <3> QED
        BY <2>1, <3>2
    <2>6. /\ b \in Seq(T) /\ Len(b) = Len(s) - k
          /\ \A i \in 1 .. Len(s) - k : b[i] = s[k + i]
      <3>1. k + 1 \in Int /\ Len(s) \in Int /\ \A i \in k + 1 .. Len(s) : s[i] \in T
        BY <1>1, <2>1
      <3>2. /\ b \in Seq(T) /\ Len(b) = (IF k + 1 <= Len(s) THEN Len(s) - (k + 1) + 1 ELSE 0)
            /\ \A i \in 1 .. Len(s) - (k + 1) + 1 : b[i] = s[(k + 1) + i - 1]
        BY <3>1, SubSeqProperties
      <3> HIDE DEF b
      <3>3. Len(b) = Len(s) - k
        <4>1. ASSUME NEW n \in Nat, NEW j \in 1 .. n
              PROVE  (IF j + 1 <= n THEN n - (j + 1) + 1 ELSE 0) = n - j
          OBVIOUS
        <4> QED
          BY <1>1, <2>1, <3>2, <4>1
      <3>4. ASSUME NEW i \in 1 .. Len(s) - k PROVE b[i] = s[k + i]
        <4>1. i \in 1 .. Len(s) - (k + 1) + 1 /\ (k + 1) + i - 1 = k + i
          BY <1>1, <2>1
        <4>2. b[i] = s[(k + 1) + i - 1]
          BY <3>2, <4>1
        <4> QED
          BY <4>1, <4>2
      <3> QED
        BY <3>2, <3>3, <3>4
    <2> HIDE DEF a, b
    <2>7. /\ t \in Seq(T) /\ Len(t) = Len(s) - 1 /\ DOMAIN t = 1 .. Len(s) - 1
          /\ \A i \in 1 .. Len(s) - 1 : t[i] = IF i < k THEN s[i] ELSE s[i + 1]
      <3>1. /\ t \in Seq(T) /\ Len(t) = Len(a) + Len(b)
            /\ \A i \in 1 .. Len(a) + Len(b) :
                  t[i] = IF i <= Len(a) THEN a[i] ELSE b[i - Len(a)]
        BY <2>5, <2>6, ConcatProperties
      <3>2. DOMAIN t = 1 .. Len(t)
        BY <3>1, LenProperties
      <3> HIDE DEF t
      <3>3. Len(t) = Len(s) - 1
        BY <1>1, <2>1, <2>5, <2>6, <3>1
      <3>4. ASSUME NEW i \in 1 .. Len(s) - 1 PROVE t[i] = IF i < k THEN s[i] ELSE s[i + 1]
        <4>1. t[i] = IF i <= k - 1 THEN a[i] ELSE b[i - (k - 1)]
          BY <1>1, <2>1, <2>5, <3>1, <3>3
        <4>2. CASE i < k
          BY <2>1, <2>5, <4>1, <4>2
        <4>3. CASE ~(i < k)
          <5>1. i - (k - 1) \in 1 .. Len(s) - k /\ k + (i - (k - 1)) = i + 1
            BY <1>1, <2>1, <4>3
          <5>2. b[i - (k - 1)] = s[k + (i - (k - 1))]
            BY <2>6, <5>1
          <5>3. t[i] = b[i - (k - 1)]
            BY <2>1, <4>1, <4>3
          <5> QED
            BY <4>3, <5>1, <5>2, <5>3
        <4> QED
          BY <4>2, <4>3
      <3> QED
        BY <3>1, <3>2, <3>3, <3>4
    <2> HIDE DEF t
    <2>8. ToSet(t) = S \ {e}
      <3>1. ASSUME NEW i \in 1 .. Len(s) - 1 PROVE t[i] \in S \ {e}
        BY <1>1, <1>2, <2>1, <2>7
      <3>2. ASSUME NEW x \in S \ {e} PROVE \E i \in 1 .. Len(s) - 1 : t[i] = x
        <4>1. PICK i \in 1 .. Len(s) : s[i] = x
          BY <1>2
        <4>2. CASE i < k
          BY <1>1, <2>1, <2>7, <4>1, <4>2
        <4>3. CASE i > k
          <5>1. i - 1 \in 1 .. Len(s) - 1 /\ t[i - 1] = s[i]
            BY <1>1, <2>1, <2>7, <4>3
          <5> QED
            BY <4>1, <5>1
        <4> QED
          BY <2>1, <4>1, <4>2, <4>3
      <3> QED
        BY <2>7, <3>1, <3>2 DEF ToSet
    <2>9. IsInjective(t)
      BY <1>1, <1>2, <2>1, <2>7 DEF IsInjective
    <2> QED
      BY <2>4, <2>7, <2>8, <2>9 DEF Lists, RemoveAt, t, a, b
  <1> QED
    BY <1>3, <1>4

-------------------------------------------------------------------------------
(***************************************************************************)
(* The inductive invariant                                                 *)
(***************************************************************************)

(***************************************************************************)
(* The post rows: their types, one stage per post, and author lists that   *)
(* are exact, which cleanup of a deleted profile relies on when it         *)
(* tombstones whatever the list says.                                      *)
(***************************************************************************)
PostInv == PostTypes /\ OneLifeStage /\ AuthorListExact

Staged(p) == p \in DOMAIN post \cup DOMAIN removed \cup deleted

(***************************************************************************)
(* The like rows: every post's index is that of its like rows, the count   *)
(* kept in a live post or in the snapshot of a removed one is that of the  *)
(* index, and a post in no stage has no likes left.                        *)
(***************************************************************************)
LikesAgree(p) ==
    /\ Indexed(likers[p], LikersOf(p))
    /\ p \in DOMAIN post => post[p].likes = likers[p].count
    /\ p \in DOMAIN removed => removed[p].likes = likers[p].count
    /\ ~Staged(p) => likers[p].count = 0

LikeInv ==
    /\ like \in SUBSET (Id \X User) /\ DOMAIN likers = Id
    /\ \A p \in Id : LikesAgree(p)

ReportersOf(p) == {u \in User : <<p, u>> \in DOMAIN report}

(***************************************************************************)
(* The report rows: every post's list of reporters is that of its report   *)
(* rows, and a post in no stage has none left.  There are finitely many.   *)
(***************************************************************************)
ReportsAgree(p) ==
    /\ Lists(reporters[p], ReportersOf(p))
    /\ ~Staged(p) => reporters[p] = <<>>

ReportInv ==
    /\ ReportTypes
    /\ \A p \in Id : ReportsAgree(p)
    /\ IsFiniteSet(DOMAIN report)
    /\ EscrowCoversReports

ContentInv ==
    /\ PostInv /\ LikeInv /\ ReportInv /\ OtherTypes
    /\ NoLikeAcrossBlockUnlessRestored

(***************************************************************************)
(* Removing one row leaves the others.                                     *)
(***************************************************************************)
LEMMA RowDel ==
    ASSUME NEW rows, NEW k
    PROVE  /\ DOMAIN Del(rows, k) = DOMAIN rows \ {k}
           /\ \A j \in DOMAIN rows \ {k} : Del(rows, k)[j] = rows[j]
  BY DEF Del

AuthoredBy(u) == {p \in DOMAIN post : post[p].author = u}

(***************************************************************************)
(* A call that writes nothing of a post but its number of likes.           *)
(***************************************************************************)
LEMMA PostsKept ==
    ASSUME PostInv, DOMAIN post' = DOMAIN post,
           \A p \in DOMAIN post : post'[p] \in PostRow /\ post'[p].author = post[p].author,
           UNCHANGED <<postCount, removed, deleted, authorPosts>>
    PROVE  PostInv'
  <1>1. PostTypes'
    BY DEF PostInv, PostTypes
  <1>2. OneLifeStage'
    BY DEF PostInv, OneLifeStage
  <1>3. AuthorListExact'
    BY DEF PostInv, AuthorListExact
  <1> QED
    BY <1>1, <1>2, <1>3 DEF PostInv

(***************************************************************************)
(* delete_post and moderation take the post out of the live rows and off   *)
(* its author's list.                                                      *)
(***************************************************************************)
LEMMA PostUnlisted ==
    ASSUME PostInv, NEW p \in DOMAIN post,
           post' = Del(post, p), authorPosts' = Unlisted(post[p].author, p)
    PROVE  /\ DOMAIN post' = DOMAIN post \ {p}
           /\ \A q \in DOMAIN post' : post'[q] = post[q] /\ post[q] \in PostRow
           /\ authorPosts' \in [User -> Seq(Id)]
           /\ AuthorListExact'
  <1> DEFINE u == post[p].author
  <1>1. /\ DOMAIN post' = DOMAIN post \ {p}
        /\ \A q \in DOMAIN post' : post'[q] = post[q] /\ post[q] \in PostRow
    BY RowDel DEF PostInv, PostTypes
  <1>2. u \in User /\ authorPosts \in [User -> Seq(Id)]
    BY DEF PostInv, PostTypes, PostRow
  <1>3. Lists(authorPosts[u], AuthoredBy(u))
    BY <1>2 DEF PostInv, AuthorListExact, Lists, AuthoredBy
  <1>4. /\ RemoveFirst(authorPosts[u], p) \in Seq(Id)
        /\ Lists(RemoveFirst(authorPosts[u], p), AuthoredBy(u) \ {p})
    BY <1>2, <1>3, ListsRemove
  <1>5. authorPosts' = [authorPosts EXCEPT ![u] = RemoveFirst(authorPosts[u], p)]
    BY DEF Unlisted
  <1>6. authorPosts' \in [User -> Seq(Id)]
    BY <1>2, <1>4, <1>5
  <1>7. ASSUME NEW v \in User
        PROVE  /\ ToSet(authorPosts'[v]) = {q \in DOMAIN post' : post'[q].author = v}
               /\ IsInjective(authorPosts'[v])
    <2>1. CASE v = u
      <3>1. authorPosts'[v] = RemoveFirst(authorPosts[u], p)
        BY <1>2, <1>5, <2>1
      <3>2. {q \in DOMAIN post' : post'[q].author = v} = AuthoredBy(u) \ {p}
        BY <1>1, <2>1 DEF AuthoredBy
      <3> QED
        BY <1>4, <3>1, <3>2 DEF Lists
    <2>2. CASE v # u
      <3>1. authorPosts'[v] = authorPosts[v]
        BY <1>2, <1>5, <2>2
      <3>2. {q \in DOMAIN post' : post'[q].author = v} = {q \in DOMAIN post : post[q].author = v}
        BY <1>1, <2>2
      <3> QED
        BY <3>1, <3>2 DEF PostInv, AuthorListExact
    <2> QED
      BY <2>1, <2>2
  <1> QED
    BY <1>1, <1>6, <1>7 DEF AuthorListExact

(***************************************************************************)
(* create_post and a restore put a post that is not live into the live     *)
(* rows and at the end of its author's list.                               *)
(***************************************************************************)
LEMMA PostListed ==
    ASSUME PostInv, NEW p \in Id, p \notin DOMAIN post, NEW row \in PostRow,
           post' = Put(post, p, row),
           authorPosts' = [authorPosts EXCEPT ![row.author] = Append(@, p)]
    PROVE  /\ DOMAIN post' = DOMAIN post \cup {p}
           /\ \A q \in DOMAIN post' : post'[q] \in PostRow
           /\ authorPosts' \in [User -> Seq(Id)]
           /\ AuthorListExact'
  <1> DEFINE u == row.author
  <1>1. /\ DOMAIN post' = DOMAIN post \cup {p} /\ post'[p] = row
        /\ \A q \in DOMAIN post : post'[q] = post[q] /\ post[q] \in PostRow
    <2>1. \A q \in DOMAIN post : post[q] \in PostRow /\ q # p
      BY DEF PostInv, PostTypes
    <2>2. /\ DOMAIN post' = DOMAIN post \cup {p} /\ post'[p] = row
          /\ \A q \in DOMAIN post : q # p => post'[q] = post[q]
      BY DEF Put
    <2> QED
      BY <2>1, <2>2
  <1>2. u \in User /\ authorPosts \in [User -> Seq(Id)]
    BY DEF PostInv, PostTypes, PostRow
  <1>3. Lists(authorPosts[u], AuthoredBy(u)) /\ p \notin AuthoredBy(u)
    BY <1>2 DEF PostInv, AuthorListExact, Lists, AuthoredBy
  <1>4. /\ Append(authorPosts[u], p) \in Seq(Id)
        /\ Lists(Append(authorPosts[u], p), AuthoredBy(u) \cup {p})
    BY <1>2, <1>3, ListsAppend
  <1>5. authorPosts' = [authorPosts EXCEPT ![u] = Append(authorPosts[u], p)]
    OBVIOUS
  <1>6. authorPosts' \in [User -> Seq(Id)]
    BY <1>2, <1>4, <1>5
  <1>7. ASSUME NEW v \in User
        PROVE  /\ ToSet(authorPosts'[v]) = {q \in DOMAIN post' : post'[q].author = v}
               /\ IsInjective(authorPosts'[v])
    <2>1. CASE v = u
      <3>1. authorPosts'[v] = Append(authorPosts[u], p)
        BY <1>2, <1>5, <2>1
      <3>2. {q \in DOMAIN post' : post'[q].author = v} = AuthoredBy(u) \cup {p}
        BY <1>1, <2>1 DEF AuthoredBy
      <3> QED
        BY <1>4, <3>1, <3>2 DEF Lists
    <2>2. CASE v # u
      <3>1. authorPosts'[v] = authorPosts[v]
        BY <1>2, <1>5, <2>2
      <3>2. {q \in DOMAIN post' : post'[q].author = v} = {q \in DOMAIN post : post[q].author = v}
        BY <1>1, <2>2
      <3> QED
        BY <3>1, <3>2 DEF PostInv, AuthorListExact
    <2> QED
      BY <2>1, <2>2
  <1>8. \A q \in DOMAIN post' : post'[q] \in PostRow
    BY <1>1
  <1> QED
    BY <1>1, <1>6, <1>7, <1>8 DEF AuthorListExact

(***************************************************************************)
(* The last n posts on a user's list.                                      *)
(***************************************************************************)
Doomed(u, n) ==
    LET list == authorPosts[u]
    IN  Beyond(list, Len(list) - LeastOf(n, Len(list)))

(***************************************************************************)
(* Cleanup of a deleted profile tombstones the posts at the end of the     *)
(* author's list, which are live posts of that author.                     *)
(***************************************************************************)
LEMMA AuthoredCleaned ==
    ASSUME PostInv, NEW u \in User, NEW n \in 0 .. MaxEntries, NEW g \in BOOLEAN,
           CleanupAuthoredPosts(u, n, g)
    PROVE  /\ Doomed(u, n) \subseteq AuthoredBy(u)
           /\ DOMAIN post' = DOMAIN post \ Doomed(u, n)
           /\ \A q \in DOMAIN post' : post'[q] = post[q] /\ post[q] \in PostRow
           /\ deleted' = deleted \cup Doomed(u, n)
           /\ authorPosts' \in [User -> Seq(Id)]
           /\ AuthorListExact'
  <1> DEFINE list == authorPosts[u]
             keep == Len(list) - LeastOf(n, Len(list))
             ids == Beyond(list, keep)
  <1>1. authorPosts \in [User -> Seq(Id)] /\ list \in Seq(Id) /\ Len(list) \in Nat
    BY LenProperties DEF PostInv, PostTypes
  <1>2. Lists(list, AuthoredBy(u))
    BY DEF PostInv, AuthorListExact, Lists, AuthoredBy
  <1>3. n \in Nat /\ keep \in 0 .. Len(list)
    BY <1>1, BoundsAreNat DEF LeastOf
  <1> HIDE DEF ids, keep, list
  <1>4. /\ SubSeq(list, 1, keep) \in Seq(Id)
        /\ Lists(SubSeq(list, 1, keep), AuthoredBy(u) \ ids)
        /\ ids \subseteq AuthoredBy(u)
    BY <1>1, <1>2, <1>3, ListsPrefix DEF ids
  <1>5. /\ deleted' = deleted \cup ids
        /\ post' = [q \in DOMAIN post \ ids |-> post[q]]
        /\ authorPosts' = [authorPosts EXCEPT ![u] = SubSeq(list, 1, keep)]
    BY DEF CleanupAuthoredPosts, Beyond, ids, keep, list
  <1>6. /\ DOMAIN post' = DOMAIN post \ ids
        /\ \A q \in DOMAIN post' : post'[q] = post[q] /\ post[q] \in PostRow
    BY <1>5 DEF PostInv, PostTypes
  <1>7. authorPosts' \in [User -> Seq(Id)]
    BY <1>1, <1>4, <1>5
  <1>8. ASSUME NEW v \in User
        PROVE  /\ ToSet(authorPosts'[v]) = {q \in DOMAIN post' : post'[q].author = v}
               /\ IsInjective(authorPosts'[v])
    <2>1. CASE v = u
      <3>1. authorPosts'[v] = SubSeq(list, 1, keep)
        BY <1>1, <1>5, <2>1
      <3>2. {q \in DOMAIN post' : post'[q].author = v} = AuthoredBy(u) \ ids
        BY <1>6, <2>1 DEF AuthoredBy
      <3> QED
        BY <1>4, <3>1, <3>2 DEF Lists
    <2>2. CASE v # u
      <3>1. authorPosts'[v] = authorPosts[v]
        BY <1>1, <1>5, <2>2
      <3>2. {q \in DOMAIN post' : post'[q].author = v} = {q \in DOMAIN post : post[q].author = v}
        BY <1>4, <1>6, <2>2 DEF AuthoredBy
      <3> QED
        BY <3>1, <3>2 DEF PostInv, AuthorListExact
    <2> QED
      BY <2>1, <2>2
  <1>9. AuthorListExact'
    BY <1>8 DEF AuthorListExact
  <1>10. ids = Doomed(u, n)
    BY DEF ids, keep, list, Doomed
  <1> QED
    BY <1>4, <1>5, <1>6, <1>7, <1>9, <1>10

(***************************************************************************)
(* The post rows agree after every call.                                   *)
(***************************************************************************)
LEMMA PostStep ==
    ASSUME PostInv, [Next]_vars
    PROVE  PostInv'
  <1>0. /\ PostTypes /\ OneLifeStage
        /\ postCount \in Nat /\ postCount =< MaxPosts /\ MaxPosts \in Nat
        /\ DOMAIN post \subseteq 1 .. postCount
        /\ DOMAIN removed \subseteq 1 .. postCount
        /\ deleted \subseteq 1 .. postCount
        /\ 1 .. postCount \subseteq Id
    BY BoundsAreNat DEF PostInv, PostTypes, Id
  <1>1. ASSUME NEW u \in User, CreatePost(u)
        PROVE  PostInv'
    <2> DEFINE row == [author |-> u, likes |-> 0]
    <2>1. PICK p \in Id : p = postCount + 1
      BY <1>0, <1>1 DEF CreatePost, Id
    <2>2. /\ p \notin DOMAIN post /\ p \notin DOMAIN removed /\ p \notin deleted
          /\ 1 .. p = 1 .. postCount \cup {p} /\ p \in 0 .. MaxPosts
      BY <1>0, <2>1 DEF Id
    <2>3. row \in PostRow /\ row.author = u
      BY DEF PostRow
    <2>4. /\ post' = Put(post, p, row) /\ postCount' = p
          /\ authorPosts' = [authorPosts EXCEPT ![row.author] = Append(@, p)]
          /\ UNCHANGED <<removed, deleted>>
      BY <1>1, <2>1 DEF CreatePost, FreshId
    <2> HIDE DEF row
    <2>5. /\ DOMAIN post' = DOMAIN post \cup {p}
          /\ \A q \in DOMAIN post' : post'[q] \in PostRow
          /\ authorPosts' \in [User -> Seq(Id)]
          /\ AuthorListExact'
      BY <2>2, <2>3, <2>4, PostListed
    <2>6. PostTypes'
      BY <1>0, <2>2, <2>4, <2>5 DEF PostTypes
    <2>7. OneLifeStage'
      BY <1>0, <2>2, <2>4, <2>5 DEF OneLifeStage
    <2> QED
      BY <2>5, <2>6, <2>7 DEF PostInv
  <1>2. ASSUME NEW u \in User, NEW p \in Id, DeletePost(u, p)
        PROVE  PostInv'
    <2>1. /\ p \in DOMAIN post /\ post' = Del(post, p)
          /\ authorPosts' = Unlisted(post[p].author, p)
          /\ deleted' = deleted \cup {p} /\ UNCHANGED <<postCount, removed>>
      BY <1>2 DEF DeletePost, Live
    <2>2. /\ DOMAIN post' = DOMAIN post \ {p}
          /\ \A q \in DOMAIN post' : post'[q] \in PostRow
          /\ authorPosts' \in [User -> Seq(Id)] /\ AuthorListExact'
      BY <2>1, PostUnlisted
    <2>3. PostTypes'
      BY <1>0, <2>1, <2>2 DEF PostTypes
    <2>4. OneLifeStage'
      BY <1>0, <2>1, <2>2 DEF OneLifeStage
    <2> QED
      BY <2>2, <2>3, <2>4 DEF PostInv
  <1>3. ASSUME NEW u \in User, NEW p \in Id, LikePost(u, p)
        PROVE  PostInv'
    <2>1. /\ p \in DOMAIN post
          /\ post' = [post EXCEPT ![p].likes = post[p].likes + 1]
          /\ UNCHANGED <<postCount, removed, deleted, authorPosts>>
      BY <1>3 DEF LikePost, Live
    <2>2. ASSUME NEW r \in PostRow
          PROVE  /\ [r EXCEPT !.likes = r.likes + 1] \in PostRow
                 /\ [r EXCEPT !.likes = r.likes + 1].author = r.author
      BY DEF PostRow
    <2>3. /\ DOMAIN post' = DOMAIN post
          /\ \A q \in DOMAIN post : post'[q] = IF q = p THEN [post[p] EXCEPT !.likes = post[p].likes + 1]
                                              ELSE post[q]
      BY <2>1
    <2>4. \A q \in DOMAIN post : post[q] \in PostRow
      BY <1>0 DEF PostTypes
    <2>5. \A q \in DOMAIN post : post'[q] \in PostRow /\ post'[q].author = post[q].author
      BY <2>1, <2>2, <2>3, <2>4
    <2> QED
      BY <2>1, <2>3, <2>5, PostsKept
  <1>4. ASSUME NEW a \in User, NEW b \in User, BlockUser(a, b)
        PROVE  PostInv'
    <2>1. /\ DOMAIN post' = DOMAIN post
          /\ \A q \in DOMAIN post :
                \/ post'[q] = post[q]
                \/ post[q].likes > 0 /\ post'[q] = [post[q] EXCEPT !.likes = @ - 1]
          /\ UNCHANGED <<postCount, removed, deleted, authorPosts>>
      BY <1>4 DEF BlockUser
    <2>2. ASSUME NEW r \in PostRow, r.likes > 0
          PROVE  /\ [r EXCEPT !.likes = @ - 1] \in PostRow
                 /\ [r EXCEPT !.likes = @ - 1].author = r.author
      BY <2>2 DEF PostRow
    <2>3. \A q \in DOMAIN post : post[q] \in PostRow
      BY <1>0 DEF PostTypes
    <2>4. \A q \in DOMAIN post : post'[q] \in PostRow /\ post'[q].author = post[q].author
      BY <2>1, <2>2, <2>3
    <2> QED
      BY <2>1, <2>4, PostsKept
  <1>5. ASSUME NEW u \in User, NEW p \in Id, NEW v \in {"Upheld", "Dismissed"},
               ReviewReport(p, u, v)
        PROVE  PostInv'
    <2>1. CASE v = "Upheld" /\ Live(p)
      <3> DEFINE row == [author |-> post[p].author, likes |-> post[p].likes, open |-> TRUE]
      <3>1. /\ p \in DOMAIN post /\ post' = Del(post, p)
            /\ authorPosts' = Unlisted(post[p].author, p)
            /\ removed' = Put(removed, p, row) /\ UNCHANGED <<postCount, deleted>>
        BY <1>5, <2>1 DEF ReviewReport, ModerateAway, Live
      <3>2. /\ DOMAIN post' = DOMAIN post \ {p}
            /\ \A q \in DOMAIN post' : post'[q] \in PostRow
            /\ authorPosts' \in [User -> Seq(Id)] /\ AuthorListExact'
        BY <3>1, PostUnlisted
      <3>3. row \in RemovedRow
        BY <1>0, <3>1 DEF PostTypes, PostRow, RemovedRow
      <3> HIDE DEF row
      <3>4. /\ DOMAIN removed' = DOMAIN removed \cup {p}
            /\ \A q \in DOMAIN removed' : removed'[q] \in RemovedRow
        <4>1. \A q \in DOMAIN removed : removed[q] \in RemovedRow
          BY <1>0 DEF PostTypes
        <4>2. /\ DOMAIN removed' = DOMAIN removed \cup {p} /\ removed'[p] = row
              /\ \A q \in DOMAIN removed : q # p => removed'[q] = removed[q]
          BY <3>1 DEF Put
        <4> QED
          BY <3>3, <4>1, <4>2
      <3>5. PostTypes'
        BY <1>0, <3>1, <3>2, <3>4 DEF PostTypes
      <3>6. OneLifeStage'
        BY <1>0, <3>1, <3>2, <3>4 DEF OneLifeStage
      <3> QED
        BY <3>2, <3>5, <3>6 DEF PostInv
    <2>2. CASE ~(v = "Upheld" /\ Live(p))
      <3>1. UNCHANGED <<post, removed, authorPosts, postCount, deleted>>
        BY <1>5, <2>2 DEF ReviewReport
      <3> QED
        BY <3>1 DEF PostInv, PostTypes, OneLifeStage, AuthorListExact
    <2> QED
      BY <2>1, <2>2
  <1>6. ASSUME NEW p \in Id, AppealWindowCloses(p)
        PROVE  PostInv'
    <2>1. /\ removed' = [removed EXCEPT ![p].open = FALSE]
          /\ UNCHANGED <<post, authorPosts, postCount, deleted>>
      BY <1>6 DEF AppealWindowCloses
    <2>2. ASSUME NEW r \in RemovedRow
          PROVE  [r EXCEPT !.open = FALSE] \in RemovedRow
      BY DEF RemovedRow
    <2>3. /\ DOMAIN removed' = DOMAIN removed
          /\ \A q \in DOMAIN removed : removed'[q] \in RemovedRow
      BY <1>0, <2>1, <2>2 DEF PostTypes
    <2>4. PostTypes'
      BY <1>0, <2>1, <2>3 DEF PostTypes
    <2> QED
      BY <2>1, <2>3, <2>4 DEF PostInv, OneLifeStage, AuthorListExact
  <1>7. ASSUME NEW m \in Mod, NEW p \in Id, NEW a \in BOOLEAN, ReviewAppeal(m, p, a)
        PROVE  PostInv'
    <2>1. CASE p \in DOMAIN removed /\ Restore(p)
      <3> DEFINE who == removed[p].author
                 row == [author |-> who, likes |-> removed[p].likes]
      <3>1. /\ post' = Put(post, p, row) /\ removed' = Del(removed, p)
            /\ authorPosts' = IF Contains(authorPosts[who], p) THEN authorPosts
                              ELSE [authorPosts EXCEPT ![who] = Append(@, p)]
            /\ UNCHANGED <<postCount, deleted>>
        BY <1>7, <2>1 DEF Restore, ReviewAppeal
      <3>2. p \notin DOMAIN post /\ p \notin deleted
        BY <1>0, <2>1 DEF OneLifeStage
      <3>3. row \in PostRow /\ row.author = who /\ who \in User
        BY <1>0, <2>1 DEF PostTypes, PostRow, RemovedRow
      <3> HIDE DEF row
      <3>4. ~Contains(authorPosts[who], p)
        <4>1. p \notin ToSet(authorPosts[who])
          BY <3>2, <3>3 DEF PostInv, AuthorListExact
        <4>2. authorPosts[who] \in Seq(Id)
          BY <1>0, <3>3 DEF PostTypes
        <4>3. DOMAIN authorPosts[who] = 1 .. Len(authorPosts[who])
          BY <4>2, LenProperties
        <4> QED
          BY <4>1, <4>3 DEF ToSet, Contains
      <3>5. authorPosts' = [authorPosts EXCEPT ![row.author] = Append(@, p)]
        BY <3>1, <3>3, <3>4
      <3>6. /\ DOMAIN post' = DOMAIN post \cup {p}
            /\ \A q \in DOMAIN post' : post'[q] \in PostRow
            /\ authorPosts' \in [User -> Seq(Id)]
            /\ AuthorListExact'
        BY <3>1, <3>2, <3>3, <3>5, PostListed
      <3>7. /\ DOMAIN removed' = DOMAIN removed \ {p}
            /\ \A q \in DOMAIN removed' : removed'[q] \in RemovedRow
        BY <1>0, <3>1, RowDel DEF PostTypes
      <3>8. PostTypes'
        BY <1>0, <2>1, <3>1, <3>6, <3>7 DEF PostTypes
      <3>9. OneLifeStage'
        BY <1>0, <3>1, <3>2, <3>6, <3>7 DEF OneLifeStage
      <3> QED
        BY <3>6, <3>8, <3>9 DEF PostInv
    <2>2. CASE ~(p \in DOMAIN removed /\ Restore(p))
      <3>1. UNCHANGED <<post, removed, authorPosts, postCount, deleted>>
        BY <1>7, <2>2 DEF ReviewAppeal, Restore
      <3> QED
        BY <3>1 DEF PostInv, PostTypes, OneLifeStage, AuthorListExact
    <2> QED
      BY <2>1, <2>2
  <1>8. ASSUME NEW p \in Id, NEW n \in 0 .. MaxEntries, NEW c \in BOOLEAN,
               BatchCleanupPost(p, n, c)
        PROVE  PostInv'
    <2>1. /\ deleted' \subseteq deleted
          /\ UNCHANGED <<post, removed, authorPosts, postCount>>
      BY <1>8 DEF BatchCleanupPost
    <2>2. PostTypes'
      BY <1>0, <2>1 DEF PostTypes
    <2>3. OneLifeStage'
      BY <1>0, <2>1 DEF OneLifeStage
    <2> QED
      BY <2>1, <2>2, <2>3 DEF PostInv, AuthorListExact
  <1>9. ASSUME NEW u \in User, NEW n \in 0 .. MaxEntries, NEW g \in BOOLEAN,
               CleanupAuthoredPosts(u, n, g)
        PROVE  PostInv'
    <2> DEFINE ids == Doomed(u, n)
    <2>1. /\ ids \subseteq AuthoredBy(u) /\ DOMAIN post' = DOMAIN post \ ids
          /\ \A q \in DOMAIN post' : post'[q] = post[q] /\ post[q] \in PostRow
          /\ deleted' = deleted \cup ids
          /\ authorPosts' \in [User -> Seq(Id)]
          /\ AuthorListExact'
      BY <1>9, AuthoredCleaned
    <2> HIDE DEF ids
    <2>2. UNCHANGED <<postCount, removed>> /\ ids \subseteq DOMAIN post
      BY <1>9, <2>1 DEF CleanupAuthoredPosts, AuthoredBy
    <2>3. PostTypes'
      BY <1>0, <2>1, <2>2 DEF PostTypes
    <2>4. OneLifeStage'
      BY <1>0, <2>1, <2>2 DEF OneLifeStage
    <2> QED
      BY <2>1, <2>3, <2>4 DEF PostInv
  <1>10. CASE UNCHANGED <<post, removed, authorPosts, postCount, deleted>>
    BY <1>10 DEF PostInv, PostTypes, OneLifeStage, AuthorListExact
  <1> QED
    BY <1>1, <1>2, <1>3, <1>4, <1>5, <1>6, <1>7, <1>8, <1>9, <1>10
    DEF Next, vars, UnblockUser, ReportPost, AppealModeration, DeleteProfile, SetPaused

-------------------------------------------------------------------------------
(***************************************************************************)
(* Likes                                                                   *)
(***************************************************************************)

(***************************************************************************)
(* A post whose like rows a call leaves alone still agrees with them when  *)
(* the call keeps the count it stores, wherever it stores it.              *)
(***************************************************************************)
LEMMA LikesKept ==
    ASSUME NEW q \in Id, LikesAgree(q), likers'[q] = likers[q],
           \A u \in User : <<q, u>> \in like' <=> <<q, u>> \in like,
           q \in DOMAIN post' => post'[q].likes = likers[q].count,
           q \in DOMAIN removed' => removed'[q].likes = likers[q].count,
           ~Staged(q)' => likers[q].count = 0
    PROVE  LikesAgree(q)'
  <1>1. LikersOf(q)' = LikersOf(q)
    BY DEF LikersOf
  <1> QED
    BY <1>1 DEF LikesAgree, Staged

(***************************************************************************)
(* Calls that touch no like row: the post is created with no likes, or it  *)
(* moves between stages with the count it had.                             *)
(***************************************************************************)
LEMMA LikeStepByPosts ==
    ASSUME PostInv, LikeInv, UNCHANGED likeVars,
           \/ \E u \in User : CreatePost(u)
           \/ \E u \in User, p \in Id : DeletePost(u, p)
           \/ \E u \in User, p \in Id, v \in {"Upheld", "Dismissed"} : ReviewReport(p, u, v)
           \/ \E p \in Id : AppealWindowCloses(p)
           \/ \E m \in Mod, p \in Id, a \in BOOLEAN : ReviewAppeal(m, p, a)
    PROVE  LikeInv'
  <1>0. UNCHANGED like /\ UNCHANGED likers
    BY DEF likeVars
  <1> SUFFICES ASSUME NEW q \in Id
               PROVE  /\ q \in DOMAIN post' => post'[q].likes = likers[q].count
                      /\ q \in DOMAIN removed' => removed'[q].likes = likers[q].count
                      /\ ~Staged(q)' => likers[q].count = 0
    <2>1. \A q \in Id : LikesAgree(q)'
      BY <1>0, LikesKept DEF LikeInv
    <2> QED
      BY <1>0, <2>1 DEF LikeInv
  <1>q. /\ q \in DOMAIN post => post[q].likes = likers[q].count
        /\ q \in DOMAIN removed => removed[q].likes = likers[q].count
        /\ ~Staged(q) => likers[q].count = 0
    BY DEF LikeInv, LikesAgree
  <1>1. ASSUME NEW u \in User, CreatePost(u)
        PROVE  /\ q \in DOMAIN post' => post'[q].likes = likers[q].count
               /\ q \in DOMAIN removed' => removed'[q].likes = likers[q].count
               /\ ~Staged(q)' => likers[q].count = 0
    <2> DEFINE row == [author |-> u, likes |-> 0]
    <2>1. /\ post' = Put(post, postCount + 1, row)
          /\ UNCHANGED <<removed, deleted>>
      BY <1>1 DEF CreatePost, FreshId
    <2>2. row.likes = 0
      OBVIOUS
    <2> HIDE DEF row
    <2>3. /\ DOMAIN post' = DOMAIN post \cup {postCount + 1}
          /\ q = postCount + 1 => post'[q] = row
          /\ q \in DOMAIN post /\ q # postCount + 1 => post'[q] = post[q]
      BY <2>1 DEF Put
    <2>4. q = postCount + 1 => ~Staged(q)
      BY BoundsAreNat DEF PostInv, PostTypes, Staged
    <2> QED
      BY <1>q, <2>1, <2>2, <2>3, <2>4 DEF Staged
  <1>2. ASSUME NEW u \in User, NEW p \in Id, DeletePost(u, p)
        PROVE  /\ q \in DOMAIN post' => post'[q].likes = likers[q].count
               /\ q \in DOMAIN removed' => removed'[q].likes = likers[q].count
               /\ ~Staged(q)' => likers[q].count = 0
    <2>1. /\ p \in DOMAIN post /\ post' = Del(post, p)
          /\ deleted' = deleted \cup {p} /\ UNCHANGED removed
      BY <1>2 DEF DeletePost, Live
    <2>2. DOMAIN post' = DOMAIN post \ {p} /\ \A r \in DOMAIN post \ {p} : post'[r] = post[r]
      BY <2>1, RowDel
    <2> QED
      BY <1>q, <2>1, <2>2 DEF Staged
  <1>3. ASSUME NEW u \in User, NEW p \in Id, NEW v \in {"Upheld", "Dismissed"},
               ReviewReport(p, u, v)
        PROVE  /\ q \in DOMAIN post' => post'[q].likes = likers[q].count
               /\ q \in DOMAIN removed' => removed'[q].likes = likers[q].count
               /\ ~Staged(q)' => likers[q].count = 0
    <2>1. CASE v = "Upheld" /\ Live(p)
      <3> DEFINE row == [author |-> post[p].author, likes |-> post[p].likes, open |-> TRUE]
      <3>1. /\ p \in DOMAIN post /\ post' = Del(post, p)
            /\ removed' = Put(removed, p, row) /\ UNCHANGED deleted
        BY <1>3, <2>1 DEF ReviewReport, ModerateAway, Live
      <3>2. row.likes = post[p].likes
        OBVIOUS
      <3> HIDE DEF row
      <3>3. DOMAIN post' = DOMAIN post \ {p} /\ \A r \in DOMAIN post \ {p} : post'[r] = post[r]
        BY <3>1, RowDel
      <3>4. /\ DOMAIN removed' = DOMAIN removed \cup {p} /\ removed'[p] = row
            /\ \A r \in DOMAIN removed : r # p => removed'[r] = removed[r]
        BY <3>1 DEF Put
      <3> QED
        BY <1>q, <3>1, <3>2, <3>3, <3>4 DEF Staged
    <2>2. CASE ~(v = "Upheld" /\ Live(p))
      <3>1. UNCHANGED <<post, removed, deleted>>
        BY <1>3, <2>2 DEF ReviewReport
      <3> QED
        BY <1>q, <3>1 DEF Staged
    <2> QED
      BY <2>1, <2>2
  <1>4. ASSUME NEW p \in Id, AppealWindowCloses(p)
        PROVE  /\ q \in DOMAIN post' => post'[q].likes = likers[q].count
               /\ q \in DOMAIN removed' => removed'[q].likes = likers[q].count
               /\ ~Staged(q)' => likers[q].count = 0
    <2>1. /\ removed' = [removed EXCEPT ![p].open = FALSE]
          /\ UNCHANGED <<post, deleted>>
      BY <1>4 DEF AppealWindowCloses
    <2>2. ASSUME NEW r \in RemovedRow
          PROVE  [r EXCEPT !.open = FALSE].likes = r.likes
      BY DEF RemovedRow
    <2>3. \A r \in DOMAIN removed : removed[r] \in RemovedRow
      BY DEF PostInv, PostTypes
    <2>4. /\ DOMAIN removed' = DOMAIN removed
          /\ \A r \in DOMAIN removed : removed'[r].likes = removed[r].likes
      BY <2>1, <2>2, <2>3
    <2> QED
      BY <1>q, <2>1, <2>4 DEF Staged
  <1>5. ASSUME NEW m \in Mod, NEW p \in Id, NEW a \in BOOLEAN, ReviewAppeal(m, p, a)
        PROVE  /\ q \in DOMAIN post' => post'[q].likes = likers[q].count
               /\ q \in DOMAIN removed' => removed'[q].likes = likers[q].count
               /\ ~Staged(q)' => likers[q].count = 0
    <2>1. CASE p \in DOMAIN removed /\ Restore(p)
      <3> DEFINE row == [author |-> removed[p].author, likes |-> removed[p].likes]
      <3>1. /\ post' = Put(post, p, row) /\ removed' = Del(removed, p)
            /\ UNCHANGED deleted
        BY <1>5, <2>1 DEF Restore, ReviewAppeal
      <3>2. row.likes = removed[p].likes
        OBVIOUS
      <3> HIDE DEF row
      <3>3. /\ DOMAIN post' = DOMAIN post \cup {p} /\ post'[p] = row
            /\ \A r \in DOMAIN post : r # p => post'[r] = post[r]
        BY <3>1 DEF Put
      <3>4. /\ DOMAIN removed' = DOMAIN removed \ {p}
            /\ \A r \in DOMAIN removed \ {p} : removed'[r] = removed[r]
        BY <3>1, RowDel
      <3> QED
        BY <1>q, <2>1, <3>1, <3>2, <3>3, <3>4 DEF Staged
    <2>2. CASE ~(p \in DOMAIN removed /\ Restore(p))
      <3>1. UNCHANGED <<post, removed, deleted>>
        BY <1>5, <2>2 DEF ReviewAppeal, Restore
      <3> QED
        BY <1>q, <3>1 DEF Staged
    <2> QED
      BY <2>1, <2>2
  <1> QED
    BY <1>1, <1>2, <1>3, <1>4, <1>5

(***************************************************************************)
(* like_post adds the liker to the rows, to the index and to the count.    *)
(***************************************************************************)
LEMMA LikePostLikes ==
    ASSUME PostInv, LikeInv, NEW u \in User, NEW p \in Id, LikePost(u, p)
    PROVE  LikeInv'
  <1>1. /\ p \in DOMAIN post /\ <<p, u>> \notin like
        /\ like' = like \cup {<<p, u>>}
        /\ post' = [post EXCEPT ![p].likes = post[p].likes + 1]
        /\ likers' = [likers EXCEPT ![p] = [idx |-> Put(likers[p].idx, post[p].likes, u),
                                            count |-> post[p].likes + 1]]
        /\ UNCHANGED <<removed, deleted>>
    BY DEF LikePost, Live
  <1>2. LikesAgree(p) /\ DOMAIN likers = Id /\ like \in SUBSET (Id \X User)
    BY DEF LikeInv
  <1>3. Indexed(likers[p], LikersOf(p)) /\ post[p].likes = likers[p].count
    BY <1>1, <1>2 DEF LikesAgree
  <1> DEFINE ix == [idx |-> Put(likers[p].idx, likers[p].count, u),
                    count |-> likers[p].count + 1]
  <1>4. likers' = [likers EXCEPT ![p] = ix]
    BY <1>1, <1>3
  <1>5. u \notin LikersOf(p)
    BY <1>1 DEF LikersOf
  <1>6. Indexed(ix, LikersOf(p) \cup {u})
    BY <1>3, <1>5, IndexedPut
  <1>7. ix.count = likers[p].count + 1
    OBVIOUS
  <1> HIDE DEF ix
  <1>8. DOMAIN likers' = Id /\ likers'[p] = ix /\ \A q \in Id : q # p => likers'[q] = likers[q]
    BY <1>2, <1>4
  <1>9. /\ DOMAIN post' = DOMAIN post
        /\ \A q \in DOMAIN post : q # p => post'[q] = post[q]
    BY <1>1
  <1>10. post'[p].likes = post[p].likes + 1
    <2>1. post[p] \in PostRow
      BY <1>1 DEF PostInv, PostTypes
    <2>2. ASSUME NEW r \in PostRow PROVE [r EXCEPT !.likes = r.likes + 1].likes = r.likes + 1
      BY DEF PostRow
    <2>3. post'[p] = [post[p] EXCEPT !.likes = post[p].likes + 1]
      BY <1>1
    <2> QED
      BY <2>1, <2>2, <2>3
  <1>11. LikesAgree(p)'
    <2>1. LikersOf(p)' = LikersOf(p) \cup {u}
      BY <1>1 DEF LikersOf
    <2>2. Indexed(likers[p], LikersOf(p))'
      BY <1>6, <1>8, <2>1
    <2>3. p \notin DOMAIN removed'
      BY <1>1 DEF PostInv, OneLifeStage
    <2>4. post'[p].likes = likers'[p].count /\ p \in DOMAIN post'
      BY <1>1, <1>3, <1>7, <1>8, <1>9, <1>10
    <2> QED
      BY <2>2, <2>3, <2>4 DEF LikesAgree, Staged
  <1>12. ASSUME NEW q \in Id, q # p PROVE LikesAgree(q)'
    <2>1. /\ likers'[q] = likers[q]
          /\ \A v \in User : <<q, v>> \in like' <=> <<q, v>> \in like
      BY <1>1, <1>8, <1>12
    <2>2. LikesAgree(q)
      BY DEF LikeInv
    <2>3. /\ q \in DOMAIN post' => post'[q].likes = likers[q].count
          /\ q \in DOMAIN removed' => removed'[q].likes = likers[q].count
          /\ ~Staged(q)' => likers[q].count = 0
      BY <1>1, <1>9, <1>12, <2>2 DEF LikesAgree, Staged
    <2> QED
      BY <2>1, <2>2, <2>3, LikesKept
  <1>13. like' \in SUBSET (Id \X User)
    BY <1>1, <1>2
  <1> QED
    BY <1>8, <1>11, <1>12, <1>13 DEF LikeInv

(***************************************************************************)
(* cleanup_likes_on_block cuts at most one like of a post: that of the one *)
(* of the two users who is not its author.                                 *)
(***************************************************************************)
LEMMA OneLikeCut ==
    ASSUME like \in SUBSET (Id \X User), NEW a \in User, NEW b \in User, a # b,
           NEW q \in Id
    PROVE  LET cut == LikesBetween(a, b)
               who == IF <<q, a>> \in cut THEN a ELSE b
           IN  /\ q \in {l[1] : l \in cut} =>
                     /\ q \in DOMAIN post /\ who \in LikersOf(q)
                     /\ \A v \in User : <<q, v>> \in like \ cut
                                            <=> <<q, v>> \in like /\ v # who
               /\ q \notin {l[1] : l \in cut} =>
                     \A v \in User : <<q, v>> \in like \ cut <=> <<q, v>> \in like
  <1> DEFINE cut == LikesBetween(a, b)
             who == IF <<q, a>> \in cut THEN a ELSE b
  <1>1. \A v \in User : <<q, v>> \in cut <=>
            <<q, v>> \in like /\ q \in DOMAIN post /\ {v, post[q].author} = {a, b}
    BY DEF LikesBetween, Live
  <1>2. ASSUME q \in {l[1] : l \in cut}
        PROVE  \E v \in User : <<q, v>> \in cut
    <2>1. PICK l \in cut : l[1] = q
      BY <1>2
    <2>2. l \in like /\ l = <<l[1], l[2]>> /\ l[2] \in User
      BY DEF LikesBetween
    <2> QED
      BY <2>1, <2>2
  <1>3. \A v \in User : <<q, v>> \in cut => q \in {l[1] : l \in cut}
    <2> HIDE DEF cut
    <2>1. ASSUME NEW v \in User, <<q, v>> \in cut PROVE q \in {l[1] : l \in cut}
      <3>1. <<q, v>>[1] = q
        OBVIOUS
      <3> QED
        BY <2>1, <3>1
    <2> QED
      BY <2>1
  <1> HIDE DEF cut
  <1>4. ASSUME q \in {l[1] : l \in cut}
        PROVE  /\ q \in DOMAIN post /\ who \in LikersOf(q)
               /\ \A v \in User : <<q, v>> \in like \ cut <=> <<q, v>> \in like /\ v # who
    <2>1. PICK v \in User : <<q, v>> \in cut
      BY <1>2, <1>4
    <2>2. \A w \in User : <<q, w>> \in cut => w = v
      BY <1>1, <2>1
    <2>3. <<q, v>> \in like /\ q \in DOMAIN post /\ (v = a \/ v = b)
      BY <1>1, <2>1
    <2>4. who = v
      BY <2>1, <2>2, <2>3
    <2> HIDE DEF who
    <2> QED
      BY <2>1, <2>2, <2>3, <2>4 DEF LikersOf
  <1>5. ASSUME q \notin {l[1] : l \in cut}
        PROVE  \A v \in User : <<q, v>> \in like \ cut <=> <<q, v>> \in like
    BY <1>3, <1>5
  <1> QED
    BY <1>4, <1>5 DEF cut

(***************************************************************************)
(* block_user takes the cut like from the rows, the index and the count.   *)
(***************************************************************************)
LEMMA BlockUserLikes ==
    ASSUME PostInv, LikeInv, NEW a \in User, NEW b \in User, BlockUser(a, b)
    PROVE  LikeInv'
  <1> DEFINE cut == LikesBetween(a, b)
             hit == {l[1] : l \in cut}
             who(p) == IF <<p, a>> \in cut THEN a ELSE b
  <1>1. /\ a # b /\ like' = like \ cut
        /\ DOMAIN post' = DOMAIN post
        /\ \A q \in DOMAIN post :
              post'[q] = IF q \in hit /\ post[q].likes > 0
                         THEN [post[q] EXCEPT !.likes = @ - 1] ELSE post[q]
        /\ DOMAIN likers' = Id
        /\ \A q \in Id : likers'[q] = IF q \in hit THEN SwapRemoveLike(likers[q], who(q))
                                      ELSE likers[q]
        /\ UNCHANGED <<removed, deleted>>
    BY DEF BlockUser
  <1>2. like \in SUBSET (Id \X User)
    BY DEF LikeInv
  <1>3. ASSUME NEW q \in Id PROVE LikesAgree(q)'
    <2>1. LikesAgree(q)
      BY DEF LikeInv
    <2>2. CASE q \in hit
      <3> DEFINE w == who(q)
      <3>1. /\ q \in DOMAIN post /\ w \in LikersOf(q)
            /\ \A v \in User : <<q, v>> \in like' <=> <<q, v>> \in like /\ v # w
        BY <1>1, <1>2, <2>2, OneLikeCut
      <3>2. likers'[q] = SwapRemoveLike(likers[q], w)
        BY <1>1, <2>2
      <3> HIDE DEF w, hit
      <3>3. Indexed(likers[q], LikersOf(q)) /\ post[q].likes = likers[q].count
        BY <2>1, <3>1 DEF LikesAgree
      <3>4. /\ Indexed(likers'[q], LikersOf(q) \ {w})
            /\ likers'[q].count = likers[q].count - 1 /\ likers[q].count > 0
        BY <3>1, <3>2, <3>3, IndexedSwapRemove
      <3>5. LikersOf(q)' = LikersOf(q) \ {w}
        BY <3>1 DEF LikersOf
      <3>6. post'[q].likes = post[q].likes - 1
        <4>1. post[q] \in PostRow
          BY <3>1 DEF PostInv, PostTypes
        <4>2. ASSUME NEW r \in PostRow PROVE [r EXCEPT !.likes = @ - 1].likes = r.likes - 1
          BY DEF PostRow
        <4>3. post'[q] = [post[q] EXCEPT !.likes = @ - 1]
          BY <1>1, <2>2, <3>1, <3>3, <3>4
        <4> QED
          BY <4>1, <4>2, <4>3
      <3>7. q \in DOMAIN post' /\ q \notin DOMAIN removed'
        BY <1>1, <3>1 DEF PostInv, OneLifeStage
      <3>8. Indexed(likers[q], LikersOf(q))'
        BY <3>4, <3>5
      <3> QED
        BY <3>3, <3>4, <3>6, <3>7, <3>8 DEF LikesAgree, Staged
    <2>3. CASE q \notin hit
      <3>1. \A v \in User : <<q, v>> \in like' <=> <<q, v>> \in like
        BY <1>1, <1>2, <2>3, OneLikeCut
      <3>2. likers'[q] = likers[q] /\ (q \in DOMAIN post => post'[q] = post[q])
        BY <1>1, <2>3
      <3> HIDE DEF hit
      <3>3. /\ q \in DOMAIN post' => post'[q].likes = likers[q].count
            /\ q \in DOMAIN removed' => removed'[q].likes = likers[q].count
            /\ ~Staged(q)' => likers[q].count = 0
        BY <1>1, <2>1, <3>2 DEF LikesAgree, Staged
      <3> QED
        BY <2>1, <3>1, <3>2, <3>3, LikesKept
    <2> QED
      BY <2>2, <2>3
  <1>4. like' \in SUBSET (Id \X User)
    BY <1>1, <1>2
  <1> QED
    BY <1>1, <1>3, <1>4 DEF LikeInv

(***************************************************************************)
(* batch_cleanup_post drops the users of the top slots from the rows too,  *)
(* and the tombstone only with the last of them.                           *)
(***************************************************************************)
LEMMA CleanupPostLikes ==
    ASSUME PostInv, LikeInv, NEW p \in Id, NEW n \in 0 .. MaxEntries, NEW c \in BOOLEAN,
           BatchCleanupPost(p, n, c)
    PROVE  LikeInv'
  <1> DEFINE n1 == LeastOf(n, likers[p].count)
             dropped == TopLikers(likers[p], n1)
  <1>1. /\ p \in deleted /\ like' = like \ {<<p, u>> : u \in dropped}
        /\ likers' = [likers EXCEPT ![p] = DropLikers(likers[p], n1)]
        /\ p \notin deleted' => n1 = likers[p].count
        /\ \A q \in Id : q # p => (q \in deleted' <=> q \in deleted)
        /\ UNCHANGED <<post, removed>>
    BY DEF BatchCleanupPost, CleanupDone
  <1>2. LikesAgree(p) /\ DOMAIN likers = Id /\ like \in SUBSET (Id \X User)
    BY DEF LikeInv
  <1>3. Indexed(likers[p], LikersOf(p)) /\ likers[p].count \in Nat
    BY <1>2 DEF LikesAgree, Indexed
  <1>4. n1 \in 0 .. likers[p].count
    BY <1>3, BoundsAreNat DEF LeastOf
  <1> HIDE DEF n1
  <1>5. /\ Indexed(DropLikers(likers[p], n1), LikersOf(p) \ dropped)
        /\ DropLikers(likers[p], n1).count = likers[p].count - n1
    BY <1>3, <1>4, IndexedDrop
  <1> HIDE DEF dropped
  <1>6. /\ DOMAIN likers' = Id /\ likers'[p] = DropLikers(likers[p], n1)
        /\ \A q \in Id : q # p => likers'[q] = likers[q]
    BY <1>1, <1>2
  <1>7. LikesAgree(p)'
    <2>1. LikersOf(p)' = LikersOf(p) \ dropped
      BY <1>1 DEF LikersOf
    <2>2. Indexed(likers[p], LikersOf(p))'
      BY <1>5, <1>6, <2>1
    <2>3. p \notin DOMAIN post' /\ p \notin DOMAIN removed'
      BY <1>1 DEF PostInv, OneLifeStage
    <2>4. ~Staged(p)' => likers'[p].count = 0
      BY <1>1, <1>3, <1>5, <1>6 DEF Staged
    <2> QED
      BY <2>2, <2>3, <2>4 DEF LikesAgree, Staged
  <1>8. ASSUME NEW q \in Id, q # p PROVE LikesAgree(q)'
    <2>1. /\ likers'[q] = likers[q]
          /\ \A v \in User : <<q, v>> \in like' <=> <<q, v>> \in like
      BY <1>1, <1>6, <1>8
    <2>2. LikesAgree(q)
      BY DEF LikeInv
    <2>3. /\ q \in DOMAIN post' => post'[q].likes = likers[q].count
          /\ q \in DOMAIN removed' => removed'[q].likes = likers[q].count
          /\ ~Staged(q)' => likers[q].count = 0
      BY <1>1, <1>8, <2>2 DEF LikesAgree, Staged
    <2> QED
      BY <2>1, <2>2, <2>3, LikesKept
  <1>9. like' \in SUBSET (Id \X User)
    BY <1>1, <1>2
  <1> QED
    BY <1>6, <1>7, <1>8, <1>9 DEF LikeInv

(***************************************************************************)
(* batch_cleanup_profile takes all likes of the posts it tombstones.       *)
(***************************************************************************)
LEMMA CleanupProfileLikes ==
    ASSUME PostInv, LikeInv, NEW u \in User, NEW n \in 0 .. MaxEntries, NEW g \in BOOLEAN,
           CleanupAuthoredPosts(u, n, g)
    PROVE  LikeInv'
  <1> DEFINE ids == Doomed(u, n)
  <1>1. /\ ids \subseteq AuthoredBy(u) /\ DOMAIN post' = DOMAIN post \ ids
        /\ \A q \in DOMAIN post' : post'[q] = post[q]
        /\ deleted' = deleted \cup ids
    BY AuthoredCleaned
  <1>2. /\ like' = {l \in like : l[1] \in ids =>
                        l[2] \notin TopLikers(likers[l[1]], likers[l[1]].count)}
        /\ likers' = [p \in Id |->
               IF p \in ids THEN DropLikers(likers[p], likers[p].count) ELSE likers[p]]
        /\ UNCHANGED removed
    BY DEF CleanupAuthoredPosts, Doomed, Beyond
  <1> HIDE DEF ids
  <1>3. like \in SUBSET (Id \X User)
    BY DEF LikeInv
  <1>4. DOMAIN likers' = Id
    BY <1>2
  <1>5. ASSUME NEW q \in Id PROVE LikesAgree(q)'
    <2>1. LikesAgree(q)
      BY DEF LikeInv
    <2>2. Indexed(likers[q], LikersOf(q)) /\ likers[q].count \in Nat
      BY <2>1 DEF LikesAgree, Indexed
    <2>3. CASE q \in ids
      <3>1. /\ Indexed(DropLikers(likers[q], likers[q].count),
                       LikersOf(q) \ TopLikers(likers[q], likers[q].count))
            /\ DropLikers(likers[q], likers[q].count).count = likers[q].count - likers[q].count
            /\ TopLikers(likers[q], likers[q].count) = LikersOf(q)
        <4>1. likers[q].count \in 0 .. likers[q].count
          BY <2>2
        <4> QED
          BY <2>2, <4>1, IndexedDrop
      <3>2. likers'[q] = DropLikers(likers[q], likers[q].count)
        BY <1>2, <2>3
      <3>3. LikersOf(q)' = {}
        BY <1>2, <1>3, <2>3, <3>1 DEF LikersOf
      <3>4. LikersOf(q) \ TopLikers(likers[q], likers[q].count) = {}
        BY <3>1
      <3>5. Indexed(likers[q], LikersOf(q))'
        BY <3>1, <3>2, <3>3, <3>4
      <3>6. likers'[q].count = 0
        BY <2>2, <3>1, <3>2
      <3>7. q \notin DOMAIN post' /\ q \notin DOMAIN removed'
        BY <1>1, <1>2, <2>3 DEF PostInv, OneLifeStage, AuthoredBy
      <3> QED
        BY <3>5, <3>6, <3>7 DEF LikesAgree
    <2>4. CASE q \notin ids
      <3>1. /\ likers'[q] = likers[q]
            /\ \A v \in User : <<q, v>> \in like' <=> <<q, v>> \in like
        BY <1>2, <2>4
      <3>2. /\ q \in DOMAIN post' => post'[q].likes = likers[q].count
            /\ q \in DOMAIN removed' => removed'[q].likes = likers[q].count
            /\ ~Staged(q)' => likers[q].count = 0
        BY <1>1, <1>2, <2>1, <2>4 DEF LikesAgree, Staged
      <3> QED
        BY <2>1, <3>1, <3>2, LikesKept
    <2> QED
      BY <2>3, <2>4
  <1>6. like' \in SUBSET (Id \X User)
    BY <1>2, <1>3
  <1> QED
    BY <1>4, <1>5, <1>6 DEF LikeInv

(***************************************************************************)
(* The like rows agree after every call.                                   *)
(***************************************************************************)
LEMMA LikeStep ==
    ASSUME PostInv, LikeInv, [Next]_vars
    PROVE  LikeInv'
  <1>1. CASE \/ \E u \in User : CreatePost(u)
             \/ \E u \in User, p \in Id : DeletePost(u, p)
             \/ \E u \in User, p \in Id, v \in {"Upheld", "Dismissed"} : ReviewReport(p, u, v)
             \/ \E p \in Id : AppealWindowCloses(p)
             \/ \E m \in Mod, p \in Id, a \in BOOLEAN : ReviewAppeal(m, p, a)
    <2>1. UNCHANGED likeVars
      BY <1>1 DEF CreatePost, DeletePost, ReviewReport, AppealWindowCloses, ReviewAppeal
    <2> QED
      BY <1>1, <2>1, LikeStepByPosts
  <1>2. CASE UNCHANGED <<post, removed, deleted, likeVars>>
    <2>1. UNCHANGED like /\ UNCHANGED likers /\ UNCHANGED <<post, removed, deleted>>
      BY <1>2 DEF likeVars
    <2> QED
      BY <2>1 DEF LikeInv, LikesAgree, LikersOf, Staged
  <1> QED
    BY <1>1, <1>2, LikePostLikes, BlockUserLikes, CleanupPostLikes, CleanupProfileLikes
    DEF Next, vars, UnblockUser, ReportPost, AppealModeration, DeleteProfile, SetPaused

-------------------------------------------------------------------------------
(***************************************************************************)
(* Reports                                                                 *)
(***************************************************************************)

(***************************************************************************)
(* Only the end of a cleanup takes a post out of every stage.              *)
(***************************************************************************)
LEMMA StageKept ==
    ASSUME [Next]_vars, NEW q \in Id, Staged(q), ~Staged(q)'
    PROVE  \E n \in 0 .. MaxEntries, c \in BOOLEAN : BatchCleanupPost(q, n, c)
  <1> SUFFICES ASSUME ~\E n \in 0 .. MaxEntries, c \in BOOLEAN : BatchCleanupPost(q, n, c)
               PROVE  Staged(q)'
    OBVIOUS
  <1>1. ASSUME NEW u \in User, CreatePost(u) PROVE Staged(q)'
    BY <1>1 DEF CreatePost, Put, Staged
  <1>2. ASSUME NEW u \in User, NEW p \in Id, DeletePost(u, p) PROVE Staged(q)'
    BY <1>2 DEF DeletePost, Del, Staged
  <1>3. ASSUME NEW u \in User, NEW p \in Id, LikePost(u, p) PROVE Staged(q)'
    BY <1>3 DEF LikePost, Staged
  <1>4. ASSUME NEW a \in User, NEW b \in User, BlockUser(a, b) PROVE Staged(q)'
    BY <1>4 DEF BlockUser, Staged
  <1>5. ASSUME NEW u \in User, NEW p \in Id, NEW v \in {"Upheld", "Dismissed"},
               ReviewReport(p, u, v)
        PROVE  Staged(q)'
    BY <1>5 DEF ReviewReport, ModerateAway, Del, Put, Staged
  <1>6. ASSUME NEW p \in Id, AppealWindowCloses(p) PROVE Staged(q)'
    BY <1>6 DEF AppealWindowCloses, Staged
  <1>7. ASSUME NEW m \in Mod, NEW p \in Id, NEW a \in BOOLEAN, ReviewAppeal(m, p, a)
        PROVE  Staged(q)'
    <2>1. UNCHANGED deleted /\ (Restore(p) \/ UNCHANGED <<post, authorPosts, removed>>)
      BY <1>7 DEF ReviewAppeal
    <2> QED
      BY <2>1 DEF Restore, Del, Put, Staged
  <1>8. ASSUME NEW p \in Id, NEW n \in 0 .. MaxEntries, NEW c \in BOOLEAN,
               BatchCleanupPost(p, n, c)
        PROVE  Staged(q)'
    <2>1. p # q
      BY <1>8
    <2> QED
      BY <1>8, <2>1 DEF BatchCleanupPost, Staged
  <1>9. ASSUME NEW u \in User, NEW n \in 0 .. MaxEntries, NEW g \in BOOLEAN,
               CleanupAuthoredPosts(u, n, g)
        PROVE  Staged(q)'
    <2> DEFINE ids == Doomed(u, n)
    <2>1. /\ deleted' = deleted \cup ids /\ DOMAIN post' = DOMAIN post \ ids
          /\ UNCHANGED removed
      BY <1>9 DEF CleanupAuthoredPosts, Doomed, Beyond
    <2> QED
      BY <2>1 DEF Staged
  <1>10. CASE UNCHANGED <<post, removed, deleted>>
    BY <1>10 DEF Staged
  <1> QED
    BY <1>1, <1>2, <1>3, <1>4, <1>5, <1>6, <1>7, <1>8, <1>9, <1>10
    DEF Next, vars, UnblockUser, ReportPost, AppealModeration, DeleteProfile, SetPaused

(***************************************************************************)
(* A call that leaves the reports of a post alone.                         *)
(***************************************************************************)
LEMMA ReportsKept ==
    ASSUME NEW q \in Id, ReportsAgree(q), reporters'[q] = reporters[q],
           \A u \in User : <<q, u>> \in DOMAIN report' <=> <<q, u>> \in DOMAIN report,
           Staged(q) => Staged(q)'
    PROVE  ReportsAgree(q)'
  <1>1. ReportersOf(q)' = ReportersOf(q)
    BY DEF ReportersOf
  <1> QED
    BY <1>1 DEF ReportsAgree

(***************************************************************************)
(* Rows that only go leave what remains finite and covered.                *)
(***************************************************************************)
LEMMA FewerReports ==
    ASSUME ReportInv, DOMAIN report' \subseteq DOMAIN report,
           \A r \in DOMAIN report' : report'[r] = report[r], UNCHANGED escrow
    PROVE  IsFiniteSet(DOMAIN report') /\ EscrowCoversReports'
  <1>1. IsFiniteSet(DOMAIN report) /\ escrow \in Nat /\ escrow >= Cardinality(Pending)
    BY DEF ReportInv, ReportTypes, EscrowCoversReports
  <1>2. Pending \subseteq DOMAIN report /\ Pending' \subseteq Pending
    BY DEF Pending
  <1>3. IsFiniteSet(DOMAIN report') /\ IsFiniteSet(Pending)
    BY <1>1, <1>2, FS_Subset
  <1>4. /\ IsFiniteSet(Pending') /\ Cardinality(Pending') =< Cardinality(Pending)
    BY <1>2, <1>3, FS_Subset
  <1>5. Cardinality(Pending') \in Nat /\ Cardinality(Pending) \in Nat
    BY <1>3, <1>4, FS_CardinalityType
  <1>6. escrow' >= Cardinality(Pending')
    BY <1>1, <1>4, <1>5
  <1> QED
    BY <1>3, <1>6 DEF EscrowCoversReports

(***************************************************************************)
(* report_post adds one report, one reporter and one stake.                *)
(***************************************************************************)
LEMMA ReportPostReports ==
    ASSUME ReportInv, NEW u \in User, NEW p \in Id, ReportPost(u, p)
    PROVE  ReportInv'
  <1> DEFINE r == <<p, u>>
  <1>1. /\ p \in DOMAIN post /\ r \notin DOMAIN report /\ escrow' = escrow + 1
        /\ report' = Put(report, r, "Pending")
        /\ reporters' = [reporters EXCEPT ![p] = Append(reporters[p], u)]
        /\ UNCHANGED <<post, removed, deleted>>
    BY DEF ReportPost, Live
  <1>2. r \in Id \X User
    OBVIOUS
  <1> HIDE DEF r
  <1>3. /\ DOMAIN report' = DOMAIN report \cup {r} /\ report'[r] = "Pending"
        /\ \A q \in DOMAIN report : report'[q] = report[q]
    BY <1>1 DEF Put
  <1>4. ReportTypes /\ ReportsAgree(p) /\ reporters[p] \in Seq(User) /\ escrow \in Nat
    BY DEF ReportInv, ReportTypes
  <1>5. u \notin ReportersOf(p)
    BY <1>1 DEF ReportersOf, r
  <1>6. /\ Append(reporters[p], u) \in Seq(User)
        /\ Lists(Append(reporters[p], u), ReportersOf(p) \cup {u})
    BY <1>4, <1>5, ListsAppend DEF ReportsAgree
  <1>7. /\ reporters' \in [Id -> Seq(User)] /\ reporters'[p] = Append(reporters[p], u)
        /\ \A q \in Id : q # p => reporters'[q] = reporters[q]
    BY <1>1, <1>4, <1>6 DEF ReportTypes
  <1>8. ReportTypes'
    <2>1. DOMAIN report' \subseteq Id \X User
      BY <1>2, <1>3, <1>4 DEF ReportTypes
    <2>2. \A q \in DOMAIN report' : report'[q] \in Status
      BY <1>3, <1>4 DEF ReportTypes, Status
    <2>3. escrow' \in Nat
      BY <1>1, <1>4
    <2> QED
      BY <1>7, <2>1, <2>2, <2>3 DEF ReportTypes
  <1>9. ASSUME NEW q \in Id PROVE ReportsAgree(q)'
    <2>1. CASE q = p
      <3>1. ReportersOf(p)' = ReportersOf(p) \cup {u}
        BY <1>3 DEF ReportersOf, r
      <3>2. Staged(p)'
        BY <1>1 DEF Staged
      <3> QED
        BY <1>6, <1>7, <2>1, <3>1, <3>2 DEF ReportsAgree
    <2>2. CASE q # p
      <3>1. \A v \in User : <<q, v>> \in DOMAIN report' <=> <<q, v>> \in DOMAIN report
        BY <1>3, <2>2 DEF r
      <3>2. ReportsAgree(q) /\ (Staged(q) => Staged(q)')
        BY <1>1 DEF ReportInv, Staged
      <3> QED
        BY <1>7, <2>2, <3>1, <3>2, ReportsKept
    <2> QED
      BY <2>1, <2>2
  <1>10. IsFiniteSet(DOMAIN report')
    BY <1>3, FS_AddElement DEF ReportInv
  <1>11. EscrowCoversReports'
    <2>1. Pending' = Pending \cup {r} /\ r \notin Pending /\ Pending \subseteq DOMAIN report
      BY <1>1, <1>3 DEF Pending
    <2>2. IsFiniteSet(Pending)
      BY <2>1, FS_Subset DEF ReportInv
    <2>3. Cardinality(Pending') = Cardinality(Pending) + 1 /\ Cardinality(Pending) \in Nat
      BY <2>1, <2>2, FS_AddElement, FS_CardinalityType
    <2>4. escrow >= Cardinality(Pending)
      BY DEF ReportInv, EscrowCoversReports
    <2>5. escrow' >= Cardinality(Pending')
      BY <1>1, <1>4, <2>3, <2>4
    <2> QED
      BY <2>5 DEF EscrowCoversReports
  <1> QED
    BY <1>8, <1>9, <1>10, <1>11 DEF ReportInv

(***************************************************************************)
(* review_report settles one pending report and pays out one stake.        *)
(***************************************************************************)
LEMMA ReviewReportReports ==
    ASSUME ReportInv, NEW u \in User, NEW p \in Id, NEW v \in {"Upheld", "Dismissed"},
           ReviewReport(p, u, v), \A q \in Id : Staged(q) => Staged(q)'
    PROVE  ReportInv'
  <1> DEFINE r == <<p, u>>
  <1>1. /\ r \in DOMAIN report /\ report[r] = "Pending"
        /\ escrow > 0 /\ escrow' = escrow - 1
        /\ report' = [report EXCEPT ![r] = v] /\ UNCHANGED reporters
    BY DEF ReviewReport, Reviewable
  <1> HIDE DEF r
  <1>2. /\ DOMAIN report' = DOMAIN report /\ report'[r] = v
        /\ \A q \in DOMAIN report : q # r => report'[q] = report[q]
    BY <1>1
  <1>3. ReportTypes'
    BY <1>1, <1>2 DEF ReportInv, ReportTypes, Status
  <1>4. \A q \in Id : ReportsAgree(q)'
    BY <1>1, <1>2, ReportsKept DEF ReportInv
  <1>5. EscrowCoversReports'
    <2>1. Pending' = Pending \ {r} /\ r \in Pending /\ Pending \subseteq DOMAIN report
      BY <1>1, <1>2 DEF Pending
    <2>2. IsFiniteSet(Pending)
      BY <2>1, FS_Subset DEF ReportInv
    <2>3. Cardinality(Pending') = Cardinality(Pending) - 1 /\ Cardinality(Pending) \in Nat
      BY <2>1, <2>2, FS_RemoveElement, FS_CardinalityType
    <2>4. escrow >= Cardinality(Pending) /\ escrow \in Nat
      BY DEF ReportInv, ReportTypes, EscrowCoversReports
    <2>5. escrow' >= Cardinality(Pending')
      BY <1>1, <2>3, <2>4
    <2> QED
      BY <2>5 DEF EscrowCoversReports
  <1> QED
    BY <1>2, <1>3, <1>4, <1>5 DEF ReportInv

(***************************************************************************)
(* batch_cleanup_post drops the last reporters with their reports, and the *)
(* tombstone only with the first.                                          *)
(***************************************************************************)
LEMMA CleanupPostReports ==
    ASSUME LikeInv, ReportInv, NEW p \in Id, NEW n \in 0 .. MaxEntries, NEW c \in BOOLEAN,
           BatchCleanupPost(p, n, c), \A q \in Id : q # p => (Staged(q) => Staged(q)')
    PROVE  ReportInv'
  <1> DEFINE list == reporters[p]
             n1 == LeastOf(n, likers[p].count)
             n2 == LeastOf(n - n1, Len(list))
             keep == Len(list) - n2
             out == {<<p, u>> : u \in Beyond(list, keep)}
  <1>1. ReportTypes /\ list \in Seq(User) /\ Len(list) \in Nat /\ ReportsAgree(p)
    BY LenProperties DEF ReportInv, ReportTypes
  <1>2. /\ p \in deleted
        /\ report' = [r \in DOMAIN report \ out |-> report[r]]
        /\ reporters' = [reporters EXCEPT ![p] = SubSeq(list, 1, keep)]
        /\ p \notin deleted' => n2 = Len(list)
        /\ UNCHANGED escrow
    BY DEF BatchCleanupPost, CleanupDone, LastReporters, Beyond
  <1>3. keep \in 0 .. Len(list) /\ (n2 = Len(list) => keep = 0)
    <2>1. likers[p].count \in Nat
      BY DEF LikeInv, LikesAgree, Indexed
    <2>2. n1 \in Nat /\ n - n1 \in Nat
      BY <2>1, BoundsAreNat DEF LeastOf
    <2>3. ASSUME NEW m \in Nat, NEW k \in Nat
          PROVE  k - LeastOf(m, k) \in 0 .. k /\ (LeastOf(m, k) = k => k - LeastOf(m, k) = 0)
      BY DEF LeastOf
    <2> HIDE DEF n1, list
    <2> QED
      BY <1>1, <2>2, <2>3
  <1> HIDE DEF list, n2, keep, out
  <1>4. /\ SubSeq(list, 1, keep) \in Seq(User) /\ Len(SubSeq(list, 1, keep)) = keep
        /\ Lists(SubSeq(list, 1, keep), ReportersOf(p) \ Beyond(list, keep))
        /\ Beyond(list, keep) \subseteq ReportersOf(p)
    <2>1. Lists(list, ReportersOf(p))
      BY <1>1 DEF ReportsAgree, list
    <2> QED
      BY <1>1, <1>3, <2>1, ListsPrefix
  <1>5. /\ reporters' \in [Id -> Seq(User)] /\ reporters'[p] = SubSeq(list, 1, keep)
        /\ \A q \in Id : q # p => reporters'[q] = reporters[q]
    BY <1>1, <1>2, <1>4 DEF ReportTypes
  <1>6. /\ DOMAIN report' = DOMAIN report \ out
        /\ \A r \in DOMAIN report' : report'[r] = report[r]
    BY <1>2
  <1>7. ReportTypes'
    BY <1>1, <1>2, <1>5, <1>6 DEF ReportTypes
  <1>8. ASSUME NEW q \in Id PROVE ReportsAgree(q)'
    <2>1. CASE q = p
      <3>1. ReportersOf(p)' = ReportersOf(p) \ Beyond(list, keep)
        BY <1>6 DEF ReportersOf, out
      <3>2. ASSUME ~Staged(p)' PROVE reporters'[p] = <<>>
        <4>1. keep = 0
          BY <1>2, <1>3, <3>2 DEF Staged
        <4> QED
          BY <1>4, <1>5, <4>1, EmptySeq
      <3> QED
        BY <1>4, <1>5, <2>1, <3>1, <3>2 DEF ReportsAgree
    <2>2. CASE q # p
      <3>1. \A v \in User : <<q, v>> \in DOMAIN report' <=> <<q, v>> \in DOMAIN report
        BY <1>6, <2>2 DEF out
      <3>2. ReportsAgree(q)
        BY DEF ReportInv
      <3> QED
        BY <1>5, <2>2, <3>1, <3>2, ReportsKept
    <2> QED
      BY <2>1, <2>2
  <1>9. IsFiniteSet(DOMAIN report') /\ EscrowCoversReports'
    BY <1>2, <1>6, FewerReports
  <1> QED
    BY <1>7, <1>8, <1>9 DEF ReportInv

(***************************************************************************)
(* batch_cleanup_profile takes all reports of the posts it tombstones.     *)
(***************************************************************************)
LEMMA CleanupProfileReports ==
    ASSUME ReportInv, NEW u \in User, NEW n \in 0 .. MaxEntries, NEW g \in BOOLEAN,
           CleanupAuthoredPosts(u, n, g), \A q \in Id : Staged(q) => Staged(q)'
    PROVE  ReportInv'
  <1> DEFINE ids == Doomed(u, n)
             kept == {q \in DOMAIN report : q[1] \in ids => ~Contains(reporters[q[1]], q[2])}
  <1>1. /\ report' = [r \in kept |-> report[r]]
        /\ reporters' = [p \in Id |-> IF p \in ids THEN <<>> ELSE reporters[p]]
        /\ UNCHANGED escrow
    BY DEF CleanupAuthoredPosts, Doomed, Beyond
  <1> HIDE DEF ids
  <1>2. ReportTypes /\ <<>> \in Seq(User)
    BY EmptySeq DEF ReportInv
  <1>3. /\ DOMAIN report' \subseteq DOMAIN report
        /\ \A r \in DOMAIN report' : report'[r] = report[r]
    BY <1>1
  <1>4. ReportTypes'
    BY <1>1, <1>2, <1>3 DEF ReportTypes
  <1>5. ASSUME NEW q \in Id PROVE ReportsAgree(q)'
    <2>1. ReportsAgree(q) /\ reporters[q] \in Seq(User)
      BY <1>2 DEF ReportInv, ReportTypes
    <2>2. CASE q \in ids
      <3>1. ASSUME NEW v \in User PROVE <<q, v>> \notin DOMAIN report'
        <4>1. SUFFICES ASSUME <<q, v>> \in DOMAIN report PROVE Contains(reporters[q], v)
          BY <1>1, <2>2
        <4>2. v \in ToSet(reporters[q])
          BY <2>1, <4>1 DEF ReportsAgree, Lists, ReportersOf
        <4>3. DOMAIN reporters[q] = 1 .. Len(reporters[q])
          BY <2>1, LenProperties
        <4> QED
          BY <4>2, <4>3 DEF ToSet, Contains
      <3>2. ReportersOf(q)' = {}
        BY <3>1 DEF ReportersOf
      <3>3. reporters'[q] = <<>>
        BY <1>1, <2>2
      <3>4. Lists(<<>>, {})
        BY DEF Lists, ToSet, IsInjective
      <3> QED
        BY <3>2, <3>3, <3>4 DEF ReportsAgree
    <2>3. CASE q \notin ids
      <3>1. \A v \in User : <<q, v>> \in DOMAIN report' <=> <<q, v>> \in DOMAIN report
        BY <1>1, <2>3
      <3>2. reporters'[q] = reporters[q]
        BY <1>1, <2>3
      <3> QED
        BY <2>1, <3>1, <3>2, ReportsKept
    <2> QED
      BY <2>2, <2>3
  <1>6. IsFiniteSet(DOMAIN report') /\ EscrowCoversReports'
    BY <1>1, <1>3, FewerReports
  <1> QED
    BY <1>4, <1>5, <1>6 DEF ReportInv

(***************************************************************************)
(* The report rows agree after every call, and the escrow covers them.     *)
(***************************************************************************)
LEMMA ReportStep ==
    ASSUME LikeInv, ReportInv, [Next]_vars
    PROVE  ReportInv'
  <1>1. CASE \E u \in User, p \in Id : ReportPost(u, p)
    BY <1>1, ReportPostReports
  <1>2. ASSUME NEW u \in User, NEW p \in Id, NEW v \in {"Upheld", "Dismissed"},
               ReviewReport(p, u, v)
        PROVE  ReportInv'
    <2>1. ASSUME NEW q \in Id PROVE Staged(q) => Staged(q)'
      BY <1>2 DEF ReviewReport, ModerateAway, Del, Put, Staged
    <2> QED
      BY <1>2, <2>1, ReviewReportReports
  <1>3. ASSUME NEW p \in Id, NEW n \in 0 .. MaxEntries, NEW c \in BOOLEAN,
               BatchCleanupPost(p, n, c)
        PROVE  ReportInv'
    <2>1. \A q \in Id : q # p => (Staged(q) => Staged(q)')
      BY <1>3 DEF BatchCleanupPost, Staged
    <2> QED
      BY <1>3, <2>1, CleanupPostReports
  <1>4. ASSUME NEW u \in User, NEW n \in 0 .. MaxEntries, NEW g \in BOOLEAN,
               CleanupAuthoredPosts(u, n, g)
        PROVE  ReportInv'
    <2>1. /\ deleted' = deleted \cup Doomed(u, n) /\ DOMAIN post' = DOMAIN post \ Doomed(u, n)
          /\ UNCHANGED removed
      BY <1>4 DEF CleanupAuthoredPosts, Doomed, Beyond
    <2>2. \A q \in Id : Staged(q) => Staged(q)'
      BY <2>1 DEF Staged
    <2> QED
      BY <1>4, <2>2, CleanupProfileReports
  <1>5. CASE /\ UNCHANGED <<report, reporters, escrow>>
             /\ ~\E p \in Id, n \in 0 .. MaxEntries, c \in BOOLEAN : BatchCleanupPost(p, n, c)
    <2>1. \A q \in Id : ReportsAgree(q)'
      BY <1>5, StageKept, ReportsKept DEF ReportInv
    <2> QED
      BY <1>5, <2>1 DEF ReportInv, ReportTypes, EscrowCoversReports, Pending
  <1> QED
    BY <1>1, <1>2, <1>3, <1>4, <1>5
    DEF Next, vars, modVars, CreatePost, DeletePost, LikePost, BlockUser, UnblockUser,
        AppealWindowCloses, AppealModeration, ReviewAppeal, DeleteProfile, SetPaused

-------------------------------------------------------------------------------
(***************************************************************************)
(* Blocks, appeals and the whole invariant                                 *)
(***************************************************************************)

(***************************************************************************)
(* review_appeal keeps the votes of the moderators on a row of its type.   *)
(***************************************************************************)
LEMMA OtherStep ==
    ASSUME OtherTypes, [Next]_vars
    PROVE  OtherTypes' /\ DOMAIN appeal \subseteq DOMAIN appeal'
  <1>1. ASSUME NEW u \in User, NEW p \in Id, AppealModeration(u, p)
        PROVE  OtherTypes' /\ DOMAIN appeal \subseteq DOMAIN appeal'
    <2> DEFINE row == [status |-> "Pending", approvers |-> {}, rejecters |-> {}]
    <2>1. row \in AppealRow
      BY DEF AppealRow
    <2> HIDE DEF row
    <2>2. appeal' = Put(appeal, p, row) /\ UNCHANGED <<blocks, gone, paused>>
      BY <1>1 DEF AppealModeration, row
    <2>3. /\ DOMAIN appeal' = DOMAIN appeal \cup {p} /\ appeal'[p] = row
          /\ \A q \in DOMAIN appeal : q # p => appeal'[q] = appeal[q]
      BY <2>2 DEF Put
    <2> QED
      BY <2>1, <2>2, <2>3 DEF OtherTypes
  <1>2. ASSUME NEW m \in Mod, NEW p \in Id, NEW a \in BOOLEAN, ReviewAppeal(m, p, a)
        PROVE  OtherTypes' /\ DOMAIN appeal \subseteq DOMAIN appeal'
    <2> DEFINE yes == IF a THEN appeal[p].approvers \cup {m} ELSE appeal[p].approvers
               no == IF a THEN appeal[p].rejecters ELSE appeal[p].rejecters \cup {m}
               row(s) == [status |-> s, approvers |-> yes, rejecters |-> no]
    <2>1. p \in DOMAIN appeal /\ appeal[p] \in AppealRow
      BY <1>2 DEF ReviewAppeal, OtherTypes
    <2>2. yes \in SUBSET Mod /\ no \in SUBSET Mod
      BY <2>1 DEF AppealRow
    <2>3. /\ UNCHANGED <<blocks, gone, paused>>
          /\ \E s \in {"Pending", "Approved", "Rejected"} : appeal' = [appeal EXCEPT ![p] = row(s)]
      BY <1>2 DEF ReviewAppeal
    <2> HIDE DEF yes, no
    <2>4. \A s \in {"Pending", "Approved", "Rejected"} : row(s) \in AppealRow
      BY <2>2 DEF AppealRow
    <2> HIDE DEF row
    <2>5. PICK s \in {"Pending", "Approved", "Rejected"} : appeal' = [appeal EXCEPT ![p] = row(s)]
      BY <2>3
    <2>6. /\ DOMAIN appeal' = DOMAIN appeal
          /\ \A q \in DOMAIN appeal : appeal'[q] \in AppealRow
      BY <2>4, <2>5 DEF OtherTypes
    <2> QED
      BY <2>3, <2>6 DEF OtherTypes
  <1>3. CASE /\ UNCHANGED appeal /\ gone' \subseteq User /\ paused' \subseteq Module
             /\ blocks' \subseteq User \X User
    BY <1>3 DEF OtherTypes
  <1>4. CASE UNCHANGED <<appeal, gone, paused, blocks>>
    BY <1>4 DEF OtherTypes
  <1>5. ASSUME NEW a \in User, NEW b \in User, BlockUser(a, b) \/ UnblockUser(a, b)
        PROVE  OtherTypes' /\ DOMAIN appeal \subseteq DOMAIN appeal'
    <2>1. <<a, b>> \in User \X User
      OBVIOUS
    <2> QED
      BY <1>3, <1>5, <2>1 DEF BlockUser, UnblockUser, modVars, OtherTypes
  <1>6. ASSUME NEW u \in User, DeleteProfile(u)
        PROVE  OtherTypes' /\ DOMAIN appeal \subseteq DOMAIN appeal'
    BY <1>3, <1>6 DEF DeleteProfile, modVars, OtherTypes
  <1>7. ASSUME NEW u \in User, NEW n \in 0 .. MaxEntries, NEW g \in BOOLEAN,
               CleanupAuthoredPosts(u, n, g)
        PROVE  OtherTypes' /\ DOMAIN appeal \subseteq DOMAIN appeal'
    <2>1. UNCHANGED <<appeal, blocks, paused>> /\ gone' \subseteq gone
      BY <1>7 DEF CleanupAuthoredPosts
    <2> QED
      BY <2>1 DEF OtherTypes
  <1>8. ASSUME NEW ms \in SUBSET Module, SetPaused(ms)
        PROVE  OtherTypes' /\ DOMAIN appeal \subseteq DOMAIN appeal'
    BY <1>3, <1>8 DEF SetPaused, modVars, OtherTypes
  <1> QED
    BY <1>1, <1>2, <1>4, <1>5, <1>6, <1>7, <1>8
    DEF Next, vars, modVars, CreatePost, DeletePost, LikePost, ReportPost, ReviewReport,
        AppealWindowCloses, BatchCleanupPost

(***************************************************************************)
(* Calls that add neither a like nor a block keep the two apart, when a    *)
(* liked post that is live after them, without an appeal, was live before  *)
(* under the same author.                                                  *)
(***************************************************************************)
LEMMA ApartKept ==
    ASSUME NoLikeAcrossBlockUnlessRestored, like' \subseteq like, blocks' \subseteq blocks,
           DOMAIN appeal \subseteq DOMAIN appeal',
           \A l \in like' : l[1] \in DOMAIN post' /\ l[1] \notin DOMAIN appeal' =>
               l[1] \in DOMAIN post /\ post'[l[1]].author = post[l[1]].author
    PROVE  NoLikeAcrossBlockUnlessRestored'
  BY DEF NoLikeAcrossBlockUnlessRestored, AcrossBlock, Blocked, Live

(***************************************************************************)
(* No call but a restore joins a like and a block.                         *)
(***************************************************************************)
LEMMA ApartStep ==
    ASSUME ContentInv, [Next]_vars
    PROVE  NoLikeAcrossBlockUnlessRestored'
  <1>0. /\ PostInv /\ LikeInv /\ OtherTypes /\ NoLikeAcrossBlockUnlessRestored
        /\ DOMAIN appeal \subseteq DOMAIN appeal'
    BY OtherStep DEF ContentInv
  <1>1. ASSUME NEW u \in User, CreatePost(u)
        PROVE  NoLikeAcrossBlockUnlessRestored'
    <2>1. /\ DOMAIN post' = DOMAIN post \cup {postCount + 1}
          /\ \A q \in DOMAIN post : q # postCount + 1 => post'[q] = post[q]
      BY <1>1 DEF CreatePost, FreshId, Put
    <2>2. \A l \in like : l[1] # postCount + 1
      <3> SUFFICES ASSUME NEW l \in like, l[1] = postCount + 1 PROVE FALSE
        OBVIOUS
      <3>1. l[1] \in Id /\ l[2] \in User /\ l = <<l[1], l[2]>>
        BY <1>0 DEF LikeInv
      <3>2. ~Staged(l[1])
        BY <1>0, BoundsAreNat DEF PostInv, PostTypes, Staged
      <3>3. LikersOf(l[1]) = {}
        BY <1>0, <3>1, <3>2, IndexedEmpty DEF LikeInv, LikesAgree
      <3> QED
        BY <3>1, <3>3 DEF LikersOf
    <2>3. UNCHANGED <<like, blocks>>
      BY <1>1 DEF CreatePost, likeVars
    <2> QED
      BY <1>0, <2>1, <2>2, <2>3, ApartKept
  <1>2. ASSUME NEW u \in User, NEW p \in Id, LikePost(u, p)
        PROVE  NoLikeAcrossBlockUnlessRestored'
    <2>1. /\ p \in DOMAIN post /\ like' = like \cup {<<p, u>>} /\ UNCHANGED <<blocks, appeal>>
          /\ <<post[p].author, u>> \notin blocks /\ <<u, post[p].author>> \notin blocks
          /\ post' = [post EXCEPT ![p].likes = post[p].likes + 1]
      BY <1>2 DEF LikePost, Live, Blocked, modVars
    <2>2. ASSUME NEW r \in PostRow PROVE [r EXCEPT !.likes = r.likes + 1].author = r.author
      BY DEF PostRow
    <2>3. /\ DOMAIN post' = DOMAIN post
          /\ \A q \in DOMAIN post : post'[q].author = post[q].author
      BY <1>0, <2>1, <2>2 DEF PostInv, PostTypes
    <2>4. <<p, u>>[1] = p /\ <<p, u>>[2] = u
      OBVIOUS
    <2> QED
      BY <1>0, <2>1, <2>3, <2>4 DEF NoLikeAcrossBlockUnlessRestored, AcrossBlock, Blocked, Live
  <1>3. ASSUME NEW a \in User, NEW b \in User, BlockUser(a, b)
        PROVE  NoLikeAcrossBlockUnlessRestored'
    <2>1. /\ blocks' = blocks \cup {<<a, b>>} /\ like' = like \ LikesBetween(a, b)
          /\ DOMAIN post' = DOMAIN post /\ UNCHANGED appeal
          /\ \A q \in DOMAIN post :
                post'[q] = post[q] \/ post'[q] = [post[q] EXCEPT !.likes = @ - 1]
      BY <1>3 DEF BlockUser, modVars
    <2>2. ASSUME NEW r \in PostRow PROVE [r EXCEPT !.likes = @ - 1].author = r.author
      BY DEF PostRow
    <2>3. \A q \in DOMAIN post : post'[q].author = post[q].author
      BY <1>0, <2>1, <2>2 DEF PostInv, PostTypes
    <2>4. ASSUME NEW l \in like', l[1] \in DOMAIN post', l[1] \notin DOMAIN appeal'
          PROVE  /\ <<post'[l[1]].author, l[2]>> \notin blocks'
                 /\ <<l[2], post'[l[1]].author>> \notin blocks'
      <3>1. /\ <<post[l[1]].author, l[2]>> \notin blocks
            /\ <<l[2], post[l[1]].author>> \notin blocks
        BY <1>0, <2>1, <2>4 DEF NoLikeAcrossBlockUnlessRestored, AcrossBlock, Blocked, Live
      <3>2. {l[2], post[l[1]].author} # {a, b}
        BY <2>1, <2>4 DEF LikesBetween, Live
      <3> QED
        BY <2>1, <2>3, <2>4, <3>1, <3>2
    <2> QED
      BY <2>4 DEF NoLikeAcrossBlockUnlessRestored, AcrossBlock, Blocked, Live
  <1>4. CASE \/ \E u \in User, p \in Id : DeletePost(u, p)
             \/ \E u \in User, p \in Id, v \in {"Upheld", "Dismissed"} : ReviewReport(p, u, v)
    <2>1. /\ DOMAIN post' \subseteq DOMAIN post /\ UNCHANGED <<like, blocks>>
          /\ \A q \in DOMAIN post' : post'[q] = post[q]
      BY <1>4 DEF DeletePost, ReviewReport, ModerateAway, Del, likeVars
    <2> QED
      BY <1>0, <2>1, ApartKept
  <1>5. ASSUME NEW m \in Mod, NEW p \in Id, NEW a \in BOOLEAN, ReviewAppeal(m, p, a)
        PROVE  NoLikeAcrossBlockUnlessRestored'
    <2>1. /\ p \in DOMAIN appeal /\ UNCHANGED <<like, blocks>>
          /\ Restore(p) \/ UNCHANGED post
      BY <1>5 DEF ReviewAppeal, likeVars
    <2>2. \A q \in DOMAIN post' : q # p => q \in DOMAIN post /\ post'[q] = post[q]
      BY <2>1 DEF Restore, Put
    <2> QED
      BY <1>0, <2>1, <2>2, ApartKept
  <1>6. ASSUME NEW u \in User, NEW n \in 0 .. MaxEntries, NEW g \in BOOLEAN,
               CleanupAuthoredPosts(u, n, g)
        PROVE  NoLikeAcrossBlockUnlessRestored'
    <2>1. /\ DOMAIN post' \subseteq DOMAIN post /\ like' \subseteq like /\ UNCHANGED blocks
          /\ \A q \in DOMAIN post' : post'[q] = post[q]
      BY <1>6 DEF CleanupAuthoredPosts
    <2> QED
      BY <1>0, <2>1, ApartKept
  <1>7. CASE UNCHANGED post /\ like' \subseteq like /\ blocks' \subseteq blocks
    BY <1>0, <1>7, ApartKept
  <1> QED
    BY <1>1, <1>2, <1>3, <1>4, <1>5, <1>6, <1>7
    DEF Next, vars, likeVars, UnblockUser, ReportPost, AppealWindowCloses, AppealModeration,
        BatchCleanupPost, DeleteProfile, SetPaused

(***************************************************************************)
(* A fresh contract.                                                       *)
(***************************************************************************)
LEMMA ContentInit == Init => ContentInv
  <1> SUFFICES ASSUME Init PROVE ContentInv
    OBVIOUS
  <1>1. Lists(<<>>, {}) /\ <<>> \in Seq(Id) /\ <<>> \in Seq(User)
    BY EmptySeq DEF Lists, ToSet, IsInjective
  <1>2. PostTypes
    BY <1>1, BoundsAreNat DEF Init, PostTypes
  <1>3. OneLifeStage /\ AuthorListExact
    BY <1>1 DEF Init, OneLifeStage, AuthorListExact, Lists
  <1>4. LikeInv
    <2>1. \A p \in Id : LikersOf(p) = {} /\ likers[p] = NoLikers
      BY DEF Init, LikersOf
    <2>2. NoLikers.count = 0
      BY DEF NoLikers
    <2>3. DOMAIN post = {} /\ DOMAIN removed = {}
      BY DEF Init
    <2>4. \A p \in Id : LikesAgree(p)
      BY <2>1, <2>2, <2>3, EmptyIndexed DEF LikesAgree
    <2> QED
      BY <2>4 DEF LikeInv, Init
  <1>5. ReportInv
    <2>1. DOMAIN report = {} /\ Pending = {}
      BY DEF Init, Pending
    <2>2. \A p \in Id : ReportersOf(p) = {} /\ reporters[p] = <<>>
      BY <2>1 DEF Init, ReportersOf
    <2>3. \A p \in Id : ReportsAgree(p)
      BY <1>1, <2>2 DEF ReportsAgree
    <2>4. ReportTypes
      BY <1>1 DEF Init, ReportTypes
    <2>5. IsFiniteSet(DOMAIN report) /\ Cardinality(Pending) = 0
      BY <2>1, FS_EmptySet
    <2> QED
      BY <2>3, <2>4, <2>5 DEF ReportInv, EscrowCoversReports, Init
  <1>6. OtherTypes /\ NoLikeAcrossBlockUnlessRestored
    BY DEF Init, OtherTypes, NoLikeAcrossBlockUnlessRestored
  <1> QED
    BY <1>2, <1>3, <1>4, <1>5, <1>6 DEF ContentInv, PostInv

(***************************************************************************)
(* Posts, likes, reports, appeals and blocks agree in every reachable      *)
(* state of the contract: ContentInv is an inductive invariant.            *)
(***************************************************************************)
THEOREM ContentInvariant == Spec => []ContentInv
  <1>1. ContentInv /\ [Next]_vars => ContentInv'
    BY PostStep, LikeStep, ReportStep, OtherStep, ApartStep DEF ContentInv
  <1> QED
    BY <1>1, ContentInit, PTL DEF Spec

-------------------------------------------------------------------------------
(***************************************************************************)
(* What the invariant says                                                 *)
(***************************************************************************)

(***************************************************************************)
(* After any sequence of calls the rows have their types, a post is live,  *)
(* moderated away or tombstoned but never two of these, and every author's *)
(* list names exactly the live posts, once each.                           *)
(***************************************************************************)
THEOREM PostRowsAgree == Spec => []PostsConsistent
  <1>1. ContentInv => PostsConsistent
    <2> SUFFICES ASSUME ContentInv PROVE PostsConsistent
      OBVIOUS
    <2>1. PostTypes /\ OneLifeStage /\ AuthorListExact /\ ReportTypes /\ OtherTypes
      BY DEF ContentInv, PostInv, ReportInv
    <2>2. LikeTypes
      <3>1. like \in SUBSET (Id \X User) /\ DOMAIN likers = Id
        BY DEF ContentInv, LikeInv
      <3>2. ASSUME NEW p \in Id
            PROVE  /\ likers[p].count \in Nat /\ DOMAIN likers[p].idx \subseteq Nat
                   /\ \A k \in DOMAIN likers[p].idx : likers[p].idx[k] \in User
        <4>1. Indexed(likers[p], LikersOf(p))
          BY DEF ContentInv, LikeInv, LikesAgree
        <4>2. LikersOf(p) \subseteq User
          BY DEF LikersOf
        <4>3. likers[p].count \in Nat /\ DOMAIN likers[p].idx = 0 .. likers[p].count - 1
          BY <4>1 DEF Indexed
        <4>4. \A k \in 0 .. likers[p].count - 1 : likers[p].idx[k] \in User
          BY <4>1, <4>2 DEF Indexed
        <4>5. 0 .. likers[p].count - 1 \subseteq Nat
          BY <4>3
        <4> QED
          BY <4>3, <4>4, <4>5
      <3> QED
        BY <3>1, <3>2 DEF LikeTypes
    <2> QED
      BY <2>1, <2>2 DEF PostsConsistent, TypeOK
  <1> QED
    BY <1>1, ContentInvariant, PTL

(***************************************************************************)
(* The like count of a live post, and of the snapshot that an appeal may   *)
(* bring back, is the number of its likers and the size of its index, and  *)
(* the index lists exactly them: through likes, blocks, moderation,        *)
(* restores and both cleanups.                                             *)
(***************************************************************************)
THEOREM LikeCountsAreExact == Spec => []LikeCountExact
  <1>1. ContentInv => LikeCountExact
    <2> SUFFICES ASSUME ContentInv PROVE LikeCountExact
      OBVIOUS
    <2>1. ASSUME NEW p \in Id, NEW n, n = likers[p].count
          PROVE  LikesMatch(p, n)
      <3>1. Indexed(likers[p], LikersOf(p))
        BY DEF ContentInv, LikeInv, LikesAgree
      <3>2. /\ likers[p].count = Cardinality(LikersOf(p))
            /\ {likers[p].idx[k] : k \in 0 .. likers[p].count - 1} = LikersOf(p)
        BY <3>1, IndexedCount
      <3>3. DOMAIN likers[p].idx = 0 .. likers[p].count - 1
        BY <3>1 DEF Indexed
      <3> QED
        BY <2>1, <3>2, <3>3 DEF LikesMatch
    <2>2. DOMAIN post \subseteq Id /\ DOMAIN removed \subseteq Id
      BY BoundsAreNat DEF ContentInv, PostInv, PostTypes, Id
    <2>3. /\ \A p \in DOMAIN post : post[p].likes = likers[p].count
          /\ \A p \in DOMAIN removed : removed[p].likes = likers[p].count
      BY <2>2 DEF ContentInv, LikeInv, LikesAgree
    <2> QED
      BY <2>1, <2>2, <2>3 DEF LikeCountExact
  <1> QED
    BY <1>1, ContentInvariant, PTL

(***************************************************************************)
(* The stakes of all pending reports can be paid out of what the contract  *)
(* holds, so review_report never fails for lack of escrow.                 *)
(***************************************************************************)
THEOREM StakesAreCovered == Spec => []EscrowCoversReports
  <1>1. ContentInv => EscrowCoversReports
    BY DEF ContentInv, ReportInv
  <1> QED
    BY <1>1, ContentInvariant, PTL

(***************************************************************************)
(* No like on a live post joins two users one of whom blocks the other,    *)
(* unless an appeal was filed for the post.                                *)
(***************************************************************************)
THEOREM BlockSeparates == Spec => []NoLikeAcrossBlockUnlessRestored
  <1>1. ContentInv => NoLikeAcrossBlockUnlessRestored
    BY DEF ContentInv
  <1> QED
    BY <1>1, ContentInvariant, PTL

(***************************************************************************)
(* ADR-002: once the tombstone of a post is gone no like and no report row *)
(* of it is left.                                                          *)
(***************************************************************************)
THEOREM CleanupLeavesNothing == Spec => []NothingOrphaned
  <1>1. ContentInv => NothingOrphaned
    <2> SUFFICES ASSUME ContentInv, NEW p \in Id, ~Staged(p)
                 PROVE  LikersOf(p) = {} /\ {r \in DOMAIN report : r[1] = p} = {}
      BY DEF NothingOrphaned, Staged
    <2>1. LikersOf(p) = {}
      BY IndexedEmpty DEF ContentInv, LikeInv, LikesAgree
    <2>2. ReportersOf(p) = {}
      BY DEF ContentInv, ReportInv, ReportsAgree, Lists, ToSet
    <2>3. \A r \in DOMAIN report : r = <<r[1], r[2]>> /\ r[2] \in User
      BY DEF ContentInv, ReportInv, ReportTypes
    <2>4. {r \in DOMAIN report : r[1] = p} = {}
      BY <2>2, <2>3 DEF ReportersOf
    <2> QED
      BY <2>1, <2>4
  <1> QED
    BY <1>1, ContentInvariant, PTL

(***************************************************************************)
(* ADR-002: an id is never given to a second post, and a post that was     *)
(* deleted is never readable again; only moderation can be undone.         *)
(***************************************************************************)
THEOREM DeletionIsFinal == Spec => DeletedStaysDeleted
  <1>1. ContentInv /\ [Next]_vars =>
            [\A p \in 1 .. postCount :
                 p \in DOMAIN post' => p \in DOMAIN post \cup DOMAIN removed]_vars
    <2> SUFFICES ASSUME ContentInv, Next, NEW p \in 1 .. postCount, p \in DOMAIN post'
                 PROVE  p \in DOMAIN post \cup DOMAIN removed
      OBVIOUS
    <2>1. ASSUME NEW u \in User, CreatePost(u)
          PROVE  p \in DOMAIN post
      <3>1. DOMAIN post' = DOMAIN post \cup {postCount + 1} /\ postCount \in Nat
        BY <2>1, BoundsAreNat DEF CreatePost, FreshId, Put, ContentInv, PostInv, PostTypes
      <3> QED
        BY <3>1
    <2>2. ASSUME NEW m \in Mod, NEW q \in Id, NEW a \in BOOLEAN, ReviewAppeal(m, q, a)
          PROVE  p \in DOMAIN post \cup DOMAIN removed
      <3>1. Restore(q) \/ UNCHANGED post
        BY <2>2 DEF ReviewAppeal
      <3> QED
        BY <3>1 DEF Restore, Put
    <2>3. CASE DOMAIN post' \subseteq DOMAIN post
      BY <2>3
    <2>4. CASE \/ \E u \in User, q \in Id : DeletePost(u, q)
               \/ \E u \in User, q \in Id, v \in {"Upheld", "Dismissed"} : ReviewReport(q, u, v)
      BY <2>3, <2>4 DEF DeletePost, ReviewReport, ModerateAway, Del
    <2>5. CASE \/ \E u \in User, q \in Id : LikePost(u, q)
               \/ \E a, b \in User : BlockUser(a, b)
               \/ \E u \in User, n \in 0 .. MaxEntries, g \in BOOLEAN : CleanupAuthoredPosts(u, n, g)
      BY <2>3, <2>5 DEF LikePost, BlockUser, CleanupAuthoredPosts
    <2> QED
      BY <2>1, <2>2, <2>3, <2>4, <2>5
      DEF Next, UnblockUser, ReportPost, AppealWindowCloses, AppealModeration,
          BatchCleanupPost, DeleteProfile, SetPaused
  <1> QED
    BY <1>1, ContentInvariant, PTL DEF Spec, DeletedStaysDeleted
================================================================================
