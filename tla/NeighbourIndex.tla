---------------------------- MODULE NeighbourIndex ----------------------------
(***************************************************************************)
(* One side of a user's adjacency set as the contract stores it: the rows  *)
(* FollowingIdx(u, slot), FollowingPos(u, v) and FollowingCount(u), or the *)
(* Followers* rows of the same shape.  A family of storage rows is a       *)
(* function whose domain is the set of keys present.  The count row may be *)
(* missing (counted = FALSE), and a missing count is read as 0.            *)
(***************************************************************************)
EXTENDS Integers

CONSTANT User

(***************************************************************************)
(* Storage rows: set(key, value) and remove(key).                          *)
(***************************************************************************)
Put(rows, k, v) ==
    [j \in DOMAIN rows \cup {k} |-> IF j = k THEN v ELSE rows[j]]

Del(rows, k) == [j \in DOMAIN rows \ {k} |-> rows[j]]

IndexOK(ix) ==
    /\ DOMAIN ix.idx \subseteq Nat
    /\ \A k \in DOMAIN ix.idx : ix.idx[k] \in User
    /\ DOMAIN ix.pos \subseteq User
    /\ \A v \in DOMAIN ix.pos : ix.pos[v] \in Nat
    /\ ix.count \in Nat
    /\ ix.counted \in BOOLEAN
    /\ ~ix.counted => ix.count = 0

(***************************************************************************)
(* No row at all: an address the graph has never seen.                     *)
(***************************************************************************)
NoRows == [idx |-> [k \in {} |-> 0], pos |-> [v \in {} |-> 0],
           count |-> 0, counted |-> FALSE]

(***************************************************************************)
(* The append of follow(): slot number count, its position row, count + 1. *)
(***************************************************************************)
AppendTo(ix, v) ==
    [idx |-> Put(ix.idx, ix.count, v), pos |-> Put(ix.pos, v, ix.count),
     count |-> ix.count + 1, counted |-> TRUE]

(***************************************************************************)
(* set_profile() writes a zero count whatever rows are stored.             *)
(***************************************************************************)
ResetCount(ix) ==
    [idx |-> ix.idx, pos |-> ix.pos, count |-> 0, counted |-> TRUE]

(***************************************************************************)
(* The two expect()s of swap_remove_from_index: a call on an index for     *)
(* which this is false panics, and the transaction leaves no trace.        *)
(***************************************************************************)
SwapRemoveSucceeds(ix, v) ==
    /\ v \in DOMAIN ix.pos
    /\ ix.count > 0 /\ ix.pos[v] # ix.count - 1
          => ix.count - 1 \in DOMAIN ix.idx

(* Mutant: the moved address keeps its old position row. *)
SwapRemoveStalePosition(ix, v) ==
    IF ix.count = 0 THEN ix
    ELSE LET last == ix.count - 1
             slot == ix.pos[v]
         IN  [idx     |-> IF slot = last THEN Del(ix.idx, last)
                          ELSE Del(Put(ix.idx, slot, ix.idx[last]), last),
              pos     |-> Del(ix.pos, v),
              count   |-> last,
              counted |-> last # 0]

(***************************************************************************)
(* swap_remove_from_index.  The last slot is moved into the vacated one,   *)
(* the position row goes, and so does the count row when it reaches zero.  *)
(* With a zero count nothing is touched at all.                            *)
(***************************************************************************)
SwapRemove(ix, v) ==
    IF ix.count = 0 THEN ix
    ELSE LET last  == ix.count - 1
             slot  == ix.pos[v]
             moved == ix.idx[last]
         IN  [idx     |-> IF slot = last THEN Del(ix.idx, last)
                          ELSE Del(Put(ix.idx, slot, moved), last),
              pos     |-> IF slot = last THEN Del(ix.pos, v)
                          ELSE Del(Put(ix.pos, moved, slot), v),
              count   |-> last,
              counted |-> last # 0]

(***************************************************************************)
(* The cleanup loop of batch_cleanup_profile over the owner's own rows: it *)
(* takes the slots down from count, at most n of them, with the position   *)
(* rows of the addresses found there, and writes the new count.            *)
(***************************************************************************)
TopSlots(ix, n) ==
    {k \in DOMAIN ix.idx : k < ix.count /\ ix.count - n =< k}

TopUsers(ix, n) == {ix.idx[k] : k \in TopSlots(ix, n)}

(* Mutant: a partial batch already writes a zero count. *)
DropTopZeroCount(ix, n) ==
    [idx     |-> [k \in DOMAIN ix.idx \ TopSlots(ix, n) |-> ix.idx[k]],
     pos     |-> [v \in DOMAIN ix.pos \ TopUsers(ix, n) |-> ix.pos[v]],
     count   |-> 0,
     counted |-> TRUE]

DropTop(ix, n) ==
    [idx     |-> [k \in DOMAIN ix.idx \ TopSlots(ix, n) |-> ix.idx[k]],
     pos     |-> [v \in DOMAIN ix.pos \ TopUsers(ix, n) |-> ix.pos[v]],
     count   |-> IF n =< ix.count THEN ix.count - n ELSE 0,
     counted |-> TRUE]

(* Mutant: the page includes its end. *)
PageOfInclusive(ix, offset, limit) ==
    {ix.idx[k] : k \in {s \in DOMAIN ix.idx :
                            /\ offset =< s /\ s =< offset + limit
                            /\ s < ix.count}}

(***************************************************************************)
(* paginate_index: the entries of slots offset .. offset+limit-1 that lie  *)
(* below the count and are stored.                                         *)
(***************************************************************************)
PageOf(ix, offset, limit) ==
    {ix.idx[k] : k \in {s \in DOMAIN ix.idx :
                            /\ offset =< s /\ s < offset + limit
                            /\ s < ix.count}}

(***************************************************************************)
(* The representation invariant: the rows are a gap-free, duplicate-free   *)
(* enumeration of S, and the position rows are its inverse.                *)
(***************************************************************************)
Enumerates(ix, S) ==
    /\ DOMAIN ix.idx = 0 .. ix.count - 1
    /\ DOMAIN ix.pos = S
    /\ \A k \in DOMAIN ix.idx : ix.idx[k] \in S /\ ix.pos[ix.idx[k]] = k
    /\ \A v \in S : ix.pos[v] \in DOMAIN ix.idx /\ ix.idx[ix.pos[v]] = v
===============================================================================
