----------------------------- MODULE FollowRelation -----------------------------
(***************************************************************************)
(* What the social graph promises its readers: a relation "a follows b"    *)
(* and a relation "a blocks b", without rows, slots or counters.           *)
(***************************************************************************)
CONSTANT User

VARIABLES follows, blocked

vars == <<follows, blocked>>

Between(a, b) == {<<a, b>>, <<b, a>>}

Init == follows = {} /\ blocked = {}

Follow(a, b) ==
    /\ a # b /\ Between(a, b) \cap blocked = {}
    /\ follows' = follows \cup {<<a, b>>}
    /\ UNCHANGED blocked

Unfollow(a, b) ==
    /\ follows' = follows \ {<<a, b>>}
    /\ UNCHANGED blocked

Block(a, b) ==
    /\ a # b
    /\ blocked' = blocked \cup {<<a, b>>}
    /\ follows' = follows \ Between(a, b)

Unblock(a, b) ==
    /\ blocked' = blocked \ {<<a, b>>}
    /\ UNCHANGED follows

(***************************************************************************)
(* Deleting an account drops its block list at once ...                    *)
(***************************************************************************)
ForgetBlocks(u) ==
    /\ blocked' = {b \in blocked : b[1] # u}
    /\ UNCHANGED follows

(***************************************************************************)
(* ... and its follow pairs some at a time.                                *)
(***************************************************************************)
Detach(u) ==
    /\ \E gone \in SUBSET {e \in follows : u \in {e[1], e[2]}} :
           follows' = follows \ gone
    /\ UNCHANGED blocked

Next ==
    \/ \E a, b \in User : \/ Follow(a, b) \/ Unfollow(a, b)
                          \/ Block(a, b) \/ Unblock(a, b)
    \/ \E u \in User : ForgetBlocks(u) \/ Detach(u)

Spec == Init /\ [][Next]_vars
=================================================================================
