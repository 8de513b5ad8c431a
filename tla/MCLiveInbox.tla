---------------------------- MODULE MCLiveInbox ----------------------------
(* LiveInbox for TLC: a follow and a like of one account, and another account. *)
EXTENDS LiveInbox, TLC

CONSTANTS a, b, follow1, like1

MCAccount == {a, b}
MCFollow == {follow1}
MCLike == {like1}
MCTo == follow1 :> a @@ like1 :> a
=============================================================================
