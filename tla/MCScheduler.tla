---------------------------- MODULE MCScheduler ----------------------------
(* Two credentials, one with two accounts and one with one; two days.      *)
EXTENDS Scheduler

MCAccount == {1, 2, 3}
MCOwner   == {"keyA", "keyB"}
MCOwnerOf == [a \in MCAccount |-> IF a = 3 THEN "keyB" ELSE "keyA"]
=============================================================================
