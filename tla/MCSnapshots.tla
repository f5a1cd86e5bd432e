---------------------------- MODULE MCSnapshots ----------------------------
(* Two users whose logins bear the same name; the first one makes changes.   *)
EXTENDS Snapshots
CONSTANTS ann, bob, w1, w2

MCChanges == [t \in Tenant |-> IF t = ann THEN 1 ELSE 0]
=============================================================================
