--------------------------- MODULE MCCopierPlan ---------------------------
(* Two evals under one login, a funded account and the Apex channels under *)
(* another; a fleet of clones and two of Apex accounts, in one of which *)
(* a waiting account comes before a funded one.                            *)
EXTENDS CopierPlan
MCOwner  == [l \in Leader |-> IF l <= 2 THEN "a" ELSE "b"]
MCSignal == [l \in Leader |-> CASE l = 4 -> "apex-nuke" [] l = 5 -> "apex-flip"
                                [] l = 6 -> "apex-eval" [] OTHER -> ""]
MCPipeline == [topstep |-> 2, lucid |-> 2, tradeify |-> 1, apex |-> 2]
MCFirm   == [m \in Mirror |-> CASE m <= 12 -> "lucid" [] m = 13 -> "tradeify" [] OTHER -> "apex"]
MCFleet  == {[m \in Mirror |-> CASE m = 11 -> "eval" [] m = 12 -> "waiting"
                                 [] m = 13 -> "eval" [] OTHER -> "retired"],
             [m \in Mirror |-> CASE m = 14 -> "funded" [] m = 15 -> "eval" [] OTHER -> "retired"],
             [m \in Mirror |-> CASE m = 14 -> "waiting" [] m = 15 -> "funded" [] OTHER -> "retired"]}
=============================================================================
