---------------------------- MODULE MCAutomation ----------------------------
(* A Thursday, whose night trades, and a Friday, whose night does not.        *)
EXTENDS Automation
CONSTANTS a, b

MCKeys == [u \in User |-> IF u = a THEN 2 ELSE 1]
MCWeek == <<[trades |-> TRUE, nights |-> TRUE],
            [trades |-> TRUE, nights |-> FALSE]>>
=============================================================================
