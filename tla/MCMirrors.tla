----------------------------- MODULE MCMirrors -----------------------------
(* A clone at 0.8x and an Apex account, in units of a hundred dollars: one *)
(* of them is a mirror at the start, the other may be onboarded.           *)
EXTENDS Mirrors
MCClone == [trailing |-> 20, target |-> 16, evalTenths |-> 10, minDays |-> 1, scale |-> 8,
            winDayMin |-> 10, winDays |-> 1, gate |-> FALSE, cap |-> 20, payoutsTarget |-> 2,
            minBalance |-> 0, gateTenths |-> 0, request |-> 0]
MCApex  == [MCClone EXCEPT !.gate = TRUE, !.scale = 10, !.evalTenths = 100, !.minDays = 1,
            !.minBalance = 20, !.gateTenths = 10, !.request = 10]
MCFirstPhase == [m \in Mirror |-> IF m = "clone" THEN {"eval", "funded"} ELSE {"funded"}]
MCUnlisted == {{"clone"}, {"apex"}}
MCOutcome == {25, -10}
MCFirm  == [m \in Mirror |-> IF m = "clone" THEN MCClone ELSE MCApex]
=============================================================================
