------------------------------ MODULE Mirrors ------------------------------
(* Follower accounts the copier trades and TopHat only infers: what a      *)
(* leader's booked trade, the operator's edits, the copier's own report    *)
(* and the three that write from an early copy of the store - a pass, an   *)
(* applied plan, an import - make of a mirror                              *)
(* (services/mirror_sync.py, services/tc_observe.py, store/mirrors.py).    *)
(* A multiplier is in tenths, an equity in units of profit, a balance the  *)
(* profit since the account's start.                                       *)
EXTENDS Integers, Sequences, FiniteSets, Functions, SequencesExt, FiniteSetsExt

CONSTANTS
  Mirror, Leader, None,
  Firm,        \* the FirmProfile of each mirror
  FirstPhase,  \* the phases a mirror may be registered in
  Unlisted,    \* the sets of accounts that may not be mirrors at the start
  Earlier,     \* what those have made before
  Outcome,     \* balance deltas of a leader's trade
  FreshDays,   \* days an observation stays fresh
  MaxDay,      \* bound: trading days
  MaxEvents    \* bound: crashes, edits, observations

Phases   == {"eval", "funded", "waiting", "passed", "blown", "retired"}
Terminal == {"blown", "retired"}
Channels == {"", "nuke", "flip", "eval"}

FirmProfile == [trailing : Nat \ {0}, target : Nat, evalTenths : Nat, minDays : Nat,
  scale : 1..10, winDayMin : Nat, winDays : Nat, gate : BOOLEAN, cap : Nat \ {0},
  payoutsTarget : Nat \ {0}, minBalance : Nat, gateTenths : Nat, request : Nat]

MirrorRecord == [leader : Leader \cup {None}, mult : 1..10, channel : Channels, phase : Phases,
  enabled : BOOLEAN, equity : Int, peak : Nat, days : Nat, wins : Nat, window : Int,
  best : Nat, evalBest : Nat, payouts : Nat, ready : BOOLEAN, date : Nat,
  lastPnl : Int, anchor : Int \cup {None}]

Passes(names) == [copy : [names -> MirrorRecord], touched : SUBSET names,
                  booked : SUBSET Leader, edited : SUBSET Mirror, saved : BOOLEAN]
Closed == [delta : Outcome, by : [Mirror -> Int]]
Rows   == [day : Nat, balance : Int]
Imports(names) == [rows : [Mirror -> {None} \cup Rows],
                   copy : {None} \cup [names -> MirrorRecord], todo : SUBSET names]
Truths == [equity : Int, peak : Nat, wins : Nat, dead : BOOLEAN]

(* Money is as fine as its shares: a mirror's share of a trade is whole.   *)
(* No one registers an account as blown: that is for the inference to say. *)
ASSUME MirrorsAssumption ==
  /\ None \notin Mirror \cup Leader \cup Closed \cup Rows /\ None \notin Int
  /\ \A names \in SUBSET Mirror : None \notin Passes(names) \cup Imports(names)
  /\ IsFiniteSet(Leader)
  /\ Firm \in [Mirror -> FirmProfile] /\ FirstPhase \in [Mirror -> SUBSET (Phases \ {"blown"})]
  /\ Unlisted \subseteq SUBSET Mirror
  /\ Earlier \subseteq Int /\ Outcome \subseteq Int 
  /\ \A delta \in Outcome, m \in Mirror : (delta * Firm[m].scale) % 10 = 0
  /\ FreshDays \in Nat /\ MaxDay \in Nat \ {0} /\ MaxEvents \in Nat

VARIABLES
  store,    \* the mirrors file
  ledger,   \* the amounts of each mirror's payout events
  pass,     \* the pass under way, with the copy it loaded
  pend,     \* each leader's closed trade the pass has not booked
  fired,    \* the day of each leader's last trade
  truth,    \* what the firm's dashboard shows
  paid,     \* what each payout counted was worth, of those the operator stands by
  uncounted, \* mirrors that have counted a payout without a positive event
  seen,     \* the copier's last row of each account
  report,   \* the rows of the box's last report, None for one that is offline
  plan,     \* the planned records an application of the plan is about to save
  import,   \* the import under way: its rows, its copy of the file, who is left
  drifted,  \* mirrors whose inferred equity has been off the firm's
  day, events
vars == <<store, ledger, pass, pend, fired, truth, paid, uncounted, seen, report, plan, import,
          drifted, day, events>>

Sum(f) == SumFunction(f)
Larger(x, y)  == IF x > y THEN x ELSE y
Smaller(x, y) == IF x < y THEN x ELSE y

(***************************************************************************)
(* One mirror's accounting under its firm's rules.                         *)
(***************************************************************************)
FloorNoLock(m, peak) == peak - Firm[m].trailing

Floor(m, peak) == Smaller(0, peak - Firm[m].trailing)

Fresh(m, l, ph) == [leader |-> l, mult |-> IF ph = "eval" THEN Firm[m].scale ELSE 10,
             channel |-> "", phase |-> ph, enabled |-> TRUE,
             equity |-> 0, peak |-> 0, days |-> 0, wins |-> 0, window |-> 0,
             best |-> 0, evalBest |-> 0, payouts |-> 0, ready |-> FALSE,
             date |-> 0, lastPnl |-> 0, anchor |-> None]

Eligible(m, r) ==
  /\ r.wins >= Firm[m].winDays
  /\ IF Firm[m].gate
     THEN /\ r.equity >= Firm[m].minBalance
          /\ r.best * 10 <= Firm[m].gateTenths * Larger(r.window, 0)
     ELSE r.equity > 0

Preview(m, r) ==
  IF Firm[m].gate THEN Smaller(Firm[m].request, Smaller(Firm[m].cap, r.equity))
  ELSE Smaller(r.equity \div 2, Firm[m].cap)

(* The day's P&L enters the counters; a losing day leaves the bests. *)
Counted(m, r, pnl, date) ==
  [r EXCEPT !.equity = @ + pnl, !.days = @ + 1, !.window = @ + pnl,
            !.date = date, !.lastPnl = pnl,
            !.best     = IF pnl > 0 THEN Larger(@, pnl) ELSE @,
            !.evalBest = IF pnl > 0 /\ r.phase = "eval" THEN Larger(@, pnl) ELSE @,
            !.wins     = IF pnl > 0 /\ pnl >= Firm[m].winDayMin THEN @ + 1 ELSE @]

Consistent(m, r) == r.evalBest * 10 <= Firm[m].evalTenths * r.equity

Judged(m, r) ==
  IF r.equity <= Floor(m, r.peak) THEN [r EXCEPT !.phase = "blown", !.ready = FALSE]
  ELSE [r EXCEPT
    !.peak  = Larger(@, r.equity),
    !.phase = IF /\ r.phase = "eval" /\ r.equity >= Firm[m].target
                 /\ r.days >= Firm[m].minDays /\ Consistent(m, r)
              THEN "passed" ELSE @,
    !.ready = @ \/ (r.phase = "funded" /\ Eligible(m, r))]

Advanced(m, r, pnl, date) == Judged(m, Counted(m, r, pnl, date))

Scaled(delta, r) == (delta * r.mult) \div 10

(* The mirrors a leader's outcome reaches; a date is booked once. *)
Follows(r, l) == /\ r.leader = l /\ r.enabled /\ r.phase \notin Terminal
                 /\ r.phase \notin {"waiting", "passed"}
Takers(s, l, date) == {m \in DOMAIN s : Follows(s[m], l) /\ s[m].date # date}

Activated(m, r, l) ==
  [r EXCEPT !.equity = 0, !.peak = 0, !.days = 0, !.wins = 0, !.window = 0,
            !.best = 0, !.evalBest = 0, !.ready = FALSE, !.mult = 10, !.anchor = None,
            !.channel = IF Firm[m].gate THEN "nuke" ELSE @,
            !.leader = l, !.phase = IF l = None THEN "waiting" ELSE "funded"]

PaidOutKeepsWins(m, r) ==
  [r EXCEPT !.equity = @ - Preview(m, r), !.payouts = @ + 1]

PaidOut(m, r) ==
  [r EXCEPT !.equity = @ - Preview(m, r), !.payouts = @ + 1, !.wins = 0,
            !.window = 0, !.best = 0, !.ready = FALSE,
            !.channel = IF Firm[m].gate THEN "nuke" ELSE @,
            !.phase = IF r.payouts + 1 >= Firm[m].payoutsTarget THEN "retired" ELSE @]

Synced(r, equity) == [r EXCEPT !.equity = equity, !.peak = Larger(@, equity)]

(***************************************************************************)
(* The truth, and how far the inference is off it.  A trade not booked yet *)
(* is no error; a pass's copy speaks for the mirrors it has booked.        *)
(***************************************************************************)
Start(m) == [equity |-> 0, peak |-> 0, wins |-> 0, dead |-> FALSE]

Copied(m, t, pnl) ==
  LET e == t.equity + pnl
  IN [equity |-> e, peak |-> Larger(t.peak, e), 
      dead |-> t.dead \/ e <= Smaller(0, t.peak - Firm[m].trailing),
      wins |-> IF pnl > 0 /\ pnl >= Firm[m].winDayMin THEN t.wins + 1 ELSE t.wins]

Booked(l)  == pass # None /\ l \in pass.booked
Share(l, m) == IF pend[l] = None THEN 0 ELSE pend[l].by[m]
Unbooked(m) == Sum([l \in Leader |-> IF Booked(l) THEN 0 ELSE Share(l, m)])
Believed(m) == IF pass # None /\ m \in pass.touched THEN pass.copy[m] ELSE store[m]
Drift(m)    == IF m \in DOMAIN store
               THEN truth[m].equity - Believed(m).equity - Unbooked(m) ELSE 0

Init ==
  /\ \E lead \in [Mirror -> Leader] : \E ph \in [Mirror -> UNION {FirstPhase[m] : m \in Mirror}] :
       \E out \in Unlisted, before \in Earlier :
         /\ \A m \in Mirror : ph[m] \in FirstPhase[m]
         /\ store = [m \in Mirror \ out |-> Fresh(m, lead[m], ph[m])]
         /\ truth = [m \in Mirror |-> IF m \in out THEN Copied(m, Start(m), before) ELSE Start(m)]
  /\ ledger = [m \in Mirror |-> <<>>]
  /\ pass = None
  /\ pend = [l \in Leader |-> None]
  /\ fired = [l \in Leader |-> 0]
  /\ paid = [m \in Mirror |-> <<>>]
  /\ seen = [m \in Mirror |-> None]
  /\ report = [m \in Mirror |-> None]
  /\ uncounted = {} /\ plan = None /\ import = None
  /\ drifted = {}
  /\ day = 1 /\ events = 0

(***************************************************************************)
(* The market and the clock.                                               *)
(***************************************************************************)
(* A leader's one trade of the day closes; the copier gave every mapped    *)
(* follower its scaled share.                                              *)
Trade(l, delta) ==
  LET by == [m \in Mirror |-> IF m \in DOMAIN store /\ Follows(store[m], l)
                             THEN Scaled(delta, store[m]) ELSE 0]
  IN /\ pend[l] = None /\ fired[l] < day /\ pass = None
     /\ pend' = [pend EXCEPT ![l] = [delta |-> delta, by |-> by]]
     /\ fired' = [fired EXCEPT ![l] = day]
     /\ truth' = [m \in Mirror |-> Copied(m, truth[m], by[m])]
     /\ UNCHANGED <<store, ledger, pass, paid, uncounted, seen, report, plan, import, day, events>>

NextDay ==
  /\ day < MaxDay /\ pass = None /\ plan = None /\ import = None
  /\ day' = day + 1
  /\ UNCHANGED <<store, ledger, pass, pend, fired, truth, paid, uncounted, seen, report, plan, import, events>>

(***************************************************************************)
(* The pass: it loads the mirrors first, books the outcomes in its copy,   *)
(* saves the leaders, then the mirrors it touched.                         *)
(***************************************************************************)
PassBegins ==
  /\ pass = None /\ \E l \in Leader : pend[l] # None
  /\ pass' = [copy |-> store, touched |-> {}, booked |-> {}, edited |-> {}, saved |-> FALSE]
  /\ UNCHANGED <<store, ledger, pend, fired, truth, paid, uncounted, seen, report, plan, import, day, events>>

Books(l) ==
  /\ pass # None /\ ~pass.saved /\ pend[l] # None /\ ~Booked(l)
  /\ LET takers == Takers(pass.copy, l, day)
     IN pass' = [pass EXCEPT
          !.copy = [m \in DOMAIN @ |->
             IF m \in takers THEN Advanced(m, @[m], Scaled(pend[l].delta, @[m]), day)
             ELSE @[m]],
          !.touched = @ \cup takers, !.booked = @ \cup {l}]
  /\ UNCHANGED <<store, ledger, pend, fired, truth, paid, uncounted, seen, report, plan, import, day, events>>

SavesLeaders ==
  /\ pass # None /\ ~pass.saved
  /\ \A l \in Leader : pend[l] # None => l \in pass.booked
  /\ pass' = [pass EXCEPT !.saved = TRUE]
  /\ UNCHANGED <<store, ledger, pend, fired, truth, paid, uncounted, seen, report, plan, import, day, events>>

(* merge_save_mirrors: the touched mirrors of the copy over the file *)
MergedWhole == [m \in DOMAIN store \cup DOMAIN pass.copy |->
                  IF m \in DOMAIN pass.copy THEN pass.copy[m] ELSE store[m]]

Merged == [m \in DOMAIN store \cup pass.touched |->
             IF m \in pass.touched THEN pass.copy[m] ELSE store[m]]

SavesMirrorsTouched ==
  /\ pass # None /\ pass.saved
  /\ store' = Merged
  /\ pend' = [l \in Leader |-> IF pass.touched # {} THEN None ELSE pend[l]]
  /\ pass' = None
  /\ UNCHANGED <<ledger, fired, truth, paid, uncounted, seen, report, plan, import, day, events>>

SavesMirrors ==
  /\ pass # None /\ pass.saved
  /\ store' = Merged
  /\ pend' = [l \in Leader |-> IF l \in pass.booked THEN None ELSE pend[l]]
  /\ pass' = None
  /\ UNCHANGED <<ledger, fired, truth, paid, uncounted, seen, report, plan, import, day, events>>

(* The process dies; the leaders' file has the pass's outcomes once saved. *)
Crash ==
  /\ pass # None \/ plan # None \/ import # None
  /\ events < MaxEvents /\ events' = events + 1
  /\ pend' = [l \in Leader |-> IF pass # None /\ pass.saved /\ l \in pass.booked
                               THEN None ELSE pend[l]]
  /\ pass' = None /\ plan' = None /\ import' = None
  /\ UNCHANGED <<store, ledger, fired, truth, paid, uncounted, seen, report, day>>

(***************************************************************************)
(* The operator.  Each edit is one locked load and save of the file.       *)
(***************************************************************************)
EditedAll(ms) == pass' = IF pass = None THEN None ELSE [pass EXCEPT !.edited = @ \cup ms]
Edited(m) == EditedAll({m})

(* The sum marked is the one the code works out, ready or not; the firm    *)
(* has paid it, and then it is above zero, or the mark is a mistake.       *)
MarkPaid(m, amount, made) ==
  /\ m \in DOMAIN store /\ amount = Preview(m, store[m]) /\ (made => amount > 0)
  /\ IF made /\ store[m].ready THEN UNCHANGED events
     ELSE events < MaxEvents /\ events' = events + 1
  /\ store' = [store EXCEPT ![m] = PaidOut(m, @)]
  /\ ledger' = [ledger EXCEPT ![m] = Append(@, amount)]
  /\ paid' = [paid EXCEPT ![m] = Append(@, amount)]
  /\ uncounted' = IF amount > 0 THEN uncounted ELSE uncounted \cup {m}
  /\ truth' = IF made THEN [truth EXCEPT ![m] = [Copied(m, @, -amount) EXCEPT !.wins = 0]]
              ELSE truth
  /\ Edited(m)
  /\ UNCHANGED <<pend, fired, seen, report, plan, import, day>>

(* payouts_taken raised by an edit: history from before TopHat, no event. *)
Adopt(m) ==
  /\ m \in DOMAIN store /\ events < MaxEvents /\ events' = events + 1
  /\ store' = [store EXCEPT ![m].payouts = @ + 1]
  /\ paid' = [paid EXCEPT ![m] = Append(@, 0)]
  /\ uncounted' = uncounted \cup {m}
  /\ Edited(m)
  /\ UNCHANGED <<ledger, pend, fired, truth, seen, report, plan, import, day>>

(* Negation events for the newest payouts the code takes for un-reversed *)
ReversedOldest(s) ==
  LET pos == SelectSeq(s, LAMBDA x : x > 0)
  IN IF pos = <<>> THEN s ELSE Append(s, -Head(pos))

Reversed(s) ==
  LET payouts == {i \in DOMAIN s : s[i] > 0}
      left    == Cardinality(payouts) - Cardinality({i \in DOMAIN s : s[i] < 0})
      newest  == {i \in payouts : Cardinality({j \in payouts : j <= i}) = left}
  IN IF newest = {} THEN s ELSE Append(s, -s[CHOOSE i \in newest : TRUE])

(* payouts_taken corrected down by one; the operator may sync the balance  *)
(* with it.                                                                *)
TakeBack(m) ==
  /\ m \in DOMAIN store /\ store[m].payouts > 0
  /\ events < MaxEvents /\ events' = events + 1
  /\ ledger' = [ledger EXCEPT ![m] = Reversed(@)]
  /\ \E r \in {store[m], Synced(store[m], truth[m].equity)} :
       store' = [store EXCEPT ![m] = [r EXCEPT !.payouts = @ - 1]]
  /\ paid' = [paid EXCEPT ![m] = IF @ = <<>> THEN @ ELSE Front(@)]
  /\ Edited(m)
  /\ UNCHANGED <<pend, fired, truth, uncounted, seen, report, plan, import, day>>

Activate(m, l) ==
  /\ m \in DOMAIN store /\ store[m].phase = "passed"
  /\ store' = [store EXCEPT ![m] = Activated(m, @, l)]
  /\ truth' = [truth EXCEPT ![m] = Start(m)] /\ seen' = [seen EXCEPT ![m] = None]
  /\ report' = [report EXCEPT ![m] = None]
  /\ Edited(m)
  /\ UNCHANGED <<ledger, pend, fired, paid, uncounted, plan, import, day, events>>

Pair(m, l) ==
  /\ m \in DOMAIN store /\ store[m].phase = "waiting"
  /\ store' = [store EXCEPT ![m].leader = l, ![m].phase = "funded"]
  /\ Edited(m)
  /\ UNCHANGED <<ledger, pend, fired, truth, paid, uncounted, seen, report, plan, import, day, events>>

(* An edit of leader and multiplier. *)
Remap(m, l, mult) ==
  /\ m \in DOMAIN store /\ events < MaxEvents /\ events' = events + 1
  /\ <<l, mult>> # <<store[m].leader, store[m].mult>>
  /\ store' = [store EXCEPT ![m].leader = l, ![m].mult = mult]
  /\ Edited(m)
  /\ UNCHANGED <<ledger, pend, fired, truth, paid, uncounted, seen, report, plan, import, day>>

(* apply_plan loads the file and maps what the plan names ...             *)
PlanLoads ==
  /\ plan = None /\ events < MaxEvents /\ events' = events + 1
  /\ \E names \in (SUBSET DOMAIN store) \ {{}} : \E lead \in [names -> Leader \cup {None}] :
       \E full \in SUBSET names :
         plan' = [m \in names |-> [store[m] EXCEPT !.leader = lead[m],
                                    !.mult = IF m \in full THEN 10 ELSE Firm[m].scale]]
  /\ UNCHANGED <<store, ledger, pass, pend, fired, truth, paid, uncounted, seen, report, import, day>>

(* ... and saves these records whole, over whatever the file has by then. *)
PlanSaves ==
  /\ plan # None
  /\ store' = [m \in DOMAIN store \cup DOMAIN plan |->
                 IF m \in DOMAIN plan THEN plan[m] ELSE store[m]]
  /\ plan' = None
  /\ EditedAll(DOMAIN plan)
  /\ UNCHANGED <<ledger, pend, fired, truth, paid, uncounted, seen, report, import, day, events>>

Delete(m) ==
  /\ m \in DOMAIN store /\ events < MaxEvents /\ events' = events + 1
  /\ store' = Restrict(store, DOMAIN store \ {m})
  /\ pend' = [l \in Leader |-> IF pend[l] = None THEN None ELSE [pend[l] EXCEPT !.by[m] = 0]]
  /\ Edited(m)
  /\ UNCHANGED <<ledger, fired, truth, paid, uncounted, seen, report, plan, import, day>>

(***************************************************************************)
(* The box's report: the copier refreshes its row when it can, the report  *)
(* has the rows of the accounts that are connected.  Each fresh row of a   *)
(* mirror's account is patched in, under the lock, but as the copy loaded  *)
(* first says: a phase without an anchor takes the first balance for its   *)
(* start, when untraded, and is refused when not.  The report is on file   *)
(* after that.                                                             *)
(***************************************************************************)
Refreshes(m) ==
  /\ events < MaxEvents   \* the bound: no report will come
  /\ seen[m] # [day |-> day, balance |-> truth[m].equity]
  /\ seen' = [seen EXCEPT ![m] = [day |-> day, balance |-> truth[m].equity]]
  /\ UNCHANGED <<store, ledger, pass, pend, fired, truth, paid, uncounted, report, plan, import,
                 day, events>>

Recent(row) == row # None /\ day - row.day <= FreshDays

Untraded(r) == r.days = 0 /\ r.equity = 0

PatchedAnyway(s, r, balance) ==
  IF r.anchor # None THEN Synced(s, balance - r.anchor)
  ELSE [Synced(s, 0) EXCEPT !.anchor = balance]

(* The record s is patched as its copy r says. *)
Patched(s, r, balance) ==
  IF r.anchor # None THEN Synced(s, balance - r.anchor)
  ELSE IF Untraded(r) THEN [Synced(s, 0) EXCEPT !.anchor = balance]
  ELSE s

Observes ==
  /\ import = None /\ events < MaxEvents /\ events' = events + 1
  /\ \E on \in (SUBSET {m \in Mirror : seen[m] # None}) \ {{}} :
       import' = [rows |-> [m \in Mirror |-> IF m \in on THEN seen[m] ELSE None],
                  copy |-> None, todo |-> {}]
  /\ UNCHANGED <<store, ledger, pass, pend, fired, truth, paid, uncounted, seen, report, plan, day>>

(* The accounts the last report proposes become mirrors (the lowest free id *)
(* is a deleted one's); then the whole report is booked once more.         *)
Proposed(m) == m \notin DOMAIN store /\ Recent(report[m])
Onboarded(ph) == [m \in DOMAIN store \cup DOMAIN ph |->
                    IF m \in DOMAIN ph THEN Fresh(m, None, ph[m]) ELSE store[m]]
Import(names) ==
  /\ import = None /\ \A m \in names : Proposed(m)
  /\ \E ph \in [names -> Phases] :
       /\ \A m \in names : ph[m] \in FirstPhase[m]
       /\ store' = Onboarded(ph)
  /\ import' = [rows |-> report, copy |-> None, todo |-> {}]
  /\ EditedAll(names)
  /\ UNCHANGED <<ledger, pend, fired, truth, paid, uncounted, seen, report, plan, day, events>>

ImportLoads ==
  /\ import # None /\ import.copy = None
  /\ import' = [import EXCEPT !.copy = store, !.todo = {m \in DOMAIN store : Recent(import.rows[m])}]
  /\ UNCHANGED <<store, ledger, pass, pend, fired, truth, paid, uncounted, seen, report, plan, day, events>>

Patches(m) ==
  /\ import # None /\ m \in import.todo
  /\ import' = [import EXCEPT !.todo = @ \ {m}]
  /\ IF m \in DOMAIN store
     THEN LET s == Patched(store[m], import.copy[m], import.rows[m].balance)
          IN store' = [store EXCEPT ![m] = s] /\ EditedAll(IF s = store[m] THEN {} ELSE {m})
     ELSE UNCHANGED <<store, pass>>
  /\ UNCHANGED <<ledger, pend, fired, truth, paid, uncounted, seen, report, plan, day, events>>

ImportEnds ==
  /\ import # None /\ import.copy # None /\ import.todo = {}
  /\ report' = import.rows /\ import' = None
  /\ UNCHANGED <<store, ledger, pass, pend, fired, truth, paid, uncounted, seen, plan, day, events>>

Operator(m) == \/ \E amount \in {Preview(m, store[m]) : x \in {m} \cap DOMAIN store} :
                    \E made \in BOOLEAN : MarkPaid(m, amount, made)
               \/ Adopt(m) \/ TakeBack(m) \/ Delete(m)
               \/ Refreshes(m)
               \/ \E l \in Leader : Pair(m, l)
               \/ \E l \in Leader \cup {None} : Activate(m, l)
               \/ \E l \in Leader \cup {None}, k \in {10, Firm[m].scale} : Remap(m, l, k)

PassStep == PassBegins \/ (\E l \in Leader : Books(l)) \/ SavesLeaders \/ SavesMirrors

PatchOf(m) == /\ import # None /\ m \in import.todo
               /\ import' # None /\ m \notin import'.todo

(* The plan's records go over one that has changed but for its mapping, or *)
(* the import's patch is not the one the file asks for.                    *)
Overwritten(m) ==
  /\ plan # None /\ plan' = None /\ store' # store
  /\ m \in DOMAIN plan
  /\ m \in DOMAIN store =>
       plan[m] # [store[m] EXCEPT !.leader = plan[m].leader, !.mult = plan[m].mult]
Outdated(m) ==
  /\ PatchOf(m) /\ m \in DOMAIN store
  /\ store'[m] # Patched(store[m], store[m], import.rows[m].balance)

(* Off too, when not in equity: a withdrawal before a closed trade is      *)
(* booked puts that day into the next window; a pass saves over an edit.   *)
Watch == drifted' = drifted \cup {m \in Mirror :
  \/ Drift(m)' # 0
  \/ ledger'[m] # ledger[m] /\ Unbooked(m) # 0
  \/ pass' # None /\ m \in pass'.edited \cap pass'.touched
  \/ Overwritten(m) \/ Outdated(m)}

Next ==
  /\ \/ \E l \in Leader, d \in Outcome : Trade(l, d)
     \/ NextDay \/ PassStep \/ Crash
     \/ \E m \in Mirror : Operator(m)
     \/ PlanLoads \/ PlanSaves
     \/ Observes \/ \E names \in (SUBSET Mirror) \ {{}} : Import(names)
     \/ ImportLoads \/ (\E m \in Mirror : Patches(m)) \/ ImportEnds
  /\ Watch

Spec == Init /\ [][Next]_vars

(* The automation's loop keeps passing: nothing else is owed. *)
LiveSpec == Spec /\ WF_vars(PassStep /\ Watch)

(***************************************************************************)
(* Properties.                                                             *)
(***************************************************************************)
TypeOK ==
  /\ DOMAIN store \subseteq Mirror /\ store \in [DOMAIN store -> MirrorRecord]
  /\ ledger \in [Mirror -> Seq(Int)] /\ paid \in [Mirror -> Seq(Int)]
  /\ uncounted \subseteq Mirror
  /\ plan # None => DOMAIN plan \subseteq Mirror /\ plan \in [DOMAIN plan -> MirrorRecord]
  /\ import # None =>
       /\ \E names \in SUBSET Mirror : import \in Imports(names)
       /\ \A m \in import.todo : import.copy[m] \in MirrorRecord /\ import.rows[m] # None
  /\ pass # None => DOMAIN pass.copy \subseteq Mirror /\ pass \in Passes(DOMAIN pass.copy)
  /\ pend \in [Leader -> {None} \cup Closed]
  /\ truth \in [Mirror -> Truths]
  /\ seen \in [Mirror -> {None} \cup Rows] /\ report \in [Mirror -> {None} \cup Rows]
  /\ fired \in [Leader -> 0..MaxDay] /\ drifted \subseteq Mirror
  /\ day \in 1..MaxDay /\ events \in 0..MaxEvents

(* The windows in which the inference parts from the firm's dashboard.     *)
SecondOfDate(m) == \E l \in Leader :
  /\ ~Booked(l) /\ Booked(l)' /\ Share(l, m) # 0 /\ pass.copy[m].date = day
Remapped(m) == \E l \in Leader :
  /\ ~Booked(l) /\ Booked(l)' /\ m \in DOMAIN pass.copy
  /\ LET r == pass.copy[m]
     IN (IF Follows(r, l) THEN Scaled(pend[l].delta, r) ELSE 0) # Share(l, m)
Misread(m)  == \/ Unbooked(m) # 0 /\ store'[m] # store[m]
               \/ /\ PatchOf(m)
                  /\ \/ import.rows[m].balance # truth[m].equity
                     \/ store[m].anchor \notin {None, 0}
MarkedUnpaid(m) == ledger'[m] # ledger[m] /\ truth'[m] = truth[m]
(* Its equity is 0 from now on, whatever the account has made before. *)
Imported(m) == m \notin DOMAIN store /\ truth[m].equity # 0
(* An edit and a booking of one pass meet: the pass as it is, or as it was *)
(* when it saved.                                                          *)
Latest      == IF pass' = None THEN pass ELSE pass'
Overlap(m)  == pass # None /\ m \in Latest.edited \cap Latest.touched
LostAtCrash(m) == pass # None /\ pass' = None /\ (pass.saved => m \in pass.touched)

(* A mirror's inferred equity, with its leader's unbooked trade, is what   *)
(* the firm shows, and can leave it only where an account that has traded  *)
(* is onboarded, a second outcome meets a booked date, the mapping moved   *)
(* between a trade and its booking, a report is old or ahead of the        *)
(* booking, a payout is marked that was not made, the process dies in a    *)
(* pass, or what one of the three early copies - a pass's, a plan's, an    *)
(* import's - says meets an edit or a booking made since: not              *)
(* in any other order of trades, passes, plans, payouts, corrections,      *)
(* activations, imports and syncs (mirror_sync.py, tc_observe.py,          *)
(* copier_plan.py).                                                        *)
DriftBorn == [][\A m \in DOMAIN store' :
  Drift(m)' \notin {0, Drift(m)} =>
    \/ Imported(m) \/ SecondOfDate(m) \/ Remapped(m) \/ Misread(m) \/ MarkedUnpaid(m)
    \/ LostAtCrash(m) \/ Overlap(m) \/ Overwritten(m) \/ Outdated(m)]_vars

(* Blown is terminal and nothing revisits it: an account whose inference   *)
(* was never off is declared blown only when the firm has closed it.       *)
BlownIsReal == \A m \in DOMAIN store \ drifted : store[m].phase = "blown" => truth[m].dead

(* Payout ready asks the operator to request money of the firm: while the  *)
(* inference was never off, the firm counts the qualifying days since the  *)
(* last payout too.                                                        *)
ReadyIsEarned == \A m \in DOMAIN store \ drifted :
  store[m].ready => truth[m].wins >= Firm[m].winDays

(* Analytics' banked total is the withdrawals the operator stands by, as   *)
(* long as no payout follows a reversal and none was counted without a     *)
(* positive event, as an adoption of earlier payouts and a mark without    *)
(* profit do: _reverse_recent_payout_events pairs reversals with payouts   *)
(* by count alone.                                                         *)
PaidAfterReversal(s) == \E i, j \in 1..Len(s) : i < j /\ s[i] < 0 /\ s[j] > 0
LedgerIsBanked == \A m \in Mirror \ uncounted :
  PaidAfterReversal(ledger[m]) \/ Sum(ledger[m]) = Sum(paid[m])

(* In every state: the records are well formed, and what they say of a     *)
(* mirror - blown, payout ready, paid - is so at its firm.                 *)
Inv == TypeOK /\ BlownIsReal /\ ReadyIsEarned /\ LedgerIsBanked

(* Every closed trade is worked off, whatever crashes. *)
TradesWorkedOff == \A l \in Leader : pend[l] # None ~> pend[l] = None
=============================================================================
