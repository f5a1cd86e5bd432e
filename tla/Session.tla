------------------------------- MODULE Session -------------------------------
(***************************************************************************)
(* One trading session pass (run_session in tophat/server/service.py)      *)
(* against everything that runs beside it: the broker, the dashboard's     *)
(* snapshot builds, the operator's clicks, and crashes.                    *)
(*                                                                         *)
(* A pass is not atomic.  It loads the account states, lists the accounts  *)
(* (balances), reads the position of every account with a pending trade,   *)
(* assigns the day's slots, fires account by account, and only then saves  *)
(* the schedule, the states and the registry.  Each broker call and each   *)
(* file write is a step of its own here; passes of one tenant never        *)
(* overlap (_run_lock), so there is one pass.                              *)
(*                                                                         *)
(* Data are abstracted to what the properties tell apart.  The accounts    *)
(* are the funded accounts of one credential (evals differ only in which   *)
(* cap they use: module Scheduler).  Money is counted in units of one      *)
(* bracket: a win is +1, a loss -1, a flat close 0; the MLL floor is fixed *)
(* at -Room.  Settings keep their defaults (hedge_guard and                *)
(* auto_disable_on_payout_ready on) and automation is armed.  All accounts *)
(* were enabled at the same time, so the nuke queue is ordered by          *)
(* recovery, stamp and id (module Scheduler has enabled_at and the caps).  *)
(* Entry times are one window: before, inside, after.                      *)
(***************************************************************************)
EXTENDS Integers, Sequences, FiniteSets

CONSTANTS
  Account,      \* account ids
  MaxNukes,     \* settings.max_nukes_per_day
  WinDays,      \* winning_days_required
  PayoutsTarget,\* payouts_target: retire after so many withdrawals
  Room,         \* dollars to the MLL floor at the start, in brackets
  MaxDay,       \* bound on the calendar
  MaxAttempts,  \* bound on an account's fire attempts and on its booked trades
  Events        \* which of the things that can go wrong this instance has

AllEvents ==
  {"reject",      \* the broker refuses the bracket
   "timeout",     \* the place call raises after the broker accepted the order
   "readfail",    \* a position read fails
   "closerace",   \* a trade closes between the balance and the position read
   "liquidate",   \* canTrade flips to false after a loss
   "delist",      \* an account that may not trade any more leaves the account list
   "snapshot",    \* a dashboard snapshot is built beside the pass
   "payout",      \* the operator confirms withdrawals
   "toggle",      \* the operator switches accounts off and on
   "crash"}       \* the process dies and is restarted

ASSUME SessionAssumption ==
  /\ IsFiniteSet(Account) /\ Account \subseteq Nat /\ MaxNukes \in Nat /\ WinDays \in Nat \ {0}
  /\ PayoutsTarget \in Nat \ {0}
  /\ Room \in Nat \ {0} /\ MaxDay \in Nat \ {0} /\ MaxAttempts \in Nat \ {0}
  /\ Events \subseteq AllEvents

VARIABLES
  day, window,      \* trading day; "before" / "inside" / "after" the entry window
  balance, canTrade, listed, \* broker: the account list
  attempts,         \* broker and history: every fire attempt and what became of it
  states,           \* account_states.json
  stamps,           \* schedule_state.json: last_nuke_date
  enabled,          \* account_registry.json
  trade_log,        \* trade_log.jsonl: the outcomes booked, per account
  payouts_marked,   \* history: withdrawals the operator confirmed
  pc, now, mem, reg, seen, todo, held, tradeable, reconciled, auto_disabled, cur,  \* a pass's locals
  snap              \* the snapshot build in progress

clockVars  == <<day, window>>
brokerVars == <<balance, canTrade, listed, attempts>>
fileVars   == <<states, stamps, enabled, trade_log>>
passVars   == <<pc, now, mem, reg, seen, todo, held, tradeable, reconciled, auto_disabled, cur>>
vars == <<clockVars, brokerVars, fileVars, payouts_marked, passVars, snap>>

Sighting == [day : Nat, balance : Int]

\* The fields of AccountState the passes read or write.  pending is 0 for no
\* pending trade, else the attempt it stands for (the code keeps its label and
\* date); last_fire_date 0 is the empty string; recovery is
\* nuke_tries_this_cycle >= 1.
StateRec ==
  [phase : {"funded", "blown", "retired"}, payouts_taken : Nat, winning_days : Nat,
   recovery : BOOLEAN, nuke_hit : BOOLEAN, payout_ready : BOOLEAN, last_fire_date : Nat,
   pending : Nat, pending_entry_balance : Int,
   last_seen : Sighting]

Results    == {"skipped", "rejected", "open", "win", "loss", "flat"}
AttemptRec == [day : 1..MaxDay, nuke : BOOLEAN, result : Results]
PassStep   == {"idle", "list", "reconcile", "fire", "placed", "raised", "merge", "registry"}

TypeOK ==
  /\ day \in 1..MaxDay /\ window \in {"before", "inside", "after"}
  /\ balance \in [Account -> Int] /\ canTrade \in [Account -> BOOLEAN]
  /\ listed \subseteq Account
  /\ attempts \in [Account -> Seq(AttemptRec)]
  /\ states \in [Account -> StateRec] /\ mem \in [Account -> StateRec]
  /\ stamps \in [Account -> Nat] /\ held \in [Account -> Nat]
  /\ enabled \in [Account -> BOOLEAN] /\ reg \in [Account -> BOOLEAN]
  /\ trade_log \in [Account -> Seq([attempt : Nat, outcome : Results])]
  /\ payouts_marked \in [Account -> Nat]
  /\ pc \in PassStep /\ now \in [day : 0..MaxDay, due : BOOLEAN]
  /\ seen \in [Account -> Int]
  /\ todo \subseteq Account /\ tradeable \subseteq Account /\ reconciled \subseteq Account
  /\ auto_disabled \subseteq Account /\ cur \subseteq Account
  /\ snap \in [busy : BOOLEAN, mem : [Account -> StateRec]]

-----------------------------------------------------------------------------
(* The broker.                                                             *)

Delta(result) == CASE result = "win" -> 1 [] result = "loss" -> -1 [] OTHER -> 0
IsOpen(a, n)  == attempts[a][n].result = "open"
OpenOrders(a) == {n \in DOMAIN attempts[a] : IsOpen(a, n)}
Position(a)   == OpenOrders(a) # {}

\* The bracket's target or stop is hit, or the end-of-day flatten closes it.
CloseTrade(a, result) ==
  /\ result \in {"win", "loss", "flat"}
  /\ (pc \in {"list", "reconcile"}) => "closerace" \in Events
  /\ \E n \in OpenOrders(a) :
       attempts' = [attempts EXCEPT ![a][n].result = result]
  /\ balance' = [balance EXCEPT ![a] = @ + Delta(result)]
  /\ IF result = "loss" /\ "liquidate" \in Events
     THEN \E c \in BOOLEAN : canTrade' = [canTrade EXCEPT ![a] = c]
     ELSE UNCHANGED canTrade
  /\ UNCHANGED <<clockVars, listed, fileVars, payouts_marked, passVars, snap>>

\* A liquidated account disappears from list_accounts, minutes or days later, and
\* does not come back; it is flat by then.
Delist(a) ==
  /\ "delist" \in Events
  /\ a \in listed /\ ~canTrade[a] /\ ~Position(a)
  /\ listed' = listed \ {a}
  /\ UNCHANGED <<clockVars, balance, canTrade, attempts, fileVars, payouts_marked, passVars, snap>>

\* The day goes on; nothing is held overnight, and the next session lets
\* every account trade again whose balance is above the floor.
ClockMoves ==
  \/ /\ window = "before" /\ window' = "inside" /\ UNCHANGED <<day, canTrade>>
  \/ /\ window = "inside" /\ window' = "after" /\ UNCHANGED <<day, canTrade>>
  \/ /\ window = "after" /\ day < MaxDay
     /\ pc = "idle" /\ ~snap.busy /\ \A a \in Account : ~Position(a)
     /\ window' = "before" /\ day' = day + 1
     /\ canTrade' = [a \in Account |-> balance[a] > -Room]
Clock ==
  /\ ClockMoves
  /\ UNCHANGED <<balance, listed, attempts, fileVars, payouts_marked, passVars, snap>>

-----------------------------------------------------------------------------
(* tophat/engine.py and tophat/services/lifecycle.py, as far as a pass     *)
(* depends on them.                                                        *)

BelowMLL(st, bal) == st.phase = "funded" /\ bal <= -Room
NeedsNuke(st)     == st.phase = "funded" /\ st.payouts_taken % 2 = 0 /\ ~st.nuke_hit

Classify(delta) == CASE delta > 0 -> "win" [] delta < 0 -> "loss" [] OTHER -> "flat"

\* Mutant: pending is not cleared.
BookedKeepsPending(st, bal, nuke) ==
  [st EXCEPT !.winning_days = @ + (IF bal > st.pending_entry_balance THEN 1 ELSE 0)]

\* _advance_funded: the counters of the payout cycle.
Advanced(st, won, nuke) ==
  LET wins == st.winning_days + (IF won THEN 1 ELSE 0)
  IN  [st EXCEPT !.winning_days = wins,
                 !.recovery = @ \/ nuke,
                 !.nuke_hit = @ \/ (won /\ nuke),
                 !.payout_ready = @ \/ wins >= WinDays]

\* reconcile() of a closed trade: counters, phase, pending cleared.
Booked(st, bal, nuke) ==
  [Advanced(st, Classify(bal - st.pending_entry_balance) = "win", nuke)
     EXCEPT !.phase = IF BelowMLL(st, bal) THEN "blown" ELSE @,
            !.pending = 0,
            !.pending_entry_balance = 0]

\* Mutants: the fire date, the entry balance is not recorded.
PendingUndated(st, n, bal, today) ==
  [st EXCEPT !.pending = n, !.pending_entry_balance = bal]
PendingNoEntry(st, n, bal, today) ==
  [st EXCEPT !.pending = n, !.last_fire_date = today]

\* record_pending() of attempt n.
Pending(st, n, bal, today) ==
  [st EXCEPT !.pending = n, !.pending_entry_balance = bal, !.last_fire_date = today]

Ratcheted(st, bal, today) == [st EXCEPT !.last_seen = [day |-> today, balance |-> bal]]

\* merge_save(): only ids, over what is on disk now.
MergeSave(source, ids) ==
  states' = [a \in Account |-> IF a \in ids THEN source[a] ELSE states[a]]

-----------------------------------------------------------------------------
(* The pass.                                                               *)

NoStates == [a \in Account |->
  [phase |-> "funded", payouts_taken |-> 0, winning_days |-> 0,
   recovery |-> FALSE, nuke_hit |-> FALSE, payout_ready |-> FALSE, last_fire_date |-> 0, pending |-> 0,
   pending_entry_balance |-> 0, last_seen |-> [day |-> 0, balance |-> 0]]]

\* A pass's locals outside a pass.
PassIdle ==
  /\ pc' = "idle" /\ now' = [day |-> 0, due |-> FALSE]
  /\ mem' = NoStates /\ reg' = [a \in Account |-> FALSE]
  /\ seen' = [a \in Account |-> 0] /\ held' = [a \in Account |-> 0]
  /\ todo' = {} /\ tradeable' = {} /\ reconciled' = {} /\ auto_disabled' = {} /\ cur' = {}

\* An automation tick (respect_times) or a manual Execute (any time of day)
\* takes the run lock, loads registry and states and fixes `now`.
StartPass(manual) ==
  /\ pc = "idle"
  /\ \A a \in Account : Len(trade_log[a]) <= MaxAttempts   \* the bound
  /\ now' = [day |-> day, due |-> manual \/ window = "inside"]
  /\ reg' = enabled /\ mem' = states
  /\ pc' = "list"
  /\ UNCHANGED <<clockVars, brokerVars, fileVars, payouts_marked,
                 seen, todo, held, tradeable, reconciled, auto_disabled, cur, snap>>

\* Mutant: only the tradeable accounts are reconciled (the 2026-07-09 defect).
ToReconcileTradeable(m, able) == {a \in able : m[a].pending # 0}

\* broker.list_accounts(): balances and canTrade; the tradeable accounts'
\* floors are ratcheted in memory.  Every listed account with a pending trade is
\* to be reconciled, tradeable or not.
ToReconcile(m, able) == {a \in listed : m[a].pending # 0}

ListAccounts ==
  /\ pc = "list"
  /\ seen' = balance
  /\ tradeable' = {a \in listed : canTrade[a] /\ reg[a]}
  /\ mem' = [a \in Account |-> IF a \in tradeable' THEN Ratcheted(mem[a], balance[a], now.day)
                                                   ELSE mem[a]]
  /\ todo' = ToReconcile(mem, tradeable')
  /\ pc' = "reconcile"
  /\ UNCHANGED <<clockVars, brokerVars, fileVars, payouts_marked,
                 now, reg, held, reconciled, auto_disabled, cur, snap>>

\* The reconcile loop for account a: the position read fails, the trade still
\* works, or it has closed and is booked from the balance of the account list.
\* But for a failed read, an account that awaits its withdrawal is switched off.
Disables(a, st) == auto_disabled' = auto_disabled \cup {b \in {a} : st.payout_ready /\ reg[a]}

ReconcileReadFails(a) ==
  /\ "readfail" \in Events
  /\ UNCHANGED <<mem, trade_log, reconciled, auto_disabled>>

ReconcileStillOpen(a) ==
  /\ Position(a)
  /\ Disables(a, mem[a])
  /\ UNCHANGED <<mem, trade_log, reconciled>>

ReconcileClosed(a) ==
  LET n  == mem[a].pending
      st == Booked(mem[a], seen[a], attempts[a][n].nuke)
  IN  /\ ~Position(a)
      /\ mem' = [mem EXCEPT ![a] = st]
      /\ reconciled' = reconciled \cup {a}
      /\ trade_log' = [trade_log EXCEPT ![a] = Append(@,
           [attempt |-> n, outcome |-> Classify(seen[a] - mem[a].pending_entry_balance)])]
      /\ Disables(a, st)

Reconcile(a) ==
  /\ pc = "reconcile" /\ a \in todo
  /\ ReconcileReadFails(a) \/ ReconcileStillOpen(a) \/ ReconcileClosed(a)
  /\ todo' = todo \ {a}
  /\ UNCHANGED <<clockVars, brokerVars, states, stamps, enabled, payouts_marked,
                 pc, now, reg, seen, held, tradeable, cur, snap>>

\* Mutants: a stamp sends its holder to the back; a freed slot is awarded again.
QueueKeyNoHolders(a) == <<0, IF mem[a].recovery THEN 0 ELSE 1, stamps[a], a>>
NoGhosts == {}

\* assign_day over the tradeable accounts above the floor: the holders of
\* today's stamps, then recoveries, then the longest unstamped.
QueueKey(a) == <<IF stamps[a] = now.day THEN 0 ELSE 1, IF mem[a].recovery THEN 0 ELSE 1,
                 stamps[a], a>>
Before(a, b) ==
  \E i \in 1..4 : /\ QueueKey(a)[i] < QueueKey(b)[i]
                 /\ \A j \in 1..(i - 1) : QueueKey(a)[j] = QueueKey(b)[j]

Strategy   == {a \in tradeable : ~BelowMLL(mem[a], seen[a])}
Candidates == {a \in Strategy : NeedsNuke(mem[a])}
Ghosts     == {a \in Account : stamps[a] = now.day} \ Candidates
NukeWinners ==
  {a \in Candidates :
     Cardinality({b \in Candidates : Before(b, a)}) + Cardinality(Ghosts) < MaxNukes}

\* Mutant: accounts awaiting a withdrawal are not held back.
DueUnpaid(a) ==
  /\ mem[a].phase = "funded" /\ (NeedsNuke(mem[a]) => a \in NukeWinners)
  /\ mem[a].last_fire_date # now.day /\ now.due /\ Len(attempts[a]) < MaxAttempts

\* The fire loop's early returns: no slot, awaiting a withdrawal, already
\* attempted today, outside the entry window, harvested.
Attempted(a) == mem[a].last_fire_date = now.day

Due(a) ==
  /\ mem[a].phase = "funded"
  /\ NeedsNuke(mem[a]) => a \in NukeWinners
  /\ ~mem[a].payout_ready
  /\ ~Attempted(a)
  /\ now.due
  /\ Len(attempts[a]) < MaxAttempts   \* the bound

Assign ==
  /\ pc = "reconcile" /\ todo = {}
  /\ held' = [a \in Account |-> IF a \in NukeWinners THEN now.day ELSE stamps[a]]
  /\ todo' = (tradeable \ Strategy) \cup {a \in Strategy : Due(a)}
  /\ pc' = "fire"
  /\ UNCHANGED <<clockVars, brokerVars, fileVars, payouts_marked,
                 now, mem, reg, seen, tradeable, reconciled, auto_disabled, cur, snap>>

\* Mutant: the fire is left to the end-of-pass save.
PersistAtEnd(a, st) == mem' = [mem EXCEPT ![a] = st] /\ UNCHANGED states

\* One account of the fire loop is done with: its record in memory is st, and
\* merge_save(states, [a]) writes it.
Persist(a, st) ==
  /\ mem' = [mem EXCEPT ![a] = st]
  /\ states' = [states EXCEPT ![a] = st]

fireRest == <<clockVars, balance, canTrade, listed, stamps, enabled, trade_log, payouts_marked,
              now, reg, seen, held, tradeable, reconciled, auto_disabled, snap>>

\* A balance at or below the floor is dead; a pending trade defers to reconcile().
MarkBlown(a) ==
  /\ pc = "fire" /\ a \in todo /\ BelowMLL(mem[a], seen[a])
  /\ IF mem[a].pending = 0 THEN Persist(a, [mem[a] EXCEPT !.phase = "blown"])
                           ELSE UNCHANGED <<mem, states>>
  /\ todo' = todo \ {a}
  /\ UNCHANGED <<fireRest, attempts, pc, cur>>

Attempt(a, result) ==
  attempts' = [attempts EXCEPT ![a] =
    Append(@, [day |-> day, nuke |-> NeedsNuke(mem[a]), result |-> result])]

\* Mutant: the hedge guard lets everything through.
ClearUnchecked(a) == TRUE

\* position_guard: a position is open, or the read fails.
Blocked(a) == Position(a) \/ "readfail" \in Events
Clear(a)   == ~Position(a)

Skip(a) ==
  /\ pc = "fire" /\ a \in todo /\ ~BelowMLL(mem[a], seen[a])
  /\ Blocked(a)
  /\ Attempt(a, "skipped")
  /\ Persist(a, [mem[a] EXCEPT !.last_fire_date = now.day])
  /\ todo' = todo \ {a}
  /\ UNCHANGED <<fireRest, pc, cur>>

\* place_bracket: accepted; refused; or the call raises after the broker took
\* the order.  Nothing else opens positions, so the guard's read and the call
\* are one step.
Place(a) ==
  /\ pc = "fire" /\ a \in todo /\ ~BelowMLL(mem[a], seen[a])
  /\ Clear(a)
  /\ \/ Attempt(a, "open") /\ pc' = "placed"
     \/ "reject" \in Events /\ Attempt(a, "rejected") /\ pc' = "raised"
     \/ "timeout" \in Events /\ Attempt(a, "open") /\ pc' = "raised"
  /\ cur' = {a} /\ todo' = todo \ {a}
  /\ UNCHANGED <<fireRest, mem, states>>

\* record_pending and merge_save after an accepted order.
RecordPlaced(a) ==
  /\ pc = "placed" /\ a \in cur
  /\ Persist(a, Pending(mem[a], Len(attempts[a]), seen[a], now.day))
  /\ pc' = "fire" /\ cur' = {}
  /\ UNCHANGED <<fireRest, attempts, todo>>

\* The except branch: a position means the order was filled after all; no
\* position, or a failed read (_open_size swallows it), consumes the day.
RecordRaised(a) ==
  /\ pc = "raised" /\ a \in cur
  /\ \/ /\ Position(a)
        /\ Persist(a, Pending(mem[a], Len(attempts[a]), seen[a], now.day))
     \/ /\ ~Position(a) \/ "readfail" \in Events
        /\ Persist(a, [mem[a] EXCEPT !.last_fire_date = now.day])
  /\ pc' = "fire" /\ cur' = {}
  /\ UNCHANGED <<fireRest, attempts, todo>>

\* End of pass: schedule, states, registry.
SaveSchedule ==
  /\ pc = "fire" /\ todo = {}
  /\ stamps' = held
  /\ pc' = "merge"
  /\ UNCHANGED <<clockVars, brokerVars, states, enabled, trade_log, payouts_marked,
                 now, mem, reg, seen, todo, held, tradeable, reconciled, auto_disabled, cur, snap>>

\* Mutant: the accounts reconciled are not saved.
TouchedTradeable == tradeable

\* What the pass has touched: a liquidated account is booked though not tradeable.
Touched == tradeable \cup reconciled

MergeStates ==
  /\ pc = "merge"
  /\ MergeSave(mem, Touched)
  /\ pc' = "registry"
  /\ UNCHANGED <<clockVars, brokerVars, stamps, enabled, trade_log, payouts_marked,
                 now, mem, reg, seen, todo, held, tradeable, reconciled, auto_disabled, cur, snap>>

SaveRegistry ==
  /\ pc = "registry"
  /\ enabled' = [a \in Account |-> enabled[a] /\ a \notin auto_disabled]
  /\ PassIdle
  /\ UNCHANGED <<clockVars, brokerVars, states, stamps, trade_log, payouts_marked, snap>>

-----------------------------------------------------------------------------
(* Beside the pass.                                                        *)

\* _build_snapshot: load_all; then, with the balances read later, merge_save
\* of the records of listed accounts it changed, as they were loaded.
SnapLoad ==
  /\ "snapshot" \in Events /\ ~snap.busy
  /\ snap' = [busy |-> TRUE, mem |-> states]
  /\ UNCHANGED <<clockVars, brokerVars, fileVars, payouts_marked, passVars>>

SnapRecord(a) ==
  LET st == Ratcheted(snap.mem[a], balance[a], day)
  IN  IF st.pending = 0 /\ BelowMLL(st, balance[a]) THEN [st EXCEPT !.phase = "blown"] ELSE st

SnapSave ==
  /\ snap.busy
  /\ states' = [a \in Account |-> IF a \in listed /\ SnapRecord(a) # snap.mem[a]
                                  THEN SnapRecord(a) ELSE states[a]]
  /\ snap' = [busy |-> FALSE, mem |-> NoStates]
  /\ UNCHANGED <<clockVars, brokerVars, stamps, enabled, trade_log, payouts_marked, passVars>>

\* mark_payout: the operator confirms a withdrawal the account is ready for.
NextCycle(st) ==
  [st EXCEPT !.payouts_taken = @ + 1, !.winning_days = 0,
             !.recovery = FALSE, !.nuke_hit = FALSE]
PaidOut(st) ==
  [NextCycle(st) EXCEPT !.payout_ready = FALSE, !.pending = 0,
     !.phase = IF st.payouts_taken + 1 >= PayoutsTarget THEN "retired" ELSE @]

MarkPayout(a) ==
  /\ "payout" \in Events /\ states[a].payout_ready
  /\ payouts_marked[a] < PayoutsTarget
  /\ states' = [states EXCEPT ![a] = PaidOut(@)]
  /\ enabled' = [enabled EXCEPT ![a] = @ \/ states'[a].phase # "retired"]
  /\ payouts_marked' = [payouts_marked EXCEPT ![a] = @ + 1]
  /\ UNCHANGED <<clockVars, brokerVars, stamps, trade_log, passVars, snap>>

\* toggle_account / set_account_enabled.
Toggle(a) ==
  /\ "toggle" \in Events
  /\ enabled' = [enabled EXCEPT ![a] = ~@]
  /\ UNCHANGED <<clockVars, brokerVars, states, stamps, trade_log, payouts_marked, passVars, snap>>

\* The process dies; memory is lost, files and broker stay.
Crash ==
  /\ "crash" \in Events /\ pc # "idle"
  /\ PassIdle
  /\ snap' = [busy |-> FALSE, mem |-> NoStates]
  /\ UNCHANGED <<clockVars, brokerVars, fileVars, payouts_marked>>

-----------------------------------------------------------------------------
Init ==
  /\ day = 1 /\ window = "before"
  /\ balance = [a \in Account |-> 0] /\ canTrade = [a \in Account |-> TRUE]
  /\ listed = Account
  /\ attempts = [a \in Account |-> <<>>]
  /\ states = NoStates
  /\ stamps = [a \in Account |-> 0]
  /\ enabled = [a \in Account |-> TRUE]
  /\ trade_log = [a \in Account |-> <<>>]
  /\ payouts_marked = [a \in Account |-> 0]
  /\ pc = "idle" /\ now = [day |-> 0, due |-> FALSE]
  /\ mem = NoStates /\ reg = [a \in Account |-> FALSE]
  /\ seen = [a \in Account |-> 0] /\ held = [a \in Account |-> 0]
  /\ todo = {} /\ tradeable = {} /\ reconciled = {} /\ auto_disabled = {} /\ cur = {}
  /\ snap = [busy |-> FALSE, mem |-> NoStates]

PassNext ==
  \/ ListAccounts
  \/ \E a \in Account : Reconcile(a)
  \/ Assign
  \/ \E a \in Account : MarkBlown(a) \/ Skip(a) \/ Place(a) \/ RecordPlaced(a) \/ RecordRaised(a)
  \/ SaveSchedule \/ MergeStates \/ SaveRegistry

Next ==
  \/ \E a \in Account, r \in Results : CloseTrade(a, r)
  \/ \E a \in Account : Delist(a)
  \/ Clock
  \/ \E manual \in BOOLEAN : StartPass(manual)
  \/ PassNext
  \/ SnapLoad \/ SnapSave
  \/ \E a \in Account : MarkPayout(a) \/ Toggle(a)
  \/ Crash

Spec == Init /\ [][Next]_vars

\* The automation loop keeps ticking and a pass, once started, runs to its end.
Fairness == WF_vars(\E manual \in BOOLEAN : StartPass(manual)) /\ WF_vars(PassNext)

LiveSpec == Spec /\ Fairness

-----------------------------------------------------------------------------
(* Properties.                                                             *)

Ordered(a, n) == attempts[a][n].result \notin {"skipped", "rejected"}
Closed(a, n)  == attempts[a][n].result \in {"win", "loss", "flat"}
Logged(a, n)  == \E i \in DOMAIN trade_log[a] : trade_log[a][i].attempt = n
Wins(a) == Cardinality({i \in DOMAIN trade_log[a] : trade_log[a][i].outcome = "win"})

\* One attempt per account per day, no retries, whatever became of the attempt
\* and however many passes the day has (last_fire_date, persisted at the fire).
OneAttemptPerDay ==
  \A a \in Account : \A n \in 1..(Len(attempts[a]) - 1) :
    attempts[a][n].day < attempts[a][n + 1].day

\* The broker never holds two brackets of one account: the hedge guard looks at
\* the broker's positions, so this survives states that were lost or reverted.
NoStacking == \A a \in Account : Cardinality(OpenOrders(a)) <= 1

\* At most max_nukes_per_day accounts have a nuke order on a day, across all of
\* the day's passes and whatever became of the accounts in between.
NukeOrderCap ==
  \A d \in 1..day :
    Cardinality({a \in Account : \E n \in DOMAIN attempts[a] :
                   attempts[a][n].day = d /\ attempts[a][n].nuke /\ Ordered(a, n)}) <= MaxNukes

\* The trade log has one record per resolved trade.
BookedOnce ==
  \A a \in Account : \A i, j \in DOMAIN trade_log[a] :
    i # j => trade_log[a][i].attempt # trade_log[a][j].attempt

\* What is booked for a trade is what the broker made of that trade.
BookedTruth ==
  \A a \in Account : \A i \in DOMAIN trade_log[a] :
    trade_log[a][i].outcome = attempts[a][trade_log[a][i].attempt].result

\* No order is lost sight of: each one the broker took is booked, or pending on
\* disk, or in the hands of the pass between the place call and merge_save.
OrderTracked ==
  \A a \in Account : \A n \in DOMAIN attempts[a] :
    Ordered(a, n) => \/ Logged(a, n)
                     \/ states[a].pending = n
                     \/ a \in cur /\ n = Len(attempts[a])

\* Every order the broker took is accounted for: in somebody's hands until it is
\* booked, and booked as what it was.
Accounted == OrderTracked /\ BookedTruth

\* A confirmed withdrawal stays confirmed: once nobody is at work on the states
\* their count of withdrawals is the operator's.
PayoutKept ==
  pc = "idle" /\ ~snap.busy =>
    \A a \in Account : states[a].payouts_taken = payouts_marked[a]

\* No account sends an order while the wins of a finished cycle wait for their
\* withdrawal, even when the last of them is booked in the very same pass.
PayoutHolds ==
  [][\A a \in Account :
       Len(attempts'[a]) > Len(attempts[a]) => Wins(a) < WinDays * (payouts_marked[a] + 1)]_vars

\* Every order that closes gets booked, also when its account was liquidated,
\* switched off or paid out meanwhile, unless the broker delists the account before
\* a pass has seen the close: such a trade is in no list any pass works from.
ClosedGetsBooked ==
  \A a \in Account : \A n \in 1..MaxAttempts :
    (n \in DOMAIN attempts[a] /\ Closed(a, n)) ~> (Logged(a, n) \/ a \notin listed)
=============================================================================
