# TopHat in TLA+

TopHat trades a fleet of prop-firm accounts: every trading day it decides which
accounts trade which bracket, fires the orders, books their outcomes into a small
per-account state machine, and keeps a copier program on another machine mapped to
the accounts worth copying. This directory holds the TLA+ modules written from
that code, the TLC runs that check them and the TLAPS proofs about them.
Paths below are relative to `src/tophat/`, or to `src/` where they begin with `rabbit/`.

## 1. Inventory

| Component | Source | State it keeps | Operations |
|---|---|---|---|
| Daily scheduler | `services/scheduler.py` | `schedule_state.json`: last nuke/eval date per account, owner of each stamp | `assign_day`, `load_schedule`, `save_schedule` |
| Session pass | `server/service.py` `run_session`, `run_all_sessions`, `_run_lock`; `services/guards.py` | locals of a pass only; everything durable is in the files | reconcile, assign, fire, save |
| Account lifecycle | `engine.py`, `services/lifecycle.py`, `service.py` `_ratchet_peak_eod`, `_auto_mark_blown` | `AccountState`: phase, trailing floor, cycle counters, pending trade | `decide`, `record_pending`, `reconcile`, `mark_payout_taken` |
| State store | `store/states.py`, `registry.py`, `atomic.py` | `account_states.json`, `account_registry.json` | `load_all`, `merge_save`, `save_registry` |
| Dashboard snapshot | `service.py` `build_snapshot`, `_build_snapshot`, `_read_broker` | two caches with generation numbers, one lock per key | build, invalidate |
| Automation loop | `services/automation.py`, `oco_probe.py`, `daily_notify.py` | probe stamp, notice stamps, armed flag | tick for all users, probe, notify; lock on the data directory |
| Mirrors | `services/mirror_sync.py`, `store/mirrors.py`, `store/firms.py` | `mirrors.json`: inferred equity, peak, payout window of follower accounts | `apply_leader_outcome`, `activate_funded`, `mark_mirror_payout`, reverse sync |
| Copier plan | `services/copier_plan.py`, `tc_export.py`, `tc_observe.py` | the day's plan | solve, apply, export |
| Rabbit sync | `rabbit/rabbit.py`, `rabbit/tc_apply.py`, `store/boxes.py`, `server/app.py` `tc_*` | sync flag per box, retry state on the box, the copier's database and its backups | poll, pull, apply, verify, roll back, report |
| Drive streaming | `streaming/` | last ticks of the opening range | connect, classify |
| Broker clients | `broker/` | an HTTP session | list, read positions, place, cancel |
| Tenancy, credentials, auth | `store/tenant.py`, `credentials.py`, `crypto.py`, `server/auth.py`, `single_instance.py` | files per user | sequential I/O |
| Web API, UI, CLI | `server/app.py`, `server/static`, `ui`, `cli` | none of their own | thin handlers |
| Analytics, simulator | `server/analytics.py`, `services/simulator.py` | `trade_log.jsonl` | reports, Monte Carlo |

How they interact. The automation thread ticks every 30 seconds; a tick inside the
window takes the tenant's run lock and runs one session pass per broker key. A pass
reads the registry, the states, the broker's accounts and positions, asks the
scheduler for the day's assignment, calls the broker for each due account and
writes the states account by account, then the schedule, the states again and the
registry. Nothing but the run lock orders a pass: dashboard snapshots (websocket
pushes every few seconds) load and merge-save the same states, operator requests
edit states and registry from a thread pool, and the broker moves on its own. The
file lock in `states.py` covers one `merge_save`, not a caller's load-change-save.

Followers have no broker API: a pass scales the leader's outcome into every mirror
that followed it, and the box that runs the copier (Tradecopia) reports its account
rows, from which balances are imported. The copier plan decides at night who follows
whom; applied by the operator, it is exported to the box, which polls a flag, pulls the
desired state and rewrites the copier's database (`rabbit/tc_apply.py`).

What is hard here:

* *Interleaving*: a pass spans many broker calls; snapshots and operator edits
  read and write whole records around it. The box, its user, the copier and a second
  terminal share one database file.
* *Repetition*: the same pass runs every 30 seconds, so every decision must be
  stable against its own effects (stamps change sort keys, fires free slots; a solved
  plan is solved again every night).
* *Failure*: reads fail, a place call can raise after the broker accepted it, messages
  between box and server get lost, a process can die between any two file writes.
* *Late truth*: outcomes are inferred from balances read before or after the
  position was seen flat; a liquidated account leaves the tradeable set before its
  trade is booked; a report can be older than a booking.

What makes each part correct is stated with its module below; the hazards, each
at its line of code with the properties that would notice it going wrong, are in
`PROJECT.json`.

## 2. Modules

### Scheduler (`Scheduler.tla`, `MCScheduler.tla`, `SchedulerProofs.tla`)

State: the schedule file (`last_nuke_date`, `last_eval_date`, `slot_owner`), what
`assign_day` reads of each account (`class`, `recovery`, `days_traded`,
`enabled_at`, `tradeable`), the caps, the day, and two history variables (`fired`:
today's attempt was made; `cap_high`: the highest value each cap had today).
`AssignDay(o)` is one pass for key `o`: queue order (`NukeKey`, `EvalKey`, then
`Ahead` for `_holders_first`), ghost slots (`GhostSlots`), the cut at the cap
(`Winners`), the stamps. Between passes accounts produce results, leave (blown,
delisted, disabled), return (listed again, or re-enabled with a new `enabled_at`),
are paid out, and the operator edits the caps. A pass is atomic here, because
`_run_lock` serialises passes and nothing else writes the schedule; what happens
when one dies half way is in `Session`. `Init` includes schedule files written before
`slot_owner` existed, whose stamps belong to nobody, and accounts in mid-sequence.

Properties: `NukeCap`, `EvalCap` (the per-key caps, over all passes of a day),
`SlotStaysConsumed` (the 2026-07-09 incident: a consumed slot is not re-awarded),
`HoldersKeepTheirSlot` (no churn between ticks), `RecoveryFirst`,
`WaitOnlyForTakenSlots` (ghost slots of other keys or days waste no slot).

### Session (`Session.tla`, `SessionProofs.tla`)

One pass against everything beside it, for the funded accounts of one key. Each
broker call and each file write is a step:

| Action | Code (`run_session`) |
|---|---|
| `StartPass` | run lock, `load_registry`, `load_all`, `now` |
| `ListAccounts` | `list_accounts` (only what the broker still lists), tradeable set, floor ratchet in memory |
| `Reconcile(a)` | position read of an account with a pending trade: read failed, still open, or booked from the listed balance; trade-log line; auto-disable on payout-ready (also when still open) |
| `Assign` | `assign_day` (stamps in memory) and the loop's early returns |
| `MarkBlown`, `Skip`, `Place` | floor check; hedge guard blocks or a read fails; `place_bracket` accepted, refused, or raised after acceptance |
| `RecordPlaced`, `RecordRaised` | `record_pending` + `merge_save`; the except branch |
| `SaveSchedule`, `MergeStates`, `SaveRegistry` | end of the pass |
| `SnapLoad`, `SnapSave` | `_build_snapshot`: load, later merge-save of changed records |
| `MarkPayout`, `Toggle` | operator |
| `CloseTrade`, `Delist`, `Clock`, `Crash` | the world |

`mem` is the pass's copy of the states, `states` the file, `held` the stamps in
memory, `stamps` the file, `attempts` what the broker saw, `listed` the accounts it
still returns (a liquidated one is delisted minutes later, `scheduler.py:86-87`), and
`trade_log` what was booked. `Events` selects which faults an instance has, so that each run says
exactly under which faults its properties hold.

Abstractions: money is counted in brackets (win +1, loss -1, flat 0) with a fixed
floor; an entry time is a window with a before, an inside and an after; the
settings keep their defaults (`hedge_guard`, `auto_disable_on_payout_ready`) except
that automation is armed; the drive is never flat; all accounts were enabled at the
same time. A pass and a snapshot finish on the day they start, and brackets are
closed by the end of the day (the strategy flattens). Evals (which differ only in
their slot kind), signal and practice accounts, and the booking of mirrors are not
part of it. The hedge guard's read and the place call are one step, because only
the pass opens positions. `mark_payout` is confirmed for accounts that show payout
ready, as the dashboard offers it.

Properties: `OneAttemptPerDay`, `NukeOrderCap` (the cap on real orders, not
stamps), `NoStacking`, `BookedOnce`, `BookedTruth`, `OrderTracked`, `PayoutHolds`,
`ClosedGetsBooked` (liveness: a closed order is booked unless its account is delisted before
a pass has seen the close). What the code does not keep is in section 4.

### Lifecycle (`Lifecycle.tla`, `LifecycleProofs.tla`)

One account in dollars: what TopHat believes (`st`, the `AccountState`) against what
the firm does (`balance`, its own trailing peak, the closed flag, the winning and
trading days it counts). The firm's API reports a balance and `canTrade`, nothing
else, so the floor and the counters are rebuilt from balances seen at odd moments,
and the question is when the rebuilt ones may be trusted.

| Action | Code |
|---|---|
| `Snapshot` | `_build_snapshot`: `_ratchet_peak_eod`, then `_auto_mark_blown`, persisted |
| `Pass` | `run_session`: ratchet if tradeable, `reconcile` (`InPass`), floor check, `decide` and the fire (`Fire`: refused, or accepted with or without a stop leg) |
| `MarkPayout` | `mark_payout`, `mark_payout_taken` |
| `EditAccount` | `update_account_lifecycle`: the posted fields, then `sync_balance`, then a recorded raise of `payouts_taken` (`Edited`) |
| `CloseTrade` | the firm: target minus fees, stop plus slippage, liquidation at its limit, or flattened at the day's end |
| `TradeByHand` | a trade TopHat did not place |
| `EndOfDay`, `Withdraw` | the firm: the limit trails the close, the day counts or not, a payout is taken out before the session |

Definitions keep the source's names (`eod_floor`, `is_dead`, `below_mll`,
`should_omit_stop`); `Reconciled`, `Ratcheted`, `MarkBlown`, `PaidOut` and `Recorded`
are the functions that change the record. Amounts are relative to the starting
balance, so `account_base` is 0. The order of the code matters and is kept: the
outcome is classified before the equity is synced, the floor is raised before death
is judged, and the ratchet runs before both.

A pass and a snapshot are atomic here and no call fails (`Session` takes them apart);
an account that holds a slot at its entry time is one free choice (`Scheduler` has the
slots); the account is first seen at its starting balance; brackets are opened by
TopHat only when the broker is flat and are closed by the end of the day; a payout is
granted before the session in which it is taken out; the edit form shows the record as it
is when it is saved, and nothing is typed over a field. `locked_out_today` is left out: nothing in live trading sets it.

The dashboard's row of the account (`RowState` to `RowTicket`, from `_build_snapshot`)
is defined beside the pass, from the same record but with the code's other order of
tests, so that the two can be compared.

Properties, with `OwnTrades` where they need it (no trade was placed by hand):
`OwnNoFalseBlow` (blown, which is terminal, only if the firm closed the account),
`OwnDecideSeesBalance` (`decide`'s equity never calls dead what the live balance shows
alive), checked together as `OwnDeathIsReal` (whichever way TopHat judges, an account it
gives up is dead), `StopAboveLimit` (a stop leg rests above the firm's real limit, so the rebuilt
floor is not too low when an order is sized), `WinsAreTheFirms` (no winning day is
counted that the firm does not count), `PassIsEarned`, `ClosedGetsBlown` (the next
pass that still lists a closed account books it as blown although it is no longer tradeable), and
`RowIsPass` (the row names the bracket the next pass places, and none when it places
none). Without `OwnTrades` the first two fail (section 4).

### Copier writer (`Rearrangement.tla`, `TcApply.tla`, `MCTcApply.tla`, `BoxProofs.tla`)

`TcApply` is `tc_apply.run` step by step for several processes: parse and resolve the
desired arrangement against the rows (`Preflight`), take the lock file, ask the copier
to quit and wait for exclusiveness (`Quit`, `Exclusive`, `QuitTimeout`), back up, write
in one transaction, relaunch, watch the rows through the copier's boot (`VerifyGood`,
`VerifyBad`), restore (`RestoreFirst`, `RestoreRest`: several files, one after the
other), start the copier again. Quitting times out with the copier up, or with it
gone and the database still busy; asking for, starting or quitting it may raise (`AppError`), and
that escapes `run`. `Preflight` reads the rows in one step, the code in several SELECTs without a
transaction. `Resolve` and `Applied` are `resolve` and `apply_ops` on
groups, leader rows and follower rows. Beside it act the copier (its boot may drop rows,
it updates its schema), its user (window edits, starting and closing it) and crashes.

`Rearrangement` is what that promises, in seven actions: the rows are changed by the
copier while it is up, or by the single owner of the lock, who first saves them, then
changes them once, and can only go back to what was saved. `Rearranges` is the refinement
(`R == INSTANCE Rearrangement WITH ...`): the owner's stage is read off the program counter of
whoever holds the lock.

Properties: `OneWriter`, `WritesAlone` (files are touched with the copier down),
`Idempotent` (resolving again after applying finds nothing to do, on any rows that occur),
`AppliedExact` (a run reported as applied leaves exactly the arrangement asked for),
`CopierReturns` (no run that found the copier up ends with a copier it asked to close and
nobody started again), `RunEnds`, `Rearranges`. The history variables `calm` and `guest` say
when somebody else rewrote the rows or started the copier behind the one exclusive check;
those are the excuses of `AppliedExact` and `WritesAlone`. `stopped` says that a run asked the
copier to close and it has not been started since; the excuses of `CopierReturns` are a crash, an
exception that escapes the run, the failed restore it reports, and the quit that timed out.

### Box and server (`RabbitSync.tla`, `BoxProofs.tla`)

The loop of `rabbit.py` (`Wake`, `Poll`, `Pull`, `Apply`, `Observe`, `Post`, `GiveUp`, `Settle`)
against the `tc-*` routes (`Polled`, `Consumed`, `Settled`), with the retry state in
`rabbit_state.json`. A call is lost on the way there or on the way back; the box crashes
and restarts; the operator asks for a sync, applies a plan, opens a new one, revokes the
box; the copier's schema changes. The last refused retry is given up in a post (`GiveUp`) that
goes out before the disarmed state is saved (`Settle`), so a crash between the two repeats it.
`retries` counts a refusal when it happens, over restarts; `lost` counts the refusals a crash cut off
before that save. `Apply` is one step with the outcomes `TcApply` gives
`run`, which is where the two modules meet: the lock and the rows never leave `run`. The names
the two modules would share begin with `Loop` here (`LoopInit`, `LoopNext`, `LoopSpec`), so
that one module can extend both.

Properties: `RequestKept`, `NightCovered` (no path of the loop drops a night it has
stamped), `NotBlinded` (a refused pull still reports the accounts: the 2026-07-16
lockout), `RetriesBounded` (never more than `max_retries` refusals between two nights, and one more
for each that was cut off), and the liveness `RetriesEnd` and `FlagMet` (together `LoopProgress`).

### Mirrors (`Mirrors.tla`, `MCMirrors.tla`, `MirrorsProofs.tla`)

Follower accounts have no API: `mirrors.json` holds what TopHat infers. The module has
the inference (`Advanced`, `Activated`, `PaidOut`, `Synced`) beside `truth`, what the
firm's dashboard shows, and the three writers that work on an early copy of the file, each
step of theirs an action: a pass (`PassBegins`, `Books`, `SavesLeaders`, `SavesMirrors`), an
application of the plan (`PlanLoads`, `PlanSaves`: whole records) and an import of the
copier's reports (`Refreshes`, `Observes` or `Import`, `ImportLoads`, `Patches` per account,
`ImportEnds`), from which balances are taken over and unknown accounts onboarded. Beside them
are the operator (`MarkPaid` for a payout that was made, or marked by mistake; `Adopt` for
history from before TopHat, `TakeBack`, `Activate`, `Pair`, `Remap`, `Delete`) and `Crash`. `Drift`
is the difference, a trade not yet booked apart.

The chief property is `DriftBorn`: the inference can part from the firm's truth only
in nine named windows, each a definition of its own: an account that has traded is onboarded
(`Imported`), a second outcome meets a booked date (`SecondOfDate`), the mapping moved between
trade and booking (`Remapped`), a report is older or newer than the booking (`Misread`), a payout is
marked that was not made (`MarkedUnpaid`), a crash (`LostAtCrash`), and the copies of a pass, a plan
and an import overtaken by an edit or a booking (`Overlap`, `Overwritten`, `Outdated`). In every other
interleaving it stays exact. On it rest `BlownIsReal` and `ReadyIsEarned` for mirrors that never
drifted. `LedgerIsBanked` relates payout events to withdrawals through reversals, but for mirrors
that have counted a payout without a positive event (`uncounted`). `TradesWorkedOff` is liveness
under crashes.

One import and one plan are under way at a time, and the plan that is applied maps leader and
multiplier (its channel is `CopierPlan`'s). `TakeBack` is one step, where the code takes the file
lock three times (ledger, balance, count).

Assumed: an activated account shows up in reports under its new number, so its old row is
dropped; a mirror keeps its id; an account is connected when the report has its row.

### Copier plan (`CopierPlan.tla`, `MCCopierPlan.tla`, `CopierPlanProofs.tla`)

The nightly solver as pure operators: `Drivers`, `NukeToday`, `Intake` and the rest of what it
works out first (`Sight`), one `Desire...` operator per kind of mirror, given to each mirror
on what the mirrors of smaller id left (`Plans`; `After` is the fold, the load of each leader
and the pairs of leader and firm that are taken), the buy list, and what an
application writes (`Applied`) and the export sends (`Groups`). Around them, the requests in the steps the code makes of them: the leaders are read
(`Asks`, `AsksInOutage`), the mirrors after them (`Solves`), and then loaded once more, by an
application (`Loads`, `Saves`: whole records) or by the export (`Export`); and the fleet that moves
between any two of these. An activation or a pairing by hand may name any leader, as the code lets it.

Properties: `Resolves` (a plan, applied and solved again, has nothing to edit, but for
waiting mirrors and one case of `Unopened` Apex accounts, section 4; the export counts on
it), `TwinsApart` (two funded clones of a firm come to share a leader only by the operator's hand,
`ByHand`, or by a plan saved over a mirror that changed since it was solved, `Overtaken`),
`PulledLawful` (what the box pulls obeys the fleet's rules although the exporter checks none of
them, but for mirrors changed between the plan's load and the export's), `BuysOnlyForTheDead` (neither
an outage nor a red-day lock makes the buy list longer).

### Dashboard caches (`Snapshots.tla`, `MCSnapshots.tla`, `SnapshotsProofs.tla`)

`build_snapshot`, `_read_broker` and the two invalidations, by several threads for
several tenants. `JudgesReads`/`KeepsReads` and `JudgesRows`/`KeepsRows` are the
comparison of the generation and the store, which are two steps; `slip` marks what is
stored after the generation has moved. Properties: `OneBuilder`, `TenantsApart`,
`NothingOldIsFresh`, `ShowsFinished`, and the liveness `LockReturns`. The write of a
snapshot to the states is in `Session`, its rows in `Lifecycle`.

### Automation (`Automation.tla`, `MCAutomation.tla`, `AutomationProofs.tla`)

Processes one after the other on one data directory, each with its loop: a tick reads
the clock once and serves all users at once, each his keys (`RunsKey`, `KeyRaises`,
`KeyGone`), the probe (`Probe`) and the messages (`Notify`, `Posts`). The clock is
abstracted to the windows the code tells apart. `_drive` and its cache, the instance
lock, shutdown and crash, and the stamps that survive them are state. Properties:
`OneLoop`, `OncePerDay`, `FiresOnFinal` (no order on a range that was cached while it
formed), `WindowsServed` (every window's work is done for a user nothing held up),
`TicksReturn`. What a pass does with a key is `Session`.

## 3. Runs

| Run | Bounds | Shows |
|---|---|---|
| `SchedulerNukes` | 3 accounts, 2 keys, caps 1-2, one day | the caps and slot properties under departures, returns and cap edits |
| `SchedulerEvals` | 3 accounts, 2 keys, caps 1-2, two days | eval pipeline, `NextDay` |
| `SessionFaults` | 2 accounts, 2 days, cap 1 | rejects, late timeouts, failed reads, liquidation, delisting, toggles |
| `SessionClean` | 1 account, 3 days, 2 winning days per payout | order tracking, truth of bookings, payouts, liveness |
| `SessionCrash` | 1 account, 2 days | `NoStacking` under crashes and snapshots |
| `Lifecycle` | 1 account, 5 days, one trade by hand, amounts of the defaults in tens of dollars | floor, death, counters and payouts against the firm's, and the row against the pass |
| `TcApply` | 2 writers, 2 runs, 3 arrangements, a malformed and an empty one, 1 failure or outside act | lock, exclusiveness, exact difference, the copier's return, the refinement |
| `RabbitSync` | 2 days of 3 retry intervals, 2 faults, 1 request, 1 plan | requests, nights, retries and reports under loss and crashes |
| `Mirrors` | a clone or an Apex mirror, the other onboarded, 1 leader, 2 days, 1 edit, report or crash | where the inference may part from the truth, and what rests on it |
| `CopierPlan` | 3 leaders, 3 channels, 5 mirrors in fleets of clones or of Apex accounts, 2 logins, 2 days, 2 events | solver, application, export, buy list |
| `Snapshots` | 2 threads, 2 tenants with one login name, 1 change | staleness, coalescing, isolation |
| `Automation` | 2 processes, 2 users with 2 and 1 keys, a Thursday and a Friday, 1 switch | windows, once-a-day work, the drive, shutdown |

A run checks a module's plainer state invariants as one, `Inv`: in `TcApply` that is
`TypeOK /\ OneWriter /\ WritesAlone`, in `RabbitSync` (as `LoopInv`) `LoopTypeOK /\
RequestKept /\ RetriesBounded`, in `Mirrors` `TypeOK /\ BlownIsReal /\ ReadyIsEarned /\ LedgerIsBanked`,
in `Automation` `TypeOK /\ OneLoop /\ OncePerDay
/\ FiresOnFinal`; each part has a mutant that breaks it. `LoopProgress` joins the
two liveness properties of `RabbitSync` in the same way;
`Accounted` in `Session` is `OrderTracked /\ BookedTruth`, and `OwnDeathIsReal` in `Lifecycle`
is `OwnNoFalseBlow /\ OwnDecideSeesBalance`. No run repeats what section 5 proves for every
instance of the type invariants of `Scheduler`, `Session`, `Lifecycle`, `Snapshots` and `CopierPlan`, of
`SlotStaysConsumed`, `PassIsEarned`, `OneBuilder` and
`NothingOldIsFresh`; the other proved properties are checked too.

Why the bounds are enough. The slot rules compare accounts pairwise and count: two
accounts of one key and one of another meet every case of `Ahead` and `GhostSlots`
(holder against newcomer, own and foreign ghosts), and the caps 1 and 2 lie below
and at the number of candidates. What happens across days is carried by dates that
are only compared with today, so two days suffice for the scheduler and three for a
payout cycle of two winning days followed by another fire. In `Session`, accounts
only interact through the nuke slots and the shared end of the pass, so two are
enough for the cap and one for the properties of a single account. `MaxAttempts`
bounds the attempts and bookings of an account; in the passing runs it is as large
as the number of days, so the one attempt of each day is always possible.
`Room` is 1 or 2 brackets, so accounts do blow. In `Lifecycle` the amounts are the
program's defaults divided by ten, with two fees of which the larger makes a flip miss
the winning-day bar, a stop that always slips, a flattening on either side of the outcome
thresholds, two winning days per payout and two payouts instead of five and four, and
three eval days instead of two so that the profit can come before the days; five days
reach a payout, the next cycle, a blown account after wins, and a passed eval. Floors
are compared with balances only, so one trade by hand (+$2,100) is enough to put
them on the wrong side of each other.

In `TcApply` two writers meet every order of lock, crash and restore; the arrangements
move one account between leading, following, and neither, and one failure at every
place of two runs gives each branch of `run` a next run on the rows it left. In
`RabbitSync` two nights are needed for a retry of the first to meet the second, and
two faults for a loss during a retry. In `Mirrors` a mirror interacts with its leader's
trades, with the copies of a pass, a plan and an import, and with another mirror through
those only. Two days give a late booking the next day's trade; payouts that are due are not
counted as events, so a correction still meets two of them; each of the nine windows needs
one event, which is placed anywhere among the trades and payouts. One account is a mirror
from the start and the other may join by a report, and the firm's numbers are scaled so that one
win passes or qualifies and two losses kill. In `CopierPlan` the fleets separate the clone rules (two twins, a
scaled clone, waiting and funded) from the Apex rules (two accounts for one nuke slot);
caps of one and two claimants make each competition tight. In `Snapshots` a change can
fall between any two steps of either thread. `Automation` has two users because one must
be able to delay or fail beside the other, and Thursday and Friday because only one of their
nights trades. The theorems below hold without these bounds.

Fairness. `ClosedGetsBooked` assumes that a pass is started again and again
(`WF(StartPass)`: the automation loop, or the operator's Execute, which may come at
any time of day) and that a started pass takes its next step (`WF(PassNext)`: it is
straight-line code whose calls return or raise). Nothing is assumed of the clock or the
operator. The broker may delist an account at any time after it stopped trading: its trade is in
no list a pass works from any more (`service.py:1036`), and the property excuses it. The run
has no failing reads: a position read that fails on every tick would postpone the booking
forever, as it does in the code.
In `TcApply` every step of a running writer is fair (bounded waits, no lock is waited
for), as are the copier's closing and booting, but not what its user does; in
`RabbitSync` the loop and the clock, while losses, crashes and the operator may happen
or not; in `Snapshots` each thread's next step (an HTTP call returns or raises); in
`Mirrors` the pass, with a finite number of crashes; in `Automation` the running
process (its tick's next step, its exit) and no start, crash or toggle.
Deadlock is checked wherever the cfg does not say otherwise; the other systems stop when
their days or events are used up.

## 4. Disagreements met

Where the code does not do what a comment, a docstring or a document of the repository
says of it. The runs check what does hold, so the fault that breaks a property is left
out of the run, or the property names the excuse; how to see it break is said here.

**Session.** Take `Events` of a run and add what is named.

* *A snapshot takes a fire back.* `_build_snapshot` saves whole records it loaded before
  its broker reads (`service.py:479`); `store/states.py:68-70` says the lock prevents "a
  snapshot save losing a just-recorded fire". It covers one `merge_save`, not load to
  save. `SessionFaults` with `"snapshot"`: `OneAttemptPerDay` fails (`NukeOrderCap` does not, section 5).
* *A pass takes an operator's edit back.* The closing `merge_save` writes every tradeable
  record as loaded (`service.py:1235`), against the comment at 1231-1232 ("can't clobber a
  concurrent writer's entries (... lifecycle edits)"). `SessionClean` with the invariant
  `PayoutKept`.
* *An order is lost sight of.* A failed position read leaves a trade pending
  (`service.py:1045`, "retry next tick"), and the same pass may fire the account again
  over it; after a place call that raised, a failed read counts as no position (1209).
  `SessionClean` with `"readfail"`: `Accounted`, by `OrderTracked`.
* *A trade closes between two reads* and is classified by the balance from before its
  close (`service.py:1048`). `SessionClean` with `"closerace"`: `Accounted`, by `BookedTruth`.
* *A crash* between the trade-log line and the closing save books a trade twice, and
  between a fire and `save_schedule` (1230) frees the slot again. `SessionFaults` with
  `"crash"`: `BookedOnce`, `NukeOrderCap`, `OneAttemptPerDay`.

* *A delisted account's trade is never booked.* Reconciliation walks the accounts the broker
  returns (`service.py:1036`), and a liquidated account is delisted minutes later
  (`scheduler.py:86-87`), a passed eval deleted (`services/lifecycle.py:103`): a trade that closes
  after the last pass that saw its account stays pending, against the "one immutable record per
  resolved trade" of `service.py:1069`. `SessionClean` with
  `ClosedGetsBooked` less its excuse.

**Lifecycle.**

* *False blow.* `_ratchet_peak_eod` takes the last balance *seen* on an earlier day for
  its close (`service.py:316`), and `reconcile` raises the peak at once
  (`services/lifecycle.py:57`), while 308-310 promises that "a mid-day high that fades by
  the close must not raise the floor". `Lifecycle` with the invariant `NoFalseBlow`, and a
  `ManualLoss` for the fade.
* *Stale equity.* Only `reconcile` and the edit form write `equity`, so after a profit made
  by hand `decide` (`engine.py:207`) may call dead an account whose balance is above its
  floor; `services/lifecycle.py:3` calls the balance the source of truth.
  `Lifecycle` with `DecideSeesBalance`.
* *An old form.* The edit form posts every field as it was when it was opened
  (`service.py:1405`), and what a pass saved since goes back. The comment at 1449 knows of
  the stale cycle fields and guards the payout only.
* *Rows.* A signal account competes for a slot in the dashboard's preview (467-476) and not
  in the pass (1089-1095); it is shown as terminal or awaiting withdrawal (533-538) and
  fires nevertheless (1102-1108); the preview of several disabled accounts treats each as
  enabled together with all others; an account with a trade to book shows the plan its
  unbooked record gives. `RowIsPass` is about one strategy account.

**Copier, box and server.**

* `tc_apply.run` "never raises for operational failures" (`rabbit/tc_apply.py:593`), but a
  failing backup (641) or restore (651) escapes it with the copier down, and so does an exception
  of `tasklist`, `taskkill` or the start (631-634, 663-664, 674-675, 691-692); `CopierReturns`
  says so ("raised").
* A quit that times out is answered by "leaving everything as-is" (635-637), but the copier was asked
  to close: it may do so a moment later and stay down until somebody looks. `CopierReturns`
  says so ("timeout").
* The last refused retry posts "gave up" (`rabbit/rabbit.py:307`) before the disarmed state is
  saved (359): after a crash in that post the exhausted retry is made once more. `RetriesBounded`
  counts those cut off (`lost`).
* The status post of a cycle clears the flag whenever it was raised
  (`server/app.py:519`, "settles the request"), so a "Sync now" (439) pressed during a
  cycle is lost. `RabbitSync` with `RequestKeptAlways`.
* A crash, or an exception, between the stamp of the night and its answer loses that
  night's apply (`rabbit/rabbit.py:345`): the `"cut"` of `night`.

**Mirrors and plan.**

* "Every enabled mirror following that leader books the same balance delta"
  (`services/mirror_sync.py:3-5`); a second outcome of one date is dropped (107), as when
  yesterday's trade is reconciled this morning (`service.py:1082`): `SecondOfDate`.
* `mark_mirror_payout` says "new cycle opens with a nuke" (178) but keeps `last_day_pnl`, and
  the plan takes a nuke channel with a gain for a landed nuke (`services/copier_plan.py:438`):
  the cycle may open with a flip.
* `_reverse_recent_payout_events` (`service.py:1345`) takes the newest payouts without as
  many as there are reversals; after a reversal and a new payout these are the wrong ones.
  `LedgerIsBanked` is about what happens before. Nor does it ask whether a payout counted ever had
  an event: `payouts_taken` raised to adopt history (`server/app.py:323-325`), or a payout marked at
  a profit of nothing (387-397), corrected later, reverses an older payout that was real:
  `uncounted`.
* `mark_mirror_payout` (`services/mirror_sync.py:160`) asks neither whether the mirror is ready nor
  whether there is anything to pay; a mark by mistake takes equity the firm still shows: `MarkedUnpaid`.
* `merge_save_mirrors` says "concurrent writers can't clobber each other's entries"
  (`store/mirrors.py:117`), and `apply_plan` gives it whole records of
  a copy loaded without the lock (`services/copier_plan.py:574`, 587): a pass's booking or an activation
  in between is taken back (`Overwritten`; `Overtaken` in `CopierPlan`).
* `import_observed` judges who is untraded on a copy loaded without the lock
  (`services/tc_observe.py:178`, 228-236) and patches the file account by account after that: a first
  trade booked in between is wiped by the anchor (`Outdated`).
* The plan is checked on one load of the mirrors (`copier_plan.py:638`), exported from another
  (`tc_export.py:93`): an edit in between reaches the copier unchecked. `PulledLawful` speaks of the
  mirrors that did not change.
* An activation (`server/app.py:334-340`) or a pairing (`services/mirror_sync.py:124-156`) may name
  a leader that a funded twin has already, where the plan has "one twin per firm each"
  (`copier_plan.py:197`): `ByHand`.
* Imports are not held back by the gates `docs/TRADECOPIA_AUTOMATION_PLAN.md:778` and 887
  promise (newer than `last_verified`): `tc_observe.py:208-209` checks the age alone, so
  the same report may be imported again after a booking: `Imported`.
* "An applied plan re-solves to zero lines" (`copier_plan.py:8-9`) has two exceptions that
  `Resolves` names. A waiting mirror's MAP line is said again until it is paired. And an
  Apex account that wins before any plan gave it a channel (registered as waiting, then
  paired) is given a nuke slot; that nuke has landed as soon as the channel is on record
  (438), so the next plan hands its slot to another account: `Unopened`.
* An Apex mirror whose channel is down keeps its leader on record without a line (452, 464),
  and the export takes the leader from the record: `ChannelDown` in `PulledLawful`.
* "Pairing is for life" (381), yet a leader that is disabled, or absent while its login's
  snapshot fails (603-610), unpairs its funded clones, and nothing pairs them again. With
  every login gone the buy list asks for a full pipeline of a login without a name (481).
  The solver's snapshots are keyed by `h.owner` (607), not by tenant and owner
  (`service.py:105-107`).

**Automation and caches.**

* The users of a tick are served together and awaited together
  (`services/automation.py:153`), so a slow user delays every other user's next tick,
  although `service.py:92-96` counts on "on-time fires".
* The tick's time is read once; a key behind a slow one fires by the earlier time, past
  the entry grace. A key that raises ends the tick's later keys, its probe and its messages
  (`service.py:728-730`); the next tick repeats them in the same order.
* Probe and messages are stamped before they are made, so a failure loses that night's. The
  premarket stamp is set by the first look, all clear or not. `_probe_done` is called "in
  memory on purpose" (62-63) and is persisted (119-128).
* A build is stored after its generation was compared, in two steps (`service.py:392`):
  `slip` in `Snapshots`. `invalidate_snapshot_cache` walks the cache's values under a guard
  that the insertion of a new key (393) does not take.

## 5. Proofs

Every property the runs check is also a theorem, except liveness. The theorems have no bound:
any sets of accounts, mirrors, users, writers and threads, any amounts, and `Max...` constants
of any size. Each proof module defines its inductive invariant before its lemmas; a lemma per
action (or per action and conjunct) shows that the step keeps it.

**`SchedulerProofs`**: `NukeCap`, `EvalCap`, `SlotStaysConsumed`, `HoldersKeepTheirSlot`,
`RecoveryFirst`, `WaitOnlyForTakenSlots`. The caps are not inductive alone: a pass counts
ghosts by `slot_owner`, so the invariant `IInv` adds that every stamp is attributed to the key
that lists the account (`SlotOwnerIsLister`), that no stamp lies in the future
(`NoFutureStamp`: the next day starts with no slot taken) and that `cap_high` is at
least the current caps. The heart is a counting lemma: the winners together with the
ghosts are at most the cap, and holders come first, so the accounts stamped after a
pass are ghosts, winners and nobody else. `RecoveryFirst` follows from the sort key;
`WaitOnlyForTakenSlots` counts the other way: whoever is ahead of a waiting account waits
too or wins, the foremost who waits exists (the order is well-founded), and ahead of him
stand exactly the winners.

**`SessionProofs`** has one invariant per concern, each built on those before it, and each
theorem leaves out only the events it must:

| Theorem about | Invariant | Events left out |
|---|---|---|
| `NoStacking` | `BrokerInv`: the guard reads the broker, so no record has to be trusted | none |
| `OneAttemptPerDay` | `DayInv`: a fire date is on disk and in memory as soon as today's attempt was made, except for the one account between the place call and its `merge_save` (`cur`); who is due has not been attempted | `snapshot`, `crash` |
| `NukeOrderCap` | `SlotInv`: on disk and in memory stamps and ghosts are within the cap, and an account with a nuke order today is stamped in one of them | `crash` |
| `BookedOnce`, `PayoutHolds` | `BookInv`: a pending trade is not in the log, and the wins in the log are counted towards this cycle or one that was paid; the record on disk may lag until `merge_save`, and only for accounts this pass has booked | `snapshot`, `crash` |
| `Accounted` | `AccInv`: a pending record names an order the broker took and the balance without it, and nothing else moves the balance until it is booked | `timeout`, `readfail`, `closerace`, `snapshot`, `crash` |

The excluded events are ways in which the code does lose what the invariant says (section 4):
with any one of the five alone, TLC finds `Accounted` violated. `AccInv` itself was checked on
instances before it was proved.

**`LifecycleProofs`**: the properties of section 2 for every bracket size, drawdown, fee,
slippage and number of days. The invariant is `Own(st)`, stated of a record because a pass goes
through three of them (ratcheted, reconciled, fired) before it saves one: an open bracket is
today's, its record says so and nothing moved before it (`Tracked`); the rebuilt peak is never
above the best end of day, today included (`PeakUpper`), and never below it once the last trade
is booked (`PeakLower`); who is dead is what the firm's limit says, and a dead account is blown
or waits for its booking (`DeadOrAlive`); the counters are backed by the firm's
(`Counters`). The crux is that `reconcile` raises the peak in the middle of the day:
that is sound only because the bracket is the day's only trade and is not followed by
another before the close, which is what `Tracked` and `last_fire_date` give. The proof
uses the assumption `OwnTrades`, which cannot be dropped (section 4). The edit form keeps
`Own` because a saved form is the record, a synced balance is one `Own` already bounds the
peak by, and a payout recorded there is the same as a confirmed one (`PaidOutOwn`).
`OwnDeathIsReal` joins the two judgements: the pass's, which `PeakUpper` makes right, and
`decide`'s by the recorded equity, which is the live balance unless a booking is open.
`RowIsPass` needs no `OwnTrades`, only that an account which trades has a payout left
(`Paying`): row and pass judge the same record once ratcheted, and the pass's booking and its
floor check can only stop the account, in the cases the row shows as stopped.

**`SnapshotsProofs`**: `OneBuilder`, `TenantsApart`, `NothingOldIsFresh` and `ShowsFinished`.
A lock names its holder, and a builder is the holder, which gives `OneBuilder`. Each cache
entry and each result a thread carries is bounded by the number of changes (`Bound`); an entry
marked fresh carries every change finished before its generation (`CacheOK`, `Bar`), a thread
past its comparison knows that the generation had not moved (`ThreadOK`, `HandOK`), and
`NewInv` relates finished changes to the two generations in the order the code bumps them.
The step between comparison and store is the one place where this is lost; `slip` names
it, in the code's favour nowhere else.

**`BoxProofs`** holds both programs of the box. For `TcApply`: `Inv` (with `OneWriter` and
`WritesAlone`), `Idempotent`, `AppliedExact`, `CopierReturns` and the refinement `Rearranges`. Half of it is
about `resolve` and `apply_ops` as operators, on any rows the keys of Tradecopia's tables
allow (`Keyed`: an account leads one group, a leader row belongs to a group): what is created,
dropped, deleted and upserted, that applying it gives exactly the payload, and that a second
`resolve` is empty. The invariant adds what a run holds at each label (`ShapeInv`), that the
keys hold of rows and backups, torn files apart (`KeyInv`), and, while nobody else touched the
rows, that the operations in hand are still the difference, and after the transaction that the
rows are the payload (`CalmInv`); for `CopierReturns`, that a run which found the
copier up has started it when it verifies (`Restarted`). `AppliedExact` follows although the verification only looks
for missing rows. For the refinement, each step of a writer is one of `Rearrangement`'s
actions or a stutter by the stage its label maps to. The keys are an assumption about another
program's tables: of the first rows (`FirstRows`) and of what its user edits.

For `RabbitSync`: `LoopInv` (with `RequestKept` and `RetriesBounded`), `NightCovered`,
`NotBlinded`. The invariant is `LoopIInv`. Four strengthenings, one per concern: a pull that
was answered met the request, and one raised later was raised while the box was busy
(`Requests`); only a manual cycle ends in a failed pull, and a manual one always has a status
(`Cycles`); the file counts the armed retry and the refused ones, but for a refusal it does not know
yet (`Refused`) or never will (`lost`), and a disarmed file counts none (`Counts`); a manual cycle
begun in an open night has that night's retry armed (`Nights`), on which the nightly guarantee hangs.

**`AutomationProofs`**: `Inv` (with `OneLoop`, `OncePerDay`, `FiresOnFinal`) and
`WindowsServed`. A stamp is never behind the deed (`Stamps`) and what is about to be done is
stamped and not done (`Deeds`); what a process remembers is what the file says (`Memory`); a
tick is at most one window older than the clock (`Readings`), so a drive that is kept is its
day's (`Drives`). `Served` says of a user nothing held up that what is owed to him is done, or
still ahead of the place a running tick has reached.

**`MirrorsProofs`**: `DriftBorn`, `Inv` (with `BlownIsReal`, `ReadyIsEarned`, `LedgerIsBanked`).
What a pass, a plan and an import work on are copies, so the invariant says what each copy and
the store have in common until it is saved (`Pass` for the first), who has a share of a trade not yet
booked (`Sharers`), and, for a mirror that never drifted, that store and copy are sound
against the firm, also once the open share is booked (`Known`). `Drift` sums shares over the
leaders; what a sum is, and that it changes by what one leader's share changes, is proved by
induction on the number of elements. Each action's drift is then traced to one of the windows.
For the banked total the invariant is that the ledger is payouts and then reversals of the
latest of them (`InOrder`), as long as no payout follows a reversal and each payout counted had a
positive event; a mirror in `uncounted` is claimed nothing about. Assumed are that shares
are whole (money is as fine as its shares) and that no mirror is *registered* as blown: the API
accepts any phase (`store/mirrors.py:157`), but such a mark is the operator's word and no
inference.

**`CopierPlanProofs`**: `TypeOK`, `TwinsApart`, `Resolves`, `BuysOnlyForTheDead` and
`PulledLawful`, for every fleet, every set of leaders and channels, and all slots and limits.
The invariant (`IInv`) adds little to `TypeOK`: views and copies hold leaders' records, an Apex account is copied in
full size and a clone has no channel, only a funded mirror waits for a payout. TLC checked it
on the run's instance first. The work is in the solver:

* A sort and a slice is the part of a finite set with fewer than n ahead of it. The orders are
  written as sets of pairs, so one set of lemmas serves the intake, the nukes and the choice
  of a leader: the first n are at most n, closed under who is ahead, and fewer only when they
  are all (`ForemostFacts`); a strict order on a finite set has a first (`BestFacts`).
* The fold is a function on the finite sets of mirrors. That it exists is shown by building it
  on ever larger sets (`IterExists`), what it keeps by induction on their size
  (`SizeInduction`). Two facts about it are enough (`AfterFacts`): the loads are counts, and a
  pair of leader and firm, once taken, stays taken.
* `TwinsApart` hangs on the second: no plan moves a funded clone to another leader, and a
  waiting one is shown a leader no funded twin has. A plan saved over mirrors that are as it saw them
  adds no pair; every other way is `ByHand` or `Overtaken`.
* `PulledLawful` reads each missing edit line as a fact about the mirror (`NoEditFacts`):
  the exporter's one check, that the plan has no line, implies every rule of the fleet, for the
  mirrors (and for the counts, the fleet) that the export finds as the check did.
* `Resolves` needs that an applied plan changes none of what the next one decides on. The
  intake reads nothing a plan writes (`IntakeStays`). The nukes read the stamp: those stamped
  today stay first, for the order puts today's stamps ahead and they fill the slots
  (`StampedStayFirst`, `NukesStay`). A clone's new leader is one the next plan keeps
  (`CloneEvalPlan`, `CloneEvalQuiet`). The proof is what brought `Unopened` to light: without
  that exception `NukesStay` is false. The run's fleets then got one in which TLC meets the case
  (a waiting Apex account before a funded one).
* `BuysOnlyForTheDead` compares counts login by login.

Assumed are numbers for accounts and mirrors (the code orders them by id), finitely many of
them, and a fleet whose phases are the model's.

Only model-checked is liveness: `ClosedGetsBooked`, `RunEnds` of `TcApply`, `LoopProgress` of
`RabbitSync`, `TradesWorkedOff`, `TicksReturn` and `LockReturns`. Fairness and `ENABLED` are out
of the prover's reach.

## 6. Not modelled, and why

* Broker HTTP clients, web handlers that only read, login, encryption, the page, the
  desktop UI and the CLI are sequential I/O. What the broker does is in the actions of
  `Session` and `Lifecycle`.
* Drive streaming depends on market data; when a day's bars are final is external in
  `Automation`, the drive an input elsewhere.
* Analytics, the simulator and the research scripts compute statistics over floating-point
  P&L. The NinjaTrader strategies run in another program.
* Of the modelled parts: in `Session` evals (which differ in their cap only), signal and
  practice accounts, mirror booking, several credentials; in `Lifecycle` what an operator
  types over a field; in `Automation` the probe's orders and the wording of messages; in
  `Mirrors` the eval rules of firms the instance has not, bulk deletion, validation of
  numbers; in `CopierPlan` the payout queue and the hazard texts; in `RabbitSync` pairing by
  code, heartbeats and the status page.

## 7. Plan

Done: all modules above, and the proofs of section 5. What is left, in order of worth:

1. An abstract specification of one account's day ("at most one bracket, booked once, as
   what it was") that `Session` without the excluded events implements: `AccInv` has the
   facts its refinement needs.
2. Signal accounts in `Session`; an edit form older than the record in `Lifecycle`.
3. The copier's rows read in several SELECTs (`Preflight`), and the three locked steps of a payout
   correction (`TakeBack`), one by one.
