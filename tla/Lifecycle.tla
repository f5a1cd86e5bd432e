------------------------------ MODULE Lifecycle ------------------------------
(***************************************************************************)
(* One account in dollars: what TopHat believes about it (AccountState)    *)
(* against what the prop firm does with it.                                *)
(*                                                                         *)
(* The firm closes an account whose balance touches a trailing limit, and  *)
(* raises that limit to the best END-OF-DAY balance.  Its API reports the  *)
(* balance and canTrade but neither the limit nor the winning days, so     *)
(* TopHat rebuilds both from the balances it happens to see                *)
(* (engine.py, services/lifecycle.py, _ratchet_peak_eod and                *)
(* _auto_mark_blown in server/service.py).                                 *)
(*                                                                         *)
(* All amounts are relative to the account's starting balance (an eval     *)
(* starts at 50,000, a funded account at 0), so account_base is 0.  A pass *)
(* and a snapshot build are atomic here and see every place call succeed   *)
(* or fail cleanly: module Session takes them apart.  Whether the account  *)
(* has a slot, its entry time has come and there is a drive is one free    *)
(* choice (module Scheduler has the slots).  The account is first seen at  *)
(* its starting balance, the edit form is saved on the record it shows,    *)
(* and the settings are the defaults (auto_disable_on_payout_ready, a      *)
(* winning-day bar).                                                       *)
(***************************************************************************)
EXTENDS Integers

CONSTANTS
  FirstPhase,     \* the phases an account can be first seen in
  Trail,          \* trailing_drawdown
  EvalTarget, EvalStop,                     \* the eval bracket, in dollars
  NukeTarget, RecoveryTarget, FlipTarget,   \* the funded targets, in dollars
  Dll,            \* the stop of every funded bracket
  PassProfit, MinDays,                      \* eval_target_dollars, eval_min_days
  WinDayMin,      \* the firm's bar for a winning day (net)
  WinDays,        \* winning_days_required
  PayoutsTarget, PayoutCap,
  Fee, Slip,      \* what a target fill costs, what a stop fill slips
  FlatGain, FlatLoss,       \* what a bracket makes or loses when the day's end closes it
  ManualGain, ManualLoss,   \* what a trade somebody places by hand makes or loses
  MaxManual,      \* bound on how many of those
  MaxDay          \* bound on the calendar

ASSUME LifecycleAssumption ==
  /\ FirstPhase \subseteq {"eval", "funded"}
  /\ {Trail, EvalTarget, EvalStop, NukeTarget, RecoveryTarget, FlipTarget, Dll} \subseteq Nat \ {0}
  /\ {WinDayMin, WinDays, PayoutsTarget} \subseteq Nat \ {0}
  /\ PassProfit \in Nat \ {0} /\ MinDays \in Nat /\ PayoutCap \in Nat /\ MaxManual \in Nat
  /\ MaxDay \in Nat \ {0}
  /\ Fee \subseteq Nat /\ Slip \subseteq Nat /\ FlatGain \subseteq Nat /\ FlatLoss \subseteq Nat
  /\ ManualGain \subseteq Nat /\ ManualLoss \subseteq Nat

VARIABLES
  day,
  balance, firm_peak, firm_dead,   \* the firm: balance, best end of day, account closed
  day_open, firm_wins, firm_days,  \* the firm: balance at the open, winning and trading days
  position,                        \* the open bracket at the broker
  withdrawn,                       \* the firm paid out, TopHat has not been told yet
  st, enabled,                     \* TopHat: the account's record and registry switch
  manuals                          \* history: trades TopHat did not place

firmVars == <<balance, firm_peak, firm_dead, day_open, firm_wins, firm_days>>
vars == <<day, firmVars, position, withdrawn, st, enabled, manuals>>

Label    == {"eval", "nuke", "renuke", "flip"}
NoLabel  == ""
Brackets == [label : Label \cup {NoLabel}, target : Nat, stop : Nat, manual_stop : BOOLEAN]
NoPosition == [label |-> NoLabel, target |-> 0, stop |-> 0, manual_stop |-> FALSE]

\* AccountState.  Dates are days, 0 for the empty string.
StateRec ==
  [phase : {"eval", "funded", "passed", "blown", "retired"},
   equity : Int, peak_equity_eod : Int, days_traded : Nat, payouts_taken : Nat,
   winning_days : Nat, nuke_tries : Nat, nuke_hit : BOOLEAN, payout_ready : BOOLEAN,
   last_fire_date : Nat, last_seen_day : Nat, last_seen_balance : Int,
   pending_label : Label \cup {NoLabel}, pending_entry_balance : Int,
   pending_target : Nat, pending_stop : Nat]

TypeOK ==
  /\ day \in 1..MaxDay /\ balance \in Int /\ firm_peak \in Int /\ firm_dead \in BOOLEAN
  /\ day_open \in Int /\ firm_wins \in Nat /\ firm_days \in Nat
  /\ position \in Brackets /\ withdrawn \in BOOLEAN
  /\ st \in StateRec /\ enabled \in BOOLEAN /\ manuals \in 0..MaxManual

Larger(m, n)  == IF m < n THEN n ELSE m
Smaller(m, n) == IF m < n THEN m ELSE n

\* Both sides use the same rule: the limit trails the peak and locks at the start.
TrailingFloor(peak) == Smaller(0, peak - Trail)
FirmFloor == TrailingFloor(firm_peak)

-----------------------------------------------------------------------------
(* The engine's decisions.                                                 *)

Trading(s)     == s.phase \in {"eval", "funded"}
\* Variant: without the lock at the starting balance.
EodFloorUnlocked(s) == s.peak_equity_eod - Trail

eod_floor(s)   == TrailingFloor(s.peak_equity_eod)
is_dead(s)     == s.equity <= eod_floor(s)
below_mll(s)   == Trading(s) /\ balance <= eod_floor(s)
IsNukeCycle(s) == s.payouts_taken % 2 = 0

\* decide(): which bracket, if it trades at all.
Trades(s) ==
  /\ Trading(s) /\ ~is_dead(s)
  /\ s.phase = "funded" => s.payouts_taken < PayoutsTarget

Plan(s) ==
  CASE s.phase = "eval" ->
         [label |-> "eval", target |-> EvalTarget, stop |-> EvalStop]
    [] s.phase # "eval" /\ IsNukeCycle(s) /\ ~s.nuke_hit ->
         [label  |-> IF s.payouts_taken >= 2 THEN "renuke" ELSE "nuke",
          target |-> IF s.nuke_tries >= 1 THEN RecoveryTarget ELSE NukeTarget,
          stop   |-> Dll]
    [] OTHER ->
         [label |-> "flip", target |-> FlipTarget, stop |-> Dll]

\* Within one stop of the floor no stop leg is placed: the firm liquidates there.
should_omit_stop(s, stop) == balance - eod_floor(s) <= stop

\* record_pending()
Recorded(s, plan) ==
  [s EXCEPT !.pending_label = plan.label, !.pending_entry_balance = balance,
            !.pending_target = plan.target, !.pending_stop = plan.stop,
            !.last_fire_date = day]

-----------------------------------------------------------------------------
(* Outcomes.                                                               *)

Outcome(delta, target, stop) ==
  CASE target > 0 /\ 2 * delta >= target -> "win"
    [] ~(target > 0 /\ 2 * delta >= target) /\ stop > 0 /\ 2 * delta <= -stop -> "loss"
    [] OTHER -> "flat"

AdvanceEval(s) ==
  LET days == s.days_traded + 1
  IN [s EXCEPT !.days_traded = days,
               !.phase = IF balance >= PassProfit /\ days >= MinDays THEN "passed" ELSE @]

\* Variant: every target hit is a winning day, without the firm's bar on the net.
AdvanceFundedAnyWin(s, outcome, delta) ==
  LET wins == s.winning_days + (IF outcome = "win" THEN 1 ELSE 0)
  IN [s EXCEPT !.days_traded = @ + 1, !.winning_days = wins,
               !.payout_ready = @ \/ wins >= WinDays]

AdvanceFunded(s, outcome, delta) ==
  LET nuke      == s.pending_label \in {"nuke", "renuke"}
      won       == outcome = "win"
      qualifies == won /\ delta >= WinDayMin
      wins      == s.winning_days + (IF qualifies THEN 1 ELSE 0)
      tried     == [s EXCEPT !.days_traded = @ + 1,
                             !.nuke_tries = IF nuke THEN @ + 1 ELSE @,
                             !.nuke_hit = @ \/ (nuke /\ won)]
  IN [tried EXCEPT !.winning_days = wins, !.payout_ready = @ \/ wins >= WinDays]

Cleared(s) ==
  [s EXCEPT !.pending_label = NoLabel, !.pending_entry_balance = 0,
            !.pending_target = 0, !.pending_stop = 0]

\* Variant: the booked balance does not raise the peak.
ReconciledLowPeak(s) ==
  LET delta    == balance - s.pending_entry_balance
      outcome  == Outcome(delta, s.pending_target, s.pending_stop)
      advanced == IF s.phase = "eval" THEN AdvanceEval(s) ELSE AdvanceFunded(s, outcome, delta)
      synced   == [advanced EXCEPT !.equity = balance]
  IN Cleared([synced EXCEPT !.phase = IF Trading(synced) /\ is_dead(synced)
                                      THEN "blown" ELSE @])

\* reconcile() of a trade that is no longer open.
Reconciled(s) ==
  LET delta    == balance - s.pending_entry_balance
      outcome  == Outcome(delta, s.pending_target, s.pending_stop)
      advanced == IF s.phase = "eval" THEN AdvanceEval(s) ELSE AdvanceFunded(s, outcome, delta)
      synced   == [advanced EXCEPT !.equity = balance, !.peak_equity_eod = Larger(@, balance)]
      judged   == [synced EXCEPT !.phase = IF Trading(synced) /\ is_dead(synced)
                                           THEN "blown" ELSE @]
  IN Cleared(judged)

\* _ratchet_peak_eod(): the last balance seen on an earlier day was its close.
Ratcheted(s) ==
  [s EXCEPT
     !.peak_equity_eod = IF Trading(s) /\ s.last_seen_day \notin {0, day}
                         THEN Larger(@, s.last_seen_balance) ELSE @,
     !.last_seen_day = day, !.last_seen_balance = balance]

\* _auto_mark_blown(): a pending trade is left to reconcile().
MarkBlown(s) ==
  [s EXCEPT !.phase = IF s.pending_label = NoLabel /\ below_mll(s) THEN "blown" ELSE @]

\* mark_payout_taken()
PaidOut(s) ==
  LET fresh == [s EXCEPT !.winning_days = 0, !.nuke_hit = FALSE, !.nuke_tries = 0,
                         !.payout_ready = FALSE]
  IN [fresh EXCEPT !.payouts_taken = @ + 1, !.pending_label = NoLabel,
                   !.phase = IF s.payouts_taken + 1 >= PayoutsTarget THEN "retired" ELSE @]

-----------------------------------------------------------------------------
(* TopHat.                                                                 *)

\* A dashboard snapshot: ratchet first, then judge against the current floor.
Snapshot ==
  /\ st' = MarkBlown(Ratcheted(st))
  /\ UNCHANGED <<day, firmVars, position, withdrawn, enabled, manuals>>

\* The account as a session pass has it when the fire loop comes to it.
Tradeable == ~firm_dead /\ enabled
\* Variant: only a tradeable account is reconciled.
InPassTradeableOnly ==
  LET s == Ratcheted(st)
  IN IF ~Tradeable THEN st
     ELSE IF s.pending_label # NoLabel /\ position = NoPosition THEN Reconciled(s) ELSE s

InPass ==
  LET s == IF Tradeable THEN Ratcheted(st) ELSE st
  IN IF s.pending_label # NoLabel /\ position = NoPosition THEN Reconciled(s) ELSE s

MayFire(s) ==
  /\ Tradeable /\ ~below_mll(s) /\ ~s.payout_ready
  /\ s.last_fire_date # day
  /\ Trades(s)

\* One attempt: refused by the hedge guard or the broker, or accepted.
Fire(s) ==
  \/ st' = [s EXCEPT !.last_fire_date = day] /\ UNCHANGED position
  \/ LET plan == Plan(s)
     IN /\ position = NoPosition
        /\ st' = Recorded(s, plan)
        /\ position' = [label |-> plan.label, target |-> plan.target, stop |-> plan.stop,
                        manual_stop |-> ~should_omit_stop(s, plan.stop)]

\* run_session(): ratchet, reconcile, floor check, fire if due.
Pass ==
  /\ \/ /\ MayFire(InPass)
        /\ Fire(InPass)
     \/ /\ st' = IF Tradeable THEN MarkBlown(InPass) ELSE InPass
        /\ UNCHANGED position
  /\ enabled' = (enabled /\ ~(st.pending_label # NoLabel /\ InPass.payout_ready))
  /\ UNCHANGED <<day, firmVars, withdrawn, manuals>>

\* The operator confirms the withdrawal: mark_payout().
MarkPayout ==
  /\ withdrawn /\ withdrawn' = FALSE
  /\ st' = PaidOut(st)
  /\ enabled' = (enabled \/ PaidOut(st).phase # "retired")
  /\ UNCHANGED <<day, firmVars, position, manuals>>

\* The fields the edit form posts, whatever the operator touched.
Posted(s, form) ==
  [s EXCEPT !.phase = form.phase, !.days_traded = form.days_traded,
            !.winning_days = form.winning_days, !.nuke_tries = form.nuke_tries,
            !.nuke_hit = form.nuke_hit, !.payout_ready = form.payout_ready,
            !.equity = form.equity, !.peak_equity_eod = form.peak_equity_eod]

\* sync_balance
Synced(s) == [s EXCEPT !.equity = balance, !.peak_equity_eod = Larger(@, balance)]

\* Variant: the payout is applied first, and the posted fields over it.
EditedPayoutFirst(form, sync, paid) ==
  LET counted == Posted(IF paid THEN PaidOut(form) ELSE form, form)
  IN IF sync THEN Synced(counted) ELSE counted

\* The posted fields, then the balance, then a raise of payouts_taken that is recorded.
Edited(form, sync, paid) ==
  LET posted == Posted(st, form)
      synced == IF sync THEN Synced(posted) ELSE posted
  IN IF paid THEN PaidOut(synced) ELSE synced

\* update_account_lifecycle(): a form that shows the record as it is, with the
\* enabling switch, a balance sync, and a withdrawal recorded by raising payouts_taken.
EditAccount ==
  /\ \E on, sync, paid \in BOOLEAN :
       /\ paid => withdrawn
       /\ st' = Edited(st, sync, paid)
       /\ enabled' = (on \/ (paid /\ Edited(st, sync, paid).phase # "retired"))
       /\ withdrawn' = (withdrawn /\ ~paid)
  /\ UNCHANGED <<day, firmVars, position, manuals>>

-----------------------------------------------------------------------------
(* The dashboard's row of the account (_build_snapshot).                   *)

NoTicket == [label |-> NoLabel, target |-> 0, stop |-> 0]

RowState     == MarkBlown(Ratcheted(st))
RowTerminal  == ~Trading(RowState)
RowParked    == RowState.payout_ready /\ ~RowTerminal
RowTradeable == ~firm_dead /\ ~below_mll(RowState)

\* Variant: a landed nuke still counts for the nuke slot.
SlotKindAfterHit ==
  LET competes == ~RowTerminal /\ ~RowParked /\ RowTradeable
  IN CASE competes /\ RowState.phase = "eval" -> "eval"
       [] competes /\ RowState.phase = "funded" /\ IsNukeCycle(RowState) -> "nuke"
       [] OTHER -> NoLabel

\* Does the account compete for one of the day's capped slots?
SlotKind ==
  LET competes == ~RowTerminal /\ ~RowParked /\ RowTradeable
  IN CASE competes /\ RowState.phase = "eval" -> "eval"
       [] competes /\ RowState.phase = "funded"
            /\ IsNukeCycle(RowState) /\ ~RowState.nuke_hit -> "nuke"
       [] OTHER -> NoLabel

\* plan_when_enabled(), given a slot and a drive: the bracket the row names with
\* a side and contracts, none for a status word.
PlanWhenEnabled ==
  IF RowTerminal \/ RowParked \/ ~RowTradeable \/ ~Trades(RowState)
  THEN NoTicket ELSE Plan(RowState)

\* Terminal, payout_ready and disabled come before the plan.
RowStatus ==
  CASE RowTerminal -> RowState.phase
    [] RowParked -> "payout_ready"
    [] ~RowTerminal /\ ~RowParked /\ ~enabled -> "disabled"
    [] OTHER -> "plan"
RowTicket == IF RowStatus = "plan" THEN PlanWhenEnabled ELSE NoTicket

-----------------------------------------------------------------------------
(* The firm and the market.                                                *)

\* The new balance, and whether it touches the limit.
Settle(b) == balance' = b /\ firm_dead' = (firm_dead \/ b <= FirmFloor)

TargetHit == \E f \in Fee : Settle(balance + position.target - f)
StopHit ==
  /\ position.manual_stop /\ balance - position.stop > FirmFloor
  /\ \E s \in Slip : Settle(balance - position.stop - s)
\* The limit is touched before the stop, or there is no stop.
Liquidated ==
  /\ ~position.manual_stop \/ balance - position.stop <= FirmFloor
  /\ \E s \in Slip : Settle(FirmFloor - s)
Flattened ==
  \E d \in FlatGain \cup {-x : x \in FlatLoss} :
     /\ -position.stop < d /\ d < position.target /\ balance + d > FirmFloor
     /\ Settle(balance + d)

CloseTrade ==
  /\ position # NoPosition /\ position' = NoPosition
  /\ TargetHit \/ StopHit \/ Liquidated \/ Flattened
  /\ firm_days' = firm_days + 1
  /\ UNCHANGED <<day, firm_peak, day_open, firm_wins, withdrawn, st, enabled, manuals>>

\* Somebody trades the account by hand.
TradeByHand ==
  /\ manuals < MaxManual /\ position = NoPosition /\ ~firm_dead
  /\ \E d \in ManualGain \cup {-x : x \in ManualLoss} : Settle(balance + d)
  /\ manuals' = manuals + 1
  /\ UNCHANGED <<day, firm_peak, day_open, firm_wins, firm_days, position, withdrawn, st, enabled>>

\* The close: everything is flat, the limit trails, the day counts or does not.
WinningToday == balance - day_open >= WinDayMin
EndOfDay ==
  /\ position = NoPosition /\ day < MaxDay
  /\ day' = day + 1 /\ day_open' = balance
  /\ firm_peak' = Larger(firm_peak, balance)
  /\ firm_wins' = firm_wins + (IF WinningToday THEN 1 ELSE 0)
  /\ UNCHANGED <<balance, firm_dead, firm_days, position, withdrawn, st, enabled, manuals>>

\* The operator asks for the payout TopHat shows as ready.  The firm grants it
\* for enough completed winning days and takes it out before the session.
Withdraw ==
  /\ st.payout_ready /\ ~withdrawn /\ ~firm_dead /\ firm_wins >= WinDays
  /\ position = NoPosition /\ balance = day_open /\ balance > 0
  /\ balance' = balance - Smaller(PayoutCap, balance \div 2) /\ day_open' = balance'
  /\ firm_wins' = 0 /\ withdrawn' = TRUE
  /\ UNCHANGED <<day, firm_peak, firm_dead, firm_days, position, st, enabled, manuals>>

-----------------------------------------------------------------------------

Init ==
  /\ day = 1 /\ balance = 0 /\ firm_peak = 0 /\ firm_dead = FALSE
  /\ day_open = 0 /\ firm_wins = 0 /\ firm_days = 0
  /\ position = NoPosition /\ withdrawn = FALSE /\ enabled \in BOOLEAN /\ manuals = 0
  /\ \E phase \in FirstPhase :   \* _init_state()
        st = [phase |-> phase, equity |-> 0, peak_equity_eod |-> 0, days_traded |-> 0,
              payouts_taken |-> 0, winning_days |-> 0, nuke_tries |-> 0, nuke_hit |-> FALSE,
              payout_ready |-> FALSE, last_fire_date |-> 0, last_seen_day |-> 0,
              last_seen_balance |-> 0, pending_label |-> NoLabel, pending_entry_balance |-> 0,
              pending_target |-> 0, pending_stop |-> 0]

Next ==
  \/ Snapshot \/ Pass \/ MarkPayout \/ EditAccount
  \/ CloseTrade \/ TradeByHand \/ EndOfDay \/ Withdraw

Spec == Init /\ [][Next]_vars

-----------------------------------------------------------------------------
(* Properties.  A trade placed by hand reaches TopHat only as a balance it *)
(* cannot explain; what holds without such trades says OwnTrades.          *)

OwnTrades == manuals = 0

\* No false blow: TopHat declares an account blown, which is final and frees
\* its slot, only when the firm has closed it (_auto_mark_blown, reconcile).
NoFalseBlow == st.phase = "blown" => firm_dead
OwnNoFalseBlow == OwnTrades => NoFalseBlow

\* decide() never refuses an account as dead that its live balance shows alive:
\* the equity it judges by is in step with the balance.
DecideSeesBalance ==
  Trading(st) /\ st.pending_label = NoLabel /\ is_dead(st) => below_mll(st)
OwnDecideSeesBalance == OwnTrades => DecideSeesBalance

\* An account TopHat takes for dead is dead: neither the pass, which judges by the
\* live balance, nor decide(), which judges by the recorded equity (engine.py:207),
\* gives up an account the firm has left open.
OwnDeathIsReal == OwnNoFalseBlow /\ OwnDecideSeesBalance

\* A stop leg fills before the firm's limit: the rebuilt floor is never below
\* the firm's when an order is sized (should_omit_stop), so an account near its
\* limit is left to a clean liquidation.
StopAboveLimit ==
  OwnTrades /\ position # NoPosition /\ position.manual_stop
    => balance - position.stop > FirmFloor

\* Every winning day TopHat counts towards a payout is one the firm counts, so
\* the operator is never told to ask for a payout the firm would refuse
\* (_advance_funded's bar on the net result).
WinsAreTheFirms ==
  OwnTrades /\ ~withdrawn
    => st.winning_days <= firm_wins + (IF WinningToday THEN 1 ELSE 0)

\* An eval retired as passed has the firm's profit and trading days.
PassIsEarned ==
  OwnTrades /\ st.phase = "passed" => balance >= PassProfit /\ firm_days >= MinDays

\* An account the firm closed is booked as blown by the very next pass, although
\* it is no longer tradeable then (the 2026-07-09 orphaned reconcile).
ClosedGetsBlown == OwnTrades /\ firm_dead => InPass.phase = "blown"

\* The operator's row (_build_snapshot) and the trading loop (run_session) judge
\* alike: a row that says terminal, payout_ready or disabled is never fired; with
\* no trade to book and none fired today the row names exactly the bracket a pass
\* would place; and a row counted against a cap has a bracket of that kind to use
\* the slot for.
RowIsPass ==
  /\ RowStatus # "plan" => ~MayFire(InPass)
  /\ st.pending_label = NoLabel /\ st.last_fire_date # day =>
       RowTicket = IF MayFire(InPass) THEN Plan(InPass) ELSE NoTicket
  /\ OwnTrades /\ st.pending_label = NoLabel =>
       /\ SlotKind = "eval" <=> PlanWhenEnabled.label = "eval"
       /\ SlotKind = "nuke" <=> PlanWhenEnabled.label \in {"nuke", "renuke"}

=============================================================================
