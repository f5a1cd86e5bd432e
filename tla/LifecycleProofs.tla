--------------------------- MODULE LifecycleProofs ---------------------------
(***************************************************************************)
(* Proofs about Lifecycle, for every bracket size, trailing drawdown, fee, *)
(* slippage and number of days: while TopHat alone trades the account, its *)
(* rebuilt floor is the firm's floor whenever it matters, its counters are *)
(* backed by the firm's, and it declares dead exactly what is dead; its    *)
(* dashboard row and its trading loop judge alike.                         *)
(*                                                                         *)
(* The invariant is stated of a record s in place of st, because a pass    *)
(* goes through several records (ratcheted, reconciled, fired) before it   *)
(* assigns st.                                                             *)
(***************************************************************************)
EXTENDS Lifecycle, TLAPS

Open        == position # NoPosition
Pending(s)  == s.pending_label # NoLabel
Unbooked(s) == Pending(s) /\ ~Open
Count(b)    == IF b THEN 1 ELSE 0

\* An open bracket is today's, its record says so, and nothing moved before it.
Tracked(s) ==
  /\ Open => Pending(s) /\ s.last_fire_date = day /\ balance = day_open /\ ~firm_dead
  /\ Pending(s) => Trading(s) /\ ~s.payout_ready
  /\ s.last_fire_date <= day
  /\ s.last_fire_date # day => balance = day_open
  /\ day_open <= firm_peak

\* TopHat's peak is never above the best end of day, today's balance included ...
PeakUpper(s) ==
  /\ s.peak_equity_eod <= Larger(firm_peak, balance)
  /\ s.last_seen_balance <= Larger(firm_peak, balance)

\* ... and never below it once the last trade is booked.
PeakLower(s) ==
  /\ firm_peak <= Larger(s.peak_equity_eod, balance)
  /\ s.last_seen_balance <= Larger(s.peak_equity_eod, balance)
  /\ ~Unbooked(s) => /\ balance <= s.peak_equity_eod
                     /\ s.last_seen_balance <= s.peak_equity_eod

\* The firm's limit decides who is dead, and a dead account waits for its booking.
DeadOrAlive(s) ==
  /\ firm_dead <=> balance <= FirmFloor
  /\ firm_dead => ~withdrawn /\ (s.phase = "blown" \/ Unbooked(s))
  /\ ~Pending(s) /\ Trading(s) => ~is_dead(s)
  /\ s.phase = "blown" => firm_dead

\* The days both sides count.
Counters(s) ==
  /\ withdrawn => s.payout_ready
  /\ s.phase \in {"eval", "passed"} => ~s.payout_ready
  /\ s.days_traded + Count(Unbooked(s)) <= firm_days
  /\ s.phase = "passed" => balance >= PassProfit /\ firm_days >= MinDays
  /\ Pending(s) /\ s.last_fire_date = day
       => s.pending_entry_balance = day_open /\ s.winning_days <= firm_wins
  /\ ~withdrawn
       => s.winning_days
            + Count(Unbooked(s) /\ balance - s.pending_entry_balance >= WinDayMin)
            <= firm_wins + Count(WinningToday)

Own(s) == Tracked(s) /\ PeakUpper(s) /\ PeakLower(s) /\ DeadOrAlive(s) /\ Counters(s)

IInv == TypeOK /\ (OwnTrades => Own(st) /\ StopAboveLimit)

-----------------------------------------------------------------------------
(* The records a pass goes through.                                        *)

\* The ratchet returns an account state.
LEMMA RatchetedType ==
  ASSUME TypeOK
  PROVE  Ratcheted(st) \in StateRec
<1> DEFINE p == IF Trading(st) /\ st.last_seen_day \notin {0, day}
                THEN Larger(st.peak_equity_eod, st.last_seen_balance) ELSE st.peak_equity_eod
<1>1. p \in Int /\ day \in Nat /\ balance \in Int /\ st \in StateRec
  BY LifecycleAssumption DEF TypeOK, StateRec, Larger
<1>2. Ratcheted(st) = [st EXCEPT !.peak_equity_eod = p, !.last_seen_day = day,
                                 !.last_seen_balance = balance]
  BY DEF Ratcheted
<1> HIDE DEF p
<1>3. QED
  BY <1>1, <1>2 DEF StateRec

\* So does marking it blown.
LEMMA MarkBlownType ==
  ASSUME NEW s \in StateRec
  PROVE  MarkBlown(s) \in StateRec
<1> DEFINE p == IF s.pending_label = NoLabel /\ below_mll(s) THEN "blown" ELSE s.phase
<1>1. p \in {"eval", "funded", "passed", "blown", "retired"}
  BY DEF StateRec
<1>2. MarkBlown(s) = [s EXCEPT !.phase = p]
  BY DEF MarkBlown
<1> HIDE DEF p
<1>3. QED
  BY <1>1, <1>2 DEF StateRec

\* So do the two settlements.
LEMMA AdvanceType ==
  ASSUME NEW s \in StateRec, NEW outcome, NEW delta \in Int, balance \in Int
  PROVE  AdvanceEval(s) \in StateRec /\ AdvanceFunded(s, outcome, delta) \in StateRec
<1> DEFINE nuke  == s.pending_label \in {"nuke", "renuke"}
           won   == outcome = "win"
           wins  == s.winning_days + (IF won /\ delta >= WinDayMin THEN 1 ELSE 0)
           tries == IF nuke THEN s.nuke_tries + 1 ELSE s.nuke_tries
           hit   == s.nuke_hit \/ (nuke /\ won)
           ready == s.payout_ready \/ wins >= WinDays
           days  == s.days_traded + 1
           phase == IF balance >= PassProfit /\ days >= MinDays THEN "passed" ELSE s.phase
<1>1. /\ wins \in Nat /\ tries \in Nat /\ days \in Nat
      /\ phase \in {"eval", "funded", "passed", "blown", "retired"}
  BY DEF StateRec
<1>2. hit \in BOOLEAN /\ ready \in BOOLEAN
  OBVIOUS
<1> DEFINE tried == [s EXCEPT !.days_traded = days, !.nuke_tries = tries, !.nuke_hit = hit]
<1> DEFINE counted == [s EXCEPT !.days_traded = days]
<1>3. AdvanceEval(s) = [counted EXCEPT !.phase = phase]
  BY DEF AdvanceEval, StateRec
<1>4. AdvanceFunded(s, outcome, delta) =
        [tried EXCEPT !.winning_days = wins, !.payout_ready = ready]
  BY DEF AdvanceFunded, StateRec
<1> HIDE DEF nuke, won, wins, tries, hit, ready, days, phase
<1>5. tried \in StateRec
  BY <1>1, <1>2 DEF StateRec
<1>6. counted \in StateRec
  BY <1>1 DEF StateRec
<1> HIDE DEF tried, counted
<1>7. AdvanceEval(s) \in StateRec
  BY <1>1, <1>3, <1>6 DEF StateRec
<1>8. AdvanceFunded(s, outcome, delta) \in StateRec
  BY <1>1, <1>2, <1>4, <1>5 DEF StateRec
<1>9. QED
  BY <1>7, <1>8

\* A cleared pending outcome changes nothing else.
LEMMA ClearedType ==
  ASSUME NEW s \in StateRec
  PROVE  /\ Cleared(s) \in StateRec
         /\ Cleared(s).pending_label = NoLabel
         /\ Cleared(s).phase = s.phase /\ Cleared(s).equity = s.equity
         /\ Cleared(s).peak_equity_eod = s.peak_equity_eod
         /\ Cleared(s).last_seen_balance = s.last_seen_balance
         /\ Cleared(s).last_fire_date = s.last_fire_date
         /\ Cleared(s).days_traded = s.days_traded
         /\ Cleared(s).winning_days = s.winning_days
         /\ Cleared(s).payout_ready = s.payout_ready
<1> DEFINE zero == 0
<1>1. Cleared(s) \in StateRec
  <2>1. zero \in Int /\ zero \in Nat /\ NoLabel \in Label \cup {NoLabel}
    OBVIOUS
  <2>2. Cleared(s) = [s EXCEPT !.pending_label = NoLabel, !.pending_entry_balance = zero,
                               !.pending_target = zero, !.pending_stop = zero]
    BY DEF Cleared
  <2> HIDE DEF zero
  <2>3. QED
    BY <2>1, <2>2 DEF StateRec
<1>2. QED
  BY <1>1 DEF Cleared, StateRec

\* What reconcile() leaves in the record.
LEMMA ReconciledFacts ==
  ASSUME NEW s \in StateRec, balance \in Int
  PROVE  LET c == Reconciled(s)
             d == balance - s.pending_entry_balance
         IN /\ c \in StateRec
            /\ c.pending_label = NoLabel /\ c.equity = balance
            /\ c.peak_equity_eod = Larger(s.peak_equity_eod, balance)
            /\ c.last_seen_balance = s.last_seen_balance
            /\ c.last_fire_date = s.last_fire_date
            /\ c.days_traded = s.days_traded + 1
            /\ c.winning_days <= s.winning_days + Count(d >= WinDayMin)
            /\ s.phase = "eval" => c.payout_ready = s.payout_ready
            /\ c.phase = s.phase \/ c.phase = "blown" \/ c.phase = "passed"
            /\ c.phase = "passed" /\ s.phase # "passed"
                 => /\ s.phase = "eval" /\ balance >= PassProfit
                    /\ s.days_traded + 1 >= MinDays
            /\ c.phase = "blown" /\ s.phase # "blown"
                 => balance <= TrailingFloor(c.peak_equity_eod)
            /\ Trading(c) => ~is_dead(c)
            /\ Trading(s) /\ balance <= TrailingFloor(c.peak_equity_eod)
                 => c.phase = "blown"
<1> DEFINE c == Reconciled(s)
           d == balance - s.pending_entry_balance
           outcome == Outcome(d, s.pending_target, s.pending_stop)
           a == IF s.phase = "eval" THEN AdvanceEval(s) ELSE AdvanceFunded(s, outcome, d)
           y == [a EXCEPT !.equity = balance, !.peak_equity_eod = Larger(@, balance)]
<1>1. d \in Int
  BY DEF StateRec
<1>2. a \in StateRec
  BY <1>1, AdvanceType
<1>3. /\ a.peak_equity_eod = s.peak_equity_eod
      /\ a.last_seen_balance = s.last_seen_balance
      /\ a.last_fire_date = s.last_fire_date
      /\ a.days_traded = s.days_traded + 1
      /\ a.winning_days <= s.winning_days + Count(d >= WinDayMin)
      /\ s.phase = "eval" => a.payout_ready = s.payout_ready
      /\ a.phase = s.phase \/ (a.phase = "passed" /\ s.phase = "eval")
      /\ a.phase = "passed" /\ s.phase # "passed"
           => balance >= PassProfit /\ s.days_traded + 1 >= MinDays
  <2>1. CASE s.phase = "eval"
    BY <2>1, LifecycleAssumption DEF AdvanceEval, StateRec, Count
  <2>2. CASE s.phase # "eval"
    BY <2>2, LifecycleAssumption DEF AdvanceFunded, StateRec, Count
  <2>3. QED
    BY <2>1, <2>2
<1> HIDE DEF a
<1>4. /\ y \in StateRec /\ y.equity = balance
      /\ y.peak_equity_eod = Larger(s.peak_equity_eod, balance)
      /\ y.last_seen_balance = a.last_seen_balance
      /\ y.last_fire_date = a.last_fire_date
      /\ y.days_traded = a.days_traded /\ y.winning_days = a.winning_days
      /\ y.payout_ready = a.payout_ready /\ y.phase = a.phase
  BY <1>2, <1>3 DEF StateRec, Larger
<1> DEFINE p == IF Trading(y) /\ is_dead(y) THEN "blown" ELSE y.phase
           j == [y EXCEPT !.phase = p]
<1>5. c = Cleared(j)
  BY DEF Reconciled, a
<1>11. p \in {"eval", "funded", "passed", "blown", "retired"}
  BY <1>4 DEF StateRec
<1> HIDE DEF y, c, p
<1>12. /\ j \in StateRec /\ j.equity = y.equity /\ j.peak_equity_eod = y.peak_equity_eod
       /\ j.last_seen_balance = y.last_seen_balance /\ j.last_fire_date = y.last_fire_date
       /\ j.days_traded = y.days_traded /\ j.winning_days = y.winning_days
       /\ j.payout_ready = y.payout_ready /\ j.phase = p
  BY <1>4, <1>11 DEF StateRec
<1> HIDE DEF j
<1>6. /\ c \in StateRec /\ c.pending_label = NoLabel /\ c.equity = y.equity
      /\ c.peak_equity_eod = y.peak_equity_eod
      /\ c.last_seen_balance = y.last_seen_balance
      /\ c.last_fire_date = y.last_fire_date
      /\ c.days_traded = y.days_traded /\ c.winning_days = y.winning_days
      /\ c.payout_ready = y.payout_ready
      /\ c.phase = p
  BY <1>5, <1>12, ClearedType
<1>7. /\ is_dead(y) <=> balance <= TrailingFloor(c.peak_equity_eod)
      /\ is_dead(c) <=> balance <= TrailingFloor(c.peak_equity_eod)
  BY <1>4, <1>6 DEF is_dead, eod_floor
<1>8. balance <= TrailingFloor(c.peak_equity_eod) => balance < PassProfit
  BY <1>6, LifecycleAssumption DEF TrailingFloor, Smaller, StateRec
<1>9. /\ Trading(c) => ~is_dead(c)
      /\ Trading(s) /\ balance <= TrailingFloor(c.peak_equity_eod) => c.phase = "blown"
      /\ c.phase = "blown" /\ s.phase # "blown" => balance <= TrailingFloor(c.peak_equity_eod)
      /\ c.phase = s.phase \/ c.phase = "blown" \/ c.phase = "passed"
      /\ c.phase = "passed" /\ s.phase # "passed"
           => /\ s.phase = "eval" /\ balance >= PassProfit
              /\ s.days_traded + 1 >= MinDays
  BY <1>3, <1>4, <1>6, <1>7, <1>8, LifecycleAssumption DEF Trading, StateRec, p
<1>10. QED
  BY <1>3, <1>4, <1>6, <1>9 DEF c

\* What a pass works on is an account state.
LEMMA InPassType ==
  ASSUME TypeOK
  PROVE  InPass \in StateRec
BY RatchetedType, ReconciledFacts DEF InPass, TypeOK

\* The order of floors is the order of peaks.
LEMMA FloorMonotone ==
  ASSUME NEW p \in Int, NEW q \in Int
  PROVE  /\ TrailingFloor(p) \in Int
         /\ p <= q => TrailingFloor(p) <= TrailingFloor(q)
         /\ TrailingFloor(p) <= 0 /\ TrailingFloor(p) < p
BY LifecycleAssumption DEF TrailingFloor, Smaller

\* The ratchet keeps what the account's state owes itself.
LEMMA RatchetedOwn ==
  ASSUME TypeOK, Own(st)
  PROVE  Own(Ratcheted(st)) /\ Ratcheted(st).pending_label = st.pending_label
<1> DEFINE r == Ratcheted(st)
<1>1. /\ r \in StateRec /\ st \in StateRec /\ balance \in Int /\ firm_peak \in Int
      /\ day_open \in Int /\ firm_wins \in Nat /\ firm_days \in Nat
  BY RatchetedType DEF TypeOK
<1>2. /\ r.phase = st.phase /\ r.equity = st.equity /\ r.days_traded = st.days_traded
      /\ r.winning_days = st.winning_days /\ r.payout_ready = st.payout_ready
      /\ r.last_fire_date = st.last_fire_date /\ r.pending_label = st.pending_label
      /\ r.pending_entry_balance = st.pending_entry_balance
      /\ r.last_seen_balance = balance
      /\ st.peak_equity_eod <= r.peak_equity_eod
      /\ r.peak_equity_eod = st.peak_equity_eod \/ r.peak_equity_eod = st.last_seen_balance
  BY <1>1 DEF Ratcheted, StateRec, Larger
<1> HIDE DEF r
<1>3. Tracked(r)
  BY <1>2 DEF Own, Tracked, Pending, Trading
<1>4. PeakUpper(r)
  BY <1>1, <1>2 DEF Own, PeakUpper, Larger, StateRec
<1>5. PeakLower(r) /\ (~Unbooked(st) => r.peak_equity_eod = st.peak_equity_eod)
  BY <1>1, <1>2 DEF Own, PeakLower, Larger, StateRec, Unbooked, Pending
<1>6. DeadOrAlive(r)
  BY <1>1, <1>2, <1>5 DEF Own, DeadOrAlive, Unbooked, Pending, Trading, is_dead, eod_floor
<1>7. Counters(r)
  BY <1>2 DEF Own, Counters, Unbooked, Pending
<1>8. QED
  BY <1>2, <1>3, <1>4, <1>5, <1>6, <1>7 DEF Own, r

\* Booking the trade settles what was open between the two sides.
LEMMA ReconciledOwn ==
  ASSUME TypeOK, NEW s \in StateRec, Own(s), Unbooked(s)
  PROVE  Own(Reconciled(s)) /\ ~Pending(Reconciled(s))
<1> DEFINE c == Reconciled(s)
<1>1. /\ balance \in Int /\ firm_peak \in Int /\ day_open \in Int
      /\ firm_wins \in Nat /\ firm_days \in Nat
  BY DEF TypeOK
<1>2. /\ c \in StateRec /\ c.pending_label = NoLabel /\ c.equity = balance
      /\ c.peak_equity_eod = Larger(s.peak_equity_eod, balance)
      /\ c.last_seen_balance = s.last_seen_balance /\ c.last_fire_date = s.last_fire_date
      /\ c.days_traded = s.days_traded + 1
      /\ c.winning_days <= s.winning_days
                             + Count(balance - s.pending_entry_balance >= WinDayMin)
      /\ s.phase = "eval" => c.payout_ready = s.payout_ready
      /\ c.phase = s.phase \/ c.phase = "blown" \/ c.phase = "passed"
      /\ c.phase = "passed" /\ s.phase # "passed"
           => s.phase = "eval" /\ balance >= PassProfit /\ s.days_traded + 1 >= MinDays
      /\ c.phase = "blown" /\ s.phase # "blown" => balance <= TrailingFloor(c.peak_equity_eod)
      /\ Trading(c) => ~is_dead(c)
      /\ Trading(s) /\ balance <= TrailingFloor(c.peak_equity_eod) => c.phase = "blown"
  BY <1>1, ReconciledFacts
<1> HIDE DEF c
<1>3. Trading(s) /\ ~s.payout_ready /\ ~Open
  BY DEF Own, Tracked, Unbooked
<1>4. ~Pending(c) /\ ~Unbooked(c)
  BY <1>2 DEF Pending, Unbooked
<1>5. Tracked(c)
  BY <1>2, <1>3, <1>4 DEF Own, Tracked
<1>6. PeakUpper(c) /\ PeakLower(c)
  BY <1>1, <1>2 DEF Own, PeakUpper, PeakLower, Larger, StateRec
<1>7. DeadOrAlive(c)
  <2>1. firm_peak <= c.peak_equity_eod /\ c.peak_equity_eod <= Larger(firm_peak, balance)
    BY <1>4, <1>6, <1>1, <1>2 DEF PeakUpper, PeakLower, Larger, StateRec
  <2>2. firm_dead <=> balance <= FirmFloor
    BY DEF Own, DeadOrAlive
  <2>3. FirmFloor <= TrailingFloor(c.peak_equity_eod)
    BY <2>1, <1>1, <1>2, FloorMonotone DEF FirmFloor, StateRec
  <2>4. balance <= TrailingFloor(c.peak_equity_eod) => balance <= FirmFloor
    BY <2>1, <1>1, <1>2, LifecycleAssumption
    DEF FirmFloor, StateRec, TrailingFloor, Smaller, Larger
  <2>5. c.phase = "blown" => firm_dead
    BY <2>2, <2>4, <1>2, <1>3 DEF Trading
  <2>6. firm_dead => c.phase = "blown" /\ ~withdrawn
    <3>1. firm_dead => balance <= TrailingFloor(c.peak_equity_eod)
      BY <2>2, <2>3, <1>1, <1>2, FloorMonotone DEF FirmFloor, StateRec
    <3>2. QED
      BY <3>1, <1>2, <1>3 DEF Own, DeadOrAlive
  <2>7. QED
    BY <2>2, <2>5, <2>6, <1>2 DEF DeadOrAlive
<1>8. Counters(c)
  <2>1. ~withdrawn
    BY <1>3 DEF Own, Counters
  <2>2. c.phase \in {"eval", "passed"} => s.phase = "eval"
    BY <1>2, <1>3 DEF Trading
  <2>3. c.days_traded + Count(Unbooked(c)) <= firm_days
    BY <1>1, <1>2, <1>4 DEF Own, Counters, Count, StateRec
  <2>4. c.phase = "passed" => balance >= PassProfit /\ firm_days >= MinDays
    BY <1>1, <1>2, <1>3, <2>3, <1>4, LifecycleAssumption DEF Trading, Count, StateRec
  <2>5. c.winning_days <= firm_wins + Count(WinningToday)
    BY <1>1, <1>2, <2>1 DEF Own, Counters, Count, StateRec
  <2>6. QED
    BY <2>1, <2>2, <2>3, <2>4, <2>5, <1>1, <1>2, <1>3, <1>4 DEF Counters, Count, StateRec
<1>9. QED
  BY <1>4, <1>5, <1>6, <1>7, <1>8 DEF Own, c

\* A blown account owes itself no more.
LEMMA MarkBlownOwn ==
  ASSUME TypeOK, NEW s \in StateRec, Own(s)
  PROVE  Own(MarkBlown(s))
<1>1. CASE s.pending_label = NoLabel /\ below_mll(s)
  <2> DEFINE m == MarkBlown(s)
  <2>1. /\ balance \in Int /\ firm_peak \in Int /\ m \in StateRec
    BY MarkBlownType DEF TypeOK
  <2>2. /\ m.phase = "blown" /\ m.equity = s.equity /\ m.pending_label = s.pending_label
        /\ m.peak_equity_eod = s.peak_equity_eod /\ m.days_traded = s.days_traded
        /\ m.winning_days = s.winning_days /\ m.payout_ready = s.payout_ready
        /\ m.last_fire_date = s.last_fire_date /\ m.last_seen_balance = s.last_seen_balance
        /\ m.pending_entry_balance = s.pending_entry_balance
    BY <1>1 DEF MarkBlown, StateRec
  <2> HIDE DEF m
  <2>3. firm_dead
    BY <1>1, <2>1, LifecycleAssumption
    DEF Own, DeadOrAlive, PeakUpper, below_mll, eod_floor, FirmFloor, TrailingFloor, Smaller,
        Larger, StateRec
  <2>4. Tracked(m) /\ PeakUpper(m) /\ PeakLower(m)
    BY <1>1, <2>2 DEF Own, Tracked, PeakUpper, PeakLower, Unbooked, Pending
  <2>5. DeadOrAlive(m) /\ Counters(m)
    BY <1>1, <2>2, <2>3 DEF Own, DeadOrAlive, Counters, Unbooked, Pending, Trading
  <2>6. QED
    BY <2>4, <2>5 DEF Own, m
<1>2. CASE ~(s.pending_label = NoLabel /\ below_mll(s))
  <2>1. MarkBlown(s) = s
    BY <1>2 DEF MarkBlown, StateRec
  <2>2. QED
    BY <2>1
<1>3. QED
  BY <1>1, <1>2

\* When the fire loop comes to the account, every closed trade is booked.
LEMMA InPassOwn ==
  ASSUME TypeOK, Own(st)
  PROVE  InPass \in StateRec /\ Own(InPass) /\ ~Unbooked(InPass)
<1> DEFINE s == IF Tradeable THEN Ratcheted(st) ELSE st
<1>1. s \in StateRec /\ Own(s) /\ s.pending_label = st.pending_label
  BY RatchetedType, RatchetedOwn DEF TypeOK
<1> HIDE DEF s
<1>2. CASE Unbooked(s)
  <2>1. InPass = Reconciled(s)
    BY <1>2 DEF InPass, s, Unbooked, Pending, Open
  <2>2. QED
    BY <1>1, <1>2, <2>1, ReconciledOwn, InPassType DEF Unbooked
<1>3. CASE ~Unbooked(s)
  <2>1. InPass = s
    BY <1>3 DEF InPass, s, Unbooked, Pending, Open
  <2>2. QED
    BY <1>1, <1>3, <2>1
<1>4. QED
  BY <1>2, <1>3

-----------------------------------------------------------------------------
(* Type correctness.                                                       *)

\* A plan is a label and two distances.
LEMMA PlanType ==
  ASSUME NEW s \in StateRec
  PROVE  /\ Plan(s).label \in Label /\ Plan(s).target \in Nat /\ Plan(s).stop \in Nat
BY LifecycleAssumption DEF Plan, Label, StateRec

\* What recording a fire changes.
LEMMA RecordedType ==
  ASSUME NEW s \in StateRec, balance \in Int, day \in Nat
  PROVE  LET r == Recorded(s, Plan(s))
         IN /\ r \in StateRec /\ r.pending_label = Plan(s).label
            /\ r.pending_entry_balance = balance /\ r.last_fire_date = day
            /\ r.phase = s.phase /\ r.equity = s.equity /\ r.days_traded = s.days_traded
            /\ r.peak_equity_eod = s.peak_equity_eod /\ r.winning_days = s.winning_days
            /\ r.payout_ready = s.payout_ready /\ r.last_seen_balance = s.last_seen_balance
<1> DEFINE label == Plan(s).label
           target == Plan(s).target
           stop == Plan(s).stop
<1>1. label \in Label /\ target \in Nat /\ stop \in Nat
  BY PlanType
<1>2. Recorded(s, Plan(s)) =
        [s EXCEPT !.pending_label = label, !.pending_entry_balance = balance,
                  !.pending_target = target, !.pending_stop = stop, !.last_fire_date = day]
  BY DEF Recorded
<1> HIDE DEF label, target, stop
<1> DEFINE opened == [s EXCEPT !.pending_label = label, !.pending_entry_balance = balance]
           sized  == [opened EXCEPT !.pending_target = target, !.pending_stop = stop]
<1>3. opened \in StateRec
  BY <1>1 DEF StateRec
<1>4. Recorded(s, Plan(s)) = [sized EXCEPT !.last_fire_date = day]
  BY <1>2 DEF StateRec
<1>5. /\ opened.pending_label = label /\ opened.pending_entry_balance = balance
      /\ opened.phase = s.phase /\ opened.equity = s.equity
      /\ opened.days_traded = s.days_traded /\ opened.peak_equity_eod = s.peak_equity_eod
      /\ opened.winning_days = s.winning_days /\ opened.payout_ready = s.payout_ready
      /\ opened.last_seen_balance = s.last_seen_balance
  BY DEF StateRec
<1> HIDE DEF opened
<1>6. sized \in StateRec
  BY <1>1, <1>3 DEF StateRec
<1>7. [sized EXCEPT !.last_fire_date = day] \in StateRec
  BY <1>6 DEF StateRec
<1>8. QED
  BY <1>3, <1>4, <1>5, <1>7 DEF StateRec, label

\* What a payout changes.
LEMMA PaidOutType ==
  ASSUME NEW s \in StateRec
  PROVE  LET r == PaidOut(s)
         IN /\ r \in StateRec /\ r.winning_days = 0 /\ ~r.payout_ready
            /\ r.pending_label = NoLabel
            /\ r.phase = s.phase \/ r.phase = "retired"
            /\ r.equity = s.equity /\ r.days_traded = s.days_traded
            /\ r.peak_equity_eod = s.peak_equity_eod /\ r.last_fire_date = s.last_fire_date
            /\ r.last_seen_balance = s.last_seen_balance
            /\ r.pending_entry_balance = s.pending_entry_balance
<1> DEFINE zero == 0
           paid == s.payouts_taken + 1
           phase == IF paid >= PayoutsTarget THEN "retired" ELSE s.phase
           no == FALSE
<1>1. /\ zero \in Nat /\ paid \in Nat /\ no \in BOOLEAN /\ ~no /\ zero = 0
      /\ phase \in {"eval", "funded", "passed", "blown", "retired"}
      /\ phase = s.phase \/ phase = "retired"
  BY DEF StateRec
<1> DEFINE fresh == [s EXCEPT !.winning_days = zero, !.nuke_hit = no, !.nuke_tries = zero,
                              !.payout_ready = no]
<1>2. PaidOut(s) = [fresh EXCEPT !.payouts_taken = paid, !.pending_label = NoLabel,
                                 !.phase = phase]
  BY DEF PaidOut, StateRec
<1> HIDE DEF zero, paid, phase, no
<1>3. /\ fresh \in StateRec /\ fresh.winning_days = 0 /\ ~fresh.payout_ready
      /\ fresh.equity = s.equity /\ fresh.days_traded = s.days_traded
      /\ fresh.peak_equity_eod = s.peak_equity_eod
      /\ fresh.last_fire_date = s.last_fire_date
      /\ fresh.last_seen_balance = s.last_seen_balance
      /\ fresh.pending_entry_balance = s.pending_entry_balance
  BY <1>1 DEF StateRec
<1> HIDE DEF fresh
<1>4. QED
  BY <1>1, <1>2, <1>3 DEF StateRec

\* The two ways an attempt ends.
LEMMA PostedSame ==
  ASSUME NEW s \in StateRec
  PROVE  Posted(s, s) = s
BY DEF Posted, StateRec

\* What a synced balance changes.
LEMMA SyncedFacts ==
  ASSUME NEW s \in StateRec, balance \in Int
  PROVE  LET r == Synced(s)
         IN /\ r \in StateRec /\ r.equity = balance
            /\ r.peak_equity_eod = Larger(s.peak_equity_eod, balance)
            /\ r.pending_label = s.pending_label /\ r.phase = s.phase
            /\ r.winning_days = s.winning_days /\ r.days_traded = s.days_traded
            /\ r.payout_ready = s.payout_ready /\ r.last_fire_date = s.last_fire_date
            /\ r.last_seen_balance = s.last_seen_balance
            /\ r.pending_entry_balance = s.pending_entry_balance
<1> DEFINE p == Larger(s.peak_equity_eod, balance)
<1>1. p \in Int
  BY DEF StateRec, Larger
<1>2. Synced(s) = [s EXCEPT !.equity = balance, !.peak_equity_eod = p]
  BY DEF Synced
<1> HIDE DEF p
<1>3. QED
  BY <1>1, <1>2 DEF StateRec, p

\* The form is saved on the record it shows: what is left of it.
LEMMA EditedIs ==
  ASSUME st \in StateRec, NEW sync \in BOOLEAN, NEW paid \in BOOLEAN
  PROVE  LET s == IF sync THEN Synced(st) ELSE st
         IN Edited(st, sync, paid) = IF paid THEN PaidOut(s) ELSE s
BY PostedSame DEF Edited

\* A fire stamps the day, or also opens a bracket whose own stop is above the floor.
LEMMA FireFacts ==
  ASSUME TypeOK, NEW s \in StateRec, Fire(s)
  PROVE  \/ /\ st' = [s EXCEPT !.last_fire_date = day] /\ st' \in StateRec
            /\ UNCHANGED position
         \/ /\ position = NoPosition /\ position' \in Brackets
            /\ position'.label \in Label /\ position'.stop \in Nat
            /\ position'.manual_stop => balance - eod_floor(s) > position'.stop
            /\ st' = Recorded(s, Plan(s)) /\ st' \in StateRec
<1>1. balance \in Int /\ day \in Nat
  BY LifecycleAssumption DEF TypeOK
<1>2. CASE st' = [s EXCEPT !.last_fire_date = day] /\ UNCHANGED position
  BY <1>1, <1>2 DEF StateRec
<1>3. CASE /\ position = NoPosition
           /\ st' = Recorded(s, Plan(s))
           /\ position' = [label |-> Plan(s).label, target |-> Plan(s).target,
                           stop |-> Plan(s).stop,
                           manual_stop |-> ~should_omit_stop(s, Plan(s).stop)]
  <2> DEFINE leg == ~should_omit_stop(s, Plan(s).stop)
  <2>1. leg \in BOOLEAN
    OBVIOUS
  <2>2. leg => balance - eod_floor(s) > Plan(s).stop
    BY <1>1, PlanType, FloorMonotone DEF should_omit_stop, eod_floor, StateRec
  <2> HIDE DEF leg
  <2>3. position' = [label |-> Plan(s).label, target |-> Plan(s).target,
                     stop |-> Plan(s).stop, manual_stop |-> leg]
    BY <1>3 DEF leg
  <2>4. /\ position' \in Brackets /\ position'.label \in Label /\ position'.stop \in Nat
        /\ position'.stop = Plan(s).stop /\ position'.manual_stop = leg
    BY <2>1, <2>3, PlanType DEF Brackets
  <2>5. st' \in StateRec
    BY <1>1, <1>3, RecordedType
  <2>6. QED
    BY <1>3, <2>2, <2>4, <2>5
<1>4. QED
  BY <1>2, <1>3 DEF Fire

\* The balance after a settlement, and the firm's verdict on it.
LEMMA SettleFacts ==
  ASSUME TypeOK, NEW b \in Int, Settle(b)
  PROVE  /\ balance' \in Int /\ balance' = b /\ firm_dead' \in BOOLEAN
         /\ firm_dead' <=> firm_dead \/ balance' <= FirmFloor
<1> DEFINE touched == b <= FirmFloor
<1>1. balance' = b /\ firm_dead' = (firm_dead \/ touched)
  BY DEF Settle
<1> HIDE DEF touched
<1>2. firm_dead' \in BOOLEAN /\ (firm_dead' <=> firm_dead \/ touched)
  BY <1>1, Zenon DEF TypeOK
<1>3. QED
  BY <1>1, <1>2 DEF touched

\* A closed trade settles the balance and leaves no position.
LEMMA CloseTradeFacts ==
  ASSUME TypeOK, CloseTrade
  PROVE  /\ balance' \in Int /\ firm_dead' \in BOOLEAN
         /\ firm_dead' <=> firm_dead \/ balance' <= FirmFloor
         /\ Open /\ position' = NoPosition
<1>1. balance \in Int /\ position \in Brackets /\ FirmFloor \in Int
  BY FloorMonotone DEF TypeOK, FirmFloor
<1>2. position.target \in Nat /\ position.stop \in Nat
  BY <1>1 DEF Brackets
<1>3. \E b \in Int : Settle(b)
  <2>1. CASE TargetHit
    BY <1>1, <1>2, <2>1, LifecycleAssumption DEF TargetHit
  <2>2. CASE StopHit
    BY <1>1, <1>2, <2>2, LifecycleAssumption DEF StopHit
  <2>3. CASE Liquidated
    BY <1>1, <1>2, <2>3, LifecycleAssumption DEF Liquidated
  <2>4. CASE Flattened
    <3>1. PICK d \in FlatGain \cup {-x : x \in FlatLoss} : Settle(balance + d)
      BY <2>4 DEF Flattened
    <3>2. balance + d \in Int
      BY <1>1, LifecycleAssumption
    <3>3. QED
      BY <3>1, <3>2
  <2>5. QED
    BY <2>1, <2>2, <2>3, <2>4 DEF CloseTrade
<1>4. QED
  BY <1>3, SettleFacts DEF CloseTrade, Open

\* Every step keeps the types.
LEMMA TypeStep ==
  ASSUME TypeOK, [Next]_vars
  PROVE  TypeOK'
<1> USE DEF firmVars
<1>1. CASE Snapshot
  <2>1. st' \in StateRec
    <3> DEFINE r == Ratcheted(st)
    <3>1. r \in StateRec /\ st' = MarkBlown(r)
      BY <1>1, RatchetedType DEF Snapshot
    <3> HIDE DEF r
    <3>2. QED
      BY <3>1, MarkBlownType
  <2>2. QED
    BY <1>1, <2>1 DEF Snapshot, TypeOK
<1>2. CASE Pass
  <2>1. InPass \in StateRec /\ InPass.payout_ready \in BOOLEAN
    BY InPassType DEF StateRec
  <2>2. enabled' \in BOOLEAN
    BY <1>2 DEF Pass, TypeOK
  <2>3. CASE Fire(InPass)
    <3>1. st' \in StateRec /\ position' \in Brackets
      BY <2>1, <2>3, FireFacts DEF TypeOK
    <3>2. QED
      BY <1>2, <2>2, <3>1 DEF Pass, TypeOK
  <2>4. CASE st' = (IF Tradeable THEN MarkBlown(InPass) ELSE InPass) /\ UNCHANGED position
    <3>1. st' \in StateRec
      BY <2>1, <2>4, MarkBlownType
    <3>2. QED
      BY <1>2, <2>2, <2>4, <3>1 DEF Pass, TypeOK
  <2>5. QED
    BY <1>2, <2>3, <2>4 DEF Pass
<1>3. CASE MarkPayout
  <2>1. st' \in StateRec /\ enabled' \in BOOLEAN
    BY <1>3, PaidOutType DEF MarkPayout, TypeOK
  <2>2. QED
    BY <1>3, <2>1 DEF MarkPayout, TypeOK
<1>4. CASE CloseTrade
  <2>1. NoPosition \in Brackets
    BY DEF NoPosition, Brackets
  <2>2. QED
    BY <1>4, <2>1, CloseTradeFacts DEF CloseTrade, TypeOK
<1>5. CASE TradeByHand
  <2>1. PICK d \in ManualGain \cup {-x : x \in ManualLoss} : Settle(balance + d)
    BY <1>5 DEF TradeByHand
  <2>2. balance + d \in Int
    BY LifecycleAssumption DEF TypeOK
  <2>3. balance' \in Int /\ firm_dead' \in BOOLEAN
    BY <2>1, <2>2, SettleFacts
  <2>4. QED
    BY <1>5, <2>3, LifecycleAssumption DEF TradeByHand, TypeOK
<1>6. CASE EndOfDay
  BY <1>6, LifecycleAssumption DEF EndOfDay, TypeOK, Larger
<1>7. CASE Withdraw
  <2>1. balance' \in Int
    BY <1>7, LifecycleAssumption DEF Withdraw, TypeOK, Smaller
  <2>2. QED
    BY <1>7, <2>1 DEF Withdraw, TypeOK
<1>8. CASE EditAccount
  <2>1. PICK on \in BOOLEAN, sync \in BOOLEAN, paid \in BOOLEAN :
           /\ st' = Edited(st, sync, paid)
           /\ enabled' = (on \/ (paid /\ Edited(st, sync, paid).phase # "retired"))
           /\ withdrawn' = (withdrawn /\ ~paid)
    BY <1>8 DEF EditAccount
  <2> DEFINE s == IF sync THEN Synced(st) ELSE st
  <2>2. st \in StateRec /\ balance \in Int
    BY DEF TypeOK
  <2>3. s \in StateRec
    BY <2>2, SyncedFacts
  <2>4. st' = IF paid THEN PaidOut(s) ELSE s
    BY <2>1, <2>2, EditedIs
  <2> HIDE DEF s
  <2>5. st' \in StateRec
    BY <2>3, <2>4, PaidOutType
  <2>6. enabled' \in BOOLEAN /\ withdrawn' \in BOOLEAN
    BY <2>1 DEF TypeOK
  <2>7. QED
    BY <1>8, <2>5, <2>6 DEF EditAccount, TypeOK
<1>9. CASE UNCHANGED vars
  BY <1>9 DEF vars, TypeOK
<1>10. QED
  BY <1>1, <1>2, <1>3, <1>4, <1>5, <1>6, <1>7, <1>8, <1>9 DEF Next

\* The first state is typed.
LEMMA InitType ==
  ASSUME Init
  PROVE  TypeOK
<1>1. st \in StateRec
  BY LifecycleAssumption DEF Init, StateRec
<1>2. position \in Brackets
  BY DEF Init, NoPosition, Brackets
<1>3. day \in 1..MaxDay /\ manuals \in 0..MaxManual
  BY LifecycleAssumption DEF Init
<1>4. /\ balance \in Int /\ firm_peak \in Int /\ day_open \in Int
      /\ firm_wins \in Nat /\ firm_days \in Nat
  BY DEF Init
<1>5. firm_dead \in BOOLEAN /\ withdrawn \in BOOLEAN /\ enabled \in BOOLEAN
  BY DEF Init
<1>6. QED
  BY <1>1, <1>2, <1>3, <1>4, <1>5 DEF TypeOK

\* TypeOK: every reachable state is well typed.
THEOREM TypeCorrect == Spec => []TypeOK
<1>1. Init => TypeOK
  BY InitType
<1>2. TypeOK /\ [Next]_vars => TypeOK'
  BY TypeStep
<1>3. QED
  BY <1>1, <1>2, PTL DEF Spec

-----------------------------------------------------------------------------
(* The invariant.                                                          *)

\* A step that leaves the firm alone carries over what holds of the new record.
LEMMA SameWorld ==
  ASSUME NEW s, Own(s), st' = s, UNCHANGED <<day, firmVars, position, withdrawn>>
  PROVE  Own(st)'
<1> USE DEF firmVars, Pending, Unbooked, Open, Trading
<1>1. Tracked(st)'
  BY DEF Own, Tracked
<1>2. PeakUpper(st)' /\ PeakLower(st)'
  BY DEF Own, PeakUpper, PeakLower, Larger
<1>3. DeadOrAlive(st)'
  BY DEF Own, DeadOrAlive, is_dead, eod_floor, FirmFloor, TrailingFloor, Smaller
<1>4. Counters(st)'
  BY DEF Own, Counters, WinningToday, Count
<1>5. QED
  BY <1>1, <1>2, <1>3, <1>4 DEF Own

\* An accepted order: the record is up to date and the firm's floor is known.
LEMMA FireOwn ==
  ASSUME TypeOK, TypeOK', NEW s \in StateRec, Own(s), ~Unbooked(s), MayFire(s), Fire(s),
         UNCHANGED <<day, firmVars, withdrawn>>
  PROVE  Own(st)' /\ (position' # position => StopAboveLimit')
<1> USE DEF firmVars
<1>1. /\ balance \in Int /\ firm_peak \in Int /\ day_open \in Int /\ day \in Nat
      /\ firm_wins \in Nat /\ firm_days \in Nat
      /\ s.peak_equity_eod \in Int /\ s.winning_days \in Nat
  BY LifecycleAssumption DEF TypeOK, StateRec
<1>2. /\ ~firm_dead /\ ~s.payout_ready /\ s.last_fire_date # day /\ Trading(s)
      /\ ~Open /\ ~Pending(s) /\ ~withdrawn /\ balance = day_open
  BY DEF MayFire, Tradeable, Trades, Own, Tracked, Counters, Unbooked
<1>3. firm_peak <= s.peak_equity_eod /\ balance <= s.peak_equity_eod
  BY <1>1 DEF Own, PeakLower, Larger
<1>4. CASE st' = [s EXCEPT !.last_fire_date = day] /\ UNCHANGED position
  <2> DEFINE r == [s EXCEPT !.last_fire_date = day]
  <2>1. /\ r.pending_label = s.pending_label /\ r.phase = s.phase /\ r.equity = s.equity
        /\ r.peak_equity_eod = s.peak_equity_eod /\ r.payout_ready = s.payout_ready
        /\ r.winning_days = s.winning_days /\ r.days_traded = s.days_traded
        /\ r.last_seen_balance = s.last_seen_balance /\ r.last_fire_date = day
    BY DEF StateRec
  <2> HIDE DEF r
  <2>2. Own(r)
    BY <1>1, <1>2, <2>1 DEF Own, Tracked, PeakUpper, PeakLower, DeadOrAlive, Counters,
       Pending, Unbooked, Trading, is_dead, eod_floor
  <2>3. st' = r
    BY <1>4 DEF r
  <2>4. QED
    BY <2>2, <2>3, <1>4, SameWorld
<1>5. CASE /\ position = NoPosition /\ position' \in Brackets
           /\ position'.label \in Label /\ position'.stop \in Nat
           /\ position'.manual_stop => balance - eod_floor(s) > position'.stop
           /\ st' = Recorded(s, Plan(s))
  <2>1. /\ st' \in StateRec /\ st'.pending_label \in Label
        /\ st'.pending_entry_balance = balance /\ st'.last_fire_date = day
        /\ st'.phase = s.phase /\ st'.days_traded = s.days_traded
        /\ st'.peak_equity_eod = s.peak_equity_eod /\ st'.winning_days = s.winning_days
        /\ st'.payout_ready = s.payout_ready /\ st'.last_seen_balance = s.last_seen_balance
    BY <1>1, <1>5, RecordedType, PlanType
  <2>2. Open' /\ Pending(st)' /\ ~Unbooked(st)'
    <3>1. NoLabel \notin Label
      BY DEF NoLabel, Label
    <3>2. position' # NoPosition
      BY <1>5, <3>1 DEF NoPosition
    <3>3. QED
      BY <2>1, <3>1, <3>2 DEF Open, Pending, Unbooked
  <2>3. Tracked(st)'
    BY <1>1, <1>2, <2>1, <2>2 DEF Own, Tracked, Trading
  <2>4. PeakUpper(st)' /\ PeakLower(st)'
    BY <1>1, <1>3, <2>1, <2>2 DEF Own, PeakUpper, PeakLower, Larger, Unbooked
  <2>5. DeadOrAlive(st)'
    BY <1>2, <2>1, <2>2 DEF Own, DeadOrAlive, Trading, FirmFloor
  <2>6. Counters(st)'
    <3>1. ~WinningToday /\ Count(WinningToday) = 0
      BY <1>1, <1>2, LifecycleAssumption DEF WinningToday, Count
    <3>2. s.winning_days <= firm_wins
      BY <1>1, <1>2, <3>1 DEF Own, Counters, Unbooked, Count
    <3>3. WinningToday' <=> WinningToday
      BY DEF WinningToday
    <3>4. s.days_traded <= firm_days
      BY <1>1, <1>2 DEF Own, Counters, Unbooked, Count, StateRec
    <3>5. QED
      BY <1>1, <1>2, <2>1, <2>2, <3>1, <3>2, <3>3, <3>4
      DEF Counters, Count, Trading, StateRec
  <2>7. StopAboveLimit'
    <3>1. FirmFloor <= eod_floor(s) /\ FirmFloor' = FirmFloor /\ eod_floor(s) \in Int
      BY <1>1, <1>3, FloorMonotone DEF FirmFloor, eod_floor
    <3>2. FirmFloor \in Int
      BY <1>1, FloorMonotone DEF FirmFloor
    <3>3. QED
      BY <1>1, <1>5, <3>1, <3>2 DEF StopAboveLimit
  <2>8. QED
    BY <2>3, <2>4, <2>5, <2>6, <2>7 DEF Own
<1>6. QED
  BY <1>4, <1>5, FireFacts

\* The snapshot's refresh keeps the account's own facts.
LEMMA SnapshotOwn ==
  ASSUME TypeOK, Own(st), Snapshot
  PROVE  Own(st)'
<1> DEFINE r == Ratcheted(st)
<1>1. r \in StateRec /\ Own(r) /\ st' = MarkBlown(r)
  BY RatchetedType, RatchetedOwn DEF Snapshot
<1> HIDE DEF r
<1>2. Own(MarkBlown(r))
  BY <1>1, MarkBlownOwn
<1> DEFINE m == MarkBlown(r)
<1> HIDE DEF m
<1>3. Own(m) /\ st' = m
  BY <1>1, <1>2 DEF m
<1>4. UNCHANGED <<day, firmVars, position, withdrawn>>
  BY DEF Snapshot
<1>5. QED
  BY <1>3, <1>4, SameWorld

\* So does a whole pass.
LEMMA PassOwn ==
  ASSUME TypeOK, TypeOK', Own(st), StopAboveLimit, Pass
  PROVE  Own(st)' /\ StopAboveLimit'
<1>1. InPass \in StateRec /\ Own(InPass) /\ ~Unbooked(InPass)
  BY InPassOwn
<1>2. UNCHANGED <<day, firmVars, withdrawn, manuals>>
  BY DEF Pass
<1>3. UNCHANGED position => StopAboveLimit'
  BY <1>2 DEF firmVars, StopAboveLimit, OwnTrades, FirmFloor
<1>4. CASE MayFire(InPass) /\ Fire(InPass)
  <2> DEFINE s == InPass
  <2>1. s \in StateRec /\ Own(s) /\ ~Unbooked(s) /\ MayFire(s) /\ Fire(s)
    BY <1>1, <1>4
  <2> HIDE DEF s
  <2>2. Own(st)' /\ (position' # position => StopAboveLimit')
    BY <1>2, <2>1, FireOwn
  <2>3. QED
    BY <1>3, <2>2
<1>5. CASE st' = (IF Tradeable THEN MarkBlown(InPass) ELSE InPass) /\ UNCHANGED position
  <2> DEFINE s == IF Tradeable THEN MarkBlown(InPass) ELSE InPass
  <2>1. Own(s) /\ st' = s
    BY <1>1, <1>5, MarkBlownOwn
  <2> HIDE DEF s
  <2>2. QED
    BY <1>2, <1>3, <1>5, <2>1, SameWorld
<1>6. QED
  BY <1>4, <1>5 DEF Pass

\* A withdrawal is recorded, by mark_payout or in the edit form.
LEMMA PaidOutOwn ==
  ASSUME TypeOK, NEW s \in StateRec, Own(s), withdrawn, ~withdrawn', st' = PaidOut(s),
         UNCHANGED <<day, firmVars, position>>
  PROVE  Own(st)'
<1> DEFINE r == PaidOut(s)
<1>1. /\ firm_wins \in Nat /\ firm_days \in Nat
      /\ balance \in Int /\ firm_peak \in Int
  BY DEF TypeOK
<1>2. /\ r \in StateRec /\ r.winning_days = 0 /\ ~r.payout_ready
      /\ r.pending_label = NoLabel
      /\ r.phase = s.phase \/ r.phase = "retired"
      /\ r.equity = s.equity /\ r.days_traded = s.days_traded
      /\ r.peak_equity_eod = s.peak_equity_eod /\ r.last_fire_date = s.last_fire_date
      /\ r.last_seen_balance = s.last_seen_balance
      /\ r.pending_entry_balance = s.pending_entry_balance
  BY <1>1, PaidOutType
<1>3. st' = r /\ withdrawn /\ ~withdrawn' /\ UNCHANGED <<day, firmVars, position>>
  OBVIOUS
<1> HIDE DEF r
<1> USE DEF firmVars
<1>4. ~Pending(s) /\ ~Open /\ ~firm_dead /\ ~Unbooked(s)
  BY <1>3 DEF Own, Counters, Tracked, DeadOrAlive, Unbooked
<1>5. ~Pending(st)' /\ ~Open' /\ ~Unbooked(st)'
  BY <1>2, <1>3, <1>4 DEF Pending, Open, Unbooked
<1>6. Tracked(st)'
  BY <1>2, <1>3, <1>5 DEF Own, Tracked
<1>7. PeakUpper(st)' /\ PeakLower(st)'
  BY <1>2, <1>3, <1>4 DEF Own, PeakUpper, PeakLower, Larger
<1>8. DeadOrAlive(st)'
  BY <1>2, <1>3, <1>4, <1>5
  DEF Own, DeadOrAlive, Trading, is_dead, eod_floor, FirmFloor, TrailingFloor, Smaller
<1>9. Counters(st)'
  BY <1>1, <1>2, <1>3, <1>4, <1>5 DEF Own, Counters, Count, StateRec
<1>10. QED
  BY <1>6, <1>7, <1>8, <1>9 DEF Own

\* So does a synced balance.
LEMMA SyncedOwn ==
  ASSUME TypeOK, Own(st)
  PROVE  Synced(st) \in StateRec /\ Own(Synced(st))
<1> DEFINE r == Synced(st)
<1>1. st \in StateRec /\ balance \in Int /\ firm_peak \in Int
  BY DEF TypeOK
<1>2. /\ r \in StateRec /\ r.equity = balance
      /\ r.peak_equity_eod = Larger(st.peak_equity_eod, balance)
      /\ r.pending_label = st.pending_label /\ r.phase = st.phase
      /\ r.winning_days = st.winning_days /\ r.days_traded = st.days_traded
      /\ r.payout_ready = st.payout_ready /\ r.last_fire_date = st.last_fire_date
      /\ r.last_seen_balance = st.last_seen_balance
      /\ r.pending_entry_balance = st.pending_entry_balance
  BY <1>1, SyncedFacts
<1> HIDE DEF r
<1>3. (Pending(r) <=> Pending(st)) /\ (Unbooked(r) <=> Unbooked(st))
  BY <1>2 DEF Pending, Unbooked
<1>4. Tracked(r) /\ Counters(r)
  BY <1>2, <1>3 DEF Own, Tracked, Counters, Trading, Count
<1>5. PeakUpper(r) /\ PeakLower(r)
  BY <1>1, <1>2, <1>3 DEF Own, PeakUpper, PeakLower, Larger, StateRec
<1>6. DeadOrAlive(r)
  <2>1. ~Pending(r) /\ Trading(r) => ~is_dead(r)
    BY <1>1, <1>2, <1>3, <1>5, LifecycleAssumption
    DEF Own, DeadOrAlive, PeakUpper, Trading, Unbooked, is_dead, eod_floor, FirmFloor,
        TrailingFloor, Smaller, Larger, StateRec
  <2>2. QED
    BY <1>2, <1>3, <2>1 DEF Own, DeadOrAlive
<1>7. QED
  BY <1>2, <1>4, <1>5, <1>6 DEF Own, r

\* So does an edit of the account.
LEMMA EditAccountOwn ==
  ASSUME TypeOK, Own(st), EditAccount
  PROVE  Own(st)'
<1>1. PICK on \in BOOLEAN, sync \in BOOLEAN, paid \in BOOLEAN :
         /\ paid => withdrawn
         /\ st' = Edited(st, sync, paid)
         /\ withdrawn' = (withdrawn /\ ~paid)
  BY DEF EditAccount
<1> DEFINE s == IF sync THEN Synced(st) ELSE st
<1>2. s \in StateRec /\ Own(s)
  BY SyncedOwn DEF TypeOK
<1>3. st' = IF paid THEN PaidOut(s) ELSE s
  BY <1>1, EditedIs DEF TypeOK
<1>4. UNCHANGED <<day, firmVars, position>>
  BY DEF EditAccount
<1> HIDE DEF s
<1>5. CASE paid
  BY <1>1, <1>2, <1>3, <1>4, <1>5, PaidOutOwn
<1>6. CASE ~paid
  <2>1. withdrawn' = withdrawn
    BY <1>1, <1>6 DEF TypeOK
  <2>2. QED
    BY <1>2, <1>3, <1>4, <1>6, <2>1, SameWorld
<1>7. QED
  BY <1>5, <1>6

\* So does a closed trade.
LEMMA CloseTradeOwn ==
  ASSUME TypeOK, Own(st), CloseTrade
  PROVE  Own(st)' /\ StopAboveLimit'
<1>1. /\ st \in StateRec /\ firm_wins \in Nat /\ firm_days \in Nat /\ day \in Nat
      /\ balance \in Int /\ firm_peak \in Int /\ day_open \in Int
  BY DEF TypeOK
<1>2. /\ balance' \in Int /\ firm_dead' \in BOOLEAN
      /\ firm_dead' <=> firm_dead \/ balance' <= FirmFloor
      /\ Open /\ position' = NoPosition /\ firm_days' = firm_days + 1
      /\ UNCHANGED <<day, firm_peak, day_open, firm_wins, withdrawn, st>>
  BY CloseTradeFacts DEF CloseTrade
<1>3. /\ Pending(st) /\ ~Unbooked(st) /\ st.last_fire_date = day /\ balance = day_open
      /\ ~firm_dead /\ Trading(st) /\ ~st.payout_ready /\ ~withdrawn /\ balance <= firm_peak
  BY <1>2 DEF Own, Tracked, Counters, Unbooked
<1>4. ~Open' /\ Pending(st)' /\ Unbooked(st)'
  BY <1>2, <1>3 DEF Open, Pending, Unbooked
<1>5. Tracked(st)'
  BY <1>1, <1>2, <1>3, <1>4 DEF Own, Tracked, Trading
<1>6. PeakUpper(st)' /\ PeakLower(st)'
  BY <1>1, <1>2, <1>3, <1>4 DEF Own, PeakUpper, PeakLower, Larger, StateRec
<1>7. DeadOrAlive(st)'
  BY <1>2, <1>3, <1>4 DEF DeadOrAlive, FirmFloor, Trading
<1>8. Counters(st)'
  <2>1. /\ st.days_traded <= firm_days /\ st.pending_entry_balance = day_open
        /\ st.winning_days <= firm_wins
    BY <1>1, <1>3 DEF Own, Counters, Count, StateRec
  <2>2. Count(balance' - day_open >= WinDayMin) = Count(WinningToday')
    BY <1>2 DEF WinningToday
  <2>3. st.winning_days + Count(balance' - day_open >= WinDayMin)
          <= firm_wins + Count(WinningToday')
    BY <1>1, <2>1, <2>2 DEF Count, StateRec
  <2>4. st'.days_traded + Count(Unbooked(st)') <= firm_days'
    BY <1>1, <1>2, <1>4, <2>1 DEF Count, StateRec
  <2>5. QED
    BY <1>2, <1>3, <1>4, <2>1, <2>3, <2>4 DEF Counters, Trading, Count
<1>9. StopAboveLimit'
  BY <1>2 DEF StopAboveLimit
<1>10. QED
  BY <1>5, <1>6, <1>7, <1>8, <1>9 DEF Own

\* So does the end of the day.
LEMMA EndOfDayOwn ==
  ASSUME TypeOK, Own(st), EndOfDay
  PROVE  Own(st)' /\ StopAboveLimit'
<1>1. /\ st \in StateRec /\ firm_wins \in Nat /\ firm_days \in Nat /\ day \in Nat
      /\ balance \in Int /\ firm_peak \in Int /\ day_open \in Int
  BY DEF TypeOK
<1>2. /\ position = NoPosition /\ day' = day + 1 /\ day_open' = balance
      /\ firm_peak' = Larger(firm_peak, balance)
      /\ firm_wins' = firm_wins + Count(WinningToday)
      /\ UNCHANGED <<balance, firm_dead, firm_days, position, withdrawn, st>>
  BY DEF EndOfDay, Count
<1>3. ~Open /\ ~Open' /\ (Pending(st)' <=> Pending(st)) /\ (Unbooked(st)' <=> Unbooked(st))
  BY <1>2 DEF Open, Pending, Unbooked
<1>4. st.last_fire_date <= day /\ st.last_fire_date # day'
  BY <1>1, <1>2 DEF Own, Tracked, StateRec
<1>5. Tracked(st)'
  BY <1>1, <1>2, <1>3, <1>4 DEF Own, Tracked, Trading, Larger, StateRec
<1>6. PeakUpper(st)' /\ PeakLower(st)'
  BY <1>1, <1>2, <1>3 DEF Own, PeakUpper, PeakLower, Larger, StateRec
<1>7. DeadOrAlive(st)'
  <2>1. firm_dead' <=> balance' <= FirmFloor'
    BY <1>1, <1>2, LifecycleAssumption
    DEF Own, DeadOrAlive, FirmFloor, TrailingFloor, Smaller, Larger
  <2>2. QED
    BY <1>2, <1>3, <2>1 DEF Own, DeadOrAlive, Trading, is_dead, eod_floor, TrailingFloor, Smaller
<1>8. Counters(st)'
  <2>1. ~withdrawn =>
          st.winning_days + Count(Unbooked(st)
                                  /\ balance - st.pending_entry_balance >= WinDayMin)
            <= firm_wins'
    BY <1>2 DEF Own, Counters
  <2>2. firm_wins' \in Nat /\ firm_wins' <= firm_wins' + Count(WinningToday')
    BY <1>1, <1>2 DEF Count
  <2>3. ~withdrawn' =>
          st'.winning_days + Count(Unbooked(st)'
                                   /\ balance' - st'.pending_entry_balance >= WinDayMin)
            <= firm_wins' + Count(WinningToday')
    BY <1>1, <1>2, <1>3, <2>1, <2>2 DEF Count, StateRec
  <2>4. st'.days_traded + Count(Unbooked(st)') <= firm_days'
    BY <1>2, <1>3 DEF Own, Counters, Count
  <2>5. QED
    BY <1>2, <1>3, <1>4, <2>3, <2>4 DEF Own, Counters, Count
<1>9. StopAboveLimit'
  BY <1>2 DEF StopAboveLimit
<1>10. QED
  BY <1>5, <1>6, <1>7, <1>8, <1>9 DEF Own

\* So does a withdrawal.
LEMMA WithdrawOwn ==
  ASSUME TypeOK, Own(st), Withdraw
  PROVE  Own(st)' /\ StopAboveLimit'
<1>1. /\ st \in StateRec /\ firm_wins \in Nat /\ firm_days \in Nat /\ day \in Nat
      /\ balance \in Int /\ firm_peak \in Int /\ day_open \in Int
  BY DEF TypeOK
<1>2. /\ st.payout_ready /\ ~firm_dead /\ position = NoPosition
      /\ balance = day_open /\ balance > 0
      /\ balance' = balance - Smaller(PayoutCap, balance \div 2) /\ day_open' = balance'
      /\ firm_wins' = 0 /\ withdrawn'
      /\ UNCHANGED <<day, firm_peak, firm_dead, firm_days, position, st>>
  BY DEF Withdraw
<1>3. balance' \in Int /\ 0 < balance' /\ balance' <= balance
  BY <1>1, <1>2, LifecycleAssumption DEF Smaller
<1>4. ~Pending(st) /\ ~Unbooked(st) /\ balance <= firm_peak
  BY <1>2 DEF Own, Tracked, Unbooked
<1>5. ~Open' /\ ~Pending(st)' /\ ~Unbooked(st)'
  BY <1>2, <1>4 DEF Open, Pending, Unbooked
<1>6. Tracked(st)'
  BY <1>1, <1>2, <1>3, <1>4, <1>5 DEF Own, Tracked
<1>7. PeakUpper(st)' /\ PeakLower(st)'
  BY <1>1, <1>2, <1>3, <1>4, <1>5 DEF Own, PeakUpper, PeakLower, Larger, StateRec
<1>8. DeadOrAlive(st)'
  <2>1. FirmFloor' = FirmFloor /\ FirmFloor \in Int /\ FirmFloor <= 0
    BY <1>1, <1>2, FloorMonotone DEF FirmFloor
  <2>2. ~firm_dead' /\ ~(balance' <= FirmFloor')
    BY <1>2, <1>3, <2>1
  <2>3. QED
    BY <1>2, <1>4, <1>5, <2>2 DEF Own, DeadOrAlive, Trading, is_dead, eod_floor
<1>9. Counters(st)'
  <2>1. st.days_traded + Count(FALSE) <= firm_days
    BY <1>4 DEF Own, Counters, Count
  <2>2. st.phase \notin {"eval", "passed"}
    BY <1>2 DEF Own, Counters
  <2>3. QED
    BY <1>2, <1>5, <2>1, <2>2 DEF Counters, Count
<1>10. StopAboveLimit'
  BY <1>2 DEF StopAboveLimit
<1>11. QED
  BY <1>6, <1>7, <1>8, <1>9, <1>10 DEF Own

\* Every step keeps the inductive invariant.
LEMMA OwnStep ==
  ASSUME IInv, [Next]_vars
  PROVE  IInv'
<1>1. TypeOK /\ TypeOK'
  BY TypeStep DEF IInv
<1>2. SUFFICES ASSUME OwnTrades'
               PROVE  Own(st)' /\ StopAboveLimit'
  BY <1>1 DEF IInv
<1>3. ~TradeByHand
  BY <1>1, <1>2 DEF TradeByHand, OwnTrades, TypeOK
<1>4. UNCHANGED manuals
  BY <1>3 DEF Next, vars, Snapshot, Pass, MarkPayout, EditAccount, CloseTrade, EndOfDay,
              Withdraw
<1>5. Own(st) /\ StopAboveLimit
  BY <1>2, <1>4 DEF IInv, OwnTrades
<1>6. UNCHANGED <<firmVars, position, manuals>> => StopAboveLimit'
  BY <1>5 DEF firmVars, StopAboveLimit, OwnTrades, FirmFloor
<1>7. CASE Snapshot
  BY <1>1, <1>5, <1>6, <1>7, SnapshotOwn DEF Snapshot
<1>8. CASE Pass
  BY <1>1, <1>5, <1>8, PassOwn
<1>9. CASE MarkPayout
  BY <1>1, <1>5, <1>6, <1>9, PaidOutOwn DEF MarkPayout, TypeOK
<1>10. CASE CloseTrade
  BY <1>1, <1>5, <1>10, CloseTradeOwn
<1>11. CASE EndOfDay
  BY <1>1, <1>5, <1>11, EndOfDayOwn
<1>12. CASE Withdraw
  BY <1>1, <1>5, <1>12, WithdrawOwn
<1>13. CASE EditAccount
  BY <1>1, <1>5, <1>6, <1>13, EditAccountOwn DEF EditAccount
<1>14. CASE UNCHANGED vars
  <2>1. UNCHANGED <<day, firmVars, position, withdrawn>> /\ st' = st
    BY <1>14 DEF vars
  <2>2. Own(st)'
    BY <1>5, <2>1, SameWorld
  <2>3. QED
    BY <1>4, <1>6, <2>1, <2>2
<1>15. QED
  BY <1>3, <1>7, <1>8, <1>9, <1>10, <1>11, <1>12, <1>13, <1>14 DEF Next

\* It holds at the start.
LEMMA OwnInit ==
  ASSUME Init
  PROVE  IInv
<1>1. TypeOK
  BY InitType
<1>2. /\ day = 1 /\ balance = 0 /\ firm_peak = 0 /\ day_open = 0 /\ firm_wins = 0
      /\ firm_days = 0 /\ ~firm_dead /\ position = NoPosition /\ ~withdrawn
  BY DEF Init
<1>3. /\ st.phase \in {"eval", "funded"} /\ st.pending_label = NoLabel /\ st.equity = 0
      /\ st.peak_equity_eod = 0 /\ st.last_seen_balance = 0 /\ st.last_fire_date = 0
      /\ st.days_traded = 0 /\ st.winning_days = 0 /\ ~st.payout_ready
  BY LifecycleAssumption DEF Init
<1>4. TrailingFloor(0) = -Trail /\ Trail > 0 /\ Trail \in Nat
  BY LifecycleAssumption DEF TrailingFloor, Smaller
<1>5. ~Open /\ ~Pending(st) /\ ~Unbooked(st)
  BY <1>2, <1>3 DEF Open, Pending, Unbooked
<1>6. Tracked(st) /\ PeakUpper(st) /\ PeakLower(st)
  BY <1>2, <1>3, <1>5 DEF Tracked, PeakUpper, PeakLower, Larger
<1>7. DeadOrAlive(st)
  BY <1>2, <1>3, <1>4, <1>5 DEF DeadOrAlive, FirmFloor, is_dead, eod_floor
<1>8. Counters(st)
  BY <1>2, <1>3, <1>5 DEF Counters, Count
<1>9. StopAboveLimit
  BY <1>2 DEF StopAboveLimit
<1>10. QED
  BY <1>1, <1>6, <1>7, <1>8, <1>9 DEF IInv, Own

\* It holds in every state.
LEMMA Invariant == Spec => []IInv
<1>1. Init => IInv
  BY OwnInit
<1>2. IInv /\ [Next]_vars => IInv'
  BY OwnStep
<1>3. QED
  BY <1>1, <1>2, PTL DEF Spec

-----------------------------------------------------------------------------
(* What follows.                                                           *)

\* OwnNoFalseBlow: without trades placed by hand, an account _auto_mark_blown
\* or reconcile() declares blown is one the firm has closed.
THEOREM NeverBlownEarly == Spec => []OwnNoFalseBlow
<1>1. IInv => OwnNoFalseBlow
  BY DEF IInv, OwnNoFalseBlow, NoFalseBlow, Own, DeadOrAlive
<1>2. QED
  BY <1>1, Invariant, PTL

\* OwnDecideSeesBalance: without trades placed by hand, decide() never refuses
\* as dead an account whose live balance is above its floor.
THEOREM NeverRefusedAlive == Spec => []OwnDecideSeesBalance
<1>1. IInv => OwnDecideSeesBalance
  BY DEF IInv, OwnDecideSeesBalance, DecideSeesBalance, Own, DeadOrAlive, Pending
<1>2. QED
  BY <1>1, Invariant, PTL

\* OwnDeathIsReal: without trades placed by hand, whichever of the two ways TopHat
\* judges by, the account it gives up is dead.
THEOREM GivenUpIsDead == Spec => []OwnDeathIsReal
<1>1. OwnNoFalseBlow /\ OwnDecideSeesBalance => OwnDeathIsReal
  BY DEF OwnDeathIsReal
<1>2. QED
  BY <1>1, NeverBlownEarly, NeverRefusedAlive, PTL

\* StopAboveLimit: an order with a stop leg fills that stop before the firm's
\* limit is touched.
THEOREM StopBeforeLimit == Spec => []StopAboveLimit
<1>1. IInv => StopAboveLimit
  BY DEF IInv, StopAboveLimit
<1>2. QED
  BY <1>1, Invariant, PTL

\* WinsAreTheFirms: _advance_funded counts only winning days the firm counts.
THEOREM WinsAreBacked == Spec => []WinsAreTheFirms
<1>1. IInv => WinsAreTheFirms
  <2> SUFFICES ASSUME IInv, OwnTrades, ~withdrawn
               PROVE  st.winning_days <= firm_wins + Count(WinningToday)
    BY DEF WinsAreTheFirms, Count
  <2>1. st \in StateRec /\ firm_wins \in Nat
    BY DEF IInv, TypeOK
  <2>2. QED
    BY <2>1 DEF IInv, Own, Counters, Count, StateRec
<1>2. QED
  BY <1>1, Invariant, PTL

\* PassIsEarned: an eval retired as passed has the profit and the days.
THEOREM PassedIsEarned == Spec => []PassIsEarned
<1>1. IInv => PassIsEarned
  BY DEF IInv, PassIsEarned, Own, Counters
<1>2. QED
  BY <1>1, Invariant, PTL

\* ClosedGetsBlown: run_session books the last trade of an account the firm
\* closed and declares it blown, tradeable or not.
THEOREM ClosedIsBooked == Spec => []ClosedGetsBlown
<1>1. IInv => ClosedGetsBlown
  <2> SUFFICES ASSUME IInv, OwnTrades, firm_dead
               PROVE  InPass.phase = "blown"
    BY DEF ClosedGetsBlown
  <2>1. Own(InPass) /\ ~Unbooked(InPass)
    BY InPassOwn DEF IInv
  <2>2. QED
    BY <2>1 DEF Own, DeadOrAlive
<1>2. QED
  BY <1>1, Invariant, PTL

-----------------------------------------------------------------------------
(* The dashboard's row and the trading loop.  They look at the same record *)
(* from two sides: the row at what a snapshot would make of it, the loop   *)
(* at what a pass would.                                                   *)

\* An account that still trades has withdrawals to go.
Paying(s) == Trading(s) => s.payouts_taken < PayoutsTarget

\* The ratchet touches the peak and the last sighting.
LEMMA RatchetedKeeps ==
  ASSUME st \in StateRec
  PROVE  LET r == Ratcheted(st)
         IN /\ r.phase = st.phase /\ r.payouts_taken = st.payouts_taken
            /\ (r.payout_ready <=> st.payout_ready)
            /\ r.last_fire_date = st.last_fire_date /\ r.pending_label = st.pending_label
BY DEF Ratcheted, StateRec

\* Booking a trade never makes an account trade again or its payout unready.
LEMMA ReconciledKeeps ==
  ASSUME NEW s \in StateRec, balance \in Int
  PROVE  LET c == Reconciled(s)
         IN /\ c.payouts_taken = s.payouts_taken
            /\ s.payout_ready => c.payout_ready
            /\ Trading(c) => Trading(s)
<1> DEFINE c == Reconciled(s)
           d == balance - s.pending_entry_balance
           outcome == Outcome(d, s.pending_target, s.pending_stop)
           a == IF s.phase = "eval" THEN AdvanceEval(s) ELSE AdvanceFunded(s, outcome, d)
           y == [a EXCEPT !.equity = balance, !.peak_equity_eod = Larger(@, balance)]
<1>1. d \in Int
  BY DEF StateRec
<1>2. a \in StateRec
  BY <1>1, AdvanceType
<1>3. a.payouts_taken = s.payouts_taken /\ (s.payout_ready => a.payout_ready)
  <2>1. CASE s.phase = "eval"
    BY <2>1 DEF AdvanceEval, StateRec
  <2>2. CASE s.phase # "eval"
    BY <2>2 DEF AdvanceFunded, StateRec
  <2> QED
    BY <2>1, <2>2
<1> HIDE DEF a
<1>4. y \in StateRec /\ y.payouts_taken = a.payouts_taken /\ (y.payout_ready <=> a.payout_ready)
  BY <1>2 DEF StateRec, Larger
<1> DEFINE p == IF Trading(y) /\ is_dead(y) THEN "blown" ELSE y.phase
           j == [y EXCEPT !.phase = p]
<1>5. c = Cleared(j)
  BY DEF Reconciled, a
<1>6. p \in {"eval", "funded", "passed", "blown", "retired"}
  BY <1>4 DEF StateRec
<1> HIDE DEF y, c, p
<1>7. j \in StateRec /\ j.payouts_taken = y.payouts_taken /\ (j.payout_ready <=> y.payout_ready)
  BY <1>4, <1>6 DEF StateRec
<1> HIDE DEF j
<1>8. c.payouts_taken = j.payouts_taken /\ (c.payout_ready <=> j.payout_ready)
  BY <1>5, <1>7 DEF Cleared, StateRec
<1>9. Trading(c) => Trading(s)
  BY ReconciledFacts DEF Trading, c
<1> QED
  BY <1>3, <1>4, <1>7, <1>8, <1>9 DEF c

\* The floor check changes the phase at the most.
LEMMA MarkBlownKeeps ==
  ASSUME NEW s \in StateRec
  PROVE  LET m == MarkBlown(s)
         IN /\ m.payouts_taken = s.payouts_taken /\ (m.payout_ready <=> s.payout_ready)
            /\ m.pending_label = s.pending_label
            /\ Trading(m) => m = s
            /\ Trading(s) /\ ~Trading(m) => s.pending_label = NoLabel /\ below_mll(s)
BY DEF MarkBlown, StateRec, Trading

\* What a pass has before it fires: a record that trades no longer than st.
LEMMA InPassKeeps ==
  ASSUME TypeOK
  PROVE  /\ InPass.payouts_taken = st.payouts_taken
         /\ st.payout_ready => InPass.payout_ready
         /\ Trading(InPass) => Trading(st)
         /\ st.pending_label = NoLabel => InPass = IF Tradeable THEN Ratcheted(st) ELSE st
<1> DEFINE s == IF Tradeable THEN Ratcheted(st) ELSE st
<1>1. st \in StateRec /\ balance \in Int
  BY DEF TypeOK
<1>2. /\ s \in StateRec /\ s.payouts_taken = st.payouts_taken
      /\ (s.payout_ready <=> st.payout_ready) /\ s.phase = st.phase
      /\ s.pending_label = st.pending_label
  BY <1>1, RatchetedType, RatchetedKeeps
<1>3. InPass = IF s.pending_label # NoLabel /\ position = NoPosition THEN Reconciled(s) ELSE s
  BY DEF InPass
<1> HIDE DEF s
<1>4. CASE InPass = s
  BY <1>2, <1>3, <1>4 DEF Trading, s
<1>5. CASE InPass = Reconciled(s) /\ s.pending_label # NoLabel
  BY <1>1, <1>2, <1>5, ReconciledKeeps DEF Trading
<1> QED
  BY <1>3, <1>4, <1>5

\* The account retires with the withdrawal that reaches the target.
LEMMA PayingStep ==
  ASSUME TypeOK, Paying(st), [Next]_vars
  PROVE  Paying(st)'
<1>1. st \in StateRec /\ balance \in Int
  BY DEF TypeOK
<1>2. ASSUME NEW s \in StateRec, Trading(s) => Trading(st), s.payouts_taken = st.payouts_taken,
             st' = s \/ st' = MarkBlown(s)
      PROVE  Paying(st)'
  BY <1>2, MarkBlownKeeps DEF Paying, Trading
<1>3. ASSUME NEW s \in StateRec, st' = PaidOut(s) PROVE Paying(st)'
  BY <1>3, LifecycleAssumption DEF Paying, PaidOut, Trading, StateRec
<1>4. CASE Snapshot
  BY <1>1, <1>2, <1>4, RatchetedType, RatchetedKeeps DEF Snapshot, Trading
<1>5. CASE Pass
  <2>1. InPass \in StateRec /\ (Trading(InPass) => Trading(st)) /\ InPass.payouts_taken = st.payouts_taken
    BY InPassType, InPassKeeps
  <2>2. CASE Fire(InPass)
    <3>1. /\ [InPass EXCEPT !.last_fire_date = day].phase = InPass.phase
          /\ [InPass EXCEPT !.last_fire_date = day].payouts_taken = InPass.payouts_taken
          /\ Recorded(InPass, Plan(InPass)).phase = InPass.phase
          /\ Recorded(InPass, Plan(InPass)).payouts_taken = InPass.payouts_taken
      BY <2>1 DEF Recorded, StateRec
    <3>2. st' \in {[InPass EXCEPT !.last_fire_date = day], Recorded(InPass, Plan(InPass))}
      BY <2>2 DEF Fire
    <3> QED
      BY <2>1, <3>1, <3>2 DEF Paying, Trading
  <2>3. CASE st' = IF Tradeable THEN MarkBlown(InPass) ELSE InPass
    BY <1>2, <2>1, <2>3
  <2> QED
    BY <1>5, <2>2, <2>3 DEF Pass
<1>6. CASE MarkPayout
  BY <1>1, <1>3, <1>6 DEF MarkPayout
<1>7. CASE EditAccount
  <2>1. PICK on \in BOOLEAN, sync \in BOOLEAN, paid \in BOOLEAN : st' = Edited(st, sync, paid)
    BY <1>7 DEF EditAccount
  <2> DEFINE s == IF sync THEN Synced(st) ELSE st
  <2>2. s \in StateRec /\ s.phase = st.phase /\ s.payouts_taken = st.payouts_taken
    <3>1. Synced(st).payouts_taken = st.payouts_taken
      BY <1>1 DEF Synced, StateRec
    <3> QED
      BY <1>1, <3>1, SyncedFacts
  <2>3. st' = IF paid THEN PaidOut(s) ELSE s
    BY <1>1, <2>1, EditedIs
  <2> HIDE DEF s
  <2> QED
    BY <1>2, <1>3, <2>2, <2>3 DEF Trading
<1>8. CASE st' = st
  BY <1>1, <1>2, <1>8
<1> QED
  BY <1>4, <1>5, <1>6, <1>7, <1>8
  DEF Next, vars, CloseTrade, TradeByHand, EndOfDay, Withdraw

\* The row and the loop agree on one record.
LEMMA RowAgrees ==
  ASSUME TypeOK, OwnTrades => Own(st), Paying(st)
  PROVE  RowIsPass
<1> DEFINE s == Ratcheted(st)
           m == MarkBlown(s)
<1>1. /\ s \in StateRec /\ m \in StateRec /\ m = RowState /\ st \in StateRec /\ balance \in Int
      /\ firm_dead \in BOOLEAN /\ enabled \in BOOLEAN
  BY RatchetedType, MarkBlownType DEF RowState, TypeOK
<1>2. /\ s.phase = st.phase /\ s.payouts_taken = st.payouts_taken
      /\ (s.payout_ready <=> st.payout_ready) /\ s.last_fire_date = st.last_fire_date
      /\ s.pending_label = st.pending_label
  BY <1>1, RatchetedKeeps
<1>3. /\ m.payouts_taken = s.payouts_taken /\ (m.payout_ready <=> s.payout_ready)
      /\ m.pending_label = s.pending_label /\ (Trading(m) => m = s)
      /\ Trading(s) /\ ~Trading(m) => s.pending_label = NoLabel /\ below_mll(s)
  BY <1>1, MarkBlownKeeps
<1>4. /\ st.payout_ready => InPass.payout_ready
      /\ Trading(InPass) => Trading(st)
      /\ st.pending_label = NoLabel => InPass = IF Tradeable THEN s ELSE st
  BY InPassKeeps
<1>5. /\ RowTerminal <=> ~Trading(m)
      /\ RowParked <=> m.payout_ready /\ Trading(m)
      /\ RowTradeable <=> ~firm_dead /\ ~below_mll(m)
  BY <1>1 DEF RowTerminal, RowParked, RowTradeable
<1>6. /\ RowStatus = "plan" => ~RowTerminal /\ ~RowParked /\ enabled
      /\ ~RowTerminal /\ ~RowParked /\ enabled => RowStatus = "plan"
  BY <1>1 DEF RowStatus, StateRec
<1> HIDE DEF s, m
<1>7. RowStatus # "plan" => ~MayFire(InPass)
  <2> SUFFICES ASSUME MayFire(InPass) PROVE ~RowTerminal /\ ~RowParked /\ enabled
    BY <1>6
  <2>1. enabled /\ ~firm_dead /\ Tradeable /\ ~InPass.payout_ready /\ Trading(InPass)
        /\ ~below_mll(InPass)
    BY DEF MayFire, Tradeable, Trades
  <2>2. Trading(s)
    BY <1>2, <1>4, <2>1 DEF Trading
  <2>3. Trading(m)
    BY <1>2, <1>3, <1>4, <2>1, <2>2
  <2> QED
    BY <1>2, <1>3, <1>4, <1>5, <2>1, <2>3
<1>8. ASSUME st.pending_label = NoLabel, st.last_fire_date # day
      PROVE  RowTicket = IF MayFire(InPass) THEN Plan(InPass) ELSE NoTicket
  <2>1. CASE RowStatus # "plan"
    BY <1>7, <2>1 DEF RowTicket
  <2>2. CASE RowStatus = "plan"
    <3>1. ~RowTerminal /\ ~RowParked /\ enabled /\ Trading(m) /\ m = s /\ ~s.payout_ready
      BY <1>3, <1>5, <1>6, <2>2
    <3>2. RowTicket = IF ~RowTradeable \/ ~Trades(s) THEN NoTicket ELSE Plan(s)
      BY <1>1, <2>2, <3>1 DEF RowTicket, PlanWhenEnabled
    <3>3. CASE firm_dead
      BY <1>5, <3>2, <3>3 DEF MayFire, Tradeable
    <3>4. CASE ~firm_dead
      <4>1. Tradeable /\ InPass = s
        BY <1>4, <1>8, <3>1, <3>4 DEF Tradeable
      <4>2. MayFire(InPass) <=> ~below_mll(s) /\ Trades(s)
        BY <1>2, <1>8, <3>1, <4>1 DEF MayFire
      <4>3. RowTradeable <=> ~below_mll(s)
        BY <1>5, <3>1, <3>4
      <4> QED
        BY <3>2, <4>1, <4>2, <4>3
    <3> QED
      BY <3>3, <3>4
  <2> QED
    BY <2>1, <2>2
<1>9. ASSUME OwnTrades, st.pending_label = NoLabel
      PROVE  /\ SlotKind = "eval" <=> PlanWhenEnabled.label = "eval"
             /\ SlotKind = "nuke" <=> PlanWhenEnabled.label \in {"nuke", "renuke"}
  <2> DEFINE competes == ~RowTerminal /\ ~RowParked /\ RowTradeable
  <2>1. CASE ~competes
    <3>1. SlotKind = NoLabel /\ PlanWhenEnabled = NoTicket
      BY <2>1 DEF SlotKind, PlanWhenEnabled
    <3> QED
      BY <3>1 DEF NoTicket, NoLabel
  <2>2. CASE competes
    <3>1. m = s /\ Trading(s) /\ RowState = s
      BY <1>1, <1>3, <1>5, <2>2
    <3>2. Own(s)
      BY <1>9, RatchetedOwn DEF s
    <3>3. ~is_dead(s)
      BY <1>2, <1>9, <3>1, <3>2 DEF Own, DeadOrAlive, Pending
    <3>4. s.payouts_taken < PayoutsTarget
      BY <1>2, <3>1 DEF Paying, Trading
    <3>5. PlanWhenEnabled = Plan(s)
      BY <2>2, <3>1, <3>3, <3>4 DEF PlanWhenEnabled, Trades
    <3>6. CASE s.phase = "eval"
      <4>1. SlotKind = "eval" /\ Plan(s).label = "eval"
        BY <2>2, <3>1, <3>6 DEF SlotKind, Plan
      <4> QED
        BY <3>5, <4>1
    <3>7. CASE s.phase = "funded" /\ IsNukeCycle(s) /\ ~s.nuke_hit
      <4>1. SlotKind = "nuke" /\ Plan(s).label \in {"nuke", "renuke"}
        BY <2>2, <3>1, <3>7 DEF SlotKind, Plan
      <4> QED
        BY <3>5, <4>1
    <3>8. CASE s.phase = "funded" /\ ~(IsNukeCycle(s) /\ ~s.nuke_hit)
      <4>1. SlotKind = NoLabel /\ Plan(s).label = "flip"
        BY <2>2, <3>1, <3>8 DEF SlotKind, Plan
      <4> QED
        BY <3>5, <4>1 DEF NoLabel
    <3> QED
      BY <3>1, <3>6, <3>7, <3>8 DEF Trading
  <2> QED
    BY <2>1, <2>2
<1> QED
  BY <1>7, <1>8, <1>9 DEF RowIsPass

\* RowIsPass: the operator's row and the trading loop judge alike, trades placed
\* by hand included; that a row counted against a cap has a bracket for its slot
\* needs the equity in step with the balance and withdrawals still to go.
THEOREM RowAndPassAgree == Spec => []RowIsPass
<1>1. Init => Paying(st)
  BY LifecycleAssumption DEF Init, Paying
<1>2. IInv /\ Paying(st) /\ [Next]_vars => (IInv /\ Paying(st))'
  BY OwnStep, PayingStep DEF IInv
<1>3. IInv /\ Paying(st) => RowIsPass
  BY RowAgrees DEF IInv
<1> QED
  BY <1>1, <1>2, <1>3, OwnInit, PTL DEF Spec

=============================================================================
