---------------------------- MODULE SessionProofs ----------------------------
(***************************************************************************)
(* What a session's pass keeps, for every fleet and every number of        *)
(* passes: one open bracket per account, one attempt a day, the cap on     *)
(* nuke orders, one log record per trade, no order while a withdrawal is   *)
(* due, and every order accounted for.  The invariants build on each other *)
(* and each theorem names the events it has to leave out:                  *)
(*   BrokerInv  the broker's orders            no event left out           *)
(*   DayInv     the copies of last_fire_date   no snapshot, no crash       *)
(*   SlotInv    stamps and ghosts              no crash                    *)
(*   BookInv    pending records and the log    no snapshot, no crash       *)
(*   AccInv     balances and entry balances    Quiet                       *)
(***************************************************************************)
EXTENDS Session, TLAPS, FiniteSetTheorems

\* At most one open order per account, without counting.
OneOpen == \A a \in Account : \A m, n \in OpenOrders(a) : m = n

BrokerInv ==
  /\ day \in 1..MaxDay
  /\ attempts \in [Account -> Seq(AttemptRec)]
  /\ OneOpen

\* Nothing was attempted at the start.
LEMMA InitBrokerInv == Init => BrokerInv
<1> SUFFICES ASSUME Init PROVE BrokerInv
  OBVIOUS
<1>1. day \in 1..MaxDay
  BY SessionAssumption DEF Init
<1>2. attempts \in [Account -> Seq(AttemptRec)]
  BY DEF Init
<1>3. OneOpen
  BY DEF Init, OneOpen, OpenOrders
<1> QED
  BY <1>1, <1>2, <1>3 DEF BrokerInv

\* A closing trade closes; it opens nothing.
LEMMA CloseKeeps ==
  ASSUME BrokerInv, NEW a \in Account, NEW r \in Results, CloseTrade(a, r)
  PROVE  BrokerInv'
<1>1. PICK n \in OpenOrders(a) : attempts' = [attempts EXCEPT ![a][n].result = r]
  BY DEF CloseTrade
<1>2. day' = day /\ r # "open"
  BY DEF CloseTrade, clockVars
<1>3. n \in DOMAIN attempts[a] /\ attempts[a] \in Seq(AttemptRec)
  BY <1>1 DEF BrokerInv, OpenOrders
<1>4. attempts[a][n] \in AttemptRec
  BY <1>3
<1>5. [attempts[a][n] EXCEPT !.result = r] \in AttemptRec
  BY <1>4 DEF AttemptRec
<1>6. attempts' = [attempts EXCEPT ![a] =
                     [attempts[a] EXCEPT ![n] = [attempts[a][n] EXCEPT !.result = r]]]
  BY <1>1
<1>7. [attempts[a] EXCEPT ![n] = [attempts[a][n] EXCEPT !.result = r]] \in Seq(AttemptRec)
  BY <1>3, <1>5
<1>8. attempts' \in [Account -> Seq(AttemptRec)]
  BY <1>6, <1>7 DEF BrokerInv
<1>9. \A b \in Account : OpenOrders(b)' \subseteq OpenOrders(b)
  <2> SUFFICES ASSUME NEW b \in Account, NEW k \in OpenOrders(b)' PROVE k \in OpenOrders(b)
    OBVIOUS
  <2>1. k \in DOMAIN attempts'[b] /\ attempts'[b][k].result = "open"
    BY DEF OpenOrders, IsOpen
  <2>2. CASE b # a
    BY <1>6, <2>1, <2>2 DEF OpenOrders, IsOpen, BrokerInv
  <2>3. CASE b = a
    <3>1. attempts'[a] = [attempts[a] EXCEPT ![n] = [attempts[a][n] EXCEPT !.result = r]]
      BY <1>6 DEF BrokerInv
    <3>2. k # n
      BY <1>2, <1>3, <1>4, <2>1, <2>3, <3>1 DEF AttemptRec
    <3> QED
      BY <1>3, <2>1, <2>3, <3>1, <3>2 DEF OpenOrders, IsOpen
  <2> QED
    BY <2>2, <2>3
<1> QED
  BY <1>2, <1>8, <1>9 DEF BrokerInv, OneOpen

\* An attempt keeps the invariant if it opens an order only without a position.
LEMMA AttemptKeeps ==
  ASSUME BrokerInv, NEW a \in Account, NEW r \in Results, Attempt(a, r), day' = day,
         r = "open" => ~Position(a)
  PROVE  BrokerInv'
<1> DEFINE rec == [day |-> day, nuke |-> NeedsNuke(mem[a]), result |-> r]
<1>1. attempts' = [attempts EXCEPT ![a] = Append(attempts[a], rec)]
  BY DEF Attempt
<1>2. NeedsNuke(mem[a]) \in BOOLEAN
  BY DEF NeedsNuke
<1>3. rec \in AttemptRec
  BY <1>2 DEF BrokerInv, AttemptRec
<1>4. attempts[a] \in Seq(AttemptRec)
  BY DEF BrokerInv
<1> HIDE DEF rec
<1>5. attempts' \in [Account -> Seq(AttemptRec)]
  BY <1>1, <1>3, <1>4 DEF BrokerInv
<1>6. ASSUME NEW b \in Account, NEW m \in OpenOrders(b)', NEW n \in OpenOrders(b)'
      PROVE  m = n
  <2>1. CASE b # a
    BY <1>1, <2>1 DEF BrokerInv, OneOpen, OpenOrders, IsOpen
  <2>2. CASE b = a
    <3>1. attempts'[a] = Append(attempts[a], rec)
      BY <1>1 DEF BrokerInv
    <3>2. \A k \in OpenOrders(b)' :
            k \in OpenOrders(a) \/ (k = Len(attempts[a]) + 1 /\ rec.result = "open")
      BY <1>4, <2>2, <3>1 DEF OpenOrders, IsOpen
    <3>3. rec.result = "open" => OpenOrders(a) = {}
      BY DEF rec, Position
    <3> QED
      BY <2>2, <3>2, <3>3 DEF BrokerInv, OneOpen
  <2> QED
    BY <2>1, <2>2
<1> QED
  BY <1>5, <1>6 DEF BrokerInv, OneOpen

\* Delisting an account changes the list.
LEMMA DelistsOnly ==
  ASSUME NEW a \in Account, Delist(a)
  PROVE  UNCHANGED <<day, balance, attempts, states, stamps, trade_log, payouts_marked, snap,
                     pc, now, mem, seen, held, todo, tradeable, reconciled, cur>>
BY DEF Delist, clockVars, fileVars, passVars

\* Every step keeps it: only CloseTrade, Skip and Place touch the broker's orders.
LEMMA NextBrokerInv == BrokerInv /\ [Next]_vars => BrokerInv'
<1> SUFFICES ASSUME BrokerInv, [Next]_vars PROVE BrokerInv'
  OBVIOUS
<1> USE DEF BrokerInv, OneOpen, OpenOrders, IsOpen
<1>1. ASSUME UNCHANGED <<day, attempts>> PROVE BrokerInv'
  BY <1>1
<1>2. CASE \E a \in Account, r \in Results : CloseTrade(a, r)
  BY <1>2, CloseKeeps
<1>3. CASE Clock
  BY <1>3, SessionAssumption DEF Clock, ClockMoves
<1>4. ASSUME NEW a \in Account, Skip(a) PROVE BrokerInv'
  BY <1>4, AttemptKeeps DEF Skip, fireRest, clockVars, Results
<1>5. ASSUME NEW a \in Account, Place(a) PROVE BrokerInv'
  BY <1>5, AttemptKeeps DEF Place, Clear, fireRest, clockVars, Results
<1>6. CASE PassNext
  <2>1. CASE ListAccounts
    BY <1>1, <2>1 DEF ListAccounts, clockVars, brokerVars
  <2>2. ASSUME NEW a \in Account, Reconcile(a) PROVE BrokerInv'
    BY <1>1, <2>2 DEF Reconcile, clockVars, brokerVars
  <2>3. CASE Assign
    BY <1>1, <2>3 DEF Assign, clockVars, brokerVars
  <2>4. ASSUME NEW a \in Account, MarkBlown(a) PROVE BrokerInv'
    BY <1>1, <2>4 DEF MarkBlown, fireRest, clockVars
  <2>5. ASSUME NEW a \in Account, RecordPlaced(a) PROVE BrokerInv'
    BY <1>1, <2>5 DEF RecordPlaced, fireRest, clockVars
  <2>6. ASSUME NEW a \in Account, RecordRaised(a) PROVE BrokerInv'
    BY <1>1, <2>6 DEF RecordRaised, fireRest, clockVars
  <2>7. CASE SaveSchedule \/ MergeStates \/ SaveRegistry
    BY <1>1, <2>7 DEF SaveSchedule, MergeStates, SaveRegistry, clockVars, brokerVars
  <2> QED
    BY <1>4, <1>5, <1>6, <2>1, <2>2, <2>3, <2>4, <2>5, <2>6, <2>7 DEF PassNext
<1>7. ASSUME NEW manual \in BOOLEAN, StartPass(manual) PROVE BrokerInv'
  BY <1>1, <1>7 DEF StartPass, clockVars, brokerVars
<1>8. CASE SnapLoad \/ SnapSave \/ Crash
  BY <1>1, <1>8 DEF SnapLoad, SnapSave, Crash, clockVars, brokerVars
<1>9. ASSUME NEW a \in Account, MarkPayout(a) \/ Toggle(a) PROVE BrokerInv'
  BY <1>1, <1>9 DEF MarkPayout, Toggle, clockVars, brokerVars
<1>10. CASE UNCHANGED vars
  BY <1>1, <1>10 DEF vars, clockVars, brokerVars
<1>11. ASSUME NEW a \in Account, Delist(a) PROVE BrokerInv'
  BY <1>1, <1>11, DelistsOnly
<1> QED
  BY <1>2, <1>3, <1>6, <1>7, <1>8, <1>9, <1>10, <1>11 DEF Next

\* The invariant counts to one.
LEMMA OneOpenIsNoStacking == BrokerInv => NoStacking
<1> SUFFICES ASSUME BrokerInv, NEW a \in Account PROVE Cardinality(OpenOrders(a)) <= 1
  BY DEF NoStacking
<1>1. CASE OpenOrders(a) = {}
  BY <1>1, FS_EmptySet
<1>2. CASE OpenOrders(a) # {}
  <2>1. PICK n \in OpenOrders(a) : TRUE
    BY <1>2
  <2>2. OpenOrders(a) = {n}
    BY <2>1 DEF BrokerInv, OneOpen
  <2>3. Cardinality({n}) = 1
    BY FS_Singleton
  <2> QED
    BY <2>2, <2>3
<1> QED
  BY <1>1, <1>2

\* No account ever has two brackets working at the broker, for any number of
\* accounts and passes, with or without snapshots, timeouts, failed reads and
\* crashes (position_guard before place_bracket in the fire loop).
THEOREM NoStackingHolds == Spec => []NoStacking
<1>1. Spec => []BrokerInv
  BY InitBrokerInv, NextBrokerInv, PTL DEF Spec
<1> QED
  BY <1>1, OneOpenIsNoStacking, PTL

-----------------------------------------------------------------------------
(* Types.                                                                  *)

\* What the services do to a record leaves it an AccountState.
LEMMA RecordTypes ==
  ASSUME NEW st \in StateRec, NEW bal \in Int, NEW n \in Nat, NEW today \in Nat, NEW nuke
  PROVE  /\ Booked(st, bal, nuke) \in StateRec
         /\ Pending(st, n, bal, today) \in StateRec
         /\ Ratcheted(st, bal, today) \in StateRec
         /\ PaidOut(st) \in StateRec
         /\ [st EXCEPT !.last_fire_date = today] \in StateRec
         /\ [st EXCEPT !.phase = "blown"] \in StateRec
<1>1. Booked(st, bal, nuke) \in StateRec
  <2> DEFINE won  == Classify(bal - st.pending_entry_balance) = "win"
             wins == st.winning_days + (IF won THEN 1 ELSE 0)
             rec  == st.recovery \/ nuke
             hit  == st.nuke_hit \/ (won /\ nuke)
             due  == st.payout_ready \/ wins >= WinDays
             adv  == Advanced(st, won, nuke)
             ph   == IF BelowMLL(st, bal) THEN "blown" ELSE adv.phase
  <2>1. wins \in Nat /\ rec \in BOOLEAN /\ hit \in BOOLEAN /\ due \in BOOLEAN
    BY DEF StateRec
  <2>2. adv = [st EXCEPT !.winning_days = wins, !.recovery = rec, !.nuke_hit = hit,
                         !.payout_ready = due]
    BY DEF Advanced
  <2>3. Booked(st, bal, nuke) =
          [adv EXCEPT !.phase = ph, !.pending = 0, !.pending_entry_balance = 0]
    BY DEF Booked
  <2> HIDE DEF wins, rec, hit, due
  <2>4. adv \in StateRec
    BY <2>1, <2>2 DEF StateRec
  <2>5. ph \in {"funded", "blown", "retired"}
    BY <2>4 DEF StateRec
  <2>6. 0 \in Nat /\ 0 \in Int
    OBVIOUS
  <2> HIDE DEF adv, ph
  <2> QED
    BY <2>3, <2>4, <2>5, <2>6 DEF StateRec
<1>2. Pending(st, n, bal, today) \in StateRec
  BY DEF Pending, StateRec
<1>3. Ratcheted(st, bal, today) \in StateRec
  BY DEF Ratcheted, StateRec, Sighting
<1>4. PaidOut(st) \in StateRec
  <2> DEFINE taken == st.payouts_taken + 1
  <2>1. taken \in Nat /\ 0 \in Nat /\ FALSE \in BOOLEAN
    BY DEF StateRec
  <2>2. NextCycle(st) = [st EXCEPT !.payouts_taken = taken, !.winning_days = 0,
                                   !.recovery = FALSE, !.nuke_hit = FALSE]
    BY DEF NextCycle
  <2> HIDE DEF taken
  <2>3. NextCycle(st) \in StateRec
    BY <2>1, <2>2, Zenon DEF StateRec
  <2> QED
    BY <2>3 DEF PaidOut, StateRec
<1>5. [st EXCEPT !.last_fire_date = today] \in StateRec
  BY DEF StateRec
<1>6. [st EXCEPT !.phase = "blown"] \in StateRec
  BY DEF StateRec
<1> QED
  BY <1>1, <1>2, <1>3, <1>4, <1>5, <1>6

\* The default records.
LEMMA DefaultTypes == NoStates \in [Account -> StateRec]
BY DEF NoStates, StateRec, Sighting

\* Between passes the locals have their types.
LEMMA IdleTypes ==
  ASSUME PassIdle
  PROVE  /\ pc' \in PassStep /\ now' \in [day : 0..MaxDay, due : BOOLEAN]
         /\ mem' \in [Account -> StateRec] /\ reg' \in [Account -> BOOLEAN]
         /\ seen' \in [Account -> Int] /\ held' \in [Account -> Nat]
         /\ todo' \subseteq Account /\ tradeable' \subseteq Account
         /\ reconciled' \subseteq Account /\ auto_disabled' \subseteq Account
         /\ cur' \subseteq Account
BY DefaultTypes, SessionAssumption DEF PassIdle, PassStep

\* The initial types.
LEMMA InitTypes == Init => TypeOK
BY DefaultTypes, SessionAssumption DEF Init, TypeOK, PassStep

\* Steps of the broker and the clock keep the types.
LEMMA BrokerTypes ==
  ASSUME TypeOK, (\E a \in Account, r \in Results : CloseTrade(a, r)) \/ Clock
  PROVE  TypeOK'
<1> USE DEF TypeOK
<1>1. ASSUME NEW a \in Account, NEW r \in Results, CloseTrade(a, r) PROVE TypeOK'
  <2> USE <1>1
  <2>1. attempts' \in [Account -> Seq(AttemptRec)]
    <3>1. PICK n \in OpenOrders(a) : attempts' = [attempts EXCEPT ![a][n].result = r]
      BY DEF CloseTrade
    <3>2. n \in DOMAIN attempts[a] /\ attempts[a] \in Seq(AttemptRec)
      BY <3>1 DEF OpenOrders
    <3>3. attempts[a][n] \in AttemptRec
      BY <3>2
    <3>4. [attempts[a][n] EXCEPT !.result = r] \in AttemptRec
      BY <3>3 DEF AttemptRec
    <3>5. [attempts[a] EXCEPT ![n] = [attempts[a][n] EXCEPT !.result = r]] \in Seq(AttemptRec)
      BY <3>2, <3>4
    <3> QED
      BY <3>1, <3>5
  <2>2. Delta(r) \in Int
    BY DEF Delta
  <2>3. balance' \in [Account -> Int]
    BY <2>2 DEF CloseTrade
  <2>4. canTrade' \in [Account -> BOOLEAN]
    BY DEF CloseTrade
  <2> QED
    BY <2>1, <2>3, <2>4 DEF CloseTrade, clockVars, fileVars, passVars
<1>2. ASSUME Clock PROVE TypeOK'
  <2> USE <1>2
  <2>1. day' \in 1..MaxDay /\ window' \in {"before", "inside", "after"}
    BY SessionAssumption DEF Clock, ClockMoves
  <2>2. canTrade' = canTrade \/ canTrade' = [a \in Account |-> balance[a] > -Room]
    BY DEF Clock, ClockMoves
  <2>3. [a \in Account |-> balance[a] > -Room] \in [Account -> BOOLEAN]
    <3>1. \A a \in Account : (balance[a] > -Room) \in BOOLEAN
      OBVIOUS
    <3> QED
      BY <3>1, Zenon
  <2>4. canTrade' \in [Account -> BOOLEAN]
    BY <2>2, <2>3
  <2> QED
    BY <2>1, <2>4 DEF Clock, fileVars, passVars
<1> QED
  BY <1>1, <1>2

\* Attempts are appended as records.
LEMMA AttemptTypes ==
  ASSUME TypeOK, NEW a \in Account, NEW r \in Results, Attempt(a, r)
  PROVE  attempts' \in [Account -> Seq(AttemptRec)]
<1> DEFINE rec == [day |-> day, nuke |-> NeedsNuke(mem[a]), result |-> r]
<1>1. rec \in AttemptRec
  BY DEF TypeOK, AttemptRec, NeedsNuke
<1>2. Append(attempts[a], rec) \in Seq(AttemptRec)
  BY <1>1 DEF TypeOK
<1>3. attempts' = [attempts EXCEPT ![a] = Append(attempts[a], rec)]
  BY DEF Attempt
<1> HIDE DEF rec
<1> QED
  BY <1>2, <1>3 DEF TypeOK

\* The pass up to the assignment keeps the types.
LEMMA ReconcileTypes ==
  ASSUME TypeOK, \/ \E manual \in BOOLEAN : StartPass(manual)
                 \/ ListAccounts
                 \/ \E a \in Account : Reconcile(a)
                 \/ Assign
  PROVE  TypeOK'
<1> USE DEF TypeOK
<1>1. ASSUME NEW manual \in BOOLEAN, StartPass(manual) PROVE TypeOK'
  <2> USE <1>1
  <2> DEFINE due == manual \/ window = "inside"
  <2>1. day \in 0..MaxDay /\ due \in BOOLEAN
    OBVIOUS
  <2>2. now' = [day |-> day, due |-> due]
    BY DEF StartPass
  <2> HIDE DEF due
  <2>3. now' \in [day : 0..MaxDay, due : BOOLEAN]
    BY <2>1, <2>2
  <2> QED
    BY <2>3 DEF StartPass, PassStep, clockVars, brokerVars, fileVars
<1>2. CASE ListAccounts
  <2> USE <1>2
  <2>1. tradeable' \subseteq Account /\ todo' \subseteq Account
    BY DEF ListAccounts, ToReconcile
  <2>2. mem' \in [Account -> StateRec]
    <3>1. now.day \in Nat
      BY SessionAssumption
    <3>2. \A a \in Account : Ratcheted(mem[a], balance[a], now.day) \in StateRec
      BY <3>1, RecordTypes
    <3> QED
      BY <3>2 DEF ListAccounts
  <2> QED
    BY <2>1, <2>2 DEF ListAccounts, PassStep, clockVars, brokerVars, fileVars
<1>3. ASSUME NEW a \in Account, Reconcile(a) PROVE TypeOK'
  <2> USE <1>3
  <2>1. UNCHANGED <<mem, trade_log, reconciled>> /\ auto_disabled' \subseteq Account => TypeOK'
    BY DEF Reconcile, clockVars, brokerVars
  <2>2. ASSUME ReconcileClosed(a) PROVE TypeOK'
    <3> DEFINE n   == mem[a].pending
               st  == Booked(mem[a], seen[a], attempts[a][n].nuke)
               rec == [attempt |-> n, outcome |-> Classify(seen[a] - mem[a].pending_entry_balance)]
    <3>1. st \in StateRec
      BY RecordTypes
    <3>2. n \in Nat
      BY DEF StateRec
    <3>3. rec \in [attempt : Nat, outcome : Results]
      BY <3>2 DEF Classify, Results
    <3>4. Append(trade_log[a], rec) \in Seq([attempt : Nat, outcome : Results])
      <4> DEFINE Event == [attempt : Nat, outcome : Results]
      <4>1. trade_log[a] \in Seq(Event) /\ rec \in Event
        BY <3>3
      <4> HIDE DEF rec, Event
      <4>2. Append(trade_log[a], rec) \in Seq(Event)
        BY <4>1
      <4> QED
        BY <4>2 DEF Event
    <3>5. /\ mem' = [mem EXCEPT ![a] = st]
          /\ trade_log' = [trade_log EXCEPT ![a] = Append(trade_log[a], rec)]
          /\ reconciled' \subseteq Account /\ auto_disabled' \subseteq Account
      BY <2>2 DEF ReconcileClosed, Disables
    <3> HIDE DEF st, rec
    <3> QED
      BY <3>1, <3>4, <3>5 DEF Reconcile, clockVars, brokerVars
  <2> QED
    BY <2>1, <2>2 DEF Reconcile, ReconcileReadFails, ReconcileStillOpen, Disables
<1>4. CASE Assign
  <2>1. now.day \in Nat
    BY SessionAssumption
  <2> QED
    BY <1>4, <2>1 DEF Assign, Strategy, PassStep, clockVars, brokerVars, fileVars
<1> QED
  BY <1>1, <1>2, <1>3, <1>4

\* The fire loop keeps the types.
LEMMA FireTypes ==
  ASSUME TypeOK, NEW a \in Account,
         \/ MarkBlown(a) \/ Skip(a) \/ Place(a) \/ RecordPlaced(a) \/ RecordRaised(a)
  PROVE  TypeOK'
<1> USE DEF TypeOK
<1>1. now.day \in Nat /\ mem[a] \in StateRec /\ seen[a] \in Int /\ Len(attempts[a]) \in Nat
  BY SessionAssumption
<1>2. ASSUME NEW st \in StateRec, Persist(a, st)
      PROVE  mem' \in [Account -> StateRec] /\ states' \in [Account -> StateRec]
  BY <1>2 DEF Persist
<1> DEFINE dated == [mem[a] EXCEPT !.last_fire_date = now.day]
           pend  == Pending(mem[a], Len(attempts[a]), seen[a], now.day)
           dead  == [mem[a] EXCEPT !.phase = "blown"]
<1>3. dated \in StateRec /\ pend \in StateRec /\ dead \in StateRec
  BY <1>1, RecordTypes
<1> HIDE DEF dated, pend, dead
<1>4. CASE MarkBlown(a)
  <2>1. mem' \in [Account -> StateRec] /\ states' \in [Account -> StateRec]
    BY <1>2, <1>3, <1>4 DEF MarkBlown, dead
  <2> QED
    BY <1>4, <2>1 DEF MarkBlown, fireRest, clockVars
<1>5. CASE Skip(a)
  <2>1. mem' \in [Account -> StateRec] /\ states' \in [Account -> StateRec]
    BY <1>2, <1>3, <1>5 DEF Skip, dated
  <2>2. attempts' \in [Account -> Seq(AttemptRec)]
    BY <1>5, AttemptTypes DEF Skip, Results
  <2> QED
    BY <1>5, <2>1, <2>2 DEF Skip, fireRest, clockVars
<1>6. CASE Place(a)
  <2>1. attempts' \in [Account -> Seq(AttemptRec)]
    BY <1>6, AttemptTypes DEF Place, Results
  <2> QED
    BY <1>6, <2>1 DEF Place, fireRest, clockVars, PassStep
<1>7. CASE RecordPlaced(a)
  <2>1. mem' \in [Account -> StateRec] /\ states' \in [Account -> StateRec]
    BY <1>2, <1>3, <1>7 DEF RecordPlaced, pend
  <2> QED
    BY <1>7, <2>1 DEF RecordPlaced, fireRest, clockVars, PassStep
<1>8. CASE RecordRaised(a)
  <2>1. mem' \in [Account -> StateRec] /\ states' \in [Account -> StateRec]
    BY <1>2, <1>3, <1>8 DEF RecordRaised, pend, dated
  <2> QED
    BY <1>8, <2>1 DEF RecordRaised, fireRest, clockVars, PassStep
<1> QED
  BY <1>4, <1>5, <1>6, <1>7, <1>8

\* The end of the pass keeps the types.
LEMMA EndTypes ==
  ASSUME TypeOK, SaveSchedule \/ MergeStates \/ SaveRegistry \/ Crash
  PROVE  TypeOK'
<1> USE DEF TypeOK
<1>1. CASE SaveSchedule
  BY <1>1 DEF SaveSchedule, PassStep, clockVars, brokerVars
<1>2. CASE MergeStates
  BY <1>2 DEF MergeStates, MergeSave, PassStep, clockVars, brokerVars
<1>3. CASE SaveRegistry
  <2>1. enabled' \in [Account -> BOOLEAN]
    <3>1. enabled' = [a \in Account |-> enabled[a] /\ a \notin auto_disabled]
      BY <1>3 DEF SaveRegistry
    <3>2. \A a \in Account : (enabled[a] /\ a \notin auto_disabled) \in BOOLEAN
      OBVIOUS
    <3> QED
      BY <3>1, <3>2, Zenon
  <2> QED
    BY <1>3, <2>1, IdleTypes DEF SaveRegistry, clockVars, brokerVars
<1>4. CASE Crash
  BY <1>4, IdleTypes, DefaultTypes DEF Crash, clockVars, brokerVars, fileVars
<1> QED
  BY <1>1, <1>2, <1>3, <1>4

\* Snapshots and the operator keep the types.
LEMMA BesideTypes ==
  ASSUME TypeOK, \/ SnapLoad \/ SnapSave
                 \/ \E a \in Account : MarkPayout(a) \/ Toggle(a)
  PROVE  TypeOK'
<1> USE DEF TypeOK
<1>1. CASE SnapLoad
  BY <1>1 DEF SnapLoad, clockVars, brokerVars, fileVars, passVars
<1>2. CASE SnapSave
  <2>1. \A a \in Account : SnapRecord(a) \in StateRec
    <3> SUFFICES ASSUME NEW a \in Account PROVE SnapRecord(a) \in StateRec
      OBVIOUS
    <3>1. snap.mem[a] \in StateRec /\ balance[a] \in Int /\ day \in Nat
      BY SessionAssumption
    <3>2. Ratcheted(snap.mem[a], balance[a], day) \in StateRec
      BY <3>1, RecordTypes
    <3>3. [Ratcheted(snap.mem[a], balance[a], day) EXCEPT !.phase = "blown"] \in StateRec
      BY <3>1, <3>2, RecordTypes
    <3> QED
      BY <3>2, <3>3 DEF SnapRecord
  <2>2. states' \in [Account -> StateRec]
    BY <1>2, <2>1 DEF SnapSave
  <2> QED
    BY <1>2, <2>2, DefaultTypes DEF SnapSave, clockVars, brokerVars, passVars
<1>3. ASSUME NEW a \in Account, MarkPayout(a) PROVE TypeOK'
  <2>1. PaidOut(states[a]) \in StateRec
    BY RecordTypes, SessionAssumption
  <2>2. states' \in [Account -> StateRec]
    BY <1>3, <2>1 DEF MarkPayout
  <2>3. enabled' \in [Account -> BOOLEAN]
    <3> DEFINE on == enabled[a] \/ states'[a].phase # "retired"
    <3>1. enabled' = [enabled EXCEPT ![a] = on]
      BY <1>3 DEF MarkPayout
    <3>2. on \in BOOLEAN
      OBVIOUS
    <3> HIDE DEF on
    <3> QED
      BY <3>1, <3>2
  <2>4. payouts_marked' \in [Account -> Nat]
    BY <1>3 DEF MarkPayout
  <2>5. UNCHANGED <<clockVars, brokerVars, stamps, trade_log, passVars, snap>>
    BY <1>3 DEF MarkPayout
  <2> QED
    BY <2>2, <2>3, <2>4, <2>5 DEF clockVars, brokerVars, passVars
<1>4. ASSUME NEW a \in Account, Toggle(a) PROVE TypeOK'
  BY <1>4 DEF Toggle, clockVars, brokerVars, passVars
<1> QED
  BY <1>1, <1>2, <1>3, <1>4

\* Every step keeps the types.
LEMMA NextTypes == TypeOK /\ [Next]_vars => TypeOK'
<1> SUFFICES ASSUME TypeOK, [Next]_vars PROVE TypeOK'
  OBVIOUS
<1>1. CASE PassNext
  BY <1>1, ReconcileTypes, FireTypes, EndTypes DEF PassNext
<1>2. CASE UNCHANGED vars
  BY <1>2 DEF vars, clockVars, brokerVars, fileVars, passVars, TypeOK
<1>3. ASSUME NEW a \in Account, Delist(a) PROVE TypeOK'
  BY <1>3 DEF Delist, clockVars, fileVars, passVars, TypeOK
<1> QED
  BY <1>1, <1>2, <1>3, BrokerTypes, ReconcileTypes, EndTypes, BesideTypes DEF Next

\* Type correctness of every reachable state.
THEOREM TypeCorrect == Spec => []TypeOK
BY InitTypes, NextTypes, PTL DEF Spec

-----------------------------------------------------------------------------
(* One attempt per day.  The proof is about the copies of last_fire_date:  *)
(* the one on disk, the one in the pass's memory, and the broker's record  *)
(* of the attempt, which is ahead of both between place and merge_save.    *)

Today(a) == \E n \in DOMAIN attempts[a] : attempts[a][n].day = day

\* The attempts are of the past or of today.
NoFutureAttempt ==
  \A a \in Account : \A n \in DOMAIN attempts[a] : attempts[a][n].day <= day

\* At most one account is between place_bracket and merge_save, and it has left
\* the fire loop's list.
OnePlacing ==
  /\ pc \notin {"placed", "raised"} => cur = {}
  /\ \A a, b \in cur : a = b
  /\ cur \cap todo = {}

\* An attempt made today shows on disk and in the memory of a pass.
FireDateOnDisk ==
  \A a \in Account : Today(a) => a \in cur \/ states[a].last_fire_date = day
FireDateInMemory ==
  pc # "idle" => \A a \in Account : Today(a) => a \in cur \/ mem[a].last_fire_date = day

\* What is still to be fired was not attempted today.
DueIsFresh ==
  pc \in {"fire", "placed", "raised"} =>
    \A a \in todo : BelowMLL(mem[a], seen[a]) \/ ~Today(a)

PassIsOfToday == pc # "idle" => now.day = day

DayInv ==
  /\ TypeOK /\ OneAttemptPerDay /\ NoFutureAttempt /\ OnePlacing
  /\ FireDateOnDisk /\ FireDateInMemory /\ DueIsFresh /\ PassIsOfToday
  /\ ~snap.busy

\* Nothing was attempted at the start.
LEMMA InitDayInv == Init => DayInv
<1> SUFFICES ASSUME Init PROVE DayInv
  OBVIOUS
<1>1. TypeOK
  BY InitTypes
<1>2. \A a \in Account : DOMAIN attempts[a] = {} /\ Len(attempts[a]) = 0
  BY DEF Init
<1>3. OneAttemptPerDay /\ NoFutureAttempt /\ FireDateOnDisk
  BY <1>2 DEF OneAttemptPerDay, NoFutureAttempt, FireDateOnDisk, Today
<1> QED
  BY <1>1, <1>3 DEF Init, DayInv, OnePlacing, FireDateInMemory, DueIsFresh, PassIsOfToday

\* Steps that leave the attempts, the day and the files' and the pass's fire
\* dates alone keep what is said of the attempts.
LEMMA DaysUntouched ==
  ASSUME DayInv, UNCHANGED <<day, attempts>>
  PROVE  /\ OneAttemptPerDay' /\ NoFutureAttempt'
         /\ \A a \in Account : Today(a)' <=> Today(a)
BY DEF DayInv, OneAttemptPerDay, NoFutureAttempt, Today

\* An attempt of an account that had none today.
LEMMA AttemptDays ==
  ASSUME DayInv, NEW a \in Account, NEW r \in Results, Attempt(a, r), day' = day, ~Today(a)
  PROVE  /\ OneAttemptPerDay' /\ NoFutureAttempt'
         /\ \A b \in Account : Today(b)' => b = a \/ Today(b)
<1> DEFINE rec == [day |-> day, nuke |-> NeedsNuke(mem[a]), result |-> r]
           len == Len(attempts[a])
<1>1. attempts' = [attempts EXCEPT ![a] = Append(attempts[a], rec)] /\ rec.day = day
  BY DEF Attempt
<1>2. attempts \in [Account -> Seq(AttemptRec)] /\ attempts[a] \in Seq(AttemptRec) /\ day \in Nat
  BY SessionAssumption DEF DayInv, TypeOK
<1> HIDE DEF rec
<1>3. \A b \in Account : b # a => attempts'[b] = attempts[b]
  BY <1>1, <1>2
<1>4. /\ attempts'[a] = Append(attempts[a], rec)
      /\ DOMAIN attempts'[a] = 1..(len + 1) /\ Len(attempts'[a]) = len + 1
      /\ len \in Nat /\ DOMAIN attempts[a] = 1..len
      /\ attempts'[a][len + 1] = rec
      /\ \A n \in 1..len : attempts'[a][n] = attempts[a][n]
  BY <1>1, <1>2
<1>5. \A n \in 1..len : attempts[a][n].day \in Nat /\ attempts[a][n].day < day
  <2> SUFFICES ASSUME NEW n \in 1..len
               PROVE  attempts[a][n].day \in Nat /\ attempts[a][n].day < day
    OBVIOUS
  <2>1. attempts[a][n] \in AttemptRec
    BY <1>2, <1>4
  <2>2. attempts[a][n].day \in Nat
    BY <2>1, SessionAssumption DEF AttemptRec
  <2>3. attempts[a][n].day <= day /\ attempts[a][n].day # day
    BY <1>4 DEF DayInv, NoFutureAttempt, Today
  <2> QED
    BY <1>2, <2>2, <2>3
<1>6. NoFutureAttempt'
  <2> SUFFICES ASSUME NEW b \in Account, NEW n \in DOMAIN attempts'[b]
               PROVE  attempts'[b][n].day <= day
    BY DEF NoFutureAttempt
  <2>1. CASE b # a
    BY <1>3, <2>1 DEF DayInv, NoFutureAttempt
  <2>2. CASE b = a
    BY <1>1, <1>2, <1>4, <1>5, <2>2
  <2> QED
    BY <2>1, <2>2
<1>7. OneAttemptPerDay'
  <2> SUFFICES ASSUME NEW b \in Account, NEW n \in 1..(Len(attempts'[b]) - 1)
               PROVE  attempts'[b][n].day < attempts'[b][n + 1].day
    BY DEF OneAttemptPerDay
  <2>1. CASE b # a
    BY <1>3, <2>1 DEF DayInv, OneAttemptPerDay
  <2>2. CASE b = a /\ n = len
    BY <1>1, <1>4, <1>5, <2>2
  <2>3. CASE b = a /\ n # len
    <3>1. n \in 1..(len - 1) /\ n \in 1..len /\ n + 1 \in 1..len
      BY <1>4, <2>3
    <3> QED
      BY <1>4, <2>3, <3>1 DEF DayInv, OneAttemptPerDay
  <2> QED
    BY <2>1, <2>2, <2>3
<1>8. \A b \in Account : Today(b)' => b = a \/ Today(b)
  BY <1>3 DEF Today
<1> QED
  BY <1>6, <1>7, <1>8

\* What the services do to a record keeps its fire date, or sets it.
LEMMA FireDates ==
  ASSUME NEW st \in StateRec, NEW bal, NEW n, NEW today, NEW nuke
  PROVE  /\ Booked(st, bal, nuke).last_fire_date = st.last_fire_date
         /\ Ratcheted(st, bal, today).last_fire_date = st.last_fire_date
         /\ PaidOut(st).last_fire_date = st.last_fire_date
         /\ [st EXCEPT !.phase = "blown"].last_fire_date = st.last_fire_date
         /\ Pending(st, n, bal, today).last_fire_date = today
         /\ [st EXCEPT !.last_fire_date = today].last_fire_date = today
BY DEF Booked, Advanced, Ratcheted, PaidOut, NextCycle, Pending, StateRec

\* A closing trade keeps the dates of the attempts.
LEMMA CloseDays ==
  ASSUME DayInv, NEW a \in Account, NEW r \in Results, CloseTrade(a, r)
  PROVE  /\ OneAttemptPerDay' /\ NoFutureAttempt'
         /\ \A b \in Account : Today(b)' <=> Today(b)
<1>1. PICK n \in OpenOrders(a) : attempts' = [attempts EXCEPT ![a][n].result = r]
  BY DEF CloseTrade
<1>2. attempts \in [Account -> Seq(AttemptRec)] /\ attempts[a] \in Seq(AttemptRec)
  BY DEF DayInv, TypeOK
<1>3. n \in DOMAIN attempts[a] /\ attempts[a][n] \in AttemptRec
  BY <1>1, <1>2 DEF OpenOrders
<1> DEFINE rec == [attempts[a][n] EXCEPT !.result = r]
<1>4. rec.day = attempts[a][n].day
  BY <1>3 DEF AttemptRec
<1>5. attempts' = [attempts EXCEPT ![a] = [attempts[a] EXCEPT ![n] = rec]]
  BY <1>1
<1> HIDE DEF rec
<1>6. \A b \in Account : /\ DOMAIN attempts'[b] = DOMAIN attempts[b]
                         /\ Len(attempts'[b]) = Len(attempts[b])
                         /\ \A m \in DOMAIN attempts[b] : attempts'[b][m].day = attempts[b][m].day
  <2> SUFFICES ASSUME NEW b \in Account
               PROVE  /\ DOMAIN attempts'[b] = DOMAIN attempts[b]
                      /\ Len(attempts'[b]) = Len(attempts[b])
                      /\ \A m \in DOMAIN attempts[b] : attempts'[b][m].day = attempts[b][m].day
    OBVIOUS
  <2>1. CASE b # a
    BY <1>2, <1>5, <2>1
  <2>2. CASE b = a
    BY <1>2, <1>3, <1>4, <1>5, <2>2
  <2> QED
    BY <2>1, <2>2
<1>7. day' = day
  BY DEF CloseTrade, clockVars
<1>8. NoFutureAttempt' /\ \A b \in Account : Today(b)' <=> Today(b)
  BY <1>6, <1>7 DEF DayInv, NoFutureAttempt, Today
<1>9. OneAttemptPerDay'
  <2> SUFFICES ASSUME NEW b \in Account, NEW m \in 1..(Len(attempts'[b]) - 1)
               PROVE  attempts'[b][m].day < attempts'[b][m + 1].day
    BY DEF OneAttemptPerDay
  <2>1. attempts[b] \in Seq(AttemptRec)
    BY <1>2
  <2>2. m \in 1..(Len(attempts[b]) - 1) /\ m \in DOMAIN attempts[b] /\ m + 1 \in DOMAIN attempts[b]
    BY <1>6, <2>1
  <2> QED
    BY <1>6, <2>2 DEF DayInv, OneAttemptPerDay
<1> QED
  BY <1>8, <1>9

\* The broker and the clock.
LEMMA BrokerDays ==
  ASSUME DayInv, (\E a \in Account, r \in Results : CloseTrade(a, r)) \/ Clock
  PROVE  DayInv'
<1>1. TypeOK'
  BY BrokerTypes DEF DayInv
<1>2. ASSUME NEW a \in Account, NEW r \in Results, CloseTrade(a, r) PROVE DayInv'
  <2>1. OneAttemptPerDay' /\ NoFutureAttempt' /\ \A b \in Account : Today(b)' <=> Today(b)
    BY <1>2, CloseDays
  <2>2. todo \subseteq Account
    BY DEF DayInv, TypeOK
  <2>3. UNCHANGED <<day, states, pc, now, mem, seen, todo, cur, snap>>
    BY <1>2 DEF CloseTrade, clockVars, fileVars, passVars
  <2>4. OnePlacing' /\ PassIsOfToday' /\ ~snap'.busy
    BY <2>3 DEF DayInv, OnePlacing, PassIsOfToday
  <2>5. FireDateOnDisk' /\ FireDateInMemory'
    BY <2>1, <2>3 DEF DayInv, FireDateOnDisk, FireDateInMemory
  <2>6. DueIsFresh'
    BY <2>1, <2>2, <2>3 DEF DayInv, DueIsFresh, BelowMLL
  <2> QED
    BY <1>1, <2>1, <2>4, <2>5, <2>6 DEF DayInv
<1>3. CASE Clock
  <2>1. UNCHANGED <<attempts, states, pc, now, mem, seen, todo, cur, snap>>
    BY <1>3 DEF Clock, fileVars, passVars
  <2>2. CASE day' = day
    <3>1. OneAttemptPerDay' /\ NoFutureAttempt' /\ \A a \in Account : Today(a)' <=> Today(a)
      BY <2>1, <2>2, DaysUntouched
    <3>2. OnePlacing' /\ PassIsOfToday' /\ ~snap'.busy
      BY <2>1, <2>2 DEF DayInv, OnePlacing, PassIsOfToday
    <3>3. FireDateOnDisk' /\ FireDateInMemory'
      BY <2>1, <2>2, <3>1 DEF DayInv, FireDateOnDisk, FireDateInMemory
    <3>4. DueIsFresh'
      BY <2>1, <3>1 DEF DayInv, DueIsFresh, BelowMLL, TypeOK
    <3> QED
      BY <1>1, <3>1, <3>2, <3>3, <3>4 DEF DayInv
  <2>3. CASE day' # day
    <3>1. pc = "idle" /\ day' = day + 1 /\ day \in Nat
      BY <1>3, <2>3, SessionAssumption DEF Clock, ClockMoves, DayInv, TypeOK
    <3>2. ASSUME NEW a \in Account, NEW n \in DOMAIN attempts[a]
          PROVE  attempts[a][n].day \in Nat /\ attempts[a][n].day <= day
      <4>1. attempts[a] \in Seq(AttemptRec)
        BY DEF DayInv, TypeOK
      <4>2. attempts[a][n] \in AttemptRec
        BY <4>1
      <4> QED
        BY <4>2, SessionAssumption DEF AttemptRec, DayInv, NoFutureAttempt
    <3>3. NoFutureAttempt'
      BY <2>1, <3>1, <3>2 DEF NoFutureAttempt
    <3>4. \A a \in Account : ~Today(a)'
      BY <2>1, <3>1, <3>2 DEF Today
    <3>5. OneAttemptPerDay' /\ OnePlacing' /\ ~snap'.busy
      BY <2>1 DEF DayInv, OneAttemptPerDay, OnePlacing
    <3>6. FireDateOnDisk' /\ FireDateInMemory' /\ DueIsFresh' /\ PassIsOfToday'
      BY <2>1, <3>1, <3>4 DEF FireDateOnDisk, FireDateInMemory, DueIsFresh, PassIsOfToday
    <3> QED
      BY <1>1, <3>3, <3>5, <3>6 DEF DayInv
  <2> QED
    BY <2>2, <2>3
<1> QED
  BY <1>2, <1>3

\* A pass up to the assignment: what Assign lists as due was not attempted today.
LEMMA ReconcileDays ==
  ASSUME DayInv, \/ \E manual \in BOOLEAN : StartPass(manual)
                 \/ ListAccounts
                 \/ \E a \in Account : Reconcile(a)
                 \/ Assign
  PROVE  DayInv'
<1>1. TypeOK /\ TypeOK'
  BY ReconcileTypes DEF DayInv
<1>2. UNCHANGED <<day, attempts, states, cur, snap>> /\ cur = {}
  BY DEF StartPass, ListAccounts, Reconcile, Assign, clockVars, brokerVars, fileVars,
         DayInv, OnePlacing
<1>3. /\ OneAttemptPerDay' /\ NoFutureAttempt'
      /\ \A a \in Account : Today(a)' <=> Today(a)
  BY <1>2, DaysUntouched
<1>4. FireDateOnDisk' /\ OnePlacing' /\ ~snap'.busy
  BY <1>2, <1>3 DEF DayInv, FireDateOnDisk, OnePlacing
<1>5. PassIsOfToday'
  BY <1>2 DEF DayInv, PassIsOfToday, StartPass, ListAccounts, Reconcile, Assign
<1>6. FireDateInMemory'
  <2>1. ASSUME NEW manual \in BOOLEAN, StartPass(manual) PROVE FireDateInMemory'
    BY <1>2, <1>3, <2>1 DEF StartPass, DayInv, FireDateInMemory, FireDateOnDisk
  <2>2. CASE ListAccounts
    <3>1. \A a \in Account : mem'[a].last_fire_date = mem[a].last_fire_date
      <4> SUFFICES ASSUME NEW a \in Account
                   PROVE  mem'[a].last_fire_date = mem[a].last_fire_date
        OBVIOUS
      <4>1. mem[a] \in StateRec
        BY <1>1 DEF TypeOK
      <4>2. Ratcheted(mem[a], balance[a], now.day).last_fire_date = mem[a].last_fire_date
        BY <4>1, FireDates
      <4>3. mem'[a] \in {mem[a], Ratcheted(mem[a], balance[a], now.day)}
        BY <2>2 DEF ListAccounts
      <4> QED
        BY <4>2, <4>3
    <3> QED
      BY <1>2, <1>3, <2>2, <3>1 DEF ListAccounts, DayInv, FireDateInMemory
  <2>3. ASSUME NEW a \in Account, Reconcile(a) PROVE FireDateInMemory'
    <3>1. \A b \in Account : mem'[b].last_fire_date = mem[b].last_fire_date
      <4> DEFINE st == Booked(mem[a], seen[a], attempts[a][mem[a].pending].nuke)
      <4>1. mem[a] \in StateRec /\ mem \in [Account -> StateRec]
        BY <1>1 DEF TypeOK
      <4>2. st.last_fire_date = mem[a].last_fire_date
        BY <4>1, FireDates
      <4>3. mem' = mem \/ mem' = [mem EXCEPT ![a] = st]
        BY <2>3 DEF Reconcile, ReconcileReadFails, ReconcileStillOpen, ReconcileClosed
      <4> HIDE DEF st
      <4> QED
        BY <4>1, <4>2, <4>3
    <3> QED
      BY <1>2, <1>3, <2>3, <3>1 DEF Reconcile, DayInv, FireDateInMemory
  <2>4. CASE Assign
    BY <1>2, <1>3, <2>4 DEF Assign, DayInv, FireDateInMemory
  <2> QED
    BY <2>1, <2>2, <2>3, <2>4
<1>7. DueIsFresh'
  <2>1. CASE Assign
    <3> SUFFICES ASSUME NEW a \in todo' PROVE BelowMLL(mem[a], seen[a]) \/ ~Today(a)
      BY <1>1, <1>3, <2>1 DEF DueIsFresh, Assign, BelowMLL, TypeOK
    <3>1. a \in Account /\ now.day = day /\ pc # "idle"
      BY <1>1, <2>1 DEF Assign, TypeOK, DayInv, PassIsOfToday
    <3>2. CASE a \in tradeable \ Strategy
      BY <3>2 DEF Strategy
    <3>3. CASE Due(a)
      BY <1>2, <3>1, <3>3 DEF Due, Attempted, DayInv, FireDateInMemory
    <3> QED
      BY <2>1, <3>2, <3>3 DEF Assign
  <2>2. CASE pc' \in {"list", "reconcile"}
    BY <2>2 DEF DueIsFresh
  <2> QED
    BY <2>1, <2>2 DEF StartPass, ListAccounts, Reconcile
<1> QED
  BY <1>1, <1>3, <1>4, <1>5, <1>6, <1>7 DEF DayInv

\* A fire: the attempt is new, and the record that goes to disk and memory is dated.
LEMMA FireDays ==
  ASSUME DayInv, NEW a \in Account,
         \/ MarkBlown(a) \/ Skip(a) \/ Place(a) \/ RecordPlaced(a) \/ RecordRaised(a)
  PROVE  DayInv'
<1>1. TypeOK /\ TypeOK'
  BY FireTypes DEF DayInv
<1>2. /\ mem \in [Account -> StateRec] /\ states \in [Account -> StateRec]
      /\ mem[a] \in StateRec /\ todo \subseteq Account
  BY <1>1 DEF TypeOK
<1>3. /\ UNCHANGED <<day, now, seen, snap>> /\ now.day = day /\ pc # "idle" /\ pc' # "idle"
      /\ todo' \subseteq todo /\ pc \in {"fire", "placed", "raised"}
      /\ pc' \in {"fire", "placed", "raised"}
  BY DEF MarkBlown, Skip, Place, RecordPlaced, RecordRaised, fireRest, clockVars,
         DayInv, PassIsOfToday
<1>4. PassIsOfToday' /\ ~snap'.busy
  BY <1>3 DEF DayInv, PassIsOfToday
<1>5. ASSUME NEW st \in StateRec, Persist(a, st),
             st.last_fire_date = day \/ (st.last_fire_date = mem[a].last_fire_date /\ a \notin cur),
             OneAttemptPerDay', NoFutureAttempt', OnePlacing',
             \A b \in Account : Today(b)' => Today(b) \/ (b = a /\ st.last_fire_date = day),
             cur' = {}, cur \subseteq {a}, a \notin todo'
      PROVE  DayInv'
  <2>1. /\ mem' = [mem EXCEPT ![a] = st] /\ states' = [states EXCEPT ![a] = st]
    BY <1>5 DEF Persist
  <2>2. \A b \in Account : b # a => mem'[b] = mem[b] /\ states'[b] = states[b] /\ b \notin cur
    BY <1>2, <1>5, <2>1
  <2>3. mem'[a] = st /\ states'[a] = st
    BY <1>2, <2>1
  <2>4. Today(a)' => st.last_fire_date = day
    BY <1>3, <1>5 DEF DayInv, FireDateInMemory
  <2>5. FireDateOnDisk' /\ FireDateInMemory'
    BY <1>3, <1>5, <2>2, <2>3, <2>4 DEF DayInv, FireDateOnDisk, FireDateInMemory
  <2>6. DueIsFresh'
    BY <1>2, <1>3, <1>5, <2>2 DEF DayInv, DueIsFresh, BelowMLL
  <2> QED
    BY <1>1, <1>4, <1>5, <2>5, <2>6 DEF DayInv
<1> DEFINE dated == [mem[a] EXCEPT !.last_fire_date = now.day]
           pend  == Pending(mem[a], Len(attempts[a]), seen[a], now.day)
           dead  == [mem[a] EXCEPT !.phase = "blown"]
<1>6. /\ dated \in StateRec /\ dated.last_fire_date = day
      /\ pend \in StateRec /\ pend.last_fire_date = day
      /\ dead \in StateRec /\ dead.last_fire_date = mem[a].last_fire_date
  <2>1. now.day \in Nat /\ seen[a] \in Int /\ Len(attempts[a]) \in Nat
    BY <1>1, SessionAssumption DEF TypeOK
  <2>2. mem[a] \in StateRec /\ now.day = day
    BY <1>2, <1>3
  <2>3. dated \in StateRec /\ pend \in StateRec /\ dead \in StateRec
    BY <2>1, <2>2, RecordTypes
  <2>4. /\ dated.last_fire_date = now.day /\ pend.last_fire_date = now.day
        /\ dead.last_fire_date = mem[a].last_fire_date
    BY <2>2 DEF StateRec, Pending
  <2> QED
    BY <2>2, <2>3, <2>4
<1> HIDE DEF dated, pend, dead
<1>7. CASE MarkBlown(a)
  <2>1. UNCHANGED <<day, attempts, cur, pc>> /\ cur = {} /\ a \notin todo'
    BY <1>3, <1>7 DEF MarkBlown, DayInv, OnePlacing
  <2>2. OneAttemptPerDay' /\ NoFutureAttempt' /\ \A b \in Account : Today(b)' <=> Today(b)
    BY <2>1, DaysUntouched
  <2>3. OnePlacing'
    BY <2>1 DEF OnePlacing
  <2>4. CASE Persist(a, dead)
    BY <1>5, <1>6, <2>1, <2>2, <2>3, <2>4
  <2>5. CASE UNCHANGED <<mem, states>>
    <3>1. FireDateOnDisk' /\ FireDateInMemory'
      BY <1>3, <2>1, <2>2, <2>5 DEF DayInv, FireDateOnDisk, FireDateInMemory
    <3>2. DueIsFresh'
      BY <1>2, <1>3, <2>2, <2>5 DEF DayInv, DueIsFresh, BelowMLL
    <3> QED
      BY <1>1, <1>4, <2>2, <2>3, <3>1, <3>2 DEF DayInv
  <2> QED
    BY <1>7, <2>4, <2>5 DEF MarkBlown, dead
<1>8. CASE Skip(a)
  <2>1. ~Today(a) /\ cur' = {} /\ cur = {} /\ a \notin todo' /\ pc' = "fire"
    BY <1>8 DEF Skip, DayInv, DueIsFresh, OnePlacing
  <2>2. /\ OneAttemptPerDay' /\ NoFutureAttempt'
        /\ \A b \in Account : Today(b)' => b = a \/ Today(b)
    BY <1>3, <1>8, <2>1, AttemptDays DEF Skip, Results
  <2>3. OnePlacing'
    BY <2>1 DEF OnePlacing
  <2>4. Persist(a, dated)
    BY <1>8 DEF Skip, dated
  <2> QED
    BY <1>5, <1>6, <2>1, <2>2, <2>3, <2>4
<1>9. CASE Place(a)
  <2>1. /\ ~Today(a) /\ cur' = {a} /\ cur = {} /\ todo' = todo \ {a}
        /\ pc' \in {"placed", "raised"}
    BY <1>9 DEF Place, DayInv, DueIsFresh, OnePlacing
  <2>2. /\ OneAttemptPerDay' /\ NoFutureAttempt'
        /\ \A b \in Account : Today(b)' => b = a \/ Today(b)
    BY <1>3, <1>9, <2>1, AttemptDays DEF Place, Results
  <2>3. OnePlacing' /\ UNCHANGED <<mem, states>>
    BY <1>9, <2>1 DEF Place, OnePlacing
  <2>4. FireDateOnDisk' /\ FireDateInMemory'
    BY <1>3, <2>1, <2>2, <2>3 DEF DayInv, FireDateOnDisk, FireDateInMemory
  <2>5. DueIsFresh'
    BY <1>2, <1>3, <2>1, <2>2, <2>3 DEF DayInv, DueIsFresh, BelowMLL
  <2> QED
    BY <1>1, <1>4, <2>2, <2>3, <2>4, <2>5 DEF DayInv
<1>10. CASE RecordPlaced(a) \/ RecordRaised(a)
  <2>1. /\ UNCHANGED <<day, attempts, todo>> /\ cur' = {} /\ cur \subseteq {a} /\ a \in cur
        /\ pc' = "fire" /\ a \notin todo'
    BY <1>3, <1>10 DEF RecordPlaced, RecordRaised, DayInv, OnePlacing
  <2>2. OneAttemptPerDay' /\ NoFutureAttempt' /\ \A b \in Account : Today(b)' <=> Today(b)
    BY <2>1, DaysUntouched
  <2>3. OnePlacing'
    BY <2>1 DEF OnePlacing
  <2>4. Persist(a, pend) \/ Persist(a, dated)
    BY <1>10 DEF RecordPlaced, RecordRaised, pend, dated
  <2> QED
    BY <1>5, <1>6, <2>1, <2>2, <2>3, <2>4
<1> QED
  BY <1>7, <1>8, <1>9, <1>10

\* The end of the pass writes memory over the files.
LEMMA EndDays ==
  ASSUME DayInv, SaveSchedule \/ MergeStates \/ SaveRegistry
  PROVE  DayInv'
<1>1. TypeOK /\ TypeOK'
  BY EndTypes DEF DayInv
<1>2. UNCHANGED <<day, attempts, snap>> /\ cur = {} /\ cur' = {} /\ now.day = day
  BY DEF SaveSchedule, MergeStates, SaveRegistry, PassIdle, clockVars, brokerVars,
         DayInv, OnePlacing, PassIsOfToday
<1>3. /\ OneAttemptPerDay' /\ NoFutureAttempt'
      /\ \A a \in Account : Today(a)' <=> Today(a)
  BY <1>2, DaysUntouched
<1>4. OnePlacing' /\ ~snap'.busy
  BY <1>2 DEF OnePlacing, DayInv
<1>5. DueIsFresh' /\ PassIsOfToday'
  BY <1>2 DEF DueIsFresh, PassIsOfToday, SaveSchedule, MergeStates, SaveRegistry, PassIdle
<1>6. FireDateInMemory' /\ FireDateOnDisk'
  <2>1. CASE SaveSchedule
    BY <1>2, <1>3, <2>1 DEF SaveSchedule, DayInv, FireDateInMemory, FireDateOnDisk
  <2>2. CASE MergeStates
    <3>1. \A a \in Account : states'[a] = mem[a] \/ states'[a] = states[a]
      BY <2>2 DEF MergeStates, MergeSave
    <3> QED
      BY <1>2, <1>3, <2>2, <3>1 DEF MergeStates, DayInv, FireDateInMemory, FireDateOnDisk
  <2>3. CASE SaveRegistry
    BY <1>2, <1>3, <2>3 DEF SaveRegistry, PassIdle, DayInv, FireDateInMemory, FireDateOnDisk
  <2> QED
    BY <2>1, <2>2, <2>3
<1> QED
  BY <1>1, <1>3, <1>4, <1>5, <1>6 DEF DayInv

\* The operator's clicks leave the fire dates alone.
LEMMA OperatorDays ==
  ASSUME DayInv, \E a \in Account : MarkPayout(a) \/ Toggle(a)
  PROVE  DayInv'
<1>1. TypeOK /\ TypeOK'
  BY BesideTypes DEF DayInv
<1>2. UNCHANGED <<day, attempts, snap, pc, now, mem, seen, todo, cur>>
  BY DEF MarkPayout, Toggle, clockVars, brokerVars, passVars
<1>3. /\ OneAttemptPerDay' /\ NoFutureAttempt'
      /\ \A a \in Account : Today(a)' <=> Today(a)
  BY <1>2, DaysUntouched
<1>4. \A b \in Account : states'[b].last_fire_date = states[b].last_fire_date
  <2>1. ASSUME NEW a \in Account, MarkPayout(a)
        PROVE  \A b \in Account : states'[b].last_fire_date = states[b].last_fire_date
    <3>1. states \in [Account -> StateRec] /\ states[a] \in StateRec
      BY <1>1 DEF TypeOK
    <3>2. PaidOut(states[a]).last_fire_date = states[a].last_fire_date
      BY <3>1, FireDates
    <3>3. states' = [states EXCEPT ![a] = PaidOut(states[a])]
      BY <2>1 DEF MarkPayout
    <3> QED
      BY <3>1, <3>2, <3>3
  <2>2. ASSUME NEW a \in Account, Toggle(a)
        PROVE  \A b \in Account : states'[b].last_fire_date = states[b].last_fire_date
    BY <2>2 DEF Toggle
  <2> QED
    BY <2>1, <2>2
<1>5. OnePlacing' /\ PassIsOfToday' /\ ~snap'.busy /\ FireDateOnDisk' /\ FireDateInMemory'
  BY <1>2, <1>3, <1>4
     DEF DayInv, OnePlacing, PassIsOfToday, FireDateOnDisk, FireDateInMemory
<1>6. DueIsFresh'
  BY <1>1, <1>2, <1>3 DEF DayInv, DueIsFresh, BelowMLL, TypeOK
<1> QED
  BY <1>1, <1>3, <1>5, <1>6 DEF DayInv

\* Without snapshots beside a pass and without crashes every step keeps it.
LEMMA NextDayInv ==
  ASSUME Events \cap {"snapshot", "crash"} = {}, DayInv, [Next]_vars
  PROVE  DayInv'
<1>1. ~SnapLoad /\ ~SnapSave /\ ~Crash
  BY DEF SnapLoad, SnapSave, Crash, DayInv
<1>2. CASE PassNext
  BY <1>2, ReconcileDays, FireDays, EndDays DEF PassNext
<1>3. CASE UNCHANGED vars \/ \E a \in Account : Delist(a)
  <2>1. TypeOK'
    BY <1>3, NextTypes DEF DayInv
  <2>2. UNCHANGED <<day, attempts, states, snap, pc, now, mem, seen, todo, cur>>
    BY <1>3, DelistsOnly DEF vars, clockVars, brokerVars, fileVars, passVars
  <2>3. /\ OneAttemptPerDay' /\ NoFutureAttempt'
        /\ \A a \in Account : Today(a)' <=> Today(a)
    BY <2>2, DaysUntouched
  <2>4. OnePlacing' /\ PassIsOfToday' /\ ~snap'.busy /\ FireDateOnDisk' /\ FireDateInMemory'
    BY <2>2, <2>3
       DEF DayInv, OnePlacing, PassIsOfToday, FireDateOnDisk, FireDateInMemory
  <2>5. DueIsFresh'
    BY <2>1, <2>2, <2>3 DEF DayInv, DueIsFresh, BelowMLL, TypeOK
  <2> QED
    BY <2>1, <2>3, <2>4, <2>5 DEF DayInv
<1> QED
  BY <1>1, <1>2, <1>3, BrokerDays, ReconcileDays, OperatorDays DEF Next

\* One attempt per account per day, for every fleet, calendar and number of
\* passes, with refused and timed-out orders, failed reads, liquidations,
\* withdrawals and toggles at any point; the two events left out are the ones
\* that do break it.
THEOREM OneAttemptPerDayHolds ==
  ASSUME Events \cap {"snapshot", "crash"} = {}
  PROVE  Spec => []OneAttemptPerDay
<1>1. DayInv /\ [Next]_vars => DayInv'
  BY NextDayInv
<1>2. DayInv => OneAttemptPerDay
  BY DEF DayInv
<1> QED
  BY InitDayInv, <1>1, <1>2, PTL DEF Spec

-----------------------------------------------------------------------------
(* One record per trade, and no order while a withdrawal is due.  Both are *)
(* about the records that wait for reconcile(): what is pending is not yet *)
(* in the trade log, on disk or in memory, whichever the next pass reads.  *)

WinsIn(log) == Cardinality({i \in DOMAIN log : log[i].outcome = "win"})

\* A record against the log it will be booked in: its pending trade is not in
\* it, and the wins in it were counted towards this cycle or an earlier one.
Sound(st, len, log, marked) ==
  /\ st.pending <= len
  /\ st.pending # 0 => \A i \in DOMAIN log : log[i].attempt # st.pending
  /\ st.payout_ready => st.pending = 0
  /\ st.winning_days <= WinDays
  /\ ~st.payout_ready => st.winning_days < WinDays
  /\ WinsIn(log) <= WinDays * marked + st.winning_days
SoundFor(a, st) == Sound(st, Len(attempts[a]), trade_log[a], payouts_marked[a])

LoggedBelow ==
  \A a \in Account : \A i \in DOMAIN trade_log[a] : trade_log[a][i].attempt \in 1..Len(attempts[a])

\* A booked account's record on disk is behind until merge_save at the end.
DiskSound   == \A a \in Account : a \notin reconciled \/ pc = "registry" => SoundFor(a, states[a])
MemorySound == pc # "idle" => \A a \in Account : SoundFor(a, mem[a])

Nobody  == pc \in {"idle", "list"} => reconciled = {}
Waiting == pc = "reconcile" => \A a \in todo : mem[a].pending # 0
Firing  ==
  /\ pc \in {"fire", "placed", "raised"} =>
       \A a \in todo : BelowMLL(mem[a], seen[a]) \/ ~mem[a].payout_ready
  /\ \A a \in cur : ~Logged(a, Len(attempts[a])) /\ ~mem[a].payout_ready

BookInv ==
  /\ BookedOnce /\ LoggedBelow /\ DiskSound /\ MemorySound /\ Nobody /\ Waiting /\ Firing

\* Nothing is pending and nothing was won at the start.
LEMMA InitBookInv == Init => BookInv
<1> SUFFICES ASSUME Init PROVE BookInv
  OBVIOUS
<1>1. \A a \in Account : trade_log[a] = <<>> /\ DOMAIN trade_log[a] = {} /\ Len(attempts[a]) = 0
  BY DEF Init
<1>2. WinsIn(<<>>) = 0
  <2>1. {i \in DOMAIN <<>> : <<>>[i].outcome = "win"} = {}
    OBVIOUS
  <2> QED
    BY <2>1, FS_EmptySet DEF WinsIn
<1>3. ASSUME NEW a \in Account PROVE SoundFor(a, states[a])
  <2>1. /\ states[a].pending = 0 /\ ~states[a].payout_ready /\ states[a].winning_days = 0
        /\ payouts_marked[a] = 0
    BY DEF Init, NoStates
  <2>2. WinDays * payouts_marked[a] = 0 /\ 0 < WinDays /\ 0 <= WinDays
    BY <2>1, SessionAssumption
  <2> QED
    BY <1>1, <1>2, <2>1, <2>2, SessionAssumption DEF SoundFor, Sound
<1>4. BookedOnce /\ LoggedBelow
  BY <1>1 DEF BookedOnce, LoggedBelow
<1>5. Nobody /\ Waiting /\ Firing /\ MemorySound
  BY DEF Init, Nobody, Waiting, Firing, MemorySound
<1> QED
  BY <1>3, <1>4, <1>5 DEF BookInv, DiskSound

\* A record is as sound as another one with the same trade and counters, and
\* stays so while the attempts grow and withdrawals are confirmed.
LEMMA SoundKept ==
  ASSUME NEW st \in StateRec, NEW new \in StateRec, NEW len \in Nat, NEW long \in Nat, NEW log,
         NEW marked \in Nat, NEW more \in Nat, Sound(st, len, log, marked),
         len <= long, marked <= more, WinsIn(log) \in Nat,
         new.pending = st.pending, new.payout_ready <=> st.payout_ready,
         new.winning_days = st.winning_days
  PROVE  Sound(new, long, log, more)
<1>1. st.pending \in Nat /\ st.winning_days \in Nat /\ WinDays \in Nat
  BY SessionAssumption DEF StateRec
<1>2. WinDays * marked <= WinDays * more /\ WinDays * marked \in Nat /\ WinDays * more \in Nat
  BY <1>1
<1> QED
  BY <1>1, <1>2 DEF Sound

\* The fields SoundKept asks for, over everything a pass does to a record.
LEMMA Counters ==
  ASSUME NEW st \in StateRec, NEW bal, NEW n, NEW today
  PROVE  /\ Ratcheted(st, bal, today).pending = st.pending
         /\ Ratcheted(st, bal, today).payout_ready <=> st.payout_ready
         /\ Ratcheted(st, bal, today).winning_days = st.winning_days
         /\ [st EXCEPT !.last_fire_date = today].pending = st.pending
         /\ [st EXCEPT !.last_fire_date = today].payout_ready <=> st.payout_ready
         /\ [st EXCEPT !.last_fire_date = today].winning_days = st.winning_days
         /\ [st EXCEPT !.phase = "blown"].pending = st.pending
         /\ [st EXCEPT !.phase = "blown"].payout_ready <=> st.payout_ready
         /\ [st EXCEPT !.phase = "blown"].winning_days = st.winning_days
         /\ Pending(st, n, bal, today).pending = n
         /\ Pending(st, n, bal, today).payout_ready <=> st.payout_ready
         /\ Pending(st, n, bal, today).winning_days = st.winning_days
         /\ PaidOut(st).pending = 0
         /\ ~PaidOut(st).payout_ready
         /\ PaidOut(st).winning_days = 0
BY DEF Ratcheted, Pending, PaidOut, NextCycle, StateRec

\* What reconcile() leaves of them.
LEMMA BookedCounters ==
  ASSUME NEW st \in StateRec, NEW bal \in Int, NEW nuke
  PROVE  LET won  == Classify(bal - st.pending_entry_balance) = "win"
             wins == st.winning_days + (IF won THEN 1 ELSE 0)
         IN  /\ Booked(st, bal, nuke).pending = 0
             /\ Booked(st, bal, nuke).winning_days = wins
             /\ Booked(st, bal, nuke).payout_ready = (st.payout_ready \/ wins >= WinDays)
BY DEF Booked, Advanced, StateRec

\* The wins of a log are a number, and an entry adds its own.
LEMMA WinsAdd ==
  ASSUME NEW log \in Seq([attempt : Nat, outcome : Results]),
         NEW rec \in [attempt : Nat, outcome : Results]
  PROVE  /\ WinsIn(log) \in Nat
         /\ WinsIn(Append(log, rec)) = WinsIn(log) + (IF rec.outcome = "win" THEN 1 ELSE 0)
<1> DEFINE W   == {i \in DOMAIN log : log[i].outcome = "win"}
           new == Append(log, rec)
           V   == {i \in DOMAIN new : new[i].outcome = "win"}
           n   == Len(log)
           E   == [attempt : Nat, outcome : Results]
<1>0. log \in Seq(E) /\ rec \in E
  OBVIOUS
<1>1. /\ n \in Nat /\ DOMAIN log = 1..n /\ DOMAIN new = 1..(n + 1) /\ new[n + 1] = rec
      /\ \A i \in 1..n : new[i] = log[i]
  <2> HIDE DEF E
  <2> QED
    BY <1>0
<1>2. IsFiniteSet(W) /\ Cardinality(W) \in Nat /\ n + 1 \notin W
  <2>1. IsFiniteSet(1..n) /\ W \subseteq 1..n
    BY <1>1, FS_Interval
  <2> QED
    BY <1>1, <2>1, FS_Subset, FS_CardinalityType
<1>3. CASE rec.outcome = "win"
  <2>1. V = W \cup {n + 1}
    BY <1>1, <1>3
  <2>2. Cardinality(W \cup {n + 1}) = Cardinality(W) + 1
    BY <1>2, FS_AddElement
  <2> QED
    BY <1>2, <1>3, <2>1, <2>2 DEF WinsIn
<1>4. CASE rec.outcome # "win"
  <2>1. V = W
    BY <1>1, <1>4
  <2>2. WinsIn(new) = Cardinality(V) /\ WinsIn(log) = Cardinality(W)
    BY DEF WinsIn
  <2> HIDE DEF V, W, new
  <2> QED
    BY <1>2, <1>4, <2>1, <2>2 DEF new
<1> QED
  BY <1>3, <1>4

\* Steps that leave the books alone: the attempts may grow, and what is said of
\* the records carries over to records with the same trades and counters.
LEMMA BooksUntouched ==
  ASSUME TypeOK, TypeOK', BookInv, UNCHANGED trade_log,
         \A a \in Account : Len(attempts[a]) <= Len(attempts'[a])
  PROVE  /\ BookedOnce' /\ LoggedBelow'
         /\ \A a \in Account : \A n : Logged(a, n)' <=> Logged(a, n)
         /\ \A a \in Account : Len(attempts[a]) \in Nat /\ Len(attempts'[a]) \in Nat
                               /\ WinsIn(trade_log[a]) \in Nat
<1>1. ASSUME NEW a \in Account
      PROVE  /\ Len(attempts[a]) \in Nat /\ Len(attempts'[a]) \in Nat
             /\ WinsIn(trade_log[a]) \in Nat
  <2>1. attempts[a] \in Seq(AttemptRec) /\ attempts'[a] \in Seq(AttemptRec)
    BY DEF TypeOK
  <2>2. trade_log[a] \in Seq([attempt : Nat, outcome : Results])
    BY DEF TypeOK
  <2>3. IsFiniteSet(DOMAIN trade_log[a])
    BY <2>2, FS_Interval
  <2> QED
    BY <2>1, <2>3, FS_Subset, FS_CardinalityType DEF WinsIn
<1>2. BookedOnce'
  BY DEF BookInv, BookedOnce
<1>3. LoggedBelow'
  BY <1>1 DEF BookInv, LoggedBelow
<1>4. \A a \in Account : \A n : Logged(a, n)' <=> Logged(a, n)
  BY DEF Logged
<1> QED
  BY <1>1, <1>2, <1>3, <1>4

\* Nothing but the broker's side changes.
LEMMA BrokerBooks ==
  ASSUME TypeOK, TypeOK', BookInv,
         UNCHANGED <<states, mem, seen, trade_log, payouts_marked, pc, reconciled, todo, cur>>,
         \A a \in Account : Len(attempts'[a]) = Len(attempts[a])
  PROVE  BookInv'
<1>1. BookedOnce' /\ LoggedBelow'
  BY DEF BookInv, BookedOnce, LoggedBelow
<1>2. \A a \in Account : \A n : Logged(a, n)' <=> Logged(a, n)
  BY DEF Logged
<1>3. DiskSound' /\ MemorySound'
  BY DEF BookInv, DiskSound, MemorySound, SoundFor
<1>4. Nobody' /\ Waiting'
  BY DEF BookInv, Nobody, Waiting
<1>5. Firing'
  BY <1>2 DEF BookInv, Firing, BelowMLL, TypeOK
<1> QED
  BY <1>1, <1>3, <1>4, <1>5 DEF BookInv

\* A pass reads the records and lists what it has to book.
LEMMA ReadBooks ==
  ASSUME TypeOK, TypeOK', BookInv, cur = {},
         (\E manual \in BOOLEAN : StartPass(manual)) \/ ListAccounts \/ Assign
  PROVE  BookInv'
<1>1. UNCHANGED <<attempts, states, trade_log, payouts_marked, reconciled>> /\ cur' = {}
  BY DEF StartPass, ListAccounts, Assign, brokerVars, fileVars
<1>2. BookedOnce' /\ LoggedBelow'
  BY <1>1 DEF BookInv, BookedOnce, LoggedBelow
<1>3. pc # "registry" /\ pc' \in {"list", "reconcile", "fire"}
  BY DEF StartPass, ListAccounts, Assign
<1>4. DiskSound'
  BY <1>1, <1>3 DEF BookInv, DiskSound, SoundFor
<1>5. Nobody'
  BY <1>1 DEF BookInv, Nobody, StartPass, ListAccounts, Assign
<1>6. CASE \E manual \in BOOLEAN : StartPass(manual)
  <2>1. mem' = states /\ pc' = "list" /\ reconciled = {}
    BY <1>6 DEF StartPass, BookInv, Nobody
  <2>2. MemorySound'
    BY <1>1, <2>1 DEF BookInv, DiskSound, MemorySound, SoundFor
  <2> QED
    BY <1>1, <1>2, <1>4, <1>5, <2>1, <2>2 DEF BookInv, Waiting, Firing
<1>7. CASE ListAccounts
  <2>1. ASSUME NEW a \in Account
        PROVE  /\ mem'[a].pending = mem[a].pending /\ (mem'[a].payout_ready <=> mem[a].payout_ready)
               /\ mem'[a].winning_days = mem[a].winning_days
    <3>1. mem[a] \in StateRec
      BY DEF TypeOK
    <3>2. mem'[a] = mem[a] \/ mem'[a] = Ratcheted(mem[a], balance[a], now.day)
      BY <1>7 DEF ListAccounts
    <3>3. /\ Ratcheted(mem[a], balance[a], now.day).pending = mem[a].pending
          /\ Ratcheted(mem[a], balance[a], now.day).payout_ready <=> mem[a].payout_ready
          /\ Ratcheted(mem[a], balance[a], now.day).winning_days = mem[a].winning_days
      BY <3>1, Counters
    <3> QED
      BY <3>2, <3>3
  <2>2. \A a \in todo' : mem[a].pending # 0 /\ a \in Account
    BY <1>7 DEF ListAccounts, ToReconcile, TypeOK
  <2>3. pc' = "reconcile" /\ pc # "idle"
    BY <1>7 DEF ListAccounts
  <2>4. Waiting' /\ Firing'
    BY <1>1, <2>1, <2>2, <2>3 DEF Waiting, Firing
  <2>5. MemorySound'
    BY <1>1, <2>1, <2>3 DEF BookInv, MemorySound, SoundFor, Sound
  <2> QED
    BY <1>2, <1>4, <1>5, <2>4, <2>5 DEF BookInv
<1>8. CASE Assign
  <2>1. UNCHANGED <<mem, seen>> /\ pc = "reconcile" /\ pc' = "fire"
    BY <1>8 DEF Assign
  <2>2. MemorySound' /\ Waiting'
    BY <1>1, <2>1 DEF BookInv, MemorySound, SoundFor, Waiting
  <2>3. \A a \in todo' : a \in Account /\ (BelowMLL(mem[a], seen[a]) \/ ~mem[a].payout_ready)
    BY <1>8 DEF Assign, Strategy, Due, TypeOK
  <2>4. Firing'
    BY <1>1, <2>1, <2>3 DEF Firing, BelowMLL
  <2> QED
    BY <1>2, <1>4, <1>5, <2>2, <2>4 DEF BookInv
<1> QED
  BY <1>6, <1>7, <1>8

\* reconcile() books what was not booked before.
LEMMA ReconcileBooks ==
  ASSUME TypeOK, TypeOK', BookInv, cur = {}, NEW a \in Account, Reconcile(a)
  PROVE  BookInv'
<1>1. /\ UNCHANGED <<attempts, states, payouts_marked, seen, cur>>
      /\ pc = "reconcile" /\ pc' = "reconcile" /\ todo' = todo \ {a} /\ a \in todo
  BY DEF Reconcile, brokerVars
<1>2. CASE UNCHANGED <<mem, trade_log, reconciled>>
  <2>1. BookedOnce' /\ LoggedBelow'
    BY <1>1, <1>2 DEF BookInv, BookedOnce, LoggedBelow
  <2> QED
    BY <1>1, <1>2, <2>1
       DEF BookInv, DiskSound, MemorySound, SoundFor, Nobody, Waiting, Firing
<1>3. CASE ReconcileClosed(a)
  <2> DEFINE n   == mem[a].pending
             st  == Booked(mem[a], seen[a], attempts[a][n].nuke)
             rec == [attempt |-> n, outcome |-> Classify(seen[a] - mem[a].pending_entry_balance)]
             log == trade_log[a]
             len == Len(attempts[a])
             E   == [attempt : Nat, outcome : Results]
  <2>1. /\ mem' = [mem EXCEPT ![a] = st] /\ reconciled' = reconciled \cup {a}
        /\ trade_log' = [trade_log EXCEPT ![a] = Append(log, rec)]
    BY <1>3 DEF ReconcileClosed
  <2>2. /\ mem[a] \in StateRec /\ seen[a] \in Int /\ n \in Nat /\ n # 0
        /\ mem \in [Account -> StateRec] /\ todo \subseteq Account
        /\ mem[a].winning_days \in Nat /\ payouts_marked[a] \in Nat
    BY <1>1 DEF TypeOK, StateRec, BookInv, Waiting
  <2>3. Sound(mem[a], len, log, payouts_marked[a])
    BY <1>1 DEF BookInv, MemorySound, SoundFor
  <2>4. log \in Seq(E) /\ len \in Nat /\ trade_log \in [Account -> Seq(E)]
    <3>1. attempts[a] \in Seq(AttemptRec)
      BY DEF TypeOK
    <3>2. log \in Seq(E) /\ trade_log \in [Account -> Seq(E)]
      BY DEF TypeOK
    <3>3. len \in Nat
      BY <3>1
    <3> HIDE DEF E, log, len
    <3> QED
      BY <3>2, <3>3
  <2>5. rec \in E
    BY <2>2 DEF Classify, Results
  <2>6. /\ mem'[a] = st /\ trade_log'[a] = Append(log, rec)
        /\ \A b \in Account : b # a => mem'[b] = mem[b] /\ trade_log'[b] = trade_log[b]
    <3> HIDE DEF st, rec, log, E
    <3> QED
      BY <2>1, <2>2, <2>4
  <2>7. DOMAIN log = 1..Len(log) /\ Len(log) \in Nat
    <3> HIDE DEF E
    <3> QED
      BY <2>4
  <2>8. /\ DOMAIN Append(log, rec) = 1..(Len(log) + 1)
        /\ Append(log, rec)[Len(log) + 1] = rec /\ rec.attempt = n
        /\ \A i \in 1..Len(log) : Append(log, rec)[i] = log[i]
    <3>1. rec.attempt = n
      OBVIOUS
    <3> HIDE DEF E, rec, log
    <3> QED
      BY <2>4, <2>5, <3>1
  <2>9. WinsIn(log) \in Nat
        /\ WinsIn(Append(log, rec)) = WinsIn(log) + (IF rec.outcome = "win" THEN 1 ELSE 0)
    BY <2>4, <2>5, WinsAdd
  <2>10. ~mem[a].payout_ready /\ mem[a].winning_days < WinDays /\ n <= len
         /\ \A i \in DOMAIN log : log[i].attempt # n
    BY <2>2, <2>3 DEF Sound
  <2>11. /\ st.pending = 0
         /\ st.winning_days = mem[a].winning_days + (IF rec.outcome = "win" THEN 1 ELSE 0)
         /\ st.payout_ready = (mem[a].payout_ready \/ st.winning_days >= WinDays)
    <3>1. rec.outcome = Classify(seen[a] - mem[a].pending_entry_balance)
      OBVIOUS
    <3> QED
      BY <2>2, <3>1, BookedCounters
  <2>12. Sound(st, len, Append(log, rec), payouts_marked[a])
    <3>1. WinDays \in Nat /\ WinDays * payouts_marked[a] \in Nat
      BY <2>2, SessionAssumption
    <3>2. WinsIn(log) <= WinDays * payouts_marked[a] + mem[a].winning_days
      BY <2>3 DEF Sound
    <3> DEFINE k == IF rec.outcome = "win" THEN 1 ELSE 0
               w == WinsIn(log)
               x == WinsIn(Append(log, rec))
               m == WinDays * payouts_marked[a]
    <3>3. /\ w \in Nat /\ x = w + k /\ k \in {0, 1} /\ m \in Nat /\ w <= m + mem[a].winning_days
          /\ st.winning_days = mem[a].winning_days + k
      BY <2>9, <2>11, <3>1, <3>2
    <3> HIDE DEF st, rec, w, x, m, k
    <3>4. st.winning_days <= WinDays /\ x <= m + st.winning_days
      BY <2>2, <2>10, <3>1, <3>3
    <3>5. ~st.payout_ready => st.winning_days < WinDays
      <4>1. ~st.payout_ready => ~(st.winning_days >= WinDays)
        BY <2>11, Zenon
      <4>2. st.winning_days \in Nat
        BY <2>2, <3>3
      <4> QED
        BY <3>1, <4>1, <4>2
    <3> QED
      BY <2>4, <2>11, <3>4, <3>5 DEF Sound, x, m
  <2> HIDE DEF st, rec, log, len, n
  <2>13. BookedOnce'
    <3> SUFFICES ASSUME NEW b \in Account, NEW i \in DOMAIN trade_log'[b],
                        NEW j \in DOMAIN trade_log'[b], i # j
                 PROVE  trade_log'[b][i].attempt # trade_log'[b][j].attempt
      BY DEF BookedOnce
    <3>1. CASE b # a
      BY <2>6, <3>1 DEF BookInv, BookedOnce
    <3>2. CASE b = a
      <4>1. i \in 1..(Len(log) + 1) /\ j \in 1..(Len(log) + 1)
        BY <2>6, <2>8, <3>2
      <4>2. CASE i \in 1..Len(log) /\ j \in 1..Len(log)
        BY <2>6, <2>7, <2>8, <3>2, <4>2 DEF BookInv, BookedOnce, log
      <4>3. CASE i = Len(log) + 1
        <5>1. j \in 1..Len(log)
          BY <2>7, <4>1, <4>3
        <5> QED
          BY <2>6, <2>7, <2>8, <2>10, <3>2, <4>3, <5>1
      <4>4. CASE j = Len(log) + 1
        <5>1. i \in 1..Len(log)
          BY <2>7, <4>1, <4>4
        <5> QED
          BY <2>6, <2>7, <2>8, <2>10, <3>2, <4>4, <5>1
      <4> QED
        BY <2>7, <4>1, <4>2, <4>3, <4>4
    <3> QED
      BY <3>1, <3>2
  <2>14. LoggedBelow'
    <3> SUFFICES ASSUME NEW b \in Account, NEW i \in DOMAIN trade_log'[b]
                 PROVE  trade_log'[b][i].attempt \in 1..Len(attempts[b])
      BY <1>1 DEF LoggedBelow
    <3>1. CASE b # a
      BY <2>6, <3>1 DEF BookInv, LoggedBelow
    <3>2. CASE b = a /\ i \in 1..Len(log)
      BY <2>6, <2>7, <2>8, <3>2 DEF BookInv, LoggedBelow, log
    <3>3. CASE b = a /\ i = Len(log) + 1
      <4>1. n \in 1..len
        BY <2>2, <2>4, <2>10
      <4> QED
        BY <2>6, <2>8, <3>3, <4>1 DEF len
    <3> QED
      BY <2>6, <2>7, <2>8, <3>1, <3>2, <3>3
  <2>15. DiskSound'
    BY <1>1, <2>1, <2>6 DEF BookInv, DiskSound, SoundFor
  <2>16. MemorySound'
    BY <1>1, <2>6, <2>12 DEF BookInv, MemorySound, SoundFor, len
  <2>17. Nobody' /\ Waiting'
    BY <1>1, <2>2, <2>6 DEF BookInv, Nobody, Waiting
  <2>18. Firing'
    BY <1>1 DEF Firing
  <2> QED
    BY <2>13, <2>14, <2>15, <2>16, <2>17, <2>18 DEF BookInv
<1> QED
  BY <1>2, <1>3 DEF Reconcile, ReconcileReadFails, ReconcileStillOpen

\* What the fire loop leaves of an account: the record of st, with the books,
\* the list and the hands of the pass as they follow from it.
LEMMA PersistBooks ==
  ASSUME TypeOK, TypeOK', BookInv, NEW a \in Account, NEW st \in StateRec, Persist(a, st),
         pc \in {"fire", "placed", "raised"}, pc' = "fire", cur' = {}, a \notin todo',
         todo' \subseteq todo, UNCHANGED <<trade_log, payouts_marked, seen, reconciled>>,
         \A b \in Account : Len(attempts[b]) <= Len(attempts'[b]),
         SoundFor(a, mem[a]) => Sound(st, Len(attempts'[a]), trade_log[a], payouts_marked[a])
  PROVE  BookInv'
<1>1. mem' = [mem EXCEPT ![a] = st] /\ states' = [states EXCEPT ![a] = st]
  BY DEF Persist
<1>2. /\ mem'[a] = st /\ states'[a] = st
      /\ \A b \in Account : b # a => mem'[b] = mem[b] /\ states'[b] = states[b]
  BY <1>1 DEF TypeOK
<1>3. /\ BookedOnce' /\ LoggedBelow'
      /\ \A b \in Account : Len(attempts[b]) \in Nat /\ Len(attempts'[b]) \in Nat
                            /\ WinsIn(trade_log[b]) \in Nat
  BY BooksUntouched
<1>4. ASSUME NEW b \in Account, NEW old \in StateRec, SoundFor(b, old)
      PROVE  Sound(old, Len(attempts'[b]), trade_log[b], payouts_marked[b])
  <2>1. payouts_marked[b] \in Nat
    BY DEF TypeOK
  <2> QED
    BY <1>3, <1>4, <2>1, SoundKept DEF SoundFor
<1>5. MemorySound'
  <2> SUFFICES ASSUME NEW b \in Account
               PROVE  Sound(mem'[b], Len(attempts'[b]), trade_log[b], payouts_marked[b])
    BY DEF MemorySound, SoundFor
  <2>1. mem[b] \in StateRec /\ SoundFor(b, mem[b])
    BY DEF TypeOK, BookInv, MemorySound
  <2> QED
    BY <1>2, <1>4, <2>1
<1>6. DiskSound'
  <2> SUFFICES ASSUME NEW b \in Account, b \notin reconciled
               PROVE  Sound(states'[b], Len(attempts'[b]), trade_log[b], payouts_marked[b])
    BY DEF DiskSound, SoundFor
  <2>1. states[b] \in StateRec /\ SoundFor(b, states[b]) /\ SoundFor(a, mem[a])
    BY DEF TypeOK, BookInv, DiskSound, MemorySound
  <2> QED
    BY <1>2, <1>4, <2>1
<1>7. Nobody' /\ Waiting'
  BY DEF Nobody, Waiting
<1>8. Firing'
  <2>1. ASSUME NEW b \in todo' PROVE BelowMLL(mem'[b], seen[b]) \/ ~mem'[b].payout_ready
    <3>1. b \in Account /\ b # a /\ b \in todo
      BY DEF TypeOK
    <3> QED
      BY <1>2, <3>1 DEF BookInv, Firing
  <2> QED
    BY <2>1 DEF Firing, BelowMLL
<1> QED
  BY <1>3, <1>5, <1>6, <1>7, <1>8 DEF BookInv

\* An attempt lengthens its account's list by one.
LEMMA AttemptLength ==
  ASSUME TypeOK, NEW a \in Account, NEW r, Attempt(a, r)
  PROVE  /\ Len(attempts'[a]) = Len(attempts[a]) + 1 /\ Len(attempts[a]) \in Nat
         /\ \A b \in Account : b # a => attempts'[b] = attempts[b]
         /\ \A b \in Account : Len(attempts[b]) <= Len(attempts'[b])
<1> DEFINE rec == [day |-> day, nuke |-> NeedsNuke(mem[a]), result |-> r]
<1>1. attempts' = [attempts EXCEPT ![a] = Append(attempts[a], rec)]
  BY DEF Attempt
<1> HIDE DEF rec
<1>2. attempts \in [Account -> Seq(AttemptRec)] /\ attempts[a] \in Seq(AttemptRec)
  BY DEF TypeOK
<1>3. attempts'[a] = Append(attempts[a], rec) /\ \A b \in Account : b # a => attempts'[b] = attempts[b]
  BY <1>1, <1>2
<1>4. Len(attempts'[a]) = Len(attempts[a]) + 1 /\ Len(attempts[a]) \in Nat
  BY <1>2, <1>3
<1>5. \A b \in Account : Len(attempts[b]) \in Nat
  BY <1>2
<1> QED
  BY <1>3, <1>4, <1>5

\* The fire loop keeps the books: an order it places is new to them.
LEMMA FireBooks ==
  ASSUME TypeOK, TypeOK', BookInv, OnePlacing, NEW a \in Account,
         \/ MarkBlown(a) \/ Skip(a) \/ Place(a) \/ RecordPlaced(a) \/ RecordRaised(a)
  PROVE  BookInv'
<1>1. /\ UNCHANGED <<trade_log, payouts_marked, seen, reconciled>>
      /\ pc \in {"fire", "placed", "raised"}
  BY DEF MarkBlown, Skip, Place, RecordPlaced, RecordRaised, fireRest
<1>2. mem[a] \in StateRec /\ seen[a] \in Int /\ now.day \in Nat /\ SoundFor(a, mem[a])
      /\ payouts_marked[a] \in Nat
  BY <1>1, SessionAssumption DEF TypeOK, BookInv, MemorySound
<1>3. /\ \A b \in Account : Len(attempts[b]) \in Nat
      /\ WinsIn(trade_log[a]) \in Nat
  <2>1. attempts \in [Account -> Seq(AttemptRec)]
    BY DEF TypeOK
  <2>2. trade_log[a] \in Seq([attempt : Nat, outcome : Results])
    BY DEF TypeOK
  <2>3. IsFiniteSet(DOMAIN trade_log[a])
    BY <2>2, FS_Interval
  <2>4. WinsIn(trade_log[a]) \in Nat
    BY <2>3, FS_Subset, FS_CardinalityType DEF WinsIn
  <2> QED
    BY <2>1, <2>4
<1> DEFINE dated == [mem[a] EXCEPT !.last_fire_date = now.day]
           pend  == Pending(mem[a], Len(attempts[a]), seen[a], now.day)
           dead  == [mem[a] EXCEPT !.phase = "blown"]
<1>4. dated \in StateRec /\ pend \in StateRec /\ dead \in StateRec
  BY <1>2, <1>3, RecordTypes
<1>5. /\ dated.pending = mem[a].pending /\ (dated.payout_ready <=> mem[a].payout_ready)
      /\ dated.winning_days = mem[a].winning_days
      /\ dead.pending = mem[a].pending /\ (dead.payout_ready <=> mem[a].payout_ready)
      /\ dead.winning_days = mem[a].winning_days
      /\ pend.pending = Len(attempts[a]) /\ (pend.payout_ready <=> mem[a].payout_ready)
      /\ pend.winning_days = mem[a].winning_days
  BY <1>2, Counters
<1> HIDE DEF dated, pend, dead
<1>6. ASSUME NEW st \in {dated, dead}, NEW long \in Nat, Len(attempts[a]) <= long
      PROVE  Sound(st, long, trade_log[a], payouts_marked[a])
  BY <1>2, <1>3, <1>4, <1>5, <1>6, SoundKept DEF SoundFor
<1>7. CASE MarkBlown(a)
  <2>1. /\ UNCHANGED <<attempts, cur>> /\ cur = {} /\ pc' = "fire" /\ pc = "fire"
        /\ todo' = todo \ {a}
    BY <1>7 DEF MarkBlown, OnePlacing
  <2>2. CASE Persist(a, dead)
    BY <1>1, <1>3, <1>4, <1>6, <2>1, <2>2, PersistBooks
  <2>3. CASE UNCHANGED <<mem, states>>
    <3>1. BookedOnce' /\ LoggedBelow' /\ DiskSound' /\ MemorySound'
      BY <1>1, <2>1, <2>3
         DEF BookInv, BookedOnce, LoggedBelow, DiskSound, MemorySound, SoundFor
    <3>2. Nobody' /\ Waiting' /\ Firing'
      BY <1>1, <2>1, <2>3 DEF BookInv, Nobody, Waiting, Firing, BelowMLL, TypeOK
    <3> QED
      BY <3>1, <3>2 DEF BookInv
  <2> QED
    BY <1>7, <2>2, <2>3 DEF MarkBlown, dead
<1>8. CASE Skip(a)
  <2>1. /\ Attempt(a, "skipped") /\ Persist(a, dated) /\ todo' = todo \ {a}
        /\ cur = {} /\ cur' = {} /\ pc' = "fire"
    BY <1>8 DEF Skip, OnePlacing, dated
  <2>2. \A b \in Account : Len(attempts[b]) <= Len(attempts'[b])
    BY <2>1, AttemptLength
  <2>3. Len(attempts'[a]) \in Nat
    BY <1>3, <2>1, AttemptLength
  <2> QED
    BY <1>1, <1>4, <1>6, <2>1, <2>2, <2>3, PersistBooks
<1>9. CASE Place(a)
  <2>1. PICK r : Attempt(a, r)
    BY <1>9 DEF Place
  <2>2. /\ a \in todo /\ ~BelowMLL(mem[a], seen[a]) /\ pc = "fire" /\ pc' \in {"placed", "raised"}
        /\ cur' = {a} /\ todo' = todo \ {a} /\ UNCHANGED <<mem, states>>
    BY <1>9 DEF Place
  <2>3. /\ Len(attempts'[a]) = Len(attempts[a]) + 1
        /\ \A b \in Account : Len(attempts[b]) <= Len(attempts'[b])
    BY <2>1, AttemptLength
  <2>4. /\ BookedOnce' /\ LoggedBelow'
        /\ \A b \in Account : \A n : Logged(b, n)' <=> Logged(b, n)
        /\ \A b \in Account : Len(attempts[b]) \in Nat /\ Len(attempts'[b]) \in Nat
                              /\ WinsIn(trade_log[b]) \in Nat
    BY <1>1, <2>3, BooksUntouched
  <2>5. ASSUME NEW b \in Account, NEW old \in StateRec, SoundFor(b, old)
        PROVE  Sound(old, Len(attempts'[b]), trade_log[b], payouts_marked[b])
    <3>1. payouts_marked[b] \in Nat
      BY DEF TypeOK
    <3> QED
      BY <2>3, <2>4, <2>5, <3>1, SoundKept DEF SoundFor
  <2>6. DiskSound'
    <3> SUFFICES ASSUME NEW b \in Account, b \notin reconciled
                 PROVE  Sound(states[b], Len(attempts'[b]), trade_log[b], payouts_marked[b])
      BY <1>1, <2>2 DEF DiskSound, SoundFor
    <3>1. states[b] \in StateRec /\ SoundFor(b, states[b])
      BY DEF TypeOK, BookInv, DiskSound
    <3> QED
      BY <2>5, <3>1
  <2>7. MemorySound'
    <3> SUFFICES ASSUME NEW b \in Account
                 PROVE  Sound(mem[b], Len(attempts'[b]), trade_log[b], payouts_marked[b])
      BY <1>1, <2>2 DEF MemorySound, SoundFor
    <3>1. mem[b] \in StateRec /\ SoundFor(b, mem[b])
      BY <2>2 DEF TypeOK, BookInv, MemorySound
    <3> QED
      BY <2>5, <3>1
  <2>8. ~Logged(a, Len(attempts'[a]))
    <3>1. \A i \in DOMAIN trade_log[a] : trade_log[a][i].attempt \in 1..Len(attempts[a])
      BY DEF BookInv, LoggedBelow
    <3>2. Len(attempts'[a]) \notin 1..Len(attempts[a])
      BY <1>3, <2>3
    <3> QED
      BY <3>1, <3>2 DEF Logged
  <2>9. ~mem[a].payout_ready
    BY <2>2 DEF BookInv, Firing
  <2>10. Firing'
    BY <1>1, <2>2, <2>4, <2>8, <2>9 DEF BookInv, Firing, BelowMLL, Logged
  <2>11. Nobody' /\ Waiting'
    BY <2>2 DEF Nobody, Waiting
  <2> QED
    BY <2>4, <2>6, <2>7, <2>10, <2>11 DEF BookInv
<1>10. CASE RecordPlaced(a) \/ RecordRaised(a)
  <2>1. /\ UNCHANGED <<attempts, todo>> /\ cur' = {} /\ a \in cur /\ pc' = "fire" /\ a \notin todo'
    BY <1>10 DEF RecordPlaced, RecordRaised, OnePlacing
  <2>2. Persist(a, pend) \/ Persist(a, dated)
    BY <1>10 DEF RecordPlaced, RecordRaised, pend, dated
  <2>3. Sound(pend, Len(attempts[a]), trade_log[a], payouts_marked[a])
    <3>1. ~Logged(a, Len(attempts[a])) /\ ~mem[a].payout_ready
      BY <2>1 DEF BookInv, Firing
    <3> QED
      BY <1>2, <1>3, <1>5, <3>1 DEF Sound, SoundFor, Logged
  <2>4. \A b \in Account : Len(attempts[b]) <= Len(attempts'[b])
    BY <1>3, <2>1
  <2>5. CASE Persist(a, pend)
    BY <1>1, <1>4, <2>1, <2>3, <2>4, <2>5, PersistBooks
  <2>6. CASE Persist(a, dated)
    <3>1. Sound(dated, Len(attempts[a]), trade_log[a], payouts_marked[a])
      BY <1>3, <1>6
    <3> QED
      BY <1>1, <1>4, <2>1, <2>4, <2>6, <3>1, PersistBooks
  <2> QED
    BY <2>2, <2>5, <2>6
<1> QED
  BY <1>7, <1>8, <1>9, <1>10

\* The end of the pass: the records of what was booked or fired replace theirs
\* on disk, so that the disk is sound again when the pass is over.
LEMMA EndBooks ==
  ASSUME TypeOK, TypeOK', BookInv, cur = {}, SaveSchedule \/ MergeStates \/ SaveRegistry
  PROVE  BookInv'
<1>1. UNCHANGED <<attempts, trade_log, payouts_marked>> /\ cur' = {}
  BY DEF SaveSchedule, MergeStates, SaveRegistry, PassIdle, brokerVars
<1>2. BookedOnce' /\ LoggedBelow'
  BY <1>1 DEF BookInv, BookedOnce, LoggedBelow
<1>3. pc' \in {"merge", "registry", "idle"} /\ (pc' = "idle" => reconciled' = {}) /\ pc # "idle"
  BY DEF SaveSchedule, MergeStates, SaveRegistry, PassIdle
<1>4. Nobody' /\ Waiting' /\ Firing'
  BY <1>1, <1>3 DEF Nobody, Waiting, Firing
<1>5. MemorySound'
  BY <1>1, <1>3 DEF BookInv, MemorySound, SoundFor, SaveSchedule, MergeStates, SaveRegistry, PassIdle
<1>6. DiskSound'
  <2>1. CASE SaveSchedule
    BY <1>1, <2>1 DEF SaveSchedule, BookInv, DiskSound, SoundFor
  <2>2. CASE MergeStates
    <3> SUFFICES ASSUME NEW a \in Account PROVE SoundFor(a, states'[a])
      BY <1>1 DEF DiskSound, SoundFor
    <3>1. states'[a] = (IF a \in tradeable \cup reconciled THEN mem[a] ELSE states[a])
      BY <2>2 DEF MergeStates, MergeSave, Touched
    <3>2. SoundFor(a, mem[a]) /\ (a \notin reconciled => SoundFor(a, states[a]))
      BY <1>3 DEF BookInv, MemorySound, DiskSound
    <3> QED
      BY <3>1, <3>2
  <2>3. CASE SaveRegistry
    BY <1>1, <2>3 DEF SaveRegistry, BookInv, DiskSound, SoundFor
  <2> QED
    BY <2>1, <2>2, <2>3
<1> QED
  BY <1>2, <1>4, <1>5, <1>6 DEF BookInv

\* A confirmed withdrawal takes its cycle's wins with it: whatever memory or
\* disk counts beyond the withdrawals is one cycle at the most.
LEMMA PayoutBooks ==
  ASSUME TypeOK, TypeOK', BookInv, NEW a \in Account, MarkPayout(a)
  PROVE  BookInv'
<1> DEFINE m   == payouts_marked[a]
           log == trade_log[a]
           len == Len(attempts[a])
           st  == PaidOut(states[a])
<1>1. /\ UNCHANGED <<attempts, trade_log, mem, pc, reconciled, todo, cur, seen>>
      /\ states' = [states EXCEPT ![a] = st]
      /\ payouts_marked' = [payouts_marked EXCEPT ![a] = m + 1]
  BY DEF MarkPayout, brokerVars, passVars
<1>2. /\ states[a] \in StateRec /\ mem[a] \in StateRec /\ m \in Nat
      /\ states'[a] = st /\ payouts_marked'[a] = m + 1
      /\ \A b \in Account : b # a => states'[b] = states[b] /\ payouts_marked'[b] = payouts_marked[b]
  BY <1>1 DEF TypeOK
<1>3. /\ BookedOnce' /\ LoggedBelow'
      /\ \A b \in Account : \A n : Logged(b, n)' <=> Logged(b, n)
      /\ len \in Nat /\ WinsIn(log) \in Nat
  <2>1. \A b \in Account : Len(attempts[b]) <= Len(attempts'[b])
    <3>1. \A b \in Account : Len(attempts[b]) \in Nat
      BY DEF TypeOK
    <3> QED
      BY <1>1, <3>1
  <2> QED
    BY <1>1, <2>1, BooksUntouched
<1>4. WinDays \in Nat \ {0} /\ WinDays * m \in Nat /\ WinDays * (m + 1) = WinDays * m + WinDays
  BY <1>2, SessionAssumption
<1>5. WinsIn(log) <= WinDays * (m + 1)
  <2>1. PICK old \in StateRec : Sound(old, len, log, m)
    <3>1. CASE a \notin reconciled
      BY <1>2, <3>1 DEF BookInv, DiskSound, SoundFor
    <3>2. CASE a \in reconciled
      BY <1>2, <3>2 DEF BookInv, MemorySound, Nobody, SoundFor
    <3> QED
      BY <3>1, <3>2
  <2>2. WinsIn(log) <= WinDays * m + old.winning_days /\ old.winning_days <= WinDays
        /\ old.winning_days \in Nat
    BY <2>1 DEF Sound, StateRec
  <2> QED
    BY <1>3, <1>4, <2>2
<1>6. st.pending = 0 /\ ~st.payout_ready /\ st.winning_days = 0
  BY <1>2, Counters
<1> HIDE DEF st
<1>7. Sound(st, len, log, m + 1)
  BY <1>3, <1>4, <1>5, <1>6 DEF Sound
<1>8. DiskSound'
  BY <1>1, <1>2, <1>7 DEF BookInv, DiskSound, SoundFor
<1>9. MemorySound'
  <2> SUFFICES ASSUME pc # "idle", NEW b \in Account
               PROVE  Sound(mem[b], Len(attempts[b]), trade_log[b], payouts_marked'[b])
    BY <1>1 DEF MemorySound, SoundFor
  <2>1. Sound(mem[b], Len(attempts[b]), trade_log[b], payouts_marked[b])
    BY DEF BookInv, MemorySound, SoundFor
  <2>2. CASE b = a
    BY <1>2, <1>3, <2>1, <2>2, SoundKept
  <2> QED
    BY <1>2, <2>1, <2>2
<1>10. Nobody' /\ Waiting'
  BY <1>1 DEF BookInv, Nobody, Waiting
<1>11. Firing'
  BY <1>1, <1>3 DEF BookInv, Firing, BelowMLL, TypeOK
<1> QED
  BY <1>3, <1>8, <1>9, <1>10, <1>11 DEF BookInv

\* Without snapshots beside a pass and without crashes every step keeps it.
LEMMA NextBookInv ==
  ASSUME Events \cap {"snapshot", "crash"} = {}, DayInv, BookInv, [Next]_vars
  PROVE  BookInv'
<1>1. TypeOK /\ TypeOK' /\ OnePlacing /\ ~SnapLoad /\ ~SnapSave /\ ~Crash
  BY NextTypes DEF SnapLoad, SnapSave, Crash, DayInv
<1>2. CASE PassNext
  <2>1. CASE ListAccounts \/ Assign
    <3>1. cur = {}
      BY <1>1, <2>1 DEF ListAccounts, Assign, OnePlacing
    <3> QED
      BY <1>1, <2>1, <3>1, ReadBooks
  <2>2. ASSUME NEW a \in Account, Reconcile(a) PROVE BookInv'
    <3>1. cur = {}
      BY <1>1, <2>2 DEF Reconcile, OnePlacing
    <3> QED
      BY <1>1, <2>2, <3>1, ReconcileBooks
  <2>3. CASE SaveSchedule \/ MergeStates \/ SaveRegistry
    <3>1. cur = {}
      BY <1>1, <2>3 DEF SaveSchedule, MergeStates, SaveRegistry, OnePlacing
    <3> QED
      BY <1>1, <2>3, <3>1, EndBooks
  <2> QED
    BY <1>1, <1>2, <2>1, <2>2, <2>3, FireBooks DEF PassNext
<1>3. ASSUME NEW manual \in BOOLEAN, StartPass(manual) PROVE BookInv'
  <2>1. cur = {}
    BY <1>1, <1>3 DEF StartPass, OnePlacing
  <2> QED
    BY <1>1, <1>3, <2>1, ReadBooks
<1>4. ASSUME UNCHANGED <<states, mem, seen, trade_log, payouts_marked, pc, reconciled, todo, cur>>,
             \A a \in Account : Len(attempts'[a]) = Len(attempts[a])
      PROVE  BookInv'
  BY <1>1, <1>4, BrokerBooks
<1>5. ASSUME NEW a \in Account, NEW r \in Results, CloseTrade(a, r) PROVE BookInv'
  <2>1. PICK n \in OpenOrders(a) : attempts' = [attempts EXCEPT ![a][n].result = r]
    BY <1>5 DEF CloseTrade
  <2>2. \A b \in Account : Len(attempts'[b]) = Len(attempts[b])
    <3>1. attempts' = [attempts EXCEPT ![a] =
                         [attempts[a] EXCEPT ![n] = [attempts[a][n] EXCEPT !.result = r]]]
      BY <2>1
    <3>2. attempts \in [Account -> Seq(AttemptRec)] /\ attempts[a] \in Seq(AttemptRec)
      BY <1>1 DEF TypeOK
    <3> QED
      BY <3>1, <3>2
  <2> QED
    BY <1>4, <1>5, <2>2 DEF CloseTrade, fileVars, passVars
<1>6. CASE Clock
  BY <1>4, <1>6 DEF Clock, fileVars, passVars
<1>7. ASSUME NEW a \in Account, Toggle(a) PROVE BookInv'
  BY <1>4, <1>7 DEF Toggle, brokerVars, passVars
<1>8. CASE UNCHANGED vars \/ \E a \in Account : Delist(a)
  BY <1>4, <1>8, DelistsOnly DEF vars, brokerVars, fileVars, passVars
<1> QED
  BY <1>1, <1>2, <1>3, <1>5, <1>6, <1>7, <1>8, PayoutBooks DEF Next

\* Without snapshots and crashes the books hold in every behaviour.
LEMMA BooksHold ==
  ASSUME Events \cap {"snapshot", "crash"} = {}
  PROVE  Spec => [](DayInv /\ BookInv)
<1>1. DayInv /\ BookInv /\ [Next]_vars => (DayInv /\ BookInv)'
  BY NextDayInv, NextBookInv
<1> QED
  BY InitDayInv, InitBookInv, <1>1, PTL DEF Spec

\* The trade log never has two records of one trade, for every fleet and every
\* number of passes, under refused and timed-out orders, failed and late reads,
\* liquidations, withdrawals and toggles: reconcile() clears what it books
\* before the record is read again, and merge_save writes every record it has
\* booked.  A crash before that save, and a snapshot's older copy, do break it.
THEOREM BookedOnceHolds ==
  ASSUME Events \cap {"snapshot", "crash"} = {}
  PROVE  Spec => []BookedOnce
<1>1. BookInv => BookedOnce
  BY DEF BookInv
<1> QED
  BY BooksHold, <1>1, PTL

\* No account sends an order while a finished cycle's wins wait for their
\* withdrawal, under the same events: the wins booked in this very pass count,
\* because the fire loop looks at the record reconcile() has just left.
THEOREM PayoutHoldsAlways ==
  ASSUME Events \cap {"snapshot", "crash"} = {}
  PROVE  Spec => PayoutHolds
<1> DEFINE Holds == \A a \in Account :
             Len(attempts'[a]) > Len(attempts[a]) => Wins(a) < WinDays * (payouts_marked[a] + 1)
<1>1. ASSUME DayInv, BookInv, [Next]_vars PROVE Holds
  <2>1. TypeOK
    BY <1>1 DEF DayInv
  <2>2. ASSUME NEW a \in Account, Skip(a) \/ Place(a) PROVE Holds
    <3>1. /\ pc = "fire" /\ a \in todo /\ ~BelowMLL(mem[a], seen[a])
          /\ \E r : Attempt(a, r)
      BY <2>2 DEF Skip, Place
    <3>2. ~mem[a].payout_ready /\ SoundFor(a, mem[a])
      BY <1>1, <3>1 DEF BookInv, Firing, MemorySound
    <3>3. Wins(a) <= WinDays * payouts_marked[a] + mem[a].winning_days
          /\ mem[a].winning_days < WinDays
      BY <3>2 DEF SoundFor, Sound, WinsIn, Wins
    <3>4. mem[a].winning_days \in Nat /\ payouts_marked[a] \in Nat /\ WinDays \in Nat
      BY <2>1, SessionAssumption DEF TypeOK, StateRec
    <3>5. WinDays * (payouts_marked[a] + 1) = WinDays * payouts_marked[a] + WinDays
          /\ WinDays * payouts_marked[a] \in Nat
      BY <3>4
    <3>6. Wins(a) \in Nat
      <4>1. trade_log[a] \in Seq([attempt : Nat, outcome : Results])
        BY <2>1 DEF TypeOK
      <4>2. IsFiniteSet(DOMAIN trade_log[a])
        BY <4>1, FS_Interval
      <4> QED
        BY <4>2, FS_Subset, FS_CardinalityType DEF Wins
    <3>7. Wins(a) < WinDays * (payouts_marked[a] + 1)
      BY <3>3, <3>4, <3>5, <3>6
    <3>8. \A b \in Account : b # a => attempts'[b] = attempts[b]
      BY <2>1, <3>1, AttemptLength
    <3>9. \A b \in Account : Len(attempts[b]) \in Nat
      BY <2>1 DEF TypeOK
    <3> QED
      BY <3>7, <3>8, <3>9
  <2>3. ASSUME \A a \in Account : Len(attempts'[a]) = Len(attempts[a]) PROVE Holds
    <3>1. \A a \in Account : Len(attempts[a]) \in Nat
      BY <2>1 DEF TypeOK
    <3> QED
      BY <2>3, <3>1
  <2>4. CASE attempts' = attempts
    BY <2>3, <2>4
  <2>5. ASSUME NEW a \in Account, NEW r \in Results, CloseTrade(a, r) PROVE Holds
    <3>1. \A b \in Account : Len(attempts'[b]) = Len(attempts[b])
      <4>1. PICK n \in OpenOrders(a) : attempts' = [attempts EXCEPT ![a][n].result = r]
        BY <2>5 DEF CloseTrade
      <4>2. attempts' = [attempts EXCEPT ![a] =
                           [attempts[a] EXCEPT ![n] = [attempts[a][n] EXCEPT !.result = r]]]
        BY <4>1
      <4>3. attempts \in [Account -> Seq(AttemptRec)] /\ attempts[a] \in Seq(AttemptRec)
        BY <2>1 DEF TypeOK
      <4> QED
        BY <4>2, <4>3
    <3> QED
      BY <2>3, <3>1
  <2>6. CASE PassNext
    <3>1. ListAccounts \/ Assign \/ SaveSchedule \/ MergeStates \/ SaveRegistry => attempts' = attempts
      BY DEF ListAccounts, Assign, SaveSchedule, MergeStates, SaveRegistry, brokerVars
    <3>2. ASSUME NEW a \in Account, Reconcile(a) \/ MarkBlown(a) \/ RecordPlaced(a) \/ RecordRaised(a)
          PROVE  attempts' = attempts
      BY <3>2 DEF Reconcile, MarkBlown, RecordPlaced, RecordRaised, brokerVars
    <3> QED
      BY <2>2, <2>4, <2>6, <3>1, <3>2 DEF PassNext
  <2>7. CASE Clock \/ SnapLoad \/ SnapSave \/ Crash
    BY <2>4, <2>7 DEF Clock, SnapLoad, SnapSave, Crash, brokerVars
  <2>8. ASSUME NEW manual \in BOOLEAN, StartPass(manual) PROVE attempts' = attempts
    BY <2>8 DEF StartPass, brokerVars
  <2>9. ASSUME NEW a \in Account, MarkPayout(a) \/ Toggle(a) PROVE attempts' = attempts
    BY <2>9 DEF MarkPayout, Toggle, brokerVars
  <2>10. CASE UNCHANGED vars \/ \E a \in Account : Delist(a)
    BY <2>4, <2>10, DelistsOnly DEF vars, brokerVars
  <2> QED
    BY <1>1, <2>4, <2>5, <2>6, <2>7, <2>8, <2>9, <2>10 DEF Next
<1> QED
  BY BooksHold, <1>1, PTL DEF Spec, PayoutHolds

-----------------------------------------------------------------------------
(* The day's nuke orders.  An order needs a slot, a slot is a stamp on the *)
(* schedule the pass holds, and assign_day never stamps more accounts than *)
(* the cap, because it subtracts the stamps of accounts no longer in line. *)

Stamped(schedule) == {a \in Account : schedule[a] = day}
Nuked(a, d) == \E n \in DOMAIN attempts[a] :
                 attempts[a][n].day = d /\ attempts[a][n].nuke /\ Ordered(a, n)

\* While a pass fires, the schedule is the one it holds; else it is the file.
Held == pc \in {"fire", "placed", "raised"}

StampsInCap ==
  /\ \A a \in Account : stamps[a] <= day
  /\ Cardinality(Stamped(stamps)) <= MaxNukes
HeldInCap ==
  Held => /\ \A a \in Account : held[a] <= day
          /\ Stamped(stamps) \subseteq Stamped(held)
          /\ Cardinality(Stamped(held)) <= MaxNukes
          /\ \A a \in todo : BelowMLL(mem[a], seen[a]) \/ (NeedsNuke(mem[a]) => held[a] = day)

\* Every nuke order of today has its stamp; those of earlier days are history.
NukesAreStamped ==
  \A a \in Account : Nuked(a, day) => stamps[a] = day \/ (Held /\ held[a] = day)
PastInCap == \A d \in 1..day : d # day => Cardinality({a \in Account : Nuked(a, d)}) <= MaxNukes

SlotInv ==
  /\ TypeOK /\ NoFutureAttempt /\ OnePlacing /\ PassIsOfToday
  /\ StampsInCap /\ HeldInCap /\ NukesAreStamped /\ PastInCap

\* Nothing is stamped and nothing was ordered at the start.
LEMMA InitSlotInv == Init => SlotInv
<1> SUFFICES ASSUME Init PROVE SlotInv
  OBVIOUS
<1>1. TypeOK
  BY InitTypes
<1>2. \A a \in Account : DOMAIN attempts[a] = {} /\ stamps[a] = 0
  BY DEF Init
<1>3. day = 1 /\ pc = "idle" /\ cur = {} /\ todo = {}
  BY DEF Init
<1>4. Stamped(stamps) = {}
  BY <1>2, <1>3 DEF Stamped
<1>5. StampsInCap
  BY <1>2, <1>3, <1>4, FS_EmptySet, SessionAssumption DEF StampsInCap
<1>6. NoFutureAttempt /\ OnePlacing /\ PassIsOfToday /\ HeldInCap /\ NukesAreStamped /\ PastInCap
  BY <1>2, <1>3
     DEF NoFutureAttempt, OnePlacing, PassIsOfToday, HeldInCap, Held, NukesAreStamped, Nuked, PastInCap
<1> QED
  BY <1>1, <1>5, <1>6 DEF SlotInv

\* A set of accounts can be counted.
LEMMA CountAccounts ==
  ASSUME NEW S \in SUBSET Account
  PROVE  IsFiniteSet(S) /\ Cardinality(S) \in Nat
BY SessionAssumption, FS_Subset, FS_CardinalityType

\* The winners fit the slots that the ghosts leave, and the holders win.
LEMMA WinnersInCap ==
  ASSUME TypeOK, Cardinality(Stamped(stamps)) <= MaxNukes, now.day = day
  PROVE  Cardinality(Stamped(stamps) \cup NukeWinners) <= MaxNukes
<1> DEFINE C == Candidates
           G == Ghosts
           H == {a \in C : stamps[a] = day}
           W == NukeWinners
           S == Stamped(stamps)
           First(a) == {b \in C : Before(b, a)}
           Key(a) == QueueKey(a)
<1>1. C \subseteq Account /\ G \subseteq Account /\ H \subseteq Account /\ W \subseteq C
      /\ S \subseteq Account
  BY DEF TypeOK, Candidates, Strategy, Ghosts, NukeWinners, Stamped
<1>2. S = G \cup H /\ G \cap H = {} /\ G \cap W = {}
  BY <1>1 DEF Stamped, Ghosts
<1>3. /\ IsFiniteSet(G) /\ Cardinality(G) \in Nat /\ IsFiniteSet(H) /\ Cardinality(H) \in Nat
      /\ IsFiniteSet(W) /\ Cardinality(W) \in Nat /\ IsFiniteSet(S) /\ Cardinality(S) \in Nat
      /\ IsFiniteSet(C)
      /\ \A a \in C : IsFiniteSet(First(a)) /\ Cardinality(First(a)) \in Nat
  <2>1. W \subseteq Account /\ \A a \in C : First(a) \subseteq Account
    BY <1>1
  <2> HIDE DEF C, G, H, W, S, First
  <2> QED
    BY <1>1, <2>1, CountAccounts
<1>4. Cardinality(S) = Cardinality(G) + Cardinality(H)
  <2> HIDE DEF G, H, S
  <2>1. IsFiniteSet(G \cup H)
        /\ Cardinality(G \cup H) = Cardinality(G) + Cardinality(H) - Cardinality(G \cap H)
    BY <1>3, FS_Union
  <2>2. Cardinality(G \cap H) = 0
    BY <1>2, FS_EmptySet
  <2> QED
    BY <1>2, <1>3, <2>1, <2>2
<1>5. W = {a \in C : Cardinality(First(a)) + Cardinality(G) < MaxNukes}
  BY DEF NukeWinners
<1>6. ASSUME NEW a \in C, NEW b \in C
      PROVE  Before(a, b) <=>
               \/ Key(a)[1] < Key(b)[1]
               \/ Key(a)[1] = Key(b)[1] /\ Key(a)[2] < Key(b)[2]
               \/ Key(a)[1] = Key(b)[1] /\ Key(a)[2] = Key(b)[2] /\ Key(a)[3] < Key(b)[3]
               \/ Key(a)[1] = Key(b)[1] /\ Key(a)[2] = Key(b)[2] /\ Key(a)[3] = Key(b)[3]
                  /\ Key(a)[4] < Key(b)[4]
  <2>1. 1..4 = {1, 2, 3, 4} /\ 1..(1 - 1) = {} /\ 1..(2 - 1) = {1} /\ 1..(3 - 1) = {1, 2}
        /\ 1..(4 - 1) = {1, 2, 3}
    OBVIOUS
  <2> DEFINE P(i) == Key(a)[i] < Key(b)[i] /\ \A j \in 1..(i - 1) : Key(a)[j] = Key(b)[j]
  <2>2. Before(a, b) <=> P(1) \/ P(2) \/ P(3) \/ P(4)
    <3>1. Before(a, b) <=> \E i \in 1..4 : P(i)
      BY DEF Before
    <3> HIDE DEF P
    <3> QED
      BY <2>1, <3>1
  <2> HIDE DEF Key
  <2> QED
    BY <2>1, <2>2
<1>7. \A a \in C : /\ Key(a)[1] = (IF stamps[a] = day THEN 0 ELSE 1)
                   /\ Key(a)[2] \in Int /\ Key(a)[3] \in Int /\ Key(a)[4] = a /\ a \in Int
  BY <1>1, SessionAssumption DEF QueueKey, TypeOK
<1> HIDE DEF Key
<1>8. /\ \A a \in C : ~Before(a, a)
      /\ \A a, b \in C : a # b => Before(a, b) \/ Before(b, a)
      /\ \A a, b, c \in C : Before(a, b) /\ Before(b, c) => Before(a, c)
  <2>1. \A a \in C : Key(a)[1] \in Int
    BY <1>7
  <2> HIDE DEF C
  <2> QED
    BY <1>6, <1>7, <2>1
<1>9. Cardinality(H) + Cardinality(G) <= MaxNukes /\ MaxNukes \in Nat
  BY <1>3, <1>4, SessionAssumption
<1>10. H \subseteq W
  <2> SUFFICES ASSUME NEW a \in H PROVE Cardinality(First(a)) + Cardinality(G) < MaxNukes
    BY <1>5
  <2>1. First(a) \subseteq H \ {a}
    <3> SUFFICES ASSUME NEW b \in C, Before(b, a) PROVE b \in H /\ b # a
      OBVIOUS
    <3>1. Key(a)[1] = 0 /\ Key(b)[1] \in {0, 1} /\ (Key(b)[1] = 0 <=> stamps[b] = day)
      BY <1>7
    <3>2. Key(b)[1] = 0
      BY <1>6, <3>1
    <3> QED
      BY <1>8, <3>1, <3>2
  <2>2. IsFiniteSet(H \ {a}) /\ Cardinality(H \ {a}) = Cardinality(H) - 1
    BY <1>3, FS_RemoveElement
  <2>3. Cardinality(First(a)) <= Cardinality(H) - 1
    BY <2>1, <2>2, FS_Subset
  <2>4. Cardinality(First(a)) \in Nat
    BY <1>3
  <2> HIDE DEF First, H, G
  <2> QED
    BY <1>3, <1>9, <2>3, <2>4
<1>11. Cardinality(W) + Cardinality(G) <= MaxNukes
  <2>1. CASE W = {}
    <3>1. Cardinality(W) = 0
      BY <2>1, FS_EmptySet
    <3> HIDE DEF W, G, H
    <3> QED
      BY <1>3, <1>9, <3>1
  <2>2. CASE W # {}
    <3> DEFINE slots == MaxNukes - Cardinality(G)
               Rank == [a \in W |-> Cardinality(First(a))]
    <3>1. slots \in Nat
      <4> HIDE DEF G, H
      <4> QED
        BY <1>3, <1>9
    <3>2. ASSUME NEW a \in C, NEW b \in C, Before(a, b)
          PROVE  Cardinality(First(a)) # Cardinality(First(b))
      <4>1. First(a) \subseteq First(b) /\ a \in First(b) /\ a \notin First(a)
        BY <1>8, <3>2
      <4>2. IsFiniteSet(First(b))
        BY <1>3
      <4> QED
        BY <4>1, <4>2, FS_Subset
    <3>3. ASSUME NEW a \in W PROVE Cardinality(First(a)) \in 0..(slots - 1)
      <4>1. a \in C /\ Cardinality(First(a)) + Cardinality(G) < MaxNukes
        BY <1>5
      <4>2. Cardinality(First(a)) \in Nat /\ Cardinality(G) \in Nat
        BY <1>3, <4>1
      <4> HIDE DEF First, G
      <4> QED
        BY <1>9, <4>1, <4>2
    <3>4. ASSUME NEW a \in W, NEW b \in W, Cardinality(First(a)) = Cardinality(First(b))
          PROVE  a = b
      BY <1>1, <1>8, <3>2, <3>4
    <3>5. Rank \in Injection(W, 0..(slots - 1))
      <4> HIDE DEF W, First, slots
      <4>1. Rank \in [W -> 0..(slots - 1)]
        BY <3>3
      <4>2. \A a, b \in W : Rank[a] = Rank[b] => a = b
        BY <3>4
      <4> QED
        BY <4>1, <4>2 DEF Injection, IsInjective
    <3>6. IsFiniteSet(0..(slots - 1)) /\ Cardinality(0..(slots - 1)) = slots
      <4> HIDE DEF slots
      <4> QED
        BY <3>1, FS_Interval
    <3>7. Cardinality(W) <= slots
      <4> HIDE DEF Rank, W, slots
      <4> QED
        BY <3>5, <3>6, FS_Injection
    <3> HIDE DEF W, G
    <3> QED
      BY <1>3, <1>9, <3>7
  <2> QED
    BY <2>1, <2>2
<1>12. S \cup W = G \cup W
  <2> HIDE DEF S, G, W, H
  <2> QED
    BY <1>2, <1>10
<1>13. Cardinality(G \cup W) = Cardinality(G) + Cardinality(W)
  <2> HIDE DEF G, W
  <2>1. Cardinality(G \cup W) = Cardinality(G) + Cardinality(W) - Cardinality(G \cap W)
    BY <1>3, FS_Union
  <2>2. Cardinality(G \cap W) = 0
    BY <1>2, FS_EmptySet
  <2> QED
    BY <1>3, <2>1, <2>2
<1> HIDE DEF S, G, W
<1>14. Cardinality(S \cup W) <= MaxNukes
  <2>1. Cardinality(S \cup W) = Cardinality(G) + Cardinality(W)
    BY <1>12, <1>13
  <2> QED
    BY <1>3, <1>9, <1>11, <2>1
<1> QED
  BY <1>14 DEF S, W

\* The orders of the broker, by day and kind, where no attempt is added.
LEMMA NukesUntouched ==
  ASSUME SlotInv, day' = day,
         \A a \in Account : \A d : Nuked(a, d)' <=> Nuked(a, d)
  PROVE  PastInCap' /\ \A a \in Account : Nuked(a, day)' <=> Nuked(a, day)
<1>1. ASSUME NEW d PROVE {a \in Account : Nuked(a, d)}' = {a \in Account : Nuked(a, d)}
  OBVIOUS
<1>2. PastInCap'
  BY <1>1 DEF SlotInv, PastInCap
<1> QED
  BY <1>2

\* Steps of which the stamps, the attempts and the pass's list know nothing.
LEMMA SlotsUntouched ==
  ASSUME SlotInv, TypeOK', UNCHANGED <<day, attempts, stamps, held, mem, seen, todo, cur, pc, now>>
  PROVE  SlotInv'
<1>1. NoFutureAttempt' /\ OnePlacing' /\ PassIsOfToday'
  BY DEF SlotInv, NoFutureAttempt, OnePlacing, PassIsOfToday
<1>2. StampsInCap'
  BY DEF SlotInv, StampsInCap, Stamped
<1>3. HeldInCap'
  BY DEF SlotInv, HeldInCap, Held, Stamped, BelowMLL, NeedsNuke, TypeOK
<1>4. NukesAreStamped' /\ PastInCap'
  BY DEF SlotInv, NukesAreStamped, PastInCap, Nuked, Ordered, Held
<1> QED
  BY <1>1, <1>2, <1>3, <1>4 DEF SlotInv

\* A pass that has not fired yet, or has saved its schedule, adds no order.
LEMMA PassSlots ==
  ASSUME SlotInv, TypeOK',
         \/ \E manual \in BOOLEAN : StartPass(manual)
         \/ ListAccounts
         \/ \E a \in Account : Reconcile(a)
         \/ MergeStates \/ SaveRegistry
  PROVE  SlotInv'
<1>1. UNCHANGED <<day, attempts, stamps>> /\ cur' = {} /\ ~Held /\ ~Held' /\ cur = {}
  BY DEF StartPass, ListAccounts, Reconcile, MergeStates, SaveRegistry, PassIdle, Held,
         clockVars, brokerVars, fileVars, SlotInv, OnePlacing
<1>2. NoFutureAttempt' /\ OnePlacing'
  BY <1>1 DEF SlotInv, NoFutureAttempt, OnePlacing
<1>3. PassIsOfToday'
  BY <1>1 DEF SlotInv, PassIsOfToday, StartPass, ListAccounts, Reconcile, MergeStates, SaveRegistry,
              PassIdle
<1>4. StampsInCap' /\ HeldInCap'
  BY <1>1 DEF SlotInv, StampsInCap, Stamped, HeldInCap
<1>5. NukesAreStamped' /\ PastInCap'
  BY <1>1 DEF SlotInv, NukesAreStamped, PastInCap, Nuked, Ordered
<1> QED
  BY <1>2, <1>3, <1>4, <1>5 DEF SlotInv

\* assign_day: the schedule the pass holds has the stamps of the file and the
\* winners', and who still needs a nuke fires only with a stamp.
LEMMA AssignSlots ==
  ASSUME SlotInv, TypeOK', Assign
  PROVE  SlotInv'
<1>1. /\ UNCHANGED <<day, attempts, stamps, mem, seen, cur, now>> /\ cur = {} /\ ~Held /\ Held'
      /\ now.day = day /\ pc' = "fire"
      /\ held' = [a \in Account |-> IF a \in NukeWinners THEN day ELSE stamps[a]]
  BY DEF Assign, Held, clockVars, brokerVars, fileVars, SlotInv, OnePlacing, PassIsOfToday
<1>2. NoFutureAttempt' /\ OnePlacing' /\ PassIsOfToday'
  BY <1>1 DEF SlotInv, NoFutureAttempt, OnePlacing, PassIsOfToday
<1>3. StampsInCap'
  BY <1>1 DEF SlotInv, StampsInCap, Stamped
<1>4. Stamped(held)' = Stamped(stamps) \cup NukeWinners
  <2>1. NukeWinners \subseteq Account
    BY DEF NukeWinners, Candidates, Strategy, SlotInv, TypeOK
  <2> QED
    BY <1>1, <2>1 DEF Stamped
<1>5. Cardinality(Stamped(held)') <= MaxNukes
  BY <1>1, <1>4, WinnersInCap DEF SlotInv, StampsInCap
<1>6. HeldInCap'
  <2>1. \A a \in Account : held'[a] <= day
    BY <1>1, SessionAssumption DEF SlotInv, StampsInCap, TypeOK
  <2>2. \A a \in todo' : BelowMLL(mem[a], seen[a]) \/ (NeedsNuke(mem[a]) => held'[a] = day)
    <3> SUFFICES ASSUME NEW a \in todo', ~BelowMLL(mem[a], seen[a]), NeedsNuke(mem[a])
                 PROVE  held'[a] = day
      OBVIOUS
    <3>1. a \in Strategy /\ Due(a)
      BY DEF Assign, Strategy
    <3>2. a \in NukeWinners /\ a \in Account
      BY <3>1 DEF Due, NukeWinners, Candidates, Strategy, SlotInv, TypeOK
    <3> QED
      BY <1>1, <3>2
  <2>3. Stamped(stamps)' = Stamped(stamps)
    BY <1>1 DEF Stamped
  <2> QED
    BY <1>1, <1>4, <1>5, <2>1, <2>2, <2>3 DEF HeldInCap, BelowMLL, NeedsNuke
<1>7. NukesAreStamped' /\ PastInCap'
  BY <1>1 DEF SlotInv, NukesAreStamped, PastInCap, Nuked, Ordered
<1> QED
  BY <1>2, <1>3, <1>6, <1>7 DEF SlotInv

\* save_schedule: the file takes over what the pass held.
LEMMA SaveSlots ==
  ASSUME SlotInv, TypeOK', SaveSchedule
  PROVE  SlotInv'
<1>1. /\ UNCHANGED <<day, attempts, cur, now>> /\ cur = {} /\ Held /\ ~Held' /\ stamps' = held
      /\ pc = "fire" /\ pc' = "merge"
  BY DEF SaveSchedule, Held, clockVars, brokerVars, SlotInv, OnePlacing
<1>2. NoFutureAttempt' /\ OnePlacing' /\ PassIsOfToday'
  BY <1>1 DEF SlotInv, NoFutureAttempt, OnePlacing, PassIsOfToday
<1>3. Stamped(stamps)' = Stamped(held)
  BY <1>1 DEF Stamped
<1>4. StampsInCap' /\ HeldInCap'
  BY <1>1, <1>3 DEF SlotInv, StampsInCap, HeldInCap
<1>5. NukesAreStamped'
  <2> SUFFICES ASSUME NEW a \in Account, Nuked(a, day) PROVE stamps'[a] = day
    BY <1>1 DEF NukesAreStamped, Nuked, Ordered
  <2>1. stamps[a] = day => held[a] = day
    BY <1>1 DEF SlotInv, HeldInCap, Stamped
  <2> QED
    BY <1>1, <2>1 DEF SlotInv, NukesAreStamped
<1>6. PastInCap'
  BY <1>1 DEF SlotInv, PastInCap, Nuked, Ordered
<1> QED
  BY <1>2, <1>4, <1>5, <1>6 DEF SlotInv

\* A closing trade stays an order, and a new day starts with none.
LEMMA BrokerSlots ==
  ASSUME SlotInv, TypeOK', (\E a \in Account, r \in Results : CloseTrade(a, r)) \/ Clock
  PROVE  SlotInv'
<1>1. ASSUME NEW a \in Account, NEW r \in Results, CloseTrade(a, r) PROVE SlotInv'
  <2>1. PICK n \in OpenOrders(a) : attempts' = [attempts EXCEPT ![a][n].result = r]
    BY <1>1 DEF CloseTrade
  <2>2. /\ UNCHANGED <<day, stamps, held, mem, seen, todo, cur, pc, now>>
        /\ r \in {"win", "loss", "flat"}
    BY <1>1 DEF CloseTrade, clockVars, fileVars, passVars
  <2>3. /\ attempts \in [Account -> Seq(AttemptRec)] /\ attempts[a] \in Seq(AttemptRec)
        /\ n \in DOMAIN attempts[a] /\ attempts[a][n] \in AttemptRec
    BY <2>1 DEF SlotInv, TypeOK, OpenOrders
  <2> DEFINE rec == [attempts[a][n] EXCEPT !.result = r]
  <2>4. rec.day = attempts[a][n].day /\ rec.nuke = attempts[a][n].nuke /\ rec.result = r
    BY <2>3 DEF AttemptRec
  <2>5. attempts' = [attempts EXCEPT ![a] = [attempts[a] EXCEPT ![n] = rec]]
    BY <2>1
  <2>6. attempts[a][n].result = "open"
    BY <2>1 DEF OpenOrders, IsOpen
  <2> HIDE DEF rec
  <2>7. \A b \in Account : /\ DOMAIN attempts'[b] = DOMAIN attempts[b]
                           /\ \A m \in DOMAIN attempts[b] :
                                /\ attempts'[b][m].day = attempts[b][m].day
                                /\ attempts'[b][m].nuke = attempts[b][m].nuke
                                /\ Ordered(b, m)' <=> Ordered(b, m)
    <3> SUFFICES ASSUME NEW b \in Account
                 PROVE  /\ DOMAIN attempts'[b] = DOMAIN attempts[b]
                        /\ \A m \in DOMAIN attempts[b] :
                             /\ attempts'[b][m].day = attempts[b][m].day
                             /\ attempts'[b][m].nuke = attempts[b][m].nuke
                             /\ Ordered(b, m)' <=> Ordered(b, m)
      OBVIOUS
    <3>1. CASE b # a
      BY <2>3, <2>5, <3>1 DEF Ordered
    <3>2. CASE b = a
      <4>1. attempts'[a] = [attempts[a] EXCEPT ![n] = rec]
        BY <2>3, <2>5
      <4>2. DOMAIN attempts'[a] = DOMAIN attempts[a]
        BY <4>1
      <4> QED
        BY <2>2, <2>3, <2>4, <2>6, <3>2, <4>1, <4>2 DEF Ordered
    <3> QED
      BY <3>1, <3>2
  <2>8. \A b \in Account : \A d : Nuked(b, d)' <=> Nuked(b, d)
    BY <2>7 DEF Nuked
  <2>9. PastInCap' /\ NukesAreStamped'
    BY <2>2, <2>8, NukesUntouched DEF SlotInv, NukesAreStamped, Held
  <2>10. NoFutureAttempt' /\ OnePlacing' /\ PassIsOfToday'
    BY <2>2, <2>7 DEF SlotInv, NoFutureAttempt, OnePlacing, PassIsOfToday
  <2>11. StampsInCap'
    BY <2>2 DEF SlotInv, StampsInCap, Stamped
  <2>12. HeldInCap'
    BY <2>2 DEF SlotInv, HeldInCap, Held, Stamped, BelowMLL, NeedsNuke, TypeOK
  <2> QED
    BY <2>9, <2>10, <2>11, <2>12 DEF SlotInv
<1>2. CASE Clock /\ day' = day
  BY <1>2, SlotsUntouched DEF Clock, fileVars, passVars
<1>3. CASE Clock /\ day' # day
  <2>1. /\ UNCHANGED <<attempts, stamps, held, mem, seen, todo, cur, pc, now>>
        /\ pc = "idle" /\ day' = day + 1 /\ day \in Nat
    BY <1>3, SessionAssumption DEF Clock, ClockMoves, fileVars, passVars, SlotInv, TypeOK
  <2>2. ASSUME NEW a \in Account, NEW n \in DOMAIN attempts[a]
        PROVE  attempts[a][n].day \in Nat /\ attempts[a][n].day <= day
    <3>1. attempts[a] \in Seq(AttemptRec)
      BY DEF SlotInv, TypeOK
    <3>2. attempts[a][n] \in AttemptRec
      BY <3>1
    <3> QED
      BY <3>2, SessionAssumption DEF AttemptRec, SlotInv, NoFutureAttempt
  <2>3. NoFutureAttempt' /\ OnePlacing' /\ PassIsOfToday' /\ HeldInCap'
    BY <2>1, <2>2 DEF NoFutureAttempt, OnePlacing, SlotInv, PassIsOfToday, HeldInCap, Held
  <2>4. \A a \in Account : stamps[a] \in Nat /\ stamps[a] <= day
    BY DEF SlotInv, StampsInCap, TypeOK
  <2>5. Stamped(stamps)' = {}
    BY <2>1, <2>4 DEF Stamped
  <2>6. StampsInCap'
    BY <2>1, <2>4, <2>5, FS_EmptySet, SessionAssumption DEF StampsInCap
  <2>7. \A a \in Account : ~Nuked(a, day + 1)
    BY <2>1, <2>2 DEF Nuked
  <2>8. NukesAreStamped'
    BY <2>1, <2>7 DEF NukesAreStamped, Nuked, Ordered
  <2>9. Cardinality({a \in Account : Nuked(a, day)}) <= MaxNukes
    <3>1. {a \in Account : Nuked(a, day)} \subseteq Stamped(stamps)
      BY <2>1 DEF SlotInv, NukesAreStamped, Held, Stamped
    <3>2. IsFiniteSet(Stamped(stamps)) /\ Cardinality(Stamped(stamps)) \in Nat
      BY CountAccounts DEF Stamped
    <3>3. Cardinality({a \in Account : Nuked(a, day)}) <= Cardinality(Stamped(stamps))
          /\ Cardinality({a \in Account : Nuked(a, day)}) \in Nat
      BY <3>1, <3>2, FS_Subset, CountAccounts
    <3> QED
      BY <3>2, <3>3, SessionAssumption DEF SlotInv, StampsInCap
  <2>10. PastInCap'
    <3> SUFFICES ASSUME NEW d \in 1..day PROVE Cardinality({a \in Account : Nuked(a, d)}) <= MaxNukes
      BY <2>1 DEF PastInCap, Nuked, Ordered
    <3>1. CASE d = day
      BY <2>9, <3>1
    <3>2. CASE d # day
      BY <3>2 DEF SlotInv, PastInCap
    <3> QED
      BY <3>1, <3>2
  <2> QED
    BY <2>3, <2>6, <2>8, <2>10 DEF SlotInv
<1> QED
  BY <1>1, <1>2, <1>3

\* An attempt adds to its account's orders of today alone, and only as a nuke
\* order when the account still needs its nuke.
LEMMA AttemptSlots ==
  ASSUME SlotInv, NEW a \in Account, NEW r \in Results, Attempt(a, r), day' = day
  PROVE  /\ NoFutureAttempt'
         /\ \A b \in Account : \A d : Nuked(b, d)' =>
              \/ Nuked(b, d)
              \/ b = a /\ d = day /\ NeedsNuke(mem[a]) /\ r \notin {"skipped", "rejected"}
         /\ \A b \in Account : \A d : Nuked(b, d) => Nuked(b, d)'
<1> DEFINE rec == [day |-> day, nuke |-> NeedsNuke(mem[a]), result |-> r]
           len == Len(attempts[a])
<1>1. attempts' = [attempts EXCEPT ![a] = Append(attempts[a], rec)]
      /\ rec.day = day /\ rec.nuke = NeedsNuke(mem[a]) /\ rec.result = r
  BY DEF Attempt
<1>2. attempts \in [Account -> Seq(AttemptRec)] /\ attempts[a] \in Seq(AttemptRec) /\ day \in Nat
  BY SessionAssumption DEF SlotInv, TypeOK
<1> HIDE DEF rec
<1>3. \A b \in Account : b # a => attempts'[b] = attempts[b]
  BY <1>1, <1>2
<1>4. /\ DOMAIN attempts'[a] = 1..(len + 1) /\ len \in Nat /\ DOMAIN attempts[a] = 1..len
      /\ attempts'[a][len + 1] = rec
      /\ \A n \in 1..len : attempts'[a][n] = attempts[a][n]
  BY <1>1, <1>2
<1>5. NoFutureAttempt'
  <2> SUFFICES ASSUME NEW b \in Account, NEW n \in DOMAIN attempts'[b]
               PROVE  attempts'[b][n].day <= day
    BY DEF NoFutureAttempt
  <2>1. CASE b # a
    BY <1>3, <2>1 DEF SlotInv, NoFutureAttempt
  <2>2. CASE b = a /\ n = len + 1
    BY <1>1, <1>2, <1>4, <2>2
  <2>3. CASE b = a /\ n # len + 1
    BY <1>4, <2>3 DEF SlotInv, NoFutureAttempt
  <2> QED
    BY <2>1, <2>2, <2>3
<1>6. ASSUME NEW b \in Account, NEW d
      PROVE  /\ Nuked(b, d)' => \/ Nuked(b, d)
                                \/ b = a /\ d = day /\ NeedsNuke(mem[a])
                                   /\ r \notin {"skipped", "rejected"}
             /\ Nuked(b, d) => Nuked(b, d)'
  <2>1. CASE b # a
    BY <1>3, <2>1 DEF Nuked, Ordered
  <2>2. CASE b = a
    <3>1. ASSUME NEW n \in DOMAIN attempts[a]
          PROVE  /\ n \in DOMAIN attempts'[a] /\ attempts'[a][n] = attempts[a][n]
                 /\ Ordered(a, n)' <=> Ordered(a, n)
      BY <1>4 DEF Ordered
    <3>2. ASSUME NEW n \in DOMAIN attempts'[a], n \notin DOMAIN attempts[a]
          PROVE  /\ attempts'[a][n].day = day /\ attempts'[a][n].nuke = NeedsNuke(mem[a])
                 /\ Ordered(a, n)' => r \notin {"skipped", "rejected"}
      <4>1. attempts'[a][n] = rec
        BY <1>4, <3>2
      <4> QED
        BY <1>1, <4>1 DEF Ordered
    <3>3. Nuked(a, d) => Nuked(a, d)'
      BY <3>1 DEF Nuked
    <3>4. ASSUME Nuked(a, d)'
          PROVE  Nuked(a, d) \/ (d = day /\ NeedsNuke(mem[a]) /\ r \notin {"skipped", "rejected"})
      <4>1. PICK n \in DOMAIN attempts'[a] :
              attempts'[a][n].day = d /\ attempts'[a][n].nuke /\ Ordered(a, n)'
        BY <3>4 DEF Nuked
      <4>2. CASE n \in DOMAIN attempts[a]
        BY <3>1, <4>1, <4>2 DEF Nuked
      <4>3. CASE n \notin DOMAIN attempts[a]
        BY <3>2, <4>1, <4>3
      <4> QED
        BY <4>2, <4>3
    <3> QED
      BY <2>2, <3>3, <3>4
  <2> QED
    BY <2>1, <2>2
<1> QED
  BY <1>5, <1>6

\* The fire loop orders a nuke only for who holds a stamp.
LEMMA FireSlots ==
  ASSUME SlotInv, TypeOK', NEW a \in Account,
         \/ MarkBlown(a) \/ Skip(a) \/ Place(a) \/ RecordPlaced(a) \/ RecordRaised(a)
  PROVE  SlotInv'
<1>1. /\ UNCHANGED <<day, stamps, held, seen, now>> /\ Held /\ Held' /\ now.day = day
      /\ todo' \subseteq todo /\ a \notin todo'
      /\ \A b \in Account : b # a => mem'[b] = mem[b]
  BY DEF MarkBlown, Skip, Place, RecordPlaced, RecordRaised, Persist, fireRest, clockVars, Held,
         SlotInv, TypeOK, OnePlacing, PassIsOfToday
<1>2. OnePlacing' /\ PassIsOfToday'
  BY <1>1 DEF MarkBlown, Skip, Place, RecordPlaced, RecordRaised, SlotInv, OnePlacing, PassIsOfToday
<1>3. StampsInCap'
  BY <1>1 DEF SlotInv, StampsInCap, Stamped
<1>4. HeldInCap'
  <2>1. \A b \in todo' : b \in todo /\ b \in Account /\ mem'[b] = mem[b]
    BY <1>1 DEF SlotInv, TypeOK
  <2>2. \A b \in todo' : BelowMLL(mem[b], seen[b]) \/ (NeedsNuke(mem[b]) => held[b] = day)
    BY <1>1, <2>1 DEF SlotInv, HeldInCap
  <2>3. Stamped(stamps)' = Stamped(stamps) /\ Stamped(held)' = Stamped(held)
    BY <1>1 DEF Stamped
  <2> QED
    BY <1>1, <2>1, <2>2, <2>3 DEF SlotInv, HeldInCap, BelowMLL, NeedsNuke
<1>5. CASE Skip(a) \/ Place(a)
  <2>1. PICK r \in Results : Attempt(a, r)
    BY <1>5 DEF Skip, Place, Results
  <2>2. a \in todo /\ ~BelowMLL(mem[a], seen[a])
    BY <1>5 DEF Skip, Place
  <2>3. NeedsNuke(mem[a]) => held[a] = day
    BY <1>1, <2>2 DEF SlotInv, HeldInCap
  <2>4. /\ NoFutureAttempt'
        /\ \A b \in Account : \A d : Nuked(b, d)' => Nuked(b, d) \/ (b = a /\ d = day /\ held[a] = day)
        /\ \A b \in Account : \A d : Nuked(b, d) => Nuked(b, d)'
    BY <1>1, <2>1, <2>3, AttemptSlots
  <2>5. NukesAreStamped'
    <3> SUFFICES ASSUME NEW b \in Account, Nuked(b, day)' PROVE stamps[b] = day \/ held[b] = day
      BY <1>1 DEF NukesAreStamped
    <3>1. Nuked(b, day) \/ (b = a /\ held[a] = day)
      BY <1>1, <2>4 DEF Nuked, Ordered
    <3> QED
      BY <1>1, <3>1 DEF SlotInv, NukesAreStamped
  <2>6. PastInCap'
    <3> SUFFICES ASSUME NEW d \in 1..day, d # day
                 PROVE  Cardinality({b \in Account : Nuked(b, d)}') <= MaxNukes
      BY <1>1 DEF PastInCap
    <3>1. {b \in Account : Nuked(b, d)}' = {b \in Account : Nuked(b, d)}
      BY <2>4
    <3> QED
      BY <3>1 DEF SlotInv, PastInCap
  <2> QED
    BY <1>2, <1>3, <1>4, <2>4, <2>5, <2>6 DEF SlotInv
<1>6. CASE MarkBlown(a) \/ RecordPlaced(a) \/ RecordRaised(a)
  <2>1. attempts' = attempts
    BY <1>6 DEF MarkBlown, RecordPlaced, RecordRaised
  <2>2. NoFutureAttempt' /\ NukesAreStamped' /\ PastInCap'
    BY <1>1, <2>1 DEF SlotInv, NoFutureAttempt, NukesAreStamped, PastInCap, Nuked, Ordered
  <2> QED
    BY <1>2, <1>3, <1>4, <2>2 DEF SlotInv
<1> QED
  BY <1>5, <1>6

\* Without crashes every step keeps it.
LEMMA NextSlotInv ==
  ASSUME "crash" \notin Events, SlotInv, [Next]_vars
  PROVE  SlotInv'
<1>1. TypeOK' /\ ~Crash
  BY NextTypes DEF SlotInv, Crash
<1>2. CASE PassNext
  BY <1>1, <1>2, PassSlots, AssignSlots, FireSlots, SaveSlots DEF PassNext
<1>3. ASSUME NEW manual \in BOOLEAN, StartPass(manual) PROVE SlotInv'
  BY <1>1, <1>3, PassSlots
<1>4. CASE SnapLoad \/ SnapSave
  BY <1>1, <1>4, SlotsUntouched DEF SnapLoad, SnapSave, clockVars, brokerVars, fileVars, passVars
<1>5. ASSUME NEW a \in Account, MarkPayout(a) \/ Toggle(a) PROVE SlotInv'
  BY <1>1, <1>5, SlotsUntouched DEF MarkPayout, Toggle, clockVars, brokerVars, passVars
<1>6. CASE UNCHANGED vars \/ \E a \in Account : Delist(a)
  BY <1>1, <1>6, SlotsUntouched, DelistsOnly DEF vars, clockVars, brokerVars, fileVars, passVars
<1> QED
  BY <1>1, <1>2, <1>3, <1>4, <1>5, <1>6, BrokerSlots DEF Next

\* At most max_nukes_per_day accounts of a key have a nuke order on a day, for
\* every fleet and every number of passes, snapshots beside them included,
\* whoever was liquidated, paid out or switched off in between.  A crash after
\* an order and before save_schedule loses the stamp, and is left out.
THEOREM NukeOrderCapHolds ==
  ASSUME "crash" \notin Events
  PROVE  Spec => []NukeOrderCap
<1>1. SlotInv => NukeOrderCap
  <2> SUFFICES ASSUME SlotInv, NEW d \in 1..day
               PROVE  Cardinality({a \in Account : Nuked(a, d)}) <= MaxNukes
    BY DEF NukeOrderCap, Nuked
  <2>1. CASE d # day
    BY <2>1 DEF SlotInv, PastInCap
  <2>2. CASE d = day
    <3>1. PICK f \in {stamps, held} :
            /\ {a \in Account : Nuked(a, day)} \subseteq Stamped(f)
            /\ Cardinality(Stamped(f)) <= MaxNukes
      <4>1. CASE Held
        BY <4>1 DEF SlotInv, NukesAreStamped, HeldInCap, Stamped
      <4>2. CASE ~Held
        BY <4>2 DEF SlotInv, NukesAreStamped, StampsInCap, Stamped
      <4> QED
        BY <4>1, <4>2
    <3>2. IsFiniteSet(Stamped(f)) /\ Cardinality(Stamped(f)) \in Nat
      BY CountAccounts DEF Stamped
    <3>3. Cardinality({a \in Account : Nuked(a, day)}) <= Cardinality(Stamped(f))
          /\ Cardinality({a \in Account : Nuked(a, day)}) \in Nat
      BY <3>1, <3>2, FS_Subset, CountAccounts
    <3> QED
      BY <2>2, <3>1, <3>2, <3>3, SessionAssumption
  <2> QED
    BY <2>1, <2>2
<1>2. SlotInv /\ [Next]_vars => SlotInv'
  BY NextSlotInv
<1> QED
  BY InitSlotInv, <1>1, <1>2, PTL DEF Spec

-----------------------------------------------------------------------------
(* Every order accounted for.  A pending record carries the balance the    *)
(* account had before the order, and nothing else moves that balance until *)
(* the record is booked: this is why the difference reconcile() reads is   *)
(* what the broker made of the trade.                                      *)

Quiet == Events \cap {"timeout", "readfail", "closerace", "snapshot", "crash"} = {}

\* A pending record stands for an order the broker took, made on its fire date,
\* and its entry balance is the balance without that trade.
Tracks(st, list, bal) ==
  st.pending # 0 =>
    /\ st.pending \in DOMAIN list
    /\ list[st.pending].result \notin {"skipped", "rejected"}
    /\ bal = st.pending_entry_balance + Delta(list[st.pending].result)
    /\ st.last_fire_date = list[st.pending].day
TracksFor(a, st) == Tracks(st, attempts[a], balance[a])

OpenToday == \A a \in Account : \A n \in OpenOrders(a) : attempts[a][n].day = day
LoggedTruth ==
  \A a \in Account : \A i \in DOMAIN trade_log[a] :
    /\ trade_log[a][i].outcome = attempts[a][trade_log[a][i].attempt].result
    /\ trade_log[a][i].outcome \in {"win", "loss", "flat"}

DiskTracks   == \A a \in Account : ~Logged(a, states[a].pending) => TracksFor(a, states[a])
MemoryTracks == pc # "idle" => \A a \in Account : TracksFor(a, mem[a])

\* Disk and memory wait for the same trade, unless memory has just booked it.
SameTrade ==
  pc # "idle" => \A a \in Account :
    \/ states[a].pending = mem[a].pending
    \/ mem[a].pending = 0 /\ Logged(a, states[a].pending)
ReadyRests == \A a \in Account : states[a].payout_ready => states[a].pending = 0

\* While a pass reads positions nothing closes (no closerace), so what it leaves
\* pending of the accounts it may fire still works.
Reading ==
  pc = "reconcile" =>
    seen = balance /\ \A a \in tradeable \ todo : mem[a].pending # 0 => Position(a)

\* What is to be fired has no trade of any kind.
Settled(a) == mem[a].pending = 0 /\ ~Position(a) /\ seen[a] = balance[a]
FiresSettled ==
  pc \in {"fire", "placed", "raised"} => \A a \in todo : BelowMLL(mem[a], seen[a]) \/ Settled(a)

\* Between the place call and merge_save the order is the account's last one.
InHand ==
  \A a \in cur :
    /\ mem[a].pending = 0 /\ Len(attempts[a]) # 0
    /\ pc = "placed" => TracksFor(a, Pending(mem[a], Len(attempts[a]), seen[a], day))
    /\ pc = "raised" => ~Position(a) /\ ~Ordered(a, Len(attempts[a]))

AccInv ==
  /\ OpenToday /\ LoggedTruth /\ OrderTracked /\ DiskTracks /\ MemoryTracks /\ SameTrade
  /\ ReadyRests /\ Reading /\ FiresSettled /\ InHand

Base == DayInv /\ BookInv /\ OneOpen

\* Nothing was ordered at the start.
LEMMA InitAccInv == Init => AccInv
<1> SUFFICES ASSUME Init PROVE AccInv
  OBVIOUS
<1>1. \A a \in Account : /\ DOMAIN attempts[a] = {} /\ DOMAIN trade_log[a] = {}
                         /\ states[a].pending = 0 /\ ~states[a].payout_ready
  BY DEF Init, NoStates
<1>2. pc = "idle" /\ cur = {}
  BY DEF Init
<1>3. OpenToday /\ LoggedTruth /\ OrderTracked
  BY <1>1 DEF OpenToday, OpenOrders, LoggedTruth, OrderTracked
<1> QED
  BY <1>1, <1>2, <1>3
     DEF AccInv, DiskTracks, TracksFor, Tracks, MemoryTracks, SameTrade, ReadyRests, Reading,
         FiresSettled, InHand

\* The broker's arithmetic of an outcome, and reconcile()'s reading of it.
LEMMA Outcomes ==
  /\ Delta("open") = 0
  /\ \A r \in Results : Delta(r) \in Int
  /\ \A r \in {"win", "loss", "flat"} : Classify(Delta(r)) = r
<1>1. Delta("open") = 0 /\ Delta("skipped") = 0 /\ Delta("rejected") = 0 /\ Delta("flat") = 0
  BY DEF Delta
<1>2. Delta("win") = 1 /\ Delta("loss") = -1
  BY DEF Delta
<1>3. Classify(1) = "win" /\ Classify(-1) = "loss" /\ Classify(0) = "flat"
  BY DEF Classify
<1> QED
  BY <1>1, <1>2, <1>3 DEF Results

\* An open order is nobody's but the record's that waits for it, or the pass's.
LEMMA OnePosition ==
  ASSUME Base, AccInv, NEW a \in Account, NEW n \in OpenOrders(a)
  PROVE  /\ n \in DOMAIN attempts[a] /\ n # 0 /\ ~Logged(a, n)
         /\ a \in cur => n = Len(attempts[a]) /\ pc = "placed" /\ mem[a].pending = 0
         /\ a \notin cur => states[a].pending = n /\ (pc # "idle" => mem[a].pending = n)
<1>1. /\ n \in DOMAIN attempts[a] /\ attempts[a][n].result = "open" /\ Ordered(a, n)
  BY DEF OpenOrders, IsOpen, Ordered
<1>2. n # 0
  <2>1. attempts[a] \in Seq(AttemptRec)
    BY DEF Base, DayInv, TypeOK
  <2> QED
    BY <1>1, <2>1
<1>3. ~Logged(a, n)
  BY <1>1 DEF Logged, AccInv, LoggedTruth
<1>4. states[a].pending = n \/ (a \in cur /\ n = Len(attempts[a]))
  BY <1>1, <1>3 DEF AccInv, OrderTracked
<1>5. pc # "idle" /\ states[a].pending = n => mem[a].pending = n
  BY <1>3 DEF AccInv, SameTrade
<1>6. CASE a \in cur
  <2>1. pc \in {"placed", "raised"} /\ mem[a].pending = 0 /\ (pc = "raised" => ~Position(a))
    BY <1>6 DEF AccInv, InHand, Base, DayInv, OnePlacing
  <2>2. pc = "placed"
    BY <2>1 DEF Position
  <2> QED
    BY <1>1, <1>2, <1>3, <1>4, <1>5, <1>6, <2>1, <2>2
<1>7. CASE a \notin cur
  BY <1>1, <1>2, <1>3, <1>4, <1>5, <1>7
<1> QED
  BY <1>6, <1>7

\* What is pending keeps its trade through the steps of a pass.
LEMMA TrackedFields ==
  ASSUME NEW st \in StateRec, NEW bal, NEW n, NEW today
  PROVE  /\ Ratcheted(st, bal, today).pending = st.pending
         /\ Ratcheted(st, bal, today).pending_entry_balance = st.pending_entry_balance
         /\ Ratcheted(st, bal, today).last_fire_date = st.last_fire_date
         /\ [st EXCEPT !.last_fire_date = today].pending = st.pending
         /\ [st EXCEPT !.phase = "blown"].pending = st.pending
         /\ Pending(st, n, bal, today).pending = n
         /\ Pending(st, n, bal, today).pending_entry_balance = bal
         /\ Pending(st, n, bal, today).last_fire_date = today
         /\ PaidOut(st).pending = 0
BY DEF Ratcheted, Pending, PaidOut, NextCycle, StateRec

\* A record that waits for the order that closes follows the balance.
LEMMA TracksClose ==
  ASSUME NEW st \in StateRec, NEW list \in Seq(AttemptRec), NEW bal \in Int,
         NEW n \in DOMAIN list, list[n].result = "open", NEW r \in {"win", "loss", "flat"},
         Tracks(st, list, bal), st.pending \in {0, n},
         NEW new, new = [list EXCEPT ![n] = [list[n] EXCEPT !.result = r]]
  PROVE  Tracks(st, new, bal + Delta(r))
<1>1. list[n] \in AttemptRec
  OBVIOUS
<1>2. /\ DOMAIN new = DOMAIN list /\ new[n] = [list[n] EXCEPT !.result = r]
  OBVIOUS
<1>3. new[n].result = r /\ new[n].day = list[n].day
  BY <1>1, <1>2 DEF AttemptRec
<1>4. Delta(r) \in Int /\ Delta("open") = 0 /\ st.pending_entry_balance \in Int
  BY Outcomes DEF Results, StateRec
<1>5. CASE st.pending = n
  <2>1. (bal = st.pending_entry_balance /\ st.last_fire_date = list[n].day) \/ n = 0
    BY <1>4, <1>5 DEF Tracks
  <2> QED
    BY <1>2, <1>3, <1>4, <1>5, <2>1 DEF Tracks
<1>6. CASE st.pending = 0
  BY <1>6 DEF Tracks
<1> QED
  BY <1>5, <1>6

\* A further attempt leaves it where it is.
LEMMA TracksAppend ==
  ASSUME NEW st, NEW list \in Seq(AttemptRec), NEW bal, NEW rec \in AttemptRec,
         Tracks(st, list, bal)
  PROVE  Tracks(st, Append(list, rec), bal)
<1>1. \A k \in DOMAIN list : k \in DOMAIN Append(list, rec) /\ Append(list, rec)[k] = list[k]
  OBVIOUS
<1> QED
  BY <1>1 DEF Tracks

\* Steps in which no order, record or list changes.
LEMMA AccountsUntouched ==
  ASSUME Base, AccInv,
         UNCHANGED <<day, attempts, balance, states, trade_log, pc, mem, seen, todo, tradeable, cur>>
  PROVE  AccInv'
<1>1. OpenToday' /\ LoggedTruth' /\ OrderTracked'
  BY DEF AccInv, OpenToday, OpenOrders, IsOpen, LoggedTruth, OrderTracked, Ordered, Logged
<1>2. DiskTracks' /\ MemoryTracks' /\ SameTrade' /\ ReadyRests'
  BY DEF AccInv, DiskTracks, MemoryTracks, SameTrade, ReadyRests, TracksFor, Logged
<1>3. Reading'
  BY DEF AccInv, Reading, Position, OpenOrders, IsOpen
<1>4. FiresSettled'
  BY DEF AccInv, FiresSettled, Settled, BelowMLL, Position, OpenOrders, IsOpen, Base, DayInv, TypeOK
<1>5. InHand'
  BY DEF AccInv, InHand, TracksFor, Pending, Position, OpenOrders, IsOpen, Ordered, Base, DayInv, TypeOK
<1> QED
  BY <1>1, <1>2, <1>3, <1>4, <1>5 DEF AccInv

\* A trade closes while no pass reads balances or positions.
LEMMA CloseAccounts ==
  ASSUME Quiet, Base, AccInv, NEW a \in Account, NEW r \in Results, CloseTrade(a, r)
  PROVE  AccInv'
<1>1. PICK n \in OpenOrders(a) : attempts' = [attempts EXCEPT ![a][n].result = r]
  BY DEF CloseTrade
<1>2. /\ UNCHANGED <<day, states, trade_log, pc, mem, seen, todo, cur>>
      /\ balance' = [balance EXCEPT ![a] = balance[a] + Delta(r)]
      /\ r \in {"win", "loss", "flat"} /\ pc # "reconcile"
  BY DEF CloseTrade, clockVars, fileVars, passVars, Quiet
<1>3. TypeOK /\ balance[a] \in Int /\ mem \in [Account -> StateRec] /\ states \in [Account -> StateRec]
      /\ attempts \in [Account -> Seq(AttemptRec)] /\ balance \in [Account -> Int]
  BY DEF Base, DayInv, TypeOK
<1>4. /\ n \in DOMAIN attempts[a] /\ n # 0 /\ ~Logged(a, n) /\ attempts[a][n].result = "open"
      /\ a \in cur => n = Len(attempts[a]) /\ pc = "placed" /\ mem[a].pending = 0
      /\ a \notin cur => states[a].pending = n /\ (pc # "idle" => mem[a].pending = n)
  BY OnePosition DEF OpenOrders, IsOpen
<1> DEFINE new == [attempts[a] EXCEPT ![n] = [attempts[a][n] EXCEPT !.result = r]]
<1>5. /\ attempts' = [attempts EXCEPT ![a] = new] /\ attempts[a] \in Seq(AttemptRec)
      /\ attempts[a][n] \in AttemptRec
  BY <1>1, <1>3, <1>4
<1>6. /\ DOMAIN new = DOMAIN attempts[a] /\ Len(new) = Len(attempts[a])
      /\ new[n].result = r /\ new[n].day = attempts[a][n].day
      /\ \A k \in DOMAIN attempts[a] : k # n => new[k] = attempts[a][k]
  BY <1>4, <1>5 DEF AttemptRec
<1> HIDE DEF new
<1>7. /\ attempts'[a] = new /\ balance'[a] = balance[a] + Delta(r)
      /\ \A b \in Account : b # a => attempts'[b] = attempts[b] /\ balance'[b] = balance[b]
  BY <1>2, <1>3, <1>5
<1>8. \A b \in Account : /\ \A k : Logged(b, k)' <=> Logged(b, k)
                         /\ \A k \in DOMAIN attempts[b] : Ordered(b, k)' <=> Ordered(b, k)
                         /\ DOMAIN attempts'[b] = DOMAIN attempts[b]
                         /\ Len(attempts'[b]) = Len(attempts[b])
                         /\ OpenOrders(b)' = OpenOrders(b) \ (IF b = a THEN {n} ELSE {})
  <2>1. \A b \in Account : \A k : Logged(b, k)' <=> Logged(b, k)
    BY <1>2 DEF Logged
  <2>2. \A b \in Account : DOMAIN attempts'[b] = DOMAIN attempts[b]
                           /\ Len(attempts'[b]) = Len(attempts[b])
    BY <1>6, <1>7
  <2>3. \A b \in Account : \A k \in DOMAIN attempts[b] : Ordered(b, k)' <=> Ordered(b, k)
    BY <1>2, <1>4, <1>6, <1>7 DEF Ordered
  <2>4. \A b \in Account : OpenOrders(b)' = OpenOrders(b) \ (IF b = a THEN {n} ELSE {})
    BY <1>2, <1>4, <1>6, <1>7 DEF OpenOrders, IsOpen
  <2> QED
    BY <2>1, <2>2, <2>3, <2>4
<1>9. ASSUME NEW st \in StateRec, TracksFor(a, st), st.pending \in {0, n}
      PROVE  Tracks(st, attempts'[a], balance'[a])
  BY <1>2, <1>3, <1>4, <1>5, <1>7, <1>9, TracksClose DEF TracksFor, new
<1>10. OpenToday'
  BY <1>2, <1>6, <1>7, <1>8 DEF AccInv, OpenToday, OpenOrders
<1>11. LoggedTruth'
  <2> SUFFICES ASSUME NEW b \in Account, NEW i \in DOMAIN trade_log[b]
               PROVE  trade_log[b][i].outcome = attempts'[b][trade_log[b][i].attempt].result
                      /\ trade_log[b][i].outcome \in {"win", "loss", "flat"}
    BY <1>2 DEF LoggedTruth
  <2>1. trade_log[b][i].attempt \in DOMAIN attempts[b]
    <3>1. trade_log[b][i].attempt \in 1..Len(attempts[b])
      BY DEF Base, BookInv, LoggedBelow
    <3> QED
      BY <1>3, <3>1
  <2>2. b = a => trade_log[b][i].attempt # n
    BY <1>4 DEF Logged
  <2> QED
    BY <1>6, <1>7, <2>1, <2>2 DEF AccInv, LoggedTruth
<1>12. OrderTracked'
  BY <1>2, <1>8 DEF AccInv, OrderTracked
<1>13. DiskTracks'
  <2> SUFFICES ASSUME NEW b \in Account, ~Logged(b, states[b].pending)
               PROVE  Tracks(states[b], attempts'[b], balance'[b])
    BY <1>2, <1>8 DEF DiskTracks, TracksFor
  <2>1. TracksFor(b, states[b]) /\ states[b] \in StateRec
    BY <1>3 DEF AccInv, DiskTracks
  <2>2. b = a => states[b].pending \in {0, n}
    BY <1>2, <1>4 DEF AccInv, SameTrade, Base, DayInv, OnePlacing
  <2> QED
    BY <1>7, <1>9, <2>1, <2>2 DEF TracksFor
<1>14. MemoryTracks'
  <2> SUFFICES ASSUME NEW b \in Account, pc # "idle"
               PROVE  Tracks(mem[b], attempts'[b], balance'[b])
    BY <1>2 DEF MemoryTracks, TracksFor
  <2>1. TracksFor(b, mem[b]) /\ mem[b] \in StateRec
    BY <1>3 DEF AccInv, MemoryTracks
  <2>2. b = a => mem[b].pending \in {0, n}
    BY <1>4
  <2> QED
    BY <1>7, <1>9, <2>1, <2>2 DEF TracksFor
<1>15. SameTrade' /\ ReadyRests' /\ Reading'
  BY <1>2, <1>8 DEF AccInv, SameTrade, ReadyRests, Reading
<1>16. FiresSettled'
  <2> SUFFICES ASSUME pc \in {"fire", "placed", "raised"}, NEW b \in todo, ~BelowMLL(mem[b], seen[b])
               PROVE  Settled(b)'
    BY <1>2 DEF FiresSettled, BelowMLL
  <2>1. Settled(b) /\ b \in Account
    BY <1>3 DEF AccInv, FiresSettled, TypeOK
  <2>2. b # a
    BY <2>1 DEF Settled, Position
  <2>3. Position(b)' <=> Position(b)
    BY <1>8, <2>1, <2>2 DEF Position
  <2> QED
    BY <1>2, <1>7, <2>1, <2>2, <2>3 DEF Settled
<1>17. InHand'
  <2> SUFFICES ASSUME NEW b \in cur
               PROVE  /\ mem[b].pending = 0 /\ Len(attempts'[b]) # 0
                      /\ pc = "placed" => Tracks(Pending(mem[b], Len(attempts'[b]), seen[b], day),
                                                 attempts'[b], balance'[b])
                      /\ pc = "raised" => ~Position(b)' /\ ~Ordered(b, Len(attempts[b]))'
    BY <1>2 DEF InHand, TracksFor, Pending
  <2>1. b \in Account /\ mem[b].pending = 0 /\ Len(attempts'[b]) = Len(attempts[b])
        /\ Len(attempts[b]) # 0 /\ Len(attempts[b]) \in DOMAIN attempts[b]
        /\ seen[b] \in Int /\ Len(attempts[b]) \in Nat /\ day \in Nat
    BY <1>3, <1>8, SessionAssumption DEF AccInv, InHand, TypeOK
  <2>2. ASSUME pc = "placed"
        PROVE  Tracks(Pending(mem[b], Len(attempts[b]), seen[b], day), attempts'[b], balance'[b])
    <3>1. TracksFor(b, Pending(mem[b], Len(attempts[b]), seen[b], day))
      BY <2>2 DEF AccInv, InHand
    <3> DEFINE pend == Pending(mem[b], Len(attempts[b]), seen[b], day)
    <3>2. mem[b] \in StateRec
      BY <1>3, <2>1
    <3>3. pend \in StateRec /\ pend.pending = Len(attempts[b])
      <4>1. pend \in StateRec
        BY <2>1, <3>2, RecordTypes
      <4>2. pend.pending = Len(attempts[b])
        BY <3>2, TrackedFields
      <4> QED
        BY <4>1, <4>2
    <3> HIDE DEF pend
    <3>4. CASE b = a
      <4>1. pend.pending \in {0, n}
        BY <1>4, <3>3, <3>4
      <4> QED
        BY <1>9, <3>1, <3>3, <3>4, <4>1 DEF pend
    <3>5. CASE b # a
      BY <1>7, <2>1, <3>1, <3>5 DEF TracksFor, pend
    <3> QED
      BY <3>4, <3>5 DEF pend
  <2>3. ASSUME pc = "raised" PROVE ~Position(b)' /\ ~Ordered(b, Len(attempts[b]))'
    <3>1. ~Position(b) /\ ~Ordered(b, Len(attempts[b]))
      BY <2>3 DEF AccInv, InHand
    <3>2. ~Position(b)'
      BY <1>8, <2>1, <3>1 DEF Position
    <3>3. ~Ordered(b, Len(attempts[b]))'
      BY <1>2, <1>4, <1>6, <1>7, <2>1, <3>1 DEF Ordered
    <3> QED
      BY <3>2, <3>3
  <2> QED
    BY <2>1, <2>2, <2>3
<1> QED
  BY <1>10, <1>11, <1>12, <1>13, <1>14, <1>15, <1>16, <1>17 DEF AccInv

\* Time passes: a new day starts without positions.
LEMMA DayAccounts ==
  ASSUME Base, AccInv, Clock
  PROVE  AccInv'
<1>1. UNCHANGED <<attempts, balance, states, trade_log, pc, mem, seen, todo, tradeable, cur>>
  BY DEF Clock, fileVars, passVars
<1>2. CASE day' = day
  BY <1>1, <1>2, AccountsUntouched
<1>3. CASE day' # day
  <2>1. pc = "idle" /\ cur = {} /\ \A a \in Account : ~Position(a)
    BY <1>3 DEF Clock, ClockMoves, Base, DayInv, OnePlacing
  <2>2. OpenToday' /\ LoggedTruth' /\ OrderTracked'
    BY <1>1, <2>1
       DEF AccInv, OpenToday, OpenOrders, IsOpen, Position, LoggedTruth, OrderTracked, Ordered, Logged
  <2>3. DiskTracks' /\ MemoryTracks' /\ SameTrade' /\ ReadyRests'
    BY <1>1, <2>1 DEF AccInv, DiskTracks, MemoryTracks, SameTrade, ReadyRests, TracksFor, Logged
  <2>4. Reading' /\ FiresSettled' /\ InHand'
    BY <1>1, <2>1 DEF Reading, FiresSettled, InHand
  <2> QED
    BY <2>2, <2>3, <2>4 DEF AccInv
<1> QED
  BY <1>2, <1>3

\* The broker's side and the files stay as they are.
LEMMA FilesUntouched ==
  ASSUME AccInv, UNCHANGED <<day, attempts, balance, states, trade_log>>, cur = {}, cur' = {}
  PROVE  OpenToday' /\ LoggedTruth' /\ OrderTracked' /\ DiskTracks' /\ ReadyRests' /\ InHand'
<1>1. OpenToday' /\ LoggedTruth' /\ OrderTracked'
  BY DEF AccInv, OpenToday, OpenOrders, IsOpen, LoggedTruth, OrderTracked, Ordered, Logged
<1>2. DiskTracks' /\ ReadyRests' /\ InHand'
  BY DEF AccInv, DiskTracks, ReadyRests, TracksFor, Logged, InHand
<1> QED
  BY <1>1, <1>2

\* A pass reads the files, then the balances; what it is to fire has no trade.
LEMMA ReadAccounts ==
  ASSUME Base, AccInv, (\E manual \in BOOLEAN : StartPass(manual)) \/ ListAccounts \/ Assign
  PROVE  AccInv'
<1>1. UNCHANGED <<day, attempts, balance, states, trade_log>> /\ cur = {} /\ cur' = {}
  BY DEF StartPass, ListAccounts, Assign, brokerVars, fileVars, clockVars, Base, DayInv, OnePlacing
<1>2. OpenToday' /\ LoggedTruth' /\ OrderTracked' /\ DiskTracks' /\ ReadyRests' /\ InHand'
  BY <1>1, FilesUntouched
<1>3. CASE \E manual \in BOOLEAN : StartPass(manual)
  <2>1. mem' = states /\ pc' = "list" /\ pc = "idle"
    BY <1>3 DEF StartPass
  <2>2. ASSUME NEW a \in Account PROVE TracksFor(a, states[a])
    <3>1. SoundFor(a, states[a])
      BY <2>1 DEF Base, BookInv, DiskSound, Nobody
    <3>2. states[a].pending # 0 => ~Logged(a, states[a].pending)
      BY <3>1 DEF SoundFor, Sound, Logged
    <3> QED
      BY <3>2 DEF AccInv, DiskTracks, TracksFor, Tracks
  <2>3. MemoryTracks' /\ SameTrade'
    BY <1>1, <2>1, <2>2 DEF MemoryTracks, SameTrade, TracksFor
  <2> QED
    BY <1>2, <2>1, <2>3 DEF AccInv, Reading, FiresSettled
<1>4. CASE ListAccounts
  <2>1. pc = "list" /\ pc' = "reconcile" /\ seen' = balance /\ todo' = ToReconcile(mem, tradeable')
        /\ tradeable' \subseteq listed /\ listed \subseteq Account
    BY <1>4 DEF ListAccounts, Base, DayInv, TypeOK
  <2>2. ASSUME NEW a \in Account
        PROVE  /\ mem'[a].pending = mem[a].pending
               /\ mem'[a].pending_entry_balance = mem[a].pending_entry_balance
               /\ mem'[a].last_fire_date = mem[a].last_fire_date
    <3>1. mem[a] \in StateRec
      BY DEF Base, DayInv, TypeOK
    <3>2. mem'[a] = mem[a] \/ mem'[a] = Ratcheted(mem[a], balance[a], now.day)
      BY <1>4 DEF ListAccounts
    <3> QED
      BY <3>1, <3>2, TrackedFields
  <2>3. MemoryTracks' /\ SameTrade'
    BY <1>1, <2>1, <2>2 DEF AccInv, MemoryTracks, SameTrade, TracksFor, Tracks, Logged
  <2>4. Reading'
    BY <1>1, <2>1, <2>2 DEF Reading, ToReconcile
  <2> QED
    BY <1>2, <2>1, <2>3, <2>4 DEF AccInv, FiresSettled
<1>5. CASE Assign
  <2>1. UNCHANGED <<mem, seen>> /\ pc = "reconcile" /\ pc' = "fire" /\ todo = {}
        /\ todo' = (tradeable \ Strategy) \cup {a \in Strategy : Due(a)}
    BY <1>5 DEF Assign
  <2>2. MemoryTracks' /\ SameTrade'
    BY <1>1, <2>1 DEF AccInv, MemoryTracks, SameTrade, TracksFor, Logged
  <2>3. ASSUME NEW a \in Account, a \in tradeable, Due(a) PROVE Settled(a)
    <3>1. seen[a] = balance[a] /\ (mem[a].pending # 0 => Position(a))
      BY <2>1, <2>3 DEF AccInv, Reading
    <3>2. ASSUME NEW n \in OpenOrders(a) PROVE FALSE
      <4>1. mem[a].pending = n /\ n # 0
        BY <1>1, <2>1, OnePosition
      <4>2. mem[a].last_fire_date = attempts[a][n].day
        BY <2>1, <4>1 DEF AccInv, MemoryTracks, TracksFor, Tracks
      <4>3. attempts[a][n].day = day /\ now.day = day
        BY <2>1 DEF AccInv, OpenToday, Base, DayInv, PassIsOfToday
      <4> QED
        BY <2>3, <4>2, <4>3 DEF Due, Attempted
    <3> QED
      BY <3>1, <3>2 DEF Settled, Position
  <2>4. FiresSettled'
    <3>1. \A a \in todo' : BelowMLL(mem[a], seen[a]) \/ Settled(a)
      <4>1. \A a \in todo' : /\ a \in Account /\ a \in tradeable
                             /\ BelowMLL(mem[a], seen[a]) \/ Due(a)
        BY <2>1 DEF Strategy, Base, DayInv, TypeOK
      <4> QED
        BY <2>3, <4>1
    <3>2. \A a : /\ BelowMLL(mem[a], seen[a])' <=> BelowMLL(mem[a], seen[a])
                 /\ Settled(a)' <=> Settled(a)
      BY <1>1, <2>1 DEF BelowMLL, Settled, Position, OpenOrders, IsOpen
    <3> QED
      BY <3>1, <3>2 DEF FiresSettled
  <2> QED
    BY <1>2, <2>1, <2>2, <2>4 DEF AccInv, Reading
<1> QED
  BY <1>3, <1>4, <1>5

\* reconcile() books a trade as what it was: the balance it reads is the entry
\* balance and this trade's difference.
LEMMA ReconcileAccounts ==
  ASSUME Quiet, Base, AccInv, NEW a \in Account, Reconcile(a)
  PROVE  AccInv'
<1>1. /\ UNCHANGED <<day, attempts, balance, states, seen, pc, tradeable, cur>> /\ cur = {}
      /\ pc = "reconcile" /\ todo' = todo \ {a} /\ a \in todo
  BY DEF Reconcile, brokerVars, clockVars, Base, DayInv, OnePlacing
<1>2. ~ReconcileReadFails(a)
  BY DEF ReconcileReadFails, Quiet
<1>3. CASE ReconcileStillOpen(a)
  <2>1. Position(a) /\ UNCHANGED <<mem, trade_log>>
    BY <1>3 DEF ReconcileStillOpen
  <2>2. OpenToday' /\ LoggedTruth' /\ OrderTracked' /\ DiskTracks' /\ ReadyRests' /\ InHand'
    BY <1>1, <2>1, FilesUntouched
  <2>3. MemoryTracks' /\ SameTrade' /\ FiresSettled'
    BY <1>1, <2>1 DEF AccInv, MemoryTracks, SameTrade, TracksFor, Logged, FiresSettled
  <2>4. Reading'
    BY <1>1, <2>1 DEF AccInv, Reading, Position, OpenOrders, IsOpen
  <2> QED
    BY <2>2, <2>3, <2>4 DEF AccInv
<1>4. CASE ReconcileClosed(a)
  <2> DEFINE n   == mem[a].pending
             st  == Booked(mem[a], seen[a], attempts[a][n].nuke)
             rec == [attempt |-> n, outcome |-> Classify(seen[a] - mem[a].pending_entry_balance)]
             log == trade_log[a]
             E   == [attempt : Nat, outcome : Results]
  <2>1. /\ ~Position(a) /\ mem' = [mem EXCEPT ![a] = st]
        /\ trade_log' = [trade_log EXCEPT ![a] = Append(log, rec)]
    BY <1>4 DEF ReconcileClosed
  <2>2. /\ mem[a] \in StateRec /\ seen[a] \in Int /\ n \in Nat /\ n # 0
        /\ mem \in [Account -> StateRec]
    BY <1>1 DEF Base, DayInv, TypeOK, StateRec, BookInv, Waiting
  <2>3. log \in Seq(E) /\ trade_log \in [Account -> Seq(E)]
    BY DEF Base, DayInv, TypeOK
  <2>4. st.pending = 0
    BY <2>2, BookedCounters
  <2>5. rec.attempt = n /\ rec.outcome = Classify(seen[a] - mem[a].pending_entry_balance)
    OBVIOUS
  <2>6. rec.outcome = attempts[a][n].result /\ rec.outcome \in {"win", "loss", "flat"}
    <3>1. /\ n \in DOMAIN attempts[a] /\ attempts[a][n].result \notin {"skipped", "rejected"}
          /\ balance[a] = mem[a].pending_entry_balance + Delta(attempts[a][n].result)
          /\ seen[a] = balance[a]
      BY <1>1, <2>2 DEF AccInv, MemoryTracks, TracksFor, Tracks, Reading
    <3>2. attempts[a][n] \in AttemptRec /\ attempts[a][n].result # "open"
      <4>1. attempts[a] \in Seq(AttemptRec)
        BY DEF Base, DayInv, TypeOK
      <4> QED
        BY <2>1, <3>1, <4>1 DEF Position, OpenOrders, IsOpen
    <3>3. attempts[a][n].result \in {"win", "loss", "flat"}
      BY <3>1, <3>2 DEF AttemptRec, Results
    <3>4. seen[a] - mem[a].pending_entry_balance = Delta(attempts[a][n].result)
      <4>1. Delta(attempts[a][n].result) \in Int /\ mem[a].pending_entry_balance \in Int
        BY <2>2, <3>3, Outcomes DEF Results, StateRec
      <4> QED
        BY <3>1, <4>1
    <3> QED
      BY <2>5, <3>3, <3>4, Outcomes
  <2>7. rec \in E
    BY <2>2, <2>6 DEF Results
  <2> HIDE DEF st, rec, log, n
  <2>8. /\ mem'[a] = st /\ trade_log'[a] = Append(log, rec)
        /\ \A b \in Account : b # a => mem'[b] = mem[b] /\ trade_log'[b] = trade_log[b]
    <3> HIDE DEF E
    <3> QED
      BY <2>1, <2>2, <2>3
  <2>9. /\ DOMAIN log = 1..Len(log) /\ Len(log) \in Nat
        /\ DOMAIN Append(log, rec) = 1..(Len(log) + 1)
        /\ Append(log, rec)[Len(log) + 1] = rec
        /\ \A i \in 1..Len(log) : Append(log, rec)[i] = log[i]
    <3> HIDE DEF E
    <3> QED
      BY <2>3, <2>7
  <2>10. \A b \in Account : \A k : Logged(b, k)' <=> Logged(b, k) \/ (b = a /\ k = n)
    <3>1. ASSUME NEW k PROVE Logged(a, k)' <=> Logged(a, k) \/ k = n
      <4>1. Logged(a, k)' => Logged(a, k) \/ k = n
        <5> SUFFICES ASSUME NEW i \in 1..(Len(log) + 1), Append(log, rec)[i].attempt = k
                     PROVE  Logged(a, k) \/ k = n
          BY <2>8, <2>9 DEF Logged
        <5>1. i \in 1..Len(log) \/ i = Len(log) + 1
          BY <2>9
        <5> QED
          BY <2>5, <2>9, <5>1 DEF Logged, log
      <4>2. Logged(a, k) => Logged(a, k)'
        <5> SUFFICES ASSUME NEW i \in 1..Len(log), log[i].attempt = k PROVE Logged(a, k)'
          BY <2>9 DEF Logged, log
        <5>1. i \in 1..(Len(log) + 1)
          BY <2>9
        <5> QED
          BY <2>8, <2>9, <5>1 DEF Logged
      <4>3. k = n => Logged(a, k)'
        <5>1. Len(log) + 1 \in 1..(Len(log) + 1)
          BY <2>9
        <5> QED
          BY <2>5, <2>8, <2>9, <5>1 DEF Logged
      <4> QED
        BY <4>1, <4>2, <4>3
    <3>2. ASSUME NEW b \in Account, b # a, NEW k PROVE Logged(b, k)' <=> Logged(b, k)
      <4>1. trade_log'[b] = trade_log[b]
        BY <2>8, <3>2
      <4> QED
        BY <4>1 DEF Logged
    <3> QED
      BY <3>1, <3>2
  <2>11. OpenToday' /\ ReadyRests' /\ FiresSettled' /\ InHand'
    BY <1>1 DEF AccInv, OpenToday, OpenOrders, IsOpen, ReadyRests, FiresSettled, InHand
  <2>12. LoggedTruth'
    <3> SUFFICES ASSUME NEW b \in Account, NEW i \in DOMAIN trade_log'[b]
                 PROVE  trade_log'[b][i].outcome = attempts[b][trade_log'[b][i].attempt].result
                        /\ trade_log'[b][i].outcome \in {"win", "loss", "flat"}
      BY <1>1 DEF LoggedTruth
    <3>1. CASE b # a
      BY <2>8, <3>1 DEF AccInv, LoggedTruth
    <3>2. CASE b = a /\ i \in 1..Len(log)
      BY <2>8, <2>9, <3>2 DEF AccInv, LoggedTruth, log
    <3>3. CASE b = a /\ i = Len(log) + 1
      BY <2>5, <2>6, <2>8, <2>9, <3>3
    <3> QED
      BY <2>8, <2>9, <3>1, <3>2, <3>3
  <2>13. OrderTracked' /\ DiskTracks'
    BY <1>1, <2>10 DEF AccInv, OrderTracked, Ordered, DiskTracks, TracksFor
  <2>14. MemoryTracks'
    BY <1>1, <2>4, <2>8 DEF AccInv, MemoryTracks, TracksFor, Tracks
  <2>15. SameTrade'
    BY <1>1, <2>2, <2>4, <2>8, <2>10 DEF AccInv, SameTrade, n
  <2>16. Reading'
    <3>1. tradeable \subseteq Account
      BY DEF Base, DayInv, TypeOK
    <3> QED
      BY <1>1, <2>4, <2>8, <3>1 DEF AccInv, Reading, Position, OpenOrders, IsOpen
  <2> QED
    BY <2>11, <2>12, <2>13, <2>14, <2>15, <2>16 DEF AccInv
<1> QED
  BY <1>2, <1>3, <1>4 DEF Reconcile

\* What the fire loop leaves of an account on disk and in memory: a record for
\* the order in hand, or one without a trade if there is none.
LEMMA PersistAccounts ==
  ASSUME Base, AccInv, NEW a \in Account, NEW st \in StateRec, Persist(a, st),
         pc \in {"fire", "placed", "raised"}, pc' = "fire", cur \subseteq {a}, cur' = {},
         a \notin todo', todo' \subseteq todo,
         UNCHANGED <<day, attempts, balance, trade_log, seen>>,
         mem[a].pending = 0, TracksFor(a, st), st.payout_ready => st.pending = 0,
         a \in cur => st.pending = Len(attempts[a]) \/ ~Ordered(a, Len(attempts[a]))
  PROVE  AccInv'
<1>1. /\ states \in [Account -> StateRec] /\ mem \in [Account -> StateRec] /\ todo \subseteq Account
  BY DEF Base, DayInv, TypeOK
<1>2. /\ mem'[a] = st /\ states'[a] = st
      /\ \A b \in Account : b # a => mem'[b] = mem[b] /\ states'[b] = states[b] /\ b \notin cur
  BY <1>1 DEF Persist
<1>3. OpenToday' /\ LoggedTruth'
  BY DEF AccInv, OpenToday, OpenOrders, IsOpen, LoggedTruth
<1>4. /\ \A b \in Account : \A k : Logged(b, k)' <=> Logged(b, k)
      /\ \A b \in Account : \A k : Ordered(b, k)' <=> Ordered(b, k)
      /\ \A b \in Account : Position(b)' <=> Position(b)
  BY DEF Logged, Ordered, Position, OpenOrders, IsOpen
<1>5. OrderTracked'
  <2> SUFFICES ASSUME NEW b \in Account, NEW k \in DOMAIN attempts[b], Ordered(b, k)
               PROVE  Logged(b, k) \/ states'[b].pending = k
    BY <1>4 DEF OrderTracked
  <2>1. Logged(b, k) \/ states[b].pending = k \/ (b \in cur /\ k = Len(attempts[b]))
    BY DEF AccInv, OrderTracked
  <2>2. CASE b # a
    BY <1>2, <2>1, <2>2
  <2>3. CASE b = a
    <3>1. states[a].pending = k => Logged(a, k)
      <4>1. k # 0
        <5>1. attempts[b] \in Seq(AttemptRec)
          BY DEF Base, DayInv, TypeOK
        <5> QED
          BY <5>1
      <4> QED
        BY <4>1 DEF AccInv, SameTrade
    <3> QED
      BY <1>2, <2>1, <2>3, <3>1
  <2> QED
    BY <2>2, <2>3
<1>6. DiskTracks' /\ MemoryTracks'
  BY <1>2, <1>4 DEF AccInv, DiskTracks, MemoryTracks, TracksFor
<1>7. SameTrade' /\ ReadyRests'
  BY <1>2, <1>4 DEF AccInv, SameTrade, ReadyRests
<1>8. Reading' /\ InHand'
  BY DEF Reading, InHand
<1>9. FiresSettled'
  <2> SUFFICES ASSUME NEW b \in todo', ~BelowMLL(mem'[b], seen[b]) PROVE Settled(b)'
    BY DEF FiresSettled, BelowMLL
  <2>1. b # a /\ b \in todo /\ b \in Account /\ mem'[b] = mem[b]
    BY <1>1, <1>2
  <2>2. Settled(b)
    BY <2>1 DEF AccInv, FiresSettled
  <2> QED
    BY <1>4, <2>1, <2>2 DEF Settled
<1> QED
  BY <1>3, <1>5, <1>6, <1>7, <1>8, <1>9 DEF AccInv

\* An order is placed for an account without a trade, at the balance it has.
LEMMA PlaceAccounts ==
  ASSUME Quiet, Base, AccInv, NEW a \in Account, Place(a)
  PROVE  AccInv'
<1>1. PICK r \in {"open", "rejected"} : Attempt(a, r) /\ pc' = (IF r = "open" THEN "placed" ELSE "raised")
  BY DEF Place, Quiet
<1>2. /\ UNCHANGED <<day, balance, states, trade_log, mem, seen>> /\ pc = "fire"
      /\ cur = {} /\ cur' = {a} /\ todo' = todo \ {a} /\ a \in todo /\ ~BelowMLL(mem[a], seen[a])
  BY DEF Place, fireRest, clockVars, Base, DayInv, OnePlacing
<1>3. mem[a].pending = 0 /\ ~Position(a) /\ seen[a] = balance[a]
  BY <1>2 DEF AccInv, FiresSettled, Settled
<1> DEFINE rec == [day |-> day, nuke |-> NeedsNuke(mem[a]), result |-> r]
           len == Len(attempts[a])
<1>4. /\ attempts \in [Account -> Seq(AttemptRec)] /\ attempts[a] \in Seq(AttemptRec)
      /\ day \in Nat /\ mem[a] \in StateRec /\ seen[a] \in Int /\ todo \subseteq Account
      /\ states \in [Account -> StateRec]
  BY SessionAssumption DEF Base, DayInv, TypeOK
<1>5. rec \in AttemptRec /\ rec.day = day /\ rec.result = r
  BY DEF AttemptRec, NeedsNuke, Results, Base, DayInv, TypeOK
<1>6. attempts' = [attempts EXCEPT ![a] = Append(attempts[a], rec)]
  BY <1>1 DEF Attempt
<1> HIDE DEF rec
<1>7. /\ attempts'[a] = Append(attempts[a], rec)
      /\ \A b \in Account : b # a => attempts'[b] = attempts[b]
      /\ len \in Nat /\ DOMAIN attempts[a] = 1..len /\ DOMAIN attempts'[a] = 1..(len + 1)
      /\ Len(attempts'[a]) = len + 1 /\ attempts'[a][len + 1] = rec
      /\ \A k \in 1..len : attempts'[a][k] = attempts[a][k]
  BY <1>4, <1>5, <1>6
<1>8. \A b \in Account : \A k \in DOMAIN attempts'[b] :
        \/ k \in DOMAIN attempts[b] /\ attempts'[b][k] = attempts[b][k]
        \/ b = a /\ k = len + 1
  BY <1>7
<1>9. \A b \in Account : \A k \in DOMAIN attempts[b] :
        k \in DOMAIN attempts'[b] /\ attempts'[b][k] = attempts[b][k]
  BY <1>7
<1>10. OpenToday'
  <2> SUFFICES ASSUME NEW b \in Account, NEW k \in DOMAIN attempts'[b], attempts'[b][k].result = "open"
               PROVE  attempts'[b][k].day = day
    BY <1>2 DEF OpenToday, OpenOrders, IsOpen
  <2>1. CASE k \in DOMAIN attempts[b] /\ attempts'[b][k] = attempts[b][k]
    BY <2>1 DEF AccInv, OpenToday, OpenOrders, IsOpen
  <2>2. CASE b = a /\ k = len + 1
    BY <1>5, <1>7, <2>2
  <2> QED
    BY <1>8, <2>1, <2>2
<1>11. LoggedTruth'
  <2> SUFFICES ASSUME NEW b \in Account, NEW i \in DOMAIN trade_log[b]
               PROVE  trade_log[b][i].outcome = attempts'[b][trade_log[b][i].attempt].result
                      /\ trade_log[b][i].outcome \in {"win", "loss", "flat"}
    BY <1>2 DEF LoggedTruth
  <2>1. trade_log[b][i].attempt \in DOMAIN attempts[b]
    <3>1. trade_log[b][i].attempt \in 1..Len(attempts[b]) /\ attempts[b] \in Seq(AttemptRec)
      BY <1>4 DEF Base, BookInv, LoggedBelow
    <3> QED
      BY <3>1
  <2> QED
    BY <1>9, <2>1 DEF AccInv, LoggedTruth
<1>12. OrderTracked'
  <2> SUFFICES ASSUME NEW b \in Account, NEW k \in DOMAIN attempts'[b],
                      attempts'[b][k].result \notin {"skipped", "rejected"}
               PROVE  Logged(b, k) \/ states[b].pending = k \/ (b = a /\ k = Len(attempts'[b]))
    BY <1>2 DEF OrderTracked, Ordered, Logged
  <2>1. CASE k \in DOMAIN attempts[b] /\ attempts'[b][k] = attempts[b][k]
    BY <1>2, <2>1 DEF AccInv, OrderTracked, Ordered
  <2>2. CASE b = a /\ k = len + 1
    BY <1>7, <2>2
  <2> QED
    BY <1>8, <2>1, <2>2
<1>13. ASSUME NEW b \in Account, NEW st, TracksFor(b, st)
       PROVE  Tracks(st, attempts'[b], balance[b])
  BY <1>9, <1>13 DEF TracksFor, Tracks
<1>14. DiskTracks' /\ MemoryTracks'
  <2>1. \A b \in Account : ~Logged(b, states[b].pending) => TracksFor(b, states[b])
    BY DEF AccInv, DiskTracks
  <2>2. \A b \in Account : TracksFor(b, mem[b])
    BY <1>2 DEF AccInv, MemoryTracks
  <2> QED
    BY <1>2, <1>13, <2>1, <2>2 DEF DiskTracks, MemoryTracks, TracksFor, Logged
<1>15. SameTrade' /\ ReadyRests' /\ Reading'
  BY <1>1, <1>2 DEF AccInv, SameTrade, ReadyRests, Reading, Logged
<1>16. FiresSettled'
  <2> SUFFICES ASSUME NEW b \in todo', ~BelowMLL(mem[b], seen[b]) PROVE Settled(b)'
    BY <1>2 DEF FiresSettled, BelowMLL
  <2>1. b \in todo /\ b \in Account /\ attempts'[b] = attempts[b] /\ Settled(b)
    BY <1>2, <1>4, <1>7 DEF AccInv, FiresSettled
  <2> QED
    BY <1>2, <2>1 DEF Settled, Position, OpenOrders, IsOpen
<1>17. InHand'
  <2>1. mem'[a].pending = 0 /\ Len(attempts'[a]) # 0
    BY <1>2, <1>3, <1>7
  <2>2. ASSUME r = "open"
        PROVE  Tracks(Pending(mem[a], Len(attempts'[a]), seen[a], day), attempts'[a], balance[a])
    <3> DEFINE pend == Pending(mem[a], len + 1, seen[a], day)
    <3>1. pend.pending = len + 1 /\ pend.pending_entry_balance = seen[a] /\ pend.last_fire_date = day
      BY <1>4, TrackedFields
    <3>2. Delta(r) = 0 /\ seen[a] + 0 = seen[a]
      BY <1>4, <2>2, Outcomes
    <3> HIDE DEF pend
    <3>3. Tracks(pend, attempts'[a], balance[a])
      BY <1>3, <1>5, <1>7, <2>2, <3>1, <3>2 DEF Tracks
    <3> QED
      BY <1>7, <3>3 DEF pend
  <2>3. ASSUME r = "rejected" PROVE ~Position(a)' /\ ~Ordered(a, Len(attempts[a]))'
    <3>1. ~Position(a)'
      BY <1>3, <1>5, <1>7, <1>8, <2>3 DEF Position, OpenOrders, IsOpen
    <3>2. ~Ordered(a, Len(attempts[a]))'
      BY <1>5, <1>7, <2>3 DEF Ordered
    <3> QED
      BY <3>1, <3>2
  <2> QED
    BY <1>1, <1>2, <2>1, <2>2, <2>3 DEF InHand, TracksFor, Pending
<1> QED
  BY <1>10, <1>11, <1>12, <1>14, <1>15, <1>16, <1>17 DEF AccInv

\* The fire loop.
LEMMA FireAccounts ==
  ASSUME Quiet, Base, AccInv, NEW a \in Account,
         \/ MarkBlown(a) \/ Skip(a) \/ Place(a) \/ RecordPlaced(a) \/ RecordRaised(a)
  PROVE  AccInv'
<1>1. /\ mem[a] \in StateRec /\ seen[a] \in Int /\ now.day \in Nat /\ Len(attempts[a]) \in Nat
      /\ todo \subseteq Account
  <2>1. attempts[a] \in Seq(AttemptRec)
    BY DEF Base, DayInv, TypeOK
  <2> QED
    BY <2>1, SessionAssumption DEF Base, DayInv, TypeOK
<1> DEFINE dated == [mem[a] EXCEPT !.last_fire_date = now.day]
           pend  == Pending(mem[a], Len(attempts[a]), seen[a], now.day)
           dead  == [mem[a] EXCEPT !.phase = "blown"]
<1>2. /\ dated \in StateRec /\ pend \in StateRec /\ dead \in StateRec
      /\ dated.pending = mem[a].pending /\ dead.pending = mem[a].pending
      /\ (pend.payout_ready <=> mem[a].payout_ready)
  <2>1. dated \in StateRec /\ pend \in StateRec /\ dead \in StateRec
    BY <1>1, RecordTypes
  <2>2. dated.pending = mem[a].pending /\ dead.pending = mem[a].pending
    BY <1>1, TrackedFields
  <2>3. pend.payout_ready <=> mem[a].payout_ready
    BY <1>1, Counters
  <2> QED
    BY <2>1, <2>2, <2>3
<1> HIDE DEF dated, pend, dead
<1>3. CASE MarkBlown(a)
  <2>1. /\ UNCHANGED <<day, attempts, balance, trade_log, seen, cur>> /\ cur = {}
        /\ pc = "fire" /\ pc' = "fire" /\ todo' = todo \ {a}
    BY <1>3 DEF MarkBlown, fireRest, clockVars, Base, DayInv, OnePlacing
  <2>2. CASE mem[a].pending = 0
    <3>1. Persist(a, dead)
      BY <1>3, <2>2 DEF MarkBlown, dead
    <3>2. TracksFor(a, dead)
      BY <1>2, <2>2 DEF TracksFor, Tracks
    <3> QED
      BY <1>2, <2>1, <2>2, <3>1, <3>2, PersistAccounts
  <2>3. CASE mem[a].pending # 0
    <3>1. UNCHANGED <<mem, states>>
      BY <1>3, <2>3 DEF MarkBlown
    <3>2. OpenToday' /\ LoggedTruth' /\ OrderTracked' /\ DiskTracks' /\ ReadyRests' /\ InHand'
      BY <2>1, <3>1, FilesUntouched
    <3>3. MemoryTracks' /\ SameTrade' /\ Reading'
      BY <2>1, <3>1 DEF AccInv, MemoryTracks, SameTrade, TracksFor, Logged, Reading
    <3>4. FiresSettled'
      BY <1>1, <2>1, <3>1 DEF AccInv, FiresSettled, Settled, BelowMLL, Position, OpenOrders, IsOpen
    <3> QED
      BY <3>2, <3>3, <3>4 DEF AccInv
  <2> QED
    BY <2>2, <2>3
<1>4. ~Skip(a)
  <2> SUFFICES ASSUME Skip(a) PROVE FALSE
    OBVIOUS
  <2>1. Position(a) /\ ~BelowMLL(mem[a], seen[a]) /\ a \in todo /\ pc = "fire"
    BY DEF Skip, Blocked, Quiet
  <2> QED
    BY <2>1 DEF AccInv, FiresSettled, Settled
<1>5. CASE RecordPlaced(a) \/ RecordRaised(a)
  <2>1. /\ UNCHANGED <<day, attempts, balance, trade_log, seen, todo>> /\ cur' = {} /\ a \in cur
        /\ cur \subseteq {a} /\ pc \in {"placed", "raised"} /\ pc' = "fire" /\ a \notin todo'
        /\ now.day = day
    BY <1>5 DEF RecordPlaced, RecordRaised, fireRest, clockVars, Base, DayInv, OnePlacing, PassIsOfToday
  <2>2. mem[a].pending = 0
    BY <2>1 DEF AccInv, InHand
  <2>3. CASE RecordPlaced(a)
    <3>1. Persist(a, pend) /\ pc = "placed"
      BY <2>3 DEF RecordPlaced, pend
    <3>2. TracksFor(a, pend)
      BY <2>1, <3>1 DEF AccInv, InHand, pend
    <3>3. pend.pending = Len(attempts[a])
      BY <1>1, TrackedFields DEF pend
    <3>4. ~mem[a].payout_ready
      BY <2>1 DEF Base, BookInv, Firing
    <3> QED
      BY <1>2, <2>1, <2>2, <3>1, <3>2, <3>3, <3>4, PersistAccounts
  <2>4. CASE RecordRaised(a)
    <3>1. ~Position(a) /\ ~Ordered(a, Len(attempts[a]))
      BY <2>1, <2>4 DEF RecordRaised, AccInv, InHand
    <3>2. Persist(a, dated)
      BY <2>4, <3>1 DEF RecordRaised, dated
    <3>3. TracksFor(a, dated)
      BY <1>2, <2>2 DEF TracksFor, Tracks
    <3> QED
      BY <1>2, <2>1, <2>2, <3>1, <3>2, <3>3, PersistAccounts
  <2> QED
    BY <1>5, <2>3, <2>4
<1> QED
  BY <1>3, <1>4, <1>5, PlaceAccounts

\* The end of the pass writes memory over disk: the same trades, or what was booked.
LEMMA EndAccounts ==
  ASSUME Base, AccInv, SaveSchedule \/ MergeStates \/ SaveRegistry
  PROVE  AccInv'
<1>1. /\ UNCHANGED <<day, attempts, balance, trade_log>> /\ cur = {} /\ cur' = {}
      /\ pc # "idle" /\ pc' \in {"merge", "registry", "idle"}
  BY DEF SaveSchedule, MergeStates, SaveRegistry, PassIdle, clockVars, brokerVars, Base, DayInv, OnePlacing
<1>2. Reading' /\ FiresSettled'
  BY <1>1 DEF Reading, FiresSettled
<1>3. CASE SaveSchedule \/ SaveRegistry
  <2>1. UNCHANGED states /\ (pc' = "idle" \/ UNCHANGED mem)
    BY <1>3 DEF SaveSchedule, SaveRegistry, PassIdle
  <2>2. OpenToday' /\ LoggedTruth' /\ OrderTracked' /\ DiskTracks' /\ ReadyRests' /\ InHand'
    BY <1>1, <2>1, FilesUntouched
  <2>3. MemoryTracks' /\ SameTrade'
    BY <1>1, <2>1 DEF AccInv, MemoryTracks, SameTrade, TracksFor, Logged
  <2> QED
    BY <1>2, <2>2, <2>3 DEF AccInv
<1>4. CASE MergeStates
  <2>1. UNCHANGED mem /\ \A a \in Account : states'[a] = mem[a] \/ states'[a] = states[a]
    BY <1>4 DEF MergeStates, MergeSave
  <2>2. OpenToday' /\ LoggedTruth' /\ InHand'
    BY <1>1 DEF AccInv, OpenToday, OpenOrders, IsOpen, LoggedTruth, InHand
  <2>3. \A a \in Account : \A k : (Logged(a, k)' <=> Logged(a, k)) /\ (Ordered(a, k)' <=> Ordered(a, k))
    BY <1>1 DEF Logged, Ordered
  <2>4. OrderTracked'
    <3> SUFFICES ASSUME NEW a \in Account, NEW n \in DOMAIN attempts[a], Ordered(a, n), ~Logged(a, n)
                 PROVE  states'[a].pending = n
      BY <1>1, <2>3 DEF OrderTracked
    <3>1. states[a].pending = n
      BY <1>1 DEF AccInv, OrderTracked
    <3>2. mem[a].pending = n
      BY <1>1, <3>1 DEF AccInv, SameTrade
    <3> QED
      BY <2>1, <3>1, <3>2
  <2>5. DiskTracks' /\ MemoryTracks'
    BY <1>1, <2>1, <2>3 DEF AccInv, DiskTracks, MemoryTracks, TracksFor
  <2>6. SameTrade'
    BY <1>1, <2>1, <2>3 DEF AccInv, SameTrade
  <2>7. ReadyRests'
    <3>1. \A a \in Account : mem[a].payout_ready => mem[a].pending = 0
      BY <1>1 DEF Base, BookInv, MemorySound, SoundFor, Sound
    <3> QED
      BY <2>1, <3>1 DEF AccInv, ReadyRests
  <2> QED
    BY <1>2, <2>2, <2>4, <2>5, <2>6, <2>7 DEF AccInv
<1> QED
  BY <1>3, <1>4

\* A withdrawal is confirmed for an account that waits for no trade.
LEMMA PayoutAccounts ==
  ASSUME Base, AccInv, NEW a \in Account, MarkPayout(a)
  PROVE  AccInv'
<1>1. /\ UNCHANGED <<day, attempts, balance, trade_log, pc, mem, seen, todo, tradeable, cur>>
      /\ states' = [states EXCEPT ![a] = PaidOut(states[a])] /\ states[a].payout_ready
  BY DEF MarkPayout, clockVars, brokerVars, passVars
<1>2. states \in [Account -> StateRec] /\ todo \subseteq Account /\ cur \subseteq Account
  BY DEF Base, DayInv, TypeOK
<1>3. \A b \in Account : states'[b] = states[b] \/ (b = a /\ states'[b].pending = 0)
  BY <1>1, <1>2, TrackedFields
<1>4. \A b \in Account : states'[b].pending = states[b].pending
  BY <1>1, <1>3 DEF AccInv, ReadyRests
<1>5. OpenToday' /\ LoggedTruth'
  BY <1>1 DEF AccInv, OpenToday, OpenOrders, IsOpen, LoggedTruth
<1>6. \A b \in Account : \A k : (Logged(b, k)' <=> Logged(b, k)) /\ (Ordered(b, k)' <=> Ordered(b, k))
  BY <1>1 DEF Logged, Ordered
<1>7. OrderTracked'
  BY <1>1, <1>4, <1>6 DEF AccInv, OrderTracked
<1>8. DiskTracks' /\ MemoryTracks' /\ SameTrade'
  <2>1. DiskTracks'
    BY <1>1, <1>3, <1>6 DEF AccInv, DiskTracks, TracksFor, Tracks
  <2>2. MemoryTracks' /\ SameTrade'
    BY <1>1, <1>4, <1>6 DEF AccInv, MemoryTracks, SameTrade, TracksFor
  <2> QED
    BY <2>1, <2>2
<1>9. ReadyRests'
  BY <1>3 DEF AccInv, ReadyRests
<1>10. Reading' /\ FiresSettled'
  BY <1>1, <1>2 DEF AccInv, Reading, FiresSettled, Settled, BelowMLL, Position, OpenOrders, IsOpen
<1>11. InHand'
  BY <1>1, <1>2 DEF AccInv, InHand, TracksFor, Pending, Position, OpenOrders, IsOpen, Ordered
<1> QED
  BY <1>5, <1>7, <1>8, <1>9, <1>10, <1>11 DEF AccInv

\* Every step of a quiet session keeps the accounts.
LEMMA NextAccInv ==
  ASSUME Quiet, Base, AccInv, [Next]_vars
  PROVE  AccInv'
<1>1. ~SnapLoad /\ ~SnapSave /\ ~Crash
  BY DEF SnapLoad, SnapSave, Crash, Quiet, Base, DayInv
<1>2. CASE PassNext
  BY <1>2, ReadAccounts, ReconcileAccounts, FireAccounts, EndAccounts DEF PassNext
<1>3. ASSUME NEW a \in Account, Toggle(a) PROVE AccInv'
  BY <1>3, AccountsUntouched DEF Toggle, clockVars, brokerVars, passVars
<1>4. CASE UNCHANGED vars \/ \E a \in Account : Delist(a)
  BY <1>4, AccountsUntouched, DelistsOnly DEF vars, clockVars, brokerVars, fileVars, passVars
<1> QED
  BY <1>1, <1>2, <1>3, <1>4, CloseAccounts, DayAccounts, ReadAccounts, PayoutAccounts DEF Next

\* Every order is accounted for in every behaviour in which calls to the broker
\* answer, no trade closes between the two reads of a pass, no snapshot is built
\* beside it and nothing dies: with refused orders, liquidations, withdrawals and
\* toggles at any point, for every fleet and every number of passes.  What books
\* the trade is a difference of balances; it is the broker's own result because
\* nobody fires an account whose last trade is not in the log.  Each event left
\* out does break it.
THEOREM AccountedHolds ==
  ASSUME Quiet
  PROVE  Spec => []Accounted
<1>1. Events \cap {"snapshot", "crash"} = {}
  BY DEF Quiet
<1>2. BrokerInv => OneOpen
  BY DEF BrokerInv
<1>3. Init => Base /\ AccInv /\ BrokerInv
  BY <1>2, InitDayInv, InitBookInv, InitBrokerInv, InitAccInv DEF Base
<1>4. Base /\ AccInv /\ BrokerInv /\ [Next]_vars => (Base /\ AccInv /\ BrokerInv)'
  <2> SUFFICES ASSUME Base, AccInv, BrokerInv, [Next]_vars PROVE (Base /\ AccInv /\ BrokerInv)'
    OBVIOUS
  <2>1. DayInv' /\ BookInv'
    BY <1>1, NextDayInv, NextBookInv DEF Base
  <2>2. BrokerInv' /\ OneOpen'
    BY NextBrokerInv DEF BrokerInv
  <2>3. AccInv'
    BY NextAccInv
  <2> QED
    BY <2>1, <2>2, <2>3 DEF Base
<1>5. AccInv => Accounted
  BY DEF AccInv, Accounted, OrderTracked, LoggedTruth, BookedTruth
<1> QED
  BY <1>3, <1>4, <1>5, PTL DEF Spec
=============================================================================
