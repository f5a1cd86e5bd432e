-------------------------- MODULE AutomationProofs --------------------------
(***************************************************************************)
(* Proofs about the automation loop, for any processes, users, keys and    *)
(* weeks: one loop, each night's probe and each day's message once, orders *)
(* on the finished range, and a window that nothing held up fully served.  *)
(***************************************************************************)
EXTENDS Automation, TLAPS

Following(t) ==
  IF t.slot < Len(Slots) THEN [day |-> t.day, slot |-> t.slot + 1]
  ELSE [day |-> t.day + 1, slot |-> 1]

\* A tick outlives the window it read the clock in by one at most.
Readings == \A p \in Proc : tick[p] # None => clock \in {tick[p].now, Following(tick[p].now)}

\* What a process remembers is what the file says.
Memory ==
  \A p \in Proc, u \in User :
    mem[p][u] # None => Running(p) /\ mem[p][u] = stamp[u]["probe"]

\* The stamp is ahead of the deed, and no stamp is of a day to come.
Stamps ==
  \A u \in User, k \in Kinds :
    /\ acts[u][k].day <= stamp[u][k] /\ acts[u][k].n <= 1
    /\ stamp[u][k] <= clock.day
    /\ \A p \in Proc : tick[p] # None => stamp[u][k] <= tick[p].now.day

\* What is about to be done has been stamped and not been done.
Stamped(u, k, day) == stamp[u][k] = day /\ acts[u][k].day < day
Deeds ==
  \A p \in Proc, u \in User :
    /\ At(p, u, "probing") => Stamped(u, "probe", tick[p].now.day)
    /\ At(p, u, "notify") => KindDue(tick[p].now) # None
    /\ At(p, u, "post") => /\ KindDue(tick[p].now) # None
                           /\ Stamped(u, KindDue(tick[p].now), tick[p].now.day)

\* The drive that is kept is of its day and final, and so is what was fired on.
Drives ==
  /\ drive # None => drive.bars = [day |-> drive.day, final |-> TRUE]
  /\ FiresOnFinal

\* Tonight's probe is not stamped before tonight.
Nights == \A u \in User : stamp[u]["probe"] = clock.day => Slot(clock) = "night"

\* A user nothing held up in this window: every tick is this window's, and what it owes him is
\* done once a tick has come to its place.
Served(u) ==
  /\ armed[u] /\ \E p \in Proc : up[p] = "up"
  /\ \A p \in Proc : tick[p] # None => tick[p].now = clock
  /\ InWindow(clock) /\ ticked =>
       \/ had[u] = 1..Keys[u]
       \/ \E p \in Proc : At(p, u, "keys") /\ 1..(tick[p].key[u] - 1) \subseteq had[u]
  /\ Week[clock.day].nights /\ Slot(clock) = "night" /\ ticked =>
       \/ acts[u]["probe"] = [day |-> clock.day, n |-> 1]
       \/ \E p \in Proc : At(p, u, "probe") \/ At(p, u, "probing")
  /\ stamp[u]["probe"] = clock.day =>
       \/ acts[u]["probe"] = [day |-> clock.day, n |-> 1]
       \/ \E p \in Proc : At(p, u, "probing")
  /\ KindDue(clock) = "recap" /\ ticked =>
       \/ stamp[u]["recap"] = clock.day
       \/ \E p \in Proc : At(p, u, "keys") \/ At(p, u, "notify")
Windows == \A u \in User : had[u] # None => Served(u)

IInv == TypeOK /\ OneLoop /\ Readings /\ Memory /\ Stamps /\ Deeds /\ Drives /\ Nights /\ Windows
-----------------------------------------------------------------------------
(* The clock.                                                               *)

\* The week has days.
LEMMA WeekFacts ==
  /\ Len(Week) \in Nat /\ Len(Week) >= 1
  /\ \A d \in 1..Len(Week) : Week[d].trades \in BOOLEAN /\ Week[d].nights \in BOOLEAN
<1> DEFINE R == [trades : BOOLEAN, nights : BOOLEAN]
<1>1. Week \in Seq(R) /\ Len(Week) > 0
  BY AutomationAssumption
<1>2. \A r \in R : r.trades \in BOOLEAN /\ r.nights \in BOOLEAN
  OBVIOUS
<1> HIDE DEF R
<1>3. Len(Week) \in Nat /\ \A d \in 1..Len(Week) : Week[d] \in R
  BY <1>1
<1>4. QED
  BY <1>1, <1>2, <1>3

\* Each slot is one number.
LEMMA SlotFacts ==
  ASSUME NEW t \in Time
  PROVE  /\ t.day \in 1..Len(Week) /\ t.slot \in 1..6 /\ t = [day |-> t.day, slot |-> t.slot]
         /\ Slot(t) = "pre" <=> t.slot = 1
         /\ Slot(t) = "form" <=> t.slot = 2
         /\ Slot(t) = "entry" <=> t.slot = 3
         /\ Slot(t) = "late" <=> t.slot = 4
         /\ Slot(t) = "eve" <=> t.slot = 5
         /\ Slot(t) = "night" <=> t.slot = 6
<1>1. t.day \in 1..Len(Week) /\ t.slot \in 1..6 /\ t = [day |-> t.day, slot |-> t.slot]
  BY DEF Time, Slots
<1>2. t.slot = 1 \/ t.slot = 2 \/ t.slot = 3 \/ t.slot = 4 \/ t.slot = 5 \/ t.slot = 6
  BY <1>1
<1>3. /\ Slots[1] = "pre" /\ Slots[2] = "form" /\ Slots[3] = "entry" /\ Slots[4] = "late"
      /\ Slots[5] = "eve" /\ Slots[6] = "night"
  BY DEF Slots
<1>4. Slot(t) = Slots[t.slot]
  BY DEF Slot
<1> HIDE DEF Slots
<1>5. QED
  BY <1>1, <1>2, <1>3, <1>4

\* The window after a window is later: in the day, or the next day's first.
LEMMA FollowingFacts ==
  ASSUME NEW t \in Time
  PROVE  /\ t.slot < 6 => Following(t) = [day |-> t.day, slot |-> t.slot + 1]
         /\ t.slot = 6 => Following(t) = [day |-> t.day + 1, slot |-> 1]
         /\ Following(t) # t
         /\ Later = Following(clock) \/ clock \notin Time
<1>1. Len(Slots) = 6
  BY DEF Slots
<1>2. t.slot \in 1..6 /\ t.day \in Nat /\ t = [day |-> t.day, slot |-> t.slot]
  BY SlotFacts, WeekFacts
<1>3. Following(t) = IF t.slot < 6 THEN [day |-> t.day, slot |-> t.slot + 1]
                     ELSE [day |-> t.day + 1, slot |-> 1]
  BY <1>1 DEF Following
<1>4. Following(t) # t
  <2>1. CASE t.slot < 6
    <3>1. Following(t).slot = t.slot + 1
      BY <1>3, <2>1
    <3>2. QED
      BY <1>2, <3>1
  <2>2. CASE t.slot = 6
    <3>1. Following(t).slot = 1
      BY <1>3, <2>2
    <3>2. QED
      BY <2>2, <3>1
  <2>3. QED
    BY <1>2, <2>1, <2>2
<1>5. clock \in Time => Later = Following(clock)
  <2> SUFFICES ASSUME clock \in Time PROVE Later = Following(clock)
    OBVIOUS
  <2>1. clock = [day |-> clock.day, slot |-> clock.slot]
    BY SlotFacts
  <2>2. [clock EXCEPT !.slot = @ + 1] = [day |-> clock.day, slot |-> clock.slot + 1]
    BY <2>1
  <2>3. QED
    BY <2>2 DEF Later, Following
<1>6. QED
  BY <1>2, <1>3, <1>4, <1>5

\* The invariant holds at the start.
LEMMA InitInv == Init => IInv
<1> SUFFICES ASSUME Init PROVE IInv
  OBVIOUS
<1>1. 1 \in 1..Len(Week) /\ 0 \in 0..Len(Week) /\ Len(Slots) = 6 /\ MaxToggles \in Nat
  BY WeekFacts, AutomationAssumption DEF Slots
<1>2. clock \in Time /\ clock.day = 1
  BY <1>1 DEF Init, Time
<1>3. TypeOK
  <2>1. /\ tick \in [Proc -> {None} \cup Tick] /\ \A p \in Proc : tick[p] = None
        /\ up \in [Proc -> {"new", "up", "stopping", "gone"}] /\ holder = None
    BY DEF Init
  <2>2. mem \in [Proc -> [User -> {None} \cup 0..Len(Week)]]
    BY DEF Init
  <2>3. stamp \in [User -> [Kinds -> 0..Len(Week)]]
    BY <1>1 DEF Init
  <2>4. Undone \in [Kinds -> [day : 0..Len(Week), n : Nat]]
    BY <1>1 DEF Undone
  <2>5. acts \in [User -> [Kinds -> [day : 0..Len(Week), n : Nat]]]
    BY <2>4 DEF Init
  <2>6. had \in [User -> {None} \cup SUBSET Nat] /\ \A u \in User : had[u] = None
    BY DEF Init
  <2>7. ticked \in BOOLEAN /\ toggles \in 0..MaxToggles /\ armed \in [User -> BOOLEAN]
    <3>1. armed \in [User -> BOOLEAN]
      BY DEF Init
    <3>2. ticked \in BOOLEAN
      BY DEF Init
    <3>3. toggles \in 0..MaxToggles
      BY <1>1 DEF Init
    <3>4. QED
      BY <3>1, <3>2, <3>3
  <2>8. drive = None /\ fired = None
    BY DEF Init
  <2>9. QED
    BY <1>2, <2>1, <2>2, <2>3, <2>5, <2>6, <2>7, <2>8 DEF TypeOK
<1>4. OneLoop /\ Readings /\ Memory /\ Deeds /\ Drives /\ Windows
  BY DEF Init, OneLoop, Readings, Memory, Deeds, At, Drives, FiresOnFinal, Windows, Running
<1>5. Stamps /\ Nights
  <2>1. /\ \A u \in User, k \in Kinds : stamp[u][k] = 0 /\ acts[u][k] = [day |-> 0, n |-> 0]
        /\ \A p \in Proc : tick[p] = None
    BY DEF Init, Undone
  <2>2. QED
    BY <1>2, <2>1 DEF Stamps, Nights, Kinds
<1>6. QED
  BY <1>3, <1>4, <1>5 DEF IInv
\* One loop: whatever ticks is the process that holds the lock.
LEMMA OneTick ==
  ASSUME TypeOK, OneLoop, NEW p \in Proc, NEW q \in Proc, tick[p] # None, tick[q] # None
  PROVE  p = q
  BY DEF OneLoop

\* The fields of a tick under way.
LEMMA TickType ==
  ASSUME TypeOK, NEW p \in Proc, tick[p] # None
  PROVE  /\ tick[p] \in Tick /\ tick[p].now \in Time /\ tick[p].at \in [User -> Places]
         /\ tick[p].key \in [User -> Nat \ {0}] /\ \A u \in User : tick[p].key[u] <= Keys[u]
  BY DEF TypeOK, Tick

\* A user's part of the tick moves to a place and a key, and nothing else of the ticks does.
Moves(p, u, l, k) ==
  /\ tick' \in [Proc -> {None} \cup Tick] /\ tick'[p] # None /\ tick'[p].now = tick[p].now
  /\ tick'[p].at[u] = l /\ tick'[p].key[u] = k
  /\ \A v \in User \ {u} : tick'[p].at[v] = tick[p].at[v] /\ tick'[p].key[v] = tick[p].key[v]
  /\ \A q \in Proc \ {p} : tick'[q] = tick[q]

\* A tick's record with one user moved is a move.
LEMMA MovesFrom ==
  ASSUME TypeOK, NEW p \in Proc, tick[p] # None, NEW u \in User, NEW l \in Places, NEW k \in Nat \ {0},
         tick' = [tick EXCEPT ![p] = [now |-> tick[p].now, at |-> [tick[p].at EXCEPT ![u] = l],
                                      key |-> [tick[p].key EXCEPT ![u] = k]]]
  PROVE  Moves(p, u, l, k)
<1> DEFINE t == [now |-> tick[p].now, at |-> [tick[p].at EXCEPT ![u] = l],
                 key |-> [tick[p].key EXCEPT ![u] = k]]
<1>1. t \in Tick /\ t.at[u] = l /\ t.key[u] = k /\ t.now = tick[p].now
      /\ \A v \in User \ {u} : t.at[v] = tick[p].at[v] /\ t.key[v] = tick[p].key[v]
  BY TickType DEF Tick
<1>2. t # None
  BY <1>1, AutomationAssumption
<1>3. tick \in [Proc -> {None} \cup Tick] /\ tick' = [tick EXCEPT ![p] = t]
  BY DEF TypeOK
<1> HIDE DEF t
<1>4. tick' \in [Proc -> {None} \cup Tick] /\ tick'[p] = t /\ \A q \in Proc \ {p} : tick'[q] = tick[q]
  BY <1>1, <1>3
<1>5. QED
  BY <1>1, <1>2, <1>4 DEF Moves

\* Going to another place is a move that starts the keys over.
LEMMA GoesMoves ==
  ASSUME TypeOK, NEW p \in Proc, tick[p] # None, NEW u \in User, NEW l \in Places, Goes(p, u, l)
  PROVE  Moves(p, u, l, 1)
<1>1. 1 \in Nat \ {0}
  OBVIOUS
<1>2. QED
  BY <1>1, MovesFrom DEF Goes, Put

\* After a key comes the next, or the last of the deeds.
LEMMA NextKeyMoves ==
  ASSUME TypeOK, NEW p \in Proc, NEW u \in User, At(p, u, "keys"), NextKey(p, u)
  PROVE  IF tick[p].key[u] < Keys[u] THEN Moves(p, u, "keys", tick[p].key[u] + 1)
         ELSE Moves(p, u, Last(tick[p].now), 1)
<1>1. tick[p] # None /\ tick[p].key[u] \in Nat \ {0}
  BY TickType DEF At
<1>2. CASE tick[p].key[u] < Keys[u]
  BY <1>1, <1>2, MovesFrom DEF NextKey, Put, Places
<1>3. CASE ~ (tick[p].key[u] < Keys[u])
  <2>1. Last(tick[p].now) \in Places
    BY DEF Last, Places
  <2>2. QED
    BY <1>1, <1>3, <2>1, MovesFrom DEF NextKey, Put
<1>4. QED
  BY <1>2, <1>3
\* What a step may not do to the other users.
OthersKept(u) ==
  \A v \in User \ {u} :
    /\ stamp'[v] = stamp[v] /\ acts'[v] = acts[v] /\ had'[v] = had[v]
    /\ \A q \in Proc : mem'[q][v] = mem[q][v]

\* A step of one user's part of the tick keeps the invariant when it does for this user.
LEMMA ServeKeeps ==
  ASSUME IInv, NEW p \in Proc, NEW u \in User, NEW l \in Places, NEW k \in Nat \ {0},
         tick[p] # None, k <= Keys[u], Moves(p, u, l, k), OthersKept(u),
         UNCHANGED <<clock, up, holder, ticked, armed, toggles>>,
         mem' \in [Proc -> [User -> {None} \cup 0..Len(Week)]],
         stamp' \in [User -> [Kinds -> 0..Len(Week)]],
         drive' \in {None} \cup [day : 1..Len(Week),
                                 bars : [day : 1..Len(Week), final : BOOLEAN]],
         fired' \in {None} \cup [day : 1..Len(Week), final : BOOLEAN],
         had' \in [User -> {None} \cup SUBSET Nat], had'[u] # None => had'[u] \subseteq 1..Keys[u],
         acts' \in [User -> [Kinds -> [day : 0..Len(Week), n : Nat]]],
         \A kind \in Kinds : /\ acts'[u][kind].day <= stamp'[u][kind] /\ acts'[u][kind].n <= 1
                             /\ stamp'[u][kind] <= tick[p].now.day,
         \A q \in Proc \ {p} : mem'[q] = mem[q],
         mem'[p][u] # None => mem'[p][u] = stamp'[u]["probe"],
         l = "probing" => /\ stamp'[u]["probe"] = tick[p].now.day
                          /\ acts'[u]["probe"].day < tick[p].now.day,
         l = "notify" => KindDue(tick[p].now) # None,
         l = "post" => LET kind == KindDue(tick[p].now) IN
                       /\ kind # None /\ stamp'[u][kind] = tick[p].now.day
                       /\ acts'[u][kind].day < tick[p].now.day,
         Drives',
         stamp'[u]["probe"] = clock.day => Slot(clock) = "night",
         had'[u] # None => Served(u)'
  PROVE  IInv'
<1> USE DEF IInv
<1>1. /\ \A q \in Proc : tick[q] # None => q = p
      /\ \A q \in Proc : tick'[q] # None => q = p
      /\ tick'[p].now = tick[p].now /\ tick'[p] # None /\ holder = p /\ Running(p)
      /\ \A q \in Proc : Running(q) => q = p
  <2>1. \A q \in Proc : tick[q] # None => q = p
    BY OneTick
  <2>2. tick'[p].now = tick[p].now /\ tick'[p] # None /\ \A q \in Proc \ {p} : tick'[q] = tick[q]
    BY DEF Moves
  <2>3. holder = p /\ Running(p) /\ \A q \in Proc : Running(q) => q = p
    BY DEF OneLoop
  <2>4. QED
    BY <2>1, <2>2, <2>3
<1>2. \A v \in User \ {u} : \A place \in Places, q \in Proc :
         /\ At(q, v, place)' <=> At(q, v, place)
         /\ tick'[q] # None => tick'[q].key[v] = tick[q].key[v] /\ tick'[q].now = tick[q].now
  BY <1>1 DEF At, Moves
<1>3. \A place \in Places : At(p, u, place)' <=> place = l
  BY <1>1 DEF At, Moves
<1>4. TypeOK'
  <2>1. \A q \in Proc : tick'[q] # None => \A v \in User : tick'[q].key[v] <= Keys[v]
    BY <1>1, TickType DEF Moves
  <2>2. \A v \in User : had'[v] # None => had'[v] \subseteq 1..Keys[v]
    BY DEF OthersKept, TypeOK
  <2>3. clock' = clock /\ up' = up /\ holder' = holder /\ ticked' = ticked /\ armed' = armed
        /\ toggles' = toggles /\ tick' \in [Proc -> {None} \cup Tick]
    BY DEF Moves
  <2> HIDE DEF IInv
  <2>4. QED
    BY <2>1, <2>2, <2>3 DEF TypeOK, IInv
<1>5. OneLoop' /\ Readings'
  BY <1>1 DEF OneLoop, Running, Readings
<1>6. Memory'
  <2> SUFFICES ASSUME NEW q \in Proc, NEW v \in User, mem'[q][v] # None
               PROVE  Running(q)' /\ mem'[q][v] = stamp'[v]["probe"]
    BY DEF Memory
  <2>1. Running(q)' <=> Running(q)
    BY DEF Running
  <2>2. CASE q = p /\ v = u
    BY <1>1, <2>1, <2>2
  <2>3. CASE q # p /\ v = u
    BY <1>1, <2>3 DEF Memory
  <2>4. CASE v # u
    <3>1. mem'[q][v] = mem[q][v] /\ stamp'[v] = stamp[v]
      BY <2>4 DEF OthersKept
    <3>2. mem[q][v] # None => Running(q) /\ mem[q][v] = stamp[v]["probe"]
      BY DEF Memory
    <3>3. QED
      BY <2>1, <3>1, <3>2
  <2>5. QED
    BY <2>2, <2>3, <2>4
<1>7. Stamps'
  <2>1. tick[p].now \in Time /\ clock \in Time /\ clock \in {tick[p].now, Following(tick[p].now)}
    BY TickType DEF Readings, TypeOK
  <2>2. tick[p].now.day <= clock.day
    <3>1. Following(tick[p].now).day \in {tick[p].now.day, tick[p].now.day + 1}
      <4>1. tick[p].now.slot < 6 \/ tick[p].now.slot = 6
        <5>1. tick[p].now.slot \in 1..6
          BY <2>1, SlotFacts
        <5>2. QED
          BY <5>1
      <4>2. QED
        BY <2>1, <4>1, FollowingFacts
    <3>2. QED
      BY <2>1, <3>1, SlotFacts, WeekFacts
  <2>3. \A kind \in Kinds : stamp'[u][kind] <= clock.day
    BY <2>1, <2>2, SlotFacts, WeekFacts
  <2>4. QED
    BY <1>1, <2>3 DEF Stamps, OthersKept
<1>8. Deeds'
  <2>1. ASSUME NEW v \in User, v # u
        PROVE  /\ At(p, v, "probing")' => Stamped(v, "probe", tick[p].now.day)'
               /\ At(p, v, "notify")' => KindDue(tick[p].now)' # None
               /\ At(p, v, "post")' => /\ KindDue(tick[p].now)' # None
                                       /\ Stamped(v, KindDue(tick[p].now), tick[p].now.day)'
    <3>1. /\ At(p, v, "probing")' <=> At(p, v, "probing")
          /\ At(p, v, "notify")' <=> At(p, v, "notify")
          /\ At(p, v, "post")' <=> At(p, v, "post")
      BY <1>2, <2>1 DEF Places
    <3>2. stamp'[v] = stamp[v] /\ acts'[v] = acts[v] /\ tick'[p].now = tick[p].now
      BY <1>1, <2>1 DEF OthersKept
    <3>3. KindDue(tick[p].now)' = KindDue(tick[p].now)
      BY <3>2 DEF KindDue, Trades, Slot
    <3>4. QED
      BY <3>1, <3>2, <3>3 DEF Deeds, Stamped
  <2>2. /\ At(p, u, "probing")' => Stamped(u, "probe", tick[p].now.day)'
        /\ At(p, u, "notify")' => KindDue(tick[p].now)' # None
        /\ At(p, u, "post")' => /\ KindDue(tick[p].now)' # None
                                /\ Stamped(u, KindDue(tick[p].now), tick[p].now.day)'
    <3>1. /\ At(p, u, "probing")' <=> l = "probing"
          /\ At(p, u, "notify")' <=> l = "notify"
          /\ At(p, u, "post")' <=> l = "post"
      BY <1>3 DEF Places
    <3>2. KindDue(tick[p].now)' = KindDue(tick[p].now) /\ tick'[p].now = tick[p].now
      BY <1>1 DEF KindDue, Trades, Slot
    <3>3. QED
      BY <3>1, <3>2 DEF Stamped
  <2>3. \A q \in Proc : q # p => tick'[q] = None
    BY <1>1
  <2>4. QED
    BY <2>1, <2>2, <2>3 DEF Deeds, At
<1>9. Nights'
  BY DEF Nights, OthersKept
<1>10. Windows'
  <2>1. ASSUME NEW v \in User \ {u}, had'[v] # None PROVE Served(v)'
    <3>1. Served(v) /\ had'[v] = had[v] /\ stamp'[v] = stamp[v] /\ acts'[v] = acts[v]
      BY <2>1 DEF Windows, OthersKept
    <3>2. /\ At(p, v, "keys")' <=> At(p, v, "keys")
          /\ At(p, v, "probe")' <=> At(p, v, "probe")
          /\ At(p, v, "probing")' <=> At(p, v, "probing")
          /\ At(p, v, "notify")' <=> At(p, v, "notify")
          /\ tick'[p].key[v] = tick[p].key[v]
      BY <1>1, <1>2, <2>1 DEF Places
    <3>3. \A q \in Proc, place \in Places : At(q, v, place) \/ At(q, v, place)' => q = p
      BY <1>1 DEF At
    <3>4. /\ armed'[v] /\ (\E q \in Proc : up'[q] = "up")
          /\ \A q \in Proc : tick'[q] # None => tick'[q].now = clock'
      BY <1>1, <3>1 DEF Served
    <3>5. InWindow(clock)' /\ ticked' =>
            \/ had'[v] = 1..Keys[v]
            \/ \E q \in Proc : At(q, v, "keys")' /\ 1..(tick'[q].key[v] - 1) \subseteq had'[v]
      <4>1. InWindow(clock)' = InWindow(clock)
        BY DEF InWindow, Trades, Slot
      <4>2. QED
        BY <3>1, <3>2, <3>3, <4>1 DEF Served, Places
    <3>6. Week[clock'.day].nights /\ Slot(clock)' = "night" /\ ticked' =>
            \/ acts'[v]["probe"] = [day |-> clock'.day, n |-> 1]
            \/ \E q \in Proc : At(q, v, "probe")' \/ At(q, v, "probing")'
      <4>1. Slot(clock)' = Slot(clock)
        BY DEF Slot
      <4>2. QED
        BY <3>1, <3>2, <3>3, <4>1 DEF Served, Places
    <3>7. stamp'[v]["probe"] = clock'.day =>
            \/ acts'[v]["probe"] = [day |-> clock'.day, n |-> 1]
            \/ \E q \in Proc : At(q, v, "probing")'
      BY <3>1, <3>2, <3>3 DEF Served, Places
    <3>8. KindDue(clock)' = "recap" /\ ticked' =>
            \/ stamp'[v]["recap"] = clock'.day
            \/ \E q \in Proc : At(q, v, "keys")' \/ At(q, v, "notify")'
      <4>1. KindDue(clock)' = KindDue(clock)
        BY DEF KindDue, Trades, Slot
      <4>2. QED
        BY <3>1, <3>2, <3>3, <4>1 DEF Served, Places
    <3>9. QED
      BY <3>4, <3>5, <3>6, <3>7, <3>8 DEF Served
  <2>2. QED
    BY <2>1 DEF Windows
<1>11. QED
  BY <1>4, <1>5, <1>6, <1>7, <1>8, <1>9, <1>10
\* What holds of a tick and a user of it.
LEMMA Facts ==
  ASSUME IInv, NEW p \in Proc, tick[p] # None, NEW u \in User
  PROVE  /\ mem \in [Proc -> [User -> {None} \cup 0..Len(Week)]]
         /\ stamp \in [User -> [Kinds -> 0..Len(Week)]]
         /\ drive \in {None} \cup [day : 1..Len(Week),
                                   bars : [day : 1..Len(Week), final : BOOLEAN]]
         /\ fired \in {None} \cup [day : 1..Len(Week), final : BOOLEAN]
         /\ had \in [User -> {None} \cup SUBSET Nat]
         /\ (had[u] # None => had[u] \subseteq 1..Keys[u] /\ Served(u) /\ tick[p].now = clock)
         /\ acts \in [User -> [Kinds -> [day : 0..Len(Week), n : Nat]]]
         /\ \A kind \in Kinds : /\ acts[u][kind].day <= stamp[u][kind] /\ acts[u][kind].n <= 1
                                /\ stamp[u][kind] <= tick[p].now.day
         /\ (mem[p][u] # None => mem[p][u] = stamp[u]["probe"])
         /\ Drives /\ (stamp[u]["probe"] = clock.day => Slot(clock) = "night")
         /\ tick[p].now \in Time /\ clock \in Time
         /\ clock \in {tick[p].now, Following(tick[p].now)}
         /\ Keys[u] \in Nat \ {0} /\ tick[p].key[u] \in Nat \ {0} /\ tick[p].key[u] <= Keys[u]
<1>1. TypeOK
  BY DEF IInv
<1>2. /\ tick[p].now \in Time /\ tick[p].key[u] \in Nat \ {0} /\ tick[p].key[u] <= Keys[u]
      /\ Keys[u] \in Nat \ {0}
  BY <1>1, TickType, AutomationAssumption
<1>3. had[u] # None => Served(u) /\ tick[p].now = clock
  BY DEF IInv, Windows, Served
<1>4. \A kind \in Kinds : /\ acts[u][kind].day <= stamp[u][kind] /\ acts[u][kind].n <= 1
                          /\ stamp[u][kind] <= tick[p].now.day
  BY DEF IInv, Stamps
<1>5. mem[p][u] # None => mem[p][u] = stamp[u]["probe"]
  BY DEF IInv, Memory
<1>6. QED
  BY <1>1, <1>2, <1>3, <1>4, <1>5 DEF IInv, TypeOK, Nights, Readings

\* After a move the user is at its place and nobody is elsewhere with him.
LEMMA MovedAt ==
  ASSUME IInv, NEW p \in Proc, tick[p] # None, NEW u \in User, NEW l, NEW k, Moves(p, u, l, k)
  PROVE  /\ \A q \in Proc : \A place \in Places :
               /\ At(q, u, place) => q = p /\ tick[p].at[u] = place
               /\ At(q, u, place)' <=> q = p /\ l = place
         /\ \A q \in Proc : tick'[q] # None => q = p
         /\ tick'[p].now = tick[p].now /\ tick'[p].key[u] = k
<1>1. \A q \in Proc : tick[q] # None => q = p
  BY OneTick DEF IInv
<1>2. QED
  BY <1>1 DEF Moves, At

\* The drive a key reads is kept, or asked for after the range is final; what is kept or fired on
\* by a reading of this window or the last is final and of its day.
LEMMA DriveFacts ==
  ASSUME NEW now \in Time, clock \in Time, clock \in {now, Following(now)}, Drives,
         drive \in {None} \cup [day : 1..Len(Week), bars : [day : 1..Len(Week), final : BOOLEAN]]
  PROVE  /\ DriveAfter(now) \in {None} \cup
               [day : 1..Len(Week), bars : [day : 1..Len(Week), final : BOOLEAN]]
         /\ DriveAfter(now) # None => DriveAfter(now).bars = [day |-> DriveAfter(now).day, final |-> TRUE]
         /\ Slot(now) = "entry" /\ Drive(now) # None =>
              /\ Drive(now) = [day |-> clock.day, final |-> TRUE]
              /\ Drive(now) \in [day : 1..Len(Week), final : BOOLEAN]
<1>1. now.day \in 1..Len(Week) /\ clock.day \in 1..Len(Week) /\ now.slot \in 1..6 /\ clock.slot \in 1..6
  BY SlotFacts
<1>2. ASSUME now.slot \in {3, 4} PROVE clock.day = now.day /\ clock.slot \in {3, 4, 5}
  BY <1>1, <1>2, FollowingFacts
<1>3. ASSUME now.slot \in {3, 4}, ~ CachedFor(now), Drive(now) # None
      PROVE  Drive(now) = [day |-> now.day, final |-> TRUE]
  <2>1. Slot(clock) # "form"
    BY <1>2, <1>3, SlotFacts
  <2>2. Drive(now) = Bars
    BY <1>3 DEF Drive
  <2>3. QED
    BY <1>2, <1>3, <2>1, <2>2 DEF Bars
<1>4. ASSUME CachedFor(now), Drive(now) # None
      PROVE  Drive(now) = [day |-> now.day, final |-> TRUE]
  BY <1>4 DEF CachedFor, Drive, Drives
<1>5. ASSUME Drive(now) # None, Locks(now)
      PROVE  Drive(now) = [day |-> now.day, final |-> TRUE]
  <2>1. ~ RolledOver(now)
    BY <1>5 DEF Drive
  <2>2. now.slot \in {3, 4}
    BY <1>1, <1>5, <2>1, SlotFacts DEF Locks, RolledOver
  <2>3. QED
    BY <1>3, <1>4, <1>5, <2>2
<1>6. CASE Drive(now) # None /\ Locks(now)
  <2>1. DriveAfter(now) = [day |-> now.day, bars |-> [day |-> now.day, final |-> TRUE]]
    BY <1>5, <1>6 DEF DriveAfter
  <2>2. Slot(now) = "entry" => clock.day = now.day
    BY <1>2, SlotFacts
  <2>3. DriveAfter(now) \in [day : 1..Len(Week), bars : [day : 1..Len(Week), final : BOOLEAN]]
    BY <1>1, <2>1
  <2>4. DriveAfter(now).bars = [day |-> DriveAfter(now).day, final |-> TRUE]
    BY <2>1
  <2>5. Drive(now) = [day |-> now.day, final |-> TRUE]
    BY <1>5, <1>6
  <2>6. Slot(now) = "entry" =>
          /\ Drive(now) = [day |-> clock.day, final |-> TRUE]
          /\ Drive(now) \in [day : 1..Len(Week), final : BOOLEAN]
    <3>1. [day |-> now.day, final |-> TRUE] \in [day : 1..Len(Week), final : BOOLEAN]
      BY <1>1
    <3>2. ASSUME Slot(now) = "entry" PROVE Drive(now) = [day |-> clock.day, final |-> TRUE]
      BY <2>2, <2>5, <3>2
    <3>3. QED
      BY <2>5, <3>1, <3>2
  <2>7. QED
    BY <2>3, <2>4, <2>6
<1>7. CASE ~ (Drive(now) # None /\ Locks(now))
  <2>1. DriveAfter(now) = drive
    BY <1>7 DEF DriveAfter
  <2>2. Slot(now) = "entry" => Locks(now)
    BY SlotFacts DEF Locks
  <2>3. QED
    BY <1>7, <2>1, <2>2 DEF Drives
<1>8. QED
  BY <1>6, <1>7
\* A streamed order keeps the invariant.
LEMMA RunsKeyKeeps ==
  ASSUME IInv, NEW p \in Proc, NEW u \in User, RunsKey(p, u)
  PROVE  IInv'
<1> DEFINE now == tick[p].now
           key == tick[p].key[u]
<1>0. TypeOK
  BY DEF IInv
<1>1. /\ At(p, u, "keys") /\ NextKey(p, u) /\ tick[p] # None /\ tick[p].at[u] = "keys"
      /\ UNCHANGED <<clock, up, holder, ticked, mem, stamp, armed, acts, toggles>>
      /\ drive' \in {drive, DriveAfter(now)}
      /\ \/ Slot(now) = "entry" /\ Drive(now) # None /\ fired' = Drive(now)
         \/ UNCHANGED fired
      /\ had' = IF had[u] = None \/ now # clock THEN had ELSE [had EXCEPT ![u] = @ \cup {key}]
  BY DEF RunsKey, At
<1>2. /\ drive' \in {None} \cup [day : 1..Len(Week), bars : [day : 1..Len(Week), final : BOOLEAN]]
      /\ fired' \in {None} \cup [day : 1..Len(Week), final : BOOLEAN]
      /\ Drives'
  <2>1. Drives /\ fired \in {None} \cup [day : 1..Len(Week), final : BOOLEAN]
        /\ now \in Time /\ clock \in Time /\ clock \in {now, Following(now)}
        /\ drive \in {None} \cup [day : 1..Len(Week), bars : [day : 1..Len(Week), final : BOOLEAN]]
    BY <1>1, Facts
  <2>2. /\ DriveAfter(now) \in {None} \cup
              [day : 1..Len(Week), bars : [day : 1..Len(Week), final : BOOLEAN]]
        /\ DriveAfter(now) # None => DriveAfter(now).bars = [day |-> DriveAfter(now).day, final |-> TRUE]
        /\ Slot(now) = "entry" /\ Drive(now) # None =>
             /\ Drive(now) = [day |-> clock.day, final |-> TRUE]
             /\ Drive(now) \in [day : 1..Len(Week), final : BOOLEAN]
    BY <2>1, DriveFacts
  <2>3. drive' # None => drive'.bars = [day |-> drive'.day, final |-> TRUE]
    BY <1>1, <2>1, <2>2 DEF Drives
  <2>4. FiresOnFinal'
    BY <1>1, <2>1, <2>2 DEF Drives, FiresOnFinal
  <2>5. QED
    BY <1>1, <2>1, <2>2, <2>3, <2>4 DEF Drives
<1>3. /\ had \in [User -> {None} \cup SUBSET Nat] /\ key \in Nat \ {0} /\ key <= Keys[u]
      /\ Keys[u] \in Nat \ {0}
      /\ (had[u] # None => had[u] \subseteq 1..Keys[u] /\ Served(u) /\ now = clock)
  BY <1>1, Facts
<1>4. /\ had' \in [User -> {None} \cup SUBSET Nat] /\ \A v \in User \ {u} : had'[v] = had[v]
      /\ had'[u] # None => had[u] # None /\ had'[u] = had[u] \cup {key} /\ had'[u] \subseteq 1..Keys[u]
  BY <1>1, <1>3
<1>5. OthersKept(u)
  BY <1>1, <1>4 DEF OthersKept
<1>6. PICK l \in Places, k \in Nat \ {0} :
        /\ Moves(p, u, l, k) /\ k <= Keys[u]
        /\ \/ l = "keys" /\ k = key + 1
           \/ l = Last(now) /\ key = Keys[u]
  <2>1. CASE key < Keys[u]
    <3>1. Moves(p, u, "keys", key + 1) /\ key + 1 \in Nat \ {0} /\ key + 1 <= Keys[u]
      BY <1>0, <1>1, <1>3, <2>1, NextKeyMoves
    <3>2. QED
      BY <3>1 DEF Places
  <2>2. CASE ~ (key < Keys[u])
    <3>1. Moves(p, u, Last(now), 1) /\ key = Keys[u] /\ 1 <= Keys[u] /\ 1 \in Nat \ {0}
      BY <1>0, <1>1, <1>3, <2>2, NextKeyMoves
    <3>2. Last(now) \in Places
      BY DEF Last, Places
    <3>3. QED
      BY <3>1, <3>2
  <2>3. QED
    BY <2>1, <2>2
<1>7. l \in {"keys", "notify", "done"} /\ (l = "notify" => KindDue(now) # None)
  BY <1>6 DEF Last
<1>8. ASSUME had'[u] # None PROVE Served(u)'
  <2>1. Served(u) /\ now = clock /\ had'[u] = had[u] \cup {key}
        /\ had[u] \subseteq 1..Keys[u] /\ had'[u] \subseteq 1..Keys[u]
    BY <1>3, <1>4, <1>8
  <2>2. /\ \A q \in Proc, place \in Places :
               /\ At(q, u, place) => q = p /\ place = "keys"
               /\ At(q, u, place)' <=> q = p /\ l = place
        /\ \A q \in Proc : tick'[q] # None => q = p
        /\ tick'[p].now = now /\ tick'[p].key[u] = k
    BY <1>1, <1>6, MovedAt
  <2>3. /\ armed'[u] /\ (\E q \in Proc : up'[q] = "up")
        /\ \A q \in Proc : tick'[q] # None => tick'[q].now = clock'
    BY <1>1, <2>1, <2>2 DEF Served
  <2>4. InWindow(clock) /\ ticked =>
          \/ had'[u] = 1..Keys[u]
          \/ \E q \in Proc : At(q, u, "keys")' /\ 1..(tick'[q].key[u] - 1) \subseteq had'[u]
    <3> SUFFICES ASSUME InWindow(clock), ticked, had'[u] # 1..Keys[u]
                 PROVE  At(p, u, "keys")' /\ 1..(tick'[p].key[u] - 1) \subseteq had'[u]
      OBVIOUS
    <3>1. had[u] # 1..Keys[u]
      BY <1>3, <2>1
    <3>2. 1..(key - 1) \subseteq had[u]
      BY <2>1, <2>2, <3>1 DEF Served, Places
    <3>3. 1..key \subseteq had'[u]
      BY <1>3, <2>1, <3>2
    <3>4. l = "keys" /\ k = key + 1
      BY <1>3, <1>6, <2>1, <3>3
    <3>5. QED
      BY <1>3, <2>2, <3>3, <3>4 DEF Places
  <2>5. Week[clock.day].nights /\ Slot(clock) = "night" /\ ticked =>
          acts[u]["probe"] = [day |-> clock.day, n |-> 1]
    BY <2>1, <2>2 DEF Served, Places
  <2>6. stamp[u]["probe"] = clock.day => acts[u]["probe"] = [day |-> clock.day, n |-> 1]
    BY <2>1, <2>2 DEF Served, Places
  <2>7. KindDue(clock) = "recap" => At(p, u, "keys")' \/ At(p, u, "notify")'
    <3>1. KindDue(clock) = "recap" => Last(now) = "notify"
      BY <2>1, AutomationAssumption DEF Last, Kinds
    <3>2. QED
      BY <1>6, <2>2, <3>1 DEF Places
  <2>8. /\ InWindow(clock)' = InWindow(clock) /\ KindDue(clock)' = KindDue(clock)
        /\ Slot(clock)' = Slot(clock)
    BY <1>1 DEF InWindow, KindDue, Trades, Slot
  <2>9. QED
    BY <1>1, <2>3, <2>4, <2>5, <2>6, <2>7, <2>8 DEF Served
<1>9. /\ \A kind \in Kinds : /\ acts[u][kind].day <= stamp[u][kind] /\ acts[u][kind].n <= 1
                             /\ stamp[u][kind] <= now.day
      /\ (mem[p][u] # None => mem[p][u] = stamp[u]["probe"])
      /\ (stamp[u]["probe"] = clock.day => Slot(clock) = "night")
      /\ mem \in [Proc -> [User -> {None} \cup 0..Len(Week)]]
      /\ stamp \in [User -> [Kinds -> 0..Len(Week)]]
      /\ acts \in [User -> [Kinds -> [day : 0..Len(Week), n : Nat]]]
  BY <1>1, Facts
<1> HIDE DEF now, key
<1>10. QED
  BY <1>1, <1>2, <1>4, <1>5, <1>6, <1>7, <1>8, <1>9, ServeKeeps DEF now
\* A key that is passed over or fails ends the user's claim on this window, and with a failure
\* his tick.
LEMMA KeyFailsKeeps ==
  ASSUME IInv, NEW p \in Proc, NEW u \in User, KeyGone(p, u) \/ KeyRaises(p, u)
  PROVE  IInv'
<1>0. TypeOK
  BY DEF IInv
<1>1. /\ At(p, u, "keys") /\ tick[p] # None /\ HeldUp({u})
      /\ UNCHANGED <<clock, up, holder, ticked, mem, stamp, armed, drive, fired, acts, toggles>>
      /\ NextKey(p, u) \/ Goes(p, u, "done")
  BY DEF KeyGone, KeyRaises, At
<1>2. /\ mem \in [Proc -> [User -> {None} \cup 0..Len(Week)]]
      /\ stamp \in [User -> [Kinds -> 0..Len(Week)]]
      /\ drive \in {None} \cup [day : 1..Len(Week), bars : [day : 1..Len(Week), final : BOOLEAN]]
      /\ fired \in {None} \cup [day : 1..Len(Week), final : BOOLEAN]
      /\ had \in [User -> {None} \cup SUBSET Nat]
      /\ acts \in [User -> [Kinds -> [day : 0..Len(Week), n : Nat]]]
      /\ \A kind \in Kinds : /\ acts[u][kind].day <= stamp[u][kind] /\ acts[u][kind].n <= 1
                             /\ stamp[u][kind] <= tick[p].now.day
      /\ (mem[p][u] # None => mem[p][u] = stamp[u]["probe"])
      /\ Drives /\ (stamp[u]["probe"] = clock.day => Slot(clock) = "night")
      /\ Keys[u] \in Nat \ {0} /\ tick[p].key[u] \in Nat \ {0} /\ tick[p].key[u] <= Keys[u]
  BY <1>1, Facts
<1>3. /\ had' \in [User -> {None} \cup SUBSET Nat] /\ had'[u] = None
      /\ \A v \in User \ {u} : had'[v] = had[v]
  BY <1>1, <1>2 DEF HeldUp
<1>4. OthersKept(u) /\ Drives'
  BY <1>1, <1>2, <1>3 DEF OthersKept, Drives, FiresOnFinal
<1>5. PICK l \in {"keys", "done", Last(tick[p].now)}, k \in Nat \ {0} :
        Moves(p, u, l, k) /\ k <= Keys[u]
  <2>1. CASE NextKey(p, u)
    <3>1. CASE tick[p].key[u] < Keys[u]
      <4>1. Moves(p, u, "keys", tick[p].key[u] + 1)
        BY <1>0, <1>1, <2>1, <3>1, NextKeyMoves
      <4>2. tick[p].key[u] + 1 \in Nat \ {0} /\ tick[p].key[u] + 1 <= Keys[u]
        BY <1>2, <3>1
      <4>3. QED
        BY <4>1, <4>2
    <3>2. CASE ~ (tick[p].key[u] < Keys[u])
      <4>1. Moves(p, u, Last(tick[p].now), 1)
        BY <1>0, <1>1, <2>1, <3>2, NextKeyMoves
      <4>2. 1 \in Nat \ {0} /\ 1 <= Keys[u]
        BY <1>2
      <4>3. QED
        BY <4>1, <4>2
    <3>3. QED
      BY <3>1, <3>2
  <2>2. CASE Goes(p, u, "done")
    <3>1. Moves(p, u, "done", 1)
      BY <1>0, <1>1, <2>2, GoesMoves DEF Places
    <3>2. 1 \in Nat \ {0} /\ 1 <= Keys[u]
      BY <1>2
    <3>3. QED
      BY <3>1, <3>2
  <2>3. QED
    BY <1>1, <2>1, <2>2
<1>6. l \in Places /\ l \in {"keys", "notify", "done"} /\ (l = "notify" => KindDue(tick[p].now) # None)
  BY <1>5 DEF Last, Places
<1>7. QED
  BY <1>1, <1>2, <1>3, <1>4, <1>5, <1>6, ServeKeeps

\* Probe: stamped on the disk before it is made.
LEMMA ProbeKeeps ==
  ASSUME IInv, NEW p \in Proc, NEW u \in User, Probe(p, u)
  PROVE  IInv'
<1> DEFINE now == tick[p].now
           last == IF mem[p][u] = None THEN stamp[u]["probe"] ELSE mem[p][u]
<1>0. TypeOK
  BY DEF IInv
<1>1. /\ At(p, u, "probe") /\ tick[p] # None
      /\ UNCHANGED <<clock, up, holder, ticked, armed, drive, fired, had, acts, toggles>>
  BY DEF Probe, At, history
<1>2. /\ mem \in [Proc -> [User -> {None} \cup 0..Len(Week)]]
      /\ stamp \in [User -> [Kinds -> 0..Len(Week)]]
      /\ drive \in {None} \cup [day : 1..Len(Week), bars : [day : 1..Len(Week), final : BOOLEAN]]
      /\ fired \in {None} \cup [day : 1..Len(Week), final : BOOLEAN]
      /\ had \in [User -> {None} \cup SUBSET Nat]
      /\ acts \in [User -> [Kinds -> [day : 0..Len(Week), n : Nat]]]
      /\ (had[u] # None => had[u] \subseteq 1..Keys[u] /\ Served(u) /\ now = clock)
      /\ Drives
      /\ 1 <= Keys[u] /\ 1 \in Nat \ {0} /\ now \in Time /\ clock \in Time
      /\ clock \in {now, Following(now)}
  BY <1>1, Facts
<1>3. /\ \A kind \in Kinds : /\ acts[u][kind].day <= stamp[u][kind] /\ acts[u][kind].n <= 1
                             /\ stamp[u][kind] <= now.day
      /\ (mem[p][u] # None => mem[p][u] = stamp[u]["probe"])
      /\ (stamp[u]["probe"] = clock.day => Slot(clock) = "night")
  BY <1>1, Facts
<1>4. /\ last = stamp[u]["probe"] /\ last \in 0..Len(Week) /\ "probe" \in Kinds
      /\ now.day \in 1..Len(Week) /\ now.day \in 0..Len(Week) /\ now.slot \in 1..6
  BY <1>2, <1>3, SlotFacts, WeekFacts DEF Kinds
<1>5. \A l, k : Moves(p, u, l, k) =>
        /\ \A q \in Proc, place \in Places :
               /\ At(q, u, place) => q = p /\ place = "probe"
               /\ At(q, u, place)' <=> q = p /\ l = place
        /\ \A q \in Proc : tick'[q] # None => q = p
        /\ tick'[p].now = now
  BY <1>1, MovedAt DEF At
<1>6. /\ InWindow(clock)' = InWindow(clock) /\ KindDue(clock)' = KindDue(clock)
      /\ Slot(clock)' = Slot(clock) /\ Drives'
  BY <1>1, <1>2 DEF InWindow, KindDue, Trades, Slot, Drives, FiresOnFinal
<1>7. CASE /\ ProbeDue(now, last) /\ mem' = [mem EXCEPT ![p][u] = now.day]
           /\ stamp' = [stamp EXCEPT ![u]["probe"] = now.day] /\ Goes(p, u, "probing")
  <2>1. Moves(p, u, "probing", 1)
    BY <1>0, <1>1, <1>7, GoesMoves DEF Places
  <2>2. /\ mem' \in [Proc -> [User -> {None} \cup 0..Len(Week)]] /\ mem'[p][u] = now.day
        /\ \A q \in Proc \ {p} : mem'[q] = mem[q]
        /\ \A q \in Proc, v \in User \ {u} : mem'[q][v] = mem[q][v]
    BY <1>2, <1>4, <1>7
  <2>3. /\ stamp' \in [User -> [Kinds -> 0..Len(Week)]] /\ stamp'[u]["probe"] = now.day
        /\ \A v \in User \ {u} : stamp'[v] = stamp[v]
        /\ \A kind \in Kinds \ {"probe"} : stamp'[u][kind] = stamp[u][kind]
    BY <1>2, <1>4, <1>7
  <2>4. now.slot = 6 /\ last # now.day
    BY <1>2, <1>7, SlotFacts DEF ProbeDue
  <2>5. acts[u]["probe"].day < now.day /\ acts[u]["probe"].n <= 1 /\ acts[u]["probe"].day <= now.day
    <3>1. acts[u]["probe"].day \in Nat /\ now.day \in Nat /\ last \in Nat
      BY <1>2, <1>4, WeekFacts
    <3>2. QED
      BY <1>3, <1>4, <2>4, <3>1
  <2>6. \A kind \in Kinds : /\ acts'[u][kind].day <= stamp'[u][kind] /\ acts'[u][kind].n <= 1
                            /\ stamp'[u][kind] <= now.day
    <3>1. ASSUME NEW kind \in Kinds \ {"probe"}
          PROVE  /\ acts'[u][kind].day <= stamp'[u][kind] /\ acts'[u][kind].n <= 1
                 /\ stamp'[u][kind] <= now.day
      BY <1>1, <1>3, <2>3
    <3>2. now.day <= now.day
      BY <1>4, WeekFacts
    <3>3. QED
      BY <1>1, <2>3, <2>5, <3>1, <3>2
  <2>7. now.day = clock.day => Slot(clock) = "night"
    <3>1. clock = now \/ clock = [day |-> now.day + 1, slot |-> 1]
      BY <1>2, <2>4, FollowingFacts
    <3>2. QED
      BY <1>2, <1>4, <2>4, <3>1, SlotFacts, WeekFacts
  <2>8. OthersKept(u)
    BY <1>1, <2>2, <2>3 DEF OthersKept
  <2>9. ASSUME had'[u] # None PROVE Served(u)'
    <3>1. Served(u) /\ now = clock /\ had'[u] = had[u] /\ At(p, u, "probing")'
      BY <1>1, <1>2, <1>5, <2>1, <2>9 DEF Places
    <3>2. /\ armed'[u] /\ (\E q \in Proc : up'[q] = "up")
          /\ \A q \in Proc : tick'[q] # None => tick'[q].now = clock'
      BY <1>1, <1>5, <2>1, <3>1 DEF Served
    <3>3. InWindow(clock) /\ ticked => had'[u] = 1..Keys[u]
      BY <1>5, <2>1, <3>1 DEF Served, Places
    <3>4. KindDue(clock) # "recap"
      BY <1>2, <2>4, <3>1, SlotFacts, AutomationAssumption DEF KindDue, Kinds
    <3>5. QED
      BY <1>1, <1>6, <3>1, <3>2, <3>3, <3>4 DEF Served
  <2> HIDE DEF now, last
  <2>10. "probing" \in Places /\ stamp'[u]["probe"] = now.day /\ acts'[u]["probe"].day < now.day
         /\ ("probing" # "notify") /\ ("probing" # "post")
    BY <1>1, <2>3, <2>5 DEF Places
  <2>11. QED
    BY <1>1, <1>2, <1>6, <2>1, <2>2, <2>3, <2>6, <2>7, <2>8, <2>9, <2>10, ServeKeeps DEF now
<1>8. CASE /\ ~ ProbeDue(now, last) /\ mem' = [mem EXCEPT ![p][u] = last]
           /\ UNCHANGED stamp /\ Goes(p, u, "done")
  <2>1. Moves(p, u, "done", 1)
    BY <1>0, <1>1, <1>8, GoesMoves DEF Places
  <2>2. /\ mem' \in [Proc -> [User -> {None} \cup 0..Len(Week)]] /\ mem'[p][u] = last
        /\ \A q \in Proc \ {p} : mem'[q] = mem[q]
        /\ \A q \in Proc, v \in User \ {u} : mem'[q][v] = mem[q][v]
    BY <1>2, <1>4, <1>8
  <2>3. OthersKept(u)
    BY <1>1, <1>8, <2>2 DEF OthersKept
  <2>4. ASSUME had'[u] # None PROVE Served(u)'
    <3>1. Served(u) /\ now = clock /\ had'[u] = had[u]
      BY <1>1, <1>2, <2>4
    <3>2. /\ armed'[u] /\ (\E q \in Proc : up'[q] = "up")
          /\ \A q \in Proc : tick'[q] # None => tick'[q].now = clock'
      BY <1>1, <1>5, <2>1, <3>1 DEF Served
    <3>3. InWindow(clock) /\ ticked => had'[u] = 1..Keys[u]
      BY <1>5, <2>1, <3>1 DEF Served, Places
    <3>4. stamp[u]["probe"] = clock.day => acts[u]["probe"] = [day |-> clock.day, n |-> 1]
      BY <1>5, <2>1, <3>1 DEF Served, Places
    <3>5. Week[clock.day].nights /\ Slot(clock) = "night" => stamp[u]["probe"] = clock.day
      BY <1>4, <1>8, <3>1 DEF ProbeDue
    <3>6. KindDue(clock) = "recap" /\ ticked => stamp[u]["recap"] = clock.day
      BY <1>5, <2>1, <3>1 DEF Served, Places
    <3>7. QED
      BY <1>1, <1>6, <1>8, <3>2, <3>3, <3>4, <3>5, <3>6 DEF Served
  <2>5. "done" \in Places
    BY DEF Places
  <2>6. stamp' = stamp /\ mem'[p][u] = stamp'[u]["probe"]
    BY <1>4, <1>8, <2>2
  <2> HIDE DEF now, last
  <2>7. QED
    BY <1>1, <1>2, <1>3, <1>6, <2>1, <2>2, <2>3, <2>4, <2>5, <2>6, ServeKeeps DEF now
<1>9. QED
  BY <1>7, <1>8 DEF Probe
\* A deed that was stamped is done once.
LEMMA DoneFacts ==
  ASSUME TypeOK, NEW u \in User, NEW kind \in Kinds, NEW day \in 1..Len(Week), Done(u, kind, day),
         acts[u][kind].day < day
  PROVE  /\ acts' \in [User -> [Kinds -> [day : 0..Len(Week), n : Nat]]]
         /\ acts'[u][kind] = [day |-> day, n |-> 1]
         /\ \A k \in Kinds \ {kind} : acts'[u][k] = acts[u][k]
         /\ \A v \in User \ {u} : acts'[v] = acts[v]
<1>1. acts \in [User -> [Kinds -> [day : 0..Len(Week), n : Nat]]] /\ Len(Week) \in Nat
  BY WeekFacts DEF TypeOK
<1>2. acts[u][kind].day # day /\ day \in 0..Len(Week)
  <2>1. acts[u][kind].day \in 0..Len(Week)
    BY <1>1
  <2>2. QED
    BY <1>1, <2>1
<1>3. acts' = [acts EXCEPT ![u][kind] = [day |-> day, n |-> 1]]
  BY <1>2 DEF Done
<1>4. [day |-> day, n |-> 1] \in [day : 0..Len(Week), n : Nat]
  BY <1>2
<1>5. QED
  BY <1>1, <1>3, <1>4

\* Probes and Posts: what was stamped is done.
LEMMA DeedKeeps ==
  ASSUME IInv, NEW p \in Proc, NEW u \in User, Probes(p, u) \/ Posts(p, u)
  PROVE  IInv'
<1> DEFINE now == tick[p].now
<1>0. TypeOK
  BY DEF IInv
<1>1. /\ At(p, u, "probing") \/ At(p, u, "post")
      /\ tick[p] # None /\ Goes(p, u, "done")
      /\ UNCHANGED <<clock, up, holder, ticked, mem, stamp, armed, drive, fired, had, toggles>>
  BY DEF Probes, Posts, At
<1>2. /\ mem \in [Proc -> [User -> {None} \cup 0..Len(Week)]]
      /\ stamp \in [User -> [Kinds -> 0..Len(Week)]]
      /\ drive \in {None} \cup [day : 1..Len(Week), bars : [day : 1..Len(Week), final : BOOLEAN]]
      /\ fired \in {None} \cup [day : 1..Len(Week), final : BOOLEAN]
      /\ had \in [User -> {None} \cup SUBSET Nat]
      /\ (had[u] # None => had[u] \subseteq 1..Keys[u] /\ Served(u) /\ now = clock)
      /\ Drives /\ 1 <= Keys[u] /\ 1 \in Nat \ {0} /\ now \in Time
  BY <1>1, Facts
<1>3. /\ \A kind \in Kinds : /\ acts[u][kind].day <= stamp[u][kind] /\ acts[u][kind].n <= 1
                             /\ stamp[u][kind] <= now.day
      /\ (mem[p][u] # None => mem[p][u] = stamp[u]["probe"])
      /\ (stamp[u]["probe"] = clock.day => Slot(clock) = "night")
  BY <1>1, Facts
<1>4. PICK kind \in Kinds :
        /\ stamp[u][kind] = now.day /\ acts[u][kind].day < now.day
        /\ Done(u, kind, now.day)
        /\ At(p, u, "probing") => kind = "probe"
        /\ At(p, u, "post") => kind # "probe"
  <2>1. ASSUME Probes(p, u)
        PROVE  /\ stamp[u]["probe"] = now.day /\ acts[u]["probe"].day < now.day
               /\ Done(u, "probe", now.day) /\ ~ At(p, u, "post")
    BY <2>1 DEF Probes, IInv, Deeds, Stamped, At
  <2>2. ASSUME Posts(p, u)
        PROVE  LET k == KindDue(now) IN
               /\ k \in Kinds /\ k # "probe" /\ stamp[u][k] = now.day /\ acts[u][k].day < now.day
               /\ Done(u, k, now.day) /\ ~ At(p, u, "probing")
    <3>1. /\ KindDue(now) # None /\ Stamped(u, KindDue(now), now.day) /\ Done(u, KindDue(now), now.day)
          /\ ~ At(p, u, "probing")
      BY <2>2 DEF Posts, IInv, Deeds, At
    <3>2. KindDue(now) \in {None, "premarket", "recap"}
      BY DEF KindDue
    <3>3. QED
      BY <3>1, <3>2 DEF Stamped, Kinds
  <2>3. "probe" \in Kinds
    BY DEF Kinds
  <2>4. QED
    BY <2>1, <2>2, <2>3
<1>5. /\ acts' \in [User -> [Kinds -> [day : 0..Len(Week), n : Nat]]]
      /\ acts'[u][kind] = [day |-> now.day, n |-> 1]
      /\ \A k \in Kinds \ {kind} : acts'[u][k] = acts[u][k]
      /\ \A v \in User \ {u} : acts'[v] = acts[v]
  <2>1. now.day \in 1..Len(Week)
    BY <1>2, SlotFacts
  <2>2. Done(u, kind, now.day) /\ acts[u][kind].day < now.day
    BY <1>4
  <2> HIDE DEF now
  <2>3. QED
    BY <1>0, <2>1, <2>2, DoneFacts DEF now
<1>6. \A k \in Kinds : /\ acts'[u][k].day <= stamp'[u][k] /\ acts'[u][k].n <= 1
                       /\ stamp'[u][k] <= now.day
  <2>1. now.day <= now.day /\ stamp' = stamp
    BY <1>1, <1>2, SlotFacts, WeekFacts
  <2>2. acts'[u][kind].day <= stamp'[u][kind] /\ acts'[u][kind].n <= 1
    <3>1. acts'[u][kind].day = now.day /\ acts'[u][kind].n = 1 /\ stamp'[u][kind] = now.day
      BY <1>4, <1>5, <2>1
    <3>2. QED
      BY <2>1, <3>1
  <2>3. QED
    BY <1>3, <1>4, <1>5, <2>1, <2>2
<1>7. OthersKept(u) /\ Drives'
  BY <1>1, <1>2, <1>5 DEF OthersKept, Drives, FiresOnFinal
<1>8. Moves(p, u, "done", 1) /\ "done" \in Places
  BY <1>0, <1>1, GoesMoves DEF Places
<1>9. ASSUME had'[u] # None PROVE Served(u)'
  <2>1. Served(u) /\ now = clock /\ had'[u] = had[u]
    BY <1>1, <1>2, <1>9
  <2>2. /\ \A q \in Proc, place \in Places :
               /\ At(q, u, place) => q = p /\ At(p, u, place) /\ tick[p].at[u] = place
               /\ At(q, u, place)' <=> q = p /\ place = "done"
        /\ \A q \in Proc : tick'[q] # None => q = p
        /\ tick'[p].now = now
    BY <1>1, <1>8, MovedAt
  <2>3. \/ At(p, u, "probing")
        \/ At(p, u, "post") /\ ~ At(p, u, "probing")
    BY <1>1 DEF At
  <2>4. /\ armed'[u] /\ (\E q \in Proc : up'[q] = "up")
        /\ \A q \in Proc : tick'[q] # None => tick'[q].now = clock'
    BY <1>1, <2>1, <2>2 DEF Served
  <2>5. tick[p].at[u] \in {"probing", "post"}
    BY <2>3 DEF At
  <2>6. InWindow(clock) /\ ticked => had'[u] = 1..Keys[u]
    BY <2>1, <2>2, <2>5 DEF Served, Places
  <2>7. CASE kind = "probe"
    <3>1. acts'[u]["probe"] = [day |-> clock.day, n |-> 1]
      BY <1>5, <2>1, <2>7
    <3>2. KindDue(clock) = "recap" /\ ticked => stamp[u]["recap"] = clock.day
      BY <2>1, <2>2, <2>5 DEF Served, Places
    <3>3. /\ InWindow(clock)' = InWindow(clock) /\ KindDue(clock)' = KindDue(clock)
          /\ Slot(clock)' = Slot(clock)
      BY <1>1 DEF InWindow, KindDue, Trades, Slot
    <3>4. QED
      BY <1>1, <2>4, <2>6, <3>1, <3>2, <3>3 DEF Served
  <2>8. CASE kind # "probe"
    <3>1. acts'[u]["probe"] = acts[u]["probe"] /\ tick[p].at[u] = "post"
      BY <1>4, <1>5, <2>3, <2>8 DEF At, Kinds
    <3>2. /\ Week[clock.day].nights /\ Slot(clock) = "night" /\ ticked =>
               acts[u]["probe"] = [day |-> clock.day, n |-> 1]
          /\ stamp[u]["probe"] = clock.day => acts[u]["probe"] = [day |-> clock.day, n |-> 1]
          /\ KindDue(clock) = "recap" /\ ticked => stamp[u]["recap"] = clock.day
      BY <2>1, <2>2, <3>1 DEF Served, Places
    <3>3. /\ InWindow(clock)' = InWindow(clock) /\ KindDue(clock)' = KindDue(clock)
          /\ Slot(clock)' = Slot(clock)
      BY <1>1 DEF InWindow, KindDue, Trades, Slot
    <3>4. QED
      BY <1>1, <2>4, <2>6, <3>1, <3>2, <3>3 DEF Served
  <2>9. QED
    BY <2>7, <2>8
<1>10. "done" # "probing" /\ "done" # "notify" /\ "done" # "post"
  OBVIOUS
<1>11. /\ (mem'[p][u] # None => mem'[p][u] = stamp'[u]["probe"])
       /\ (stamp'[u]["probe"] = clock.day => Slot(clock) = "night")
       /\ \A q \in Proc \ {p} : mem'[q] = mem[q]
       /\ (had'[u] # None => had'[u] \subseteq 1..Keys[u])
  BY <1>1, <1>2, <1>3
<1>12. /\ mem' \in [Proc -> [User -> {None} \cup 0..Len(Week)]]
       /\ stamp' \in [User -> [Kinds -> 0..Len(Week)]]
       /\ drive' \in {None} \cup [day : 1..Len(Week), bars : [day : 1..Len(Week), final : BOOLEAN]]
       /\ fired' \in {None} \cup [day : 1..Len(Week), final : BOOLEAN]
       /\ had' \in [User -> {None} \cup SUBSET Nat]
       /\ UNCHANGED <<clock, up, holder, ticked, armed, toggles>>
  BY <1>1, <1>2
<1> HIDE DEF now
<1>13. QED
  BY <1>1, <1>2, <1>5, <1>6, <1>7, <1>8, <1>9, <1>10, <1>11, <1>12, ServeKeeps DEF now
\* Notify: the day's stamp, then the post.
LEMMA NotifyKeeps ==
  ASSUME IInv, NEW p \in Proc, NEW u \in User, Notify(p, u)
  PROVE  IInv'
<1> DEFINE now == tick[p].now
           kind == KindDue(now)
<1>0. TypeOK
  BY DEF IInv
<1>1. /\ At(p, u, "notify") /\ tick[p] # None /\ tick[p].at[u] = "notify"
      /\ UNCHANGED <<clock, up, holder, ticked, mem, armed, drive, fired, had, acts, toggles>>
  BY DEF Notify, At, history
<1>2. /\ mem \in [Proc -> [User -> {None} \cup 0..Len(Week)]]
      /\ stamp \in [User -> [Kinds -> 0..Len(Week)]]
      /\ drive \in {None} \cup [day : 1..Len(Week), bars : [day : 1..Len(Week), final : BOOLEAN]]
      /\ fired \in {None} \cup [day : 1..Len(Week), final : BOOLEAN]
      /\ had \in [User -> {None} \cup SUBSET Nat]
      /\ acts \in [User -> [Kinds -> [day : 0..Len(Week), n : Nat]]]
      /\ (had[u] # None => had[u] \subseteq 1..Keys[u] /\ Served(u) /\ now = clock)
      /\ Drives /\ 1 <= Keys[u] /\ 1 \in Nat \ {0} /\ now \in Time
  BY <1>1, Facts
<1>3. /\ \A k \in Kinds : /\ acts[u][k].day <= stamp[u][k] /\ acts[u][k].n <= 1
                         /\ stamp[u][k] <= now.day
      /\ (mem[p][u] # None => mem[p][u] = stamp[u]["probe"])
      /\ (stamp[u]["probe"] = clock.day => Slot(clock) = "night")
  BY <1>1, Facts
<1>4. /\ kind \in {"premarket", "recap"} /\ kind \in Kinds /\ kind # None
      /\ now.day \in 1..Len(Week) /\ now.day \in 0..Len(Week) /\ now.day \in Nat
  <2>1. kind # None
    BY <1>1 DEF IInv, Deeds
  <2>2. kind \in {None, "premarket", "recap"}
    BY DEF KindDue
  <2>3. now.day \in 1..Len(Week) /\ Len(Week) \in Nat
    BY <1>2, SlotFacts, WeekFacts
  <2> HIDE DEF now, kind
  <2>4. now.day \in 0..Len(Week) /\ now.day \in Nat
    BY <2>3
  <2>5. QED
    BY <2>1, <2>2, <2>3, <2>4 DEF Kinds
<1>5. \A l, k : Moves(p, u, l, k) =>
        /\ \A q \in Proc, place \in Places :
               /\ At(q, u, place) => q = p /\ place = "notify"
               /\ At(q, u, place)' <=> q = p /\ l = place
        /\ \A q \in Proc : tick'[q] # None => q = p
        /\ tick'[p].now = now
  BY <1>1, MovedAt
<1>6. /\ InWindow(clock)' = InWindow(clock) /\ KindDue(clock)' = KindDue(clock)
      /\ Slot(clock)' = Slot(clock) /\ Drives'
  BY <1>1, <1>2 DEF InWindow, KindDue, Trades, Slot, Drives, FiresOnFinal
<1>7. PICK l \in {"done", "post"} :
        /\ Goes(p, u, l)
        /\ \/ stamp[u][kind] = now.day /\ l = "done" /\ stamp' = stamp
           \/ stamp[u][kind] # now.day /\ stamp' = [stamp EXCEPT ![u][kind] = now.day]
  BY DEF Notify, Warning
<1>8. Moves(p, u, l, 1) /\ l \in Places
  BY <1>0, <1>1, <1>7, GoesMoves DEF Places
<1>9. /\ stamp' \in [User -> [Kinds -> 0..Len(Week)]] /\ stamp'[u][kind] = now.day
      /\ \A v \in User \ {u} : stamp'[v] = stamp[v]
      /\ \A k \in Kinds \ {kind} : stamp'[u][k] = stamp[u][k]
  <2>1. CASE stamp' = stamp /\ stamp[u][kind] = now.day
    BY <1>2, <2>1
  <2>2. CASE stamp' = [stamp EXCEPT ![u][kind] = now.day]
    <3> HIDE DEF now, kind
    <3>1. QED
      BY <1>2, <1>4, <2>2
  <2>3. QED
    BY <1>7, <2>1, <2>2
<1>10. \A k \in Kinds : /\ acts'[u][k].day <= stamp'[u][k] /\ acts'[u][k].n <= 1
                       /\ stamp'[u][k] <= now.day
  <2>1. acts[u][kind].day <= now.day /\ now.day <= now.day
    <3>1. acts[u][kind].day \in Nat /\ stamp[u][kind] \in Nat
      BY <1>2, <1>4, WeekFacts
    <3>2. QED
      BY <1>3, <1>4, <3>1
  <2>2. QED
    BY <1>1, <1>3, <1>9, <2>1
<1>11. l = "post" => acts'[u][kind].day < now.day
  <2>1. acts[u][kind].day \in Nat /\ stamp[u][kind] \in Nat
    BY <1>2, <1>4, WeekFacts
  <2>2. QED
    BY <1>1, <1>3, <1>4, <1>7, <2>1
<1>12. OthersKept(u)
  BY <1>1, <1>9 DEF OthersKept
<1>13. stamp'[u]["probe"] = stamp[u]["probe"]
  BY <1>4, <1>9 DEF Kinds
<1>14. ASSUME had'[u] # None PROVE Served(u)'
  <2>1. Served(u) /\ now = clock /\ had'[u] = had[u]
    BY <1>1, <1>2, <1>14
  <2>2. /\ armed'[u] /\ (\E q \in Proc : up'[q] = "up")
        /\ \A q \in Proc : tick'[q] # None => tick'[q].now = clock'
    BY <1>1, <1>5, <1>8, <2>1 DEF Served
  <2>3. InWindow(clock) /\ ticked => had'[u] = 1..Keys[u]
    BY <1>5, <1>8, <2>1 DEF Served, Places
  <2>4. Week[clock.day].nights /\ Slot(clock) = "night" /\ ticked =>
          acts[u]["probe"] = [day |-> clock.day, n |-> 1]
    BY <1>5, <1>8, <2>1 DEF Served, Places
  <2>5. stamp[u]["probe"] = clock.day => acts[u]["probe"] = [day |-> clock.day, n |-> 1]
    BY <1>5, <1>8, <2>1 DEF Served, Places
  <2>6. KindDue(clock) = "recap" => stamp'[u]["recap"] = clock.day
    BY <1>9, <2>1
  <2>7. QED
    BY <1>1, <1>6, <1>13, <2>2, <2>3, <2>4, <2>5, <2>6 DEF Served
<1>15. /\ (mem'[p][u] # None => mem'[p][u] = stamp'[u]["probe"])
       /\ (stamp'[u]["probe"] = clock.day => Slot(clock) = "night")
       /\ \A q \in Proc \ {p} : mem'[q] = mem[q]
       /\ (had'[u] # None => had'[u] \subseteq 1..Keys[u])
  BY <1>1, <1>2, <1>3, <1>13
<1>16. /\ mem' \in [Proc -> [User -> {None} \cup 0..Len(Week)]]
       /\ acts' \in [User -> [Kinds -> [day : 0..Len(Week), n : Nat]]]
       /\ drive' \in {None} \cup [day : 1..Len(Week), bars : [day : 1..Len(Week), final : BOOLEAN]]
       /\ fired' \in {None} \cup [day : 1..Len(Week), final : BOOLEAN]
       /\ had' \in [User -> {None} \cup SUBSET Nat]
       /\ UNCHANGED <<clock, up, holder, ticked, armed, toggles>>
  BY <1>1, <1>2
<1>17. l # "probing" /\ l # "notify" /\ kind # None /\ stamp'[u][kind] = now.day
  BY <1>4, <1>7, <1>9
<1> HIDE DEF now, kind
<1>18. QED
  BY <1>1, <1>2, <1>6, <1>8, <1>9, <1>10, <1>11, <1>12, <1>14, <1>15, <1>16, <1>17, ServeKeeps
     DEF now, kind
\* A step around the ticks: no stamp, no deed and no order, and a tick that begins begins now.
LEMMA ShellKeeps ==
  ASSUME IInv, UNCHANGED <<clock, stamp, acts, fired>>,
         up' \in [Proc -> {"new", "up", "stopping", "gone"}], holder' \in Proc \cup {None},
         tick' \in [Proc -> {None} \cup Tick],
         \A p \in Proc : tick'[p] # None =>
           \/ tick'[p] = tick[p]
           \/ /\ tick'[p].now = clock
              /\ \A u \in User : /\ tick'[p].key[u] <= Keys[u]
                                 /\ tick'[p].at[u] \notin {"probing", "post"}
                                 /\ tick'[p].at[u] = "notify" => KindDue(clock) # None,
         ticked' \in BOOLEAN, toggles' \in 0..MaxToggles, armed' \in [User -> BOOLEAN],
         mem' \in [Proc -> [User -> {None} \cup 0..Len(Week)]],
         drive' \in {None} \cup [day : 1..Len(Week),
                                 bars : [day : 1..Len(Week), final : BOOLEAN]],
         drive' # None => drive'.bars = [day |-> drive'.day, final |-> TRUE],
         had' \in [User -> {None} \cup SUBSET Nat], \A u \in User : had'[u] \in {None, had[u]},
         OneLoop', Memory', Windows'
  PROVE  IInv'
<1>0. TypeOK /\ Readings /\ Stamps /\ Deeds /\ Drives /\ Nights
  BY DEF IInv
<1>1. TypeOK'
  <2>1. \A p \in Proc : tick'[p] # None => \A u \in User : tick'[p].key[u] <= Keys[u]
    BY <1>0 DEF TypeOK
  <2>2. \A u \in User : had'[u] # None => had'[u] \subseteq 1..Keys[u]
    BY <1>0 DEF TypeOK
  <2>3. QED
    BY <1>0, <2>1, <2>2 DEF TypeOK
<1>2. Readings'
  BY <1>0 DEF Readings
<1>3. Stamps'
  <2>1. \A u \in User, k \in Kinds, p \in Proc : tick'[p] # None => stamp[u][k] <= tick'[p].now.day
    BY <1>0 DEF Stamps
  <2>2. QED
    BY <1>0, <2>1 DEF Stamps
<1>4. Deeds'
  <2> SUFFICES ASSUME NEW p \in Proc, NEW u \in User, tick'[p] # None
               PROVE  /\ At(p, u, "probing")' => Stamped(u, "probe", tick[p].now.day)'
                      /\ At(p, u, "notify")' => KindDue(tick[p].now)' # None
                      /\ At(p, u, "post")' => /\ KindDue(tick[p].now)' # None
                                              /\ Stamped(u, KindDue(tick[p].now), tick[p].now.day)'
    BY DEF Deeds, At
  <2>1. CASE tick'[p] = tick[p]
    <3>1. KindDue(tick[p].now)' = KindDue(tick[p].now)
      BY <2>1 DEF KindDue, Trades, Slot
    <3>2. /\ At(p, u, "probing")' = At(p, u, "probing") /\ At(p, u, "notify")' = At(p, u, "notify")
          /\ At(p, u, "post")' = At(p, u, "post")
      BY <2>1 DEF At
    <3>3. QED
      BY <1>0, <2>1, <3>1, <3>2 DEF Deeds, Stamped
  <2>2. CASE /\ tick'[p].now = clock
             /\ tick'[p].at[u] \notin {"probing", "post"}
             /\ tick'[p].at[u] = "notify" => KindDue(clock) # None
    <3>1. KindDue(tick[p].now)' = KindDue(clock)
      BY <2>2 DEF KindDue, Trades, Slot
    <3>2. QED
      BY <2>2, <3>1 DEF At
  <2>3. QED
    BY <2>1, <2>2
<1>5. Drives' /\ Nights'
  <2>1. Slot(clock)' = Slot(clock)
    BY DEF Slot
  <2>2. QED
    BY <1>0, <2>1 DEF Drives, FiresOnFinal, Nights
<1>6. QED
  BY <1>1, <1>2, <1>3, <1>4, <1>5 DEF IInv

\* Everything a step around the ticks may find.
LEMMA ShellFacts ==
  ASSUME IInv
  PROVE  /\ up \in [Proc -> {"new", "up", "stopping", "gone"}] /\ holder \in Proc \cup {None}
         /\ tick \in [Proc -> {None} \cup Tick] /\ ticked \in BOOLEAN /\ toggles \in 0..MaxToggles
         /\ armed \in [User -> BOOLEAN] /\ mem \in [Proc -> [User -> {None} \cup 0..Len(Week)]]
         /\ drive \in {None} \cup [day : 1..Len(Week),
                                   bars : [day : 1..Len(Week), final : BOOLEAN]]
         /\ (drive # None => drive.bars = [day |-> drive.day, final |-> TRUE])
         /\ had \in [User -> {None} \cup SUBSET Nat] /\ OneLoop /\ Memory /\ Windows
         /\ clock \in Time /\ Drives /\ None \notin Proc
  BY AutomationAssumption DEF IInv, TypeOK, Drives

\* A user nobody held up stays served when neither the ticks nor the up processes lose anything
\* he needs.
LEMMA StillServed ==
  ASSUME NEW u \in User, Served(u), UNCHANGED <<clock, stamp, acts, ticked>>,
         armed'[u] = armed[u], had'[u] = had[u],
         \A p \in Proc : up[p] = "up" => up'[p] = "up",
         \A p \in Proc : tick'[p] # None => tick'[p] = tick[p],
         \A p \in Proc : tick[p] # None => tick'[p] = tick[p] \/ tick[p].at[u] = "done"
  PROVE  Served(u)'
<1>1. \A p \in Proc : /\ At(p, u, "keys") => At(p, u, "keys")' /\ tick'[p].key[u] = tick[p].key[u]
                      /\ At(p, u, "probe") => At(p, u, "probe")'
                      /\ At(p, u, "probing") => At(p, u, "probing")'
                      /\ At(p, u, "notify") => At(p, u, "notify")'
  BY DEF At
<1>2. armed'[u] /\ (\E p \in Proc : up'[p] = "up")
  BY DEF Served
<1>3. \A p \in Proc : tick'[p] # None => tick'[p].now = clock'
  BY DEF Served
<1>4. /\ InWindow(clock)' = InWindow(clock) /\ KindDue(clock)' = KindDue(clock)
      /\ Slot(clock)' = Slot(clock)
  BY DEF InWindow, KindDue, Trades, Slot
<1>5. InWindow(clock)' /\ ticked' =>
        \/ had'[u] = 1..Keys[u]
        \/ \E p \in Proc : At(p, u, "keys")' /\ 1..(tick'[p].key[u] - 1) \subseteq had'[u]
  BY <1>1, <1>4 DEF Served
<1>6. Week[clock'.day].nights /\ Slot(clock)' = "night" /\ ticked' =>
        \/ acts'[u]["probe"] = [day |-> clock'.day, n |-> 1]
        \/ \E p \in Proc : At(p, u, "probe")' \/ At(p, u, "probing")'
  BY <1>1, <1>4 DEF Served
<1>7. stamp'[u]["probe"] = clock'.day =>
        \/ acts'[u]["probe"] = [day |-> clock'.day, n |-> 1]
        \/ \E p \in Proc : At(p, u, "probing")'
  BY <1>1 DEF Served
<1>8. KindDue(clock)' = "recap" /\ ticked' =>
        \/ stamp'[u]["recap"] = clock'.day
        \/ \E p \in Proc : At(p, u, "keys")' \/ At(p, u, "notify")'
  BY <1>1, <1>4 DEF Served
<1>9. QED
  BY <1>2, <1>3, <1>5, <1>6, <1>7, <1>8 DEF Served

\* Looks, and a step that changes nothing.
LEMMA LooksKeeps ==
  ASSUME IInv, Looks \/ UNCHANGED vars
  PROVE  IInv'
<1>1. UNCHANGED <<clock, up, holder, tick, ticked, mem, stamp, armed, fired, had, acts, toggles>>
  BY DEF Looks, vars, history
<1>2. /\ drive' \in {None} \cup [day : 1..Len(Week), bars : [day : 1..Len(Week), final : BOOLEAN]]
      /\ drive' # None => drive'.bars = [day |-> drive'.day, final |-> TRUE]
  BY ShellFacts, DriveFacts DEF Looks, vars
<1>3. OneLoop' /\ Memory'
  BY <1>1, ShellFacts DEF OneLoop, Memory, Running
<1>4. Windows'
  BY <1>1, ShellFacts, StillServed DEF Windows
<1>5. QED
  BY <1>1, <1>2, <1>3, <1>4, ShellFacts, ShellKeeps
\* A process comes and goes: it holds the lock while it runs, and what it knew goes with it.
LEMMA StartsKeeps ==
  ASSUME IInv, NEW p \in Proc, Starts(p)
  PROVE  IInv'
<1>1. /\ up[p] = "new" /\ holder = None /\ holder' = p /\ up' = [up EXCEPT ![p] = "up"]
      /\ UNCHANGED <<clock, tick, ticked, mem, stamp, armed, drive, fired, had, acts, toggles>>
  BY DEF Starts, Acquires, history
<1>2. up' \in [Proc -> {"new", "up", "stopping", "gone"}] /\ up'[p] = "up"
      /\ \A q \in Proc \ {p} : up'[q] = up[q]
  BY <1>1, ShellFacts
<1>3. \A q \in Proc : ~ Running(q) /\ tick[q] = None
  BY <1>1, ShellFacts DEF OneLoop
<1>4. OneLoop' /\ Memory'
  BY <1>1, <1>2, <1>3, ShellFacts DEF OneLoop, Memory, Running
<1>5. \A u \in User : had[u] = None
  BY <1>3, ShellFacts DEF Windows, Served, Running
<1>6. Windows'
  BY <1>1, <1>5 DEF Windows
<1>7. QED
  BY <1>1, <1>2, <1>4, <1>6, ShellFacts, ShellKeeps

\* The process's end keeps the invariant.
LEMMA StopsKeeps ==
  ASSUME IInv, NEW p \in Proc, Stops(p)
  PROVE  IInv'
<1>1. /\ up[p] = "up" /\ up' = [up EXCEPT ![p] = "stopping"] /\ HeldUp(User)
      /\ UNCHANGED <<clock, holder, tick, ticked, mem, stamp, armed, drive, fired, acts, toggles>>
  BY DEF Stops
<1>2. up' \in [Proc -> {"new", "up", "stopping", "gone"}]
      /\ \A q \in Proc : Running(q)' <=> Running(q)
  BY <1>1, ShellFacts DEF Running
<1>3. had' \in [User -> {None} \cup SUBSET Nat] /\ \A u \in User : had'[u] = None
  BY <1>1 DEF HeldUp
<1>4. OneLoop' /\ Memory' /\ Windows'
  BY <1>1, <1>2, <1>3, ShellFacts DEF OneLoop, Memory, Windows
<1>5. QED
  BY <1>1, <1>2, <1>3, <1>4, ShellFacts, ShellKeeps

\* Exits and Crashes release the lock and forget.
LEMMA GoneKeeps ==
  ASSUME IInv, NEW p \in Proc, Exits(p) \/ Crashes(p)
  PROVE  IInv'
<1>1. /\ Running(p) /\ up' = [up EXCEPT ![p] = "gone"] /\ Releases(p)
      /\ mem' = [mem EXCEPT ![p] = [u \in User |-> None]] /\ drive' = None
      /\ UNCHANGED <<clock, ticked, stamp, armed, fired, acts, toggles>>
      /\ \/ up[p] = "stopping" /\ tick[p] = None /\ tick' = tick /\ had' = had
         \/ HeldUp(User) /\ tick' = [tick EXCEPT ![p] = None]
  BY DEF Exits, Crashes, Running, Forgets, history
<1>2. /\ up' \in [Proc -> {"new", "up", "stopping", "gone"}] /\ up'[p] = "gone"
      /\ \A q \in Proc \ {p} : up'[q] = up[q]
      /\ mem' \in [Proc -> [User -> {None} \cup 0..Len(Week)]] /\ \A u \in User : mem'[p][u] = None
      /\ \A q \in Proc \ {p} : mem'[q] = mem[q]
      /\ tick' \in [Proc -> {None} \cup Tick] /\ tick'[p] = None
      /\ \A q \in Proc \ {p} : tick'[q] = tick[q]
  BY <1>1, ShellFacts
<1>3. \A q \in Proc : ~ Running(q)' /\ tick'[q] = None
  <2>1. ~ Running(p)'
    BY <1>2 DEF Running
  <2>2. ASSUME NEW q \in Proc \ {p} PROVE ~ Running(q)' /\ tick[q] = None
    BY <1>1, <1>2, ShellFacts DEF OneLoop, Running
  <2>3. QED
    BY <1>2, <2>1, <2>2
<1>4. OneLoop' /\ holder' \in Proc \cup {None}
  BY <1>1, <1>3, ShellFacts DEF OneLoop, Releases
<1>5. Memory'
  <2>1. ASSUME NEW q \in Proc \ {p}, NEW u \in User PROVE mem'[q][u] = None
    BY <1>1, <1>2, ShellFacts DEF Memory, OneLoop
  <2>2. QED
    BY <1>2, <2>1 DEF Memory
<1>6. /\ had' \in [User -> {None} \cup SUBSET Nat] /\ \A u \in User : had'[u] = None
  <2>1. CASE HeldUp(User)
    BY <2>1 DEF HeldUp
  <2>2. CASE up[p] = "stopping" /\ had' = had
    <3>1. \A q \in Proc : up[q] # "up"
      BY <1>1, <2>2, ShellFacts DEF OneLoop, Running
    <3>2. QED
      BY <2>2, <3>1, ShellFacts DEF Windows, Served
  <2>3. QED
    BY <1>1, <2>1, <2>2
<1>7. Windows'
  BY <1>6 DEF Windows
<1>8. QED
  BY <1>1, <1>2, <1>3, <1>4, <1>5, <1>6, <1>7, ShellFacts, ShellKeeps

\* Arming keeps the invariant.
LEMMA ArmsKeeps ==
  ASSUME IInv, NEW u \in User, Arms(u)
  PROVE  IInv'
<1>1. /\ toggles < MaxToggles /\ toggles' = toggles + 1 /\ armed' = [armed EXCEPT ![u] = ~ @]
      /\ HeldUp({u})
      /\ UNCHANGED <<clock, up, holder, tick, ticked, mem, stamp, drive, fired, acts>>
  BY DEF Arms
<1>2. toggles' \in 0..MaxToggles
  BY <1>1, ShellFacts, AutomationAssumption
<1>3. armed' \in [User -> BOOLEAN] /\ \A v \in User \ {u} : armed'[v] = armed[v]
  BY <1>1, ShellFacts
<1>4. had' \in [User -> {None} \cup SUBSET Nat] /\ had'[u] = None
      /\ \A v \in User \ {u} : had'[v] = had[v]
  BY <1>1, ShellFacts DEF HeldUp
<1>5. OneLoop' /\ Memory'
  BY <1>1, ShellFacts DEF OneLoop, Memory, Running
<1>6. Windows'
  <2>1. ASSUME NEW v \in User, had'[v] # None PROVE Served(v)'
    <3>1. v # u /\ Served(v)
      BY <1>4, <2>1, ShellFacts DEF Windows
    <3>2. QED
      BY <1>1, <1>3, <1>4, <3>1, StillServed
  <2>2. QED
    BY <2>1 DEF Windows
<1>7. QED
  BY <1>1, <1>2, <1>3, <1>4, <1>5, <1>6, ShellFacts, ShellKeeps

\* The tick's end keeps the invariant.
LEMMA TickEndsKeeps ==
  ASSUME IInv, NEW p \in Proc, TickEnds(p)
  PROVE  IInv'
<1>1. /\ tick[p] # None /\ (\A u \in User : tick[p].at[u] = "done")
      /\ tick' = [tick EXCEPT ![p] = None]
      /\ UNCHANGED <<clock, up, holder, ticked, mem, stamp, armed, drive, fired, had, acts, toggles>>
  BY DEF TickEnds, history
<1>2. /\ tick' \in [Proc -> {None} \cup Tick] /\ tick'[p] = None
      /\ \A q \in Proc \ {p} : tick'[q] = tick[q]
  BY <1>1, ShellFacts
<1>3. OneLoop' /\ Memory'
  BY <1>1, <1>2, ShellFacts DEF OneLoop, Memory, Running
<1>4. Windows'
  BY <1>1, <1>2, ShellFacts, StillServed DEF Windows
<1>5. QED
  BY <1>1, <1>2, <1>3, <1>4, ShellFacts, ShellKeeps

\* A tick begins with a place for every user: his keys, the probe, or the notification.
LEMMA TicksKeeps ==
  ASSUME IInv, NEW p \in Proc, Ticks(p)
  PROVE  IInv'
<1> DEFINE at == [u \in User |-> IF armed[u] /\ InWindow(clock) THEN "keys"
                                 ELSE IF armed[u] /\ Slot(clock) = "night" THEN "probe"
                                 ELSE Last(clock)]
           new == [now |-> clock, at |-> at, key |-> [u \in User |-> 1]]
<1>1. /\ up[p] = "up" /\ tick[p] = None /\ tick' = [tick EXCEPT ![p] = new] /\ ticked' = TRUE
      /\ UNCHANGED <<clock, up, holder, mem, stamp, armed, drive, fired, had, acts, toggles>>
  BY DEF Ticks, history
<1>2. /\ new \in Tick /\ new.now = clock /\ new # None
      /\ \A u \in User : /\ new.key[u] = 1 /\ new.key[u] <= Keys[u]
                         /\ new.at[u] = IF armed[u] /\ InWindow(clock) THEN "keys"
                                        ELSE IF armed[u] /\ Slot(clock) = "night" THEN "probe"
                                        ELSE Last(clock)
                         /\ new.at[u] \notin {"probing", "post"}
                         /\ new.at[u] = "notify" => KindDue(clock) # None
  <2>1. \A u \in User : /\ at[u] \in {"keys", "probe", "notify", "done"}
                        /\ at[u] = "notify" => KindDue(clock) # None
    BY DEF Last
  <2>2. clock \in Time /\ \A u \in User : Keys[u] \in Nat \ {0}
    BY ShellFacts, AutomationAssumption
  <2>3. new \in Tick
    BY <2>1, <2>2 DEF Tick, Places
  <2>4. new # None
    BY <2>3, AutomationAssumption
  <2>5. new.now = clock /\ \A u \in User : new.key[u] = 1 /\ new.at[u] = at[u]
    OBVIOUS
  <2>6. \A u \in User : at[u] = IF armed[u] /\ InWindow(clock) THEN "keys"
                               ELSE IF armed[u] /\ Slot(clock) = "night" THEN "probe"
                               ELSE Last(clock)
    OBVIOUS
  <2>7. \A u \in User : 1 <= Keys[u]
    BY <2>2
  <2> HIDE DEF new, at
  <2>8. QED
    BY <2>1, <2>3, <2>4, <2>5, <2>6, <2>7
<1> HIDE DEF new
<1>3. /\ tick' \in [Proc -> {None} \cup Tick] /\ tick'[p] = new
      /\ \A q \in Proc \ {p} : tick'[q] = tick[q]
  BY <1>1, <1>2, ShellFacts
<1>4. \A q \in Proc : tick[q] = None
  BY <1>1, ShellFacts DEF OneLoop, Running
<1>5. OneLoop' /\ Memory'
  BY <1>1, <1>3, ShellFacts DEF OneLoop, Memory, Running
<1>6. Windows'
  <2> SUFFICES ASSUME NEW u \in User, had[u] # None PROVE Served(u)'
    BY <1>1 DEF Windows
  <2>1. Served(u) /\ armed[u] /\ clock \in Time
    BY ShellFacts DEF Windows, Served
  <2>2. armed'[u] /\ (\E q \in Proc : up'[q] = "up")
    BY <1>1, <2>1
  <2>3. \A q \in Proc : tick'[q] # None => tick'[q].now = clock'
    BY <1>1, <1>2, <1>3, <1>4
  <2>4. ASSUME InWindow(clock)
        PROVE  At(p, u, "keys")' /\ 1..(tick'[p].key[u] - 1) \subseteq had'[u]
    <3>1. At(p, u, "keys")'
      BY <1>2, <1>3, <2>1, <2>4 DEF At
    <3>2. 1..(tick'[p].key[u] - 1) = {}
      BY <1>2, <1>3
    <3>3. QED
      BY <3>1, <3>2
  <2>5. ASSUME Slot(clock) = "night" PROVE At(p, u, "probe")'
    <3>1. ~ InWindow(clock)
      BY <2>5 DEF InWindow
    <3>2. QED
      BY <1>2, <1>3, <2>1, <2>5, <3>1 DEF At
  <2>6. stamp[u]["probe"] = clock.day => acts[u]["probe"] = [day |-> clock.day, n |-> 1]
    BY <1>4, <2>1 DEF Served, At
  <2>7. KindDue(clock) = "recap" => InWindow(clock)
    BY <2>1, SlotFacts, AutomationAssumption DEF KindDue, InWindow, Kinds
  <2>8. /\ InWindow(clock)' = InWindow(clock) /\ KindDue(clock)' = KindDue(clock)
        /\ Slot(clock)' = Slot(clock)
    BY <1>1 DEF InWindow, KindDue, Trades, Slot
  <2>9. QED
    BY <1>1, <2>2, <2>3, <2>4, <2>5, <2>6, <2>7, <2>8 DEF Served
<1>7. QED
  BY <1>1, <1>2, <1>3, <1>5, <1>6, ShellFacts, ShellKeeps
\* The next window: the day's deeds are forgotten with the day, but for the night's probe.
LEMMA PassesKeeps ==
  ASSUME IInv, Passes
  PROVE  IInv'
<1>0. TypeOK /\ OneLoop /\ Readings /\ Memory /\ Stamps /\ Deeds /\ Drives /\ Nights
  BY DEF IInv
<1>1. /\ clock' = Later /\ Later \in Time /\ ticked' = FALSE
      /\ (\A p \in Proc : tick[p] # None => tick[p].now = clock)
      /\ had' = [u \in User |-> IF armed[u] /\ \E p \in Proc : up[p] = "up" /\ tick[p] = None
                                THEN {} ELSE None]
      /\ fired' = IF Later.day = clock.day THEN fired ELSE None
      /\ acts' = IF Later.day = clock.day THEN acts
                 ELSE [u \in User |-> [Undone EXCEPT !["probe"] = acts[u]["probe"]]]
      /\ UNCHANGED <<up, holder, tick, mem, stamp, armed, drive, toggles>>
  BY DEF Passes
<1>2. clock \in Time /\ clock' \in Time /\ clock' = Following(clock)
  BY <1>0, <1>1, FollowingFacts DEF TypeOK
<1>3. /\ clock.day \in Nat \ {0} /\ clock'.day \in Nat \ {0} /\ clock.slot \in 1..6
      /\ \/ clock.slot # 6 /\ clock'.day = clock.day
         \/ clock.slot = 6 /\ clock'.day = clock.day + 1
  <2>1. clock.day \in 1..Len(Week) /\ clock'.day \in 1..Len(Week) /\ clock.slot \in 1..6
    BY <1>2, SlotFacts
  <2>2. clock.slot < 6 \/ clock.slot = 6
    BY <2>1
  <2>3. clock.slot < 6 => clock'.day = clock.day
    BY <1>2, FollowingFacts
  <2>4. clock.slot = 6 => clock'.day = clock.day + 1
    BY <1>2, FollowingFacts
  <2>5. QED
    BY <2>1, <2>2, <2>3, <2>4, WeekFacts
<1>4. /\ acts' \in [User -> [Kinds -> [day : 0..Len(Week), n : Nat]]]
      /\ \A u \in User, k \in Kinds : acts'[u][k] \in {acts[u][k], [day |-> 0, n |-> 0]}
      /\ \A u \in User : acts'[u]["probe"] = acts[u]["probe"]
  <2>1. acts \in [User -> [Kinds -> [day : 0..Len(Week), n : Nat]]]
    BY <1>0 DEF TypeOK
  <2>2. CASE Later.day = clock.day
    BY <1>1, <2>1, <2>2
  <2>3. CASE Later.day # clock.day
    <3>1. acts' = [u \in User |-> [Undone EXCEPT !["probe"] = acts[u]["probe"]]]
      BY <1>1, <2>3
    <3>2. [day |-> 0, n |-> 0] \in [day : 0..Len(Week), n : Nat]
      BY WeekFacts
    <3>3. /\ Undone \in [Kinds -> [day : 0..Len(Week), n : Nat]] /\ "probe" \in Kinds
          /\ \A k \in Kinds : Undone[k] = [day |-> 0, n |-> 0]
      BY <3>2 DEF Undone, Kinds
    <3>4. QED
      BY <2>1, <3>1, <3>3
  <2>4. QED
    BY <2>2, <2>3
<1>5. /\ had' \in [User -> {None} \cup SUBSET Nat] /\ \A u \in User : had'[u] \in {None, {}}
      /\ \A u \in User : had'[u] # None =>
           armed[u] /\ \E p \in Proc : up[p] = "up" /\ tick[p] = None
  BY <1>1
<1>6. TypeOK'
  <2>1. \A u \in User : had'[u] # None => had'[u] \subseteq 1..Keys[u]
    BY <1>5
  <2>2. ticked' \in BOOLEAN
    BY <1>1
  <2>3. fired' \in {None} \cup [day : 1..Len(Week), final : BOOLEAN]
    BY <1>0, <1>1 DEF TypeOK
  <2>4. QED
    BY <1>0, <1>1, <1>2, <1>4, <1>5, <2>1, <2>2, <2>3 DEF TypeOK
<1>7. OneLoop' /\ Memory' /\ Readings'
  BY <1>0, <1>1, <1>2 DEF OneLoop, Memory, Readings, Running
<1>8. Stamps'
  <2> SUFFICES ASSUME NEW u \in User, NEW k \in Kinds
               PROVE  /\ acts'[u][k].day <= stamp[u][k] /\ acts'[u][k].n <= 1
                      /\ stamp[u][k] <= clock'.day
                      /\ \A p \in Proc : tick[p] # None => stamp[u][k] <= tick[p].now.day
    BY <1>1 DEF Stamps
  <2>1. stamp[u][k] \in Nat
    BY <1>0, WeekFacts DEF TypeOK
  <2>2. /\ acts[u][k].day <= stamp[u][k] /\ acts[u][k].n <= 1 /\ stamp[u][k] <= clock.day
        /\ \A p \in Proc : tick[p] # None => stamp[u][k] <= tick[p].now.day
    BY <1>0 DEF Stamps
  <2>3. acts'[u][k].day <= stamp[u][k] /\ acts'[u][k].n <= 1
    BY <1>4, <2>1, <2>2
  <2>4. stamp[u][k] <= clock'.day
    BY <1>3, <2>1, <2>2
  <2>5. QED
    BY <2>2, <2>3, <2>4
<1>9. Deeds'
  <2> SUFFICES ASSUME NEW p \in Proc, NEW u \in User, tick[p] # None
               PROVE  /\ At(p, u, "probing") =>
                           stamp[u]["probe"] = tick[p].now.day /\ acts'[u]["probe"].day < tick[p].now.day
                      /\ At(p, u, "notify") => KindDue(tick[p].now) # None
                      /\ At(p, u, "post") =>
                           LET k == KindDue(tick[p].now) IN
                           k # None /\ stamp[u][k] = tick[p].now.day /\ acts'[u][k].day < tick[p].now.day
    <3>1. \A q \in Proc : KindDue(tick[q].now)' = KindDue(tick[q].now)
      BY <1>1 DEF KindDue, Trades, Slot
    <3>2. \A q \in Proc, v \in User : /\ At(q, v, "probing")' = At(q, v, "probing")
                                     /\ At(q, v, "notify")' = At(q, v, "notify")
                                     /\ At(q, v, "post")' = At(q, v, "post")
      BY <1>1 DEF At
    <3>3. QED
      BY <1>1, <3>1, <3>2 DEF Deeds, Stamped, At
  <2>1. At(p, u, "probing") => /\ stamp[u]["probe"] = tick[p].now.day
                               /\ acts'[u]["probe"].day < tick[p].now.day
    BY <1>0, <1>4 DEF Deeds, Stamped
  <2>2. At(p, u, "notify") => KindDue(tick[p].now) # None
    BY <1>0 DEF Deeds
  <2>3. ASSUME At(p, u, "post")
        PROVE  LET k == KindDue(tick[p].now) IN
               k # None /\ stamp[u][k] = tick[p].now.day /\ acts'[u][k].day < tick[p].now.day
    <3> DEFINE k == KindDue(tick[p].now)
    <3>1. k # None /\ stamp[u][k] = tick[p].now.day /\ acts[u][k].day < tick[p].now.day
      BY <1>0, <2>3 DEF Deeds, Stamped
    <3>2. k \in {None, "premarket", "recap"}
      BY DEF KindDue
    <3>3. k \in Kinds
      BY <3>1, <3>2 DEF Kinds
    <3>4. tick[p].now = clock
      BY <1>1
    <3> HIDE DEF k
    <3>5. 0 < tick[p].now.day
      BY <1>3, <3>4
    <3>6. acts'[u][k].day < tick[p].now.day
      BY <1>4, <3>1, <3>3, <3>5
    <3>7. QED
      BY <3>1, <3>6 DEF k
  <2>4. QED
    BY <2>1, <2>2, <2>3
<1>10. \A u \in User : stamp[u]["probe"] # clock'.day
  <2> SUFFICES ASSUME NEW u \in User, stamp[u]["probe"] = clock'.day PROVE FALSE
    OBVIOUS
  <2>1. stamp[u]["probe"] <= clock.day
    BY <1>0 DEF Stamps, Kinds
  <2>2. clock'.day = clock.day /\ clock.slot # 6
    BY <1>3, <2>1
  <2>3. Slot(clock) = "night"
    BY <1>0, <2>2 DEF Nights
  <2>4. QED
    BY <1>2, <2>2, <2>3, SlotFacts
<1>11. Drives'
  <2>1. FiresOnFinal'
    BY <1>0, <1>1 DEF Drives, FiresOnFinal
  <2>2. QED
    BY <1>0, <1>1, <2>1 DEF Drives
<1>12. Nights'
  BY <1>1, <1>10 DEF Nights
<1>13. Windows'
  <2> SUFFICES ASSUME NEW u \in User, had'[u] # None PROVE Served(u)'
    BY DEF Windows
  <2>1. PICK p \in Proc : up[p] = "up" /\ tick[p] = None
    BY <1>5
  <2>2. \A q \in Proc : tick[q] = None
    BY <1>0, <2>1 DEF OneLoop, Running
  <2>3. armed[u]
    BY <1>5
  <2>4. QED
    BY <1>1, <1>10, <2>1, <2>2, <2>3 DEF Served
<1>14. QED
  BY <1>6, <1>7, <1>8, <1>9, <1>11, <1>12, <1>13 DEF IInv

\* Every step keeps the invariant.
LEMMA NextInv == IInv /\ [Next]_vars => IInv'
<1> SUFFICES ASSUME IInv, [Next]_vars PROVE IInv'
  OBVIOUS
<1>1. ASSUME NEW p \in Proc, NEW u \in User, Serves(p, u) PROVE IInv'
  BY <1>1, RunsKeyKeeps, KeyFailsKeeps, ProbeKeeps, DeedKeeps, NotifyKeeps DEF Serves
<1>2. CASE Passes
  BY <1>2, PassesKeeps
<1>3. CASE Looks \/ UNCHANGED vars
  BY <1>3, LooksKeeps
<1>4. CASE Runs
  BY <1>1, <1>4, GoneKeeps, TickEndsKeeps DEF Runs
<1>5. CASE \E u \in User : Arms(u)
  BY <1>5, ArmsKeeps
<1>6. CASE \E p \in Proc : Starts(p) \/ Stops(p) \/ Crashes(p) \/ Ticks(p)
  BY <1>6, StartsKeeps, StopsKeeps, GoneKeeps, TicksKeeps
<1>7. QED
  BY <1>2, <1>3, <1>4, <1>5, <1>6 DEF Next

\* The inductive invariant holds in every state.
LEMMA Invariance == Spec => []IInv
<1>1. QED
  BY InitInv, NextInv, PTL DEF Spec
-----------------------------------------------------------------------------
(* The theorems.                                                            *)

\* One loop per data directory, each night's probe and each day's message at most once across
\* restarts and crashes, and no order on a range that was still forming.
THEOREM LoopHolds == Spec => []Inv
<1>1. IInv => Inv
  BY DEF IInv, Stamps, OncePerDay, Drives, Inv
<1>2. QED
  BY <1>1, Invariance, PTL

\* The user nobody held up gets all of a window's work, whatever the others' keys do.
THEOREM WindowIsServed == Spec => WindowsServed
<1>1. IInv /\ [Next]_vars =>
        [clock' # clock /\ (\A p \in Proc : tick[p] = None) =>
           \A u \in User : had[u] # None =>
             /\ InWindow(clock) => had[u] = 1..Keys[u]
             /\ Week[clock.day].nights /\ Slot(clock) = "night" =>
                  acts[u]["probe"] = [day |-> clock.day, n |-> 1]
             /\ KindDue(clock) = "recap" => stamp[u]["recap"] = clock.day]_vars
  <2> SUFFICES ASSUME IInv, [Next]_vars, clock' # clock, \A p \in Proc : tick[p] = None,
                      NEW u \in User, had[u] # None
               PROVE  /\ InWindow(clock) => had[u] = 1..Keys[u]
                      /\ Week[clock.day].nights /\ Slot(clock) = "night" =>
                           acts[u]["probe"] = [day |-> clock.day, n |-> 1]
                      /\ KindDue(clock) = "recap" => stamp[u]["recap"] = clock.day
    OBVIOUS
  <2>1. Served(u)
    BY DEF IInv, Windows
  <2>a. \A p \in Proc, u2 \in User : ~ Serves(p, u2)
    BY DEF Serves, RunsKey, KeyGone, KeyRaises, Probe, Probes, Notify, Posts, At
  <2>b. \A p \in Proc : ~ Exits(p) /\ ~ TickEnds(p)
    BY DEF Exits, TickEnds
  <2>c. \A v \in User : ~ Arms(v)
    BY DEF Arms
  <2>d. \A p \in Proc : ~ (Starts(p) \/ Stops(p) \/ Crashes(p) \/ Ticks(p))
    BY DEF Starts, Stops, Crashes, Ticks
  <2>e. Passes
    BY <2>a, <2>b, <2>c, <2>d DEF Next, Looks, Runs, vars
  <2>2. \A p \in Proc : up[p] = "up" => ticked
    BY <2>e DEF Passes
  <2>3. ticked
    BY <2>1, <2>2 DEF Served
  <2>4. QED
    BY <2>1, <2>3 DEF Served, At
<1>2. QED
  BY <1>1, Invariance, PTL DEF Spec, WindowsServed
=============================================================================
