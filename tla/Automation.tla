----------------------------- MODULE Automation -----------------------------
(***************************************************************************)
(* The server's automation loop (services/automation.py): behind the lock  *)
(* on the data directory, a tick every half minute serves all users at     *)
(* once - each one's session over his keys, the nightly bracket probe and  *)
(* the daily notifications - and ends with the slowest of them.  A tick    *)
(* reads the clock once; what it does later it does by that reading.       *)
(*                                                                         *)
(* The clock is abstracted to the windows the code tells apart: "pre"      *)
(* (premarket), "form" (09:43-09:45, ticking while the range forms),       *)
(* "entry" (09:45 and the entry grace), "late" (to 11:30, past the grace,  *)
(* with the recap), "eve" (past the session's rollover) and "night".       *)
(* A session is abstracted to whether a key was given its pass, whether it *)
(* traded and on which reading of the drive: Session has the rest.         *)
(***************************************************************************)
EXTENDS Naturals, Sequences, FiniteSets

CONSTANTS
  Proc,       \* server processes, in the order they are started; a bound
  User,       \* login users
  Keys,       \* how many credentials each user has
  Week,       \* for each day whether it trades and whether its night does
  None,       \* nothing held, read or running
  MaxToggles, \* bound: switches of auto_execute
  Until       \* bound: the window the last day ends with

Slots == <<"pre", "form", "entry", "late", "eve", "night">>
Time == [day : 1..Len(Week), slot : 1..Len(Slots)]
Kinds == {"probe", "premarket", "recap"}
\* Where a user's part of a tick is.
Places == {"keys", "probe", "probing", "notify", "post", "done"}
Tick == [now : Time, at : [User -> Places], key : [User -> Nat \ {0}]]

ASSUME AutomationAssumption ==
  /\ Keys \in [User -> Nat \ {0}] /\ Proc \subseteq Nat /\ MaxToggles \in Nat /\ Until \in Nat
  /\ Week \in Seq([trades : BOOLEAN, nights : BOOLEAN]) /\ Len(Week) > 0
  /\ None \notin Proc /\ None \notin Kinds /\ None \notin Tick

VARIABLES
  clock,    \* the day and the window it is in
  up,       \* each process: "new", "up", "stopping" or "gone"
  holder,   \* who holds tophat.lock
  tick,     \* each process's running tick: its reading, its users' places
  ticked,   \* whether a tick began in this window
  mem,      \* _probe_done of each process
  stamp,    \* the stamps on disk: oco_probe.json and notify_state.json
  armed,    \* auto_execute of each user
  drive,    \* _DRIVE_CACHE
  fired,    \* history: the drive today's latest order was placed on
  had,      \* history: each user's keys given their pass in this window, None
            \* once anything of his own or of the server's held him up
  acts,     \* history: how often each kind was done for its latest day
  toggles   \* switches of auto_execute so far

vars == <<clock, up, holder, tick, ticked, mem, stamp, armed, drive, fired,
          had, acts, toggles>>
history == <<had, acts>>

Slot(t) == Slots[t.slot]
Trades(t) == Week[t.day].trades

InWindow(t) == Trades(t) /\ Slot(t) \in {"form", "entry", "late"}
ProbeDue(t, last) == last # t.day /\ Week[t.day].nights /\ Slot(t) = "night"
\* The trading day is the next one once the session has rolled over.
RolledOver(t) == Slot(t) \in {"eve", "night"}

\* What the history keeps of a day: the night's probe, which a tick may finish
\* past midnight; the ticks that post messages have ended by then.
Undone == [k \in Kinds |-> [day |-> 0, n |-> 0]]

Init ==
  /\ clock = [day |-> 1, slot |-> 1]
  /\ up = [p \in Proc |-> "new"]
  /\ holder = None
  /\ tick = [p \in Proc |-> None]
  /\ ticked = FALSE
  /\ mem = [p \in Proc |-> [u \in User |-> None]]
  /\ stamp = [u \in User |-> [k \in Kinds |-> 0]]
  /\ armed = [u \in User |-> TRUE]
  /\ drive = None
  /\ fired = None
  /\ had = [u \in User |-> None]
  /\ acts = [u \in User |-> Undone]
  /\ toggles = 0
-----------------------------------------------------------------------------
\* Processes.

HeldUp(users) == had' = [u \in User |-> IF u \in users THEN None ELSE had[u]]

Running(p) == up[p] \in {"up", "stopping"}

\* The advisory lock on tophat.lock, held for the process's life.
Acquires(p) == holder = None /\ holder' = p
Releases(p) == holder' = IF holder = p THEN None ELSE holder

\* lifespan: the lock comes first, and whoever does not get it does not start.
Starts(p) ==
  /\ up[p] = "new" /\ \A q \in Proc : q < p => up[q] # "new"
  /\ Acquires(p)
  /\ up' = [up EXCEPT ![p] = "up"]
  /\ UNCHANGED <<clock, tick, ticked, mem, stamp, armed, drive, fired, history,
                 toggles>>

\* Mutant: shutdown releases the lock before the tick has ended.
StopsUnlocked(p) ==
  /\ up[p] = "up"
  /\ holder' = None
  /\ up' = [up EXCEPT ![p] = "stopping"]
  /\ HeldUp(User)
  /\ UNCHANGED <<clock, tick, ticked, mem, stamp, armed, drive, fired,
                 acts, toggles>>

\* Shutdown lets the running tick end before the lock is released.
Stops(p) ==
  /\ up[p] = "up"
  /\ up' = [up EXCEPT ![p] = "stopping"]
  /\ HeldUp(User)
  /\ UNCHANGED <<clock, holder, tick, ticked, mem, stamp, armed, drive, fired,
                 acts, toggles>>

\* What a process knew goes with it: the nights probed and the drive.
Forgets(p) ==
  /\ mem' = [mem EXCEPT ![p] = [u \in User |-> None]]
  /\ drive' = None

Exits(p) ==
  /\ up[p] = "stopping" /\ tick[p] = None
  /\ up' = [up EXCEPT ![p] = "gone"]
  /\ Releases(p)
  /\ Forgets(p)
  /\ UNCHANGED <<clock, tick, ticked, stamp, armed, fired, history,
                 toggles>>

\* The operating system releases a dead process's lock.
Crashes(p) ==
  /\ Running(p)
  /\ up' = [up EXCEPT ![p] = "gone"]
  /\ Releases(p)
  /\ tick' = [tick EXCEPT ![p] = None]
  /\ Forgets(p)
  /\ HeldUp(User)
  /\ UNCHANGED <<clock, ticked, stamp, armed, fired, acts, toggles>>

\* The operator switches his automation off or on.
Arms(u) ==
  /\ toggles < MaxToggles
  /\ toggles' = toggles + 1
  /\ armed' = [armed EXCEPT ![u] = ~ @]
  /\ HeldUp({u})
  /\ UNCHANGED <<clock, up, holder, tick, ticked, mem, stamp, drive, fired,
                 acts>>

\* The loop sleeps at most to the next entry time, so a window does not pass
\* without a tick unless one is still running; that one outlives one window's
\* end at most.
Later ==
  IF clock.slot < Len(Slots) THEN [clock EXCEPT !.slot = @ + 1]
  ELSE [day |-> clock.day + 1, slot |-> 1]

Passes ==
  /\ Later \in Time
  /\ clock.day = Len(Week) => Later.slot <= Until
  /\ \A p \in Proc :
       /\ up[p] = "up" => ticked
       /\ tick[p] # None => tick[p].now = clock
  /\ clock' = Later
  /\ ticked' = FALSE
  /\ had' = [u \in User |->
       IF armed[u] /\ \E p \in Proc : up[p] = "up" /\ tick[p] = None
         THEN {} ELSE None]
  /\ fired' = IF Later.day = clock.day THEN fired ELSE None
  /\ acts' = IF Later.day = clock.day THEN acts
             ELSE [u \in User |-> [Undone EXCEPT !["probe"] = acts[u]["probe"]]]
  /\ UNCHANGED <<up, holder, tick, mem, stamp, armed, drive, toggles>>
-----------------------------------------------------------------------------
\* Ticks.

KindDue(now) ==
  IF ~ Trades(now) THEN None
  ELSE IF Slot(now) = "pre" THEN "premarket"
  ELSE IF Slot(now) = "late" THEN "recap" ELSE None

\* A user's tick ends with the notification that may be due.
Last(now) == IF KindDue(now) = None THEN "done" ELSE "notify"

\* One task per user; his settings decide what the tick is for him.
Ticks(p) ==
  /\ up[p] = "up" /\ tick[p] = None
  /\ tick' = [tick EXCEPT ![p] =
       [now |-> clock,
        at |-> [u \in User |->
                  IF armed[u] /\ InWindow(clock) THEN "keys"
                  ELSE IF armed[u] /\ Slot(clock) = "night" THEN "probe"
                  ELSE Last(clock)],
        key |-> [u \in User |-> 1]]]
  /\ ticked' = TRUE
  /\ UNCHANGED <<clock, up, holder, mem, stamp, armed, drive, fired, history,
                 toggles>>

\* gather has every user's result, an exception being one of them.
TickEnds(p) ==
  /\ tick[p] # None
  /\ \A u \in User : tick[p].at[u] = "done"
  /\ tick' = [tick EXCEPT ![p] = None]
  /\ UNCHANGED <<clock, up, holder, ticked, mem, stamp, armed, drive, fired,
                 history, toggles>>

At(p, u, place) == tick[p] # None /\ tick[p].at[u] = place
Put(p, u, place, key) ==
  tick' = [tick EXCEPT ![p] = [now |-> tick[p].now,
                               at |-> [tick[p].at EXCEPT ![u] = place],
                               key |-> [tick[p].key EXCEPT ![u] = key]]]
Goes(p, u, place) == Put(p, u, place, 1)

NextKey(p, u) ==
  IF tick[p].key[u] < Keys[u] THEN Put(p, u, "keys", tick[p].key[u] + 1)
  ELSE Put(p, u, Last(tick[p].now), 1)

\* _drive by a reading `now` of the clock.  The bars are those of the moment
\* they are asked for; before 09:45 they are shown but not kept.
Bars == [day |-> clock.day, final |-> Slot(clock) # "form"]
CachedFor(now) == drive # None /\ ~ RolledOver(now) /\ drive.day = now.day
Drive(now) ==
  IF RolledOver(now) THEN None
  ELSE IF CachedFor(now) THEN drive.bars
  ELSE IF Slot(clock) = "pre" \/ ~ Trades(clock) THEN None ELSE Bars
\* Mutant: the drive of a forming range is kept.
LocksAlways(now) == TRUE


Locks(now) == Slot(now) \notin {"pre", "form"}
DriveAfter(now) ==
  IF Drive(now) # None /\ Locks(now) THEN [day |-> now.day, bars |-> Drive(now)]
  ELSE drive

\* One key's session.  It fires what is due by the tick's reading, on a drive
\* that is not flat; it may also have nothing to do.
RunsKey(p, u) ==
  /\ At(p, u, "keys")
  /\ LET now == tick[p].now
         due == Slot(now) = "entry" /\ armed[u] /\ Drive(now) # None IN
     /\ drive' \in {drive, DriveAfter(now)}
     /\ \/ due /\ drive' = DriveAfter(now) /\ fired' = Drive(now)
        \/ UNCHANGED fired
     /\ had' = IF had[u] = None \/ now # clock THEN had
               ELSE [had EXCEPT ![u] = @ \cup {tick[p].key[u]}]
  /\ NextKey(p, u)
  /\ UNCHANGED <<clock, up, holder, ticked, mem, stamp, armed, acts,
                 toggles>>

\* A key without a broker is passed over; one whose account list fails ends
\* this user's tick, his later keys, probe and notification included.
KeyGone(p, u) ==
  /\ At(p, u, "keys")
  /\ NextKey(p, u)
  /\ HeldUp({u})
  /\ UNCHANGED <<clock, up, holder, ticked, mem, stamp, armed, drive, fired,
                 acts, toggles>>

\* Mutant: gather without return_exceptions.
KeyRaisesAll(p, u) ==
  /\ At(p, u, "keys")
  /\ tick' = [tick EXCEPT ![p].at = [v \in User |-> "done"]]
  /\ HeldUp({u})
  /\ UNCHANGED <<clock, up, holder, ticked, mem, stamp, armed, drive, fired,
                 acts, toggles>>


\* Mutant: an exception nobody collects.
KeyRaisesLost(p, u) ==
  /\ At(p, u, "keys")
  /\ Goes(p, u, "raised")
  /\ HeldUp({u})
  /\ UNCHANGED <<clock, up, holder, ticked, mem, stamp, armed, drive, fired,
                 acts, toggles>>


KeyRaises(p, u) ==
  /\ At(p, u, "keys")
  /\ Goes(p, u, "done")
  /\ HeldUp({u})
  /\ UNCHANGED <<clock, up, holder, ticked, mem, stamp, armed, drive, fired,
                 acts, toggles>>

\* Mutant: the night is remembered, not saved.
ProbeUnsaved(p, u) ==
  /\ At(p, u, "probe")
  /\ LET day == tick[p].now.day
         last == IF mem[p][u] = None THEN stamp[u]["probe"] ELSE mem[p][u] IN
     IF ProbeDue(tick[p].now, last)
       THEN /\ mem' = [mem EXCEPT ![p][u] = day]
            /\ UNCHANGED stamp
            /\ Goes(p, u, "probing")
       ELSE /\ mem' = [mem EXCEPT ![p][u] = last]
            /\ Goes(p, u, "done")
            /\ UNCHANGED stamp
  /\ UNCHANGED <<clock, up, holder, ticked, armed, drive, fired, history,
                 toggles>>

\* The stamp is taken from disk once per process, which alone writes it, and
\* saved before the probe.
Probe(p, u) ==
  /\ At(p, u, "probe")
  /\ LET day == tick[p].now.day
         last == IF mem[p][u] = None THEN stamp[u]["probe"] ELSE mem[p][u] IN
     IF ProbeDue(tick[p].now, last)
       THEN /\ mem' = [mem EXCEPT ![p][u] = day]
            /\ stamp' = [stamp EXCEPT ![u]["probe"] = day]
            /\ Goes(p, u, "probing")
       ELSE /\ mem' = [mem EXCEPT ![p][u] = last]
            /\ Goes(p, u, "done")
            /\ UNCHANGED stamp
  /\ UNCHANGED <<clock, up, holder, ticked, armed, drive, fired, history,
                 toggles>>

Done(u, kind, day) ==
  acts' = [acts EXCEPT ![u][kind] =
    [day |-> day, n |-> IF @.day = day THEN @.n + 1 ELSE 1]]

\* A failing probe is logged and counts as done.
Probes(p, u) ==
  /\ At(p, u, "probing")
  /\ Done(u, "probe", tick[p].now.day)
  /\ Goes(p, u, "done")
  /\ UNCHANGED <<clock, up, holder, ticked, mem, stamp, armed, drive, fired,
                 had, toggles>>

\* The premarket check posts if the user is not armed or his copier box is
\* silent or in trouble.
Warning(u) == IF armed[u] THEN {"done", "post"} ELSE {"post"}

\* The day's stamp is saved before the post: a failing webhook costs the day's
\* message.
Notify(p, u) ==
  /\ At(p, u, "notify")
  /\ LET now == tick[p].now
         kind == KindDue(now) IN
     IF stamp[u][kind] = now.day THEN Goes(p, u, "done") /\ UNCHANGED stamp
     ELSE /\ stamp' = [stamp EXCEPT ![u][kind] = now.day]
          /\ \E place \in IF kind = "premarket" THEN Warning(u) ELSE {"post"} :
               Goes(p, u, place)
  /\ UNCHANGED <<clock, up, holder, ticked, mem, armed, drive, fired, history,
                 toggles>>

Posts(p, u) ==
  /\ At(p, u, "post")
  /\ Done(u, KindDue(tick[p].now), tick[p].now.day)
  /\ Goes(p, u, "done")
  /\ UNCHANGED <<clock, up, holder, ticked, mem, stamp, armed, drive, fired,
                 had, toggles>>

\* A dashboard build asks for the drive by the wall clock.
Looks ==
  /\ holder # None
  /\ drive' = DriveAfter(clock)
  /\ UNCHANGED <<clock, up, holder, tick, ticked, mem, stamp, armed, fired,
                 history, toggles>>

Serves(p, u) ==
  \/ RunsKey(p, u) \/ KeyGone(p, u) \/ KeyRaises(p, u)
  \/ Probe(p, u) \/ Probes(p, u) \/ Notify(p, u) \/ Posts(p, u)

\* What the event loop does by itself; every call in it times out.
Runs == \E p \in Proc : Exits(p) \/ TickEnds(p) \/ \E u \in User : Serves(p, u)

Next ==
  \/ Passes \/ Looks \/ Runs
  \/ \E u \in User : Arms(u)
  \/ \E p \in Proc : Starts(p) \/ Stops(p) \/ Crashes(p) \/ Ticks(p)

Spec == Init /\ [][Next]_vars /\ WF_vars(Runs)
-----------------------------------------------------------------------------
\* Properties.

\* Every process, tick, stamp and cache is what the code can have made of it.
TypeOK ==
  /\ clock \in Time
  /\ up \in [Proc -> {"new", "up", "stopping", "gone"}]
  /\ holder \in Proc \cup {None}
  /\ tick \in [Proc -> {None} \cup Tick]
  /\ \A p \in Proc : tick[p] # None => \A u \in User : tick[p].key[u] <= Keys[u]
  /\ ticked \in BOOLEAN
  /\ toggles \in 0..MaxToggles
  /\ mem \in [Proc -> [User -> {None} \cup 0..Len(Week)]]
  /\ stamp \in [User -> [Kinds -> 0..Len(Week)]]
  /\ armed \in [User -> BOOLEAN]
  /\ drive \in {None} \cup [day : 1..Len(Week),
                            bars : [day : 1..Len(Week), final : BOOLEAN]]
  /\ fired \in {None} \cup [day : 1..Len(Week), final : BOOLEAN]
  /\ had \in [User -> {None} \cup SUBSET Nat]
  /\ \A u \in User : had[u] # None => had[u] \subseteq 1..Keys[u]
  /\ acts \in [User -> [Kinds -> [day : 0..Len(Week), n : Nat]]]

\* Two loops never serve one data directory, not even while one is shutting
\* down or has just crashed (store/single_instance.py:1-8).
OneLoop ==
  \A p \in Proc :
    /\ Running(p) => holder = p
    /\ tick[p] # None => Running(p)

\* A user's accounts are probed at most once a night and each message is posted
\* at most once a day, across restarts and crashes ("so a server restart after
\* the probe can't re-probe", oco_probe.py:63; "a mid-morning deploy restart
\* can't double-post", daily_notify.py:21).
OncePerDay == \A u \in User : \A kind \in Kinds : acts[u][kind].n <= 1

\* A key trades on the day's finished opening range, whatever was looked up
\* while it was forming ("must NEVER be cached", service.py:119-121).
FiresOnFinal ==
  fired # None => fired = [day |-> clock.day, final |-> TRUE]

\* In every state: well-formed stamps and caches, one loop, each message once,
\* orders on the finished range.
Inv == TypeOK /\ OneLoop /\ OncePerDay /\ FiresOnFinal

\* No window ends without its work for a user whom nothing held up: the server
\* ran, he was armed, his keys did not fail and no tick ran across its ends.
\* Whatever happens to the others is not among these reasons, but for the
\* slowest of them, who makes the tick run on.
WindowsServed ==
  [][clock' # clock /\ (\A p \in Proc : tick[p] = None) =>
       \A u \in User : had[u] # None =>
         /\ InWindow(clock) => had[u] = 1..Keys[u]
         /\ Week[clock.day].nights /\ Slot(clock) = "night" =>
              acts[u]["probe"] = [day |-> clock.day, n |-> 1]
         /\ KindDue(clock) = "recap" => stamp[u]["recap"] = clock.day]_vars

\* Every tick ends, and with it a shutdown: no key, however it fails, stops the
\* loop ("never let the loop die", automation.py:182).
TicksReturn == []<>(\A p \in Proc : tick[p] = None /\ up[p] # "stopping")
=============================================================================
