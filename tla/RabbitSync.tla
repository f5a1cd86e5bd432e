------------------------------ MODULE RabbitSync ------------------------------
(***************************************************************************)
(* TopHat Rabbit's loop (rabbit/rabbit.py) against the hosted server: the  *)
(* server cannot call the box, so "Sync now" and an approved plan set a    *)
(* flag the box polls (store/boxes.py, the tc-* routes of server/app.py);  *)
(* beside it the box applies once a night and retries a server that is not *)
(* ready.  Requests and answers get lost, the box crashes and restarts     *)
(* with its state file, the operator acts at any moment.                   *)
(*                                                                         *)
(* tc_apply.run is one step with the outcomes module TcApply gives it.     *)
(* The plan and Tradecopia's account rows are version numbers: what the    *)
(* operator applied last, what the copier shows now.  Time is counted in   *)
(* retry intervals.  What a report books is module Mirrors; heartbeats and *)
(* last_result are only displayed.  Names TcApply has too start with Loop. *)
(***************************************************************************)
EXTENDS Integers

CONSTANTS
  DayLength,  \* retry intervals per day
  ApplyAt,    \* apply_at, as an interval of the day
  MaxRetries, \* max_retries
  Losses,     \* which messages get lost: "request", "answer"
  MaxTime, MaxPlan, MaxAsks, MaxFaults, MaxRows,   \* bounds
  Nil

ASSUME RabbitSyncAssumption ==
  /\ DayLength \in Nat \ {0} /\ ApplyAt \in 0..(DayLength - 1) /\ MaxRetries \in Nat
  /\ Losses \subseteq {"request", "answer"} /\ Nil \notin Nat
  /\ Nil \notin {"manual", "scheduled", "retry", "applied", "noop", "aborted", "rolled_back",
                  "pullfail", "gave-up"}
  /\ MaxTime \in Nat /\ MaxPlan \in Nat /\ MaxAsks \in Nat /\ MaxFaults \in Nat /\ MaxRows \in Nat

VARIABLES
  now,
  flag, plan, ready, paired,         \* server: sync_requested, the applied plan, exportable, token valid
  file,                              \* box: rabbit_state.json
  phase, at, trigger, desired, status,  \* box: the loop's locals
  live,                              \* the plan Tradecopia is arranged by
  accountRows, guarded,              \* its account rows; its schema is the one the box's guard names
  reported,                          \* server: the account rows it was told last
  owed,      \* history: a request no pull has met yet, made while the box was "idle" or "busy"
  night,     \* history: tonight's scheduled apply: "none", "open", "answered", "cut" (crash, exception)
  retries,   \* history: refused retry pulls since the last scheduled cycle
  lost,      \* history: those a crash cut off before the loop saved its state
  must,      \* history: the rows the last cycle found, 0 when its report was cut off
  asks, faults

serverVars == <<flag, plan, ready, paired>>
boxVars == <<file, phase, at, trigger, desired, status>>
copier == <<live, accountRows, guarded>>
history == <<owed, night, retries, lost>>
observed == <<reported, must>>
loopVars == <<now, serverVars, boxVars, copier, observed, history, asks, faults>>

File == [sched : Nat \cup {Nil}, next : Nat \cup {Nil}, count : Nat]
Day(t) == t \div DayLength

Fault == faults < MaxFaults /\ faults' = faults + 1
\* The server knows the box's token: every tc-* route answers 401 otherwise.
verify == paired

\* One HTTP request: reached = the server handled it, answered = the box got the answer.
Call(reached, answered) ==
  \/ reached /\ answered /\ verify /\ UNCHANGED faults
  \/ ~reached /\ ~answered /\ ~verify /\ UNCHANGED faults
  \/ ~reached /\ ~answered /\ verify /\ "request" \in Losses /\ Fault
  \/ reached /\ ~answered /\ verify /\ "answer" \in Losses /\ Fault

\* The cycle ends here without a word; only an armed retry will come back to the night.
Cut == night' = IF night = "open" /\ file.next = Nil THEN "cut" ELSE night

DisarmedCount(f) == [f EXCEPT !.count = 0]
Disarmed(f) == [f EXCEPT !.next = Nil, !.count = 0]

------------------------------------------------------------------------------
(* The box                                                                  *)

ScheduledDue == at % DayLength >= ApplyAt /\ file.sched # Day(at)
RetryDue == file.next # Nil /\ at >= file.next

ManualByDay(answered) == answered /\ flag /\ at % DayLength < ApplyAt
Manual(answered) == answered /\ flag
clear_sync(reached) == flag' = (flag /\ ~reached)
PolledConsumes(reached) == clear_sync(reached)
\* The tc-poll route reports the request and leaves it for the pull.
Polled(reached) == UNCHANGED flag

\* The tc-desired and tc-status routes clear it (clear_sync) when they are reached.
Consumed(reached) == clear_sync(reached)
Settled(reached) == clear_sync(reached)

Wake ==
  /\ phase = "asleep"
  /\ at' = now /\ phase' = "poll"
  /\ UNCHANGED <<now, serverVars, file, trigger, desired, status, copier, observed, history, asks, faults>>

\* poll_flag, and the choice of this cycle's trigger; the night is stamped before it is served.
Poll ==
  /\ phase = "poll"
  /\ \E reached, answered \in BOOLEAN :
       /\ Call(reached, answered)
       /\ Polled(reached)
       /\ LET manual == Manual(answered)
              due    == ~manual /\ ScheduledDue
              again  == ~manual /\ ~due /\ RetryDue
          IN  /\ trigger' = IF manual THEN "manual" ELSE IF due THEN "scheduled"
                            ELSE IF again THEN "retry" ELSE Nil
              /\ file' = IF due THEN Disarmed([file EXCEPT !.sched = Day(at)]) ELSE file
              /\ night' = IF due THEN "open" ELSE night
              /\ retries' = IF due THEN 0 ELSE retries
              /\ lost' = IF due THEN 0 ELSE lost
              /\ phase' = IF manual \/ due \/ again THEN "pull" ELSE "asleep"
  /\ UNCHANGED <<now, plan, ready, paired, at, desired, status, copier, observed, owed, asks>>

AfterRefusalBlind == IF trigger = "manual" THEN "post" ELSE "settle"
\* A refused pull is followed by a report like any other.
AfterRefusal == "observe"

\* pull_desired against the tc-desired route, which consumes the request before it looks further.
Pull ==
  /\ phase = "pull"
  /\ \E reached, answered \in BOOLEAN :
       /\ Call(reached, answered)
       /\ Consumed(reached)
       /\ owed' = IF reached THEN "no" ELSE owed
       /\ IF answered /\ ready
          THEN desired' = plan /\ phase' = "apply" /\ UNCHANGED <<status, retries>>
          ELSE /\ desired' = Nil
               /\ retries' = IF trigger = "retry" THEN retries + 1 ELSE retries
               /\ status' = IF trigger = "manual" THEN "pullfail" ELSE Nil
               /\ phase' = AfterRefusal
  /\ must' = accountRows
  /\ UNCHANGED <<now, plan, ready, paired, file, at, trigger, copier, reported, night, lost, asks>>

\* tc_apply.run: it may also raise, and then neither the status nor the state is written.
Apply ==
  /\ phase = "apply"
  /\ \/ /\ guarded /\ live' = desired
        /\ status' = IF live = desired THEN "noop" ELSE "applied"
        /\ phase' = "observe" /\ UNCHANGED <<night, must, faults>>
     \/ /\ ~guarded /\ status' = "aborted"
        /\ phase' = "observe" /\ UNCHANGED <<live, night, must, faults>>
     \/ /\ Fault
        /\ status' \in {"aborted", "rolled_back"}
        /\ phase' = "observe" /\ UNCHANGED <<live, night, must>>
     \/ /\ Fault
        /\ status' = Nil /\ phase' = "asleep"
        /\ Cut /\ must' = 0
        /\ UNCHANGED live
  /\ UNCHANGED <<now, serverVars, file, at, trigger, desired, accountRows, guarded, reported, owed, retries, lost, asks>>

\* read_observed: nothing is read when the guard names another schema.
Observed == IF guarded THEN accountRows ELSE Nil

\* push_observed, whatever became of the pull; a failed read or post is only logged.
Observe ==
  /\ phase = "observe"
  /\ phase' = IF status = Nil THEN "settle" ELSE "post"
  /\ \/ /\ Observed # Nil
        /\ \E reached, answered \in BOOLEAN :
             /\ Call(reached, answered)
             /\ reported' = IF reached THEN Observed ELSE reported
             /\ must' = IF reached THEN must ELSE 0
     \/ Observed = Nil /\ must' = 0 /\ UNCHANGED <<reported, faults>>
  /\ UNCHANGED <<now, serverVars, file, at, trigger, desired, status, copier, history, asks>>

\* push_status against the tc-status route; a failure to post is only logged.
Post ==
  /\ phase = "post"
  /\ \E reached, answered \in BOOLEAN :
       /\ Call(reached, answered)
       /\ Settled(reached)
       /\ owed' = IF reached /\ status \in {"pullfail", "gave-up"} THEN "no" ELSE owed
  /\ phase' = "settle"
  /\ night' = IF status # "pullfail" /\ night = "open" THEN "answered" ELSE night
  /\ UNCHANGED <<now, plan, ready, paired, file, at, trigger, desired, status, copier, observed,
                 retries, lost, asks>>

ExhaustedLate == file.count > MaxRetries
Exhausted == file.count >= MaxRetries
GiveUpSilently == status' = Nil /\ phase' = "asleep" /\ file' = Disarmed(file)
\* The loud give-up goes out as a status of its own, before the state is saved.
GiveUp == status' = "gave-up" /\ phase' = "post" /\ UNCHANGED file

\* The end of a cycle, which saves the state: any status disarms the retry, a failed pull arms the
\* next one or gives up (a refused manual pull returned no status either, and arms nothing).
Settle ==
  /\ phase = "settle"
  /\ \/ /\ status # Nil
        /\ file' = IF status = "pullfail" THEN file ELSE Disarmed(file)
        /\ phase' = "asleep" /\ UNCHANGED status
     \/ /\ status = Nil /\ ~Exhausted
        /\ file' = [file EXCEPT !.count = @ + 1, !.next = at + 1]
        /\ phase' = "asleep" /\ UNCHANGED status
     \/ status = Nil /\ Exhausted /\ GiveUp
  /\ UNCHANGED <<now, serverVars, at, trigger, desired, copier, observed, history, asks, faults>>

\* A retry was refused and the state does not know it yet.
Refused == phase \in {"observe", "post", "settle"} /\ trigger = "retry" /\ status \in {Nil, "gave-up"}

\* The box restarts: the loop starts over with the file.
BoxCrash ==
  /\ phase # "asleep" /\ Fault
  /\ phase' = "asleep" /\ trigger' = Nil /\ desired' = Nil /\ status' = Nil
  /\ Cut /\ must' = 0
  /\ lost' = IF Refused THEN lost + 1 ELSE lost
  /\ UNCHANGED <<now, serverVars, file, at, copier, reported, owed, retries, asks>>

------------------------------------------------------------------------------
(* The operator, and time                                                   *)

Asked == owed' = IF phase \in {"apply", "observe", "post", "settle"} THEN "busy"
                 ELSE IF owed = "busy" THEN owed ELSE "idle"

\* The "Sync now" button (request_sync).
SyncNow ==
  /\ asks < MaxAsks /\ asks' = asks + 1
  /\ flag' = TRUE /\ Asked
  /\ UNCHANGED <<now, plan, ready, paired, boxVars, copier, observed, night, retries, lost, faults>>

\* Mark applied: the mirrors carry a new plan, exportable, and every box is asked to sync.
MarkApplied ==
  /\ plan < MaxPlan
  /\ plan' = plan + 1 /\ ready' = TRUE /\ flag' = TRUE /\ Asked
  /\ UNCHANGED <<now, paired, boxVars, copier, observed, night, retries, lost, asks, faults>>

\* Accounts change and the day's plan has unapplied lines again (409).
PlanOpens ==
  /\ ready /\ plan < MaxPlan
  /\ ready' = FALSE
  /\ UNCHANGED <<now, flag, plan, paired, boxVars, copier, observed, history, asks, faults>>

Revoke ==
  /\ paired /\ Fault
  /\ paired' = FALSE /\ flag' = FALSE /\ owed' = "no"
  /\ UNCHANGED <<now, plan, ready, boxVars, copier, observed, night, retries, lost, asks>>

\* Tradecopia shows another set of accounts.
RowsChange ==
  /\ accountRows < MaxRows /\ accountRows' = accountRows + 1
  /\ UNCHANGED <<now, serverVars, boxVars, live, guarded, observed, history, asks, faults>>

\* Tradecopia updates its schema; the operator names the new one in the box's config.
SchemaChanges ==
  /\ \/ guarded /\ Fault
     \/ ~guarded /\ UNCHANGED faults
  /\ guarded' = ~guarded
  /\ UNCHANGED <<now, serverVars, boxVars, live, accountRows, observed, history, asks>>

TimePasses ==
  /\ now < MaxTime
  /\ now' = now + 1
  /\ UNCHANGED <<serverVars, boxVars, copier, observed, history, asks, faults>>

LoopInit ==
  /\ now = 0
  /\ flag = FALSE /\ plan = 0 /\ ready \in BOOLEAN /\ paired = TRUE
  /\ file = [sched |-> Nil, next |-> Nil, count |-> 0]
  /\ phase = "asleep" /\ at = 0 /\ trigger = Nil /\ desired = Nil /\ status = Nil
  /\ live = 0 /\ accountRows = 0 /\ guarded = TRUE /\ reported = 0 /\ must = 0
  /\ owed = "no" /\ night = "none" /\ retries = 0 /\ lost = 0 /\ asks = 0 /\ faults = 0

Box == Wake \/ Poll \/ Pull \/ Apply \/ Observe \/ Post \/ Settle
LoopNext == Box \/ BoxCrash \/ SyncNow \/ MarkApplied \/ PlanOpens \/ Revoke \/ RowsChange
        \/ SchemaChanges \/ TimePasses

\* The loop never ends, and neither does time before its bound.
LoopFairness == WF_loopVars(Box) /\ WF_loopVars(TimePasses)
LoopSpec == LoopInit /\ [][LoopNext]_loopVars /\ LoopFairness
------------------------------------------------------------------------------
(* Properties                                                               *)

LoopTypeOK ==
  /\ now \in Nat /\ flag \in BOOLEAN /\ plan \in Nat /\ ready \in BOOLEAN /\ paired \in BOOLEAN
  /\ file \in File /\ phase \in {"asleep", "poll", "pull", "apply", "observe", "post", "settle"}
  /\ at \in Nat /\ trigger \in {Nil, "manual", "scheduled", "retry"} /\ desired \in Nat \cup {Nil}
  /\ status \in {Nil, "applied", "noop", "aborted", "rolled_back", "pullfail", "gave-up"}
  /\ live \in Nat /\ accountRows \in Nat /\ guarded \in BOOLEAN /\ reported \in Nat /\ must \in Nat
  /\ owed \in {"no", "idle", "busy"}
  /\ night \in {"none", "open", "answered", "cut"}
  /\ retries \in Nat /\ lost \in Nat /\ asks \in Nat /\ faults \in Nat

\* A request made while the box is between cycles stays flagged until a pull meets it or the
\* operator is told that pulling failed, through any losses and restarts.
RequestKept == owed = "idle" => flag

\* The same for every request, also one made while the box is applying an earlier plan.
RequestKeptAlways == owed # "no" => flag

\* A night that was stamped as scheduled and has no answer yet is still being worked on or has a
\* retry armed, unless a crash or an exception cut it short: no path of the loop drops it.
NightCovered ==
  night = "open" => phase \in {"pull", "apply", "observe", "post", "settle"} \/ file.next # Nil

\* A refused pull does not blind the server: after a cycle whose report was not cut off the server
\* knows the accounts that cycle found, so the operator can import them and the next pull may
\* succeed (the 2026-07-16 lockout: with the last mirror deleted every pull is refused).
NotBlinded == phase \in {"asleep", "poll"} => reported >= must

\* Retries are bounded: between two scheduled cycles never more than max_retries are refused, over
\* restarts and over manual cycles in between, and one more for each that a crash cut off before
\* the loop saved its state - the exhausted one too, whose give-up is posted before the save.
RetriesBounded == retries <= MaxRetries + lost

\* In every state: well-formed records, no request between cycles lost, no retry too many.
LoopInv == LoopTypeOK /\ RequestKept /\ RetriesBounded

\* An armed retry comes due and ends: in an apply, in the next one armed, at last in giving up.
RetriesEnd == \A t \in 1..MaxTime : file.next = t ~> file.next # t

\* A request reaches the box: the flag does not stay up for ever.
FlagMet == flag ~> (~flag \/ ~paired)

\* What was asked for and what was promised comes to an end: the flag and the armed retry.
LoopProgress == FlagMet /\ RetriesEnd
==============================================================================
