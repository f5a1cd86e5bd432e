------------------------------ MODULE Scheduler ------------------------------
(***************************************************************************)
(* The daily decorrelation scheduler (tophat/services/scheduler.py): which *)
(* accounts of one credential hold today's nuke and eval slots.            *)
(*                                                                         *)
(* assign_day runs on every automation tick, so the interesting behaviour  *)
(* is what repeated passes do within one day while accounts are            *)
(* liquidated, pass, are switched off or on, and while the operator edits  *)
(* the caps.  One pass (run_session's load_schedule .. save_schedule,      *)
(* serialised by the tenant's run lock) is one action here; a crash        *)
(* between the two is the subject of module Session.                       *)
(*                                                                         *)
(* Dates are natural numbers, 0 is the empty string of the code.  The caps *)
(* the operator may set are in NukeCaps and EvalCaps; MaxDay bounds the    *)
(* calendar and MaxTraded the days of an eval.                             *)
(***************************************************************************)
EXTENDS Integers, FiniteSets

CONSTANTS
  Account,    \* account ids; integers, the last sort key of every queue
  Owner,      \* credential owners (API keys) of the tenant
  OwnerOf,    \* the credential that lists each account
  NoOwner,    \* "no entry in slot_owner"
  MaxDay,     \* bound on the calendar
  NukeCaps, EvalCaps,  \* values the operator may give the two per-key caps
  DepthFirst, \* settings.eval_pipeline_depth_first
  StaggerTimes, \* number of settings.flip_stagger_times
  StartClass, \* classes accounts may have at the start
  MaxTraded   \* bound on days_traded of an eval

ASSUME AccountAssumption == Account \subseteq Int /\ IsFiniteSet(Account)
ASSUME OwnerAssumption   == OwnerOf \in [Account -> Owner] /\ NoOwner \notin Owner
ASSUME ParameterAssumption == /\ MaxDay \in Nat \ {0} /\ MaxTraded \in Nat
                              /\ NukeCaps \subseteq Nat /\ EvalCaps \subseteq Nat
                              /\ DepthFirst \in BOOLEAN /\ StaggerTimes \in Nat \ {0}
                              /\ StartClass \subseteq {"eval", "nuke", "flip", "terminal"}

VARIABLES
  day,             \* today, trading_day(now)
  max_nukes,       \* settings.max_nukes_per_day
  max_evals,       \* settings.max_evals_per_day
  class,           \* how assign_day classifies the account's AccountState
  tradeable,       \* enabled, canTrade, above the MLL floor: in `strategy`
  recovery,        \* nuke_tries_this_cycle >= 1
  days_traded,     \* AccountState.days_traded of an eval
  enabled_at,      \* registry entry, to the resolution of a day
  last_nuke_date,  \* ScheduleState.last_nuke_date
  last_eval_date,  \* ScheduleState.last_eval_date
  slot_owner,      \* ScheduleState.slot_owner
  fired,           \* last_fire_date = today: today's attempt was made
  cap_high         \* history: the highest value each cap had today

settings == <<max_nukes, max_evals>>
accounts == <<class, tradeable, recovery, days_traded, enabled_at>>
schedule == <<last_nuke_date, last_eval_date, slot_owner>>
vars == <<day, settings, accounts, schedule, fired, cap_high>>

Class  == {"eval", "nuke", "flip", "terminal"}

TypeOK ==
  /\ day \in Nat \ {0}
  /\ max_nukes \in Nat /\ max_evals \in Nat
  /\ class \in [Account -> Class]
  /\ tradeable \in [Account -> BOOLEAN]
  /\ recovery \in [Account -> BOOLEAN]
  /\ days_traded \in [Account -> Nat]
  /\ enabled_at \in [Account -> Nat]
  /\ last_nuke_date \in [Account -> Nat]
  /\ last_eval_date \in [Account -> Nat]
  /\ slot_owner \in [Account -> Owner \cup {NoOwner}]
  /\ fired \in [Account -> BOOLEAN]
  /\ cap_high \in [nukes : Nat, evals : Nat]

-----------------------------------------------------------------------------
(* The slot rule, the same for both kinds of slot.                         *)

\* Lexicographic order on the sort keys, tuples of integers of one length.
KeyLess(k, l) ==
  \E i \in DOMAIN k : k[i] < l[i] /\ \A j \in DOMAIN k : j < i => k[j] = l[j]

\* Mutant: recoveries queue with the others.
NukeKeyNoRecovery(a) == <<0, last_nuke_date[a], enabled_at[a], a>>

EvalKey(a) == <<IF DepthFirst THEN -days_traded[a] ELSE 0, last_eval_date[a], enabled_at[a], a>>
NukeKey(a) == <<IF recovery[a] THEN 0 ELSE 1, last_nuke_date[a], enabled_at[a], a>>

\* Mutant: a stamp does not keep its holder at the head.
AheadNoHolders(a, b, stamps, key) == KeyLess(key[a], key[b])

\* The order of the queue once accounts holding today's slot moved to its head.
Ahead(a, b, stamps, key) ==
  IF (stamps[a] = day) # (stamps[b] = day)
  THEN stamps[a] = day
  ELSE KeyLess(key[a], key[b])

\* Mutants: consumed slots are awarded again; other credentials' stamps count.
NoGhostSlots(stamps, cand, o) == 0
AllGhostSlots(stamps, cand, o) == Cardinality({a \in Account \ cand : stamps[a] = day})

\* Slots of o consumed today by accounts that are no longer candidates.
GhostSlots(stamps, cand, o) ==
  Cardinality({a \in Account \ cand :
                 stamps[a] = day /\ slot_owner[a] \in {o, NoOwner}})

Slots(cap, stamps, cand, o) ==
  LET ghosts == GhostSlots(stamps, cand, o)
  IN  IF cap < ghosts THEN 0 ELSE cap - ghosts

\* The head of the queue, as many accounts as there are slots.
Winners(cand, stamps, key, slots) ==
  {a \in cand : Cardinality({b \in cand : Ahead(b, a, stamps, key)}) < slots}

-----------------------------------------------------------------------------
(* What one pass reads and decides for credential o.                       *)

Fleet(o)          == {a \in Account : OwnerOf[a] = o /\ tradeable[a]}
Candidates(o, c)  == {a \in Fleet(o) : class[a] = c}

EvalWinners(o) ==
  LET cand == Candidates(o, "eval")
  IN  Winners(cand, last_eval_date, [a \in cand |-> EvalKey(a)],
              Slots(max_evals, last_eval_date, cand, o))

NukeWinners(o) ==
  LET cand == Candidates(o, "nuke")
  IN  Winners(cand, last_nuke_date, [a \in cand |-> NukeKey(a)],
              Slots(max_nukes, last_nuke_date, cand, o))

\* The action assign_day gives each account of its fleet; a flip is told apart
\* by its place in the stagger of entry times.
Assignment(o) ==
  LET ew    == EvalWinners(o)
      nw    == NukeWinners(o)
      flips == Candidates(o, "flip")
  IN  [a \in Fleet(o) |->
         CASE class[a] = "terminal" -> <<"terminal">>
           [] class[a] = "eval" -> IF a \in ew THEN <<"eval">> ELSE <<"idle">>
           [] class[a] = "nuke" -> IF a \in nw THEN <<"nuke">> ELSE <<"idle">>
           [] class[a] = "flip" ->
                <<"flip", Cardinality({b \in flips : b < a}) % StaggerTimes>>]

\* One pass stamps the winners; its other results are read at once (Session).
AssignDay(o) ==
  LET ew == EvalWinners(o)
      nw == NukeWinners(o)
  IN  /\ last_eval_date' = [a \in Account |-> IF a \in ew THEN day ELSE last_eval_date[a]]
      /\ last_nuke_date' = [a \in Account |-> IF a \in nw THEN day ELSE last_nuke_date[a]]
      /\ slot_owner' = [a \in Account |-> IF a \in ew \cup nw THEN o ELSE slot_owner[a]]
      /\ UNCHANGED <<day, settings, accounts, fired, cap_high>>

-----------------------------------------------------------------------------
(* What happens between passes.                                            *)

\* An account that won a slot makes its one attempt of the day, and the outcome
\* is booked by reconcile() or the MLL check (before or after it was delisted).
EvalResult(a) ==
  /\ class[a] = "eval" /\ last_eval_date[a] = day /\ ~fired[a]
  /\ \/ /\ days_traded[a] < MaxTraded
        /\ days_traded' = [days_traded EXCEPT ![a] = @ + 1]
        /\ UNCHANGED class
     \/ class' = [class EXCEPT ![a] = "terminal"] /\ UNCHANGED days_traded
  /\ fired' = [fired EXCEPT ![a] = TRUE]
  /\ UNCHANGED <<day, settings, tradeable, recovery, enabled_at, schedule, cap_high>>

NukeResult(a) ==
  /\ class[a] = "nuke" /\ last_nuke_date[a] = day /\ ~fired[a]
  /\ \/ class' = [class EXCEPT ![a] = "flip"] /\ UNCHANGED recovery
     \/ recovery' = [recovery EXCEPT ![a] = TRUE] /\ UNCHANGED class
     \/ class' = [class EXCEPT ![a] = "terminal"] /\ UNCHANGED recovery
  /\ fired' = [fired EXCEPT ![a] = TRUE]
  /\ UNCHANGED <<day, settings, tradeable, days_traded, enabled_at, schedule, cap_high>>

\* mark_payout into a nuke cycle: tries and the hit are reset.
Payout(a) ==
  /\ class[a] = "flip"
  /\ class' = [class EXCEPT ![a] = "nuke"]
  /\ recovery' = [recovery EXCEPT ![a] = FALSE]
  /\ UNCHANGED <<day, settings, tradeable, days_traded, enabled_at, schedule, fired, cap_high>>

\* Liquidated, delisted, below the floor, or switched off.
Leave(a) ==
  /\ tradeable[a]
  /\ tradeable' = [tradeable EXCEPT ![a] = FALSE]
  /\ UNCHANGED <<day, settings, class, recovery, days_traded, enabled_at, schedule, fired, cap_high>>

\* Listed again (enabled_at kept) or switched on (enabled_at = now).
Return(a) ==
  /\ ~tradeable[a]
  /\ tradeable' = [tradeable EXCEPT ![a] = TRUE]
  /\ \E t \in {enabled_at[a], day} : enabled_at' = [enabled_at EXCEPT ![a] = t]
  /\ UNCHANGED <<day, settings, class, recovery, days_traded, schedule, fired, cap_high>>

Larger(m, n) == IF m < n THEN n ELSE m

EditCaps(n, e) ==
  /\ max_nukes' = n /\ max_evals' = e
  /\ cap_high' = [nukes |-> Larger(cap_high.nukes, n), evals |-> Larger(cap_high.evals, e)]
  /\ UNCHANGED <<day, accounts, schedule, fired>>

\* trading_day(now) moves on.
NextDay ==
  /\ day < MaxDay
  /\ day' = day + 1
  /\ cap_high' = [nukes |-> max_nukes, evals |-> max_evals]
  /\ fired' = [a \in Account |-> FALSE]
  /\ UNCHANGED <<settings, accounts, schedule>>

-----------------------------------------------------------------------------
StampedNukes(o) == {a \in Account : OwnerOf[a] = o /\ last_nuke_date[a] = day}
StampedEvals(o) == {a \in Account : OwnerOf[a] = o /\ last_eval_date[a] = day}

\* A schedule file written before slot_owner existed may already hold today's
\* stamps, as many as the caps allowed; accounts may be mid-sequence already.
Init ==
  /\ day = 1
  /\ max_nukes \in NukeCaps /\ max_evals \in EvalCaps
  /\ class \in [Account -> StartClass]
  /\ tradeable = [a \in Account |-> TRUE]
  /\ recovery \in [Account -> BOOLEAN] /\ \A a \in Account : recovery[a] => class[a] = "nuke"
  /\ days_traded = [a \in Account |-> 0]
  /\ enabled_at = [a \in Account |-> 0]
  /\ last_nuke_date \in [Account -> {0, day}]
  /\ last_eval_date \in [Account -> {0, day}]
  /\ slot_owner = [a \in Account |-> NoOwner]
  /\ fired = [a \in Account |-> FALSE]
  /\ cap_high = [nukes |-> max_nukes, evals |-> max_evals]
  /\ \A o \in Owner : /\ Cardinality(StampedNukes(o)) <= max_nukes
                      /\ Cardinality(StampedEvals(o)) <= max_evals

Next ==
  \/ \E o \in Owner : AssignDay(o)
  \/ \E a \in Account : EvalResult(a) \/ NukeResult(a) \/ Payout(a) \/ Leave(a) \/ Return(a)
  \/ \E n \in NukeCaps, e \in EvalCaps : EditCaps(n, e)
  \/ NextDay

Spec == Init /\ [][Next]_vars

-----------------------------------------------------------------------------
(* Properties.                                                             *)

\* At most max_nukes_per_day accounts of one key are ever stamped with a nuke
\* slot on one day, over all the passes of that day, whoever left or returned
\* in between (for a cap edited during the day: the highest value it had).
NukeCap == \A o \in Owner : Cardinality(StampedNukes(o)) <= cap_high.nukes

\* The same for eval slots and max_evals_per_day.
EvalCap == \A o \in Owner : Cardinality(StampedEvals(o)) <= cap_high.evals

\* A slot awarded today is never re-awarded: when the day's nuke slots of a key
\* are used up, no account that was not stamped becomes stamped that day, even
\* if the holder was liquidated, passed or was switched off (the 2026-07-09
\* incident _ghost_slots documents).
SlotStaysConsumed ==
  [][\A o \in Owner :
       (day' = day /\ Cardinality(StampedNukes(o)) >= max_nukes)
          => StampedNukes(o)' = StampedNukes(o)]_vars

-----------------------------------------------------------------------------
\* The credential's books are its own: no stamp of today by another key's
\* account lacks an owner (only a file older than slot_owner has such stamps).
OwnBooks(stamps, o) ==
  \A a \in Account : stamps[a] = day /\ slot_owner[a] = NoOwner => OwnerOf[a] = o

\* No churn: while the cap is not cut below the slots already awarded, an
\* account that got a nuke slot today and still needs it gets it in every later
\* pass of the day (_holders_first).
HoldersKeepTheirSlot ==
  \A o \in Owner :
    (Cardinality(StampedNukes(o)) <= max_nukes /\ OwnBooks(last_nuke_date, o))
       => StampedNukes(o) \cap Candidates(o, "nuke") \subseteq NukeWinners(o)

\* No slot is wasted: a pass leaves an eval waiting only when all of the key's
\* slots are held, by the accounts it awards and by those of earlier passes.
WaitOnlyForTakenSlots ==
  \A o \in Owner :
    OwnBooks(last_eval_date, o) =>
      \A a \in Fleet(o) :
        class[a] = "eval" /\ Assignment(o)[a] = <<"idle">>
          => Cardinality(StampedEvals(o) \cup EvalWinners(o)) >= max_evals

\* A mid-sequence account (its day-1 nuke lost) is never passed over for a
\* fresh one: no pass awards a new nuke slot to an account without a pending
\* recovery while one with a pending recovery idles.
RecoveryFirst ==
  \A o \in Owner : \A a, b \in Candidates(o, "nuke") :
    (recovery[a] /\ ~recovery[b] /\ Assignment(o)[a] = <<"idle">>)
       => (b \in NukeWinners(o) => last_nuke_date[b] = day)

-----------------------------------------------------------------------------
(* The inductive invariant behind the slot caps.                           *)

\* Every stamp is attributed to the key that lists the account.
SlotOwnerIsLister == \A a \in Account : slot_owner[a] \in {OwnerOf[a], NoOwner}

NoFutureStamp == \A a \in Account : last_nuke_date[a] <= day /\ last_eval_date[a] <= day

CapHighIsHigh == max_nukes <= cap_high.nukes /\ max_evals <= cap_high.evals

IInv == TypeOK /\ SlotOwnerIsLister /\ NoFutureStamp /\ CapHighIsHigh /\ NukeCap /\ EvalCap

=============================================================================
