----------------------------- MODULE CopierPlan -----------------------------
(* The nightly solver of who follows whom, its application to the mirrors  *)
(* file and the export the box pulls (services/copier_plan.py,             *)
(* services/tc_export.py), against a fleet that changes between solves.    *)
(* Accounts are numbers, so that the code's orders by id are theirs;       *)
(* multipliers are tenths.                                                 *)
EXTENDS Integers, FiniteSets, FiniteSetsExt, Folds

CONSTANTS
  Leader, Mirror,   \* account ids and mirror ids, disjoint
  None,
  OwnerOf,          \* the login a leader lives under
  Signal,           \* the signal plan of a leader, "" for none
  FirmOf,           \* "lucid", "tradeify" or "apex"
  EvalSlots, CloneIntake, ApexIntake, NukeSlots,
  Pipeline, MaxWaiting, ApexRoom,  \* standing evals per firm, the limits on buying more
  FundedLeader, Fleet,  \* the leaders and mirrors the checks start from
  MaxDay, MaxEvents    \* bounds: days, events of the fleet

ASSUME CopierAssumption ==
  /\ Leader \subseteq Nat /\ IsFiniteSet(Leader) /\ None \notin Leader
  /\ Mirror \subseteq Nat /\ IsFiniteSet(Mirror)
  /\ FirmOf \in [Mirror -> {"lucid", "tradeify", "apex"}]
  /\ EvalSlots \in Nat /\ CloneIntake \in Nat /\ ApexIntake \in Nat /\ NukeSlots \in Nat
  /\ Pipeline \in [{"topstep", "lucid", "tradeify", "apex"} -> Nat]
  /\ MaxWaiting \in Nat /\ ApexRoom \in Nat
  /\ Fleet \subseteq [Mirror -> {"eval", "waiting", "funded", "passed", "blown", "retired"}]
  /\ MaxDay \in Nat \ {0} /\ MaxEvents \in Nat

VARIABLES
  leaders,  \* the leader accounts as the brokers and the states tell them
  mirrors,  \* the mirrors file
  job,      \* the request under way: the leaders it read, the mirrors it solved on, its copy
  wired,    \* the groups the box pulled last
  day, events
vars == <<leaders, mirrors, job, wired, day, events>>

Lockstep(m) == FirmOf[m] # "tradeify"
Base(m)     == IF Lockstep(m) THEN 10 ELSE 8
Apex(m)     == FirmOf[m] = "apex"

(***************************************************************************)
(* The leaders as the solver sees them.                                    *)
(***************************************************************************)
(* "on", "locked" by the broker or the floor, "off" by the operator; an    *)
(* account of a login that failed is not in the view: its phase is "gone". *)
Tradable(L, l)   == L[l].status = "on"
LiveEval(L, l)   == L[l].phase = "eval" /\ Tradable(L, l) /\ Signal[l] = ""
LiveFunded(L, l) == L[l].phase = "funded" /\ Tradable(L, l) /\ Signal[l] = ""
EvalLeaders(L)   == {l \in Leader : LiveEval(L, l)}
FreshLeaders(L)  == {l \in Leader : LiveFunded(L, l) /\ L[l].days = 0}

Channel(L, plan) == LET on == {l \in Leader : Signal[l] = plan /\ Tradable(L, l)}
                    IN IF on = {} THEN None ELSE Max(on)

(* The first n of a set by a strict order, as a sort and a slice. *)
Firsts(S, n, Before(_, _)) == {x \in S : Cardinality({y \in S : Before(y, x)}) < n}

MoreDays(r, x, y) == r[x].days > r[y].days \/ (r[x].days = r[y].days /\ x < y)

(* The evals the depth-first scheduler will hand the login's slots to. *)
Drivers(L) == UNION {Firsts({l \in EvalLeaders(L) : OwnerOf[l] = o}, EvalSlots,
                            LAMBDA x, y : MoreDays(L, x, y)) : o \in {OwnerOf[l] : l \in Leader}}

(***************************************************************************)
(* The day's slots among the mirrors.                                      *)
(***************************************************************************)
Active(M)  == {m \in Mirror : M[m].enabled /\ M[m].phase \notin {"blown", "retired"}}
Landed(r)  == r.channel = "nuke" /\ r.won
NukeMode(M) == {m \in Mirror : /\ Apex(m) /\ M[m].phase = "funded" /\ M[m].enabled
                               /\ ~M[m].ready /\ M[m].channel # "flip" /\ ~Landed(M[m])}
NukeBefore(M, today, x, y) ==
  LET late(m) == IF M[m].nukeDate = today THEN 0 ELSE 1
  IN \/ late(x) < late(y)
     \/ late(x) = late(y) /\ M[x].nukeDate < M[y].nukeDate
     \/ late(x) = late(y) /\ M[x].nukeDate = M[y].nukeDate /\ x < y
NukeToday(M, today) == Firsts(NukeMode(M), NukeSlots, LAMBDA x, y : NukeBefore(M, today, x, y))

Evals(M, firm) == {m \in Mirror : FirmOf[m] = firm /\ M[m].phase = "eval" /\ M[m].enabled}
Intake(M) == UNION {Firsts(Evals(M, f), IF f = "apex" THEN ApexIntake ELSE CloneIntake,
                           LAMBDA x, y : MoreDays(M, x, y)) : f \in {"lucid", "tradeify", "apex"}}

EvalScaleUncapped(m, r) == IF Lockstep(m) \/ r.days = 0 \/ r.left = 0 THEN Base(m) ELSE 2 * r.left

(* Fewer minis when they finish the eval: left is what a last day needs,   *)
(* 0 when the mirror is fresh or in the red.                               *)
EvalScale(m, r) == IF Lockstep(m) \/ r.days = 0 \/ r.left = 0 \/ 2 * r.left > Base(m)
                   THEN Base(m) ELSE 2 * r.left

(***************************************************************************)
(* One mirror's desired mapping and the edit lines it makes.               *)
(***************************************************************************)
Line(action, cond) == IF cond THEN {action} ELSE {}
To(l, channel, mult, edits) ==
  [leader |-> l, channel |-> channel, mult |-> mult, nuke |-> FALSE, edits |-> edits]
Parked(r) == To(None, r.channel, r.mult, Line("UNMAP", r.leader # None))

AvailAny(L, m) == EvalLeaders(L)

Avail(L, m) == {l \in EvalLeaders(L) : Lockstep(m) \/ ~L[l].nearFloor}

(* What build_plan works out before it looks at the mirrors one by one. *)
Sight(L, M, today) ==
  [drivers |-> Drivers(L), fresh |-> FreshLeaders(L),
   funded  |-> {l \in Leader : LiveFunded(L, l)},
   channel |-> [plan \in {"apex-eval", "apex-nuke", "apex-flip"} |-> Channel(L, plan)],
   avail   |-> [m \in Mirror |-> Avail(L, m)],
   days    |-> [l \in Leader |-> L[l].days],
   intake  |-> Intake(M), nukes |-> NukeToday(M, today)]

DesireApexEval(S, M, m) ==
  LET r == M[m]  ch == S.channel["apex-eval"]
  IN IF m \in S.intake /\ ch # None
     THEN To(ch, "eval", r.mult, Line("MAP", r.leader # ch))
     ELSE To(None, "eval", r.mult, Line("UNMAP", r.leader # None))

DesireApexFunded(S, M, m) ==
  LET r == M[m]
      nuke == m \in S.nukes
      ch == S.channel[IF nuke THEN "apex-nuke" ELSE "apex-flip"]
      edits == Line("SET_CHANNEL", Landed(r)) \cup Line("MAP", ch # None /\ r.leader # ch)
  IN IF nuke THEN [To(ch, "nuke", 10, edits) EXCEPT !.nuke = ch # None]
     ELSE IF Landed(r) \/ r.channel = "flip" THEN To(ch, "flip", 10, edits)
     ELSE To(None, "nuke", 10, Line("UNMAP", r.leader # None))

(* Drivers first; a rider stacks the most advanced, a twin the least loaded. *)
Better(S, load, m, x, y) ==
  LET idle(l) == IF l \in S.drivers THEN 0 ELSE 1
      byLoad == load[x] < load[y] \/ (load[x] = load[y] /\ x < y)
  IN \/ idle(x) < idle(y)
     \/ /\ idle(x) = idle(y)
        /\ IF Lockstep(m) THEN byLoad
           ELSE S.days[x] > S.days[y] \/ (S.days[x] = S.days[y] /\ byLoad)

Keeps(S, m, l) == /\ l # None /\ l \in S.avail[m]
                  /\ l \in S.drivers \/ S.drivers \cap S.avail[m] = {}

DesireCloneEval(S, M, load, m) ==
  LET r == M[m]
      mult == EvalScale(m, r)
      set == Line("SET_MULT", r.mult # mult)
  IN IF m \notin S.intake THEN To(None, "", mult, Line("UNMAP", r.leader # None))
     ELSE IF Keeps(S, m, r.leader) THEN To(r.leader, "", mult, set)
     ELSE IF S.avail[m] = {} THEN To(None, "", mult, set \cup Line("UNMAP", r.leader # None))
     ELSE To(CHOOSE l \in S.avail[m] : \A k \in S.avail[m] \ {l} : Better(S, load, m, l, k),
             "", mult, set \cup {IF r.leader # None THEN "MOVE" ELSE "MAP"})

DesireCloneFunded(S, M, m) ==
  LET r == M[m]
      live == r.leader \in S.funded
  IN To(IF live THEN r.leader ELSE None, "", 10,
        Line("SET_MULT", r.mult # 10) \cup Line("UNMAP", r.leader # None /\ ~live))

DesireWaitingAny(S, M, taken, m) ==
  IF S.fresh = {} THEN To(None, M[m].channel, M[m].mult, {})
  ELSE To(Min(S.fresh), M[m].channel, 10, {"MAP"})

(* A fresh funded leader no twin of the firm has; MAP is said every time. *)
DesireWaiting(S, M, taken, m) ==
  LET free == {l \in S.fresh : <<l, FirmOf[m]>> \notin taken}
  IN IF free = {} THEN To(None, M[m].channel, M[m].mult, {})
     ELSE To(Min(free), M[m].channel, 10, {"MAP"})

Desire(S, M, acc, m) ==
  LET r == M[m]
  IN IF r.phase = "passed" \/ r.ready THEN Parked(r)
     ELSE IF r.phase = "waiting" THEN DesireWaiting(S, M, acc.taken, m)
     ELSE IF Apex(m) THEN IF r.phase = "eval" THEN DesireApexEval(S, M, m)
                          ELSE DesireApexFunded(S, M, m)
     ELSE IF r.phase = "eval" THEN DesireCloneEval(S, M, acc.load, m)
     ELSE DesireCloneFunded(S, M, m)

(***************************************************************************)
(* build_plan: the mirrors in order of id; a new eval follower adds to its *)
(* leader's load, a waiting twin takes its leader for the firm.            *)
(***************************************************************************)
Untouched(M, evals) ==
  [load  |-> [l \in evals |-> Cardinality({m \in Mirror : M[m].leader = l /\ M[m].phase = "eval"})],
   taken |-> {<<M[m].leader, FirmOf[m]>> : m \in {x \in Mirror : M[x].phase = "funded"}}]

Solved(S, M, acc, m) ==
  LET d == Desire(S, M, acc, m)
  IN [load  |-> IF d.edits \cap {"MAP", "MOVE"} # {} /\ d.leader \in DOMAIN acc.load
                THEN [acc.load EXCEPT ![d.leader] = @ + 1] ELSE acc.load,
      taken |-> IF M[m].phase = "waiting" THEN acc.taken \cup {<<d.leader, FirmOf[m]>>}
                ELSE acc.taken]

(* What the mirrors of T leave to the next one, solved in order of id. *)
After(S, M, evals, T) == MapThenFoldSet(LAMBDA m, acc : Solved(S, M, acc, m),
                                        Untouched(M, evals), LAMBDA m : m, Max, T)

Plans(S, M, evals) ==
  [m \in Active(M) |-> Desire(S, M, After(S, M, evals, {k \in Active(M) : k < m}), m)]

Planned(L, M, today) == Plans(Sight(L, M, today), M, EvalLeaders(L))

AppliedKeepsMult(M, plan, today) ==
  [m \in Mirror |-> IF m \notin DOMAIN plan THEN M[m]
   ELSE [M[m] EXCEPT !.leader = plan[m].leader, !.channel = plan[m].channel,
                     !.nukeDate = IF plan[m].nuke THEN today ELSE @]]

(* apply_plan: the mapping of every planned mirror, and the nuke's stamp. *)
Applied(M, plan, today) ==
  [m \in Mirror |-> IF m \notin DOMAIN plan THEN M[m]
   ELSE [M[m] EXCEPT !.leader = plan[m].leader, !.channel = plan[m].channel,
                     !.mult = plan[m].mult,
                     !.nukeDate = IF plan[m].nuke THEN today ELSE @]]

(* build_desired_state: refused while the plan has edits or no mirror is   *)
(* active; an account of a mapped mirror in a trading phase otherwise.     *)
Pending(plan)     == {m \in DOMAIN plan : plan[m].edits # {}}
Exported(M)       == {m \in Active(M) : M[m].leader # None /\ M[m].phase \in {"eval", "funded"}}
Groups(M)         == [m \in Exported(M) |-> [leader |-> M[m].leader, mult |-> M[m].mult]]

(***************************************************************************)
(* The buy list: standing evals per login of the leader firm, and for each *)
(* follower firm while its funded side has room for those that pass.       *)
(***************************************************************************)
Owners(L) == {OwnerOf[l] : l \in {k \in Leader : L[k].phase # "gone" /\ Signal[k] = ""}}

PipelineEvalTradable(L, l) == LiveEval(L, l)

PipelineEval(L, l) == L[l].phase = "eval" /\ L[l].status # "off" /\ Signal[l] = ""

Need(firm, n) == IF n < Pipeline[firm] THEN Pipeline[firm] - n ELSE 0
LoginNeed(L, o) ==
  Need("topstep", Cardinality({l \in Leader : OwnerOf[l] = o /\ PipelineEval(L, l)}))
FirmNeed(M, f) ==
  LET Count(phases) == Cardinality({m \in Mirror : FirmOf[m] = f /\ M[m].phase \in phases})
      room == CASE f = "lucid"    -> Count({"passed", "waiting"}) < MaxWaiting
                [] f = "apex"     -> Count({"funded", "waiting"}) < ApexRoom
                [] f = "tradeify" -> TRUE
  IN IF room THEN Need(f, Count({"eval", "passed"})) ELSE 0

(* With no strategy account in sight the list is made for one nameless login. *)
BuyList(L, M) ==
  LET logins == IF Owners(L) = {} THEN {None} ELSE Owners(L)
      lines  == {[firm |-> "topstep", login |-> o, count |-> LoginNeed(L, o)] : o \in logins}
                \cup {[firm |-> f, login |-> None, count |-> FirmNeed(M, f)] :
                         f \in {"lucid", "tradeify", "apex"}}
  IN {b \in lines : b.count > 0}

(***************************************************************************)
(* The requests: Apply (app.py apply_copier_plan) and the box's pull.      *)
(* Both read every login's accounts first, which takes seconds; a login    *)
(* that fails is skipped and its leaders look gone.  The mirrors are       *)
(* loaded to solve on, and again, without a lock, to write or to export;   *)
(* a pull with edit lines is refused.  All of it falls within the day.     *)
(***************************************************************************)
Spend == events < MaxEvents /\ events' = events + 1

Reading(kind, view) == [kind |-> kind, view |-> view, seen |-> None, copy |-> None]

Asks(kind) ==
  /\ job = None
  /\ job' = Reading(kind, leaders)
  /\ UNCHANGED <<leaders, mirrors, wired, day, events>>

Dark(L, o) == [l \in Leader |-> IF OwnerOf[l] # o THEN L[l]
                                ELSE [L[l] EXCEPT !.status = "off", !.phase = "gone"]]
AsksInOutage(kind) ==
  /\ job = None /\ Spend
  /\ \E o \in {OwnerOf[l] : l \in Leader} : job' = Reading(kind, Dark(leaders, o))
  /\ UNCHANGED <<leaders, mirrors, wired, day>>

(* build_today_plan. *)
Solves ==
  /\ job # None /\ job.seen = None
  /\ job' = IF job.kind = "pull" /\ Pending(Planned(job.view, mirrors, day)) # {}
            THEN None ELSE [job EXCEPT !.seen = mirrors]
  /\ UNCHANGED <<leaders, mirrors, wired, day, events>>

(* apply_plan loads the mirrors again ...                                  *)
Loads ==
  /\ job # None /\ job.kind = "apply" /\ job.seen # None /\ job.copy = None
  /\ job' = [job EXCEPT !.copy = mirrors]
  /\ UNCHANGED <<leaders, mirrors, wired, day, events>>

(* ... and its merge-save writes the whole record of each planned one.     *)
Saves ==
  /\ job # None /\ job.copy # None
  /\ LET plan == Planned(job.view, job.seen, day)
         done == Applied(job.copy, plan, day)
     IN mirrors' = [m \in Mirror |-> IF m \in DOMAIN plan THEN done[m] ELSE mirrors[m]]
  /\ job' = None
  /\ UNCHANGED <<leaders, wired, day, events>>

(* desired_from_mirrors on the second load. *)
Export ==
  /\ job # None /\ job.kind = "pull" /\ job.seen # None
  /\ wired' = IF Active(mirrors) # {} THEN Groups(mirrors) ELSE wired
  /\ job' = None
  /\ UNCHANGED <<leaders, mirrors, day, events>>

(***************************************************************************)
(* The fleet between the requests: what a day does to a leader and to a    *)
(* mirror (Lifecycle and Mirrors tell why), and the operator.  Of a signal *)
(* channel the solver reads only whether it is tradable.                   *)
(***************************************************************************)
LeaderDay(l) ==
  /\ Signal[l] = "" /\ Tradable(leaders, l)
  /\ leaders[l].phase \in {"eval", "funded"} /\ leaders[l].days < 2
  /\ Spend
  /\ \E ph \in {leaders[l].phase, "blown"} \cup Line("passed", leaders[l].phase = "eval"),
       near \in BOOLEAN :
       leaders' = [leaders EXCEPT ![l].phase = ph, ![l].days = @ + 1, ![l].nearFloor = near]
  /\ UNCHANGED <<mirrors, job, wired, day>>

Toggle(l) ==
  /\ Spend
  /\ \E to \in IF leaders[l].status # "on" THEN {"on"}
               ELSE {"off"} \cup Line("locked", Signal[l] = "") :
       leaders' = [leaders EXCEPT ![l].status = to]
  /\ UNCHANGED <<mirrors, job, wired, day>>

Trading(r) == r.enabled /\ r.leader # None /\ r.phase \in {"eval", "funded"} /\ ~r.ready

MirrorDay(m) ==
  /\ Trading(mirrors[m]) /\ mirrors[m].days < 2 /\ Spend
  /\ \E won \in BOOLEAN, left \in {1, 10}, r \in {mirrors[m].phase, "passed", "blown"}, ready \in BOOLEAN :
       /\ r = "passed" => mirrors[m].phase = "eval" /\ won
       /\ r = "blown" => ~won
       /\ ready => won /\ r = "funded"
       /\ left # 10 => r = "eval" /\ won
       /\ mirrors' = [mirrors EXCEPT ![m].won = won, ![m].left = left, ![m].phase = r,
                        ![m].ready = ready, ![m].days = @ + 1]
  /\ UNCHANGED <<leaders, job, wired, day>>

NewCycle(r, m) == [r EXCEPT !.channel = IF Apex(m) THEN "nuke" ELSE @]

(* The operator may name a leader at once, any leader; else the mirror waits. *)
Activate(m) ==
  /\ mirrors[m].phase = "passed" /\ Spend
  /\ \E l \in Leader \cup {None} :
       mirrors' = [mirrors EXCEPT ![m] = NewCycle([@ EXCEPT !.days = 0, !.left = 0, !.mult = 10,
                     !.ready = FALSE, !.leader = l,
                     !.phase = IF l = None THEN "waiting" ELSE "funded"], m)]
  /\ UNCHANGED <<leaders, job, wired, day>>

(* The leader the plan has for a mirror, as the page shows it now. *)
Shown(m) == IF m \in Active(mirrors) THEN Planned(leaders, mirrors, day)[m].leader ELSE None

(* pair_waiting takes any leader; one the page shows costs no event. *)
Pair(m) ==
  /\ mirrors[m].phase = "waiting"
  /\ LET shown == Shown(m)
     IN \E l \in Leader :
          /\ IF l = shown THEN UNCHANGED events ELSE Spend
          /\ mirrors' = [mirrors EXCEPT ![m].phase = "funded", ![m].leader = l]
  /\ UNCHANGED <<leaders, job, wired, day>>

(* The operator marks what the payout queue lists; the last one retires. *)
Paid(m) ==
  /\ mirrors[m].ready /\ Spend
  /\ \E ph \in {"funded", "retired"} :
       mirrors' = [mirrors EXCEPT ![m] = NewCycle([@ EXCEPT !.ready = FALSE, !.phase = ph], m)]
  /\ UNCHANGED <<leaders, job, wired, day>>

(* Nothing reads the switch of a blown or retired mirror. *)
Switch(m) ==
  /\ mirrors[m].phase \notin {"blown", "retired"} /\ Spend
  /\ mirrors' = [mirrors EXCEPT ![m].enabled = ~@]
  /\ UNCHANGED <<leaders, job, wired, day>>

NextDay ==
  /\ job = None /\ day < MaxDay
  /\ day' = day + 1
  /\ UNCHANGED <<leaders, mirrors, job, wired, events>>

Fresh(m, ph) ==
  [leader |-> None, mult |-> IF ph = "eval" THEN Base(m) ELSE 10,
   channel |-> "", phase |-> ph,
   enabled |-> TRUE, ready |-> FALSE, days |-> 0, left |-> 0, won |-> FALSE,
   nukeDate |-> 0]

Init ==
  /\ leaders = [l \in Leader |->
       [phase |-> IF l \in FundedLeader THEN "funded" ELSE "eval", status |-> "on",
        days |-> 0, nearFloor |-> FALSE]]
  /\ \E f \in Fleet : mirrors = [m \in Mirror |-> Fresh(m, f[m])]
  /\ job = None
  /\ wired = <<>>
  /\ day = 1 /\ events = 0

Next ==
  \/ \E kind \in {"apply", "pull"} : Asks(kind) \/ AsksInOutage(kind)
  \/ Solves \/ Loads \/ Saves \/ Export \/ NextDay
  \/ \E l \in Leader : LeaderDay(l) \/ Toggle(l)
  \/ \E m \in Mirror : MirrorDay(m) \/ Activate(m) \/ Pair(m) \/ Paid(m) \/ Switch(m)

Spec == Init /\ [][Next]_vars

-----------------------------------------------------------------------------
(* The records hold what the stores can. *)
Multipliers == {2 * n : n \in 1..5}
MirrorRecord == [leader : Leader \cup {None}, mult : Multipliers, channel : {"", "eval", "nuke", "flip"},
                 phase : {"eval", "waiting", "funded", "passed", "blown", "retired"},
                 enabled : BOOLEAN, ready : BOOLEAN, days : Nat, left : Nat, won : BOOLEAN,
                 nukeDate : 0..MaxDay]
TypeOK ==
  /\ mirrors \in [Mirror -> MirrorRecord]
  /\ DOMAIN wired \subseteq Mirror /\ day \in 1..MaxDay
  /\ \A m \in Mirror : Apex(m) \/ mirrors[m].channel = ""

(* An Apex account that won before any plan gave it a channel: one         *)
(* registered as waiting and paired, for instance.  The plan opens a nuke  *)
(* for it, and that nuke has landed as soon as the channel is on record.   *)
Unopened(M) == {m \in Active(M) : /\ Apex(m) /\ M[m].phase = "funded" /\ M[m].won
                                  /\ M[m].channel \notin {"nuke", "flip"}}

(* Applying a plan leaves nothing to edit (copier_plan.py:6-9, and the     *)
(* export counts on it), but for a waiting mirror, whose MAP is said again *)
(* until the operator has paired it, and for the funded Apex accounts      *)
(* while one of them is Unopened: it gives its nuke slot back at once.     *)
Resolves == job = None =>
  LET after == Applied(mirrors, Planned(leaders, mirrors, day), day)
  IN \A m \in Pending(Planned(leaders, after, day)) :
       \/ mirrors[m].phase = "waiting"
       \/ Apex(m) /\ mirrors[m].phase = "funded" /\ Unopened(mirrors) # {}

(* What the box pulls obeys the fleet's rules, though the exporter checks  *)
(* none of them but through the edit lines: no parked account; evals on a  *)
(* live driver, within the firm's intake and never a scaled copy on a      *)
(* leader that would fire without a stop; one nuke a day.  Apex accounts   *)
(* whose channel is down are the exception: their plan drops the leader    *)
(* without a line (copier_plan.py:452), and the stored one is exported.    *)
(* The check and the export load the mirrors one after the other: a mirror *)
(* edited or booked in between is exported unchecked, and then the fleet's *)
(* counts say nothing either.                                              *)
ChannelDown(L, m) == /\ Apex(m) /\ mirrors[m].phase = "funded"
                     /\ \E c \in {"apex-nuke", "apex-flip"} : Channel(L, c) = None
LawfulFollower(L, m, g) ==
  LET r == mirrors[m]
  IN /\ ~r.ready /\ g.leader \in Leader
     /\ Tradable(L, g.leader) \/ ChannelDown(L, m)
     /\ r.phase = "funded" => g.mult = 10
     /\ r.phase = "eval" /\ ~Apex(m) =>
          /\ g.mult <= Base(m)
          /\ Lockstep(m) \/ ~L[g.leader].nearFloor
          /\ g.leader \in Drivers(L) \/ Drivers(L) \cap Avail(L, m) = {}
Lawful(j, W) ==
  /\ \A m \in DOMAIN W : j.seen[m] = mirrors[m] => LawfulFollower(j.view, m, W[m])
  /\ j.seen = mirrors =>
       /\ \A f \in {"lucid", "tradeify", "apex"} :
            Cardinality({m \in DOMAIN W : FirmOf[m] = f /\ mirrors[m].phase = "eval"})
              <= IF f = "apex" THEN ApexIntake ELSE CloneIntake
       /\ Cardinality({m \in DOMAIN W : Signal[W[m].leader] = "apex-nuke" /\ ~ChannelDown(j.view, m)})
            <= NukeSlots
PulledLawful == [][Export /\ Active(mirrors) # {} => Lawful(job, wired')]_vars

(* Two funded clones of one firm come to share a leader only by hand: each *)
(* copies it in lockstep, and one loss would take both (copier_plan.py:202) *)
(* - by an activation that names a leader, or a pairing with one the page  *)
(* does not show, neither of which checks anything, or when a plan is      *)
(* saved over a mirror that changed since it was solved.                   *)
Twins(m, n) ==
  /\ m # n /\ FirmOf[m] = FirmOf[n] /\ ~Apex(m)
  /\ mirrors[m].phase = "funded" /\ mirrors[n].phase = "funded"
  /\ mirrors[m].leader # None /\ mirrors[m].leader = mirrors[n].leader
ByHand(m) == Activate(m) \/ (Pair(m) /\ mirrors'[m].leader # Shown(m))
Overtaken(m) == Saves /\ ~(job.seen[m] = job.copy[m] /\ job.copy[m] = mirrors[m])
TwinsApart ==
  [][\A m, n \in Mirror : Twins(m, n)' =>
       Twins(m, n) \/ \E x \in {m, n} : ByHand(x) \/ Overtaken(x)]_vars

(* Nothing is bought for accounts that are only out of sight: not for the   *)
(* accounts of a login that failed, so long as a strategy account of another *)
(* is seen, and not for one the broker has locked for the day, which is     *)
(* alive and keeps its slot (copier_plan.py:112-117).  No request changes   *)
(* the leaders, so the states between requests are enough.                 *)
BuysOnlyForTheDead == job = None =>
  LET list == BuyList(leaders, mirrors)
      Seen(o) == Dark(leaders, o)
  IN /\ \A o \in {OwnerOf[l] : l \in Leader} :
          Owners(Seen(o)) # {} => BuyList(Seen(o), mirrors) \subseteq list
     /\ BuyList([l \in Leader |-> IF leaders[l].status = "off" THEN leaders[l]
                                  ELSE [leaders[l] EXCEPT !.status = "locked"]], mirrors) = list
=============================================================================
