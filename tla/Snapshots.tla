------------------------------ MODULE Snapshots ------------------------------
(***************************************************************************)
(* The two caches behind the dashboard (server/service.py 68-95): the raw  *)
(* broker reads and the rows computed from them, one entry per credential, *)
(* shared by the worker threads of every web socket and API handler.       *)
(*                                                                         *)
(* A change - an operator's edit, a session that placed or booked trades - *)
(* is first saved and then INVALIDATES: broker reads before rows, each     *)
(* under its own generation number.  A builder remembers the generation it *)
(* started under and keeps its result only if the number has not moved;    *)
(* the comparison and the store are two steps that no guard spans.         *)
(*                                                                         *)
(* A row is abstracted to what can be wrong about it: whose files and      *)
(* whose broker it was made of (`of`), how many changes of that tenant the *)
(* files held and the broker had seen (`files`, `desk`), and whether it    *)
(* was kept after the number had moved (`slip`).  The bookkeeping a build  *)
(* saves itself (ratchet, blown, new account) is in Session and Lifecycle. *)
(* Every login here bears the same name, the case _ck's docstring is about.*)
(***************************************************************************)
EXTENDS Naturals

CONSTANTS
  Tenant,      \* the users of the server
  Thread,      \* worker threads, each serving one push or request at a time
  SharedName,  \* the login name, a key only if it were not scoped
  None,        \* no entry, no holder, nothing left to do
  MaxChanges   \* bound: the changes of each tenant

ASSUME SnapshotsAssumption ==
  /\ MaxChanges \in [Tenant -> Nat]
  /\ SharedName \notin Tenant
  /\ None \notin Tenant \cup Thread \cup {SharedName, "reads", "rows"}

VARIABLES
  files,   \* changes saved in each tenant's local stores
  desk,    \* changes each tenant's broker has seen
  todo,    \* what a tenant's running change still has to invalidate
  done,    \* what each tenant's finished changes had saved
  gen,     \* _SNAP_GEN and _BROKER_GEN
  reads,   \* _BROKER_CACHE
  rows,    \* _SNAPSHOT_CACHE
  lock,    \* _SNAPSHOT_LOCKS: who is building under each key
  th       \* each thread: its request, where it is and what it holds or got

vars == <<files, desk, todo, done, gen, reads, rows, lock, th>>
changes == <<files, desk, todo, done>>

Key == Tenant \cup {SharedName}
Places == {"idle", "asked", "wait", "load", "reading", "judgeReads",
           "keepReads", "judgeRows", "keepRows"}
Row == [of : SUBSET Tenant, files : Nat, desk : Nat, slip : BOOLEAN]
Seen == [files : Nat, desk : Nat]
Gen == [rows : Nat, reads : Nat]

\* Mutant: the login's name alone.
CkShared(t) == SharedName

\* _ck: a dashboard's key carries the tenant.
Ck(t) == t
KeyOf(x) == Ck(th[x].ten)

Idle == [at |-> "idle", ten |-> None, gen |-> [rows |-> 0, reads |-> 0],
         due |-> [files |-> 0, desk |-> 0],
         hand |-> [of |-> {}, files |-> 0, desk |-> 0, slip |-> FALSE]]

Init ==
  /\ files = [t \in Tenant |-> 0]
  /\ desk = files
  /\ todo = [t \in Tenant |-> None]
  /\ done = [t \in Tenant |-> [files |-> 0, desk |-> 0]]
  /\ gen = [rows |-> 0, reads |-> 0]
  /\ reads = [k \in Key |-> None]
  /\ rows = reads
  /\ lock = reads
  /\ th = [x \in Thread |-> Idle]
-----------------------------------------------------------------------------
\* Changes, and the invalidation that ends them.

\* A handler of the API, the nightly check or an observation saves its edit.
Saves(t) ==
  /\ todo[t] = None
  /\ files[t] < MaxChanges[t]
  /\ files' = [files EXCEPT ![t] = @ + 1]
  /\ todo' = [todo EXCEPT ![t] = "rows"]
  /\ UNCHANGED <<desk, done, gen, reads, rows, lock, th>>

\* A session pass has placed or booked trades and saved its states.
Trades(t) ==
  /\ todo[t] = None
  /\ files[t] < MaxChanges[t]
  /\ files' = [files EXCEPT ![t] = @ + 1]
  /\ desk' = [desk EXCEPT ![t] = @ + 1]
  /\ todo' = [todo EXCEPT ![t] = "reads"]
  /\ UNCHANGED <<done, gen, reads, rows, lock, th>>

\* Every owner's entry is kept, as a fallback, but marked stale.
Staled(cache) ==
  [k \in Key |-> IF cache[k] = None THEN None
                 ELSE [cache[k] EXCEPT !.fresh = FALSE]]

InvalidateReads(t) ==
  /\ todo[t] = "reads"
  /\ gen' = [gen EXCEPT !.reads = @ + 1]
  /\ reads' = Staled(reads)
  /\ todo' = [todo EXCEPT ![t] = "rows"]
  /\ UNCHANGED <<files, desk, done, rows, lock, th>>

InvalidateRows(t) ==
  /\ todo[t] = "rows"
  /\ gen' = [gen EXCEPT !.rows = @ + 1]
  /\ rows' = Staled(rows)
  /\ todo' = [todo EXCEPT ![t] = None]
  /\ done' = [done EXCEPT ![t] = [files |-> files[t], desk |-> desk[t]]]
  /\ UNCHANGED <<files, desk, reads, lock, th>>

-----------------------------------------------------------------------------
\* Threads.

\* Mutant: any entry will do.
FreshAny(entry) == entry # None


Fresh(entry) == IF entry = None THEN FALSE ELSE entry.fresh

Goes(x, place) == th' = [th EXCEPT ![x].at = place]

\* A push or a request takes a worker; it should get at least every change
\* that is finished now.
Asks(x, t) ==
  /\ th[x].at = "idle"
  /\ th' = [th EXCEPT ![x] =
       [@ EXCEPT !.at = "asked", !.ten = t, !.due = done[t]]]
  /\ UNCHANGED <<changes, gen, reads, rows, lock>>

\* The request is answered and its worker free.
Leaves(x) == th' = [th EXCEPT ![x] = Idle]

Released(x) == lock' = [lock EXCEPT ![KeyOf(x)] = None]

Hits(x) ==
  /\ th[x].at = "asked"
  /\ Fresh(rows[KeyOf(x)])
  /\ Leaves(x)
  /\ UNCHANGED <<changes, gen, reads, rows, lock>>

\* Stale, or its SNAPSHOT_TTL has run out: that may be at any look.
Misses(x) ==
  /\ th[x].at = "asked"
  /\ Goes(x, "wait")
  /\ UNCHANGED <<changes, gen, reads, rows, lock>>

\* The builder ahead may have filled the entry...
Follows(x) ==
  /\ th[x].at = "wait"
  /\ lock[KeyOf(x)] = None
  /\ Fresh(rows[KeyOf(x)])
  /\ Leaves(x)
  /\ UNCHANGED <<changes, gen, reads, rows, lock>>

\* ... otherwise this one builds.
Enters(x) ==
  /\ th[x].at = "wait"
  /\ lock[KeyOf(x)] = None
  /\ th' = [th EXCEPT ![x].at = "load", ![x].gen.rows = gen.rows]
  /\ lock' = [lock EXCEPT ![KeyOf(x)] = x]
  /\ UNCHANGED <<changes, gen, reads, rows>>

\* Settings, registry and states are loaded first, then the broker is asked...
Loads(x) ==
  /\ th[x].at = "load"
  /\ th' = [th EXCEPT ![x].at = "reading",
                      ![x].hand = [of |-> {th[x].ten}, files |-> files[th[x].ten],
                                   desk |-> 0, slip |-> FALSE],
                      ![x].gen.reads = gen.reads]
  /\ UNCHANGED <<changes, gen, reads, rows, lock>>

\* ... or its last reads are used.
LoadsKept(x) ==
  /\ th[x].at = "load"
  /\ Fresh(reads[KeyOf(x)])
  /\ LET kept == reads[KeyOf(x)] IN
     th' = [th EXCEPT ![x].at = "judgeRows",
                      ![x].hand = [of |-> {th[x].ten, kept.of},
                                   files |-> files[th[x].ten],
                                   desk |-> kept.desk, slip |-> kept.slip]]
  /\ UNCHANGED <<changes, gen, reads, rows, lock>>

\* The round-trips; gen0 was taken before the first of them.
Reads(x) ==
  /\ th[x].at = "reading"
  /\ th' = [th EXCEPT ![x].at = "judgeReads", ![x].hand.desk = desk[th[x].ten]]
  /\ UNCHANGED <<changes, gen, reads, rows, lock>>

\* Mutant: a failing build is begun again, the lock in hand.
FailsRetrying(x) ==
  /\ th[x].at = "reading"
  /\ Goes(x, "load")
  /\ UNCHANGED <<changes, gen, reads, rows, lock>>

\* A 429 or a timeout: the last good build, however old, or the error itself.
Fails(x) ==
  /\ th[x].at = "reading"
  /\ Leaves(x)
  /\ Released(x)
  /\ UNCHANGED <<changes, gen, reads, rows>>

\* Line 360 compares; line 361 stores whatever has happened in between.
JudgesReads(x) ==
  /\ th[x].at = "judgeReads"
  /\ Goes(x, IF gen.reads = th[x].gen.reads THEN "keepReads" ELSE "judgeRows")
  /\ UNCHANGED <<changes, gen, reads, rows, lock>>

KeepsReads(x) ==
  /\ th[x].at = "keepReads"
  /\ reads' = [reads EXCEPT ![KeyOf(x)] =
       [of |-> th[x].ten, desk |-> th[x].hand.desk, fresh |-> TRUE,
        slip |-> gen.reads # th[x].gen.reads]]
  /\ Goes(x, "judgeRows")
  /\ UNCHANGED <<changes, gen, rows, lock>>

\* Lines 392 and 393, the same pair for the rows.
JudgesRows(x) ==
  /\ th[x].at = "judgeRows"
  /\ IF gen.rows = th[x].gen.rows
       THEN Goes(x, "keepRows") /\ UNCHANGED lock
       ELSE Leaves(x) /\ Released(x)
  /\ UNCHANGED <<changes, gen, reads, rows>>

KeepsRows(x) ==
  /\ th[x].at = "keepRows"
  /\ LET late == gen.rows # th[x].gen.rows
         row == [th[x].hand EXCEPT !.slip = @ \/ late] IN
     /\ rows' = [rows EXCEPT ![KeyOf(x)] = [row |-> row, fresh |-> TRUE]]
     /\ Leaves(x)
  /\ Released(x)
  /\ UNCHANGED <<changes, gen, reads>>

Builds(x) ==
  \/ Hits(x) \/ Misses(x) \/ Follows(x) \/ Enters(x) \/ Loads(x)
  \/ LoadsKept(x) \/ Reads(x) \/ Fails(x)
  \/ JudgesReads(x) \/ KeepsReads(x) \/ JudgesRows(x) \/ KeepsRows(x)

Invalidates(t) == InvalidateReads(t) \/ InvalidateRows(t)

Next ==
  \/ \E t \in Tenant : Saves(t) \/ Trades(t) \/ Invalidates(t)
  \/ \E x \in Thread : Builds(x) \/ \E t \in Tenant : Asks(x, t)

Spec ==
  /\ Init /\ [][Next]_vars
  /\ \A x \in Thread : WF_vars(Builds(x))
-----------------------------------------------------------------------------
\* Properties.

\* Every entry, lock and thread is what the code can have made of it; who
\* builds holds his key's lock and nobody else does.
TypeOK ==
  /\ files \in [Tenant -> Nat] /\ desk \in [Tenant -> Nat]
  /\ todo \in [Tenant -> {None, "reads", "rows"}]
  /\ done \in [Tenant -> Seen]
  /\ gen \in Gen
  /\ reads \in [Key -> {None} \cup
       [of : Tenant, desk : Nat, fresh : BOOLEAN, slip : BOOLEAN]]
  /\ rows \in [Key -> {None} \cup [row : Row, fresh : BOOLEAN]]
  /\ th \in [Thread -> [at : Places, ten : {None} \cup Tenant, gen : Gen, due : Seen,
                        hand : Row]]
  /\ lock \in [Key -> {None} \cup Thread]

\* One build at a time per key: concurrent misses coalesce into one broker read
\* instead of stampeding the API (service.py:87-91).
OneBuilder ==
  \A x \in Thread, k \in Key :
    lock[k] = x <=> /\ th[x].at \notin {"idle", "asked", "wait"}
                    /\ KeyOf(x) = k

\* "A build that started BEFORE an invalidation must not be cached AFTER it"
\* (service.py:82-84): fresh reads and rows hold every finished change of their
\* tenant, except those stored in the step between comparison and store.
NothingOldIsFresh ==
  \A t \in Tenant :
    /\ Fresh(reads[t]) /\ ~ reads[t].slip => reads[t].desk >= done[t].desk
    /\ Fresh(rows[t]) /\ ~ rows[t].row.slip =>
         /\ rows[t].row.files >= done[t].files
         /\ rows[t].row.desk >= done[t].desk

\* The table a thread may leave with at its next step, failures apart: there it
\* is the last good build, however old, or the error itself.
Offered(x) ==
  CASE th[x].at \in {"asked", "wait"} /\ Fresh(rows[KeyOf(x)]) ->
         {rows[KeyOf(x)].row}
    [] th[x].at \in {"judgeRows", "keepRows"} -> {th[x].hand}
    [] OTHER -> {}

\* A dashboard is made of its own tenant's files and broker reads, although
\* every login has the same name (_ck, service.py:105-107).
TenantsApart ==
  \A x \in Thread : \A row \in Offered(x) : row.of = {th[x].ten}

\* A dashboard shows every change that was finished when it was asked for,
\* unless the broker failed, or its build slipped in between comparison and
\* store.
ShowsFinished ==
  \A x \in Thread : \A row \in Offered(x) :
    ~ row.slip => /\ row.files >= th[x].due.files
                  /\ row.desk >= th[x].due.desk

\* A builder always gives its key's lock back, failing broker or not: no table
\* waits for ever on a build that is not running.
LockReturns ==
  \A x \in Thread, k \in Key : lock[k] = x ~> lock[k] # x
=============================================================================
