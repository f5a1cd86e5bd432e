------------------------------- MODULE TcApply -------------------------------
(***************************************************************************)
(* TopHat Rabbit's writer of the Tradecopia database (rabbit/tc_apply.py): *)
(* run() computes the difference between the arrangement TopHat wants and  *)
(* the rows, stops the copier, backs the files up, writes in one           *)
(* transaction, starts the copier again, watches the rows through its      *)
(* boot, and goes back when they do not survive.                           *)
(*                                                                         *)
(* Writers are the processes that may call run at the same time: the loop  *)
(* of rabbit.py and a "once" from a terminal.  Beside them act the copier  *)
(* (its boot reconciliation, its trades), its user (its window, starting   *)
(* and closing it) and failures; all of those draw on the bound MaxEvents. *)
(* An account name is its accounts.id; a follower's Cfg stands for scale   *)
(* and replicate (contract_type is always "Standard" in an export).        *)
(***************************************************************************)
EXTENDS Integers, FiniteSets

CONSTANTS
  Writers,
  Acct,       \* account names a payload can carry
  Known,      \* those connected in Tradecopia under exactly one row
  Gid,        \* group ids; run draws fresh ones (uuid4) among the unused
  Cfg,        \* follower settings
  Payloads,   \* the desired states TopHat can send
  FirstRows,  \* the arrangements to start from
  StartAlways,\* cfg start_always
  Faults,     \* which failures and outside acts happen
  MaxRuns, MaxEvents,   \* bounds
  Torn, None

Link == [gid : Gid, cfg : Cfg]
Rows == [groups : SUBSET Gid, leader : [Gid -> Acct \cup {None}], fol : [Acct -> Link \cup {None}]]

\* What the keys of Tradecopia's tables allow: an account leads one group, and a leader row is
\* one of a group that is there.
Keyed(r) ==
  /\ \A g, h \in Gid : r.leader[g] = r.leader[h] => g = h \/ r.leader[g] = None
  /\ \A g \in Gid : r.leader[g] # None => g \in r.groups

ASSUME TcApplyAssumption ==
  /\ Known \subseteq Acct /\ IsFiniteSet(Gid)
  /\ Payloads \subseteq SUBSET [leader : Acct, fols : SUBSET [acct : Acct, cfg : Cfg]]
  /\ FirstRows \subseteq Rows /\ \A r \in FirstRows : Keyed(r)
  /\ StartAlways \in BOOLEAN
  /\ MaxRuns \in Nat /\ MaxEvents \in Nat
  /\ None \notin Acct \cup Gid \cup Writers \cup Link \cup Rows
  /\ Torn \notin Rows /\ Torn # None

VARIABLES
  rows,     \* groups, leader and follower tables (or Torn)
  open,     \* accounts with net_pos # 0 in the positions table
  schema,   \* the schema and user guards match
  app,      \* Tradecopia: "down", "boot", "up", "closing"
  lock,     \* the writer whose pid is in .rabbit-lock, or None
  pc, want, ops, was, saved, why, result,   \* per writer: the locals of run
  calm,     \* history: nobody else changed the rows since this writer read them
  guest,    \* history: somebody started the copier since the lock was taken
  stopped,  \* history: a run asked the copier to close and nobody has started it since
  runs, events

local == <<pc, want, ops, was, saved, why, result>>
vars == <<rows, open, schema, app, lock, local, calm, guest, stopped, runs, events>>

NoOps == [create |-> {}, drop |-> {}, upsert |-> {}, delete |-> {},
          gidOf |-> [l \in {} |-> None], target |-> [a \in {} |-> None]]

------------------------------------------------------------------------------
(* The payload and the difference                                           *)

Leaders(p) == {g.leader : g \in p}
Followers(p) == UNION {{f.acct : f \in g.fols} : g \in p}
GroupOf(p, a) == CHOOSE g \in p : \E f \in g.fols : f.acct = a
CfgOf(p, a) == (CHOOSE f \in GroupOf(p, a).fols : f.acct = a).cfg

\* parse_desired accepts p.
Parses(p) ==
  /\ \A g \in p : g.fols # {}
  /\ \A g, h \in p : g.leader = h.leader => g = h
  /\ \A g, h \in p : \A f \in g.fols, e \in h.fols : f.acct = e.acct => g = h /\ f = e
  /\ Leaders(p) \cap Followers(p) = {}

HasGroup(r, l) == \E g \in Gid : r.leader[g] = l
\* A choice of fresh ids for the leaders that lead no group yet.
FreshIds(p, r, free) ==
  LET new == {l \in Leaders(p) : ~HasGroup(r, l)}
  IN  {f \in [new -> free] : \A k, l \in new : f[k] = f[l] => k = l}

\* The id of each desired leader's group: its own, or a fresh one.
GroupIds(p, r, fresh) ==
  [l \in Leaders(p) |-> IF HasGroup(r, l) THEN CHOOSE g \in Gid : r.leader[g] = l ELSE fresh[l]]

\* Groups nobody asked for, and groups without a leader row.
DroppedNoSweep(p, r) == {g \in Gid : r.leader[g] # None /\ r.leader[g] \notin Leaders(p)}
Dropped(p, r) ==
  {g \in Gid : IF r.leader[g] = None THEN g \in r.groups ELSE r.leader[g] \notin Leaders(p)}

DeletedWithGroup(p, r) ==
  {a \in Acct \ Followers(p) : r.fol[a] # None /\ r.leader[r.fol[a].gid] \notin Leaders(p)}
Deleted(p, r) == {a \in Acct \ Followers(p) : r.fol[a] # None}

\* resolve: the row operations that turn r into p.
Resolve(p, r, fresh) ==
  LET gidOf  == GroupIds(p, r, fresh)
      target == [a \in Followers(p) |->
                   [gid |-> gidOf[GroupOf(p, a).leader], cfg |-> CfgOf(p, a)]]
  IN  [create |-> {l \in Leaders(p) : ~HasGroup(r, l)},
       drop   |-> Dropped(p, r),
       upsert |-> {a \in Followers(p) : r.fol[a] # target[a]},
       delete |-> Deleted(p, r),
       gidOf  |-> gidOf,
       target |-> target]

Empty(o) == o.create = {} /\ o.drop = {} /\ o.upsert = {} /\ o.delete = {}
NewIds(o) == {o.gidOf[l] : l \in o.create}

\* The operator's names and the copier's positions allow the operations.
Resolvable(p) == Leaders(p) \cup Followers(p) \subseteq Known
Touches(p, o) == Leaders(p) \cup Followers(p) \cup o.delete

\* apply_ops: creations, upserts and deletions of followers, then the dropped groups.
Applied(o, r) ==
  LET ids == NewIds(o)
      fol == [a \in Acct |-> IF a \in o.delete THEN None
                             ELSE IF a \in o.upsert THEN o.target[a] ELSE r.fol[a]]
  IN  [groups |-> (r.groups \cup ids) \ o.drop,
       leader |-> [g \in Gid |-> IF g \in o.drop THEN None
                                 ELSE IF g \in ids THEN CHOOSE l \in o.create : o.gidOf[l] = g
                                 ELSE r.leader[g]],
       fol    |-> [a \in Acct |-> IF fol[a] # None /\ fol[a].gid \in o.drop
                                  THEN None ELSE fol[a]]]

\* The primary key of group_leader_accounts is the account.
Conflicts(o, r) == \E l \in o.create : HasGroup(r, l)

\* verify_state: every desired row is there (rows in excess are not looked for).
Survives(p, o, r) ==
  /\ \A l \in Leaders(p) : o.gidOf[l] \in r.groups /\ r.leader[o.gidOf[l]] = l
  /\ \A a \in Followers(p) : r.fol[a] = o.target[a]

------------------------------------------------------------------------------

Running == app # "down"
Inside(w) == pc[w] \notin {"idle", "lock"}
Happens(f) == f \in Faults /\ events < MaxEvents
Cost == events' = events + 1
Used == (IF rows = Torn THEN {} ELSE rows.groups)
        \cup UNION {NewIds(ops[w]) : w \in Writers}
        \cup UNION {IF saved[w] \in {None, Torn} THEN {} ELSE saved[w].groups : w \in Writers}

\* Everybody but w sees the rows change under them.
Disturb(w) == calm' = [x \in Writers |-> IF x = w THEN calm[x] ELSE FALSE]
Goto(w, l) == pc' = [pc EXCEPT ![w] = l]
ReturnUnlinks(w, r) ==
  /\ Goto(w, "idle")
  /\ result' = [result EXCEPT ![w] = r]
  /\ ops' = [ops EXCEPT ![w] = NoOps]
  /\ saved' = [saved EXCEPT ![w] = None]
  /\ lock' = None
  /\ UNCHANGED <<want, was, why>>
\* run returns: its locals die, and its finally clause removes the lock it took.
Return(w, r) ==
  /\ Goto(w, "idle")
  /\ result' = [result EXCEPT ![w] = r]
  /\ ops' = [ops EXCEPT ![w] = NoOps]
  /\ saved' = [saved EXCEPT ![w] = None]
  /\ lock' = IF Inside(w) THEN None ELSE lock
  /\ UNCHANGED <<want, was, why>>

StartApp == app' = (IF app = "down" THEN "boot" ELSE app) /\ stopped' = FALSE
QuitApp == /\ app' = IF Running THEN "closing" ELSE app
           /\ stopped' = (stopped \/ Running)

------------------------------------------------------------------------------
(* run                                                                      *)

\* Preflight: parse, read the rows while the copier may be up, resolve.  read_state's SELECTs are
\* one read: no edit falls between them.
Preflight(w, p) ==
  /\ pc[w] = "idle" /\ runs < MaxRuns
  /\ runs' = runs + 1
  /\ calm' = [calm EXCEPT ![w] = TRUE]
  /\ \/ /\ rows = Torn
        /\ Return(w, "raised")
     \/ /\ rows # Torn
        /\ ~Parses(p) \/ ~schema \/ ~Resolvable(p)
        /\ Return(w, "aborted")
     \/ /\ rows # Torn /\ Parses(p) /\ schema /\ Resolvable(p)
        /\ \E fresh \in FreshIds(p, rows, Gid \ Used) :
             LET o == Resolve(p, rows, fresh)
             IN  \/ Empty(o) /\ Return(w, "noop")
                 \/ ~Empty(o) /\ Touches(p, o) \cap open # {} /\ Return(w, "aborted")
                 \/ /\ ~Empty(o) /\ Touches(p, o) \cap open = {}
                    /\ Goto(w, "lock")
                    /\ want' = [want EXCEPT ![w] = p]
                    /\ ops' = [ops EXCEPT ![w] = o]
                    /\ result' = [result EXCEPT ![w] = "none"]
                    /\ UNCHANGED <<was, saved, why, lock>>
  /\ UNCHANGED <<rows, open, schema, app, stopped, guest, events>>

\* The blackout check, then O_CREAT | O_EXCL on the lock file.
TakeLock(w) ==
  /\ pc[w] = "lock"
  /\ \/ /\ Happens("blackout") /\ Cost /\ Return(w, "aborted")
        /\ UNCHANGED guest
     \/ /\ lock # None /\ Return(w, "aborted")
        /\ UNCHANGED <<guest, events>>
     \/ /\ lock = None
        /\ lock' = w /\ guest' = FALSE
        /\ Goto(w, "quit")
        /\ UNCHANGED <<want, ops, was, saved, why, result, events>>
  /\ UNCHANGED <<rows, open, schema, app, stopped, calm, runs>>

Quit(w) ==
  /\ pc[w] = "quit"
  /\ was' = [was EXCEPT ![w] = Running]
  /\ QuitApp /\ Goto(w, "wait")
  /\ UNCHANGED <<rows, open, schema, lock, want, ops, saved, why, result, calm, guest, runs, events>>

ExclusiveUnchecked(w) ==
  /\ pc[w] \in {"wait", "rewait"}
  /\ Goto(w, IF pc[w] = "wait" THEN "backup" ELSE "undo")
  /\ UNCHANGED <<rows, open, schema, app, stopped, lock, want, ops, was, saved, why, result, calm, guest, runs, events>>

\* wait_exclusive saw the process gone and got BEGIN IMMEDIATE.
Exclusive(w) ==
  /\ pc[w] \in {"wait", "rewait"} /\ ~Running
  /\ Goto(w, IF pc[w] = "wait" THEN "backup" ELSE "undo")
  /\ UNCHANGED <<rows, open, schema, app, stopped, lock, want, ops, was, saved, why, result, calm, guest, runs, events>>

QuitTimeoutClosing(w) ==
  /\ pc[w] \in {"wait", "rewait"} /\ app = "closing"
  /\ Happens("slowquit") /\ Cost
  /\ Return(w, IF pc[w] = "wait" THEN "timeout" ELSE "restore_failed")
  /\ UNCHANGED <<rows, open, schema, app, stopped, calm, guest, runs>>

\* It did not in quit_timeout_s: a copier asked to close may still do so later, one that was
\* started again in the meantime is not asked twice, and one that is gone may leave its database
\* locked.  The first wait reports "aborted" and leaves everything as it is.
QuitTimeout(w) ==
  /\ pc[w] \in {"wait", "rewait"}
  /\ \/ app \in {"boot", "up"} /\ UNCHANGED events
     \/ app = "closing" /\ Happens("slowquit") /\ Cost
     \/ app = "down" /\ Happens("busy") /\ Cost
  /\ Return(w, IF pc[w] = "wait" THEN "timeout" ELSE "restore_failed")
  /\ UNCHANGED <<rows, open, schema, app, stopped, calm, guest, runs>>

BackupIfRunning(w) ==
  /\ pc[w] = "backup"
  /\ saved' = [saved EXCEPT ![w] = IF was[w] THEN rows ELSE @]
  /\ Goto(w, "write")
  /\ UNCHANGED <<rows, open, schema, app, stopped, lock, want, ops, was, why, result, calm, guest, runs, events>>

\* make_backup then prune_backups; an OSError escapes run.
Backup(w) ==
  /\ pc[w] = "backup"
  /\ \/ /\ saved' = [saved EXCEPT ![w] = rows]
        /\ Goto(w, "write")
        /\ UNCHANGED <<lock, want, ops, was, why, result, events>>
     \/ Happens("copyfail") /\ Cost /\ Return(w, "raised")
  /\ UNCHANGED <<rows, open, schema, app, stopped, calm, guest, runs>>

\* apply_ops in one IMMEDIATE transaction, or a rollback on any SQL error.
Write(w) ==
  /\ pc[w] = "write"
  /\ \/ /\ rows # Torn /\ ~Conflicts(ops[w], rows)
        /\ rows' = Applied(ops[w], rows)
        /\ Disturb(w) /\ Goto(w, "relaunch")
        /\ UNCHANGED <<why, events>>
     \/ /\ \/ (rows = Torn \/ Conflicts(ops[w], rows)) /\ UNCHANGED events
           \/ Happens("sqlfail") /\ Cost
        /\ why' = [why EXCEPT ![w] = "sql"]
        /\ Goto(w, "undo")
        /\ UNCHANGED <<rows, calm>>
  /\ UNCHANGED <<open, schema, app, stopped, lock, want, ops, was, saved, result, guest, runs>>

Relaunch(w) ==
  /\ pc[w] = "relaunch"
  /\ IF was[w] \/ StartAlways THEN StartApp ELSE UNCHANGED <<app, stopped>>
  /\ Goto(w, "verify")
  /\ UNCHANGED <<rows, open, schema, lock, want, ops, was, saved, why, result, calm, guest, runs, events>>

\* The settle window ends on rows that survived; its length should cover the boot.
VerifyGood(w) ==
  /\ pc[w] = "verify"
  /\ rows # Torn /\ Survives(want[w], ops[w], rows)
  /\ app = "boot" => Happens("slowboot")
  /\ IF app = "boot" THEN Cost ELSE UNCHANGED events
  /\ Return(w, "applied")
  /\ UNCHANGED <<rows, open, schema, app, stopped, calm, guest, runs>>

\* A read inside the window found damage, or no read succeeded; is_running decides on the quit.
VerifyBad(w) ==
  /\ pc[w] = "verify"
  /\ \/ (rows = Torn \/ ~Survives(want[w], ops[w], rows)) /\ UNCHANGED events
     \/ Happens("readfail") /\ Cost
  /\ why' = [why EXCEPT ![w] = "verify"]
  /\ QuitApp
  /\ Goto(w, IF Running THEN "rewait" ELSE "undo")
  /\ UNCHANGED <<rows, open, schema, lock, want, ops, was, saved, result, calm, guest, runs>>

\* restore_backup copies the db, -wal and -shm files one after the other.
RestoreFirst(w) ==
  /\ pc[w] = "undo"
  /\ rows' = Torn
  /\ Disturb(w) /\ Goto(w, "undo2")
  /\ UNCHANGED <<open, schema, app, stopped, lock, want, ops, was, saved, why, result, guest, runs, events>>

RestoreRest(w) ==
  /\ pc[w] = "undo2"
  /\ \/ /\ rows' = saved[w]
        /\ Disturb(w) /\ Goto(w, "restart")
        /\ UNCHANGED <<lock, want, ops, was, saved, why, result, events>>
     \/ /\ Happens("copyfail") /\ Cost
        /\ Return(w, IF why[w] = "sql" THEN "raised" ELSE "restore_failed")
        /\ UNCHANGED <<rows, calm>>
  /\ UNCHANGED <<open, schema, app, stopped, guest, runs>>

RestartAfterSql(w) ==
  /\ pc[w] = "restart"
  /\ IF why[w] = "sql" /\ (was[w] \/ StartAlways) THEN StartApp ELSE UNCHANGED <<app, stopped>>
  /\ Return(w, IF why[w] = "sql" THEN "aborted" ELSE "rolled_back")
  /\ UNCHANGED <<rows, open, schema, calm, guest, runs, events>>

Restart(w) ==
  /\ pc[w] = "restart"
  /\ IF was[w] \/ StartAlways THEN StartApp ELSE UNCHANGED <<app, stopped>>
  /\ Return(w, IF why[w] = "sql" THEN "aborted" ELSE "rolled_back")
  /\ UNCHANGED <<rows, open, schema, calm, guest, runs, events>>

\* tasklist, taskkill or the start of the copier raises, and the exception escapes run; a taskkill
\* that timed out may have closed the copier all the same.
AppError(w) ==
  /\ pc[w] \in {"quit", "wait", "rewait", "relaunch", "verify", "restart"}
  /\ pc[w] \in {"relaunch", "restart"} => was[w] \/ StartAlways
  /\ pc[w] = "verify" => rows = Torn \/ ~Survives(want[w], ops[w], rows) \/ "readfail" \in Faults
  /\ Happens("apperror") /\ Cost
  /\ \/ UNCHANGED <<app, stopped>>
     \/ pc[w] \in {"quit", "verify"} /\ QuitApp
  /\ Return(w, "raised")
  /\ UNCHANGED <<rows, open, schema, calm, guest, runs>>

\* The process dies: no finally clause runs, the lock file stays.
Crash(w) ==
  /\ pc[w] # "idle"
  /\ Happens("crash") /\ Cost
  /\ Goto(w, "idle")
  /\ result' = [result EXCEPT ![w] = "crashed"]
  /\ ops' = [ops EXCEPT ![w] = NoOps]
  /\ saved' = [saved EXCEPT ![w] = None]
  /\ UNCHANGED <<rows, open, schema, app, stopped, lock, want, was, why, calm, guest, runs>>

Step(w) == \/ TakeLock(w) \/ Quit(w) \/ Exclusive(w) \/ QuitTimeout(w) \/ Backup(w) \/ Write(w)
           \/ Relaunch(w) \/ VerifyGood(w) \/ VerifyBad(w) \/ RestoreFirst(w) \/ RestoreRest(w)
           \/ Restart(w)
------------------------------------------------------------------------------
(* The copier and its user                                                  *)

AppExit ==
  /\ app = "closing"
  /\ app' = "down"
  /\ UNCHANGED <<rows, open, schema, lock, local, calm, guest, stopped, runs, events>>

\* The boot reconciliation: leaderless groups go, and sometimes rows it does not accept.
AppBoot ==
  /\ app = "boot"
  /\ app' = "up"
  /\ \/ /\ rows = Torn
        /\ UNCHANGED <<rows, calm, events>>
     \/ /\ rows # Torn
        /\ rows' = [rows EXCEPT !.groups = {g \in @ : rows.leader[g] # None}]
        /\ IF rows' = rows THEN UNCHANGED calm ELSE Disturb(None)
        /\ UNCHANGED events
     \/ /\ rows # Torn /\ Happens("bootdrop") /\ Cost
        /\ \E a \in Acct : rows' = [rows EXCEPT !.fol[a] = None]
        /\ Disturb(None)
  /\ UNCHANGED <<open, schema, lock, local, guest, stopped, runs>>

\* Tradecopia updates itself: the schema guard of the next preflight trips.
AppUpdates ==
  /\ app = "boot" /\ schema /\ Happens("update") /\ Cost
  /\ schema' = FALSE
  /\ UNCHANGED <<rows, open, app, stopped, lock, local, calm, guest, runs>>

UserEdits ==
  /\ app = "up" /\ rows # Torn
  /\ Happens("edit") /\ Cost
  /\ \/ \E a \in Known, g \in rows.groups, c \in Cfg :
          rows.leader[g] \notin {None, a} /\ rows' = [rows EXCEPT !.fol[a] = [gid |-> g, cfg |-> c]]
     \/ \E a \in Known : rows.fol[a] # None /\ rows' = [rows EXCEPT !.fol[a] = None]
     \/ \E l \in Known, g \in Gid \ Used :
          /\ ~HasGroup(rows, l)
          /\ rows' = [rows EXCEPT !.groups = @ \cup {g}, !.leader[g] = l]
     \/ \E g \in rows.groups :
          rows' = [groups |-> rows.groups \ {g}, leader |-> [rows.leader EXCEPT ![g] = None],
                   fol |-> [a \in Acct |-> IF rows.fol[a] # None /\ rows.fol[a].gid = g
                                           THEN None ELSE rows.fol[a]]]
  /\ Disturb(None)
  /\ UNCHANGED <<open, schema, app, stopped, lock, local, guest, runs>>

PositionMoves ==
  /\ app = "up" /\ Happens("position") /\ Cost
  /\ \E a \in Known : open' = (open \cup {a}) \ (open \cap {a})
  /\ UNCHANGED <<rows, schema, app, stopped, lock, local, calm, guest, runs>>

\* By hand, or by rabbit's reconnect mode, which takes no lock.
UserStarts ==
  /\ app = "down" /\ Happens("start") /\ Cost
  /\ app' = "boot" /\ guest' = (lock # None) /\ stopped' = FALSE
  /\ UNCHANGED <<rows, open, schema, lock, local, calm, runs>>

UserQuits ==
  /\ app = "up" /\ Happens("quit") /\ Cost
  /\ app' = "closing"
  /\ UNCHANGED <<rows, open, schema, lock, local, calm, guest, stopped, runs>>

Init ==
  /\ rows \in FirstRows /\ open = {} /\ schema = TRUE
  /\ app \in {"up", "down"} /\ lock = None
  /\ pc = [w \in Writers |-> "idle"]
  /\ want = [w \in Writers |-> {}] /\ ops = [w \in Writers |-> NoOps]
  /\ was = [w \in Writers |-> FALSE] /\ saved = [w \in Writers |-> None]
  /\ why = [w \in Writers |-> "none"] /\ result = [w \in Writers |-> "none"]
  /\ calm = [w \in Writers |-> TRUE] /\ guest = FALSE /\ stopped = FALSE
  /\ runs = 0 /\ events = 0

Next == \/ \E w \in Writers, p \in Payloads : Preflight(w, p)
        \/ \E w \in Writers : Step(w) \/ AppError(w) \/ Crash(w)
        \/ AppExit \/ AppBoot \/ AppUpdates \/ UserEdits \/ PositionMoves \/ UserStarts \/ UserQuits

\* A process that runs keeps running, and a copier asked to close or booting gets there.
Fairness == /\ \A w \in Writers : WF_vars(Step(w))
            /\ WF_vars(AppExit) /\ WF_vars(AppBoot)

Spec == Init /\ [][Next]_vars /\ Fairness
------------------------------------------------------------------------------
(* Properties                                                               *)

TypeOK ==
  /\ rows \in Rows \cup {Torn} /\ open \subseteq Acct /\ schema \in BOOLEAN
  /\ app \in {"down", "boot", "up", "closing"} /\ lock \in Writers \cup {None}
  /\ pc \in [Writers -> {"idle", "lock", "quit", "wait", "backup", "write", "relaunch",
                         "verify", "rewait", "undo", "undo2", "restart"}]
  /\ \A w \in Writers : saved[w] \in Rows \cup {Torn, None}
  /\ was \in [Writers -> BOOLEAN] /\ calm \in [Writers -> BOOLEAN] /\ guest \in BOOLEAN
  /\ stopped \in BOOLEAN

\* The .rabbit-lock file keeps two runs apart from the quit to the last restore: whoever is
\* past it holds it, also after crashes and while another run's finally clause removes its own.
OneWriter == \A w \in Writers : Inside(w) => lock = w

\* Hard rule 1: run copies, writes and restores files only with the copier down - unless
\* somebody started it behind the exclusive check, which is made once and never again.
WritesAlone ==
  \A w \in Writers : pc[w] \in {"backup", "write", "undo", "undo2"} => ~Running \/ guest

\* In every state: well-formed rows, one run past the lock, and no copier beside its writes.
Inv == TypeOK /\ OneWriter /\ WritesAlone

\* The arrangement p and nothing else: p's groups, each follower where it belongs, no orphans.
Exactly(p, r) ==
  /\ {r.leader[g] : g \in r.groups} = Leaders(p)
  /\ \A g, h \in r.groups : r.leader[g] = r.leader[h] => g = h
  /\ \A g \in Gid \ r.groups : r.leader[g] = None
  /\ \A a \in Acct :
       IF a \in Followers(p)
       THEN /\ r.fol[a] # None /\ r.fol[a].cfg = CfgOf(p, a)
            /\ r.leader[r.fol[a].gid] = GroupOf(p, a).leader
       ELSE r.fol[a] = None

\* Hard rule 8 (the desired state is complete): a run reported as applied leaves exactly the
\* arrangement asked for, if nobody else changed the rows after run read them.  Verification
\* looks only for missing rows, so this rests on the difference and the transaction.
AppliedExact ==
  [][\A w \in Writers : result'[w] = "applied" /\ pc[w] = "verify" /\ calm[w]
                         => Exactly(want[w], rows)]_vars

\* What resolve computes on whatever rows the copier, its user and failed runs left: applied,
\* they become the payload, and resolving again finds nothing to do (the noop of the next run).
Idempotent ==
  rows # Torn =>
    \A p \in Payloads : Parses(p) =>
      \A fresh \in FreshIds(p, rows, Gid \ Used) :
        LET r == Applied(Resolve(p, rows, fresh), rows)
        IN  Exactly(p, r) /\ Empty(Resolve(p, r, <<>>))

\* A run that found the copier running does not end with a copier it asked to close and nobody
\* started again - after the transaction, its rollback and the verification's alike - except for a
\* crash, an exception that escapes it, the failed restore it reports for the operator's attention,
\* and the quit that timed out, after which the copier may still close (reported as aborted).
CopierReturns ==
  [][\A w \in Writers : Inside(w) /\ was[w] /\ ~Inside(w)' /\ stopped'
                         => result'[w] \in {"crashed", "raised", "restore_failed", "timeout"}]_vars

\* Every run comes to an end: the waits are bounded and nobody waits for the other's lock.
RunEnds == \A w \in Writers : pc[w] # "idle" ~> pc[w] = "idle"

\* How far the holder of the lock is, in the words of the abstract specification.
Stage ==
  IF lock = None THEN "out"
  ELSE CASE pc[lock] \in {"quit", "wait", "backup"} -> "held"
         [] pc[lock] = "write" -> "saved"
         [] pc[lock] = "undo" /\ why[lock] = "sql" -> "saved"
         [] pc[lock] \in {"undo2", "restart"} -> "undone"
         [] pc[lock] \in {"idle", "lock"} -> "lost"
         [] OTHER -> "changed"

R == INSTANCE Rearrangement WITH
       rows <- rows, up <- Running, owner <- lock, stage <- Stage,
       saved <- IF lock = None THEN None ELSE saved[lock]

\* run implements Rearrangement: one change per lock, only from saved rows, and the only way
\* back is to what was saved.
Rearranges == R!Spec
==============================================================================
