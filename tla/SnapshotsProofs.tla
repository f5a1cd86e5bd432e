--------------------------- MODULE SnapshotsProofs ---------------------------
(***************************************************************************)
(* For any number of tenants, worker threads and changes: one build at a   *)
(* time per key, every dashboard made of its own tenant's data alone, and  *)
(* nothing older than the finished changes shown as fresh, but for what is *)
(* stored between a comparison and its store (the history flag `slip`).    *)
(***************************************************************************)
EXTENDS Snapshots, TLAPS

\* A thread with a request has it from a tenant, so KeyOf is a tenant's key.
Bound == \A x \in Thread : th[x].at # "idle" => th[x].ten \in Tenant
TypeInv == TypeOK /\ Bound

Thr == [at : Places, ten : {None} \cup Tenant, gen : Gen, due : Seen, hand : Row]

\* A step of one thread's record keeps the table of threads well typed.
LEMMA ThreadTyped ==
  ASSUME TypeInv, NEW x \in Thread, NEW r, th' = [th EXCEPT ![x] = r], r \in Thr,
         r.at # "idle" => r.ten \in Tenant
  PROVE  th' \in [Thread -> Thr] /\ Bound'
<1>1. th \in [Thread -> Thr]
  BY DEF TypeInv, TypeOK, Thr
<1>2. th' \in [Thread -> Thr]
  BY <1>1
<1>3. ASSUME NEW y \in Thread, th'[y].at # "idle" PROVE th'[y].ten \in Tenant
  BY <1>1, <1>3 DEF TypeInv, Bound
<1> QED
  BY <1>2, <1>3 DEF Bound

\* The first state is typed.
LEMMA InitTypeInv == Init => TypeInv
<1> SUFFICES ASSUME Init PROVE TypeInv
  OBVIOUS
<1>1. Idle \in Thr
  BY DEF Idle, Thr, Places, Gen, Seen, Row
<1>2. th \in [Thread -> Thr] /\ Bound
  BY <1>1 DEF Init, Bound, Idle
<1> QED
  BY <1>2 DEF Init, TypeInv, TypeOK, Thr, Gen, Seen

\* Staling an entry keeps its type.
LEMMA StaledTyped ==
  ASSUME NEW R, NEW cache \in [Key -> {None} \cup R],
         \A e \in R : [e EXCEPT !.fresh = FALSE] \in R
  PROVE  Staled(cache) \in [Key -> {None} \cup R]
BY DEF Staled

\* A change of a tenant's data, or its invalidation, keeps the types.
LEMMA ChangeTypeInv ==
  ASSUME TypeInv, NEW t \in Tenant, Saves(t) \/ Trades(t) \/ Invalidates(t)
  PROVE  TypeInv'
<1> USE DEF TypeInv, TypeOK, Bound
<1>1. CASE Saves(t)
  BY <1>1 DEF Saves
<1>2. CASE Trades(t)
  BY <1>2 DEF Trades
<1>3. CASE InvalidateReads(t)
  <2>1. reads' \in [Key -> {None} \cup
          [of : Tenant, desk : Nat, fresh : BOOLEAN, slip : BOOLEAN]]
    BY <1>3, StaledTyped DEF InvalidateReads
  <2> QED
    BY <1>3, <2>1 DEF InvalidateReads, Gen
<1>4. CASE InvalidateRows(t)
  <2>1. rows' \in [Key -> {None} \cup [row : Row, fresh : BOOLEAN]]
    BY <1>4, StaledTyped DEF InvalidateRows
  <2> QED
    BY <1>4, <2>1 DEF InvalidateRows, Gen, Seen
<1> QED
  BY <1>1, <1>2, <1>3, <1>4 DEF Invalidates

\* What a thread has in hand, and its key.
LEMMA ThreadFacts ==
  ASSUME TypeInv, NEW x \in Thread
  PROVE  /\ th \in [Thread -> Thr] /\ th[x] \in Thr
         /\ th[x].at # "idle" => KeyOf(x) \in Key /\ KeyOf(x) = th[x].ten /\ th[x].ten \in Tenant
BY DEF TypeInv, TypeOK, Bound, Thr, KeyOf, Ck, Key

\* A thread that only moves on keeps everything well typed.
LEMMA GoesTyped ==
  ASSUME TypeInv, NEW x \in Thread, NEW p \in Places \ {"idle"}, th[x].at # "idle", Goes(x, p)
  PROVE  th' \in [Thread -> Thr] /\ Bound'
<1>1. th[x] \in Thr /\ th[x].ten \in Tenant
  BY ThreadFacts
<1> DEFINE r == [th[x] EXCEPT !.at = p]
<1>2. r \in Thr /\ r.at = p /\ r.ten = th[x].ten
  BY <1>1 DEF Thr
<1>3. th' = [th EXCEPT ![x] = r]
  BY DEF Goes
<1> HIDE DEF r
<1> QED
  BY <1>1, <1>2, <1>3, ThreadTyped

\* A thread that leaves keeps the threads typed and the bound.
LEMMA LeavesTyped ==
  ASSUME TypeInv, NEW x \in Thread, Leaves(x)
  PROVE  th' \in [Thread -> Thr] /\ Bound'
<1>1. Idle \in Thr /\ Idle.at = "idle"
  BY DEF Idle, Thr, Places, Gen, Seen, Row
<1> QED
  BY <1>1, ThreadTyped DEF Leaves

\* Asking and building keep the types.
LEMMA BuildTypeInv ==
  ASSUME TypeInv, NEW x \in Thread, Builds(x) \/ \E t \in Tenant : Asks(x, t)
  PROVE  TypeInv'
<1> USE DEF changes
<1>f. /\ th \in [Thread -> Thr] /\ th[x] \in Thr
      /\ th[x].at # "idle" => KeyOf(x) \in Key /\ KeyOf(x) = th[x].ten /\ th[x].ten \in Tenant
  BY ThreadFacts
<1>t. ASSUME th' \in [Thread -> Thr], Bound', UNCHANGED <<changes, gen>>,
             reads' \in [Key -> {None} \cup
               [of : Tenant, desk : Nat, fresh : BOOLEAN, slip : BOOLEAN]],
             rows' \in [Key -> {None} \cup [row : Row, fresh : BOOLEAN]],
             lock' \in [Key -> {None} \cup Thread]
      PROVE  TypeInv'
  BY <1>t DEF TypeInv, TypeOK, Thr
<1>o. /\ reads \in [Key -> {None} \cup
               [of : Tenant, desk : Nat, fresh : BOOLEAN, slip : BOOLEAN]]
      /\ rows \in [Key -> {None} \cup [row : Row, fresh : BOOLEAN]]
      /\ lock \in [Key -> {None} \cup Thread]
      /\ gen \in Gen /\ files \in [Tenant -> Nat] /\ desk \in [Tenant -> Nat]
      /\ done \in [Tenant -> Seen]
  BY DEF TypeInv, TypeOK
<1>r. Released(x) => lock' \in [Key -> {None} \cup Thread]
  BY <1>o DEF Released
<1>1. ASSUME NEW t \in Tenant, Asks(x, t) PROVE TypeInv'
  <2> DEFINE r == [th[x] EXCEPT !.at = "asked", !.ten = t, !.due = done[t]]
  <2>1. r \in Thr /\ r.ten = t
    BY <1>f, <1>o DEF Thr, Places
  <2>2. th' = [th EXCEPT ![x] = r]
    BY <1>1 DEF Asks
  <2> HIDE DEF r
  <2>3. th' \in [Thread -> Thr] /\ Bound'
    BY <2>1, <2>2, ThreadTyped
  <2> QED
    BY <1>1, <1>t, <1>o, <2>3 DEF Asks
<1>2. CASE Hits(x)
  BY <1>2, <1>t, <1>o, LeavesTyped DEF Hits
<1>3. CASE Misses(x)
  <2>1. th' \in [Thread -> Thr] /\ Bound'
    BY <1>3, GoesTyped DEF Misses, Places
  <2> QED
    BY <1>3, <1>t, <1>o, <2>1 DEF Misses
<1>4. CASE Follows(x)
  BY <1>4, <1>t, <1>o, LeavesTyped DEF Follows
<1>5. CASE Enters(x)
  <2> DEFINE r == [th[x] EXCEPT !.at = "load", !.gen.rows = gen.rows]
  <2>1. r \in Thr /\ r.ten = th[x].ten
    BY <1>f, <1>o DEF Thr, Places, Gen
  <2>2. th' = [th EXCEPT ![x] = r]
    BY <1>5 DEF Enters
  <2>3. th[x].ten \in Tenant
    BY <1>5, <1>f DEF Enters
  <2> HIDE DEF r
  <2>4. th' \in [Thread -> Thr] /\ Bound'
    BY <2>1, <2>2, <2>3, ThreadTyped
  <2>5. lock' \in [Key -> {None} \cup Thread]
    BY <1>5, <1>o DEF Enters
  <2> QED
    BY <1>5, <1>t, <1>o, <2>4, <2>5 DEF Enters
<1>6. CASE Loads(x)
  <2>3. th[x].ten \in Tenant
    BY <1>6, <1>f DEF Loads
  <2> DEFINE h == [of |-> {th[x].ten}, files |-> files[th[x].ten], desk |-> 0, slip |-> FALSE]
  <2> DEFINE r == [th[x] EXCEPT !.at = "reading", !.hand = h, !.gen.reads = gen.reads]
  <2>0. h \in Row
    BY <1>o, <2>3 DEF Row
  <2>2. th' = [th EXCEPT ![x] = r]
    BY <1>6 DEF Loads
  <2> HIDE DEF h
  <2>1. r \in Thr /\ r.ten = th[x].ten
    BY <1>f, <1>o, <2>0 DEF Thr, Places, Gen
  <2> HIDE DEF r
  <2>4. th' \in [Thread -> Thr] /\ Bound'
    BY <2>1, <2>2, <2>3, ThreadTyped
  <2> QED
    BY <1>6, <1>t, <1>o, <2>4 DEF Loads
<1>7. CASE LoadsKept(x)
  <2> DEFINE kept == reads[KeyOf(x)]
  <2>3. th[x].ten \in Tenant /\ KeyOf(x) \in Key
    BY <1>7, <1>f DEF LoadsKept
  <2>5. kept \in [of : Tenant, desk : Nat, fresh : BOOLEAN, slip : BOOLEAN]
    BY <1>7, <1>o, <2>3 DEF LoadsKept, Fresh
  <2> DEFINE h == [of |-> {th[x].ten, kept.of}, files |-> files[th[x].ten],
                   desk |-> kept.desk, slip |-> kept.slip]
  <2> DEFINE r == [th[x] EXCEPT !.at = "judgeRows", !.hand = h]
  <2>2. th' = [th EXCEPT ![x] = r]
    BY <1>7 DEF LoadsKept
  <2> HIDE DEF kept
  <2>0. h \in Row
    BY <1>o, <2>3, <2>5 DEF Row
  <2> HIDE DEF h
  <2>1. r \in Thr /\ r.ten = th[x].ten
    BY <1>f, <2>0 DEF Thr, Places
  <2> HIDE DEF r
  <2>4. th' \in [Thread -> Thr] /\ Bound'
    BY <2>1, <2>2, <2>3, ThreadTyped
  <2> QED
    BY <1>7, <1>t, <1>o, <2>4 DEF LoadsKept
<1>8. CASE Reads(x)
  <2>3. th[x].ten \in Tenant
    BY <1>8, <1>f DEF Reads
  <2> DEFINE r == [th[x] EXCEPT !.at = "judgeReads", !.hand.desk = desk[th[x].ten]]
  <2>1. r \in Thr /\ r.ten = th[x].ten
    BY <1>f, <1>o, <2>3 DEF Thr, Places, Row
  <2>2. th' = [th EXCEPT ![x] = r]
    BY <1>8 DEF Reads
  <2> HIDE DEF r
  <2>4. th' \in [Thread -> Thr] /\ Bound'
    BY <2>1, <2>2, <2>3, ThreadTyped
  <2> QED
    BY <1>8, <1>t, <1>o, <2>4 DEF Reads
<1>9. CASE Fails(x)
  BY <1>9, <1>t, <1>o, <1>r, LeavesTyped DEF Fails
<1>10. CASE JudgesReads(x)
  <2>1. th' \in [Thread -> Thr] /\ Bound'
    BY <1>10, GoesTyped DEF JudgesReads, Places
  <2> QED
    BY <1>10, <1>t, <1>o, <2>1 DEF JudgesReads
<1>11. CASE KeepsReads(x)
  <2>1. th' \in [Thread -> Thr] /\ Bound'
    BY <1>11, GoesTyped DEF KeepsReads, Places
  <2>2. th[x].ten \in Tenant /\ KeyOf(x) \in Key /\ th[x].hand.desk \in Nat
    BY <1>11, <1>f DEF KeepsReads, Thr, Row
  <2> DEFINE e == [of |-> th[x].ten, desk |-> th[x].hand.desk, fresh |-> TRUE,
                   slip |-> gen.reads # th[x].gen.reads]
  <2>3. e \in [of : Tenant, desk : Nat, fresh : BOOLEAN, slip : BOOLEAN]
    BY <2>2
  <2>4. reads' = [reads EXCEPT ![KeyOf(x)] = e]
    BY <1>11 DEF KeepsReads
  <2> HIDE DEF e
  <2>5. reads' \in [Key -> {None} \cup
               [of : Tenant, desk : Nat, fresh : BOOLEAN, slip : BOOLEAN]]
    BY <1>o, <2>2, <2>3, <2>4
  <2> QED
    BY <1>11, <1>t, <1>o, <2>1, <2>5 DEF KeepsReads
<1>12. CASE JudgesRows(x)
  <2>1. CASE gen.rows = th[x].gen.rows
    <3>1. th' \in [Thread -> Thr] /\ Bound'
      BY <1>12, <2>1, GoesTyped DEF JudgesRows, Places
    <3> QED
      BY <1>12, <2>1, <1>t, <1>o, <3>1 DEF JudgesRows
  <2>2. CASE gen.rows # th[x].gen.rows
    <3>1. th' \in [Thread -> Thr] /\ Bound'
      BY <1>12, <2>2, LeavesTyped DEF JudgesRows
    <3> QED
      BY <1>12, <2>2, <1>t, <1>o, <1>r, <3>1 DEF JudgesRows
  <2> QED
    BY <2>1, <2>2
<1>13. CASE KeepsRows(x)
  <2>1. th' \in [Thread -> Thr] /\ Bound'
    BY <1>13, LeavesTyped DEF KeepsRows
  <2>2. KeyOf(x) \in Key /\ th[x].hand \in Row
    BY <1>13, <1>f DEF KeepsRows, Thr
  <2> DEFINE late == gen.rows # th[x].gen.rows
  <2> DEFINE row == [th[x].hand EXCEPT !.slip = @ \/ late]
  <2>3. row \in Row
    BY <2>2 DEF Row
  <2>4. rows' = [rows EXCEPT ![KeyOf(x)] = [row |-> row, fresh |-> TRUE]]
    BY <1>13 DEF KeepsRows
  <2> HIDE DEF row
  <2>5. rows' \in [Key -> {None} \cup [row : Row, fresh : BOOLEAN]]
    BY <1>o, <2>2, <2>3, <2>4
  <2> QED
    BY <1>13, <1>t, <1>o, <1>r, <2>1, <2>5 DEF KeepsRows
<1> QED
  BY <1>1, <1>2, <1>3, <1>4, <1>5, <1>6, <1>7, <1>8, <1>9, <1>10, <1>11, <1>12, <1>13 DEF Builds

\* Every step keeps the types.
LEMMA NextTypeInv == TypeInv /\ [Next]_vars => TypeInv'
<1> SUFFICES ASSUME TypeInv, [Next]_vars PROVE TypeInv'
  OBVIOUS
<1>1. CASE UNCHANGED vars
  BY <1>1 DEF vars, TypeInv, TypeOK, Bound
<1> QED
  BY <1>1, ChangeTypeInv, BuildTypeInv DEF Next

\* Every entry, lock and thread stays what the code can have made of it.
THEOREM TypeCorrect == Spec => []TypeOK
<1>1. TypeInv => TypeOK
  BY DEF TypeInv
<1> QED
  BY <1>1, InitTypeInv, NextTypeInv, PTL DEF Spec

-----------------------------------------------------------------------------
(* One builder per key.                                                    *)

Building(r) == r.at \notin {"idle", "asked", "wait"}

\* No one builds at the start.
LEMMA InitOneBuilder == Init => OneBuilder
<1> SUFFICES ASSUME Init, NEW x \in Thread, NEW k \in Key
             PROVE  lock[k] # x /\ th[x].at = "idle"
  BY DEF OneBuilder
<1>1. lock = [j \in Key |-> None] /\ th[x] = Idle /\ None # x
  BY SnapshotsAssumption DEF Init
<1> QED
  BY <1>1 DEF Idle

\* A thread that neither takes nor gives back a lock.
LEMMA SameHold ==
  ASSUME TypeInv, OneBuilder, NEW x \in Thread, NEW r \in Thr, th' = [th EXCEPT ![x] = r],
         UNCHANGED lock, Building(r) <=> Building(th[x]), Building(r) => r.ten = th[x].ten
  PROVE  OneBuilder'
<1>1. th \in [Thread -> Thr]
  BY ThreadFacts
<1> SUFFICES ASSUME NEW y \in Thread, NEW k \in Key
             PROVE  lock'[k] = y <=> Building(th'[y]) /\ KeyOf(y)' = k
  BY DEF OneBuilder, Building
<1>2. lock[k] = y <=> Building(th[y]) /\ KeyOf(y) = k
  BY DEF OneBuilder, Building
<1>3. CASE y # x
  BY <1>1, <1>2, <1>3 DEF KeyOf, Ck
<1>4. CASE y = x
  <2>1. th'[y] = r
    BY <1>1, <1>4
  <2> QED
    BY <1>2, <1>4, <2>1 DEF KeyOf, Ck
<1> QED
  BY <1>3, <1>4

\* A builder that leaves gives its lock back.
LEMMA GivesBack ==
  ASSUME TypeInv, OneBuilder, NEW x \in Thread, Building(th[x]), Leaves(x), Released(x)
  PROVE  OneBuilder'
<1>1. /\ th \in [Thread -> Thr] /\ KeyOf(x) \in Key
      /\ lock \in [Key -> {None} \cup Thread]
  BY ThreadFacts DEF Building, TypeInv, TypeOK
<1>2. /\ th' = [th EXCEPT ![x] = Idle]
      /\ lock' = [lock EXCEPT ![KeyOf(x)] = None]
  BY DEF Leaves, Released
<1> SUFFICES ASSUME NEW y \in Thread, NEW k \in Key
             PROVE  lock'[k] = y <=> Building(th'[y]) /\ KeyOf(y)' = k
  BY DEF OneBuilder, Building
<1>3. \A z \in Thread : lock[k] = z <=> Building(th[z]) /\ KeyOf(z) = k
  BY DEF OneBuilder, Building
<1>4. CASE y # x
  <2>1. Building(th'[y]) = Building(th[y]) /\ KeyOf(y)' = KeyOf(y)
    BY <1>1, <1>2, <1>4 DEF KeyOf, Ck
  <2>2. None # y
    BY SnapshotsAssumption
  <2>3. CASE k = KeyOf(x)
    BY <1>1, <1>2, <1>3, <1>4, <2>1, <2>2, <2>3
  <2>4. CASE k # KeyOf(x)
    BY <1>1, <1>2, <1>3, <2>1, <2>4
  <2> QED
    BY <2>3, <2>4
<1>5. CASE y = x
  <2>1. ~Building(th'[y])
    BY <1>1, <1>2, <1>5 DEF Idle, Building
  <2>2. lock'[k] # y
    BY <1>1, <1>2, <1>3, <1>5, SnapshotsAssumption
  <2> QED
    BY <2>1, <2>2
<1> QED
  BY <1>4, <1>5

\* Every step keeps one builder per tenant.
LEMMA NextOneBuilder == TypeInv /\ OneBuilder /\ [Next]_vars => OneBuilder'
<1> SUFFICES ASSUME TypeInv, OneBuilder, [Next]_vars PROVE OneBuilder'
  OBVIOUS
<1>u. ASSUME UNCHANGED <<th, lock>> PROVE OneBuilder'
  BY <1>u DEF OneBuilder, KeyOf, Ck
<1>1. CASE UNCHANGED vars
  BY <1>1, <1>u DEF vars
<1>2. ASSUME NEW t \in Tenant, Saves(t) \/ Trades(t) \/ Invalidates(t) PROVE OneBuilder'
  BY <1>2, <1>u DEF Saves, Trades, Invalidates, InvalidateReads, InvalidateRows
<1>3. ASSUME NEW x \in Thread, Builds(x) \/ \E t \in Tenant : Asks(x, t) PROVE OneBuilder'
  <2>n. TypeInv'
    BY <1>3, BuildTypeInv
  <2>f. th \in [Thread -> Thr] /\ th' \in [Thread -> Thr]
    BY <2>n DEF TypeInv, TypeOK, Thr
  <2>s. ASSUME th' = [th EXCEPT ![x] = th'[x]], UNCHANGED lock,
               Building(th'[x]) <=> Building(th[x]), Building(th'[x]) => th'[x].ten = th[x].ten
        PROVE  OneBuilder'
    BY <2>f, <2>s, SameHold
  <2>g. ASSUME NEW p \in Places, Goes(x, p), UNCHANGED lock,
               Building(th[x]) <=> p \notin {"idle", "asked", "wait"}
        PROVE  OneBuilder'
    BY <2>f, <2>g, <2>s DEF Goes, Building, Thr
  <2>l. ASSUME Leaves(x), UNCHANGED lock, ~Building(th[x]) PROVE OneBuilder'
    BY <2>f, <2>l, <2>s DEF Leaves, Building, Idle
  <2>1. ASSUME NEW t \in Tenant, Asks(x, t) PROVE OneBuilder'
    BY <2>f, <2>1, <2>s DEF Asks, Building, Thr
  <2>2. CASE Hits(x) \/ Follows(x)
    BY <2>2, <2>l DEF Hits, Follows, Building
  <2>3. CASE Misses(x)
    BY <2>3, <2>g DEF Misses, Building, Places
  <2>4. CASE Enters(x)
    <3>1. /\ th'[x].at = "load" /\ th'[x].ten = th[x].ten
          /\ \A y \in Thread \ {x} : th'[y] = th[y]
          /\ lock' = [lock EXCEPT ![KeyOf(x)] = x] /\ lock[KeyOf(x)] = None
      BY <2>4, <2>f DEF Enters, Thr
    <3>2. KeyOf(x) \in Key /\ lock \in [Key -> {None} \cup Thread] /\ ~Building(th[x])
      BY <2>4, ThreadFacts DEF Enters, TypeInv, TypeOK, Building
    <3> SUFFICES ASSUME NEW y \in Thread, NEW k \in Key
                 PROVE  lock'[k] = y <=> Building(th'[y]) /\ KeyOf(y)' = k
      BY DEF OneBuilder, Building
    <3>3. \A z \in Thread : lock[k] = z <=> Building(th[z]) /\ KeyOf(z) = k
      BY DEF OneBuilder, Building
    <3>4. CASE y = x
      BY <3>1, <3>2, <3>3, <3>4 DEF Building, KeyOf, Ck
    <3>5. CASE y # x
      <4>1. th'[y] = th[y] /\ None # y
        BY <3>1, <3>5, SnapshotsAssumption
      <4> QED
        BY <3>1, <3>2, <3>3, <3>5, <4>1 DEF KeyOf, Ck
    <3> QED
      BY <3>4, <3>5
  <2>5. CASE Loads(x)
    BY <2>5, <2>f, <2>s DEF Loads, Building, Thr
  <2>6. CASE LoadsKept(x)
    BY <2>6, <2>f, <2>s DEF LoadsKept, Building, Thr
  <2>7. CASE Reads(x)
    BY <2>7, <2>f, <2>s DEF Reads, Building, Thr
  <2>8. CASE Fails(x)
    BY <2>8, GivesBack DEF Fails, Building
  <2>9. CASE JudgesReads(x)
    BY <2>9, <2>g DEF JudgesReads, Building, Places
  <2>10. CASE KeepsReads(x)
    BY <2>10, <2>g DEF KeepsReads, Building, Places
  <2>11. CASE JudgesRows(x)
    BY <2>11, <2>g, GivesBack DEF JudgesRows, Building, Places
  <2>12. CASE KeepsRows(x)
    BY <2>12, GivesBack DEF KeepsRows, Building
  <2> QED
    BY <1>3, <2>1, <2>2, <2>3, <2>4, <2>5, <2>6, <2>7, <2>8, <2>9, <2>10, <2>11, <2>12 DEF Builds
<1> QED
  BY <1>1, <1>2, <1>3 DEF Next

\* Concurrent misses of one key never build twice (the per-key lock of
\* build_snapshot).
THEOREM BuildsCoalesce == Spec => []OneBuilder
BY InitTypeInv, InitOneBuilder, NextTypeInv, NextOneBuilder, PTL DEF Spec

-----------------------------------------------------------------------------
(* Whose data, and how old.  A result compared and kept under an unmoved   *)
(* generation is as new as every finished change; for the broker reads the *)
(* bar is higher once their own invalidation has run, since the change's   *)
(* end counts what the broker has seen by then.                            *)

Loaded == {"reading", "judgeReads", "keepReads", "judgeRows", "keepRows"}
ReadIn == {"judgeReads", "keepReads", "judgeRows", "keepRows"}
Bar(t) == IF todo[t] = "reads" THEN done[t].desk ELSE desk[t]

DoneOK == \A t \in Tenant : done[t].files <= files[t] /\ done[t].desk <= desk[t]

CacheOK(t) ==
  /\ reads[t] # None => reads[t].of = t
  /\ rows[t] # None => rows[t].row.of = {t}
  /\ Fresh(reads[t]) /\ ~reads[t].slip => reads[t].desk >= Bar(t)
  /\ Fresh(rows[t]) /\ ~rows[t].row.slip =>
       rows[t].row.files >= done[t].files /\ rows[t].row.desk >= done[t].desk

HandOK(r) ==
  /\ r.at \in Loaded =>
       /\ r.hand.of = {r.ten}
       /\ r.hand.files >= r.due.files
       /\ gen.rows = r.gen.rows => r.hand.files >= done[r.ten].files
  /\ r.at \in ReadIn /\ ~r.hand.slip =>
       /\ r.hand.desk >= r.due.desk
       /\ gen.rows = r.gen.rows => r.hand.desk >= done[r.ten].desk
  /\ r.at \in {"judgeReads", "keepReads"} /\ gen.reads = r.gen.reads => r.hand.desk >= Bar(r.ten)

ThreadOK(r) ==
  /\ r.gen.rows <= gen.rows /\ r.gen.reads <= gen.reads
  /\ r.at # "idle" => /\ r.due.files <= done[r.ten].files
                      /\ r.due.desk <= done[r.ten].desk
  /\ HandOK(r)

NewInv ==
  /\ DoneOK
  /\ \A t \in Tenant : CacheOK(t)
  /\ \A x \in Thread : ThreadOK(th[x])

\* An idle thread is well formed.
LEMMA IdleOK == ASSUME TypeInv PROVE ThreadOK(Idle)
BY DEF TypeInv, TypeOK, Gen, ThreadOK, HandOK, Idle, Loaded, ReadIn

\* It holds before the first request.
LEMMA InitNewInv == Init => NewInv
<1> SUFFICES ASSUME Init PROVE NewInv
  OBVIOUS
<1>1. TypeInv
  BY InitTypeInv
<1>2. \A x \in Thread : ThreadOK(th[x])
  BY <1>1, IdleOK DEF Init
<1>3. DoneOK
  <2>1. ASSUME NEW t \in Tenant
        PROVE  files[t] = 0 /\ desk[t] = 0 /\ done[t].files = 0 /\ done[t].desk = 0
    BY DEF Init
  <2>2. 0 <= 0
    OBVIOUS
  <2> QED
    BY <2>1, <2>2, Zenon DEF DoneOK
<1>4. \A t \in Tenant : CacheOK(t)
  BY DEF Init, CacheOK, Fresh, Key
<1> QED
  BY <1>2, <1>3, <1>4 DEF NewInv

\* A change moves what is finished up, and every generation it ends past what
\* any builder remembers.
LEMMA ChangeNewInv ==
  ASSUME TypeInv, NewInv, NEW t \in Tenant, Saves(t) \/ Trades(t) \/ Invalidates(t)
  PROVE  NewInv'
<1>o. /\ th \in [Thread -> Thr] /\ gen \in Gen
      /\ files \in [Tenant -> Nat] /\ desk \in [Tenant -> Nat] /\ done \in [Tenant -> Seen]
      /\ todo \in [Tenant -> {None, "reads", "rows"}]
      /\ \A x \in Thread : th[x] \in Thr /\ (th[x].at # "idle" => th[x].ten \in Tenant)
      /\ None # "rows" /\ None # "reads"
  <2>1. None # "rows" /\ None # "reads"
    BY SnapshotsAssumption
  <2>2. \A x \in Thread : th[x] \in Thr /\ (th[x].at # "idle" => th[x].ten \in Tenant)
    BY ThreadFacts
  <2>3. th \in [Thread -> Thr]
    BY DEF TypeInv, TypeOK, Thr
  <2> QED
    BY <2>1, <2>2, <2>3 DEF TypeInv, TypeOK
<1>r. /\ reads \in [Key -> {None} \cup
               [of : Tenant, desk : Nat, fresh : BOOLEAN, slip : BOOLEAN]]
      /\ rows \in [Key -> {None} \cup [row : Row, fresh : BOOLEAN]]
      /\ Tenant \subseteq Key
  BY DEF TypeInv, TypeOK, Key
<1>d. DoneOK /\ (\A u \in Tenant : CacheOK(u)) /\ \A x \in Thread : ThreadOK(th[x])
  BY DEF NewInv
<1>1. CASE Saves(t)
  <2>1. /\ UNCHANGED <<desk, done, gen, reads, rows, th>>
        /\ \A u \in Tenant : Bar(u)' = Bar(u) /\ files[u] <= files'[u]
        /\ \A u \in Tenant : files'[u] \in Nat
    <3>1. /\ UNCHANGED <<desk, done, gen, reads, rows, th>>
          /\ files' = [files EXCEPT ![t] = @ + 1]
          /\ todo' = [todo EXCEPT ![t] = "rows"] /\ todo[t] = None
      BY <1>1 DEF Saves
    <3>2. ASSUME NEW u \in Tenant
          PROVE  files[u] <= files'[u] /\ files'[u] \in Nat
      BY <3>1, <1>o
    <3>3. ASSUME NEW u \in Tenant
          PROVE  (todo'[u] = "reads") = (todo[u] = "reads")
      BY <3>1, <1>o
    <3> QED
      BY <3>1, <3>2, <3>3 DEF Bar
  <2>2. DoneOK'
    BY <1>d, <1>o, <2>1 DEF DoneOK, Seen
  <2>3. \A u \in Tenant : CacheOK(u)'
    BY <1>d, <2>1 DEF CacheOK, Fresh
  <2>4. \A x \in Thread : ThreadOK(th[x])'
    BY <1>d, <1>o, <2>1 DEF ThreadOK, HandOK, Thr, Loaded, ReadIn
  <2> QED
    BY <2>2, <2>3, <2>4 DEF NewInv
<1>2. CASE Trades(t)
  <2>1. /\ UNCHANGED <<done, gen, reads, rows, th>>
        /\ \A u \in Tenant : Bar(u)' <= Bar(u) /\ files[u] <= files'[u] /\ desk[u] <= desk'[u]
        /\ \A u \in Tenant : /\ Bar(u) \in Nat /\ Bar(u)' \in Nat
                             /\ files'[u] \in Nat /\ desk'[u] \in Nat
    BY <1>2, <1>o, <1>d, SnapshotsAssumption DEF Trades, Bar, DoneOK, Seen
  <2>2. DoneOK'
    BY <1>d, <1>o, <2>1 DEF DoneOK, Seen
  <2>3. \A u \in Tenant : CacheOK(u)'
    BY <1>d, <1>r, <2>1 DEF CacheOK, Fresh
  <2>4. \A x \in Thread : ThreadOK(th[x])'
    BY <1>d, <1>o, <2>1 DEF ThreadOK, HandOK, Thr, Row, Loaded, ReadIn
  <2> QED
    BY <2>1, <2>2, <2>3, <2>4 DEF NewInv
<1>3. CASE InvalidateReads(t)
  <2>1. /\ UNCHANGED <<files, desk, done, rows, th>> /\ gen'.reads = gen.reads + 1
        /\ gen'.rows = gen.rows
        /\ \A u \in Tenant : u # t => Bar(u)' = Bar(u)
    BY <1>3, <1>o DEF InvalidateReads, Bar, Gen
  <2>2. DoneOK'
    BY <1>d, <2>1 DEF DoneOK
  <2>3. \A u \in Tenant : /\ ~Fresh(reads'[u])
                          /\ reads'[u] # None => reads[u] # None /\ reads'[u].of = reads[u].of
    BY <1>3, <1>r DEF InvalidateReads, Staled, Fresh
  <2>4. \A u \in Tenant : CacheOK(u)'
    BY <1>d, <2>1, <2>3 DEF CacheOK, Fresh
  <2>5. \A x \in Thread : ThreadOK(th[x])'
    BY <1>d, <1>o, <2>1 DEF ThreadOK, HandOK, Thr, Gen, Loaded, ReadIn
  <2> QED
    BY <2>1, <2>2, <2>4, <2>5 DEF NewInv
<1>4. CASE InvalidateRows(t)
  <2>1. /\ UNCHANGED <<files, desk, reads, th>> /\ gen'.rows = gen.rows + 1
        /\ gen'.reads = gen.reads
        /\ \A u \in Tenant : /\ Bar(u)' = Bar(u)
                             /\ done'[u].files <= files[u] /\ done'[u].desk <= desk[u]
                             /\ done[u].files <= done'[u].files /\ done[u].desk <= done'[u].desk
                             /\ done'[u] \in Seen
    <3>1. /\ done' = [done EXCEPT ![t] = [files |-> files[t], desk |-> desk[t]]]
          /\ todo' = [todo EXCEPT ![t] = None] /\ todo[t] = "rows" /\ None # "reads"
      BY <1>4, <1>o, SnapshotsAssumption DEF InvalidateRows
    <3>2. \A u \in Tenant : done[u] \in Seen /\ done[u].files <= files[u] /\ done[u].desk <= desk[u]
      BY <1>o, <1>d DEF DoneOK
    <3>3. ASSUME NEW u \in Tenant PROVE
             /\ Bar(u)' = Bar(u)
             /\ done'[u].files <= files[u] /\ done'[u].desk <= desk[u]
             /\ done[u].files <= done'[u].files /\ done[u].desk <= done'[u].desk
             /\ done'[u] \in Seen
      <4>1. CASE u = t
        BY <1>4, <1>o, <3>1, <3>2, <4>1 DEF InvalidateRows, Bar, Seen
      <4>2. CASE u # t
        <5>1. done'[u] = done[u] /\ todo'[u] = todo[u] /\ desk' = desk
          BY <1>4, <1>o, <3>1, <4>2 DEF InvalidateRows
        <5>2. Bar(u)' = Bar(u)
          BY <5>1 DEF Bar
        <5>3. done[u].files <= done[u].files /\ done[u].desk <= done[u].desk
          BY <3>2 DEF Seen
        <5> QED
          BY <3>2, <5>1, <5>2, <5>3
      <4> QED
        BY <4>1, <4>2
    <3> QED
      BY <1>4, <1>o, <3>3 DEF InvalidateRows, Gen
  <2>2. DoneOK'
    BY <2>1 DEF DoneOK
  <2>3. \A u \in Tenant : /\ ~Fresh(rows'[u])
                          /\ rows'[u] # None => rows[u] # None /\ rows'[u].row = rows[u].row
    BY <1>4, <1>r DEF InvalidateRows, Staled, Fresh
  <2>4. \A u \in Tenant : CacheOK(u)'
    BY <1>d, <2>1, <2>3 DEF CacheOK, Fresh
  <2>5. \A x \in Thread : ThreadOK(th[x])'
    <3> SUFFICES ASSUME NEW x \in Thread PROVE ThreadOK(th[x])'
      OBVIOUS
    <3>1. th[x].gen.rows <= gen.rows /\ th[x].gen \in Gen
      BY <1>d, <1>o DEF ThreadOK, Thr
    <3>2. gen.rows' # th[x].gen.rows /\ th[x].gen.rows <= gen'.rows
      BY <1>o, <2>1, <3>1 DEF Gen
    <3>3. th[x].at # "idle" => th[x].due.files <= done'[th[x].ten].files
                               /\ th[x].due.desk <= done'[th[x].ten].desk
      BY <1>d, <1>o, <2>1 DEF ThreadOK, Thr, Seen
    <3>4. HandOK(th[x])'
      BY <1>d, <1>o, <2>1, <3>2 DEF ThreadOK, HandOK, Loaded, ReadIn
    <3> QED
      BY <1>d, <2>1, <3>2, <3>3, <3>4 DEF ThreadOK
  <2> QED
    BY <2>1, <2>2, <2>4, <2>5 DEF NewInv
<1> QED
  BY <1>1, <1>2, <1>3, <1>4 DEF Invalidates

\* What a thread's own step has to show: its record, and what it has stored.
LEMMA OwnStep ==
  ASSUME TypeInv, NewInv, NEW x \in Thread, NEW r, th' = [th EXCEPT ![x] = r],
         UNCHANGED <<changes, gen>>, ThreadOK(r), \A t \in Tenant : CacheOK(t)'
  PROVE  NewInv'
<1>1. ASSUME NEW y \in Thread PROVE ThreadOK(th[y])'
  <2>1. th'[y] = IF y = x THEN r ELSE th[y]
    BY ThreadFacts
  <2>2. ThreadOK(th'[y])
    BY <2>1 DEF NewInv
  <2> QED
    BY <2>2 DEF ThreadOK, HandOK, Bar, changes
<1>2. DoneOK'
  BY DEF NewInv, DoneOK, changes
<1> QED
  BY <1>1, <1>2 DEF NewInv

\* Asking and building keep what is served as new as it was asked for.
LEMMA BuildNewInv ==
  ASSUME TypeInv, NewInv, NEW x \in Thread, Builds(x) \/ \E t \in Tenant : Asks(x, t)
  PROVE  NewInv'
<1>f. /\ th \in [Thread -> Thr] /\ th[x] \in Thr
      /\ th[x].at # "idle" => KeyOf(x) \in Key /\ KeyOf(x) = th[x].ten /\ th[x].ten \in Tenant
  BY ThreadFacts
<1>o. /\ gen \in Gen
      /\ files \in [Tenant -> Nat] /\ desk \in [Tenant -> Nat] /\ done \in [Tenant -> Seen]
      /\ reads \in [Key -> {None} \cup
               [of : Tenant, desk : Nat, fresh : BOOLEAN, slip : BOOLEAN]]
      /\ rows \in [Key -> {None} \cup [row : Row, fresh : BOOLEAN]]
      /\ Tenant \subseteq Key
  BY DEF TypeInv, TypeOK, Key
<1>d. DoneOK /\ (\A u \in Tenant : CacheOK(u)) /\ ThreadOK(th[x])
  BY DEF NewInv
<1>c. UNCHANGED <<changes, reads, rows>> => \A t \in Tenant : CacheOK(t)'
  BY <1>d DEF CacheOK, Fresh, Bar, changes
<1>g. ASSUME NEW p \in Places, Goes(x, p), UNCHANGED <<changes, gen>>,
             \A t \in Tenant : CacheOK(t)', ThreadOK([th[x] EXCEPT !.at = p])
      PROVE  NewInv'
  BY <1>g, OwnStep DEF Goes
<1>l. ASSUME Leaves(x), UNCHANGED <<changes, gen>>, \A t \in Tenant : CacheOK(t)'
      PROVE  NewInv'
  BY <1>l, OwnStep, IdleOK DEF Leaves
<1>1. ASSUME NEW t \in Tenant, Asks(x, t) PROVE NewInv'
  <2> DEFINE r == [th[x] EXCEPT !.at = "asked", !.ten = t, !.due = done[t]]
  <2>1. /\ r.at = "asked" /\ r.ten = t /\ r.due = done[t] /\ r.gen = th[x].gen
        /\ th' = [th EXCEPT ![x] = r]
    BY <1>1, <1>f DEF Asks, Thr
  <2> HIDE DEF r
  <2>2. ThreadOK(r)
    BY <1>d, <1>o, <2>1 DEF ThreadOK, HandOK, Loaded, ReadIn, Seen
  <2> QED
    BY <1>1, <1>c, <2>1, <2>2, OwnStep DEF Asks
<1>2. CASE Hits(x) \/ Follows(x) \/ Fails(x)
  BY <1>2, <1>c, <1>l DEF Hits, Follows, Fails
<1>3. CASE Misses(x)
  <2>1. ThreadOK([th[x] EXCEPT !.at = "wait"])
    BY <1>3, <1>d, <1>f DEF Misses, ThreadOK, HandOK, Loaded, ReadIn, Thr
  <2> QED
    BY <1>3, <1>c, <1>g, <2>1 DEF Misses, Places
<1>4. CASE Enters(x)
  <2> DEFINE r == [th[x] EXCEPT !.at = "load", !.gen.rows = gen.rows]
  <2>1. /\ r.at = "load" /\ r.ten = th[x].ten /\ r.due = th[x].due /\ r.gen.rows = gen.rows
        /\ r.gen.reads = th[x].gen.reads /\ th' = [th EXCEPT ![x] = r] /\ th[x].at # "idle"
    BY <1>4, <1>f DEF Enters, Thr, Gen
  <2> HIDE DEF r
  <2>2. ThreadOK(r)
    BY <1>d, <1>o, <2>1 DEF ThreadOK, HandOK, Loaded, ReadIn, Gen
  <2> QED
    BY <1>4, <1>c, <2>1, <2>2, OwnStep DEF Enters
<1>5. CASE Loads(x)
  <2> DEFINE h == [of |-> {th[x].ten}, files |-> files[th[x].ten], desk |-> 0, slip |-> FALSE]
  <2> DEFINE r == [th[x] EXCEPT !.at = "reading", !.hand = h, !.gen.reads = gen.reads]
  <2>1. th' = [th EXCEPT ![x] = r] /\ th[x].at = "load"
    BY <1>5 DEF Loads
  <2>2. h.of = {th[x].ten} /\ h.files = files[th[x].ten]
    OBVIOUS
  <2> HIDE DEF h
  <2>3. /\ r.at = "reading" /\ r.ten = th[x].ten /\ r.due = th[x].due /\ r.hand = h
        /\ r.gen.rows = th[x].gen.rows /\ r.gen.reads = gen.reads
    BY <1>f DEF Thr, Gen
  <2> HIDE DEF r
  <2>4. ThreadOK(r)
    BY <1>d, <1>f, <1>o, <2>1, <2>2, <2>3
       DEF ThreadOK, HandOK, Loaded, ReadIn, Gen, DoneOK, Seen, Thr
  <2> QED
    BY <1>5, <1>c, <2>1, <2>4, OwnStep DEF Loads
<1>6. CASE LoadsKept(x)
  <2> DEFINE kept == reads[KeyOf(x)]
  <2> DEFINE h == [of |-> {th[x].ten, kept.of}, files |-> files[th[x].ten],
                   desk |-> kept.desk, slip |-> kept.slip]
  <2> DEFINE r == [th[x] EXCEPT !.at = "judgeRows", !.hand = h]
  <2>1. th' = [th EXCEPT ![x] = r] /\ th[x].at = "load" /\ Fresh(kept)
    BY <1>6 DEF LoadsKept
  <2>2. /\ kept # None /\ kept.of = th[x].ten /\ kept.desk \in Nat
        /\ ~kept.slip => kept.desk >= done[th[x].ten].desk
    BY <1>d, <1>f, <1>o, <2>1 DEF CacheOK, Fresh, Bar, DoneOK, Seen
  <2>3. h.of = {th[x].ten} /\ h.files = files[th[x].ten] /\ h.desk = kept.desk /\ h.slip = kept.slip
    BY <2>2
  <2> HIDE DEF kept, h
  <2>4. /\ r.at = "judgeRows" /\ r.ten = th[x].ten /\ r.due = th[x].due /\ r.hand = h
        /\ r.gen = th[x].gen
    BY <1>f DEF Thr
  <2> HIDE DEF r
  <2>5. ThreadOK(r)
    BY <1>d, <1>f, <1>o, <2>1, <2>2, <2>3, <2>4
       DEF ThreadOK, HandOK, Loaded, ReadIn, DoneOK, Seen, Thr
  <2> QED
    BY <1>6, <1>c, <2>1, <2>5, OwnStep DEF LoadsKept
<1>7. CASE Reads(x)
  <2> DEFINE r == [th[x] EXCEPT !.at = "judgeReads", !.hand.desk = desk[th[x].ten]]
  <2>1. th' = [th EXCEPT ![x] = r] /\ th[x].at = "reading"
    BY <1>7 DEF Reads
  <2>2. /\ r.at = "judgeReads" /\ r.ten = th[x].ten /\ r.due = th[x].due /\ r.gen = th[x].gen
        /\ r.hand.of = th[x].hand.of /\ r.hand.files = th[x].hand.files
        /\ r.hand.desk = desk[th[x].ten]
    BY <1>f DEF Thr, Row
  <2> HIDE DEF r
  <2>3. ThreadOK(r)
    BY <1>d, <1>f, <1>o, <2>1, <2>2
       DEF ThreadOK, HandOK, Loaded, ReadIn, DoneOK, Seen, Thr, Bar
  <2> QED
    BY <1>7, <1>c, <2>1, <2>3, OwnStep DEF Reads
<1>8. CASE JudgesReads(x)
  <2>1. ASSUME NEW p \in {"keepReads", "judgeRows"} PROVE ThreadOK([th[x] EXCEPT !.at = p])
    BY <1>8, <1>d, <1>f DEF JudgesReads, ThreadOK, HandOK, Loaded, ReadIn, Thr
  <2> QED
    BY <1>8, <1>c, <1>g, <2>1 DEF JudgesReads, Places
<1>9. CASE KeepsReads(x)
  <2>1. ThreadOK([th[x] EXCEPT !.at = "judgeRows"])
    BY <1>9, <1>d, <1>f DEF KeepsReads, ThreadOK, HandOK, Loaded, ReadIn, Thr
  <2> DEFINE e == [of |-> th[x].ten, desk |-> th[x].hand.desk, fresh |-> TRUE,
                   slip |-> gen.reads # th[x].gen.reads]
  <2>2. /\ e.of = th[x].ten /\ e.desk = th[x].hand.desk
        /\ ~e.slip => e.desk >= Bar(th[x].ten)
    BY <1>9, <1>d DEF KeepsReads, ThreadOK, HandOK
  <2>3. reads' = [reads EXCEPT ![th[x].ten] = e] /\ th[x].ten \in Tenant
        /\ UNCHANGED <<changes, rows>>
    BY <1>9, <1>f DEF KeepsReads
  <2> HIDE DEF e
  <2>4. \A t \in Tenant : CacheOK(t)'
    <3> SUFFICES ASSUME NEW t \in Tenant PROVE CacheOK(t)'
      OBVIOUS
    <3>1. CASE t = th[x].ten
      BY <1>d, <1>o, <2>2, <2>3, <3>1 DEF CacheOK, Fresh, Bar, changes
    <3>2. CASE t # th[x].ten
      BY <1>d, <1>o, <2>3, <3>2 DEF CacheOK, Fresh, Bar, changes
    <3> QED
      BY <3>1, <3>2
  <2> QED
    BY <1>9, <1>g, <2>1, <2>4 DEF KeepsReads, Places
<1>10. CASE JudgesRows(x)
  <2>1. ThreadOK([th[x] EXCEPT !.at = "keepRows"])
    BY <1>10, <1>d, <1>f DEF JudgesRows, ThreadOK, HandOK, Loaded, ReadIn, Thr
  <2> QED
    BY <1>10, <1>c, <1>g, <1>l, <2>1 DEF JudgesRows, Places
<1>11. CASE KeepsRows(x)
  <2> DEFINE late == gen.rows # th[x].gen.rows
  <2> DEFINE row == [th[x].hand EXCEPT !.slip = @ \/ late]
  <2> DEFINE e == [row |-> row, fresh |-> TRUE]
  <2>1. /\ row.of = th[x].hand.of /\ row.files = th[x].hand.files /\ row.desk = th[x].hand.desk
        /\ ~row.slip => ~th[x].hand.slip /\ gen.rows = th[x].gen.rows
    BY <1>f DEF Thr, Row
  <2>2. e.row = row
    OBVIOUS
  <2>3. rows' = [rows EXCEPT ![th[x].ten] = e] /\ th[x].ten \in Tenant
        /\ UNCHANGED <<changes, reads, gen>> /\ Leaves(x)
    BY <1>11, <1>f DEF KeepsRows
  <2> HIDE DEF row, e
  <2>4. /\ row.of = {th[x].ten}
        /\ ~row.slip => row.files >= done[th[x].ten].files /\ row.desk >= done[th[x].ten].desk
    BY <1>11, <1>d, <2>1 DEF KeepsRows, ThreadOK, HandOK, Loaded, ReadIn
  <2>5. \A t \in Tenant : CacheOK(t)'
    <3> SUFFICES ASSUME NEW t \in Tenant PROVE CacheOK(t)'
      OBVIOUS
    <3>1. CASE t = th[x].ten
      BY <1>d, <1>o, <2>2, <2>3, <2>4, <3>1 DEF CacheOK, Fresh, Bar, changes
    <3>2. CASE t # th[x].ten
      BY <1>d, <1>o, <2>3, <3>2 DEF CacheOK, Fresh, Bar, changes
    <3> QED
      BY <3>1, <3>2
  <2> QED
    BY <2>3, <2>5, <1>l
<1> QED
  BY <1>1, <1>2, <1>3, <1>4, <1>5, <1>6, <1>7, <1>8, <1>9, <1>10, <1>11 DEF Builds

\* So does every step.
LEMMA NextNewInv == TypeInv /\ NewInv /\ [Next]_vars => NewInv'
<1> SUFFICES ASSUME TypeInv, NewInv, [Next]_vars PROVE NewInv'
  OBVIOUS
<1>1. CASE UNCHANGED vars
  BY <1>1 DEF vars, NewInv, DoneOK, CacheOK, ThreadOK, HandOK, Bar, Fresh
<1> QED
  BY <1>1, ChangeNewInv, BuildNewInv DEF Next

\* It holds in every state.
LEMMA NewAlways == Spec => [](TypeInv /\ NewInv)
BY InitTypeInv, InitNewInv, NextTypeInv, NextNewInv, PTL DEF Spec

\* No dashboard is made of another tenant's files or broker, however the logins
\* are named (_ck).
THEOREM OwnDataOnly == Spec => []TenantsApart
<1>1. TypeInv /\ NewInv => TenantsApart
  <2> SUFFICES ASSUME TypeInv, NewInv, NEW x \in Thread, NEW row \in Offered(x)
               PROVE  row.of = {th[x].ten}
    BY DEF TenantsApart
  <2>1. ThreadOK(th[x]) /\ \A t \in Tenant : CacheOK(t)
    BY DEF NewInv
  <2>2. th[x].at # "idle" => KeyOf(x) = th[x].ten /\ th[x].ten \in Tenant
    BY ThreadFacts
  <2> QED
    BY <2>1, <2>2 DEF Offered, ThreadOK, HandOK, CacheOK, Loaded, Fresh
<1> QED
  BY <1>1, NewAlways, PTL

\* What is kept as fresh holds every finished change, but for what slipped in
\* between the comparison and the store.
THEOREM FreshIsCurrent == Spec => []NothingOldIsFresh
<1>1. TypeInv /\ NewInv => NothingOldIsFresh
  <2> SUFFICES ASSUME TypeInv, NewInv, NEW t \in Tenant
               PROVE  /\ Fresh(reads[t]) /\ ~reads[t].slip => reads[t].desk >= done[t].desk
                      /\ Fresh(rows[t]) /\ ~rows[t].row.slip =>
                           /\ rows[t].row.files >= done[t].files
                           /\ rows[t].row.desk >= done[t].desk
    BY DEF NothingOldIsFresh
  <2>1. /\ CacheOK(t) /\ done[t].desk <= desk[t] /\ done[t] \in Seen /\ desk[t] \in Nat
        /\ reads[t] \in {None} \cup [of : Tenant, desk : Nat, fresh : BOOLEAN, slip : BOOLEAN]
    BY DEF NewInv, DoneOK, TypeInv, TypeOK, Key
  <2> QED
    BY <2>1 DEF CacheOK, Bar, Seen, Fresh
<1> QED
  BY <1>1, NewAlways, PTL

\* A dashboard shows every change finished when it was asked for.
THEOREM AskedIsShown == Spec => []ShowsFinished
<1>1. TypeInv /\ NewInv => ShowsFinished
  <2> SUFFICES ASSUME TypeInv, NewInv, NEW x \in Thread, NEW row \in Offered(x), ~row.slip
               PROVE  row.files >= th[x].due.files /\ row.desk >= th[x].due.desk
    BY DEF ShowsFinished
  <2>1. ThreadOK(th[x]) /\ \A t \in Tenant : CacheOK(t)
    BY DEF NewInv
  <2>2. /\ th[x] \in Thr
        /\ th[x].at # "idle" => KeyOf(x) = th[x].ten /\ th[x].ten \in Tenant
    BY ThreadFacts
  <2>3. CASE th[x].at \in {"asked", "wait"} /\ Fresh(rows[KeyOf(x)])
    <3>1. /\ row = rows[th[x].ten].row /\ th[x].ten \in Tenant
          /\ rows[th[x].ten] \in [row : Row, fresh : BOOLEAN]
      BY <2>2, <2>3 DEF Offered, Fresh, TypeInv, TypeOK, Key
    <3>2. done[th[x].ten] \in Seen
      BY <3>1 DEF TypeInv, TypeOK
    <3> QED
      BY <2>1, <2>2, <2>3, <3>1, <3>2 DEF CacheOK, ThreadOK, Fresh, Row, Seen, Thr
  <2>4. CASE th[x].at \in {"judgeRows", "keepRows"}
    BY <2>1, <2>4 DEF Offered, ThreadOK, HandOK, Loaded, ReadIn
  <2> QED
    BY <2>3, <2>4 DEF Offered
<1> QED
  BY <1>1, NewAlways, PTL

=============================================================================
