--------------------------------- MODULE BoxProofs ----------------------------
(***************************************************************************)
(* Proofs about the two programs of the box.  First tc_apply.run, for any  *)
(* writers, rows and payloads: the difference resolve computes and what    *)
(* applying it gives, then the invariant of the interleaved runs (types,   *)
(* the lock, the keys of the tables, what a run holds at each label), the  *)
(* rows a run reports as applied, and the refinement of Rearrangement.     *)
(* Then the loop that calls it, for any length of the day and any number   *)
(* of retries, losses, crashes, requests and plans: the invariants of its  *)
(* run with the strengthenings that make them inductive, one per concern.  *)
(***************************************************************************)
EXTENDS TcApply, RabbitSync, TLAPS

\* The operations of a run: new groups for accounts, each its own; followers in groups.
OpsOK(o) ==
  /\ o.create \subseteq Acct /\ o.drop \subseteq Gid
  /\ \A l \in o.create : o.gidOf[l] \in Gid
  /\ \A k, l \in o.create : o.gidOf[k] = o.gidOf[l] => k = l
  /\ \A a \in o.upsert : o.target[a] \in Link

TypeInv ==
  /\ TypeOK
  /\ DOMAIN want = Writers /\ DOMAIN ops = Writers /\ DOMAIN saved = Writers
  /\ DOMAIN why = Writers /\ DOMAIN result = Writers
  /\ \A w \in Writers : OpsOK(ops[w])
  /\ \A w \in Writers : pc[w] # "idle" => want[w] \in Payloads /\ Parses(want[w])

\* The tables' keys hold of the rows and of what a run saved.
KeyInv ==
  /\ rows # Torn => Keyed(rows)
  /\ \A w \in Writers : saved[w] \notin {Torn, None} => Keyed(saved[w])

\* Something is saved from the backup to the return; a second wait comes from the verification.
ShapeInv ==
  \A w \in Writers :
    /\ pc[w] \in {"idle", "lock", "quit", "wait", "backup"} <=> saved[w] = None
    /\ pc[w] = "rewait" => why[w] = "verify"

\* While nobody else has touched the rows, the operations are the difference between them and the
\* payload up to the transaction, and after it the rows are the payload.
CalmAt(w) ==
  calm[w] =>
    /\ pc[w] \in {"lock", "quit", "wait", "backup", "write"} =>
         /\ rows # Torn
         /\ \E fresh \in FreshIds(want[w], rows, Gid \ rows.groups) :
              ops[w] = Resolve(want[w], rows, fresh)
    /\ pc[w] \in {"relaunch", "verify"} => rows # Torn /\ Exactly(want[w], rows)
CalmInv == \A w \in Writers : CalmAt(w)

IInv == TypeInv /\ OneWriter /\ WritesAlone /\ KeyInv /\ ShapeInv /\ CalmInv
-----------------------------------------------------------------------------
(* The difference, for any payload and any rows the keys allow.             *)

\* A follower's group is the one group of the payload that lists it.
LEMMA PayloadFacts ==
  ASSUME NEW p \in Payloads
  PROVE  /\ Leaders(p) \subseteq Acct /\ Followers(p) \subseteq Acct
         /\ \A a \in Followers(p) : /\ GroupOf(p, a) \in p
                                  /\ GroupOf(p, a).leader \in Leaders(p)
                                  /\ CfgOf(p, a) \in Cfg
<1> DEFINE Fol == [acct : Acct, cfg : Cfg]
<1>1. \A g \in p : g \in [leader : Acct, fols : SUBSET Fol]
  BY TcApplyAssumption
<1>2. Leaders(p) \subseteq Acct
  BY <1>1 DEF Leaders
<1>3. \A g \in p : \A f \in g.fols : f \in Fol
  BY <1>1
<1>4. Followers(p) \subseteq Acct
  BY <1>3 DEF Followers
<1>5. ASSUME NEW a \in Followers(p)
      PROVE  /\ GroupOf(p, a) \in p /\ GroupOf(p, a).leader \in Leaders(p)
             /\ CfgOf(p, a) \in Cfg
  <2>1. \E g \in p : \E f \in g.fols : f.acct = a
    BY DEF Followers
  <2>2. GroupOf(p, a) \in p /\ \E f \in GroupOf(p, a).fols : f.acct = a
    BY <2>1 DEF GroupOf
  <2>3. \E f : f \in GroupOf(p, a).fols /\ f.acct = a /\ CfgOf(p, a) = f.cfg
    BY <2>2 DEF CfgOf
  <2>4. CfgOf(p, a) \in Cfg
    BY <1>3, <2>2, <2>3
  <2>5. QED
    BY <2>2, <2>4 DEF Leaders
<1>6. QED
  BY <1>2, <1>4, <1>5

\* The ids of the groups: an account's own group, or one of the fresh ones.
LEMMA GroupIdsFacts ==
  ASSUME NEW p \in Payloads, NEW r \in Rows, Keyed(r),
         NEW fresh \in FreshIds(p, r, Gid \ r.groups)
  PROVE  LET gidOf == GroupIds(p, r, fresh)
         IN /\ \A l \in Leaders(p) :
                 /\ gidOf[l] \in Gid
                 /\ HasGroup(r, l) => gidOf[l] \in r.groups /\ r.leader[gidOf[l]] = l
                 /\ ~HasGroup(r, l) => gidOf[l] \notin r.groups
            /\ \A k, l \in Leaders(p) : gidOf[k] = gidOf[l] => k = l
<1> DEFINE gidOf == GroupIds(p, r, fresh)
           new == {l \in Leaders(p) : ~HasGroup(r, l)}
<1>1. fresh \in [new -> Gid \ r.groups] /\ \A k, l \in new : fresh[k] = fresh[l] => k = l
  BY DEF FreshIds
<1>2. ASSUME NEW l \in Leaders(p), HasGroup(r, l)
      PROVE  gidOf[l] \in Gid /\ r.leader[gidOf[l]] = l /\ gidOf[l] \in r.groups
  <2>1. gidOf[l] = CHOOSE g \in Gid : r.leader[g] = l
    BY <1>2 DEF GroupIds
  <2>2. \E g \in Gid : r.leader[g] = l
    BY <1>2 DEF HasGroup
  <2>3. gidOf[l] \in Gid /\ r.leader[gidOf[l]] = l
    BY <2>1, <2>2
  <2>4. l # None
    BY PayloadFacts, TcApplyAssumption
  <2>5. QED
    BY <2>3, <2>4 DEF Keyed
<1>3. ASSUME NEW l \in Leaders(p), ~HasGroup(r, l)
      PROVE  gidOf[l] = fresh[l] /\ gidOf[l] \in Gid /\ gidOf[l] \notin r.groups
  BY <1>1, <1>3 DEF GroupIds
<1>4. ASSUME NEW k \in Leaders(p), NEW l \in Leaders(p), gidOf[k] = gidOf[l]
      PROVE  k = l
  <2>1. CASE HasGroup(r, k) /\ HasGroup(r, l)
    BY <1>2, <1>4, <2>1
  <2>2. CASE ~HasGroup(r, k) /\ ~HasGroup(r, l)
    BY <1>1, <1>3, <1>4, <2>2
  <2>3. CASE HasGroup(r, k) # HasGroup(r, l)
    BY <1>2, <1>3, <1>4, <2>3 DEF HasGroup
  <2>4. QED
    BY <2>1, <2>2, <2>3 DEF HasGroup
<1> HIDE DEF gidOf
<1>5. QED
  BY <1>2, <1>3, <1>4 DEF gidOf

\* The operations resolve computes are well formed.
LEMMA ResolveType ==
  ASSUME NEW p \in Payloads, NEW r \in Rows, Keyed(r),
         NEW fresh \in FreshIds(p, r, Gid \ r.groups)
  PROVE  LET o == Resolve(p, r, fresh)
         IN /\ OpsOK(o)
            /\ \A a \in Followers(p) : /\ o.target[a] \in Link
                                     /\ o.target[a].cfg = CfgOf(p, a)
                                     /\ o.target[a].gid = o.gidOf[GroupOf(p, a).leader]
<1> DEFINE o == Resolve(p, r, fresh)
           gidOf == GroupIds(p, r, fresh)
<1>1. /\ o.create = {l \in Leaders(p) : ~HasGroup(r, l)}
      /\ o.drop = Dropped(p, r) /\ o.gidOf = gidOf
      /\ o.upsert \subseteq Followers(p)
      /\ o.target = [a \in Followers(p) |->
                       [gid |-> gidOf[GroupOf(p, a).leader], cfg |-> CfgOf(p, a)]]
  BY DEF Resolve
<1>2. \A l \in Leaders(p) : gidOf[l] \in Gid
  BY GroupIdsFacts
<1>3. \A k, l \in Leaders(p) : gidOf[k] = gidOf[l] => k = l
  BY GroupIdsFacts
<1> HIDE DEF o, gidOf
<1>4. ASSUME NEW a \in Followers(p)
      PROVE  /\ o.target[a] \in Link /\ o.target[a].cfg = CfgOf(p, a)
             /\ o.target[a].gid = o.gidOf[GroupOf(p, a).leader]
  <2>1. GroupOf(p, a).leader \in Leaders(p) /\ CfgOf(p, a) \in Cfg
    BY PayloadFacts
  <2>2. o.target[a] = [gid |-> gidOf[GroupOf(p, a).leader], cfg |-> CfgOf(p, a)]
    BY <1>1
  <2>3. QED
    BY <1>1, <1>2, <2>1, <2>2 DEF Link
<1>5. OpsOK(o)
  <2>1. o.create \subseteq Leaders(p) /\ o.create \subseteq Acct
    BY <1>1, PayloadFacts
  <2>2. o.drop \subseteq Gid
    BY <1>1 DEF Dropped
  <2>3. QED
    BY <1>1, <1>2, <1>3, <1>4, <2>1, <2>2 DEF OpsOK
<1>6. QED
  BY <1>4, <1>5 DEF o

\* Well-formed operations keep the types and, short of a key conflict, the keys.
LEMMA AppliedType ==
  ASSUME NEW o, OpsOK(o), NEW r \in Rows
  PROVE  /\ Applied(o, r) \in Rows
         /\ Keyed(r) /\ ~Conflicts(o, r) => Keyed(Applied(o, r))
<1> DEFINE ids == NewIds(o)
           fol == [a \in Acct |-> IF a \in o.delete THEN None
                                  ELSE IF a \in o.upsert THEN o.target[a] ELSE r.fol[a]]
           groups2 == (r.groups \cup ids) \ o.drop
           leader2 == [g \in Gid |-> IF g \in o.drop THEN None
                                     ELSE IF g \in ids THEN CHOOSE l \in o.create : o.gidOf[l] = g
                                     ELSE r.leader[g]]
           fol2 == [a \in Acct |-> IF fol[a] # None /\ fol[a].gid \in o.drop
                                   THEN None ELSE fol[a]]
<1>1. Applied(o, r) = [groups |-> groups2, leader |-> leader2, fol |-> fol2]
  BY DEF Applied
<1>2. ids \subseteq Gid
  BY DEF OpsOK, NewIds
<1>3. ASSUME NEW g \in ids
      PROVE  \E l \in o.create : o.gidOf[l] = g /\ l = CHOOSE x \in o.create : o.gidOf[x] = g
  <2>1. \E x \in o.create : o.gidOf[x] = g
    BY <1>3 DEF NewIds
  <2>2. QED
    BY <2>1
<1>4. r.groups \subseteq Gid /\ r.leader \in [Gid -> Acct \cup {None}]
      /\ r.fol \in [Acct -> Link \cup {None}]
  BY DEF Rows
<1>5. groups2 \subseteq Gid
  BY <1>2, <1>4
<1>6. \A g \in Gid : leader2[g] \in Acct \cup {None}
  BY <1>3, <1>4 DEF OpsOK
<1>7. \A a \in Acct : fol[a] \in Link \cup {None}
  BY <1>4 DEF OpsOK
<1>8. \A a \in Acct : fol2[a] \in Link \cup {None}
  BY <1>7
<1>9. Applied(o, r) \in Rows
  <2>1. leader2 \in [Gid -> Acct \cup {None}] /\ fol2 \in [Acct -> Link \cup {None}]
    BY <1>6, <1>8
  <2> HIDE DEF leader2, fol2, groups2
  <2>2. QED
    BY <1>1, <1>5, <2>1 DEF Rows
<1>10. ASSUME Keyed(r), ~Conflicts(o, r) PROVE Keyed(Applied(o, r))
  <2>1. ASSUME NEW g \in Gid, leader2[g] # None PROVE g \in groups2
    BY <1>10, <2>1 DEF Keyed
  <2>2. ASSUME NEW g \in Gid, NEW h \in Gid, leader2[g] = leader2[h], leader2[g] # None
        PROVE  g = h
    <3>1. g \notin o.drop /\ h \notin o.drop
      BY <2>2
    <3>2. CASE g \in ids /\ h \in ids
      <4>1. leader2[g] \in o.create /\ o.gidOf[leader2[g]] = g
        BY <1>3, <3>1, <3>2
      <4>2. leader2[h] \in o.create /\ o.gidOf[leader2[h]] = h
        BY <1>3, <3>1, <3>2
      <4>3. QED
        BY <2>2, <4>1, <4>2
    <3>3. CASE g \notin ids /\ h \notin ids
      BY <1>10, <2>2, <3>1, <3>3 DEF Keyed
    <3>4. ASSUME NEW i \in Gid, NEW j \in Gid, i \in ids, i \notin o.drop,
                 j \notin ids, j \notin o.drop, leader2[i] = leader2[j]
          PROVE  FALSE
      <4>1. leader2[i] \in o.create
        BY <1>3, <3>4
      <4>2. r.leader[j] = leader2[i]
        BY <3>4
      <4>3. QED
        BY <1>10, <4>1, <4>2 DEF Conflicts, HasGroup
    <3>5. QED
      BY <2>2, <3>1, <3>2, <3>3, <3>4
  <2> HIDE DEF leader2, fol2, groups2
  <2>3. Applied(o, r).leader = leader2 /\ Applied(o, r).groups = groups2
    BY <1>1
  <2>4. QED
    BY <2>1, <2>2, <2>3 DEF Keyed
<1>11. QED
  BY <1>9, <1>10

\* Applied to the rows it was computed from, the difference leaves exactly the payload.
LEMMA ResolveExact ==
  ASSUME NEW p \in Payloads, NEW r \in Rows, Keyed(r),
         NEW fresh \in FreshIds(p, r, Gid \ r.groups)
  PROVE  Exactly(p, Applied(Resolve(p, r, fresh), r))
<1> DEFINE o == Resolve(p, r, fresh)
           new == Applied(o, r)
           ids == NewIds(o)
<1>1. /\ o.create = {l \in Leaders(p) : ~HasGroup(r, l)}
      /\ o.drop = Dropped(p, r)
      /\ o.delete = {a \in Acct \ Followers(p) : r.fol[a] # None}
      /\ o.upsert = {a \in Followers(p) : r.fol[a] # o.target[a]}
  BY DEF Resolve, Deleted
<1>2. \A l \in Leaders(p) :
        /\ o.gidOf[l] \in Gid
        /\ HasGroup(r, l) => o.gidOf[l] \in r.groups /\ r.leader[o.gidOf[l]] = l
        /\ ~HasGroup(r, l) => o.gidOf[l] \notin r.groups
  BY GroupIdsFacts DEF Resolve
<1>3. \A k, l \in Leaders(p) : o.gidOf[k] = o.gidOf[l] => k = l
  BY GroupIdsFacts DEF Resolve
<1>4. \A a \in Followers(p) : /\ o.target[a] \in Link /\ o.target[a].cfg = CfgOf(p, a)
                              /\ o.target[a].gid = o.gidOf[GroupOf(p, a).leader]
  BY ResolveType
<1>5. /\ new.groups = (r.groups \cup ids) \ o.drop
      /\ \A g \in Gid : new.leader[g] = IF g \in o.drop THEN None
                           ELSE IF g \in ids THEN CHOOSE l \in o.create : o.gidOf[l] = g
                           ELSE r.leader[g]
  BY DEF Applied
<1>6. \A a \in Acct :
        LET f == IF a \in o.delete THEN None
                 ELSE IF a \in o.upsert THEN o.target[a] ELSE r.fol[a]
        IN  new.fol[a] = IF f # None /\ f.gid \in o.drop THEN None ELSE f
  BY DEF Applied
<1>7. Leaders(p) \subseteq Acct /\ Followers(p) \subseteq Acct /\ None \notin Acct
      /\ \A a \in Followers(p) : GroupOf(p, a).leader \in Leaders(p)
  BY PayloadFacts, TcApplyAssumption
<1>8. r.groups \subseteq Gid /\ \A g \in Gid : r.leader[g] # None => g \in r.groups
  BY DEF Rows, Keyed
<1>9. ids = {o.gidOf[l] : l \in o.create}
  BY DEF NewIds
<1> HIDE DEF o, new, ids
\* The group of a desired leader, found or created, stays and is his.
<1>10. ASSUME NEW l \in Leaders(p)
       PROVE  LET g == o.gidOf[l] IN g \in Gid /\ g \in new.groups /\ g \notin o.drop /\ new.leader[g] = l
  <2> DEFINE g == o.gidOf[l]
  <2>1. CASE HasGroup(r, l)
    <3>1. g \in r.groups /\ r.leader[g] = l /\ g \in Gid
      BY <1>2, <2>1
    <3>2. g \notin o.drop
      BY <1>1, <1>7, <3>1 DEF Dropped
    <3>3. g \notin ids
      <4> SUFFICES ASSUME NEW k \in o.create, o.gidOf[k] = g PROVE FALSE
        BY <1>9
      <4>1. QED
        BY <1>1, <1>2, <3>1
    <3>4. QED
      BY <1>5, <3>1, <3>2, <3>3
  <2>2. CASE ~HasGroup(r, l)
    <3>1. l \in o.create /\ g \in ids /\ g \in Gid /\ g \notin r.groups
      BY <1>1, <1>2, <1>9, <2>2
    <3>2. g \notin o.drop
      BY <1>1, <1>8, <3>1 DEF Dropped
    <3>3. \A k \in o.create : o.gidOf[k] = g => k = l
      BY <1>1, <1>3
    <3>4. (CHOOSE k \in o.create : o.gidOf[k] = g) = l
      BY <3>1, <3>3
    <3>5. QED
      BY <1>5, <3>1, <3>2, <3>4
  <2>3. QED
    BY <2>1, <2>2
\* Every group that is left is one of those.
<1>11. ASSUME NEW g \in new.groups
       PROVE  g \in Gid /\ new.leader[g] \in Leaders(p) /\ g = o.gidOf[new.leader[g]]
  <2>1. g \notin o.drop
    BY <1>5
  <2>2. CASE g \in ids
    <3>1. PICK l \in o.create : o.gidOf[l] = g
      BY <1>9, <2>2
    <3>2. QED
      BY <1>1, <1>10, <3>1
  <2>3. CASE g \in r.groups /\ g \notin ids
    <3>1. g \in Gid /\ new.leader[g] = r.leader[g]
      BY <1>5, <1>8, <2>1, <2>3
    <3>2. r.leader[g] \in Leaders(p)
      BY <1>1, <2>1, <2>3, <3>1 DEF Dropped
    <3>3. HasGroup(r, r.leader[g])
      BY <3>1 DEF HasGroup
    <3>4. o.gidOf[r.leader[g]] \in Gid /\ r.leader[o.gidOf[r.leader[g]]] = r.leader[g]
      BY <1>2, <3>2, <3>3
    <3>5. g = o.gidOf[r.leader[g]]
      BY <1>7, <3>1, <3>2, <3>4 DEF Keyed
    <3>6. QED
      BY <3>1, <3>2, <3>5
  <2>4. QED
    BY <1>5, <2>2, <2>3
<1>12. {new.leader[g] : g \in new.groups} = Leaders(p)
  BY <1>10, <1>11
<1>13. \A g, h \in new.groups : new.leader[g] = new.leader[h] => g = h
  BY <1>11
<1>14. ASSUME NEW g \in Gid \ new.groups PROVE new.leader[g] = None
  BY <1>5, <1>8
<1>15. ASSUME NEW a \in Followers(p)
       PROVE  /\ new.fol[a] # None /\ new.fol[a].cfg = CfgOf(p, a)
              /\ new.leader[new.fol[a].gid] = GroupOf(p, a).leader
  <2>1. a \in Acct /\ a \notin o.delete /\ GroupOf(p, a).leader \in Leaders(p)
    BY <1>1, <1>7
  <2>2. (IF a \in o.upsert THEN o.target[a] ELSE r.fol[a]) = o.target[a]
    BY <1>1
  <2>3. o.target[a] # None /\ o.target[a].gid \notin o.drop
    BY <1>4, <1>10, <2>1, TcApplyAssumption
  <2>4. new.fol[a] = o.target[a]
    BY <1>6, <2>1, <2>2, <2>3
  <2>5. QED
    BY <1>4, <1>10, <2>1, <2>3, <2>4
<1>16. ASSUME NEW a \in Acct \ Followers(p) PROVE new.fol[a] = None
  <2>1. a \notin o.upsert /\ (a \in o.delete \/ r.fol[a] = None)
    BY <1>1
  <2>2. QED
    BY <1>6, <2>1
<1>17. QED
  BY <1>12, <1>13, <1>14, <1>15, <1>16 DEF Exactly, new, o

\* Rows that are the payload leave nothing to resolve.
LEMMA ExactEmpty ==
  ASSUME NEW p \in Payloads, NEW r \in Rows, Exactly(p, r), NEW fresh
  PROVE  Empty(Resolve(p, r, fresh))
<1> DEFINE o == Resolve(p, r, fresh)
           gidOf == GroupIds(p, r, fresh)
<1>1. /\ o.create = {l \in Leaders(p) : ~HasGroup(r, l)}
      /\ o.drop = Dropped(p, r)
      /\ o.delete = {a \in Acct \ Followers(p) : r.fol[a] # None}
      /\ o.upsert = {a \in Followers(p) : r.fol[a] # o.target[a]}
      /\ \A a \in Followers(p) :
           o.target[a] = [gid |-> gidOf[GroupOf(p, a).leader], cfg |-> CfgOf(p, a)]
  BY DEF Resolve, Deleted
<1>2. r.groups \subseteq Gid /\ r.fol \in [Acct -> Link \cup {None}]
  BY DEF Rows
<1>3. /\ {r.leader[g] : g \in r.groups} = Leaders(p)
      /\ \A g, h \in r.groups : r.leader[g] = r.leader[h] => g = h
      /\ \A g \in Gid \ r.groups : r.leader[g] = None
  BY DEF Exactly
<1>4. \A a \in Followers(p) : /\ r.fol[a] # None /\ r.fol[a].cfg = CfgOf(p, a)
                              /\ r.leader[r.fol[a].gid] = GroupOf(p, a).leader
  BY PayloadFacts DEF Exactly
<1>5. \A a \in Acct \ Followers(p) : r.fol[a] = None
  BY DEF Exactly
<1>6. /\ Leaders(p) \subseteq Acct /\ Followers(p) \subseteq Acct /\ None \notin Acct
      /\ \A a \in Followers(p) : GroupOf(p, a).leader \in Leaders(p)
  BY PayloadFacts, TcApplyAssumption
<1>7. \A l \in Leaders(p) : gidOf[l] = IF HasGroup(r, l) THEN CHOOSE g \in Gid : r.leader[g] = l
                                      ELSE fresh[l]
  BY DEF GroupIds
<1> HIDE DEF o, gidOf
<1>8. \A l \in Leaders(p) : \E g \in r.groups : r.leader[g] = l
  BY <1>3
<1>9. o.create = {}
  BY <1>1, <1>2, <1>8 DEF HasGroup
<1>10. o.drop = {}
  BY <1>1, <1>3, <1>6 DEF Dropped
<1>11. o.delete = {}
  BY <1>1, <1>5
<1>12. ASSUME NEW a \in Followers(p) PROVE r.fol[a] = o.target[a]
  <2> DEFINE l == GroupOf(p, a).leader
             h == r.fol[a].gid
  <2>1. r.fol[a] \in Link /\ l \in Leaders(p) /\ HasGroup(r, l)
    BY <1>2, <1>4, <1>6, <1>8 DEF HasGroup
  <2>2. h \in Gid /\ r.leader[h] = l
    BY <1>4, <2>1 DEF Link
  <2>3. \A g \in Gid : r.leader[g] = l => g = h
    BY <1>3, <1>6, <2>1, <2>2
  <2>4. (CHOOSE g \in Gid : r.leader[g] = l) = h
    BY <2>2, <2>3
  <2>5. gidOf[l] = h
    BY <1>7, <2>1, <2>4
  <2>6. o.target[a] = [gid |-> h, cfg |-> r.fol[a].cfg]
    BY <1>1, <1>4, <2>5
  <2>7. r.fol[a] = [gid |-> h, cfg |-> r.fol[a].cfg]
    BY <2>1 DEF Link
  <2>8. QED
    BY <2>6, <2>7
<1>13. o.upsert = {}
  BY <1>1, <1>12
<1>14. QED
  BY <1>9, <1>10, <1>11, <1>13 DEF Empty, o
-----------------------------------------------------------------------------
(* The state.                                                               *)

\* The empty difference is well formed.
LEMMA NoOpsOK == OpsOK(NoOps)
  BY DEF OpsOK, NoOps

\* The invariant holds at the start.
LEMMA InitInv == Init => IInv
<1> SUFFICES ASSUME Init PROVE IInv
  OBVIOUS
<1>1. rows \in Rows /\ Keyed(rows) /\ None \notin Writers
  BY TcApplyAssumption DEF Init
<1>2. TypeInv
  BY <1>1, NoOpsOK DEF Init, TypeInv, TypeOK
<1>3. OneWriter /\ WritesAlone /\ ShapeInv /\ CalmInv
  BY DEF Init, OneWriter, Inside, WritesAlone, ShapeInv, CalmInv, CalmAt
<1>4. KeyInv
  BY <1>1, TcApplyAssumption DEF Init, KeyInv
<1>5. QED
  BY <1>2, <1>3, <1>4 DEF IInv

\* What a writer leaves alone of the others.
Others(w) ==
  \A x \in Writers \ {w} :
    /\ pc'[x] = pc[x] /\ want'[x] = want[x] /\ ops'[x] = ops[x] /\ was'[x] = was[x]
    /\ saved'[x] = saved[x] /\ why'[x] = why[x]
    /\ calm'[x] => calm[x] /\ rows' = rows

\* An id never used is not in the file.
LEMMA FreshIdsAreFree ==
  ASSUME rows # Torn, NEW p, NEW fresh \in FreshIds(p, rows, Gid \ Used)
  PROVE  fresh \in FreshIds(p, rows, Gid \ rows.groups)
<1> DEFINE new == {l \in Leaders(p) : ~HasGroup(rows, l)}
<1>1. fresh \in [new -> Gid \ Used] /\ \A k, l \in new : fresh[k] = fresh[l] => k = l
  BY DEF FreshIds
<1>2. rows.groups \subseteq Used
  BY DEF Used
<1> HIDE DEF new
<1>3. fresh \in [new -> Gid \ rows.groups]
  BY <1>1, <1>2
<1>4. QED
  BY <1>1, <1>3 DEF FreshIds, new

\* A preflight ends at once or enters with the difference it found.
LEMMA PreflightFacts ==
  ASSUME TypeInv, ShapeInv, NEW w \in Writers, NEW p \in Payloads, Preflight(w, p)
  PROVE  /\ pc[w] = "idle" /\ Others(w) /\ calm' = [calm EXCEPT ![w] = TRUE]
         /\ UNCHANGED <<rows, open, schema, app, stopped, lock, guest, was, why, events>>
         /\ saved'[w] = None /\ DOMAIN saved' = Writers /\ DOMAIN result' = Writers
         /\ \/ pc' = [pc EXCEPT ![w] = "idle"] /\ ops' = [ops EXCEPT ![w] = NoOps] /\ want' = want
            \/ /\ pc' = [pc EXCEPT ![w] = "lock"] /\ want' = [want EXCEPT ![w] = p] /\ Parses(p)
               /\ rows # Torn
               /\ \E fresh \in FreshIds(p, rows, Gid \ rows.groups) :
                    ops' = [ops EXCEPT ![w] = Resolve(p, rows, fresh)]
<1> USE DEF TypeInv, TypeOK
<1>1. /\ pc[w] = "idle" /\ calm' = [calm EXCEPT ![w] = TRUE]
      /\ UNCHANGED <<rows, open, schema, app, stopped, guest, events>>
  BY DEF Preflight
<1>2. CASE \E r : Return(w, r)
  BY <1>1, <1>2 DEF Return, Goto, Inside, Others
<1>3. CASE /\ Goto(w, "lock") /\ rows # Torn /\ Parses(p)
           /\ want' = [want EXCEPT ![w] = p]
           /\ result' = [result EXCEPT ![w] = "none"]
           /\ UNCHANGED <<was, saved, why, lock>>
           /\ \E fresh \in FreshIds(p, rows, Gid \ Used) :
                ops' = [ops EXCEPT ![w] = Resolve(p, rows, fresh)]
  <2>1. \E fresh \in FreshIds(p, rows, Gid \ rows.groups) :
          ops' = [ops EXCEPT ![w] = Resolve(p, rows, fresh)]
    BY <1>3, FreshIdsAreFree
  <2>2. saved'[w] = None
    BY <1>1, <1>3 DEF ShapeInv
  <2>3. Others(w)
    BY <1>1, <1>3 DEF Others, Goto
  <2>4. QED
    BY <1>1, <1>3, <2>1, <2>2, <2>3 DEF Goto
<1>4. (\E r : Return(w, r)) \/ ( /\ Goto(w, "lock") /\ rows # Torn /\ Parses(p)
           /\ want' = [want EXCEPT ![w] = p]
           /\ result' = [result EXCEPT ![w] = "none"]
           /\ UNCHANGED <<was, saved, why, lock>>
           /\ \E fresh \in FreshIds(p, rows, Gid \ Used) :
                ops' = [ops EXCEPT ![w] = Resolve(p, rows, fresh)])
  BY DEF Preflight
<1>5. QED
  BY <1>2, <1>3, <1>4

\* What holds of a writer that does not move keeps holding of it.
LEMMA OthersKeep ==
  ASSUME TypeInv, ShapeInv, CalmInv, KeyInv, NEW w \in Writers, Others(w),
         NEW x \in Writers, x # w
  PROVE  /\ CalmAt(x)'
         /\ pc'[x] \in {"idle", "lock", "quit", "wait", "backup"} <=> saved'[x] = None
         /\ pc'[x] = "rewait" => why'[x] = "verify"
         /\ OpsOK(ops'[x])
         /\ pc'[x] # "idle" => want'[x] \in Payloads /\ Parses(want'[x])
         /\ saved'[x] \notin {Torn, None} => Keyed(saved'[x])
         /\ saved'[x] \in Rows \cup {Torn, None}
<1>1. /\ pc'[x] = pc[x] /\ want'[x] = want[x] /\ ops'[x] = ops[x] /\ saved'[x] = saved[x]
      /\ why'[x] = why[x] /\ (calm'[x] => calm[x] /\ rows' = rows)
  BY DEF Others
<1>2. CalmAt(x)'
  BY <1>1 DEF CalmInv, CalmAt
<1>3. QED
  BY <1>1, <1>2 DEF TypeInv, TypeOK, ShapeInv, KeyInv

\* So a step of w keeps the invariant when it does what is asked of w and of the shared state.
LEMMA StepKeeps ==
  ASSUME IInv, NEW w \in Writers, Others(w),
         pc' \in [Writers -> {"idle", "lock", "quit", "wait", "backup", "write", "relaunch",
                              "verify", "rewait", "undo", "undo2", "restart"}],
         was' \in [Writers -> BOOLEAN], calm' \in [Writers -> BOOLEAN], guest' \in BOOLEAN,
         open' = open, schema' = schema, app' \in {"down", "boot", "up", "closing"},
         stopped' \in BOOLEAN, lock' \in Writers \cup {None}, rows' \in Rows \cup {Torn}, rows' # Torn => Keyed(rows'),
         DOMAIN want' = Writers, DOMAIN ops' = Writers, DOMAIN saved' = Writers,
         DOMAIN why' = Writers, DOMAIN result' = Writers,
         OpsOK(ops'[w]), pc'[w] # "idle" => want'[w] \in Payloads /\ Parses(want'[w]),
         saved'[w] \in Rows \cup {Torn, None}, saved'[w] \notin {Torn, None} => Keyed(saved'[w]),
         OneWriter', WritesAlone', CalmAt(w)',
         pc'[w] \in {"idle", "lock", "quit", "wait", "backup"} <=> saved'[w] = None,
         pc'[w] = "rewait" => why'[w] = "verify"
  PROVE  IInv'
<1> TypeInv /\ ShapeInv /\ CalmInv /\ KeyInv
  BY DEF IInv
<1>1. TypeOK'
  <2>1. \A x \in Writers : saved'[x] \in Rows \cup {Torn, None}
    BY OthersKeep
  <2>2. QED
    BY <2>1 DEF TypeInv, TypeOK
<1>2. TypeInv'
  <2>1. \A x \in Writers : /\ OpsOK(ops'[x])
                           /\ pc'[x] # "idle" => want'[x] \in Payloads /\ Parses(want'[x])
    BY OthersKeep
  <2>2. QED
    BY <1>1, <2>1 DEF TypeInv
<1>3. KeyInv'
  <2>1. \A x \in Writers : saved'[x] \notin {Torn, None} => Keyed(saved'[x])
    BY OthersKeep
  <2>2. QED
    BY <2>1 DEF KeyInv
<1>4. ShapeInv'
  <2>1. \A x \in Writers :
          /\ pc'[x] \in {"idle", "lock", "quit", "wait", "backup"} <=> saved'[x] = None
          /\ pc'[x] = "rewait" => why'[x] = "verify"
    BY OthersKeep
  <2>2. QED
    BY <2>1 DEF ShapeInv
<1>5. CalmInv'
  <2>1. \A x \in Writers : CalmAt(x)'
    BY OthersKeep
  <2>2. QED
    BY <2>1 DEF CalmInv
<1>6. QED
  BY <1>1, <1>2, <1>3, <1>4, <1>5 DEF IInv

\* The preflight keeps the invariant.
LEMMA PreflightKeeps ==
  ASSUME IInv, NEW w \in Writers, NEW p \in Payloads, Preflight(w, p)
  PROVE  IInv'
<1>0. TypeInv /\ ShapeInv /\ KeyInv /\ OneWriter /\ WritesAlone
  BY DEF IInv
<1>1. /\ pc[w] = "idle" /\ Others(w) /\ calm' = [calm EXCEPT ![w] = TRUE]
      /\ UNCHANGED <<rows, open, schema, app, stopped, lock, guest, was, why, events>>
      /\ saved'[w] = None /\ DOMAIN saved' = Writers /\ DOMAIN result' = Writers
  BY <1>0, PreflightFacts
<1>2. /\ was' \in [Writers -> BOOLEAN] /\ calm' \in [Writers -> BOOLEAN] /\ guest' \in BOOLEAN
      /\ app' \in {"down", "boot", "up", "closing"} /\ lock' \in Writers \cup {None}
      /\ rows' \in Rows \cup {Torn} /\ (rows' # Torn => Keyed(rows')) /\ DOMAIN why' = Writers
      /\ saved'[w] \in Rows \cup {Torn, None} /\ stopped' \in BOOLEAN
  BY <1>0, <1>1 DEF TypeInv, TypeOK, KeyInv
<1>3. CASE pc' = [pc EXCEPT ![w] = "idle"] /\ ops' = [ops EXCEPT ![w] = NoOps] /\ want' = want
  <2>1. /\ DOMAIN ops' = Writers /\ DOMAIN want' = Writers /\ pc'[w] = "idle" /\ OpsOK(ops'[w])
        /\ pc' \in [Writers -> {"idle", "lock", "quit", "wait", "backup", "write", "relaunch",
                                "verify", "rewait", "undo", "undo2", "restart"}]
    BY <1>0, <1>3, NoOpsOK DEF TypeInv, TypeOK
  <2>2. OneWriter' /\ WritesAlone'
    BY <1>0, <1>1, <2>1 DEF OneWriter, WritesAlone, Inside, Running, Others
  <2>3. CalmAt(w)'
    BY <2>1 DEF CalmAt
  <2>4. QED
    BY <1>1, <1>2, <2>1, <2>2, <2>3, StepKeeps
<1>4. ASSUME pc' = [pc EXCEPT ![w] = "lock"], want' = [want EXCEPT ![w] = p], Parses(p), rows # Torn,
             NEW fresh \in FreshIds(p, rows, Gid \ rows.groups),
             ops' = [ops EXCEPT ![w] = Resolve(p, rows, fresh)]
      PROVE  IInv'
  <2>0. OpsOK(Resolve(p, rows, fresh))
    BY <1>0, <1>4, ResolveType DEF TypeInv, TypeOK, KeyInv
  <2>1. /\ DOMAIN ops' = Writers /\ DOMAIN want' = Writers /\ pc'[w] = "lock" /\ want'[w] = p
        /\ ops'[w] = Resolve(p, rows, fresh) /\ OpsOK(ops'[w])
        /\ pc' \in [Writers -> {"idle", "lock", "quit", "wait", "backup", "write", "relaunch",
                                "verify", "rewait", "undo", "undo2", "restart"}]
    BY <1>0, <1>4, <2>0 DEF TypeInv, TypeOK
  <2>2. OneWriter' /\ WritesAlone'
    BY <1>0, <1>1, <2>1 DEF OneWriter, WritesAlone, Inside, Running, Others
  <2>3. CalmAt(w)'
    BY <1>1, <1>4, <2>1 DEF CalmAt
  <2>4. QED
    BY <1>1, <1>2, <1>4, <2>1, <2>2, <2>3, StepKeeps
<1>5. \/ pc' = [pc EXCEPT ![w] = "idle"] /\ ops' = [ops EXCEPT ![w] = NoOps] /\ want' = want
      \/ /\ pc' = [pc EXCEPT ![w] = "lock"] /\ want' = [want EXCEPT ![w] = p] /\ Parses(p)
         /\ rows # Torn
         /\ \E fresh \in FreshIds(p, rows, Gid \ rows.groups) :
              ops' = [ops EXCEPT ![w] = Resolve(p, rows, fresh)]
  BY <1>0, PreflightFacts
<1>6. QED
  BY <1>3, <1>4, <1>5

\* The labels between the lock and the return.
Within == {"quit", "wait", "backup", "write", "relaunch", "verify", "rewait", "undo", "undo2",
           "restart"}

\* A return of the lock's holder, or of a run that never got it.
LEMMA ReturnKeeps ==
  ASSUME IInv, NEW w \in Writers, NEW r, Return(w, r), pc[w] # "idle",
         UNCHANGED <<rows, open, schema, calm, guest>>,
         app' \in {"down", "boot", "up", "closing"}, Inside(w) \/ app' = app, stopped' \in BOOLEAN
  PROVE  IInv'
<1>0. TypeInv /\ ShapeInv /\ KeyInv /\ OneWriter /\ WritesAlone
  BY DEF IInv
<1>1. /\ pc' = [pc EXCEPT ![w] = "idle"] /\ result' = [result EXCEPT ![w] = r]
      /\ ops' = [ops EXCEPT ![w] = NoOps] /\ saved' = [saved EXCEPT ![w] = None]
      /\ lock' = IF Inside(w) THEN None ELSE lock
      /\ want' = want /\ was' = was /\ why' = why
  BY DEF Return, Goto
<1>2. /\ was' \in [Writers -> BOOLEAN] /\ calm' \in [Writers -> BOOLEAN] /\ guest' \in BOOLEAN
      /\ lock' \in Writers \cup {None}
      /\ rows' \in Rows \cup {Torn} /\ (rows' # Torn => Keyed(rows'))
      /\ DOMAIN want' = Writers /\ DOMAIN ops' = Writers /\ DOMAIN saved' = Writers
      /\ DOMAIN why' = Writers /\ DOMAIN result' = Writers
  BY <1>0, <1>1 DEF TypeInv, TypeOK, KeyInv
<1>3. /\ pc'[w] = "idle" /\ saved'[w] = None /\ ops'[w] = NoOps
      /\ pc' \in [Writers -> {"idle", "lock", "quit", "wait", "backup", "write", "relaunch",
                              "verify", "rewait", "undo", "undo2", "restart"}]
  BY <1>0, <1>1 DEF TypeInv, TypeOK
<1>4. Others(w)
  BY <1>0, <1>1 DEF Others, TypeInv, TypeOK
<1>5. \A x \in Writers : Inside(x)' => x # w /\ Inside(x) /\ pc'[x] = pc[x]
  BY <1>3, <1>4 DEF Others, Inside
<1>6. Inside(w) => \A x \in Writers : ~Inside(x)'
  BY <1>0, <1>5 DEF OneWriter
<1>7. OneWriter'
  BY <1>0, <1>1, <1>5, <1>6 DEF OneWriter
<1>8. WritesAlone'
  BY <1>0, <1>5, <1>6 DEF WritesAlone, Inside, Running
<1>9. CalmAt(w)' /\ OpsOK(ops'[w])
  BY <1>3, NoOpsOK DEF CalmAt
<1>10. QED
  BY <1>2, <1>3, <1>4, <1>7, <1>8, <1>9, StepKeeps

\* A step of the lock's holder to another label between the lock and the return.
LEMMA MoveKeeps ==
  ASSUME IInv, NEW w \in Writers, Inside(w), NEW l \in Within, Goto(w, l),
         UNCHANGED <<open, schema, lock, want, ops, result, guest>>,
         was' \in [Writers -> BOOLEAN], app' \in {"down", "boot", "up", "closing"},
         stopped' \in BOOLEAN, calm' \in [Writers -> BOOLEAN], rows' \in Rows \cup {Torn},
         rows' # Torn => Keyed(rows'), DOMAIN saved' = Writers, DOMAIN why' = Writers,
         saved'[w] \in Rows \cup {Torn, None}, saved'[w] \notin {Torn, None} => Keyed(saved'[w]),
         \A x \in Writers \ {w} : /\ was'[x] = was[x] /\ saved'[x] = saved[x] /\ why'[x] = why[x]
                                  /\ calm'[x] => calm[x] /\ rows' = rows,
         l \in {"backup", "write", "undo", "undo2"} => app' = "down" \/ guest,
         l \in {"quit", "wait", "backup"} <=> saved'[w] = None, l = "rewait" => why'[w] = "verify",
         CalmAt(w)'
  PROVE  IInv'
<1>0. TypeInv /\ ShapeInv /\ KeyInv /\ OneWriter /\ WritesAlone
  BY DEF IInv
<1>1. pc' = [pc EXCEPT ![w] = l] /\ lock = w /\ lock' = w
  BY <1>0 DEF Goto, OneWriter
<1>2. /\ pc'[w] = l
      /\ pc' \in [Writers -> {"idle", "lock", "quit", "wait", "backup", "write", "relaunch",
                              "verify", "rewait", "undo", "undo2", "restart"}]
      /\ \A x \in Writers \ {w} : pc'[x] = pc[x]
  BY <1>0, <1>1 DEF TypeInv, TypeOK, Within
<1>3. Others(w)
  BY <1>2 DEF Others
<1>4. \A x \in Writers : Inside(x)' => x = w
  BY <1>0, <1>1, <1>2 DEF OneWriter, Inside
<1>5. OneWriter'
  BY <1>1, <1>4 DEF OneWriter
<1>6. WritesAlone'
  BY <1>2, <1>4 DEF WritesAlone, Inside, Running
<1>7. /\ guest' \in BOOLEAN /\ lock' \in Writers \cup {None} /\ DOMAIN want' = Writers
      /\ DOMAIN ops' = Writers /\ DOMAIN result' = Writers /\ OpsOK(ops'[w])
      /\ want'[w] \in Payloads /\ Parses(want'[w])
  BY <1>0, <1>1 DEF TypeInv, TypeOK, Inside
<1>8. l # "idle" /\ (l \in {"idle", "lock", "quit", "wait", "backup"} <=> saved'[w] = None)
  BY DEF Within
<1>9. QED
  BY <1>2, <1>3, <1>5, <1>6, <1>7, <1>8, StepKeeps

\* TakeLock: aborts, or holds the lock that nobody held.
LEMMA TakeLockKeeps ==
  ASSUME IInv, NEW w \in Writers, TakeLock(w)
  PROVE  IInv'
<1>0. TypeInv /\ ShapeInv /\ KeyInv /\ OneWriter /\ WritesAlone /\ CalmInv
  BY DEF IInv
<1>1. pc[w] = "lock" /\ UNCHANGED <<rows, open, schema, app, stopped, calm, runs>> /\ ~Inside(w)
  BY DEF TakeLock, Inside
<1>2. CASE Return(w, "aborted") /\ UNCHANGED guest
  BY <1>0, <1>1, <1>2, ReturnKeeps DEF TypeInv, TypeOK
<1>3. CASE /\ lock = None /\ lock' = w /\ guest' = FALSE /\ Goto(w, "quit")
           /\ UNCHANGED <<want, ops, was, saved, why, result, events>>
  <2>1. /\ pc'[w] = "quit" /\ (\A x \in Writers \ {w} : pc'[x] = pc[x])
        /\ pc' \in [Writers -> {"idle", "lock", "quit", "wait", "backup", "write", "relaunch",
                                "verify", "rewait", "undo", "undo2", "restart"}]
    BY <1>0, <1>3 DEF TypeInv, TypeOK, Goto
  <2>2. \A x \in Writers : ~Inside(x)
    BY <1>0, <1>3, TcApplyAssumption DEF OneWriter
  <2>3. OneWriter' /\ WritesAlone'
    BY <1>3, <2>1, <2>2 DEF OneWriter, WritesAlone, Inside
  <2>4. Others(w)
    BY <1>1, <1>3, <2>1 DEF Others
  <2>5. CalmAt(w)'
    BY <1>0, <1>1, <1>3, <2>1 DEF CalmInv, CalmAt
  <2>6. /\ was' \in [Writers -> BOOLEAN] /\ calm' \in [Writers -> BOOLEAN] /\ guest' \in BOOLEAN
        /\ app' \in {"down", "boot", "up", "closing"} /\ lock' \in Writers \cup {None}
        /\ rows' \in Rows \cup {Torn} /\ (rows' # Torn => Keyed(rows'))
        /\ DOMAIN want' = Writers /\ DOMAIN ops' = Writers /\ DOMAIN saved' = Writers
        /\ DOMAIN why' = Writers /\ DOMAIN result' = Writers
        /\ OpsOK(ops'[w]) /\ want'[w] \in Payloads /\ Parses(want'[w]) /\ saved'[w] = None
        /\ stopped' \in BOOLEAN
    BY <1>0, <1>1, <1>3 DEF TypeInv, TypeOK, KeyInv, ShapeInv
  <2>7. QED
    BY <1>1, <2>1, <2>3, <2>4, <2>5, <2>6, StepKeeps
<1>4. QED
  BY <1>2, <1>3 DEF TakeLock

\* The types and keys a step leaves alone.
LEMMA StillTyped ==
  ASSUME IInv, NEW w \in Writers
  PROVE  /\ was \in [Writers -> BOOLEAN] /\ calm \in [Writers -> BOOLEAN]
         /\ app \in {"down", "boot", "up", "closing"} /\ rows \in Rows \cup {Torn}
         /\ (rows # Torn => Keyed(rows)) /\ DOMAIN saved = Writers /\ DOMAIN why = Writers
         /\ saved[w] \in Rows \cup {Torn, None} /\ (saved[w] \notin {Torn, None} => Keyed(saved[w]))
         /\ (pc[w] \in {"idle", "lock", "quit", "wait", "backup"} <=> saved[w] = None)
         /\ (pc[w] = "rewait" => why[w] = "verify") /\ CalmAt(w)
         /\ pc \in [Writers -> {"idle", "lock", "quit", "wait", "backup", "write", "relaunch",
                              "verify", "rewait", "undo", "undo2", "restart"}]
         /\ OpsOK(ops[w]) /\ stopped \in BOOLEAN
  BY DEF IInv, TypeInv, TypeOK, KeyInv, ShapeInv, CalmInv

\* Quit, Exclusive and Relaunch: the copier's process and the label.
LEMMA QuitKeeps ==
  ASSUME IInv, NEW w \in Writers, Quit(w)
  PROVE  IInv'
<1>1. /\ pc[w] = "quit" /\ Inside(w) /\ Goto(w, "wait") /\ was' = [was EXCEPT ![w] = Running]
      /\ UNCHANGED <<rows, open, schema, lock, want, ops, saved, why, result, calm, guest>>
      /\ app' \in {app, "closing"} /\ stopped' \in BOOLEAN
  BY StillTyped DEF Quit, Inside, QuitApp, Running
<1>2. was' \in [Writers -> BOOLEAN] /\ \A x \in Writers \ {w} : was'[x] = was[x]
  BY <1>1, StillTyped DEF Running
<1>3. pc'[w] = "wait"
  BY <1>1, StillTyped DEF Goto
<1>4. CalmAt(w)'
  BY <1>1, <1>3, StillTyped DEF CalmAt
<1>5. QED
  BY <1>1, <1>2, <1>4, StillTyped, MoveKeeps DEF Within

\* Getting the file for oneself keeps the invariant.
LEMMA ExclusiveKeeps ==
  ASSUME IInv, NEW w \in Writers, Exclusive(w)
  PROVE  IInv'
<1>1. /\ Inside(w) /\ app = "down" /\ app' = app /\ stopped' = stopped
      /\ UNCHANGED <<rows, open, schema, lock, want, ops, was, saved, why, result, calm, guest>>
  BY DEF Exclusive, Inside, Running
<1>2. CASE pc[w] = "wait" /\ Goto(w, "backup")
  <2>1. pc'[w] = "backup"
    BY <1>2, StillTyped DEF Goto
  <2>2. CalmAt(w)'
    BY <1>1, <1>2, <2>1, StillTyped DEF CalmAt
  <2>3. QED
    BY <1>1, <1>2, <2>2, StillTyped, MoveKeeps DEF Within
<1>3. CASE pc[w] = "rewait" /\ Goto(w, "undo")
  <2>1. pc'[w] = "undo"
    BY <1>3, StillTyped DEF Goto
  <2>2. CalmAt(w)'
    BY <2>1 DEF CalmAt
  <2>3. QED
    BY <1>1, <1>3, <2>2, StillTyped, MoveKeeps DEF Within
<1>4. QED
  BY <1>2, <1>3 DEF Exclusive

\* A quit that times out keeps the invariant.
LEMMA QuitTimeoutKeeps ==
  ASSUME IInv, NEW w \in Writers, QuitTimeout(w)
  PROVE  IInv'
<1>1. /\ pc[w] # "idle" /\ Inside(w) /\ UNCHANGED <<rows, open, schema, app, stopped, calm, guest>>
      /\ \E r : Return(w, r)
  BY DEF QuitTimeout, Inside
<1>2. QED
  BY <1>1, StillTyped, ReturnKeeps

\* Backup: the rows themselves are what is saved.
LEMMA BackupKeeps ==
  ASSUME IInv, NEW w \in Writers, Backup(w)
  PROVE  IInv'
<1>1. pc[w] = "backup" /\ Inside(w) /\ UNCHANGED <<rows, open, schema, app, stopped, calm, guest>>
  BY DEF Backup, Inside
<1>2. CASE Return(w, "raised")
  BY <1>1, <1>2, StillTyped, ReturnKeeps
<1>3. CASE /\ saved' = [saved EXCEPT ![w] = rows] /\ Goto(w, "write")
           /\ UNCHANGED <<lock, want, ops, was, why, result>>
  <2>1. /\ pc'[w] = "write" /\ DOMAIN saved' = Writers /\ saved'[w] = rows
        /\ \A x \in Writers \ {w} : saved'[x] = saved[x]
    BY <1>3, StillTyped DEF Goto
  <2>2. CalmAt(w)'
    <3>1. CalmAt(w)
      BY StillTyped
    <3>2. QED
      BY <1>1, <1>3, <2>1, <3>1 DEF CalmAt
  <2>3. (app = "down" \/ guest) /\ rows # None /\ rows \in Rows \cup {Torn}
    BY <1>1, StillTyped, TcApplyAssumption DEF IInv, WritesAlone, Running
  <2>4. QED
    BY <1>1, <1>3, <2>1, <2>2, <2>3, StillTyped, MoveKeeps DEF Within
<1>4. QED
  BY <1>2, <1>3 DEF Backup

\* Write: the transaction keeps the keys, and on undisturbed rows it leaves the payload.
LEMMA WriteKeeps ==
  ASSUME IInv, NEW w \in Writers, Write(w)
  PROVE  IInv'
<1>1. /\ pc[w] = "write" /\ Inside(w)
      /\ UNCHANGED <<open, schema, app, stopped, lock, want, ops, was, saved, result, guest>>
      /\ OpsOK(ops[w]) /\ want[w] \in Payloads
  BY DEF Write, Inside, IInv, TypeInv
<1>2. CASE /\ rows # Torn /\ ~Conflicts(ops[w], rows)
           /\ rows' = Applied(ops[w], rows)
           /\ Disturb(w) /\ Goto(w, "relaunch") /\ UNCHANGED why
  <2>1. rows \in Rows /\ Keyed(rows)
    BY <1>2, StillTyped
  <2>2. rows' \in Rows /\ Keyed(rows')
    BY <1>1, <1>2, <2>1, AppliedType
  <2>3. pc'[w] = "relaunch"
    BY <1>2, StillTyped DEF Goto
  <2>4. /\ calm' \in [Writers -> BOOLEAN] /\ calm'[w] = calm[w]
        /\ \A x \in Writers \ {w} : calm'[x] = FALSE
    BY <1>2, StillTyped DEF Disturb
  <2>5. ASSUME calm[w] PROVE Exactly(want[w], rows')
    <3>1. PICK fresh \in FreshIds(want[w], rows, Gid \ rows.groups) :
                 ops[w] = Resolve(want[w], rows, fresh)
      BY <1>1, <2>5, StillTyped DEF CalmAt
    <3>2. QED
      BY <1>1, <1>2, <2>1, <3>1, ResolveExact
  <2>6. CalmAt(w)'
    BY <1>1, <2>2, <2>3, <2>4, <2>5, TcApplyAssumption DEF CalmAt
  <2>7. QED
    BY <1>1, <1>2, <2>2, <2>4, <2>6, StillTyped, MoveKeeps DEF Within
<1>3. CASE /\ why' = [why EXCEPT ![w] = "sql"] /\ Goto(w, "undo")
           /\ UNCHANGED <<rows, calm>>
  <2>1. pc'[w] = "undo" /\ DOMAIN why' = Writers /\ \A x \in Writers \ {w} : why'[x] = why[x]
    BY <1>3, StillTyped DEF Goto
  <2>2. CalmAt(w)'
    BY <2>1 DEF CalmAt
  <2>3. app = "down" \/ guest
    BY <1>1 DEF IInv, WritesAlone, Running
  <2>4. QED
    BY <1>1, <1>3, <2>1, <2>2, <2>3, StillTyped, MoveKeeps DEF Within
<1>4. QED
  BY <1>2, <1>3 DEF Write
\* The relaunch keeps the invariant.
LEMMA RelaunchKeeps ==
  ASSUME IInv, NEW w \in Writers, Relaunch(w)
  PROVE  IInv'
<1>1. /\ pc[w] = "relaunch" /\ Inside(w) /\ Goto(w, "verify")
      /\ UNCHANGED <<rows, open, schema, lock, want, ops, was, saved, why, result, calm, guest>>
      /\ app' \in {app, "boot"} /\ stopped' \in {stopped, FALSE}
  BY DEF Relaunch, Inside, StartApp
<1>2. pc'[w] = "verify"
  BY <1>1, StillTyped DEF Goto
<1>3. CalmAt(w)'
  BY <1>1, <1>2, StillTyped DEF CalmAt
<1>4. QED
  BY <1>1, <1>2, <1>3, StillTyped, MoveKeeps DEF Within

\* A verified apply keeps the invariant.
LEMMA VerifyGoodKeeps ==
  ASSUME IInv, NEW w \in Writers, VerifyGood(w)
  PROVE  IInv'
<1>1. /\ pc[w] # "idle" /\ Inside(w) /\ UNCHANGED <<rows, open, schema, app, stopped, calm, guest>>
      /\ Return(w, "applied")
  BY DEF VerifyGood, Inside
<1>2. QED
  BY <1>1, StillTyped, ReturnKeeps

\* A verification that fails keeps the invariant.
LEMMA VerifyBadKeeps ==
  ASSUME IInv, NEW w \in Writers, VerifyBad(w)
  PROVE  IInv'
<1>1. /\ pc[w] = "verify" /\ Inside(w) /\ why' = [why EXCEPT ![w] = "verify"]
      /\ UNCHANGED <<rows, open, schema, lock, want, ops, was, saved, result, calm, guest>>
      /\ app' \in {app, "closing"} /\ (app = "down" => app' = "down") /\ stopped' \in BOOLEAN
  BY StillTyped DEF VerifyBad, Inside, QuitApp, Running
<1>2. DOMAIN why' = Writers /\ why'[w] = "verify" /\ \A x \in Writers \ {w} : why'[x] = why[x]
  BY <1>1, StillTyped
<1>3. PICK l \in {"rewait", "undo"} : Goto(w, l) /\ (l = "undo" => app = "down")
  BY DEF VerifyBad, Running
<1>4. pc'[w] = l /\ l \in Within
  BY <1>3, StillTyped DEF Goto, Within
<1>5. CalmAt(w)'
  BY <1>3, <1>4 DEF CalmAt
<1>6. app' \in {"down", "boot", "up", "closing"} /\ saved'[w] # None
  BY <1>1, StillTyped
<1>7. QED
  BY <1>1, <1>2, <1>3, <1>4, <1>5, <1>6, StillTyped, MoveKeeps DEF Within

\* The first file's restore keeps the invariant.
LEMMA RestoreFirstKeeps ==
  ASSUME IInv, NEW w \in Writers, RestoreFirst(w)
  PROVE  IInv'
<1>1. /\ pc[w] = "undo" /\ Inside(w) /\ rows' = Torn /\ Disturb(w) /\ Goto(w, "undo2")
      /\ UNCHANGED <<open, schema, app, stopped, lock, want, ops, was, saved, why, result, guest>>
  BY DEF RestoreFirst, Inside
<1>2. /\ calm' \in [Writers -> BOOLEAN] /\ \A x \in Writers \ {w} : calm'[x] = FALSE
  BY <1>1, StillTyped DEF Disturb
<1>3. pc'[w] = "undo2"
  BY <1>1, StillTyped DEF Goto
<1>4. CalmAt(w)' /\ (app = "down" \/ guest)
  BY <1>1, <1>3 DEF CalmAt, IInv, WritesAlone, Running
<1>5. QED
  BY <1>1, <1>2, <1>3, <1>4, StillTyped, MoveKeeps DEF Within

\* The other files' restore keeps the invariant.
LEMMA RestoreRestKeeps ==
  ASSUME IInv, NEW w \in Writers, RestoreRest(w)
  PROVE  IInv'
<1>1. pc[w] = "undo2" /\ Inside(w) /\ UNCHANGED <<open, schema, app, stopped, guest>>
  BY DEF RestoreRest, Inside
<1>2. CASE /\ rows' = saved[w] /\ Disturb(w) /\ Goto(w, "restart")
           /\ UNCHANGED <<lock, want, ops, was, saved, why, result>>
  <2>1. /\ calm' \in [Writers -> BOOLEAN] /\ \A x \in Writers \ {w} : calm'[x] = FALSE
    BY <1>2, StillTyped DEF Disturb
  <2>2. pc'[w] = "restart"
    BY <1>2, StillTyped DEF Goto
  <2>3. saved[w] # None
    BY <1>1, StillTyped
  <2>4. rows' \in Rows \cup {Torn} /\ (rows' # Torn => Keyed(rows'))
    BY <1>2, <2>3, StillTyped
  <2>5. CalmAt(w)'
    BY <2>2 DEF CalmAt
  <2>6. QED
    BY <1>1, <1>2, <2>1, <2>2, <2>3, <2>4, <2>5, StillTyped, MoveKeeps DEF Within
<1>3. CASE (\E r : Return(w, r)) /\ UNCHANGED <<rows, calm>>
  BY <1>1, <1>3, StillTyped, ReturnKeeps
<1>4. QED
  BY <1>2, <1>3 DEF RestoreRest

\* The end of a run that failed keeps the invariant.
LEMMA RestartKeeps ==
  ASSUME IInv, NEW w \in Writers, Restart(w)
  PROVE  IInv'
<1>1. /\ pc[w] # "idle" /\ Inside(w) /\ UNCHANGED <<rows, open, schema, calm, guest>>
      /\ app' \in {app, "boot"} /\ stopped' \in {stopped, FALSE} /\ \E r : Return(w, r)
  BY DEF Restart, Inside, StartApp
<1>2. QED
  BY <1>1, StillTyped, ReturnKeeps

\* An exception of the copier's control keeps the invariant.
LEMMA AppErrorKeeps ==
  ASSUME IInv, NEW w \in Writers, AppError(w)
  PROVE  IInv'
<1>1. /\ pc[w] # "idle" /\ Inside(w) /\ UNCHANGED <<rows, open, schema, calm, guest>>
      /\ app' \in {app, "closing"} /\ stopped' \in BOOLEAN /\ \E r : Return(w, r)
  BY StillTyped DEF AppError, Inside, QuitApp, Running
<1>2. QED
  BY <1>1, StillTyped, ReturnKeeps

\* A crash: the lock stays, nobody is past it.
LEMMA CrashKeeps ==
  ASSUME IInv, NEW w \in Writers, Crash(w)
  PROVE  IInv'
<1>0. TypeInv /\ ShapeInv /\ KeyInv /\ OneWriter /\ WritesAlone
  BY DEF IInv
<1>1. /\ pc' = [pc EXCEPT ![w] = "idle"] /\ result' = [result EXCEPT ![w] = "crashed"]
      /\ ops' = [ops EXCEPT ![w] = NoOps] /\ saved' = [saved EXCEPT ![w] = None]
      /\ UNCHANGED <<rows, open, schema, app, stopped, lock, want, was, why, calm, guest>>
  BY DEF Crash, Goto
<1>2. /\ was' \in [Writers -> BOOLEAN] /\ calm' \in [Writers -> BOOLEAN] /\ guest' \in BOOLEAN
      /\ lock' \in Writers \cup {None} /\ app' \in {"down", "boot", "up", "closing"}
      /\ rows' \in Rows \cup {Torn} /\ (rows' # Torn => Keyed(rows'))
      /\ DOMAIN want' = Writers /\ DOMAIN ops' = Writers /\ DOMAIN saved' = Writers
      /\ DOMAIN why' = Writers /\ DOMAIN result' = Writers /\ stopped' \in BOOLEAN
  BY <1>0, <1>1 DEF TypeInv, TypeOK, KeyInv
<1>3. /\ pc'[w] = "idle" /\ saved'[w] = None /\ ops'[w] = NoOps
      /\ pc' \in [Writers -> {"idle", "lock", "quit", "wait", "backup", "write", "relaunch",
                              "verify", "rewait", "undo", "undo2", "restart"}]
  BY <1>0, <1>1 DEF TypeInv, TypeOK
<1>4. Others(w)
  BY <1>0, <1>1 DEF Others, TypeInv, TypeOK
<1>5. \A x \in Writers : Inside(x)' => Inside(x) /\ pc'[x] = pc[x]
  BY <1>3, <1>4 DEF Others, Inside
<1>6. OneWriter' /\ WritesAlone'
  BY <1>0, <1>1, <1>5 DEF OneWriter, WritesAlone, Inside, Running
<1>7. CalmAt(w)' /\ OpsOK(ops'[w])
  BY <1>3, NoOpsOK DEF CalmAt
<1>8. pc'[w] # "rewait" /\ (pc'[w] \in {"idle", "lock", "quit", "wait", "backup"} <=> saved'[w] = None)
  BY <1>3
<1>9. open' = open /\ schema' = schema
  BY <1>1
<1> HIDE DEF IInv
<1>10. QED
  BY <1>2, <1>3, <1>4, <1>6, <1>7, <1>8, <1>9, StepKeeps
\* A step of the copier or its user touches no writer; one that changes rows disturbs them all.
LEMMA OutsideKeeps ==
  ASSUME IInv, UNCHANGED <<local, lock>>,
         open' \subseteq Acct, schema' \in BOOLEAN, app' \in {"down", "boot", "up", "closing"},
         guest' \in BOOLEAN, stopped' \in BOOLEAN,
         rows' \in Rows \cup {Torn}, rows' # Torn => Keyed(rows'),
         (rows' = rows /\ calm' = calm) \/ Disturb(None),
         app' = "down" \/ guest' \/ lock = None \/ (Running /\ guest' = guest)
  PROVE  IInv'
<1>1. calm' \in [Writers -> BOOLEAN] /\ \A x \in Writers : calm'[x] => calm[x] /\ rows' = rows
  BY TcApplyAssumption DEF Disturb, IInv, TypeInv, TypeOK
<1>2. /\ pc' = pc /\ want' = want /\ ops' = ops /\ was' = was /\ saved' = saved /\ why' = why
      /\ result' = result /\ lock' = lock
  BY DEF local
<1>3. TypeInv'
  BY <1>1, <1>2 DEF IInv, TypeInv, TypeOK
<1>4. OneWriter' /\ ShapeInv' /\ KeyInv'
  BY <1>2 DEF IInv, OneWriter, Inside, ShapeInv, KeyInv
<1>5. WritesAlone'
  <2> SUFFICES ASSUME NEW w \in Writers, pc[w] \in {"backup", "write", "undo", "undo2"}
               PROVE  app' = "down" \/ guest'
    BY <1>2 DEF WritesAlone, Running
  <2>1. Inside(w) /\ lock # None
    BY TcApplyAssumption DEF IInv, OneWriter, Inside
  <2>2. QED
    BY <2>1 DEF IInv, WritesAlone, Running
<1>6. CalmInv'
  <2> SUFFICES ASSUME NEW w \in Writers PROVE CalmAt(w)'
    BY DEF CalmInv
  <2>1. CalmAt(w)
    BY DEF IInv, CalmInv
  <2>2. CASE calm'[w]
    BY <1>1, <1>2, <2>1, <2>2 DEF CalmAt
  <2>3. CASE ~calm'[w]
    BY <2>3 DEF CalmAt
  <2>4. QED
    BY <2>2, <2>3
<1>7. QED
  BY <1>3, <1>4, <1>5, <1>6 DEF IInv

\* The rows the copier may hold.
LEMMA RowsTyped == IInv => /\ rows \in Rows \cup {Torn} /\ (rows # Torn => Keyed(rows))
                           /\ app \in {"down", "boot", "up", "closing"} /\ guest \in BOOLEAN
                           /\ open \subseteq Acct /\ schema \in BOOLEAN /\ stopped \in BOOLEAN
  BY DEF IInv, TypeInv, TypeOK, KeyInv

\* A follower row removed, or put under a group, keeps types and keys.
LEMMA FollowerChanges ==
  ASSUME NEW r \in Rows, Keyed(r), NEW a \in Acct, NEW v \in Link \cup {None}
  PROVE  [r EXCEPT !.fol[a] = v] \in Rows /\ Keyed([r EXCEPT !.fol[a] = v])
  BY DEF Rows, Keyed

\* The copier's boot keeps the keys, as a leader row keeps its group; the user's edits do too.
LEMMA AppBootRows ==
  ASSUME IInv, AppBoot
  PROVE  \/ UNCHANGED <<rows, calm>>
         \/ rows \in Rows /\ rows' \in Rows /\ Keyed(rows') /\ ((rows' = rows /\ calm' = calm) \/ Disturb(None))
<1>2. CASE rows = Torn /\ UNCHANGED <<rows, calm>>
  BY <1>2
<1>3. CASE /\ rows # Torn
           /\ rows' = [rows EXCEPT !.groups = {g \in @ : rows.leader[g] # None}]
           /\ IF rows' = rows THEN UNCHANGED calm ELSE Disturb(None)
  <2>1. rows \in Rows /\ Keyed(rows)
    BY <1>3, RowsTyped
  <2>2. rows' \in Rows /\ Keyed(rows')
    BY <1>3, <2>1 DEF Rows, Keyed
  <2>3. QED
    BY <1>3, <2>1, <2>2
<1>4. ASSUME rows # Torn, NEW a \in Acct, rows' = [rows EXCEPT !.fol[a] = None], Disturb(None)
      PROVE  rows \in Rows /\ rows' \in Rows /\ Keyed(rows')
  BY <1>4, RowsTyped, FollowerChanges
<1>5. QED
  BY <1>2, <1>3, <1>4 DEF AppBoot

\* The copier application's boot keeps the invariant.
LEMMA AppBootKeeps == IInv /\ AppBoot => IInv'
<1> SUFFICES ASSUME IInv, AppBoot PROVE IInv'
  OBVIOUS
<1>1. /\ app = "boot" /\ app' = "up" /\ Running
      /\ UNCHANGED <<open, schema, lock, local, guest, stopped>>
  BY DEF AppBoot, Running
<1>2. rows' \in Rows \cup {Torn} /\ (rows' # Torn => Keyed(rows'))
      /\ ((rows' = rows /\ calm' = calm) \/ Disturb(None))
  BY RowsTyped, AppBootRows
<1>3. QED
  BY <1>1, <1>2, RowsTyped, OutsideKeeps

\* The user's edit is of whole rows, with their keys.
LEMMA UserEditsRows ==
  ASSUME IInv, UserEdits
  PROVE  rows \in Rows /\ rows' \in Rows /\ Keyed(rows')
<1>1. rows # Torn
  BY DEF UserEdits
<1>2. rows \in Rows /\ Keyed(rows) /\ rows.groups \subseteq Gid /\ Known \subseteq Acct
  BY <1>1, RowsTyped, TcApplyAssumption DEF Rows
<1>3. rows' \in Rows /\ Keyed(rows')
  <2>1. ASSUME NEW a \in Known, NEW g \in rows.groups, NEW c \in Cfg,
               rows' = [rows EXCEPT !.fol[a] = [gid |-> g, cfg |-> c]]
        PROVE  rows' \in Rows /\ Keyed(rows')
    <3>1. [gid |-> g, cfg |-> c] \in Link
      BY <1>2 DEF Link
    <3>2. QED
      BY <1>2, <2>1, <3>1, FollowerChanges
  <2>2. ASSUME NEW a \in Known, rows' = [rows EXCEPT !.fol[a] = None]
        PROVE  rows' \in Rows /\ Keyed(rows')
    BY <1>2, <2>2, FollowerChanges
  <2>3. ASSUME NEW l \in Known, NEW g \in Gid, ~HasGroup(rows, l),
               rows' = [rows EXCEPT !.groups = @ \cup {g}, !.leader[g] = l]
        PROVE  rows' \in Rows /\ Keyed(rows')
    <3>1. rows' \in Rows
      BY <1>2, <2>3 DEF Rows
    <3>2. /\ rows'.groups = rows.groups \cup {g}
          /\ \A h \in Gid : rows'.leader[h] = IF h = g THEN l ELSE rows.leader[h]
      BY <1>2, <2>3 DEF Rows
    <3>3. QED
      BY <1>2, <2>3, <3>1, <3>2 DEF Keyed, HasGroup
  <2>4. ASSUME NEW g \in rows.groups,
               rows' = [groups |-> rows.groups \ {g}, leader |-> [rows.leader EXCEPT ![g] = None],
                        fol |-> [a \in Acct |-> IF rows.fol[a] # None /\ rows.fol[a].gid = g
                                                THEN None ELSE rows.fol[a]]]
        PROVE  rows' \in Rows /\ Keyed(rows')
    <3>1. rows' \in Rows
      BY <1>2, <2>4 DEF Rows
    <3>2. /\ rows'.groups = rows.groups \ {g}
          /\ \A h \in Gid : rows'.leader[h] = IF h = g THEN None ELSE rows.leader[h]
      BY <1>2, <2>4 DEF Rows
    <3>3. QED
      BY <1>2, <3>1, <3>2 DEF Keyed
  <2>5. QED
    BY <2>1, <2>2, <2>3, <2>4 DEF UserEdits
<1>4. QED
  BY <1>2, <1>3

\* The user's edit keeps the invariant.
LEMMA UserEditsKeeps == IInv /\ UserEdits => IInv'
  BY RowsTyped, UserEditsRows, OutsideKeeps DEF UserEdits, Running

\* The copier starts and stops, is updated, trades.
LEMMA CopierKeeps ==
  IInv /\ (AppExit \/ AppUpdates \/ PositionMoves \/ UserStarts \/ UserQuits) => IInv'
<1> SUFFICES ASSUME IInv PROVE AppExit \/ AppUpdates \/ PositionMoves \/ UserStarts \/ UserQuits
                               => IInv'
  OBVIOUS
<1>1. ASSUME AppExit PROVE IInv'
  BY <1>1, RowsTyped, OutsideKeeps DEF AppExit
<1>2. ASSUME AppUpdates PROVE IInv'
  BY <1>2, RowsTyped, OutsideKeeps DEF AppUpdates, Running
<1>3. ASSUME PositionMoves PROVE IInv'
  <2>1. open' \subseteq Acct
    BY <1>3, RowsTyped, TcApplyAssumption DEF PositionMoves
  <2>2. QED
    BY <1>3, <2>1, RowsTyped, OutsideKeeps DEF PositionMoves, Running
<1>4. ASSUME UserStarts PROVE IInv'
  BY <1>4, RowsTyped, OutsideKeeps DEF UserStarts
<1>5. ASSUME UserQuits PROVE IInv'
  BY <1>5, RowsTyped, OutsideKeeps DEF UserQuits, Running
<1>6. QED
  BY <1>1, <1>2, <1>3, <1>4, <1>5

\* Every step keeps the invariant.
LEMMA NextInv == IInv /\ [Next]_vars => IInv'
<1> SUFFICES ASSUME IInv, [Next]_vars PROVE IInv'
  OBVIOUS
<1>1. ASSUME NEW w \in Writers, NEW p \in Payloads, Preflight(w, p) PROVE IInv'
  BY <1>1, PreflightKeeps
<1>2. ASSUME NEW w \in Writers, Step(w) PROVE IInv'
  BY <1>2, TakeLockKeeps, QuitKeeps, ExclusiveKeeps, QuitTimeoutKeeps, BackupKeeps, WriteKeeps,
     RelaunchKeeps, VerifyGoodKeeps, VerifyBadKeeps, RestoreFirstKeeps, RestoreRestKeeps,
     RestartKeeps DEF Step
<1>3. ASSUME NEW w \in Writers, Crash(w) \/ AppError(w) PROVE IInv'
  BY <1>3, CrashKeeps, AppErrorKeeps
<1>4. CASE AppExit \/ AppUpdates \/ PositionMoves \/ UserStarts \/ UserQuits
  BY <1>4, CopierKeeps
<1>5. CASE AppBoot \/ UserEdits
  BY <1>5, AppBootKeeps, UserEditsKeeps
<1>6. CASE UNCHANGED vars
  BY <1>6, RowsTyped, OutsideKeeps DEF vars, Running
<1>7. QED
  BY <1>1, <1>2, <1>3, <1>4, <1>5, <1>6 DEF Next

\* The inductive invariant holds in every state.
LEMMA Invariance == Spec => []IInv
<1>1. QED
  BY InitInv, NextInv, PTL DEF Spec
-----------------------------------------------------------------------------
(* The theorems.                                                            *)

\* For any writers, payloads and failures: a run past .rabbit-lock holds it, and the files are
\* copied, written and restored with the copier down unless somebody started it behind the check.
THEOREM RunsAreApart == Spec => []Inv
<1>1. IInv => Inv
  BY DEF IInv, TypeInv, Inv
<1>2. QED
  BY <1>1, Invariance, PTL

\* Whatever rows the copier, its user, crashes and half-finished runs leave, resolve's operations
\* turn them into the payload and nothing else, and the next run finds nothing to do.
THEOREM DifferenceIsExact == Spec => []Idempotent
<1>1. IInv => Idempotent
  <2> SUFFICES ASSUME IInv, rows # Torn, NEW p \in Payloads,
                      NEW fresh \in FreshIds(p, rows, Gid \ Used)
               PROVE  LET r == Applied(Resolve(p, rows, fresh), rows)
                      IN  Exactly(p, r) /\ Empty(Resolve(p, r, <<>>))
    BY DEF Idempotent
  <2> DEFINE o == Resolve(p, rows, fresh)
             r == Applied(o, rows)
  <2>1. rows \in Rows /\ Keyed(rows)
    BY RowsTyped
  <2>2. fresh \in FreshIds(p, rows, Gid \ rows.groups)
    BY FreshIdsAreFree
  <2>3. OpsOK(o)
    BY <2>1, <2>2, ResolveType
  <2>4. r \in Rows
    BY <2>1, <2>3, AppliedType
  <2>5. Exactly(p, r)
    BY <2>1, <2>2, ResolveExact
  <2> HIDE DEF r
  <2>6. Empty(Resolve(p, r, <<>>))
    BY <2>4, <2>5, ExactEmpty
  <2>7. QED
    BY <2>5, <2>6 DEF r
<1>2. QED
  BY <1>1, Invariance, PTL

\* A run that reports "applied" on rows nobody else touched leaves exactly the arrangement asked
\* for, though verify_state looks only for rows that are missing.
THEOREM AppliedMeansExact == Spec => AppliedExact
<1>1. IInv => [\A w \in Writers : result'[w] = "applied" /\ pc[w] = "verify" /\ calm[w]
                                 => Exactly(want[w], rows)]_vars
  <2> SUFFICES ASSUME IInv, NEW w \in Writers, pc[w] = "verify", calm[w]
               PROVE  Exactly(want[w], rows)
    OBVIOUS
  <2>1. QED
    BY DEF IInv, CalmInv, CalmAt
<1>2. QED
  BY <1>1, Invariance, PTL DEF AppliedExact

\* From the start after the transaction on, a run that found the copier running has not asked it to
\* close again.
Restarted == \A w \in Writers : pc[w] = "verify" /\ was[w] => ~stopped

\* Every step keeps that: only the run at the verification could ask, and then it leaves it.
LEMMA RestartedNext == IInv /\ Restarted /\ [Next]_vars => Restarted'
<1> SUFFICES ASSUME IInv, Restarted, [Next]_vars,
                    NEW w \in Writers, pc'[w] = "verify", was'[w], stopped'
             PROVE  FALSE
  BY DEF Restarted
<1>0. OneWriter /\ TypeInv /\ ShapeInv
  BY DEF IInv
<1>1. ASSUME NEW v \in Writers, NEW p \in Payloads, Preflight(v, p) PROVE FALSE
  <2>1. Others(v) /\ UNCHANGED <<stopped, was>> /\ (pc' = [pc EXCEPT ![v] = "idle"] \/ pc' = [pc EXCEPT ![v] = "lock"])
    BY <1>0, <1>1, PreflightFacts
  <2>2. pc[w] = "verify" /\ was[w] /\ stopped
    BY <2>1, StillTyped
  <2>3. QED
    BY <2>2 DEF Restarted
<1>2. ASSUME NEW v \in Writers, pc[v] # "idle", pc[v] = "lock" \/ Inside(v),
             Step(v) \/ AppError(v) \/ Crash(v)
      PROVE  FALSE
  <2>1. CASE Relaunch(v)
    <3>1. /\ pc[v] = "relaunch" /\ Goto(v, "verify") /\ was' = was
          /\ was[v] => ~stopped'
      BY <2>1 DEF Relaunch, StartApp
    <3>2. CASE w = v
      BY <3>1, <3>2
    <3>3. CASE w # v
      <4>1. pc[w] = "verify" /\ Inside(w) /\ Inside(v)
        BY <3>1, <3>3 DEF Goto, Inside
      <4>2. QED
        BY <1>0, <3>3, <4>1 DEF OneWriter
    <3>4. QED
      BY <3>2, <3>3
  <2>2. CASE ~Relaunch(v)
    <3>1. \A x \in Writers \ {v} : pc'[x] = pc[x] /\ was'[x] = was[x]
      BY <1>2, <2>2, StillTyped
      DEF Step, TakeLock, Quit, Exclusive, QuitTimeout, Backup, Write, VerifyGood, VerifyBad,
          RestoreFirst, RestoreRest, Restart, AppError, Crash, Return, Goto
    <3>2. pc'[v] # "verify"
      BY <1>2, <2>2, StillTyped
      DEF Step, TakeLock, Quit, Exclusive, QuitTimeout, Backup, Write, VerifyGood, VerifyBad,
          RestoreFirst, RestoreRest, Restart, AppError, Crash, Return, Goto
    <3>3. w # v /\ pc[w] = "verify" /\ was[w] /\ Inside(w) /\ ~Inside(v)
      BY <1>0, <3>1, <3>2 DEF OneWriter, Inside
    <3>4. stopped' = stopped
      BY <1>2, <2>2, <3>3
      DEF Step, TakeLock, Quit, Exclusive, QuitTimeout, Backup, Write, VerifyGood, VerifyBad,
          RestoreFirst, RestoreRest, Restart, AppError, Crash, Inside
    <3>5. QED
      BY <3>3, <3>4 DEF Restarted
  <2>3. QED
    BY <2>1, <2>2
<1>3. CASE AppExit \/ AppBoot \/ AppUpdates \/ UserEdits \/ PositionMoves \/ UserStarts \/ UserQuits
           \/ UNCHANGED vars
  <2>1. pc' = pc /\ was' = was /\ (stopped' => stopped)
    BY <1>3 DEF AppExit, AppBoot, AppUpdates, UserEdits, PositionMoves, UserStarts, UserQuits, vars, local
  <2>2. QED
    BY <2>1 DEF Restarted
<1>4. \A v \in Writers : Step(v) \/ AppError(v) \/ Crash(v) => pc[v] # "idle" /\ (pc[v] = "lock" \/ Inside(v))
  BY DEF Step, TakeLock, Quit, Exclusive, QuitTimeout, Backup, Write, Relaunch, VerifyGood, VerifyBad,
         RestoreFirst, RestoreRest, Restart, AppError, Crash, Inside
<1>5. QED
  BY <1>1, <1>2, <1>3, <1>4 DEF Next

\* A run that found the copier running and asked it to close has started it again by the time it
\* returns - after the transaction, its rollback, and the rollback of the verification - unless it
\* died, raised, reported a failed restore, or timed out on the quit.
THEOREM CopierIsStarted == Spec => CopierReturns
<1> DEFINE Excused(w) == result'[w] \in {"crashed", "raised", "restore_failed", "timeout"}
<1>1. ASSUME IInv, Restarted, [Next]_vars,
             NEW w \in Writers, Inside(w), was[w], ~Inside(w)', stopped'
      PROVE  Excused(w)
  <2>0. OneWriter /\ TypeInv /\ ShapeInv
    BY <1>1 DEF IInv
  <2>1. ASSUME NEW v \in Writers, NEW p \in Payloads, Preflight(v, p) PROVE Excused(w)
    <3>1. pc[v] = "idle" /\ Others(v)
      BY <2>0, <2>1, PreflightFacts
    <3>2. QED
      BY <1>1, <3>1 DEF Others, Inside
  <2>2. ASSUME NEW v \in Writers, v # w, Step(v) \/ AppError(v) \/ Crash(v) PROVE Excused(w)
    <3>1. pc'[w] = pc[w]
      BY <1>1, <2>2, StillTyped
      DEF Step, TakeLock, Quit, Exclusive, QuitTimeout, Backup, Write, Relaunch, VerifyGood, VerifyBad,
          RestoreFirst, RestoreRest, Restart, AppError, Crash, Return, Goto
    <3>2. QED
      BY <1>1, <3>1 DEF Inside
  <2>3. CASE AppError(w) \/ Crash(w) \/ QuitTimeout(w)
    <3>1. \/ result' = [result EXCEPT ![w] = "crashed"]
          \/ result' = [result EXCEPT ![w] = "raised"]
          \/ result' = [result EXCEPT ![w] = "timeout"]
          \/ result' = [result EXCEPT ![w] = "restore_failed"]
      BY <2>3 DEF AppError, Crash, QuitTimeout, Return
    <3>2. QED
      BY <2>0, <3>1 DEF TypeInv
  <2>4. CASE Quit(w) \/ Exclusive(w) \/ Write(w) \/ Relaunch(w) \/ VerifyBad(w) \/ RestoreFirst(w)
    <3>1. PICK l \in Within : Goto(w, l)
      BY <2>4 DEF Quit, Exclusive, Write, Relaunch, VerifyBad, RestoreFirst, Within
    <3>2. pc'[w] = l
      BY <1>1, <3>1, StillTyped DEF Goto
    <3>3. QED
      BY <1>1, <3>1, <3>2 DEF Inside, Within
  <2>5. CASE TakeLock(w)
    BY <1>1, <2>5 DEF TakeLock, Inside
  <2>6. CASE Backup(w) \/ RestoreRest(w)
    <3>1. CASE Return(w, "raised") \/ Return(w, "restore_failed")
      BY <2>0, <3>1 DEF Return, TypeInv
    <3>2. CASE Goto(w, "write") \/ Goto(w, "restart")
      BY <1>1, <3>2, StillTyped DEF Goto, Inside
    <3>3. QED
      BY <2>6, <3>1, <3>2 DEF Backup, RestoreRest
  <2>7. CASE VerifyGood(w)
    BY <1>1, <2>7 DEF VerifyGood, Restarted
  <2>8. CASE Restart(w)
    BY <1>1, <2>8 DEF Restart, StartApp
  <2>9. CASE AppExit \/ AppBoot \/ AppUpdates \/ UserEdits \/ PositionMoves \/ UserStarts \/ UserQuits
             \/ UNCHANGED vars
    <3>1. pc' = pc
      BY <2>9 DEF AppExit, AppBoot, AppUpdates, UserEdits, PositionMoves, UserStarts, UserQuits, vars, local
    <3>2. QED
      BY <1>1, <3>1 DEF Inside
  <2>10. QED
    BY <1>1, <2>1, <2>2, <2>3, <2>4, <2>5, <2>6, <2>7, <2>8, <2>9 DEF Next, Step
<1>2. Init => Restarted
  BY DEF Init, Restarted
<1>3. IInv /\ Restarted /\ [Next]_vars =>
        [\A w \in Writers : Inside(w) /\ was[w] /\ ~Inside(w)' /\ stopped' => Excused(w)]_vars
  BY <1>1
<1>4. QED
  BY <1>2, <1>3, RestartedNext, Invariance, PTL DEF Spec, CopierReturns

-----------------------------------------------------------------------------
(* The refinement: run implements Rearrangement.                            *)

\* What the holder saved, and how far a writer at a label is.
Saved == IF lock = None THEN None ELSE saved[lock]
StageOf(l, y) ==
  IF l \in {"quit", "wait", "backup"} THEN "held"
  ELSE IF l = "write" \/ (l = "undo" /\ y = "sql") THEN "saved"
  ELSE IF l \in {"undo2", "restart"} THEN "undone"
  ELSE IF l \in {"idle", "lock"} THEN "lost"
  ELSE "changed"

\* The stage is what the lock's holder is at.
LEMMA StageIs == Stage = IF lock = None THEN "out" ELSE StageOf(pc[lock], why[lock])
  BY DEF Stage, StageOf
\* The same in the next state.
LEMMA StageIsNext == Stage' = IF lock' = None THEN "out" ELSE StageOf(pc'[lock'], why'[lock'])
  BY DEF Stage, StageOf

\* A stutter: the rows, the copier's being up, the lock and its holder's progress stay.
LEMMA Stutters ==
  ASSUME UNCHANGED <<rows, lock>>, Running' = Running,
         lock # None => saved'[lock] = saved[lock]
                        /\ StageOf(pc'[lock], why'[lock]) = StageOf(pc[lock], why[lock])
  PROVE  UNCHANGED R!vars
  BY StageIs, StageIsNext DEF R!vars

\* A step that does not touch the lock, its holder's locals or the rows at most starts or stops
\* the copier.
LEMMA ComesAndGoes ==
  ASSUME UNCHANGED <<rows, lock>>,
         lock # None => saved'[lock] = saved[lock]
                        /\ StageOf(pc'[lock], why'[lock]) = StageOf(pc[lock], why[lock])
  PROVE  [R!Next]_R!vars
<1>1. Running \in BOOLEAN /\ Running' \in BOOLEAN
  BY DEF Running
<1>2. CASE Running' = Running
  BY <1>2, Stutters
<1>3. CASE Running' = ~Running
  BY <1>3, StageIs, StageIsNext DEF R!Next, R!CopierComesAndGoes
<1>4. QED
  BY <1>1, <1>2, <1>3

\* A return from between the lock and the end gives the lock back.
LEMMA Leaves ==
  ASSUME IInv, NEW w \in Writers, Inside(w), NEW r, Return(w, r), rows' = rows,
         Running' \in {Running, TRUE}
  PROVE  R!Next
<1>1. lock = w /\ lock' = None /\ w # None
  BY TcApplyAssumption DEF IInv, OneWriter, Return
<1>2. StageOf(pc[w], why[w]) \in {"held", "saved", "changed", "undone"}
  BY StillTyped DEF Inside, StageOf
<1>3. R!Leave
  BY <1>1, <1>2, StageIs, StageIsNext DEF R!Leave
<1>4. QED
  BY <1>3 DEF R!Next

\* A step of the holder from label to label.
LEMMA HolderMoves ==
  ASSUME IInv, NEW w \in Writers, Inside(w), lock' = lock, NEW l, Goto(w, l)
  PROVE  /\ lock = w /\ w # None
         /\ Stage = StageOf(pc[w], why[w]) /\ Stage' = StageOf(l, why'[w])
<1>1. lock = w /\ w # None
  BY TcApplyAssumption DEF IInv, OneWriter
<1>2. pc'[w] = l
  BY StillTyped DEF Goto
<1>3. QED
  BY <1>1, <1>2, StageIs, StageIsNext

\* A run's own step is a step of the rearrangement, or none.
LEMMA StepRefines ==
  ASSUME IInv, NEW w \in Writers, Step(w)
  PROVE  [R!Next]_R!vars
<1>1. CASE TakeLock(w)
  <2>1. pc[w] = "lock" /\ UNCHANGED <<rows, app>> /\ ~Inside(w) /\ w # None
    BY <1>1, TcApplyAssumption DEF TakeLock, Inside
  <2>2. CASE Return(w, "aborted")
    <3>1. /\ lock' = lock /\ pc' = [pc EXCEPT ![w] = "idle"] /\ why' = why
          /\ saved' = [saved EXCEPT ![w] = None]
      BY <2>1, <2>2 DEF Return, Goto
    <3>2. saved[w] = None /\ saved'[w] = None /\ pc'[w] = "idle"
      BY <2>1, <3>1, StillTyped
    <3>3. lock # None => saved'[lock] = saved[lock]
                         /\ StageOf(pc'[lock], why'[lock]) = StageOf(pc[lock], why[lock])
      BY <2>1, <3>1, <3>2, StillTyped DEF StageOf
    <3>4. QED
      BY <2>1, <3>1, <3>3, ComesAndGoes
  <2>3. CASE /\ lock = None /\ lock' = w /\ Goto(w, "quit")
             /\ UNCHANGED <<want, ops, was, saved, why, result, events>>
    <3>1. pc'[w] = "quit" /\ saved'[w] = None
      BY <2>1, <2>3, StillTyped DEF Goto
    <3>2. Stage = "out" /\ Stage' = "held"
      BY <2>1, <2>3, <3>1, StageIs, StageIsNext DEF StageOf
    <3>3. R!Take(w)
      BY <2>1, <2>3, <3>1, <3>2 DEF R!Take, Running
    <3>4. QED
      BY <3>3 DEF R!Next
  <2>4. QED
    BY <1>1, <2>2, <2>3 DEF TakeLock
<1>2. CASE Quit(w) \/ Exclusive(w) \/ Relaunch(w)
  <2>1. Inside(w) /\ UNCHANGED <<rows, lock, saved, why>>
    BY <1>2 DEF Quit, Exclusive, Relaunch, Inside
  <2>2. PICK l : Goto(w, l) /\ StageOf(l, why[w]) = StageOf(pc[w], why[w])
    <3>1. CASE Quit(w)
      BY <3>1 DEF Quit, StageOf
    <3>2. CASE Exclusive(w)
      BY <3>2, StillTyped DEF Exclusive, StageOf
    <3>3. CASE Relaunch(w)
      BY <3>3 DEF Relaunch, StageOf
    <3>4. QED
      BY <1>2, <3>1, <3>2, <3>3
  <2>3. lock = w /\ pc'[w] = l
    BY <2>1, <2>2, HolderMoves, StillTyped DEF Goto
  <2>4. QED
    BY <2>1, <2>2, <2>3, ComesAndGoes
<1>3. CASE QuitTimeout(w) \/ VerifyGood(w)
  <2>1. Inside(w) /\ UNCHANGED <<rows, app>> /\ \E r : Return(w, r)
    BY <1>3 DEF QuitTimeout, VerifyGood, Inside
  <2>2. QED
    BY <2>1, Leaves DEF Running
<1>4. CASE Backup(w)
  <2>1. pc[w] = "backup" /\ Inside(w) /\ UNCHANGED <<rows, app>>
    BY <1>4 DEF Backup, Inside
  <2>2. CASE Return(w, "raised")
    BY <2>1, <2>2, Leaves DEF Running
  <2>3. CASE saved' = [saved EXCEPT ![w] = rows] /\ Goto(w, "write") /\ UNCHANGED <<lock, why>>
    <3>1. saved'[w] = rows
      BY <2>3, StillTyped
    <3>2. lock = w /\ w # None /\ Stage = "held" /\ Stage' = "saved"
      BY <2>1, <2>3, HolderMoves DEF StageOf
    <3>3. R!Save
      BY <2>1, <2>3, <3>1, <3>2 DEF R!Save, Running
    <3>4. QED
      BY <3>3 DEF R!Next
  <2>4. QED
    BY <1>4, <2>2, <2>3 DEF Backup
<1>5. CASE Write(w)
  <2>1. pc[w] = "write" /\ Inside(w) /\ UNCHANGED <<app, lock, saved>>
    BY <1>5 DEF Write, Inside
  <2>2. CASE /\ rows # Torn /\ rows' = Applied(ops[w], rows)
             /\ Goto(w, "relaunch") /\ UNCHANGED why
    <3>1. rows' \in Rows
      BY <2>2, StillTyped, AppliedType
    <3>2. lock = w /\ w # None /\ Stage = "saved" /\ Stage' = "changed"
      BY <2>1, <2>2, HolderMoves DEF StageOf
    <3>3. R!Change
      BY <2>1, <3>1, <3>2 DEF R!Change, Running
    <3>4. QED
      BY <3>3 DEF R!Next
  <2>3. CASE why' = [why EXCEPT ![w] = "sql"] /\ Goto(w, "undo") /\ UNCHANGED rows
    <3>1. lock = w /\ why'[w] = "sql" /\ pc'[w] = "undo"
      BY <2>1, <2>3, HolderMoves, StillTyped DEF Goto
    <3>2. StageOf(pc'[w], why'[w]) = StageOf(pc[w], why[w])
      BY <2>1, <3>1 DEF StageOf
    <3>3. QED
      BY <2>1, <2>3, <3>1, <3>2, ComesAndGoes
  <2>4. QED
    BY <1>5, <2>2, <2>3 DEF Write
<1>6. CASE VerifyBad(w)
  <2>1. /\ pc[w] = "verify" /\ Inside(w) /\ UNCHANGED <<rows, lock, saved>>
        /\ why' = [why EXCEPT ![w] = "verify"]
    BY <1>6 DEF VerifyBad, Inside
  <2>2. PICK l \in {"rewait", "undo"} : Goto(w, l)
    BY <1>6 DEF VerifyBad
  <2>3. lock = w /\ why'[w] = "verify" /\ pc'[w] = l
    BY <2>1, <2>2, HolderMoves, StillTyped DEF Goto
  <2>4. StageOf(pc'[w], why'[w]) = StageOf(pc[w], why[w])
    BY <2>1, <2>3 DEF StageOf
  <2>5. QED
    BY <2>1, <2>3, <2>4, ComesAndGoes
<1>7. CASE RestoreFirst(w)
  <2>1. /\ pc[w] = "undo" /\ Inside(w) /\ UNCHANGED <<app, lock, saved, why>>
        /\ rows' = Torn /\ Goto(w, "undo2")
    BY <1>7 DEF RestoreFirst, Inside
  <2>2. lock = w /\ w # None /\ Stage \in {"saved", "changed"} /\ Stage' = "undone"
    BY <2>1, HolderMoves DEF StageOf
  <2>3. R!BeginUndo
    BY <2>1, <2>2 DEF R!BeginUndo, Running
  <2>4. QED
    BY <2>3 DEF R!Next
<1>8. CASE RestoreRest(w)
  <2>1. pc[w] = "undo2" /\ Inside(w) /\ UNCHANGED app
    BY <1>8 DEF RestoreRest, Inside
  <2>2. CASE rows' = saved[w] /\ Goto(w, "restart") /\ UNCHANGED <<lock, saved, why>>
    <3>1. lock = w /\ w # None /\ Stage = "undone" /\ Stage' = "undone"
      BY <2>1, <2>2, HolderMoves DEF StageOf
    <3>2. R!EndUndo
      BY <2>1, <2>2, <3>1 DEF R!EndUndo, Running
    <3>3. QED
      BY <3>2 DEF R!Next
  <2>3. CASE (\E r : Return(w, r)) /\ UNCHANGED rows
    BY <2>1, <2>3, Leaves DEF Running
  <2>4. QED
    BY <1>8, <2>2, <2>3 DEF RestoreRest
<1>9. CASE Restart(w)
  <2>1. Inside(w) /\ UNCHANGED rows /\ (\E r : Return(w, r)) /\ Running' \in {Running, TRUE}
    BY <1>9 DEF Restart, Inside, StartApp, Running
  <2>2. QED
    BY <2>1, Leaves
<1>10. QED
  BY <1>1, <1>2, <1>3, <1>4, <1>5, <1>6, <1>7, <1>8, <1>9 DEF Step

\* A preflight happens outside the lock; a crash inside leaves it for good.
LEMMA PreflightRefines ==
  ASSUME IInv, NEW w \in Writers, NEW p \in Payloads, Preflight(w, p)
  PROVE  [R!Next]_R!vars
<1>1. /\ pc[w] = "idle" /\ Others(w) /\ UNCHANGED <<rows, app, lock, why>> /\ saved'[w] = None
      /\ pc'[w] \in {"idle", "lock"}
  <2>1. TypeInv /\ ShapeInv
    BY DEF IInv
  <2>2. /\ pc[w] = "idle" /\ Others(w) /\ UNCHANGED <<rows, app, lock, why>> /\ saved'[w] = None
        /\ (pc' = [pc EXCEPT ![w] = "idle"] \/ pc' = [pc EXCEPT ![w] = "lock"])
    BY <2>1, PreflightFacts
  <2>3. QED
    BY <2>2, StillTyped
<1>2. saved[w] = None /\ lock \in Writers \cup {None}
  BY <1>1, StillTyped DEF IInv, TypeInv, TypeOK
<1>3. ASSUME lock # None
      PROVE  saved'[lock] = saved[lock]
             /\ StageOf(pc'[lock], why'[lock]) = StageOf(pc[lock], why[lock])
  BY <1>1, <1>2, <1>3 DEF Others, StageOf
<1>4. QED
  BY <1>1, <1>3, ComesAndGoes

\* So is a crash.
LEMMA CrashRefines ==
  ASSUME IInv, NEW w \in Writers, Crash(w)
  PROVE  [R!Next]_R!vars
<1>1. /\ pc[w] # "idle" /\ UNCHANGED <<rows, app, lock, why>>
      /\ pc' = [pc EXCEPT ![w] = "idle"] /\ saved' = [saved EXCEPT ![w] = None]
  BY DEF Crash, Goto
<1>2. /\ pc'[w] = "idle" /\ saved'[w] = None /\ w # None
      /\ \A x \in Writers \ {w} : pc'[x] = pc[x] /\ saved'[x] = saved[x]
  BY <1>1, StillTyped, TcApplyAssumption
<1>3. CASE Inside(w)
  <2>1. lock = w
    BY <1>3 DEF IInv, OneWriter
  <2>2. Stage \in {"held", "saved", "changed", "undone"}
    BY <1>2, <1>3, <2>1, StillTyped, StageIs DEF Inside, StageOf
  <2>3. Stage' = "lost"
    BY <1>1, <1>2, <2>1, StageIsNext DEF StageOf
  <2>4. R!Die
    BY <1>1, <1>2, <2>1, <2>2, <2>3 DEF R!Die, Running
  <2>5. QED
    BY <2>4 DEF R!Next
<1>4. CASE ~Inside(w)
  <2>1. pc[w] = "lock" /\ saved[w] = None /\ lock \in Writers \cup {None}
    BY <1>1, <1>4, StillTyped DEF Inside, IInv, TypeInv, TypeOK
  <2>2. ASSUME lock # None
        PROVE  saved'[lock] = saved[lock]
               /\ StageOf(pc'[lock], why'[lock]) = StageOf(pc[lock], why[lock])
    BY <1>1, <1>2, <2>1, <2>2 DEF StageOf
  <2>3. QED
    BY <1>1, <2>2, ComesAndGoes
<1>5. QED
  BY <1>3, <1>4

\* An exception that escapes run leaves it like any other return.
LEMMA AppErrorRefines ==
  ASSUME IInv, NEW w \in Writers, AppError(w)
  PROVE  [R!Next]_R!vars
<1>1. Inside(w) /\ UNCHANGED rows /\ (\E r : Return(w, r)) /\ Running' = Running
  BY DEF AppError, Inside, QuitApp, Running
<1>2. QED
  BY <1>1, Leaves

\* So is whatever the rest does.
LEMMA OutsideRefines ==
  ASSUME IInv, AppExit \/ AppBoot \/ AppUpdates \/ UserEdits \/ PositionMoves \/ UserStarts
               \/ UserQuits \/ UNCHANGED vars
  PROVE  [R!Next]_R!vars
<1>1. lock' = lock /\ pc' = pc /\ saved' = saved /\ why' = why
  BY DEF AppExit, AppBoot, AppUpdates, UserEdits, PositionMoves, UserStarts, UserQuits, vars, local
<1>2. Stage' = Stage /\ Saved' = Saved
  BY <1>1, StageIs, StageIsNext DEF Saved
<1>3. CASE UNCHANGED rows
  BY <1>1, <1>3, ComesAndGoes
<1>4. CASE rows \in Rows /\ rows' \in Rows /\ Running /\ Running'
  <2>1. R!CopierEdits
    BY <1>1, <1>2, <1>4 DEF R!CopierEdits, Saved
  <2>2. QED
    BY <2>1 DEF R!Next
<1>5. UNCHANGED rows \/ AppBoot \/ UserEdits
  BY DEF AppExit, AppUpdates, PositionMoves, UserStarts, UserQuits, vars
<1>6. CASE AppBoot
  <2>1. Running /\ Running'
    BY <1>6 DEF AppBoot, Running
  <2>2. QED
    BY <1>3, <1>4, <1>6, <2>1, AppBootRows
<1>7. CASE UserEdits
  <2>1. Running /\ Running'
    BY <1>7 DEF UserEdits, Running
  <2>2. QED
    BY <1>4, <1>7, <2>1, UserEditsRows
<1>8. QED
  BY <1>3, <1>5, <1>6, <1>7

\* tc_apply.run keeps what Rearrangement promises: one change per lock, only from saved rows, no
\* way back but to what was saved, and everybody else's edits only with the copier up.
THEOREM RunImplementsRearrangement == Spec => Rearranges
<1>1. Init => R!Init
  BY TcApplyAssumption, StageIs DEF Init, R!Init, Running
<1>2. IInv /\ [Next]_vars => [R!Next]_R!vars
  BY StepRefines, PreflightRefines, CrashRefines, AppErrorRefines, OutsideRefines DEF Next
<1>3. QED
  BY <1>1, <1>2, Invariance, PTL DEF Spec, Rearranges, R!Spec

-----------------------------------------------------------------------------
(* The loop.                                                                *)


\* A cycle is under way; it has done its work; how tc_apply.run can end.
InCycle == phase \in {"pull", "apply", "observe", "post", "settle"}
Worked  == phase \in {"observe", "post", "settle"}
Ended   == {"applied", "noop", "aborted", "rolled_back"}

LoopTypeInv == LoopTypeOK /\ (phase = "apply" => desired # Nil)

\* A pull that was answered has met the request; later ones are made while busy.
Requests ==
  /\ RequestKept
  /\ phase = "apply" \/ (Worked /\ status \in Ended) => owed # "idle"

\* What a cycle's trigger says of its status.
Cycles ==
  /\ InCycle => trigger # Nil
  /\ Worked => /\ status = "pullfail" => trigger = "manual"
               /\ trigger = "manual" => status \notin {Nil, "gave-up"}
  /\ phase = "post" => status # Nil

\* The night survives a manual cycle only with its retry armed, and is answered
\* by every report but a failed pull's.
Nights ==
  /\ NightCovered
  /\ InCycle /\ trigger = "manual" /\ night = "open" => file.next # Nil
  /\ phase = "settle" /\ status \notin {Nil, "pullfail"} => night # "open"

\* An armed retry is counted in the file, the refused ones but the armed one too; a refused one
\* the file does not know yet, or never will, comes on top.
Counts ==
  /\ RetriesBounded
  /\ file.next # Nil => file.count <= MaxRetries /\ retries <= file.count + lost
  /\ file.next # Nil /\ ~Refused => retries + 1 <= file.count + lost
  /\ file.next = Nil => file.count = 0
  /\ InCycle /\ trigger = "scheduled" => file.next = Nil /\ retries = 0
  /\ InCycle /\ trigger = "retry" => file.next # Nil

\* Between the pull and its report the server may lag behind what the cycle found.
Reports ==
  /\ must <= accountRows
  /\ phase \notin {"apply", "observe"} => reported >= must

-----------------------------------------------------------------------------
(* What the larger actions do.                                              *)

\* What a poll decides: a request, the night's check, or a due retry.
LEMMA PollFacts ==
  ASSUME LoopTypeOK, Poll
  PROVE  /\ phase = "poll" /\ flag' = flag /\ faults' \in Nat
         /\ \/ /\ trigger' = "manual" /\ phase' = "pull"
               /\ file' = file /\ night' = night /\ retries' = retries /\ lost' = lost
            \/ /\ trigger' = "scheduled" /\ phase' = "pull"
               /\ file' \in File /\ file'.next = Nil /\ file'.count = 0
               /\ night' = "open" /\ retries' = 0 /\ lost' = 0
            \/ /\ trigger' = "retry" /\ phase' = "pull" /\ file.next # Nil
               /\ file' = file /\ night' = night /\ retries' = retries /\ lost' = lost
            \/ /\ trigger' = Nil /\ phase' = "asleep"
               /\ file' = file /\ night' = night /\ retries' = retries /\ lost' = lost
<1>1. PICK reached, answered \in BOOLEAN :
        /\ Call(reached, answered)
        /\ Polled(reached)
        /\ LET manual == Manual(answered)
               due    == ~manual /\ ScheduledDue
               again  == ~manual /\ ~due /\ RetryDue
           IN  /\ trigger' = IF manual THEN "manual" ELSE IF due THEN "scheduled"
                             ELSE IF again THEN "retry" ELSE Nil
               /\ file' = IF due THEN Disarmed([file EXCEPT !.sched = Day(at)]) ELSE file
               /\ night' = IF due THEN "open" ELSE night
               /\ retries' = IF due THEN 0 ELSE retries
               /\ lost' = IF due THEN 0 ELSE lost
               /\ phase' = IF manual \/ due \/ again THEN "pull" ELSE "asleep"
  BY DEF Poll
<1>2. flag' = flag /\ faults' \in Nat
  BY <1>1 DEF Polled, Call, Fault, LoopTypeOK
<1> DEFINE stamped == Disarmed([file EXCEPT !.sched = Day(at)])
<1>3. stamped \in File /\ stamped.next = Nil /\ stamped.count = 0
  <2>1. Day(at) \in Nat
    BY RabbitSyncAssumption DEF LoopTypeOK, Day
  <2>2. QED
    BY <2>1 DEF LoopTypeOK, File, Disarmed
<1>4. CASE Manual(answered)
  BY <1>1, <1>2, <1>4 DEF Poll
<1>5. CASE ~Manual(answered) /\ ScheduledDue
  <2>1. file' = stamped
    BY <1>1, <1>5
  <2>2. QED
    BY <1>1, <1>2, <1>3, <1>5, <2>1 DEF Poll
<1>6. CASE ~Manual(answered) /\ ~ScheduledDue /\ RetryDue
  BY <1>1, <1>2, <1>6 DEF Poll, RetryDue
<1>7. CASE ~Manual(answered) /\ ~ScheduledDue /\ ~RetryDue
  BY <1>1, <1>2, <1>7 DEF Poll
<1>8. QED
  BY <1>4, <1>5, <1>6, <1>7

\* What a pull leaves: the plan to apply, or only the report to make.
LEMMA PullFacts ==
  ASSUME LoopTypeOK, Pull
  PROVE  /\ phase = "pull" /\ must' = accountRows /\ faults' \in Nat
         /\ \E reached \in BOOLEAN :
              /\ flag' = (flag /\ ~reached)
              /\ owed' = IF reached THEN "no" ELSE owed
              /\ \/ reached /\ desired' = plan /\ phase' = "apply" /\ UNCHANGED <<status, retries>>
                 \/ /\ desired' = Nil /\ phase' = "observe"
                    /\ retries' = IF trigger = "retry" THEN retries + 1 ELSE retries
                    /\ status' = IF trigger = "manual" THEN "pullfail" ELSE Nil
<1>1. PICK reached, answered \in BOOLEAN :
        /\ Call(reached, answered)
        /\ Consumed(reached)
        /\ owed' = IF reached THEN "no" ELSE owed
        /\ IF answered /\ ready
           THEN desired' = plan /\ phase' = "apply" /\ UNCHANGED <<status, retries>>
           ELSE /\ desired' = Nil
                /\ retries' = IF trigger = "retry" THEN retries + 1 ELSE retries
                /\ status' = IF trigger = "manual" THEN "pullfail" ELSE Nil
                /\ phase' = AfterRefusal
  BY DEF Pull
<1>2. faults' \in Nat /\ (answered => reached)
  BY <1>1 DEF Call, Fault, LoopTypeOK
<1>3. flag' = (flag /\ ~reached)
  BY <1>1 DEF Consumed, clear_sync
<1>4. QED
  BY <1>1, <1>2, <1>3 DEF Pull, AfterRefusal

\* What an apply leaves: an end, or an apply that the cut found not safe.
LEMMA ApplyFacts ==
  ASSUME LoopTypeOK, Apply
  PROVE  /\ phase = "apply" /\ live' \in {live, desired} /\ faults' \in Nat
         /\ \/ /\ status' \in Ended /\ phase' = "observe" /\ night' = night /\ must' = must
            \/ /\ status' = Nil /\ phase' = "asleep" /\ Cut /\ must' = 0
<1>1. faults' \in Nat
  BY DEF Apply, Fault, LoopTypeOK
<1>2. QED
  BY <1>1 DEF Apply, Ended

\* A report carries the rows of the moment, or did not get out.
LEMMA ObserveFacts ==
  ASSUME LoopTypeOK, Observe
  PROVE  /\ phase = "observe" /\ faults' \in Nat
         /\ phase' = (IF status = Nil THEN "settle" ELSE "post")
         /\ \/ reported' = accountRows /\ must' = must
            \/ reported' = reported /\ must' = 0
<1>1. CASE Observed # Nil
  <2>1. PICK reached, answered \in BOOLEAN :
          /\ Call(reached, answered)
          /\ reported' = IF reached THEN Observed ELSE reported
          /\ must' = IF reached THEN must ELSE 0
    BY <1>1 DEF Observe
  <2>2. Observed = accountRows
    BY <1>1 DEF Observed
  <2>3. faults' \in Nat
    BY <2>1 DEF Call, Fault, LoopTypeOK
  <2>4. QED
    BY <2>1, <2>2, <2>3 DEF Observe
<1>2. CASE Observed = Nil
  BY <1>2 DEF Observe, LoopTypeOK
<1>3. QED
  BY <1>1, <1>2

\* A posted answer takes the request off and answers the night.
LEMMA PostFacts ==
  ASSUME LoopTypeOK, Post
  PROVE  /\ phase = "post" /\ faults' \in Nat
         /\ phase' = "settle"
         /\ night' = (IF status # "pullfail" /\ night = "open" THEN "answered" ELSE night)
         /\ \E reached \in BOOLEAN :
              /\ flag' = (flag /\ ~reached)
              /\ owed' = IF reached /\ status \in {"pullfail", "gave-up"} THEN "no" ELSE owed
<1>1. PICK reached, answered \in BOOLEAN :
        /\ Call(reached, answered)
        /\ Settled(reached)
        /\ owed' = IF reached /\ status \in {"pullfail", "gave-up"} THEN "no" ELSE owed
  BY DEF Post
<1>2. faults' \in Nat
  BY <1>1 DEF Call, Fault, LoopTypeOK
<1>3. flag' = (flag /\ ~reached)
  BY <1>1 DEF Settled, clear_sync
<1>4. QED
  BY <1>1, <1>2, <1>3 DEF Post

\* A cycle's end: given up until asked again, done, or a retry set.
LEMMA SettleFacts ==
  ASSUME LoopTypeOK, Settle
  PROVE  /\ phase = "settle" /\ UNCHANGED history
         /\ \/ /\ status = "pullfail" /\ file' = file /\ phase' = "asleep" /\ status' = status
            \/ /\ status \notin {Nil, "pullfail"} /\ phase' = "asleep" /\ status' = status
               /\ file' \in File /\ file'.next = Nil /\ file'.count = 0
            \/ /\ status = Nil /\ file.count < MaxRetries /\ phase' = "asleep" /\ status' = status
               /\ file' \in File /\ file'.next = at + 1 /\ file'.count = file.count + 1
            \/ /\ status = Nil /\ file.count >= MaxRetries
               /\ phase' = "post" /\ status' = "gave-up" /\ file' = file
<1> DEFINE armed == [file EXCEPT !.count = @ + 1, !.next = at + 1]
<1>1. /\ Disarmed(file) \in File /\ Disarmed(file).next = Nil /\ Disarmed(file).count = 0
  BY DEF LoopTypeOK, File, Disarmed
<1>2. armed \in File /\ armed.next = at + 1 /\ armed.count = file.count + 1
  <2> DEFINE t == at + 1
             n == file.count + 1
  <2>1. t \in Nat /\ n \in Nat /\ file \in File
    BY DEF LoopTypeOK, File
  <2>2. armed = [file EXCEPT !.count = n, !.next = t]
    OBVIOUS
  <2> HIDE DEF t, n
  <2>3. armed \in File /\ armed.next = t /\ armed.count = n
    BY <2>1, <2>2 DEF File
  <2>4. QED
    BY <2>3 DEF t, n
<1>3. Exhausted <=> file.count >= MaxRetries
  BY DEF Exhausted
<1>4. file.count \in Nat /\ MaxRetries \in Nat
  BY RabbitSyncAssumption DEF LoopTypeOK, File
<1>5. phase = "settle" /\ UNCHANGED history
  BY DEF Settle
<1>6. CASE /\ status # Nil
           /\ file' = IF status = "pullfail" THEN file ELSE Disarmed(file)
           /\ phase' = "asleep" /\ UNCHANGED status
  BY <1>1, <1>5, <1>6
<1>7. CASE /\ status = Nil /\ ~Exhausted
           /\ file' = armed
           /\ phase' = "asleep" /\ UNCHANGED status
  BY <1>2, <1>3, <1>4, <1>5, <1>7
<1>8. CASE status = Nil /\ Exhausted /\ GiveUp
  BY <1>3, <1>5, <1>8 DEF GiveUp
<1>9. QED
  BY <1>6, <1>7, <1>8 DEF Settle

\* The operator's and the world's steps: the box stays where it is.
Outside == SyncNow \/ MarkApplied \/ PlanOpens \/ Revoke \/ RowsChange \/ SchemaChanges \/ TimePasses

\* What the rest of the world may change meanwhile.
LEMMA OutsideFacts ==
  ASSUME LoopTypeOK, Outside
  PROVE  /\ UNCHANGED <<boxVars, observed, night, retries, lost>>
         /\ live' = live /\ accountRows' \in Nat /\ accountRows' >= accountRows
         /\ \/ flag' = flag /\ owed' = owed
            \/ flag' = TRUE /\ Asked
            \/ flag' = FALSE /\ owed' = "no"
<1>1. accountRows' \in Nat /\ accountRows' >= accountRows
  BY DEF Outside, SyncNow, MarkApplied, PlanOpens, Revoke, RowsChange, SchemaChanges, TimePasses,
         copier, LoopTypeOK
<1>2. QED
  BY <1>1 DEF Outside, SyncNow, MarkApplied, PlanOpens, Revoke, RowsChange, SchemaChanges,
         TimePasses, copier, serverVars, history

-----------------------------------------------------------------------------
(* The invariants, each with what it needs.                                 *)

\* The first state is typed.
LEMMA TypeInit == LoopInit => LoopTypeInv
<1> SUFFICES ASSUME LoopInit PROVE LoopTypeInv
  OBVIOUS
<1>1. file \in File
  BY DEF LoopInit, File
<1>2. QED
  BY <1>1 DEF LoopInit, LoopTypeInv, LoopTypeOK

\* Every step keeps the types.
LEMMA TypeNext == LoopTypeInv /\ [LoopNext]_loopVars => LoopTypeInv'
<1> SUFFICES ASSUME LoopTypeInv, [LoopNext]_loopVars PROVE LoopTypeInv'
  OBVIOUS
<1> USE DEF LoopTypeInv
<1>1. CASE Wake
  BY <1>1 DEF Wake, LoopTypeOK, serverVars, copier, observed, history
<1>2. CASE Poll
  BY <1>2, PollFacts DEF Poll, LoopTypeOK, copier, observed
<1>3. CASE Pull
  <2>1. PICK reached \in BOOLEAN :
          /\ flag' = (flag /\ ~reached)
          /\ owed' = IF reached THEN "no" ELSE owed
          /\ \/ desired' = plan /\ phase' = "apply" /\ UNCHANGED <<status, retries>>
             \/ /\ desired' = Nil /\ phase' = "observe"
                /\ retries' = IF trigger = "retry" THEN retries + 1 ELSE retries
                /\ status' = IF trigger = "manual" THEN "pullfail" ELSE Nil
    BY <1>3, PullFacts
  <2>2. must' = accountRows /\ faults' \in Nat
    BY <1>3, PullFacts
  <2>3. plan # Nil
    BY RabbitSyncAssumption DEF LoopTypeOK
  <2>4. UNCHANGED <<now, plan, ready, paired, file, at, trigger, copier, reported, night, lost, asks>>
    BY <1>3 DEF Pull
  <2>5. QED
    BY <2>1, <2>2, <2>3, <2>4 DEF LoopTypeOK, copier
<1>4. CASE Apply
  BY <1>4, ApplyFacts DEF Apply, LoopTypeOK, serverVars, Cut, Ended
<1>5. CASE Observe
  BY <1>5, ObserveFacts DEF Observe, LoopTypeOK, serverVars, copier, history
<1>6. CASE Post
  <2>1. /\ faults' \in Nat /\ flag' \in BOOLEAN /\ owed' \in {"no", owed}
        /\ phase' = "settle" /\ night' \in {"answered", night}
    BY <1>6, PostFacts
  <2>2. UNCHANGED <<now, plan, ready, paired, file, at, trigger, desired, status, copier, observed,
                    retries, lost, asks>>
    BY <1>6 DEF Post
  <2>3. QED
    BY <2>1, <2>2 DEF LoopTypeOK, copier, observed
<1>7. CASE Settle
  BY <1>7, SettleFacts DEF Settle, LoopTypeOK, serverVars, copier, observed, history
<1>8. CASE BoxCrash
  BY <1>8 DEF BoxCrash, LoopTypeOK, serverVars, copier, Cut, Fault
<1>9. CASE Outside
  <2>1. UNCHANGED <<boxVars, live, observed, night, retries, lost>> /\ accountRows' \in Nat
    BY <1>9, OutsideFacts
  <2>2. /\ now' \in {now, now + 1} /\ plan' \in {plan, plan + 1} /\ ready' \in BOOLEAN
        /\ paired' \in BOOLEAN /\ guarded' \in BOOLEAN
        /\ asks' \in {asks, asks + 1} /\ faults' \in {faults, faults + 1}
    <3>1. CASE SyncNow \/ MarkApplied \/ PlanOpens
      BY <3>1 DEF SyncNow, MarkApplied, PlanOpens, LoopTypeOK, copier
    <3>2. CASE Revoke \/ RowsChange \/ SchemaChanges \/ TimePasses
      BY <3>2 DEF Revoke, RowsChange, SchemaChanges, TimePasses, LoopTypeOK, serverVars, copier, Fault
    <3>3. QED
      BY <1>9, <3>1, <3>2 DEF Outside
  <2>3. flag' \in BOOLEAN /\ owed' \in {"no", "idle", "busy"}
    BY <1>9, OutsideFacts DEF LoopTypeOK, Asked
  <2>4. QED
    BY <2>1, <2>2, <2>3 DEF LoopTypeOK, boxVars, observed
<1>10. CASE UNCHANGED loopVars
  BY <1>10 DEF loopVars, LoopTypeOK, serverVars, boxVars, copier, observed, history
<1>11. QED
  BY <1>1, <1>2, <1>3, <1>4, <1>5, <1>6, <1>7, <1>8, <1>9, <1>10 DEF LoopNext, Box, Outside

\* Every step keeps a request raised until it is answered.
LEMMA RequestsNext == LoopTypeInv /\ Cycles /\ Requests /\ [LoopNext]_loopVars => Requests'
<1> SUFFICES ASSUME LoopTypeInv, Cycles, Requests, [LoopNext]_loopVars PROVE Requests'
  OBVIOUS
<1>0. status \in {Nil, "pullfail", "gave-up"} \cup Ended /\ Nil \notin Ended
  BY RabbitSyncAssumption DEF LoopTypeInv, LoopTypeOK, Ended
<1> USE <1>0 DEF LoopTypeInv, Requests, RequestKept, Worked
<1>1. CASE Wake
  BY <1>1 DEF Wake, serverVars, history
<1>2. CASE Poll
  BY <1>2, PollFacts DEF Poll
<1>3. CASE Pull
  BY <1>3, PullFacts DEF Ended
<1>4. CASE Apply
  BY <1>4, ApplyFacts DEF Apply, serverVars
<1>5. CASE Observe
  BY <1>5, ObserveFacts DEF Observe, serverVars, history
<1>6. CASE Post
  BY <1>6, PostFacts DEF Post, Ended, Cycles
<1>7. CASE Settle
  BY <1>7, SettleFacts DEF Settle, serverVars, Ended, history
<1>8. CASE BoxCrash
  BY <1>8 DEF BoxCrash, serverVars
<1>9. CASE Outside
  BY <1>9, OutsideFacts DEF boxVars, Asked
<1>10. CASE UNCHANGED loopVars
  BY <1>10 DEF loopVars, serverVars, boxVars, history
<1>11. QED
  BY <1>1, <1>2, <1>3, <1>4, <1>5, <1>6, <1>7, <1>8, <1>9, <1>10 DEF LoopNext, Box, Outside

\* Every step keeps what a cycle knows at each of its places.
LEMMA CyclesNext == LoopTypeInv /\ Cycles /\ [LoopNext]_loopVars => Cycles'
<1> SUFFICES ASSUME LoopTypeInv, Cycles, [LoopNext]_loopVars PROVE Cycles'
  OBVIOUS
<1> USE RabbitSyncAssumption DEF LoopTypeInv, Cycles, InCycle, Worked
<1>1. CASE Wake
  BY <1>1 DEF Wake
<1>2. CASE Poll
  BY <1>2, PollFacts
<1>3. CASE Pull
  BY <1>3, PullFacts DEF Pull
<1>4. CASE Apply
  BY <1>4, ApplyFacts DEF Apply, Ended
<1>5. CASE Observe
  BY <1>5, ObserveFacts DEF Observe
<1>6. CASE Post
  BY <1>6, PostFacts DEF Post
<1>7. CASE Settle
  BY <1>7, SettleFacts DEF Settle
<1>8. CASE BoxCrash
  BY <1>8 DEF BoxCrash
<1>9. CASE Outside
  BY <1>9, OutsideFacts DEF boxVars
<1>10. CASE UNCHANGED loopVars
  BY <1>10 DEF loopVars, boxVars
<1>11. QED
  BY <1>1, <1>2, <1>3, <1>4, <1>5, <1>6, <1>7, <1>8, <1>9, <1>10 DEF LoopNext, Box, Outside

\* Every step keeps the retries counted.
LEMMA CountsNext == LoopTypeInv /\ Cycles /\ Counts /\ [LoopNext]_loopVars => Counts'
<1> SUFFICES ASSUME LoopTypeInv, Cycles, Counts, [LoopNext]_loopVars PROVE Counts'
  OBVIOUS
<1>0. /\ retries \in Nat /\ lost \in Nat /\ MaxRetries \in Nat /\ at \in Nat /\ Nil \notin Nat
      /\ file \in File /\ file.count \in Nat /\ trigger \in {Nil, "manual", "scheduled", "retry"}
      /\ Nil \notin {"manual", "scheduled", "retry", "pullfail", "gave-up"} \cup Ended
  BY RabbitSyncAssumption DEF LoopTypeInv, LoopTypeOK, File, Ended
<1> USE <1>0 DEF Counts, RetriesBounded, InCycle, Refused
<1>1. CASE Wake
  BY <1>1 DEF Wake, history
<1>2. CASE Poll
  BY <1>2, PollFacts DEF LoopTypeInv
<1>3. CASE Pull
  BY <1>3, PullFacts DEF Pull, LoopTypeInv
<1>4. CASE Apply
  BY <1>4, ApplyFacts DEF Apply, LoopTypeInv, Ended
<1>5. CASE Observe
  BY <1>5, ObserveFacts DEF Observe, LoopTypeInv, history
<1>6. CASE Post
  BY <1>6, PostFacts DEF Post, LoopTypeInv
<1>7. CASE Settle
  <2>1. CASE status # Nil
    <3>1. CASE status = "pullfail"
      BY <1>7, <3>1, SettleFacts DEF LoopTypeInv, Cycles, Worked, history
    <3>2. CASE status # "pullfail"
      BY <1>7, <2>1, <3>2, SettleFacts DEF LoopTypeInv, history
    <3>3. QED
      BY <3>1, <3>2
  <2>2. CASE status = Nil /\ file.count < MaxRetries
    <3>1. /\ file'.next = at + 1 /\ file'.count = file.count + 1 /\ phase' = "asleep"
          /\ retries' = retries /\ lost' = lost
      BY <1>7, <2>2, SettleFacts, RabbitSyncAssumption DEF LoopTypeInv, history
    <3>2. trigger \in {"scheduled", "retry"}
      BY <1>7, <2>2, SettleFacts DEF LoopTypeInv, Cycles, Worked
    <3>3. retries <= file.count + lost
      BY <1>7, <3>2, SettleFacts DEF LoopTypeInv
    <3>4. QED
      BY <2>2, <3>1, <3>3
  <2>3. CASE status = Nil /\ file.count >= MaxRetries
    BY <1>7, <2>3, SettleFacts DEF Settle, LoopTypeInv, history
  <2>4. QED
    BY <2>1, <2>2, <2>3
<1>8. CASE BoxCrash
  BY <1>8 DEF BoxCrash
<1>9. CASE Outside
  BY <1>9, OutsideFacts DEF boxVars, LoopTypeInv
<1>10. CASE UNCHANGED loopVars
  BY <1>10 DEF loopVars, boxVars, history
<1>11. QED
  BY <1>1, <1>2, <1>3, <1>4, <1>5, <1>6, <1>7, <1>8, <1>9, <1>10 DEF LoopNext, Box, Outside

\* Every step keeps what is known of the night.
LEMMA NightsNext == LoopTypeInv /\ Cycles /\ Counts /\ Nights /\ [LoopNext]_loopVars => Nights'
<1> SUFFICES ASSUME LoopTypeInv, Cycles, Counts, Nights, [LoopNext]_loopVars PROVE Nights'
  OBVIOUS
<1>0. at + 1 # Nil /\ Nil \notin {"manual", "pullfail", "gave-up"}
  BY RabbitSyncAssumption DEF LoopTypeInv, LoopTypeOK
<1> USE <1>0 DEF Nights, NightCovered, InCycle
<1>1. CASE Wake
  BY <1>1 DEF Wake, history
<1>2. CASE Poll
  BY <1>2, PollFacts DEF LoopTypeInv
<1>3. CASE Pull
  BY <1>3, PullFacts DEF Pull, LoopTypeInv
<1>4. CASE Apply
  BY <1>4, ApplyFacts DEF Apply, LoopTypeInv, Cut
<1>5. CASE Observe
  BY <1>5, ObserveFacts DEF Observe, LoopTypeInv, Cycles, Worked, history
<1>6. CASE Post
  BY <1>6, PostFacts DEF Post, LoopTypeInv, Cycles, Worked
<1>7. CASE Settle
  BY <1>7, SettleFacts DEF Settle, LoopTypeInv, Cycles, Worked, history
<1>8. CASE BoxCrash
  BY <1>8 DEF BoxCrash, Cut
<1>9. CASE Outside
  BY <1>9, OutsideFacts DEF boxVars, LoopTypeInv
<1>10. CASE UNCHANGED loopVars
  BY <1>10 DEF loopVars, boxVars, history
<1>11. QED
  BY <1>1, <1>2, <1>3, <1>4, <1>5, <1>6, <1>7, <1>8, <1>9, <1>10 DEF LoopNext, Box, Outside

\* Every step keeps what the server was told in order.
LEMMA ReportsNext == LoopTypeInv /\ Reports /\ [LoopNext]_loopVars => Reports'
<1> SUFFICES ASSUME LoopTypeInv, Reports, [LoopNext]_loopVars PROVE Reports'
  OBVIOUS
<1>0. accountRows \in Nat /\ must \in Nat /\ reported \in Nat
  BY DEF LoopTypeInv, LoopTypeOK
<1> USE <1>0 DEF Reports
<1>1. CASE Wake
  BY <1>1 DEF Wake, observed, copier
<1>2. CASE Poll
  BY <1>2, PollFacts DEF Poll, LoopTypeInv, observed, copier
<1>3. CASE Pull
  BY <1>3, PullFacts DEF Pull, LoopTypeInv, copier
<1>4. CASE Apply
  BY <1>4, ApplyFacts DEF Apply, LoopTypeInv
<1>5. CASE Observe
  BY <1>5, ObserveFacts DEF Observe, LoopTypeInv, copier
<1>6. CASE Post
  BY <1>6, PostFacts DEF Post, LoopTypeInv, observed, copier
<1>7. CASE Settle
  BY <1>7, SettleFacts DEF Settle, LoopTypeInv, observed, copier
<1>8. CASE BoxCrash
  BY <1>8 DEF BoxCrash, copier
<1>9. CASE Outside
  BY <1>9, OutsideFacts DEF boxVars, LoopTypeInv, observed
<1>10. CASE UNCHANGED loopVars
  BY <1>10 DEF loopVars, boxVars, observed, copier
<1>11. QED
  BY <1>1, <1>2, <1>3, <1>4, <1>5, <1>6, <1>7, <1>8, <1>9, <1>10 DEF LoopNext, Box, Outside

-----------------------------------------------------------------------------
(* The theorems.                                                            *)

LoopIInv == LoopTypeInv /\ Requests /\ Cycles /\ Counts /\ Nights /\ Reports

\* The inductive invariant holds in every state.
LEMMA Inductive == LoopSpec => []LoopIInv
<1>1. LoopInit => LoopIInv
  <2> SUFFICES ASSUME LoopInit PROVE LoopIInv
    OBVIOUS
  <2>1. LoopTypeInv
    BY TypeInit
  <2>2. Requests /\ Cycles /\ Counts /\ Nights /\ Reports
    BY RabbitSyncAssumption DEF LoopInit, Requests, RequestKept, Worked, Ended, Cycles, InCycle, Counts,
       RetriesBounded, Nights, NightCovered, Reports
  <2>3. QED
    BY <2>1, <2>2 DEF LoopIInv
<1>2. LoopIInv /\ [LoopNext]_loopVars => LoopIInv'
  BY TypeNext, RequestsNext, CyclesNext, CountsNext, NightsNext, ReportsNext DEF LoopIInv
<1>3. QED
  BY <1>1, <1>2, PTL DEF LoopSpec

\* Whatever is lost, crashes or is asked at the wrong moment, no request made
\* between two cycles of the box is dropped, and no night sees a refused retry
\* too many but for those a crash kept the loop from counting.
THEOREM RequestsAndRetriesHold == LoopSpec => []LoopInv
<1>1. LoopIInv => LoopInv
  BY DEF LoopIInv, LoopTypeInv, Requests, Counts, LoopInv
<1>2. QED
  BY <1>1, Inductive, PTL

\* A night stamped as scheduled is worked on, retried, answered or cut short by
\* a crash: no path of the loop forgets it.
THEOREM NightIsCovered == LoopSpec => []NightCovered
<1>1. LoopIInv => NightCovered
  BY DEF LoopIInv, Nights
<1>2. QED
  BY <1>1, Inductive, PTL

\* Between cycles the server has seen the accounts the last reported cycle
\* found, also when its pull was refused.
THEOREM ServerIsNotBlinded == LoopSpec => []NotBlinded
<1>1. LoopIInv => NotBlinded
  BY DEF LoopIInv, Reports, NotBlinded
<1>2. QED
  BY <1>1, Inductive, PTL
=============================================================================
