--------------------------- MODULE SchedulerProofs ---------------------------
(***************************************************************************)
(* Proofs about module Scheduler, for every set of accounts and keys,      *)
(* every pair of caps the operator sets and every calendar.                *)
(*                                                                         *)
(* The caps hold because a slot is counted in one of two ways, never in    *)
(* neither: the accounts stamped today are the ghosts (no longer           *)
(* candidates), whose slots are subtracted, and the holders (still         *)
(* candidates), who are at the head of the queue and so win first.         *)
(***************************************************************************)
EXTENDS Scheduler, FiniteSetTheorems, WellFoundedInduction, TLAPS

Key == [1..4 -> Int]

\* The comparison of Python's tuples, spelt out for the four sort keys.
LEMMA KeyLessUnfold ==
  ASSUME NEW k \in Key, NEW l \in Key
  PROVE  KeyLess(k, l) <=>
           \/ k[1] < l[1]
           \/ k[1] = l[1] /\ k[2] < l[2]
           \/ k[1] = l[1] /\ k[2] = l[2] /\ k[3] < l[3]
           \/ k[1] = l[1] /\ k[2] = l[2] /\ k[3] = l[3] /\ k[4] < l[4]
<1>1. DOMAIN k = 1..4
  BY DEF Key
<1>2. 1..4 = {1, 2, 3, 4}
  OBVIOUS
<1>3. KeyLess(k, l) <=>
        \E i \in {1, 2, 3, 4} :
           k[i] < l[i] /\ \A j \in {1, 2, 3, 4} : j < i => k[j] = l[j]
  BY <1>1, <1>2 DEF KeyLess
<1>4. QED
  BY <1>3

\* The queue order is a strict total order, so the head of it is well defined.
LEMMA AheadOrder ==
  ASSUME NEW cand \in SUBSET Account, NEW stamps, NEW key \in [cand -> Key],
         \A a \in cand : key[a][4] = a
  PROVE  /\ \A a \in cand : ~ Ahead(a, a, stamps, key)
         /\ \A a, b \in cand : a # b => Ahead(a, b, stamps, key) \/ Ahead(b, a, stamps, key)
         /\ \A a, b, c \in cand :
              Ahead(a, b, stamps, key) /\ Ahead(b, c, stamps, key) => Ahead(a, c, stamps, key)
<1> DEFINE L(a, b) == KeyLess(key[a], key[b])
<1>1. \A a, b \in cand : L(a, b) <=>
           \/ key[a][1] < key[b][1]
           \/ key[a][1] = key[b][1] /\ key[a][2] < key[b][2]
           \/ key[a][1] = key[b][1] /\ key[a][2] = key[b][2] /\ key[a][3] < key[b][3]
           \/ key[a][1] = key[b][1] /\ key[a][2] = key[b][2] /\ key[a][3] = key[b][3] /\ a < b
  BY KeyLessUnfold
<1>2. \A a \in cand : key[a][1] \in Int /\ key[a][2] \in Int /\ key[a][3] \in Int /\ a \in Int
  BY AccountAssumption DEF Key
<1> HIDE DEF L
<1>3. \A a \in cand : ~ L(a, a)
  BY <1>1, <1>2
<1>4. \A a, b \in cand : a # b => L(a, b) \/ L(b, a)
  BY <1>1, <1>2
<1>5. \A a, b, c \in cand : L(a, b) /\ L(b, c) => L(a, c)
  BY <1>1, <1>2
<1>6. \A a, b \in cand : Ahead(a, b, stamps, key) <=>
           IF (stamps[a] = day) # (stamps[b] = day) THEN stamps[a] = day ELSE L(a, b)
  BY DEF Ahead, L
<1>7. QED
  BY <1>3, <1>4, <1>5, <1>6

\* A pass awards at most as many slots as it has: an account's place in the
\* queue tells it apart from every other winner.
LEMMA WinnersBound ==
  ASSUME NEW cand \in SUBSET Account, NEW stamps, NEW key \in [cand -> Key],
         \A a \in cand : key[a][4] = a,
         NEW slots \in Nat
  PROVE  /\ IsFiniteSet(Winners(cand, stamps, key, slots))
         /\ Cardinality(Winners(cand, stamps, key, slots)) <= slots
<1> DEFINE Before(a) == {b \in cand : Ahead(b, a, stamps, key)}
           W == Winners(cand, stamps, key, slots)
           Place == [a \in W |-> Cardinality(Before(a))]
<1>1. IsFiniteSet(cand)
  BY AccountAssumption, FS_Subset
<1>2. \A a \in cand : IsFiniteSet(Before(a)) /\ Cardinality(Before(a)) \in Nat
  BY <1>1, FS_Subset, FS_CardinalityType
<1>3. W = {a \in cand : Cardinality(Before(a)) < slots}
  BY DEF Winners
<1>4. ASSUME NEW a \in cand, NEW b \in cand, Ahead(a, b, stamps, key)
      PROVE  Cardinality(Before(a)) # Cardinality(Before(b))
  <2>1. Before(a) \subseteq Before(b)
    BY <1>4, AheadOrder
  <2>2. a \in Before(b) /\ a \notin Before(a)
    BY <1>4, AheadOrder
  <2>3. QED
    BY <2>1, <2>2, <1>2, FS_Subset
<1>5. \A a, b \in W : a # b => Cardinality(Before(a)) # Cardinality(Before(b))
  <2> SUFFICES ASSUME NEW a \in W, NEW b \in W, a # b
               PROVE  Cardinality(Before(a)) # Cardinality(Before(b))
    OBVIOUS
  <2>1. a \in cand /\ b \in cand
    BY <1>3
  <2>2. Ahead(a, b, stamps, key) \/ Ahead(b, a, stamps, key)
    BY <2>1, AheadOrder
  <2>3. QED
    BY <2>1, <2>2, <1>4
<1>6. \A a \in W : Cardinality(Before(a)) \in 0..(slots - 1)
  <2> SUFFICES ASSUME NEW a \in W
               PROVE  Cardinality(Before(a)) \in 0..(slots - 1)
    OBVIOUS
  <2> DEFINE n == Cardinality(Before(a))
  <2>1. n \in Nat /\ n < slots
    BY <1>2, <1>3
  <2> HIDE DEF n
  <2>2. n \in 0..(slots - 1)
    BY <2>1
  <2>3. QED
    BY <2>2 DEF n
<1>7. Place \in Injection(W, 0..(slots - 1))
  <2> HIDE DEF W, Before
  <2>1. Place \in [W -> 0..(slots - 1)]
    BY <1>6
  <2>2. \A a, b \in W : Place[a] = Place[b] => a = b
    BY <1>5
  <2>3. QED
    BY <2>1, <2>2 DEF Injection, IsInjective
<1>8. IsFiniteSet(0..(slots - 1)) /\ Cardinality(0..(slots - 1)) = slots
  BY FS_Interval
<1>9. QED
  <2> HIDE DEF Place, W
  <2>1. IsFiniteSet(W) /\ Cardinality(W) <= Cardinality(0..(slots - 1))
    BY <1>7, <1>8, FS_Injection
  <2>2. QED
    BY <2>1, <1>8 DEF W

\* Whoever queues ahead of a winner wins too.
LEMMA AheadWins ==
  ASSUME NEW cand \in SUBSET Account, NEW stamps, NEW key \in [cand -> Key],
         \A a \in cand : key[a][4] = a, NEW slots \in Nat,
         NEW a \in cand, NEW b \in cand, Ahead(a, b, stamps, key),
         b \in Winners(cand, stamps, key, slots)
  PROVE  a \in Winners(cand, stamps, key, slots)
<1> DEFINE Before(x) == {c \in cand : Ahead(c, x, stamps, key)}
<1>1. IsFiniteSet(cand)
  BY AccountAssumption, FS_Subset
<1>2. \A x \in cand : IsFiniteSet(Before(x)) /\ Cardinality(Before(x)) \in Nat
  BY <1>1, FS_Subset, FS_CardinalityType
<1>3. Before(a) \subseteq Before(b)
  BY AheadOrder
<1>4. Cardinality(Before(a)) <= Cardinality(Before(b))
  BY <1>2, <1>3, FS_Subset
<1>5. Cardinality(Before(b)) < slots
  BY DEF Winners
<1>6. a \in Winners(cand, stamps, key, slots) <=> Cardinality(Before(a)) < slots
  BY DEF Winners
<1> HIDE DEF Before
<1> QED
  BY <1>2, <1>4, <1>5, <1>6

\* A set of naturals that is not empty has a least element.
LEMMA LeastNat ==
  ASSUME NEW T \in SUBSET Nat, T # {}
  PROVE  \E n \in T : \A k \in T : n <= k
<1>1. PICK n \in T : \A k \in T : ~ (<<k, n>> \in OpToRel(<, Nat))
  BY WFMin, NatLessThanWellFounded
<1>2. \A k \in T : ~ (k < n)
  BY <1>1 DEF OpToRel
<1> QED
  BY <1>2

\* A pass that leaves a candidate waiting has awarded all of its slots: the
\* first of those waiting has exactly the winners ahead of it.
LEMMA WaitingMeansFull ==
  ASSUME NEW cand \in SUBSET Account, NEW stamps, NEW key \in [cand -> Key],
         \A a \in cand : key[a][4] = a, NEW slots \in Nat,
         NEW a \in cand, a \notin Winners(cand, stamps, key, slots)
  PROVE  slots <= Cardinality(Winners(cand, stamps, key, slots))
<1> DEFINE Before(x) == {c \in cand : Ahead(c, x, stamps, key)}
           Place(x)  == Cardinality(Before(x))
           W         == Winners(cand, stamps, key, slots)
           U         == cand \ W
<1>1. IsFiniteSet(cand)
  BY AccountAssumption, FS_Subset
<1>2. \A x \in cand : IsFiniteSet(Before(x)) /\ Place(x) \in Nat
  BY <1>1, FS_Subset, FS_CardinalityType
<1>3. \A x \in cand : x \in W <=> Place(x) < slots
  BY DEF Winners
<1>4. PICK m \in U : \A x \in U : Place(m) <= Place(x)
  <2> DEFINE T == {n \in Nat : \E x \in U : Place(x) = n}
  <2>1. Place(a) \in Nat /\ a \in U /\ \A x \in U : Place(x) \in Nat
    BY <1>2
  <2> HIDE DEF Place, U
  <2>2. T \in SUBSET Nat /\ T # {}
    BY <2>1
  <2>3. PICK n \in T : \A k \in T : n <= k
    BY <2>2, LeastNat
  <2> QED
    BY <2>1, <2>3
<1>5. ASSUME NEW x \in cand, NEW y \in cand, Ahead(x, y, stamps, key)
      PROVE  Place(x) < Place(y)
  <2>1. Before(x) \subseteq Before(y) /\ x \in Before(y) /\ x \notin Before(x)
    BY <1>5, AheadOrder
  <2>2. Place(x) <= Place(y) /\ Place(x) # Place(y)
    BY <2>1, <1>2, FS_Subset
  <2>3. Place(x) \in Nat /\ Place(y) \in Nat
    BY <1>2
  <2> HIDE DEF Place
  <2> QED
    BY <2>2, <2>3
<1>6. W \subseteq cand /\ m \in cand
  BY DEF Winners
<1>7. W = Before(m)
  <2>1. ASSUME NEW x \in W PROVE x \in Before(m)
    <3>1. x \in cand /\ x # m /\ Place(x) < slots /\ ~ (Place(m) < slots)
      BY <1>3, <1>4, <1>6, <2>1
    <3>2. Ahead(x, m, stamps, key) \/ Ahead(m, x, stamps, key)
      BY <1>6, <3>1, AheadOrder
    <3>3. Ahead(m, x, stamps, key) => Place(m) < Place(x)
      BY <1>5, <1>6, <3>1
    <3>4. Place(m) \in Nat /\ Place(x) \in Nat
      BY <1>2, <1>6, <3>1
    <3> HIDE DEF Place
    <3> QED
      BY <3>1, <3>2, <3>3, <3>4
  <2>2. ASSUME NEW x \in Before(m) PROVE x \in W
    <3>1. x \in cand /\ Place(x) < Place(m)
      BY <1>5, <1>6
    <3>2. Place(m) \in Nat /\ Place(x) \in Nat
      BY <1>2, <1>6, <3>1
    <3> HIDE DEF Place, W
    <3> QED
      BY <1>4, <3>1, <3>2
  <2> QED
    BY <2>1, <2>2
<1>8. ~ (Place(m) < slots)
  BY <1>3, <1>4, <1>6
<1>9. Cardinality(W) = Place(m)
  BY <1>7
<1> HIDE DEF Place, W, Before
<1> QED
  BY <1>2, <1>6, <1>8, <1>9 DEF W

-----------------------------------------------------------------------------
\* An account already holding today's slot wins again when the slots suffice
\* for all holders (the fact _holders_first is there for).
LEMMA HoldersWin ==
  ASSUME NEW cand \in SUBSET Account, NEW stamps, NEW key, NEW slots \in Nat,
         Cardinality({a \in cand : stamps[a] = day}) <= slots,
         \A a \in cand : ~ Ahead(a, a, stamps, key)
  PROVE  {a \in cand : stamps[a] = day} \subseteq Winners(cand, stamps, key, slots)
<1> DEFINE H == {a \in cand : stamps[a] = day}
           Before(a) == {b \in cand : Ahead(b, a, stamps, key)}
<1>1. IsFiniteSet(H) /\ Cardinality(H) \in Nat
  BY AccountAssumption, FS_Subset, FS_CardinalityType
<1> SUFFICES ASSUME NEW a \in H
             PROVE  Cardinality(Before(a)) < slots
  BY DEF Winners
<1>2. Before(a) \subseteq H \ {a}
  BY DEF Ahead
<1>3. IsFiniteSet(H \ {a}) /\ Cardinality(H \ {a}) = Cardinality(H) - 1
  BY <1>1, FS_RemoveElement
<1>4. IsFiniteSet(Before(a)) /\ Cardinality(Before(a)) <= Cardinality(H) - 1
  BY <1>2, <1>3, FS_Subset
<1>5. Cardinality(Before(a)) \in Nat
  BY <1>4, FS_CardinalityType
<1> HIDE DEF Before
<1>6. QED
  BY <1>1, <1>4, <1>5

\* When the holders already use all the slots, nobody else wins one.
LEMMA OnlyHoldersWin ==
  ASSUME NEW cand \in SUBSET Account, NEW stamps, NEW key, NEW slots \in Nat,
         slots <= Cardinality({a \in cand : stamps[a] = day})
  PROVE  Winners(cand, stamps, key, slots) \subseteq {a \in cand : stamps[a] = day}
<1> DEFINE H == {a \in cand : stamps[a] = day}
           Before(a) == {b \in cand : Ahead(b, a, stamps, key)}
<1>1. IsFiniteSet(cand)
  BY AccountAssumption, FS_Subset
<1>2. SUFFICES ASSUME NEW a \in cand, a \notin H, Cardinality(Before(a)) < slots
               PROVE  FALSE
  BY DEF Winners
<1>3. H \subseteq Before(a)
  BY <1>2 DEF Ahead
<1>4. IsFiniteSet(Before(a)) /\ Cardinality(Before(a)) \in Nat /\ Cardinality(H) \in Nat
  BY <1>1, FS_Subset, FS_CardinalityType
<1>5. Cardinality(H) <= Cardinality(Before(a))
  BY <1>3, <1>4, FS_Subset
<1> HIDE DEF Before, H
<1>6. slots <= Cardinality(H)
  BY DEF H
<1>7. QED
  BY <1>2, <1>4, <1>5, <1>6

\* Two finite sets of stamped accounts together are at most as many as their sum.
LEMMA UnionBound ==
  ASSUME NEW S, IsFiniteSet(S), NEW T, IsFiniteSet(T)
  PROVE  /\ Cardinality(S \cup T) \in Nat
         /\ Cardinality(S \cup T) <= Cardinality(S) + Cardinality(T)
         /\ S \cap T = {} => Cardinality(S \cup T) = Cardinality(S) + Cardinality(T)
<1>1. IsFiniteSet(S \cap T) /\ IsFiniteSet(S \cup T)
  BY FS_Intersection, FS_Union
<1>2. /\ Cardinality(S) \in Nat /\ Cardinality(T) \in Nat
      /\ Cardinality(S \cap T) \in Nat /\ Cardinality(S \cup T) \in Nat
  BY <1>1, FS_CardinalityType
<1>3. Cardinality(S \cup T) = Cardinality(S) + Cardinality(T) - Cardinality(S \cap T)
  BY FS_Union
<1>4. S \cap T = {} => Cardinality(S \cap T) = 0
  BY FS_EmptySet
<1>5. QED
  BY <1>2, <1>3, <1>4

\* The accounts of o stamped today, and those a pass with the cap stamps.
StampedToday(o, stamps) == {a \in Account : OwnerOf[a] = o /\ stamps[a] = day}
PassWinners(o, cap, stamps, cand, key) ==
  Winners(cand, stamps, key, Slots(cap, stamps, cand, o))

\* One pass over one kind of slot: what it does to the set of accounts of
\* credential o that are stamped today.
LEMMA PassKeepsCap ==
  ASSUME NEW o \in Owner, NEW cap \in Nat, NEW high \in Nat, cap <= high,
         NEW stamps, NEW cand \in SUBSET Account, NEW key \in [cand -> Key],
         \A a \in cand : key[a][4] = a /\ OwnerOf[a] = o,
         SlotOwnerIsLister,
         Cardinality(StampedToday(o, stamps)) <= high
  PROVE  /\ Cardinality(StampedToday(o, stamps) \cup PassWinners(o, cap, stamps, cand, key)) <= high
         /\ cap <= Cardinality(StampedToday(o, stamps))
              => PassWinners(o, cap, stamps, cand, key) \subseteq StampedToday(o, stamps)
<1> DEFINE T == {a \in Account : OwnerOf[a] = o /\ stamps[a] = day}
           G == {a \in Account \ cand : stamps[a] = day /\ slot_owner[a] \in {o, NoOwner}}
           H == {a \in cand : stamps[a] = day}
           slots == Slots(cap, stamps, cand, o)
           W == Winners(cand, stamps, key, slots)
<1>1. /\ IsFiniteSet(T) /\ Cardinality(T) \in Nat
      /\ IsFiniteSet(G) /\ Cardinality(G) \in Nat
      /\ IsFiniteSet(H) /\ Cardinality(H) \in Nat
      /\ IsFiniteSet(T \ H) /\ Cardinality(T \ H) \in Nat
  <2>1. T \subseteq Account /\ G \subseteq Account /\ H \subseteq Account /\ T \ H \subseteq Account
    OBVIOUS
  <2>2. QED
    BY <2>1, AccountAssumption, FS_Subset, FS_CardinalityType
<1>2. slots \in Nat /\ slots = (IF cap < Cardinality(G) THEN 0 ELSE cap - Cardinality(G))
  BY <1>1 DEF Slots, GhostSlots
<1>3. H \subseteq T
  OBVIOUS
<1>4. T \ H \subseteq G
  BY DEF SlotOwnerIsLister
<1>5. Cardinality(T \ H) <= Cardinality(G)
  BY <1>1, <1>4, FS_Subset
<1>6. Cardinality(T) = Cardinality(T \ H) + Cardinality(H)
  <2>1. (T \ H) \cup H = T /\ (T \ H) \cap H = {}
    BY <1>3
  <2>2. Cardinality((T \ H) \cup H) = Cardinality(T \ H) + Cardinality(H)
    <3> HIDE DEF T, H
    <3>1. QED
      BY <2>1, <1>1, UnionBound
  <2>3. QED
    BY <2>1, <2>2
<1>7. Cardinality(T) <= high /\ T = StampedToday(o, stamps) /\ W = PassWinners(o, cap, stamps, cand, key)
  BY DEF StampedToday, PassWinners
<1>8. IsFiniteSet(W) /\ Cardinality(W) <= slots /\ Cardinality(W) \in Nat
  BY <1>2, WinnersBound, FS_CardinalityType
<1>9. slots <= Cardinality(H) => W \subseteq H
  BY <1>2, OnlyHoldersWin
<1>10. ASSUME Cardinality(H) <= slots
       PROVE  H \subseteq W
  <2>1. \A a \in cand : ~ Ahead(a, a, stamps, key)
    BY AheadOrder
  <2>2. QED
    BY <2>1, <1>2, <1>10, HoldersWin
<1> HIDE DEF T, G, H, slots, W
<1>11. Cardinality(T \cup W) <= high
  <2>1. CASE slots <= Cardinality(H)
    <3>1. T \cup W = T
      BY <2>1, <1>3, <1>9
    <3>2. QED
      BY <3>1, <1>7
  <2>2. CASE Cardinality(H) < slots
    <3>1. T \cup W = (T \ H) \cup W
      BY <2>2, <1>1, <1>2, <1>10
    <3>2. /\ Cardinality((T \ H) \cup W) <= Cardinality(T \ H) + Cardinality(W)
          /\ Cardinality((T \ H) \cup W) \in Nat
      BY <1>1, <1>8, UnionBound
    <3>4. slots = cap - Cardinality(G)
      BY <2>2, <1>1, <1>2
    <3>5. Cardinality((T \ H) \cup W) <= cap
      BY <3>2, <3>4, <1>1, <1>5, <1>8
    <3>6. Cardinality((T \ H) \cup W) <= high
      BY <3>2, <3>5
    <3>7. QED
      BY <3>1, <3>6
  <2>3. QED
    BY <2>1, <2>2, <1>1, <1>2
<1>12. cap <= Cardinality(T) => W \subseteq T
  <2> SUFFICES ASSUME cap <= Cardinality(T)
               PROVE  W \subseteq T
    OBVIOUS
  <2>1. slots <= Cardinality(H)
    BY <1>1, <1>2, <1>5, <1>6
  <2>2. QED
    BY <2>1, <1>3, <1>9
<1>13. QED
  BY <1>7, <1>11, <1>12

-----------------------------------------------------------------------------
\* The sort keys are tuples of four integers that end in the account's id.
LEMMA KeyTuple ==
  ASSUME NEW i \in Int, NEW j \in Int, NEW k \in Int, NEW l \in Int
  PROVE  <<i, j, k, l>> \in Key /\ <<i, j, k, l>>[4] = l
BY DEF Key

\* The keys assign_day sorts both queues by are such tuples.
LEMMA SortKeys ==
  ASSUME TypeOK, NEW a \in Account
  PROVE  /\ NukeKey(a) \in Key /\ NukeKey(a)[4] = a
         /\ EvalKey(a) \in Key /\ EvalKey(a)[4] = a
<1>1. /\ a \in Int /\ last_nuke_date[a] \in Int /\ last_eval_date[a] \in Int
      /\ enabled_at[a] \in Int /\ days_traded[a] \in Int
  BY AccountAssumption DEF TypeOK
<1>2. /\ (IF recovery[a] THEN 0 ELSE 1) \in Int
      /\ (IF DepthFirst THEN -days_traded[a] ELSE 0) \in Int
  BY <1>1
<1>3. QED
  BY <1>1, <1>2, KeyTuple DEF NukeKey, EvalKey

\* The two queues of a pass of credential o are instances of PassKeepsCap.
LEMMA NukePass ==
  ASSUME TypeOK, SlotOwnerIsLister, CapHighIsHigh, NukeCap, NEW o \in Owner
  PROVE  /\ NukeWinners(o) \subseteq Candidates(o, "nuke")
         /\ Cardinality(StampedNukes(o) \cup NukeWinners(o)) <= cap_high.nukes
         /\ max_nukes <= Cardinality(StampedNukes(o)) => NukeWinners(o) \subseteq StampedNukes(o)
<1> DEFINE cand == Candidates(o, "nuke")
           key == [a \in cand |-> NukeKey(a)]
<1>1. cand \in SUBSET Account /\ \A a \in cand : OwnerOf[a] = o
  BY DEF Candidates, Fleet
<1>2. key \in [cand -> Key] /\ \A a \in cand : key[a][4] = a
  BY <1>1, SortKeys
<1>3. /\ max_nukes \in Nat /\ cap_high.nukes \in Nat /\ max_nukes <= cap_high.nukes
      /\ Cardinality(StampedToday(o, last_nuke_date)) <= cap_high.nukes
  BY DEF TypeOK, CapHighIsHigh, NukeCap, StampedNukes, StampedToday
<1>4. NukeWinners(o) = Winners(cand, last_nuke_date, key, Slots(max_nukes, last_nuke_date, cand, o))
  BY DEF NukeWinners
<1> HIDE DEF cand, key
<1>5. /\ Cardinality(StampedNukes(o) \cup NukeWinners(o)) <= cap_high.nukes
      /\ max_nukes <= Cardinality(StampedNukes(o)) => NukeWinners(o) \subseteq StampedNukes(o)
  <2>1. /\ max_nukes \in Nat /\ cap_high.nukes \in Nat /\ max_nukes <= cap_high.nukes
        /\ cand \in SUBSET Account /\ key \in [cand -> Key]
        /\ \A a \in cand : key[a][4] = a /\ OwnerOf[a] = o
    BY <1>1, <1>2, <1>3
  <2> DEFINE T == StampedToday(o, last_nuke_date)
             W == PassWinners(o, max_nukes, last_nuke_date, cand, key)
  <2>2. /\ Cardinality(T \cup W) <= cap_high.nukes
        /\ max_nukes <= Cardinality(T) => W \subseteq T
    BY <1>3, <2>1, PassKeepsCap
  <2>3. QED
    BY <1>4, <2>2 DEF StampedNukes, StampedToday, PassWinners
<1>6. NukeWinners(o) \subseteq cand
  BY <1>4 DEF Winners
<1>7. QED
  BY <1>5, <1>6 DEF cand

\* The same for the eval queue.
LEMMA EvalPass ==
  ASSUME TypeOK, SlotOwnerIsLister, CapHighIsHigh, EvalCap, NEW o \in Owner
  PROVE  /\ EvalWinners(o) \subseteq Candidates(o, "eval")
         /\ Cardinality(StampedEvals(o) \cup EvalWinners(o)) <= cap_high.evals
<1> DEFINE cand == Candidates(o, "eval")
           key == [a \in cand |-> EvalKey(a)]
<1>1. cand \in SUBSET Account /\ \A a \in cand : OwnerOf[a] = o
  BY DEF Candidates, Fleet
<1>2. key \in [cand -> Key] /\ \A a \in cand : key[a][4] = a
  BY <1>1, SortKeys
<1>3. /\ max_evals \in Nat /\ cap_high.evals \in Nat /\ max_evals <= cap_high.evals
      /\ Cardinality(StampedToday(o, last_eval_date)) <= cap_high.evals
  BY DEF TypeOK, CapHighIsHigh, EvalCap, StampedEvals, StampedToday
<1>4. EvalWinners(o) = Winners(cand, last_eval_date, key, Slots(max_evals, last_eval_date, cand, o))
  BY DEF EvalWinners
<1> HIDE DEF cand, key
<1>5. Cardinality(StampedEvals(o) \cup EvalWinners(o)) <= cap_high.evals
  <2>1. /\ max_evals \in Nat /\ cap_high.evals \in Nat /\ max_evals <= cap_high.evals
        /\ cand \in SUBSET Account /\ key \in [cand -> Key]
        /\ \A a \in cand : key[a][4] = a /\ OwnerOf[a] = o
    BY <1>1, <1>2, <1>3
  <2> DEFINE T == StampedToday(o, last_eval_date)
             W == PassWinners(o, max_evals, last_eval_date, cand, key)
  <2>2. Cardinality(T \cup W) <= cap_high.evals
    BY <1>3, <2>1, PassKeepsCap
  <2>3. QED
    BY <1>4, <2>2 DEF StampedEvals, StampedToday, PassWinners
<1>6. EvalWinners(o) \subseteq cand
  BY <1>4 DEF Winners
<1>7. QED
  BY <1>5, <1>6 DEF cand

\* What a pass of o does to the stamped sets: the winners join its own, every
\* other key's are untouched.
LEMMA StampedAfterPass ==
  ASSUME TypeOK, NEW o \in Owner, NEW p \in Owner, AssignDay(o),
         NukeWinners(o) \subseteq Candidates(o, "nuke"),
         EvalWinners(o) \subseteq Candidates(o, "eval")
  PROVE  /\ StampedNukes(p)' = IF p = o THEN StampedNukes(o) \cup NukeWinners(o) ELSE StampedNukes(p)
         /\ StampedEvals(p)' = IF p = o THEN StampedEvals(o) \cup EvalWinners(o) ELSE StampedEvals(p)
<1> DEFINE nw == NukeWinners(o)
           ew == EvalWinners(o)
<1>1. /\ \A a \in nw : a \in Account /\ OwnerOf[a] = o
      /\ \A a \in ew : a \in Account /\ OwnerOf[a] = o
  BY DEF Candidates, Fleet
<1>2. /\ day' = day
      /\ last_nuke_date' = [a \in Account |-> IF a \in nw THEN day ELSE last_nuke_date[a]]
      /\ last_eval_date' = [a \in Account |-> IF a \in ew THEN day ELSE last_eval_date[a]]
  BY DEF AssignDay
<1> HIDE DEF nw, ew
<1>3. \A a \in Account : last_nuke_date'[a] = day' <=> a \in nw \/ last_nuke_date[a] = day
  BY <1>2
<1>4. \A a \in Account : last_eval_date'[a] = day' <=> a \in ew \/ last_eval_date[a] = day
  BY <1>2
<1>5. StampedNukes(p)' = {a \in Account : OwnerOf[a] = p /\ (a \in nw \/ last_nuke_date[a] = day)}
  BY <1>3 DEF StampedNukes
<1>6. StampedEvals(p)' = {a \in Account : OwnerOf[a] = p /\ (a \in ew \/ last_eval_date[a] = day)}
  BY <1>4 DEF StampedEvals
<1>7. QED
  BY <1>1, <1>5, <1>6 DEF StampedNukes, StampedEvals, nw, ew

-----------------------------------------------------------------------------
\* At the start at most pre-upgrade stamps of today exist, within the caps.
LEMMA InitIInv == Init => IInv
<1> SUFFICES ASSUME Init
             PROVE  IInv
  OBVIOUS
<1>1. TypeOK
  <2>1. max_nukes \in Nat /\ max_evals \in Nat /\ day \in Nat \ {0}
    BY ParameterAssumption DEF Init
  <2>2. class \in [Account -> Class]
    BY ParameterAssumption DEF Init, Class
  <2>3. QED
    BY <2>1, <2>2, OwnerAssumption DEF Init, TypeOK
<1>2. SlotOwnerIsLister /\ NoFutureStamp
  BY DEF Init, SlotOwnerIsLister, NoFutureStamp
<1>3. CapHighIsHigh
  BY <1>1 DEF Init, CapHighIsHigh, TypeOK
<1>4. NukeCap /\ EvalCap
  BY DEF Init, NukeCap, EvalCap
<1>5. QED
  BY <1>1, <1>2, <1>3, <1>4 DEF IInv

\* Steps that touch neither the schedule, the day nor the caps leave the
\* stamped sets alone.
LEMMA OutsideSchedule ==
  ASSUME SlotOwnerIsLister, NoFutureStamp, CapHighIsHigh, NukeCap, EvalCap,
         UNCHANGED <<day, settings, schedule, cap_high>>
  PROVE  /\ SlotOwnerIsLister' /\ NoFutureStamp' /\ CapHighIsHigh'
         /\ NukeCap' /\ EvalCap'
BY DEF SlotOwnerIsLister, NoFutureStamp, CapHighIsHigh, NukeCap, EvalCap,
       StampedNukes, StampedEvals, settings, schedule

\* Every step keeps the types.
LEMMA NextTypeOK == TypeOK /\ [Next]_vars => TypeOK'
<1> SUFFICES ASSUME TypeOK, [Next]_vars
             PROVE  TypeOK'
  OBVIOUS
<1>1. ASSUME NEW o \in Owner, AssignDay(o)
      PROVE  TypeOK'
  BY <1>1 DEF AssignDay, TypeOK, settings, accounts
<1>2. ASSUME NEW a \in Account, EvalResult(a)
      PROVE  TypeOK'
  <2>1. class' \in [Account -> Class] /\ days_traded' \in [Account -> Nat]
    BY <1>2 DEF EvalResult, TypeOK, Class
  <2>2. QED
    BY <1>2, <2>1 DEF EvalResult, TypeOK, settings, schedule
<1>3. ASSUME NEW a \in Account, NukeResult(a)
      PROVE  TypeOK'
  <2>1. class' \in [Account -> Class] /\ recovery' \in [Account -> BOOLEAN]
    BY <1>3 DEF NukeResult, TypeOK, Class
  <2>2. QED
    BY <1>3, <2>1 DEF NukeResult, TypeOK, settings, schedule
<1>4. ASSUME NEW a \in Account, Payout(a)
      PROVE  TypeOK'
  BY <1>4 DEF Payout, TypeOK, Class, settings, schedule
<1>5. ASSUME NEW a \in Account, Leave(a)
      PROVE  TypeOK'
  BY <1>5 DEF Leave, TypeOK, settings, schedule
<1>6. ASSUME NEW a \in Account, Return(a)
      PROVE  TypeOK'
  BY <1>6 DEF Return, TypeOK, settings, schedule
<1>7. ASSUME NEW n \in NukeCaps, NEW e \in EvalCaps, EditCaps(n, e)
      PROVE  TypeOK'
  <2>1. n \in Nat /\ e \in Nat
    BY ParameterAssumption
  <2>2. cap_high' \in [nukes : Nat, evals : Nat]
    BY <1>7, <2>1 DEF EditCaps, TypeOK, Larger
  <2>3. QED
    BY <1>7, <2>1, <2>2 DEF EditCaps, TypeOK, accounts, schedule
<1>8. CASE NextDay
  BY <1>8 DEF NextDay, TypeOK, settings, accounts, schedule
<1>9. CASE UNCHANGED vars
  BY <1>9 DEF vars, TypeOK, settings, accounts, schedule
<1>10. QED
  BY <1>1, <1>2, <1>3, <1>4, <1>5, <1>6, <1>7, <1>8, <1>9 DEF Next

\* Every step keeps the invariant; only AssignDay, EditCaps and NextDay touch
\* what it is about.
LEMMA NextIInv == IInv /\ [Next]_vars => IInv'
<1> SUFFICES ASSUME IInv, [Next]_vars
             PROVE  IInv'
  OBVIOUS
<1> USE DEF IInv
<1>1. TypeOK'
  BY NextTypeOK
<1> DEFINE Rest == SlotOwnerIsLister /\ NoFutureStamp /\ CapHighIsHigh /\ NukeCap /\ EvalCap
<1>2. ASSUME NEW o \in Owner, AssignDay(o)
      PROVE  Rest'
  <2>1. /\ NukeWinners(o) \subseteq Candidates(o, "nuke")
        /\ Cardinality(StampedNukes(o) \cup NukeWinners(o)) <= cap_high.nukes
    BY NukePass
  <2>2. /\ EvalWinners(o) \subseteq Candidates(o, "eval")
        /\ Cardinality(StampedEvals(o) \cup EvalWinners(o)) <= cap_high.evals
    BY EvalPass
  <2>3. \A a \in EvalWinners(o) \cup NukeWinners(o) : OwnerOf[a] = o
    BY <2>1, <2>2 DEF Candidates, Fleet
  <2>4. SlotOwnerIsLister'
    BY <1>2, <2>3 DEF AssignDay, SlotOwnerIsLister
  <2>5. NoFutureStamp'
    BY <1>2 DEF AssignDay, NoFutureStamp, TypeOK
  <2>6. CapHighIsHigh' /\ cap_high' = cap_high
    BY <1>2 DEF AssignDay, CapHighIsHigh, settings
  <2>7. NukeCap'
    <3> SUFFICES ASSUME NEW p \in Owner
                 PROVE  Cardinality(StampedNukes(p)') <= cap_high'.nukes
      BY DEF NukeCap
    <3>1. StampedNukes(p)' = IF p = o THEN StampedNukes(o) \cup NukeWinners(o) ELSE StampedNukes(p)
      BY <1>2, <2>1, <2>2, StampedAfterPass
    <3>2. Cardinality(StampedNukes(p)) <= cap_high.nukes
      BY DEF NukeCap
    <3>3. QED
      BY <3>1, <3>2, <2>1, <2>6
  <2>8. EvalCap'
    <3> SUFFICES ASSUME NEW p \in Owner
                 PROVE  Cardinality(StampedEvals(p)') <= cap_high'.evals
      BY DEF EvalCap
    <3>1. StampedEvals(p)' = IF p = o THEN StampedEvals(o) \cup EvalWinners(o) ELSE StampedEvals(p)
      BY <1>2, <2>1, <2>2, StampedAfterPass
    <3>2. Cardinality(StampedEvals(p)) <= cap_high.evals
      BY DEF EvalCap
    <3>3. QED
      BY <3>1, <3>2, <2>2, <2>6
  <2>9. QED
    BY <2>4, <2>5, <2>6, <2>7, <2>8
<1>3. ASSUME NEW a \in Account, EvalResult(a) \/ NukeResult(a) \/ Payout(a) \/ Leave(a) \/ Return(a)
      PROVE  Rest'
  <2>1. UNCHANGED <<day, settings, schedule, cap_high>>
    BY <1>3 DEF EvalResult, NukeResult, Payout, Leave, Return
  <2>2. QED
    BY <2>1, OutsideSchedule
<1>4. ASSUME NEW n \in NukeCaps, NEW e \in EvalCaps, EditCaps(n, e)
      PROVE  Rest'
  <2>1. n \in Nat /\ e \in Nat
    BY ParameterAssumption
  <2>2. /\ CapHighIsHigh'
        /\ cap_high.nukes <= cap_high'.nukes /\ cap_high.evals <= cap_high'.evals
        /\ cap_high'.nukes \in Nat /\ cap_high'.evals \in Nat
    BY <1>4, <2>1 DEF EditCaps, CapHighIsHigh, Larger, TypeOK
  <2>3. SlotOwnerIsLister' /\ NoFutureStamp'
    BY <1>4 DEF EditCaps, schedule, SlotOwnerIsLister, NoFutureStamp
  <2>4. \A p \in Owner : StampedNukes(p)' = StampedNukes(p) /\ StampedEvals(p)' = StampedEvals(p)
    BY <1>4 DEF EditCaps, schedule, StampedNukes, StampedEvals
  <2>5. \A p \in Owner : Cardinality(StampedNukes(p)) \in Nat /\ Cardinality(StampedEvals(p)) \in Nat
    BY AccountAssumption, FS_Subset, FS_CardinalityType DEF StampedNukes, StampedEvals
  <2>6. NukeCap' /\ EvalCap'
    BY <2>2, <2>4, <2>5 DEF NukeCap, EvalCap, TypeOK
  <2>7. QED
    BY <2>2, <2>3, <2>6
<1>5. ASSUME NextDay
      PROVE  Rest'
  <2>1. SlotOwnerIsLister' /\ NoFutureStamp' /\ CapHighIsHigh'
    BY <1>5 DEF NextDay, SlotOwnerIsLister, NoFutureStamp, CapHighIsHigh, settings, schedule, TypeOK
  <2>2. \A p \in Owner : StampedNukes(p)' = {} /\ StampedEvals(p)' = {}
    BY <1>5 DEF NextDay, schedule, NoFutureStamp, StampedNukes, StampedEvals, TypeOK
  <2>3. NukeCap' /\ EvalCap'
    <3>1. cap_high'.nukes \in Nat /\ cap_high'.evals \in Nat
      BY <1>1 DEF TypeOK
    <3>2. QED
      BY <2>2, <3>1, FS_EmptySet DEF NukeCap, EvalCap
  <2>4. QED
    BY <2>1, <2>3
<1>6. ASSUME UNCHANGED vars
      PROVE  Rest'
  BY <1>6, OutsideSchedule DEF vars
<1>7. Rest'
  BY <1>2, <1>3, <1>4, <1>5, <1>6 DEF Next
<1>8. QED
  BY <1>1, <1>7

\* IInv is an inductive invariant of the scheduler.
THEOREM Inductive == Spec => []IInv
BY InitIInv, NextIInv, PTL DEF Spec

\* Type correctness of every reachable schedule.
THEOREM TypeCorrect == Spec => []TypeOK
<1>1. IInv => TypeOK
  BY DEF IInv
<1>2. QED
  BY <1>1, Inductive, PTL

\* At most max_nukes_per_day accounts of a key get a nuke slot on any day.
THEOREM NukeCapHolds == Spec => []NukeCap
<1>1. IInv => NukeCap
  BY DEF IInv
<1>2. QED
  BY <1>1, Inductive, PTL

\* At most max_evals_per_day accounts of a key get an eval slot on any day.
THEOREM EvalCapHolds == Spec => []EvalCap
<1>1. IInv => EvalCap
  BY DEF IInv
<1>2. QED
  BY <1>1, Inductive, PTL

\* Slots used up today are never re-awarded today, by any sequence of passes,
\* departures, returns and cap edits.
THEOREM SlotStaysConsumedHolds == Spec => SlotStaysConsumed
<1> DEFINE Kept == \A o \in Owner :
                     (day' = day /\ Cardinality(StampedNukes(o)) >= max_nukes)
                        => StampedNukes(o)' = StampedNukes(o)
<1>1. IInv /\ [Next]_vars => [Kept]_vars
  <2> SUFFICES ASSUME IInv, Next, NEW p \in Owner, day' = day,
                      Cardinality(StampedNukes(p)) >= max_nukes
               PROVE  StampedNukes(p)' = StampedNukes(p)
    OBVIOUS
  <2> USE DEF IInv
  <2>1. ASSUME NEW o \in Owner, AssignDay(o)
        PROVE  StampedNukes(p)' = StampedNukes(p)
    <3>1. /\ NukeWinners(o) \subseteq Candidates(o, "nuke")
          /\ EvalWinners(o) \subseteq Candidates(o, "eval")
      BY NukePass, EvalPass
    <3>2. StampedNukes(p)' = IF p = o THEN StampedNukes(o) \cup NukeWinners(o) ELSE StampedNukes(p)
      BY <2>1, <3>1, StampedAfterPass
    <3>3. p = o => NukeWinners(o) \subseteq StampedNukes(o)
      <4> SUFFICES ASSUME p = o
                   PROVE  NukeWinners(o) \subseteq StampedNukes(o)
        OBVIOUS
      <4>1. Cardinality(StampedNukes(o)) \in Nat /\ max_nukes \in Nat
        BY AccountAssumption, FS_Subset, FS_CardinalityType DEF StampedNukes, TypeOK
      <4>2. max_nukes <= Cardinality(StampedNukes(o))
        BY <4>1
      <4>3. QED
        BY <4>2, NukePass
    <3>4. QED
      BY <3>2, <3>3
  <2>2. ASSUME UNCHANGED last_nuke_date
        PROVE  StampedNukes(p)' = StampedNukes(p)
    BY <2>2 DEF StampedNukes
  <2>3. ASSUME NEW a \in Account, EvalResult(a) \/ NukeResult(a) \/ Payout(a) \/ Leave(a) \/ Return(a)
        PROVE  UNCHANGED last_nuke_date
    BY <2>3 DEF EvalResult, NukeResult, Payout, Leave, Return, schedule
  <2>4. ASSUME NEW n \in NukeCaps, NEW e \in EvalCaps, EditCaps(n, e)
        PROVE  UNCHANGED last_nuke_date
    BY <2>4 DEF EditCaps, schedule
  <2>5. ~ NextDay
    BY DEF NextDay, TypeOK
  <2>6. QED
    BY <2>1, <2>2, <2>3, <2>4, <2>5 DEF Next
<1>2. QED
  BY <1>1, Inductive, PTL DEF Spec, SlotStaysConsumed

\* The holder of a nuke slot keeps it in every later pass of the day.
THEOREM HoldersKeepTheirSlotHolds == Spec => []HoldersKeepTheirSlot
<1>1. IInv => HoldersKeepTheirSlot
  <2> SUFFICES ASSUME IInv, NEW o \in Owner,
                      Cardinality(StampedNukes(o)) <= max_nukes, OwnBooks(last_nuke_date, o)
               PROVE  StampedNukes(o) \cap Candidates(o, "nuke") \subseteq NukeWinners(o)
    BY DEF HoldersKeepTheirSlot
  <2> DEFINE cand == Candidates(o, "nuke")
             key == [a \in cand |-> NukeKey(a)]
             T == StampedNukes(o)
             H == {a \in cand : last_nuke_date[a] = day}
             G == {a \in Account \ cand : last_nuke_date[a] = day /\ slot_owner[a] \in {o, NoOwner}}
             slots == Slots(max_nukes, last_nuke_date, cand, o)
  <2>1. cand \in SUBSET Account /\ \A a \in cand : OwnerOf[a] = o
    BY DEF Candidates, Fleet
  <2>2. key \in [cand -> Key] /\ \A a \in cand : key[a][4] = a
    BY <2>1, SortKeys DEF IInv
  <2>3. H = T \cap cand
    BY <2>1 DEF StampedNukes
  <2>4. G = T \ cand
    BY OwnerAssumption DEF StampedNukes, OwnBooks, IInv, SlotOwnerIsLister
  <2>5. /\ IsFiniteSet(G) /\ IsFiniteSet(H)
        /\ Cardinality(G) \in Nat /\ Cardinality(H) \in Nat /\ max_nukes \in Nat
    BY <2>1, AccountAssumption, FS_Subset, FS_CardinalityType DEF IInv, TypeOK
  <2>6. Cardinality(T) = Cardinality(G) + Cardinality(H)
    <3>1. G \cup H = T /\ G \cap H = {}
      BY <2>3, <2>4
    <3> HIDE DEF G, H, T
    <3>2. QED
      BY <3>1, <2>5, UnionBound
  <2>7. slots = (IF max_nukes < Cardinality(G) THEN 0 ELSE max_nukes - Cardinality(G))
    BY DEF Slots, GhostSlots
  <2>8. NukeWinners(o) = Winners(cand, last_nuke_date, key, slots)
    BY DEF NukeWinners
  <2>9. Cardinality(T) <= max_nukes
    OBVIOUS
  <2> HIDE DEF G, T, slots, key, cand
  <2>10. slots \in Nat /\ Cardinality(H) <= slots
    <3> HIDE DEF H
    <3>1. QED
      BY <2>5, <2>6, <2>7, <2>9
  <2>11. \A a \in cand : ~ Ahead(a, a, last_nuke_date, key)
    BY <2>1, <2>2, AheadOrder
  <2>12. H \subseteq NukeWinners(o)
    BY <2>1, <2>8, <2>10, <2>11, HoldersWin
  <2>13. QED
    BY <2>3, <2>12 DEF T, cand
<1>2. QED
  BY <1>1, Inductive, PTL

\* No account that is mid-sequence idles while a fresh account is given one of
\* the key's nuke slots, in any pass of any day (_nuke_key sorts recoveries
\* first; only a slot already held is ahead of them).
THEOREM RecoveryGoesFirst == Spec => []RecoveryFirst
<1>1. TypeOK => RecoveryFirst
  <2> SUFFICES ASSUME TypeOK, NEW o \in Owner,
                      NEW a \in Candidates(o, "nuke"), NEW b \in Candidates(o, "nuke"),
                      recovery[a], ~recovery[b], Assignment(o)[a] = <<"idle">>,
                      b \in NukeWinners(o), last_nuke_date[b] # day
               PROVE  FALSE
    BY DEF RecoveryFirst
  <2> DEFINE cand  == Candidates(o, "nuke")
             key   == [x \in cand |-> NukeKey(x)]
             slots == Slots(max_nukes, last_nuke_date, cand, o)
  <2>1. cand \in SUBSET Account /\ a \in Fleet(o) /\ class[a] = "nuke"
    BY DEF Candidates, Fleet
  <2>2. key \in [cand -> Key] /\ \A x \in cand : key[x][4] = x
    BY <2>1, SortKeys
  <2>3. slots \in Nat
    <3>1. GhostSlots(last_nuke_date, cand, o) \in Nat
      BY AccountAssumption, FS_Subset, FS_CardinalityType DEF GhostSlots
    <3> QED
      BY <3>1 DEF Slots, TypeOK
  <2>4. a \notin NukeWinners(o)
    BY <2>1 DEF Assignment
  <2>5. key[a] \in Key /\ key[b] \in Key /\ key[a][1] = 0 /\ key[b][1] = 1
    BY <2>2 DEF NukeKey
  <2>6. KeyLess(key[a], key[b])
    BY <2>5, KeyLessUnfold
  <2>7. Ahead(a, b, last_nuke_date, key)
    BY <2>6 DEF Ahead
  <2>8. NukeWinners(o) = Winners(cand, last_nuke_date, key, slots)
    BY DEF NukeWinners
  <2> HIDE DEF key, slots
  <2> QED
    BY <2>1, <2>2, <2>3, <2>4, <2>7, <2>8, AheadWins
<1> QED
  BY <1>1, TypeCorrect, PTL

\* No eval slot is wasted: while an eval idles, as many accounts of the key as
\* its cap allows hold the day's slots (the slots of _ghost_slots are its own
\* accounts', and a pass fills the rest).
THEOREM NoSlotIsWasted == Spec => []WaitOnlyForTakenSlots
<1>1. IInv => WaitOnlyForTakenSlots
  <2> SUFFICES ASSUME IInv, NEW o \in Owner, OwnBooks(last_eval_date, o), NEW a \in Fleet(o),
                      class[a] = "eval", Assignment(o)[a] = <<"idle">>
               PROVE  Cardinality(StampedEvals(o) \cup EvalWinners(o)) >= max_evals
    BY DEF WaitOnlyForTakenSlots
  <2> DEFINE cand  == Candidates(o, "eval")
             key   == [x \in cand |-> EvalKey(x)]
             G     == {x \in Account \ cand :
                         last_eval_date[x] = day /\ slot_owner[x] \in {o, NoOwner}}
             slots == Slots(max_evals, last_eval_date, cand, o)
             W     == EvalWinners(o)
             T     == StampedEvals(o)
  <2>1. cand \in SUBSET Account /\ a \in cand /\ \A x \in cand : OwnerOf[x] = o
    BY DEF Candidates, Fleet
  <2>2. key \in [cand -> Key] /\ \A x \in cand : key[x][4] = x
    BY <2>1, SortKeys DEF IInv
  <2>3. G \subseteq T
    BY OwnerAssumption DEF StampedEvals, OwnBooks, IInv, SlotOwnerIsLister
  <2>4. /\ IsFiniteSet(G) /\ Cardinality(G) \in Nat
        /\ max_evals \in Nat
    BY AccountAssumption, FS_Subset, FS_CardinalityType DEF IInv, TypeOK
  <2>5. slots = (IF max_evals < Cardinality(G) THEN 0 ELSE max_evals - Cardinality(G))
    BY DEF Slots, GhostSlots
  <2>6. W = Winners(cand, last_eval_date, key, slots)
    BY DEF EvalWinners
  <2>7. a \notin W
    BY DEF Assignment
  <2>8. W \subseteq cand /\ T \subseteq Account
    BY DEF EvalWinners, Winners, StampedEvals
  <2>9. G \cap W = {}
    BY <2>8
  <2> HIDE DEF G, slots, W, T, key, cand
  <2>10. slots \in Nat
    BY <2>4, <2>5
  <2>11. slots <= Cardinality(W)
    BY <2>1, <2>2, <2>6, <2>7, <2>10, WaitingMeansFull
  <2>12. /\ IsFiniteSet(W) /\ Cardinality(W) \in Nat
         /\ IsFiniteSet(T \cup W) /\ Cardinality(T \cup W) \in Nat
    <3>1. W \subseteq Account /\ T \cup W \subseteq Account
      BY <2>1, <2>8
    <3> QED
      BY <3>1, AccountAssumption, FS_Subset, FS_CardinalityType
  <2>13. Cardinality(G \cup W) = Cardinality(G) + Cardinality(W)
    BY <2>4, <2>9, <2>12, UnionBound
  <2>14. Cardinality(G \cup W) <= Cardinality(T \cup W)
    <3>1. G \cup W \subseteq T \cup W
      BY <2>3
    <3> QED
      BY <3>1, <2>12, FS_Subset
  <2>15. max_evals <= Cardinality(T \cup W)
    BY <2>4, <2>5, <2>11, <2>12, <2>13, <2>14
  <2> QED
    BY <2>4, <2>12, <2>15 DEF T, W
<1> QED
  BY <1>1, Inductive, PTL
=============================================================================
