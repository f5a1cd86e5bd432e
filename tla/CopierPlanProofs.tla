------------------------- MODULE CopierPlanProofs ---------------------------
(***************************************************************************)
(* Proofs about the copier plan, for every fleet, every set of leaders and *)
(* channels, and all slots and limits: TwinsApart, Resolves,               *)
(* BuysOnlyForTheDead and PulledLawful.  A sort and a slice is the part of a set with fewer   *)
(* than n ahead; the orders are made sets of pairs, so that one set of     *)
(* lemmas serves the intake, the nukes and the choice of a leader.  The    *)
(* fold over the mirrors is a recursion on finite sets: it exists because  *)
(* it can be built on ever larger sets, and what each turn keeps holds of  *)
(* what it returns.  Two facts about it are enough: the loads are counts,  *)
(* and a firm's leader once taken stays taken.                             *)
(***************************************************************************)
EXTENDS CopierPlan, FiniteSetTheorems, WellFoundedInduction, TLAPS

-----------------------------------------------------------------------------
(* The first ones of a finite set by a strict order, given as its pairs.   *)

Ahead(A, R, x) == {y \in A : <<y, x>> \in R}
Strict(A, R) ==
  /\ \A x \in A : <<x, x>> \notin R
  /\ \A x, y, z \in A : <<x, y>> \in R /\ <<y, z>> \in R => <<x, z>> \in R
  /\ \A x, y \in A : x # y => <<x, y>> \in R \/ <<y, x>> \in R
Foremost(A, R, n) == {x \in A : Cardinality(Ahead(A, R, x)) < n}

\* A nonempty set of numbers has a least one.
LEMMA LeastNat == ASSUME NEW T \in SUBSET Nat, T # {}
                  PROVE  \E n \in T : \A k \in T : n <= k
<1>1. PICK n \in T : \A k \in T : ~ (<<k, n>> \in OpToRel(<, Nat))
  BY WFMin, NatLessThanWellFounded
<1>2. \A k \in T : ~ (k < n)
  BY <1>1 DEF OpToRel
<1> QED
  BY <1>2

\* Who is ahead of x has fewer ahead than x.
LEMMA AheadShrinks ==
  ASSUME NEW A, IsFiniteSet(A), NEW R, Strict(A, R), NEW x \in A, NEW y \in A, <<y, x>> \in R
  PROVE  /\ Cardinality(Ahead(A, R, x)) \in Nat /\ Cardinality(Ahead(A, R, y)) \in Nat
         /\ Cardinality(Ahead(A, R, y)) < Cardinality(Ahead(A, R, x))
<1>1. Ahead(A, R, y) \subseteq Ahead(A, R, x)
  BY DEF Ahead, Strict
<1>2. y \in Ahead(A, R, x) /\ y \notin Ahead(A, R, y)
  BY DEF Ahead, Strict
<1>3. IsFiniteSet(Ahead(A, R, x))
  BY FS_Subset DEF Ahead
<1> HIDE DEF Ahead
<1>4. /\ IsFiniteSet(Ahead(A, R, y))
      /\ Cardinality(Ahead(A, R, y)) <= Cardinality(Ahead(A, R, x))
      /\ Cardinality(Ahead(A, R, x)) # Cardinality(Ahead(A, R, y))
  BY <1>1, <1>2, <1>3, FS_Subset
<1> QED
  BY <1>3, <1>4, FS_CardinalityType

\* Every nonempty part has a first element.
LEMMA FirstExists ==
  ASSUME NEW A, IsFiniteSet(A), NEW R, Strict(A, R), NEW B \in SUBSET A, B # {}
  PROVE  \E x \in B : \A y \in B \ {x} : <<x, y>> \in R
<1> DEFINE c(x) == Cardinality(Ahead(A, R, x))
           T == {c(x) : x \in B}
<1>1. \A x \in A : c(x) \in Nat
  <2> TAKE x \in A
  <2>1. IsFiniteSet(Ahead(A, R, x))
    BY FS_Subset DEF Ahead
  <2> QED
    BY <2>1, FS_CardinalityType
<1>2. \A x, y \in A : <<y, x>> \in R => c(y) < c(x)
  BY AheadShrinks
<1> HIDE DEF c
<1>3. T \in SUBSET Nat /\ T # {}
  BY <1>1
<1>4. PICK n \in T : \A k \in T : n <= k
  BY <1>3, LeastNat
<1>5. PICK x \in B : n = c(x)
  BY <1>4
<1>6. ASSUME NEW y \in B \ {x} PROVE <<x, y>> \in R
  <2>1. c(x) <= c(y) /\ c(x) \in Nat /\ c(y) \in Nat
    BY <1>1, <1>4, <1>5
  <2>2. <<y, x>> \notin R
    BY <1>2, <2>1
  <2> QED
    BY <2>2 DEF Strict
<1> QED
  BY <1>6

\* The same order read backwards.
LEMMA LastExists ==
  ASSUME NEW A, IsFiniteSet(A), NEW R, Strict(A, R), NEW B \in SUBSET A, B # {}
  PROVE  \E x \in B : \A y \in B \ {x} : <<y, x>> \in R
<1> DEFINE Q == {p \in A \X A : <<p[2], p[1]>> \in R}
<1>1. \A x, y \in A : <<x, y>> \in Q <=> <<y, x>> \in R
  OBVIOUS
<1> HIDE DEF Q
<1>2. Strict(A, Q)
  BY <1>1 DEF Strict
<1>3. PICK x \in B : \A y \in B \ {x} : <<x, y>> \in Q
  BY <1>2, FirstExists
<1> QED
  BY <1>1, <1>3

\* The first n are at most n, whoever is ahead of one of them is one of them,
\* and they are fewer than n only when they are all there are.
LEMMA ForemostFacts ==
  ASSUME NEW A, IsFiniteSet(A), NEW R, Strict(A, R), NEW n \in Nat
  PROVE  LET F == Foremost(A, R, n)
         IN /\ F \subseteq A /\ IsFiniteSet(F) /\ Cardinality(F) \in Nat /\ Cardinality(F) <= n
            /\ \A x \in F, y \in A : <<y, x>> \in R => y \in F
            /\ F # A => Cardinality(F) >= n
<1> DEFINE F == Foremost(A, R, n)
           c(x) == Cardinality(Ahead(A, R, x))
<1>1. \A x \in A : IsFiniteSet(Ahead(A, R, x)) /\ c(x) \in Nat
  <2> TAKE x \in A
  <2>1. IsFiniteSet(Ahead(A, R, x))
    BY FS_Subset DEF Ahead
  <2> QED
    BY <2>1, FS_CardinalityType
<1>2. F \subseteq A /\ \A x \in A : x \in F <=> c(x) < n
  BY DEF Foremost
<1>3. IsFiniteSet(F) /\ Cardinality(F) \in Nat
  BY <1>2, FS_Subset, FS_CardinalityType
<1>4. ASSUME NEW x \in F, NEW y \in A, <<y, x>> \in R PROVE y \in F
  <2>1. c(y) < c(x) /\ c(x) \in Nat /\ c(y) \in Nat
    BY <1>2, <1>4, AheadShrinks
  <2> QED
    BY <1>2, <2>1
<1>5. Cardinality(F) <= n
  <2>1. CASE F = {}
    BY <2>1, FS_EmptySet
  <2>2. CASE F # {}
    <3>1. PICK x \in F : \A y \in F \ {x} : <<y, x>> \in R
      BY <1>2, <2>2, LastExists
    <3>2. F \subseteq Ahead(A, R, x) \cup {x}
      BY <1>2, <3>1 DEF Ahead
    <3>3. IsFiniteSet(Ahead(A, R, x)) /\ c(x) \in Nat /\ c(x) < n
      BY <1>1, <1>2
    <3> DEFINE H == Ahead(A, R, x)
    <3>4. x \notin H
      BY <1>2 DEF Ahead, Strict
    <3>5. F \subseteq H \cup {x} /\ IsFiniteSet(H) /\ Cardinality(H) \in Nat /\ Cardinality(H) < n
      BY <3>2, <3>3
    <3> HIDE DEF F, H
    <3>6. IsFiniteSet(H \cup {x}) /\ Cardinality(H \cup {x}) = Cardinality(H) + 1
      BY <3>4, <3>5, FS_AddElement
    <3>7. Cardinality(F) <= Cardinality(H \cup {x})
      BY <3>5, <3>6, FS_Subset
    <3> QED
      BY <1>3, <3>5, <3>6, <3>7
  <2> QED
    BY <2>1, <2>2
<1>6. ASSUME F # A PROVE Cardinality(F) >= n
  <2>1. PICK x \in A \ F : \A y \in (A \ F) \ {x} : <<x, y>> \in R
    <3> DEFINE B == A \ F
    <3>1. B # {} /\ B \in SUBSET A
      BY <1>2, <1>6
    <3> HIDE DEF B
    <3>2. \E x \in B : \A y \in B \ {x} : <<x, y>> \in R
      BY <3>1, FirstExists
    <3> QED
      BY <3>2 DEF B
  <2>2. Ahead(A, R, x) \subseteq F
    BY <2>1 DEF Ahead, Strict
  <2>3. c(x) <= Cardinality(F)
    BY <1>3, <2>2, FS_Subset
  <2>4. c(x) >= n
    BY <1>1, <1>2
  <2> HIDE DEF F, c
  <2> QED
    BY <1>1, <1>3, <2>3, <2>4
<1> QED
  BY <1>2, <1>3, <1>4, <1>5, <1>6

\* Numbers: the greatest and the least of a finite set are in it.
LEMMA MaxMinIn == ASSUME NEW A \in SUBSET Nat, IsFiniteSet(A), A # {}
                  PROVE  /\ Max(A) \in A /\ \A y \in A : Max(A) >= y
                         /\ Min(A) \in A /\ \A y \in A : Min(A) <= y
<1> DEFINE Less == {p \in A \X A : p[1] < p[2]}
           More == {p \in A \X A : p[1] > p[2]}
<1>1. \A x, y \in A : (<<x, y>> \in Less <=> x < y) /\ (<<x, y>> \in More <=> x > y)
  OBVIOUS
<1>2. A \in SUBSET A /\ \A x, y \in A : x \in Nat /\ y \in Nat
  OBVIOUS
<1> HIDE DEF Less, More
<1>3. Strict(A, Less)
  BY <1>1 DEF Strict
<1>4. Strict(A, More)
  BY <1>1 DEF Strict
<1>5. \E x \in A : \A y \in A : x <= y
  <2>1. PICK x \in A : \A y \in A \ {x} : <<x, y>> \in Less
    BY <1>3, FirstExists
  <2>2. \A y \in A : y = x \/ x < y
    BY <1>1, <2>1
  <2> QED
    BY <1>2, <2>2
<1>6. \E x \in A : \A y \in A : x >= y
  <2>1. PICK x \in A : \A y \in A \ {x} : <<x, y>> \in More
    BY <1>4, FirstExists
  <2>2. \A y \in A : y = x \/ x > y
    BY <1>1, <2>1
  <2> QED
    BY <1>2, <2>2
<1> QED
  BY <1>5, <1>6 DEF Max, Min

-----------------------------------------------------------------------------
(* The fold over the mirrors, for a fleet M and what is seen of the leaders *)
(* (S, evals): a recursion on finite sets, which exists because it can be   *)
(* built on ever larger ones.                                               *)

StepOf(S, M, evals, h, s) ==
  IF s = {} THEN Untouched(M, evals) ELSE Solved(S, M, h[s \ {Max(s)}], Max(s))
Iter(S, M, evals, T) == CHOOSE h : h = [s \in SUBSET T |-> StepOf(S, M, evals, h, s)]

\* The library's fold is the iteration's value.
LEMMA AfterIsIter ==
  ASSUME NEW S, NEW M, NEW evals, NEW T
  PROVE  After(S, M, evals, T) = Iter(S, M, evals, T)[T]
  BY DEF After, MapThenFoldSet, Iter, StepOf

\* Induction on the size of the subsets of a finite set.
LEMMA SizeInduction ==
  ASSUME NEW T, IsFiniteSet(T), NEW Good,
         \A s \in SUBSET T : (\A r \in SUBSET T : Cardinality(r) < Cardinality(s) => r \in Good)
                               => s \in Good
  PROVE  SUBSET T \subseteq Good
<1> SUFFICES ASSUME (SUBSET T) \ Good # {} PROVE FALSE
  OBVIOUS
<1> DEFINE C == {Cardinality(s) : s \in (SUBSET T) \ Good}
<1>1. \A s \in SUBSET T : Cardinality(s) \in Nat
  BY FS_Subset, FS_CardinalityType
<1>2. C \in SUBSET Nat /\ C # {}
  BY <1>1
<1>3. PICK n \in C : \A k \in C : n <= k
  BY <1>2, LeastNat
<1>4. PICK s \in (SUBSET T) \ Good : n = Cardinality(s)
  BY <1>3
<1>5. \A r \in SUBSET T : Cardinality(r) < Cardinality(s) => r \in Good
  <2> SUFFICES ASSUME NEW r \in SUBSET T, r \notin Good PROVE ~ (Cardinality(r) < Cardinality(s))
    OBVIOUS
  <2>1. Cardinality(r) \in C
    OBVIOUS
  <2> HIDE DEF C
  <2> QED
    BY <1>1, <1>3, <1>4, <2>1
<1> QED
  BY <1>4, <1>5

\* Taking the greatest away leaves one fewer.
LEMMA WithoutMax ==
  ASSUME NEW T \in SUBSET Nat, IsFiniteSet(T), NEW s \in SUBSET T, s # {}
  PROVE  /\ Max(s) \in s /\ s \ {Max(s)} \in SUBSET T
         /\ Cardinality(s \ {Max(s)}) < Cardinality(s)
         /\ Cardinality(s) \in Nat /\ Cardinality(s \ {Max(s)}) + 1 = Cardinality(s)
         /\ Cardinality(s \ {Max(s)}) \in Nat
<1>1. IsFiniteSet(s) /\ s \in SUBSET Nat
  BY FS_Subset
<1>2. Max(s) \in s
  BY <1>1, MaxMinIn
<1> DEFINE x == Max(s)
<1>3. x \in s
  BY <1>2
<1> HIDE DEF x
<1>4. Cardinality(s \ {x}) = Cardinality(s) - 1 /\ IsFiniteSet(s \ {x})
  BY <1>1, <1>3, FS_RemoveElement
<1>5. Cardinality(s \ {x}) \in Nat /\ Cardinality(s) \in Nat
  BY <1>1, <1>4, FS_CardinalityType
<1>6. Cardinality(s \ {x}) < Cardinality(s) /\ Cardinality(s \ {x}) + 1 = Cardinality(s)
  BY <1>4, <1>5
<1> QED
  BY <1>3, <1>5, <1>6 DEF x

\* The iteration exists.
LEMMA IterExists ==
  ASSUME NEW S, NEW M, NEW evals, NEW T \in SUBSET Nat, IsFiniteSet(T)
  PROVE  \A s \in SUBSET T : Iter(S, M, evals, T)[s] = StepOf(S, M, evals, Iter(S, M, evals, T), s)
<1> DEFINE Step(h, s) == StepOf(S, M, evals, h, s)
           Small(n) == {s \in SUBSET T : Cardinality(s) <= n}
           Good(n, h) == h = [s \in Small(n) |-> Step(h, s)]
           Done == {n \in Nat : \E h : Good(n, h)}
<1>1. \A s \in SUBSET T : IsFiniteSet(s) /\ Cardinality(s) \in Nat /\ Cardinality(s) <= Cardinality(T)
  BY FS_Subset, FS_CardinalityType
<1>2. \A s \in SUBSET T : s # {} => /\ s \ {Max(s)} \in SUBSET T
                                    /\ Cardinality(s \ {Max(s)}) + 1 = Cardinality(s)
                                    /\ Cardinality(s \ {Max(s)}) \in Nat
  BY WithoutMax
<1>3. 0 \in Done
  <2>1. Small(0) = {{}}
    BY <1>1, FS_EmptySet
  <2>2. Good(0, [s \in Small(0) |-> Untouched(M, evals)])
    BY <2>1 DEF StepOf
  <2>3. QED
    BY <2>2
<1>4. ASSUME NEW n \in Nat, NEW h, Good(n, h) PROVE \E g : Good(n + 1, g)
  <2>1. Good(n, h)
    BY <1>4
  <2> DEFINE g == [s \in Small(n + 1) |-> Step(h, s)]
  <2>2. \A s \in Small(n) : g[s] = h[s] /\ s \in Small(n + 1)
    BY <1>1, <2>1
  <2>3. \A s \in Small(n + 1) : Step(h, s) = Step(g, s)
    <3> SUFFICES ASSUME NEW s \in Small(n + 1), s # {} PROVE h[s \ {Max(s)}] = g[s \ {Max(s)}]
      BY DEF StepOf
    <3>1. s \ {Max(s)} \in Small(n)
      BY <1>1, <1>2
    <3> QED
      BY <2>2, <3>1
  <2>4. Good(n + 1, g)
    BY <2>3
  <2> WITNESS g
  <2> QED
    BY <2>4
<1>5. Done = Nat
  <2> SUFFICES ASSUME Nat \ Done # {} PROVE FALSE
    OBVIOUS
  <2>1. PICK n \in Nat \ Done : \A k \in Nat \ Done : n <= k
    BY LeastNat
  <2>2. n # 0
    BY <1>3, <2>1
  <2>3. n - 1 \in Nat /\ n - 1 \in Done /\ (n - 1) + 1 = n
    <3> HIDE DEF Done
    <3>1. n - 1 \in Nat /\ ~ (n <= n - 1) /\ (n - 1) + 1 = n
      BY <2>1, <2>2
    <3> QED
      BY <2>1, <3>1
  <2>4. PICK h : Good(n - 1, h)
    BY <2>3
  <2> HIDE DEF Good
  <2>5. \E g : Good((n - 1) + 1, g)
    BY <1>4, <2>3, <2>4
  <2> QED
    BY <2>1, <2>3, <2>5
<1>6. PICK h : Good(Cardinality(T), h)
  BY <1>5, FS_CardinalityType
<1>7. Small(Cardinality(T)) = SUBSET T
  BY <1>1
<1>8. h = [s \in SUBSET T |-> Step(h, s)]
  BY <1>6, <1>7
<1>9. Iter(S, M, evals, T) = [s \in SUBSET T |-> Step(Iter(S, M, evals, T), s)]
  BY <1>8 DEF Iter
<1> QED
  BY <1>9

\* What every turn of the fold keeps holds of what it leaves: counts of followers for
\* the evals, and no pair of a leader and a firm is given back.
LEMMA AfterFacts ==
  ASSUME NEW S, NEW M, NEW evals, NEW T \in SUBSET Mirror
  PROVE  LET acc == After(S, M, evals, T)
         IN /\ acc.load \in [evals -> Nat]
            /\ Untouched(M, evals).taken \subseteq acc.taken
<1> DEFINE h == Iter(S, M, evals, T)
           first == Untouched(M, evals)
           Kept(acc) == acc.load \in [evals -> Nat] /\ first.taken \subseteq acc.taken
           Good == {s \in SUBSET T : Kept(h[s])}
<1>0. T \in SUBSET Nat /\ IsFiniteSet(T)
  BY CopierAssumption, FS_Subset
<1>1. Kept(first)
  <2>1. \A l : IsFiniteSet({m \in Mirror : M[m].leader = l /\ M[m].phase = "eval"})
    BY CopierAssumption, FS_Subset
  <2>2. \A l : Cardinality({m \in Mirror : M[m].leader = l /\ M[m].phase = "eval"}) \in Nat
    BY <2>1, FS_CardinalityType
  <2> QED
    BY <2>2 DEF Untouched
<1>2. ASSUME NEW acc, NEW m, Kept(acc) PROVE Kept(Solved(S, M, acc, m))
  <2>1. Solved(S, M, acc, m).load \in [evals -> Nat]
    BY <1>2 DEF Solved
  <2>2. acc.taken \subseteq Solved(S, M, acc, m).taken
    BY DEF Solved
  <2> HIDE DEF first
  <2> QED
    BY <1>2, <2>1, <2>2
<1>3. \A s \in SUBSET T : h[s] = IF s = {} THEN first ELSE Solved(S, M, h[s \ {Max(s)}], Max(s))
  BY <1>0, IterExists DEF StepOf
<1> HIDE DEF first, h, Kept
<1>4. ASSUME NEW s \in SUBSET T,
             \A r \in SUBSET T : Cardinality(r) < Cardinality(s) => r \in Good
      PROVE  s \in Good
  <2>1. CASE s = {}
    BY <1>1, <1>3, <2>1
  <2>2. CASE s # {}
    <3>1. s \ {Max(s)} \in Good
      BY <1>0, <1>4, <2>2, WithoutMax
    <3> QED
      BY <1>2, <1>3, <2>2, <3>1
  <2> QED
    BY <2>1, <2>2
<1>5. SUBSET T \subseteq Good
  <2> HIDE DEF Good
  <2> QED
    BY <1>0, <1>4, SizeInduction
<1>6. Kept(h[T])
  BY <1>5
<1> QED
  BY <1>6, AfterIsIter DEF Kept, h, first

-----------------------------------------------------------------------------
(* The invariant.                                                           *)

LeaderRecord == [phase : {"eval", "funded", "passed", "blown", "gone"},
                 status : {"on", "off", "locked"}, days : Nat, nearFloor : BOOLEAN]
Views  == [Leader -> LeaderRecord]
Fleets == [Mirror -> MirrorRecord]
LoadsOf(L) == [EvalLeaders(L) -> Nat]

\* An Apex account is copied in full size, a clone has no channel, and only a funded
\* mirror waits for a payout.
Fits(m, r) == /\ Apex(m) => r.mult = 10
              /\ Apex(m) \/ r.channel = ""
              /\ r.ready => r.phase = "funded"
AllFit(M) == \A m \in Mirror : Fits(m, M[m])

\* What a request holds: fleets that fit, a copy only after the solve, and a pull that
\* was let through had no line to edit in the fleet it was solved on.
Jobs == [kind : {"apply", "pull"}, view : Views, seen : {None} \cup Fleets, copy : {None} \cup Fleets]
JobFits(j) == /\ j \in Jobs
              /\ j.seen # None => AllFit(j.seen)
              /\ j.copy # None => j.seen # None /\ AllFit(j.copy)
              /\ j.kind = "pull" /\ j.seen # None => Pending(Planned(j.view, j.seen, day)) = {}

IInv == /\ leaders \in Views /\ (job # None => JobFits(job))
        /\ TypeOK /\ AllFit(mirrors)

-----------------------------------------------------------------------------
(* What build_plan sees.                                                    *)

\* A channel is a tradable account of its signal plan.
LEMMA ChannelFacts ==
  ASSUME NEW L, NEW plan
  PROVE  LET ch == Channel(L, plan)
         IN /\ ch \in Leader \cup {None}
            /\ ch # None => Tradable(L, ch) /\ Signal[ch] = plan
<1> DEFINE on == {l \in Leader : Signal[l] = plan /\ Tradable(L, l)}
<1>1. on \in SUBSET Nat /\ IsFiniteSet(on)
  BY CopierAssumption, FS_Subset
<1>2. on # {} => Max(on) \in on
  <2> HIDE DEF on
  <2> QED
    BY <1>1, MaxMinIn
<1>3. Channel(L, plan) = IF on = {} THEN None ELSE Max(on)
  BY DEF Channel
<1> QED
  BY <1>2, <1>3

\* The leader a clone is moved to.
Best(S, load, m) ==
  CHOOSE l \in S.avail[m] : \A k \in S.avail[m] \ {l} : Better(S, load, m, l, k)

\* It is one the clone may copy, and a driver whenever one is to be had: the order of the
\* choice is strict, so it has a first.
LEMMA BestFacts ==
  ASSUME NEW L \in Views, NEW M, NEW today, NEW m \in Mirror, NEW load \in LoadsOf(L),
         Avail(L, m) # {}
  PROVE  LET S == Sight(L, M, today)
         IN /\ Best(S, load, m) \in S.avail[m]
            /\ Best(S, load, m) \in S.drivers \/ S.drivers \cap S.avail[m] = {}
<1> DEFINE S == Sight(L, M, today)
           A == Avail(L, m)
           R == {p \in A \X A : Better(S, load, m, p[1], p[2])}
<1>1. /\ S.avail[m] = A /\ \A l \in Leader : S.days[l] = L[l].days
      /\ A \subseteq EvalLeaders(L) /\ A \subseteq Leader
  BY DEF Sight, Avail, EvalLeaders
<1>2. \A l \in A : l \in Nat /\ S.days[l] \in Nat /\ load[l] \in Nat
  BY <1>1, CopierAssumption DEF Views, LeaderRecord, LoadsOf
<1>3. IsFiniteSet(A)
  BY <1>1, CopierAssumption, FS_Subset
<1> HIDE DEF S, A
<1>4. \A x, y \in A : <<x, y>> \in R <=> Better(S, load, m, x, y)
  OBVIOUS
<1> HIDE DEF R
<1>5. Strict(A, R)
  <2>1. \A x \in A : ~ Better(S, load, m, x, x)
    BY <1>2 DEF Better
  <2>2. \A x, y, z \in A : Better(S, load, m, x, y) /\ Better(S, load, m, y, z)
                             => Better(S, load, m, x, z)
    BY <1>2 DEF Better
  <2>3. \A x, y \in A : x # y => Better(S, load, m, x, y) \/ Better(S, load, m, y, x)
    BY <1>2 DEF Better
  <2> QED
    BY <1>4, <2>1, <2>2, <2>3 DEF Strict
<1>6. PICK x \in A : \A y \in A \ {x} : <<x, y>> \in R
  BY <1>3, <1>5, FirstExists DEF A
<1>7. \E w \in A : \A y \in A \ {w} : Better(S, load, m, w, y)
  BY <1>4, <1>6
<1> DEFINE b == Best(S, load, m)
<1>8. b \in A /\ \A y \in A \ {b} : Better(S, load, m, b, y)
  BY <1>1, <1>7 DEF Best
<1> HIDE DEF b
<1>9. b \in S.drivers \/ S.drivers \cap A = {}
  <2> SUFFICES ASSUME b \notin S.drivers, NEW k \in A, k \in S.drivers PROVE FALSE
    OBVIOUS
  <2>1. Better(S, load, m, b, k)
    BY <1>8
  <2> QED
    BY <2>1 DEF Better
<1> QED
  BY <1>1, <1>8, <1>9 DEF b, S

\* A scale is a stored multiplier, and never above the firm's.
LEMMA ScaleFacts ==
  ASSUME NEW m \in Mirror, NEW r \in MirrorRecord
  PROVE  EvalScale(m, r) \in Multipliers /\ EvalScale(m, r) <= Base(m)
<1>1. Base(m) = 2 * 5 \/ Base(m) = 2 * 4
  BY DEF Base
<1>2. CASE EvalScale(m, r) = Base(m)
  BY <1>1, <1>2 DEF Multipliers
<1>3. CASE EvalScale(m, r) # Base(m)
  <2>1. /\ EvalScale(m, r) = 2 * r.left /\ r.left # 0 /\ ~ (2 * r.left > Base(m))
        /\ r.left \in Nat
    BY <1>3 DEF EvalScale, MirrorRecord
  <2>2. r.left \in 1..5
    BY <1>1, <2>1
  <2> QED
    BY <1>1, <2>1, <2>2 DEF Multipliers
<1> QED
  BY <1>2, <1>3

\* A full-sized copy is a stored multiplier.
LEMMA FullSize == 10 \in Multipliers
  BY 10 = 2 * 5 /\ 5 \in 1..5 DEF Multipliers

\* The fields of a mapping.
LEMMA ToFacts ==
  \A l, channel, mult, edits :
    /\ To(l, channel, mult, edits).leader = l
    /\ To(l, channel, mult, edits).channel = channel
    /\ To(l, channel, mult, edits).mult = mult
    /\ To(l, channel, mult, edits).nuke = FALSE
    /\ To(l, channel, mult, edits).edits = edits
  BY DEF To

\* The fields of a mapping that is marked a nuke.
LEMMA NukeFacts ==
  ASSUME NEW l, NEW channel, NEW mult, NEW edits, NEW b
  PROVE  LET d == [To(l, channel, mult, edits) EXCEPT !.nuke = b]
         IN /\ d.leader = l /\ d.channel = channel /\ d.mult = mult
            /\ d.nuke = b /\ d.edits = edits
  BY DEF To

\* A plan's mapping of one mirror can be stored and fits the mirror; only a clone's
\* scale is other than full size.
Channels == {"", "eval", "nuke", "flip"}
Storable(m, d) ==
  /\ d.leader \in Leader \cup {None}
  /\ d.mult \in Multipliers
  /\ d.channel \in Channels
  /\ d.nuke \in BOOLEAN
  /\ Apex(m) => d.mult = 10
  /\ Apex(m) \/ d.channel = ""

\* A mapping is storable when its fields are.
LEMMA StorableTo ==
  ASSUME NEW m, NEW l \in Leader \cup {None}, NEW channel \in Channels, NEW mult \in Multipliers,
         NEW edits, Apex(m) => mult = 10, Apex(m) \/ channel = ""
  PROVE  Storable(m, To(l, channel, mult, edits))
<1> DEFINE d == To(l, channel, mult, edits)
<1>1. d.leader = l
  BY DEF To
<1>2. d.channel = channel
  BY DEF To
<1>3. d.mult = mult
  BY DEF To
<1>4. d.nuke = FALSE
  BY DEF To
<1> HIDE DEF d
<1>5. Storable(m, d)
  BY <1>1, <1>2, <1>3, <1>4 DEF Storable
<1> QED
  BY <1>5 DEF d

\* A waiting mirror is shown a leader that no twin of its firm copies.
LEMMA WaitingType ==
  ASSUME NEW L \in Views, NEW M \in Fleets, NEW today, NEW m \in Mirror, Fits(m, M[m]), NEW taken
  PROVE  LET d == DesireWaiting(Sight(L, M, today), M, taken, m)
         IN /\ Storable(m, d)
            /\ d.leader # None => <<d.leader, FirmOf[m]>> \notin taken
<1> DEFINE free == {l \in FreshLeaders(L) : <<l, FirmOf[m]>> \notin taken}
<1>1. free \in SUBSET Leader
  BY DEF FreshLeaders
<1>2. free \in SUBSET Nat /\ IsFiniteSet(free)
  BY <1>1, CopierAssumption, FS_Subset
<1>3. free # {} => Min(free) \in free
  <2> HIDE DEF free
  <2> QED
    BY <1>2, MaxMinIn
<1>4. DesireWaiting(Sight(L, M, today), M, taken, m)
        = IF free = {} THEN To(None, M[m].channel, M[m].mult, {})
          ELSE To(Min(free), M[m].channel, 10, {"MAP"})
  BY DEF DesireWaiting, Sight
<1>5. /\ M[m].channel \in {"", "eval", "nuke", "flip"} /\ M[m].mult \in Multipliers
      /\ 10 \in Multipliers
      /\ Apex(m) => M[m].mult = 10
      /\ Apex(m) \/ M[m].channel = ""
  BY FullSize DEF Fleets, MirrorRecord, Fits
<1> DEFINE d == DesireWaiting(Sight(L, M, today), M, taken, m)
<1>6. CASE free = {}
  <2>1. d = To(None, M[m].channel, M[m].mult, {})
    BY <1>4, <1>6
  <2> HIDE DEF d
  <2>2. d.leader = None
    BY <2>1 DEF To
  <2>3. Storable(m, d)
    BY <1>5, <2>1, StorableTo DEF Channels
  <2> QED
    BY <2>2, <2>3 DEF d
<1>7. CASE free # {}
  <2>1. Min(free) \in Leader /\ <<Min(free), FirmOf[m]>> \notin taken
    BY <1>1, <1>3, <1>7
  <2>2. d = To(Min(free), M[m].channel, 10, {"MAP"})
    BY <1>4, <1>7
  <2> HIDE DEF d, free
  <2>3. d.leader = Min(free)
    BY <2>2 DEF To
  <2>4. Storable(m, d)
    BY <1>5, <2>1, <2>2, StorableTo DEF Channels
  <2> QED
    BY <2>1, <2>3, <2>4 DEF d
<1> QED
  BY <1>6, <1>7

\* Whatever the phase, the mapping can be stored.
LEMMA DesireType ==
  ASSUME NEW L \in Views, NEW M \in Fleets, NEW today, NEW m \in Mirror, Fits(m, M[m]),
         NEW acc, acc.load \in LoadsOf(L)
  PROVE  Storable(m, Desire(Sight(L, M, today), M, acc, m))
<1> DEFINE S == Sight(L, M, today)
           d == Desire(S, M, acc, m)
           r == M[m]
<1>1. /\ r \in MirrorRecord /\ r.channel \in Channels
      /\ r.leader \in Leader \cup {None}
      /\ r.mult \in Multipliers /\ 10 \in Multipliers
      /\ Apex(m) => r.mult = 10
      /\ Apex(m) \/ r.channel = ""
      /\ None \in Leader \cup {None}
      /\ "" \in Channels /\ "eval" \in Channels /\ "nuke" \in Channels /\ "flip" \in Channels
  BY FullSize DEF Fleets, MirrorRecord, Fits, Channels
<1>2. /\ S.channel["apex-eval"] \in Leader \cup {None}
      /\ S.channel["apex-nuke"] \in Leader \cup {None}
      /\ S.channel["apex-flip"] \in Leader \cup {None}
      /\ S.avail[m] = Avail(L, m) /\ S.avail[m] \subseteq Leader /\ S.funded \subseteq Leader
  BY ChannelFacts DEF Sight, Avail, EvalLeaders
<1>3. CASE r.phase = "passed" \/ r.ready
  <2>1. d = To(None, r.channel, r.mult, Line("UNMAP", r.leader # None))
    BY <1>3 DEF Desire, Parked
  <2> HIDE DEF d
  <2>2. Storable(m, d)
    BY <1>1, <2>1, StorableTo
  <2> QED
    BY <2>2 DEF d
<1>4. CASE ~ (r.phase = "passed" \/ r.ready) /\ r.phase = "waiting"
  <2>1. d = DesireWaiting(S, M, acc.taken, m)
    BY <1>4 DEF Desire
  <2> QED
    BY <2>1, WaitingType
<1>5. CASE ~ (r.phase = "passed" \/ r.ready) /\ r.phase # "waiting" /\ Apex(m)
  <2>1. CASE r.phase = "eval"
    <3>1. d = DesireApexEval(S, M, m)
      BY <1>5, <2>1 DEF Desire
    <3>2. \E l \in Leader \cup {None} : \E e : d = To(l, "eval", r.mult, e)
      <4> HIDE DEF S
      <4> QED
        BY <1>1, <1>2, <3>1 DEF DesireApexEval
    <3> HIDE DEF d
    <3>3. Storable(m, d)
      BY <1>1, <1>5, <3>2, StorableTo
    <3> QED
      BY <3>3 DEF d
  <2>2. CASE r.phase # "eval"
    <3>1. d = DesireApexFunded(S, M, m)
      BY <1>5, <2>2 DEF Desire
    <3>2. \/ \E l \in Leader \cup {None}, c \in Channels : \E e : d = To(l, c, 10, e)
          \/ \E l \in Leader \cup {None} : \E e : d = [To(l, "nuke", 10, e) EXCEPT !.nuke = l # None]
      <4> HIDE DEF S
      <4> QED
        BY <1>1, <1>2, <3>1 DEF DesireApexFunded
    <3> HIDE DEF d
    <3>3. ASSUME NEW l \in Leader \cup {None}, NEW e, d = [To(l, "nuke", 10, e) EXCEPT !.nuke = l # None]
          PROVE  Storable(m, d)
      <4>1. d.leader = l /\ d.channel = "nuke" /\ d.mult = 10 /\ d.nuke = (l # None)
        BY <3>3, NukeFacts
      <4> QED
        BY <1>1, <1>5, <4>1 DEF Storable
    <3>4. ASSUME NEW l \in Leader \cup {None}, NEW c \in Channels, NEW e, d = To(l, c, 10, e)
          PROVE  Storable(m, d)
      BY <1>1, <1>5, <3>4, StorableTo
    <3>5. Storable(m, d)
      BY <3>2, <3>3, <3>4
    <3> QED
      BY <3>5 DEF d
  <2> QED
    BY <2>1, <2>2
<1>6. CASE ~ (r.phase = "passed" \/ r.ready) /\ r.phase # "waiting" /\ ~ Apex(m)
  <2>0. \E l \in Leader \cup {None}, mult \in Multipliers : \E e : d = To(l, "", mult, e)
    <3>1. CASE r.phase = "eval"
      <4>1. d = DesireCloneEval(S, M, acc.load, m)
        BY <1>6, <3>1 DEF Desire
      <4>2. EvalScale(m, r) \in Multipliers
        BY <1>1, ScaleFacts
      <4>3. S.avail[m] # {} => Best(S, acc.load, m) \in Leader
        BY <1>2, BestFacts
      <4> HIDE DEF S, d
      <4> QED
        BY <1>1, <4>1, <4>2, <4>3 DEF DesireCloneEval, Best, Keeps
    <3>2. CASE r.phase # "eval"
      <4>1. d = DesireCloneFunded(S, M, m)
        BY <1>6, <3>2 DEF Desire
      <4> HIDE DEF S, d
      <4> QED
        BY <1>1, <4>1 DEF DesireCloneFunded
    <3> QED
      BY <3>1, <3>2
  <2> HIDE DEF d
  <2>1. Storable(m, d)
    BY <1>1, <1>6, <2>0, StorableTo
  <2> QED
    BY <2>1 DEF d
<1> QED
  BY <1>3, <1>4, <1>5, <1>6

\* A plan has a line for every active mirror, made from what the mirrors before it left.
LEMMA PlanFacts ==
  ASSUME NEW L \in Views, NEW M \in Fleets, NEW today
  PROVE  LET P == Planned(L, M, today)
         IN /\ DOMAIN P = Active(M)
            /\ \A m \in Active(M) : \E acc :
                 /\ acc.load \in LoadsOf(L)
                 /\ Untouched(M, EvalLeaders(L)).taken \subseteq acc.taken
                 /\ P[m] = Desire(Sight(L, M, today), M, acc, m)
<1> DEFINE S == Sight(L, M, today)
           E == EvalLeaders(L)
           Before(m) == {k \in Active(M) : k < m}
<1>1. Planned(L, M, today) = [m \in Active(M) |-> Desire(S, M, After(S, M, E, Before(m)), m)]
  BY DEF Planned, Plans
<1>2. \A m \in Active(M) : Before(m) \in SUBSET Mirror
  BY DEF Active
<1>3. \A m \in Active(M) : /\ After(S, M, E, Before(m)).load \in [E -> Nat]
                           /\ Untouched(M, E).taken \subseteq After(S, M, E, Before(m)).taken
  BY <1>2, AfterFacts
<1> HIDE DEF S, E, Before
<1> QED
  BY <1>1, <1>3 DEF LoadsOf, S, E
-----------------------------------------------------------------------------
(* The invariant is inductive.                                              *)

\* A mirror as it is registered.
LEMMA FreshFits ==
  ASSUME NEW m \in Mirror, NEW ph \in {"eval", "waiting", "funded", "passed", "blown", "retired"}
  PROVE  /\ Fresh(m, ph) \in MirrorRecord /\ Fits(m, Fresh(m, ph))
         /\ Fresh(m, ph).leader = None /\ Fresh(m, ph).channel = ""
<1> DEFINE mult == IF ph = "eval" THEN Base(m) ELSE 10
           r == Fresh(m, ph)
<1>1. mult \in Multipliers /\ (Apex(m) => mult = 10)
  <2>1. Base(m) = 2 * 5 \/ Base(m) = 2 * 4
    BY DEF Base
  <2>2. Base(m) \in Multipliers
    BY <2>1 DEF Multipliers
  <2> QED
    BY <2>2, FullSize DEF Base, Lockstep, Apex
<1>2. mult \in Multipliers /\ 0 \in 0..MaxDay
  BY <1>1, CopierAssumption
<1>3. r = [leader |-> None, mult |-> mult, channel |-> "", phase |-> ph,
           enabled |-> TRUE, ready |-> FALSE, days |-> 0, left |-> 0, won |-> FALSE,
           nukeDate |-> 0]
  BY DEF Fresh
<1> HIDE DEF mult, r
<1>4. r \in MirrorRecord
  BY <1>2, <1>3 DEF MirrorRecord
<1>5. r.leader = None /\ r.channel = "" /\ r.mult = mult
  BY <1>3
<1>6. r.ready = FALSE
  BY <1>3
<1>7. Fits(m, r)
  BY <1>1, <1>5, <1>6 DEF Fits
<1> QED
  BY <1>4, <1>5, <1>7 DEF r

\* The first fleet: nothing is copied yet.
LEMMA InitInv == Init => IInv
<1> SUFFICES ASSUME Init PROVE IInv
  OBVIOUS
<1>1. PICK f \in Fleet : mirrors = [m \in Mirror |-> Fresh(m, f[m])]
  BY DEF Init
<1>2. ASSUME NEW m \in Mirror
      PROVE  /\ mirrors[m] \in MirrorRecord /\ Fits(m, mirrors[m])
             /\ mirrors[m].leader = None /\ mirrors[m].channel = ""
  <2>1. f[m] \in {"eval", "waiting", "funded", "passed", "blown", "retired"}
    BY CopierAssumption
  <2>2. mirrors[m] = Fresh(m, f[m])
    BY <1>1
  <2> QED
    BY <2>1, <2>2, FreshFits
<1>3. leaders \in Views
  BY DEF Init, Views, LeaderRecord
<1>4. TypeOK
  <2>1. mirrors \in [Mirror -> MirrorRecord]
    BY <1>1, <1>2
  <2>2. wired = <<>> /\ day = 1 /\ MaxDay \in Nat \ {0}
    BY CopierAssumption DEF Init
  <2>3. DOMAIN wired \subseteq Mirror /\ day \in 1..MaxDay
    BY <2>2
  <2> QED
    BY <1>2, <2>1, <2>3 DEF TypeOK
<1>5. AllFit(mirrors)
  BY <1>2 DEF AllFit
<1> QED
  BY <1>3, <1>4, <1>5 DEF IInv, Init

\* Every funded clone that copies has copied the same leader before; then two that share
\* one have shared it before.
Follows(x) == ~Apex(x) /\ mirrors[x].phase = "funded" /\ mirrors[x].leader # None
StillFollows(x) == Follows(x)' => Follows(x) /\ mirrors'[x].leader = mirrors[x].leader
LEMMA TwinsKept ==
  ASSUME NEW m \in Mirror, NEW n \in Mirror, StillFollows(m), StillFollows(n), Twins(m, n)'
  PROVE  Twins(m, n)
<1>1. Follows(m)' /\ Follows(n)' /\ m # n /\ FirmOf[m] = FirmOf[n] /\ mirrors'[m].leader = mirrors'[n].leader
  BY DEF Twins, Follows, Apex
<1>2. /\ Follows(m) /\ mirrors'[m].leader = mirrors[m].leader
      /\ Follows(n) /\ mirrors'[n].leader = mirrors[n].leader
  BY <1>1 DEF StillFollows
<1> QED
  BY <1>1, <1>2 DEF Twins, Follows

\* A step of the fleet changes one mirror, to a record that fits.
LEMMA OneMirror ==
  ASSUME IInv, NEW m \in Mirror, NEW r \in MirrorRecord, Fits(m, r),
         mirrors' = [mirrors EXCEPT ![m] = r],
         UNCHANGED <<leaders, job, wired, day>>
  PROVE  /\ IInv'
         /\ mirrors'[m] = r /\ \A x \in Mirror \ {m} : mirrors'[x] = mirrors[x]
<1>1. mirrors \in Fleets /\ TypeOK /\ AllFit(mirrors)
  BY DEF IInv, TypeOK, Fleets
<1>2. mirrors' \in Fleets /\ \A x \in Mirror : mirrors'[x] = IF x = m THEN r ELSE mirrors[x]
  BY <1>1 DEF Fleets
<1>3. AllFit(mirrors')
  BY <1>1, <1>2 DEF AllFit
<1>4. TypeOK'
  <2>1. \A x \in Mirror : Apex(x) \/ mirrors'[x].channel = ""
    BY <1>3 DEF AllFit, Fits
  <2> QED
    BY <1>1, <1>2, <2>1 DEF TypeOK, Fleets
<1>5. job' # None => JobFits(job)'
  BY DEF IInv, JobFits
<1> QED
  BY <1>2, <1>3, <1>4, <1>5 DEF IInv

\* Then a mirror that keeps its leader is no new follower.
LEMMA OneFollows ==
  ASSUME IInv, NEW m \in Mirror, NEW r, mirrors' = [mirrors EXCEPT ![m] = r],
         r.phase = "funded" => mirrors[m].phase = "funded" /\ r.leader = mirrors[m].leader
  PROVE  \A x \in Mirror : StillFollows(x)
<1>1. mirrors \in Fleets
  BY DEF IInv, TypeOK, Fleets
<1>2. \A x \in Mirror : mirrors'[x] = IF x = m THEN r ELSE mirrors[x]
  BY <1>1 DEF Fleets
<1> QED
  BY <1>2 DEF StillFollows, Follows

\* A step of the leaders or of a request leaves the mirrors alone.
LEMMA NoMirror ==
  ASSUME IInv, UNCHANGED mirrors, leaders' \in Views, job' # None => JobFits(job'),
         UNCHANGED day \/ job' = None,
         (DOMAIN wired)' \subseteq Mirror, day' \in 1..MaxDay
  PROVE  IInv'
<1>1. job' # None => JobFits(job)'
  BY DEF JobFits
<1> QED
  BY <1>1 DEF IInv, TypeOK, AllFit

\* A login that fails takes its leaders out of sight.
LEMMA DarkType == ASSUME NEW L \in Views, NEW o PROVE Dark(L, o) \in Views
  BY DEF Dark, Views, LeaderRecord

\* Applying a plan: every active mirror gets its mapping, and no clone that was not
\* copying a leader starts to without the operator.
LEMMA ApplyFacts ==
  ASSUME NEW L \in Views, NEW M \in Fleets, AllFit(M), NEW today
  PROVE  LET P == Planned(L, M, today)
         IN /\ DOMAIN P = Active(M) /\ Active(M) \subseteq Mirror
            /\ \A m \in Active(M) :
                 /\ Storable(m, P[m])
                 /\ ~Apex(m) /\ M[m].phase = "funded" => P[m].leader \in {None, M[m].leader}
                 /\ M[m].phase = "waiting" /\ P[m].leader # None
                      => \A x \in Mirror : M[x].phase = "funded" /\ FirmOf[x] = FirmOf[m]
                                             => M[x].leader # P[m].leader
<1> DEFINE P == Planned(L, M, today)
           S == Sight(L, M, today)
<1>1. DOMAIN P = Active(M) /\ Active(M) \subseteq Mirror
  <2>1. DOMAIN P = Active(M)
    BY PlanFacts
  <2> QED
    BY <2>1 DEF Active
<1>2. ASSUME NEW m \in Active(M)
      PROVE  /\ Storable(m, P[m])
             /\ ~Apex(m) /\ M[m].phase = "funded" => P[m].leader \in {None, M[m].leader}
             /\ M[m].phase = "waiting" /\ P[m].leader # None
                  => \A x \in Mirror : M[x].phase = "funded" /\ FirmOf[x] = FirmOf[m]
                                         => M[x].leader # P[m].leader
  <2>1. PICK acc : /\ acc.load \in LoadsOf(L)
                   /\ Untouched(M, EvalLeaders(L)).taken \subseteq acc.taken
                   /\ P[m] = Desire(S, M, acc, m)
    BY PlanFacts
  <2>2. m \in Mirror /\ Fits(m, M[m])
    BY <1>1 DEF AllFit
  <2>3. Storable(m, P[m])
    BY <2>1, <2>2, DesireType
  <2>4. ASSUME ~Apex(m), M[m].phase = "funded" PROVE P[m].leader \in {None, M[m].leader}
    <3>1. \/ P[m] = Parked(M[m])
          \/ P[m] = DesireCloneFunded(S, M, m)
      BY <2>1, <2>4 DEF Desire
    <3> HIDE DEF P, S
    <3>2. \E l \in {None, M[m].leader} : \E mult, e : P[m] = To(l, M[m].channel, mult, e)
                                               \/ P[m] = To(l, "", mult, e)
      BY <3>1 DEF Parked, DesireCloneFunded
    <3>3. ASSUME NEW l \in {None, M[m].leader}, NEW c, NEW mult, NEW e, P[m] = To(l, c, mult, e)
          PROVE  P[m].leader \in {None, M[m].leader}
      BY <3>3 DEF To
    <3> QED
      BY <3>2, <3>3
  <2>5. ASSUME M[m].phase = "waiting", P[m].leader # None,
               NEW x \in Mirror, M[x].phase = "funded", FirmOf[x] = FirmOf[m]
        PROVE  M[x].leader # P[m].leader
    <3>1. ~M[m].ready
      BY <2>2, <2>5 DEF Fits
    <3>2. P[m] = DesireWaiting(S, M, acc.taken, m)
      BY <2>1, <2>5, <3>1 DEF Desire
    <3>3. <<P[m].leader, FirmOf[m]>> \notin acc.taken
      BY <2>2, <2>5, <3>2, WaitingType
    <3>4. <<M[x].leader, FirmOf[m]>> \in acc.taken
      <4>1. <<M[x].leader, FirmOf[x]>> \in Untouched(M, EvalLeaders(L)).taken
        BY <2>5 DEF Untouched
      <4> QED
        BY <2>1, <2>5, <4>1
    <3> QED
      BY <3>3, <3>4
  <2> QED
    BY <2>3, <2>4, <2>5
<1> QED
  BY <1>1, <1>2

\* What a mirror keeps when a plan is applied, and what it takes from its mapping.
SameBut(r, s) == /\ s.phase = r.phase /\ s.enabled = r.enabled /\ s.ready = r.ready
                 /\ s.days = r.days /\ s.left = r.left /\ s.won = r.won
Takes(r, s, d, today) ==
  /\ s.leader = d.leader /\ s.channel = d.channel /\ s.mult = d.mult
  /\ s.nukeDate = IF d.nuke THEN today ELSE r.nukeDate

\* One record after its mapping.
LEMMA TakesFacts ==
  ASSUME NEW m \in Mirror, NEW r \in MirrorRecord, Fits(m, r), NEW d, Storable(m, d),
         NEW today \in 0..MaxDay,
         NEW s, s = [r EXCEPT !.leader = d.leader, !.channel = d.channel, !.mult = d.mult,
                              !.nukeDate = IF d.nuke THEN today ELSE @]
  PROVE  s \in MirrorRecord /\ Fits(m, s) /\ SameBut(r, s) /\ Takes(r, s, d, today)
<1> DEFINE date == IF d.nuke THEN today ELSE r.nukeDate
<1>1. s = [r EXCEPT !.leader = d.leader, !.channel = d.channel, !.mult = d.mult, !.nukeDate = date]
  BY DEF MirrorRecord
<1>2. date \in 0..MaxDay
  BY DEF MirrorRecord
<1> HIDE DEF date
<1>3. s \in MirrorRecord
  BY <1>1, <1>2 DEF MirrorRecord, Storable, Channels
<1>4. s.leader = d.leader /\ s.channel = d.channel /\ s.mult = d.mult
  BY <1>1 DEF MirrorRecord
<1>5. s.nukeDate = date
  BY <1>1 DEF MirrorRecord
<1>6. SameBut(r, s)
  BY <1>1 DEF MirrorRecord, SameBut
<1>7. Fits(m, s)
  BY <1>4, <1>6 DEF Fits, Storable, SameBut
<1> QED
  BY <1>3, <1>4, <1>5, <1>6, <1>7 DEF Takes, date

\* Applying a plan leaves a fleet that fits.
LEMMA AppliedFacts ==
  ASSUME NEW L \in Views, NEW M \in Fleets, AllFit(M), NEW today \in 0..MaxDay
  PROVE  LET P == Planned(L, M, today)
             N == Applied(M, P, today)
         IN /\ N \in Fleets /\ AllFit(N)
            /\ \A m \in Active(M) : SameBut(M[m], N[m]) /\ Takes(M[m], N[m], P[m], today)
            /\ \A m \in Mirror \ Active(M) : N[m] = M[m]
<1> DEFINE P == Planned(L, M, today)
           N == Applied(M, P, today)
<1>1. DOMAIN P = Active(M) /\ \A m \in Active(M) : m \in Mirror /\ Storable(m, P[m])
  BY ApplyFacts
<1> HIDE DEF P
<1>2. \A m \in Mirror \ Active(M) : N[m] = M[m]
  BY <1>1 DEF Applied
<1>3. ASSUME NEW m \in Active(M)
      PROVE  /\ N[m] \in MirrorRecord /\ Fits(m, N[m])
             /\ SameBut(M[m], N[m]) /\ Takes(M[m], N[m], P[m], today)
  <2>1. N[m] = [M[m] EXCEPT !.leader = P[m].leader, !.channel = P[m].channel, !.mult = P[m].mult,
                            !.nukeDate = IF P[m].nuke THEN today ELSE @]
    BY <1>1 DEF Applied
  <2>2. m \in Mirror /\ M[m] \in MirrorRecord /\ Fits(m, M[m]) /\ Storable(m, P[m])
    BY <1>1 DEF Fleets, AllFit
  <2> QED
    BY <2>1, <2>2, TakesFacts
<1>4. \A m \in Mirror : N[m] \in MirrorRecord /\ Fits(m, N[m])
  BY <1>2, <1>3 DEF Fleets, AllFit
<1>5. N = [m \in Mirror |-> N[m]]
  BY DEF Applied
<1> HIDE DEF N
<1>6. N \in Fleets /\ AllFit(N)
  BY <1>4, <1>5 DEF Fleets, AllFit
<1> QED
  BY <1>2, <1>3, <1>6 DEF P, N

\* Saves: over whatever the file holds by then, records that fit; a mirror nobody wrote
\* since the solve takes no other leader.
LEMMA SavesInv ==
  ASSUME IInv, Saves
  PROVE  /\ IInv'
         /\ \A m \in Mirror : job.seen[m] = job.copy[m] /\ job.copy[m] = mirrors[m] => StillFollows(m)
<1> DEFINE L == job.view
           M == job.seen
           C == job.copy
           P == Planned(L, M, day)
           N == Applied(C, P, day)
<1>1. /\ job # None /\ C # None /\ job' = None /\ UNCHANGED <<leaders, wired, day>>
      /\ mirrors' = [m \in Mirror |-> IF m \in DOMAIN P THEN N[m] ELSE mirrors[m]]
  BY DEF Saves
<1>2. /\ L \in Views /\ M \in Fleets /\ AllFit(M) /\ C \in Fleets /\ AllFit(C)
      /\ mirrors \in Fleets /\ AllFit(mirrors) /\ leaders \in Views /\ TypeOK
  <2>1. JobFits(job) /\ TypeOK /\ AllFit(mirrors) /\ leaders \in Views
    BY <1>1 DEF IInv
  <2>2. job \in Jobs /\ M # None /\ AllFit(M) /\ AllFit(C)
    BY <1>1, <2>1 DEF JobFits
  <2>3. L \in Views /\ M \in Fleets /\ C \in Fleets
    BY <1>1, <2>2 DEF Jobs
  <2> QED
    BY <2>1, <2>2, <2>3 DEF TypeOK, Fleets
<1>3. day \in 0..MaxDay
  <2>1. day \in 1..MaxDay /\ MaxDay \in Nat
    BY <1>2, CopierAssumption DEF TypeOK
  <2> QED
    BY <2>1
<1>4. /\ DOMAIN P = Active(M) /\ Active(M) \subseteq Mirror
      /\ \A m \in Active(M) : Storable(m, P[m])
      /\ \A m \in Active(M) : ~Apex(m) /\ M[m].phase = "funded" => P[m].leader \in {None, M[m].leader}
  BY <1>2, ApplyFacts
<1> HIDE DEF P, M, C
<1>5. ASSUME NEW m \in Active(M)
      PROVE  /\ N[m] \in MirrorRecord /\ Fits(m, N[m])
             /\ SameBut(C[m], N[m]) /\ Takes(C[m], N[m], P[m], day)
  <2>1. N[m] = [C[m] EXCEPT !.leader = P[m].leader, !.channel = P[m].channel, !.mult = P[m].mult,
                            !.nukeDate = IF P[m].nuke THEN day ELSE @]
    BY <1>4 DEF Applied
  <2>2. m \in Mirror /\ C[m] \in MirrorRecord /\ Fits(m, C[m]) /\ Storable(m, P[m])
    BY <1>2, <1>4 DEF Fleets, AllFit
  <2> QED
    BY <1>3, <2>1, <2>2, TakesFacts
<1> HIDE DEF N
<1>6. \A m \in Mirror : mirrors'[m] = IF m \in Active(M) THEN N[m] ELSE mirrors[m]
  BY <1>1, <1>4
<1>7. mirrors' \in Fleets /\ AllFit(mirrors')
  <2>1. \A m \in Mirror : mirrors'[m] \in MirrorRecord /\ Fits(m, mirrors'[m])
    BY <1>2, <1>5, <1>6 DEF Fleets, AllFit
  <2>2. mirrors' = [m \in Mirror |-> mirrors'[m]]
    BY <1>1
  <2> QED
    BY <2>1, <2>2 DEF Fleets, AllFit
<1>8. TypeOK'
  BY <1>1, <1>2, <1>7 DEF AllFit, TypeOK, Fleets, Fits
<1>9. ASSUME NEW m \in Mirror, M[m] = C[m], C[m] = mirrors[m] PROVE StillFollows(m)
  <2>1. CASE m \in Active(M)
    <3>1. ASSUME Follows(m)' PROVE Follows(m) /\ mirrors'[m].leader = mirrors[m].leader
      <4>1. /\ mirrors'[m].phase = mirrors[m].phase /\ mirrors'[m].leader = P[m].leader
        BY <1>5, <1>6, <1>9, <2>1 DEF SameBut, Takes
      <4>2. ~Apex(m) /\ mirrors'[m].phase = "funded" /\ mirrors'[m].leader # None
        BY <3>1 DEF Follows
      <4>3. P[m].leader \in {None, M[m].leader}
        BY <1>4, <1>9, <2>1, <4>1, <4>2
      <4> QED
        BY <1>9, <4>1, <4>2, <4>3 DEF Follows
    <3> QED
      BY <3>1 DEF StillFollows
  <2>2. CASE m \notin Active(M)
    BY <1>6, <2>2 DEF StillFollows, Follows
  <2> QED
    BY <2>1, <2>2
<1> QED
  BY <1>1, <1>2, <1>7, <1>8, <1>9 DEF IInv, M, C

\* A day of a mirror: it was funded before if it is now, and copies the same leader.
LEMMA MirrorDayInv == ASSUME IInv, NEW m \in Mirror, MirrorDay(m)
                      PROVE  IInv' /\ \A x \in Mirror : StillFollows(x)
<1>1. mirrors \in Fleets /\ mirrors[m] \in MirrorRecord /\ Fits(m, mirrors[m])
  BY DEF IInv, TypeOK, Fleets, AllFit
<1>2. UNCHANGED <<leaders, job, wired, day>>
  BY DEF MirrorDay
<1>3. PICK won \in BOOLEAN, left \in {1, 10}, ph \in {mirrors[m].phase, "passed", "blown"},
           ready \in BOOLEAN :
         /\ ph = "passed" => mirrors[m].phase = "eval" /\ won
         /\ ph = "blown" => ~won
         /\ ready => won /\ ph = "funded"
         /\ left # 10 => ph = "eval" /\ won
         /\ mirrors' = [mirrors EXCEPT ![m].won = won, ![m].left = left, ![m].phase = ph,
                          ![m].ready = ready, ![m].days = @ + 1]
  BY DEF MirrorDay
<1> DEFINE s == mirrors[m]
           r == [s EXCEPT !.won = won, !.left = left, !.phase = ph, !.ready = ready, !.days = @ + 1]
<1>4. mirrors' = [mirrors EXCEPT ![m] = r]
  BY <1>1, <1>3 DEF Fleets
<1>5. r \in MirrorRecord
  <2> DEFINE n == s.days + 1
  <2>0. s \in MirrorRecord
    BY <1>1
  <2>1. s \in MirrorRecord /\ ph \in {s.phase, "passed", "blown"} /\ left \in Nat
    BY <1>1
  <2> HIDE DEF s
  <2>2. n \in Nat
    <3>1. s.days \in Nat
      BY <2>0 DEF MirrorRecord
    <3> QED
      BY <3>1
  <2>3. r = [s EXCEPT !.won = won, !.left = left, !.phase = ph, !.ready = ready, !.days = n]
    BY <2>1 DEF MirrorRecord
  <2> HIDE DEF n, r
  <2> QED
    BY <2>1, <2>2, <2>3 DEF MirrorRecord
<1>6. /\ r.leader = s.leader /\ r.mult = s.mult /\ r.channel = s.channel
      /\ r.phase = ph /\ r.ready = ready
  <2>1. s \in MirrorRecord
    BY <1>1
  <2> HIDE DEF s
  <2> QED
    BY <2>1 DEF MirrorRecord
<1> HIDE DEF r
<1>7. Fits(m, r)
  BY <1>1, <1>3, <1>6 DEF Fits
<1>8. r.phase = "funded" => s.phase = "funded"
  BY <1>3, <1>6
<1> QED
  BY <1>2, <1>4, <1>5, <1>6, <1>7, <1>8, OneMirror, OneFollows

\* Activate: on a leader the operator names, or waiting for one.
LEMMA ActivateInv == ASSUME IInv, NEW m \in Mirror, Activate(m)
                     PROVE  IInv' /\ \A x \in Mirror \ {m} : mirrors'[x] = mirrors[x]
<1>1. mirrors \in Fleets /\ mirrors[m] \in MirrorRecord /\ Fits(m, mirrors[m])
  BY DEF IInv, TypeOK, Fleets, AllFit
<1> DEFINE s == mirrors[m]
           t(l) == [s EXCEPT !.days = 0, !.left = 0, !.mult = 10, !.ready = FALSE, !.leader = l,
                             !.phase = IF l = None THEN "waiting" ELSE "funded"]
<1>2. /\ UNCHANGED <<leaders, job, wired, day>>
      /\ \E l \in Leader \cup {None} : mirrors' = [mirrors EXCEPT ![m] = NewCycle(t(l), m)]
  BY DEF Activate
<1>3. PICK l \in Leader \cup {None} : mirrors' = [mirrors EXCEPT ![m] = NewCycle(t(l), m)]
  BY <1>2
<1> DEFINE r == NewCycle(t(l), m)
<1>4. /\ t(l) \in MirrorRecord /\ t(l).mult = 10 /\ t(l).ready = FALSE /\ t(l).leader = l
      /\ t(l).channel = s.channel
  <2>1. s \in MirrorRecord /\ 10 \in Multipliers
    BY <1>1, FullSize
  <2> HIDE DEF s
  <2> QED
    BY <2>1 DEF MirrorRecord
<1> HIDE DEF t
<1>5. /\ r \in MirrorRecord /\ r.mult = 10 /\ r.ready = FALSE /\ r.leader = l
      /\ r.channel = IF Apex(m) THEN "nuke" ELSE s.channel
  BY <1>4 DEF NewCycle, MirrorRecord
<1> HIDE DEF r
<1>6. Fits(m, r)
  BY <1>1, <1>5 DEF Fits
<1>7. mirrors' = [mirrors EXCEPT ![m] = r]
  BY <1>3 DEF r
<1> QED
  BY <1>2, <1>5, <1>6, <1>7, OneMirror

\* Paid: the next cycle on the same leader, or the end.
LEMMA PaidInv == ASSUME IInv, NEW m \in Mirror, Paid(m)
                 PROVE  IInv' /\ \A x \in Mirror : StillFollows(x)
<1>1. mirrors \in Fleets /\ mirrors[m] \in MirrorRecord /\ Fits(m, mirrors[m])
  BY DEF IInv, TypeOK, Fleets, AllFit
<1> DEFINE s == mirrors[m]
           t(ph) == [s EXCEPT !.ready = FALSE, !.phase = ph]
<1>2. /\ UNCHANGED <<leaders, job, wired, day>> /\ s.ready
      /\ \E ph \in {"funded", "retired"} : mirrors' = [mirrors EXCEPT ![m] = NewCycle(t(ph), m)]
  BY DEF Paid
<1>3. PICK ph \in {"funded", "retired"} : mirrors' = [mirrors EXCEPT ![m] = NewCycle(t(ph), m)]
  BY <1>2
<1> DEFINE r == NewCycle(t(ph), m)
<1>4. /\ t(ph) \in MirrorRecord /\ t(ph).mult = s.mult /\ t(ph).ready = FALSE
      /\ t(ph).leader = s.leader /\ t(ph).channel = s.channel
  <2>1. s \in MirrorRecord
    BY <1>1
  <2> HIDE DEF s
  <2> QED
    BY <2>1 DEF MirrorRecord
<1> HIDE DEF t
<1>5. /\ r \in MirrorRecord /\ r.mult = s.mult /\ r.ready = FALSE /\ r.leader = s.leader
      /\ r.channel = IF Apex(m) THEN "nuke" ELSE s.channel
  BY <1>4 DEF NewCycle, MirrorRecord
<1> HIDE DEF r
<1>6. Fits(m, r)
  BY <1>1, <1>5 DEF Fits
<1>7. mirrors' = [mirrors EXCEPT ![m] = r] /\ s.phase = "funded"
  BY <1>1, <1>2, <1>3 DEF r, Fits
<1> QED
  BY <1>2, <1>5, <1>6, <1>7, OneMirror, OneFollows

\* Switch: enabled or not, the rest stays.
LEMMA SwitchInv == ASSUME IInv, NEW m \in Mirror, Switch(m)
                   PROVE  IInv' /\ \A x \in Mirror : StillFollows(x)
<1>1. mirrors \in Fleets /\ mirrors[m] \in MirrorRecord /\ Fits(m, mirrors[m])
  BY DEF IInv, TypeOK, Fleets, AllFit
<1> DEFINE s == mirrors[m]
           r == [s EXCEPT !.enabled = ~@]
<1>2. /\ UNCHANGED <<leaders, job, wired, day>> /\ mirrors' = [mirrors EXCEPT ![m] = r]
  BY <1>1 DEF Switch, Fleets
<1>3. /\ r \in MirrorRecord /\ r.mult = s.mult /\ r.ready = s.ready /\ r.leader = s.leader
      /\ r.channel = s.channel /\ r.phase = s.phase
  <2>1. s \in MirrorRecord
    BY <1>1
  <2> HIDE DEF s
  <2> QED
    BY <2>1 DEF MirrorRecord
<1> HIDE DEF r
<1>4. Fits(m, r)
  BY <1>1, <1>3 DEF Fits
<1> QED
  BY <1>2, <1>3, <1>4, OneMirror, OneFollows

\* Pair: any leader; the one the page shows is one that no funded twin of the firm copies.
LEMMA PairInv ==
  ASSUME IInv, NEW m \in Mirror, Pair(m)
  PROVE  /\ IInv'
         /\ \A x \in Mirror \ {m} : mirrors'[x] = mirrors[x]
         /\ mirrors'[m].leader = Shown(m) => \A x \in Mirror \ {m} : ~Twins(m, x)' /\ ~Twins(x, m)'
<1> DEFINE P == Planned(leaders, mirrors, day)
           s == mirrors[m]
           r(l) == [s EXCEPT !.phase = "funded", !.leader = l]
<1>1. /\ mirrors \in Fleets /\ s \in MirrorRecord /\ Fits(m, s) /\ leaders \in Views
      /\ AllFit(mirrors) /\ TypeOK
  BY DEF IInv, TypeOK, Fleets, AllFit
<1>2. PICK l \in Leader : mirrors' = [mirrors EXCEPT ![m].phase = "funded", ![m].leader = l]
  BY DEF Pair
<1>3. /\ UNCHANGED <<leaders, job, wired, day>> /\ s.phase = "waiting"
      /\ mirrors' = [mirrors EXCEPT ![m] = r(l)]
  BY <1>1, <1>2 DEF Fleets, Pair
<1>4. /\ r(l) \in MirrorRecord /\ r(l).mult = s.mult /\ r(l).ready = s.ready /\ r(l).leader = l
      /\ r(l).channel = s.channel /\ r(l).phase = "funded"
  <2>1. s \in MirrorRecord
    BY <1>1
  <2> HIDE DEF s
  <2> QED
    BY <2>1 DEF MirrorRecord
<1> HIDE DEF r
<1>5. Fits(m, r(l))
  BY <1>1, <1>4 DEF Fits
<1>6. /\ IInv'
      /\ mirrors'[m] = r(l) /\ \A x \in Mirror \ {m} : mirrors'[x] = mirrors[x]
  BY <1>3, <1>4, <1>5, OneMirror
<1>7. ASSUME l = Shown(m), NEW x \in Mirror \ {m} PROVE ~Twins(m, x)' /\ ~Twins(x, m)'
  <2>1. SUFFICES ASSUME mirrors[x].phase = "funded", FirmOf[m] = FirmOf[x], mirrors[x].leader = l
                 PROVE  FALSE
    BY <1>4, <1>6 DEF Twins
  <2>2. l # None /\ m \in Active(mirrors) /\ l = P[m].leader
    BY <1>7, CopierAssumption DEF Shown
  <2>3. \A y \in Mirror : mirrors[y].phase = "funded" /\ FirmOf[y] = FirmOf[m]
                             => mirrors[y].leader # P[m].leader
    BY <1>1, <1>3, <2>2, ApplyFacts
  <2> QED
    BY <2>1, <2>2, <2>3
<1> QED
  BY <1>4, <1>6, <1>7

\* A day of a leader and the operator's switch.
LEMMA LeaderInv == ASSUME IInv, NEW l \in Leader, LeaderDay(l) \/ Toggle(l) PROVE IInv'
<1>1. leaders \in Views /\ leaders[l] \in LeaderRecord /\ UNCHANGED <<mirrors, job, wired, day>>
  BY DEF IInv, Views, LeaderDay, Toggle
<1>2. leaders' \in Views
  <2>1. CASE LeaderDay(l)
    <3>1. PICK ph \in {leaders[l].phase, "blown", "passed"}, near \in BOOLEAN :
            leaders' = [leaders EXCEPT ![l].phase = ph, ![l].days = @ + 1, ![l].nearFloor = near]
      BY <2>1 DEF LeaderDay, Line
    <3> DEFINE s == leaders[l]
               n == s.days + 1
               r == [s EXCEPT !.phase = ph, !.days = n, !.nearFloor = near]
    <3>2. leaders' = [leaders EXCEPT ![l] = r]
      BY <1>1, <3>1 DEF Views, LeaderRecord
    <3>3. s \in LeaderRecord /\ ph \in {s.phase, "blown", "passed"}
      BY <1>1
    <3> HIDE DEF s
    <3>4. n \in Nat
      BY <3>3 DEF LeaderRecord
    <3> HIDE DEF n
    <3>5. r \in LeaderRecord
      BY <3>3, <3>4 DEF LeaderRecord
    <3> HIDE DEF r
    <3> QED
      BY <1>1, <3>2, <3>5 DEF Views
  <2>2. CASE Toggle(l)
    <3>1. PICK to \in {"on", "off", "locked"} : leaders' = [leaders EXCEPT ![l].status = to]
      BY <2>2 DEF Toggle, Line
    <3> QED
      BY <1>1, <3>1 DEF Views, LeaderRecord
  <2> QED
    BY <2>1, <2>2
<1>3. job' # None => JobFits(job')
  BY <1>1 DEF IInv
<1> QED
  BY <1>1, <1>2, <1>3, NoMirror DEF IInv, TypeOK

\* Every step keeps the invariant.
LEMMA NextInv == IInv /\ [Next]_vars => IInv'
<1> SUFFICES ASSUME IInv, [Next]_vars PROVE IInv'
  OBVIOUS
<1>0. /\ leaders \in Views /\ (job # None => JobFits(job))
      /\ DOMAIN wired \subseteq Mirror /\ day \in 1..MaxDay /\ MaxDay \in Nat
      /\ mirrors \in Fleets /\ AllFit(mirrors)
  BY CopierAssumption DEF IInv, TypeOK, Fleets
<1>1. ASSUME NEW kind \in {"apply", "pull"}, NEW view \in Views PROVE JobFits(Reading(kind, view))
  <2> DEFINE j == Reading(kind, view)
  <2>1. j \in Jobs /\ j.seen = None /\ j.copy = None
    BY DEF Reading, Jobs
  <2> HIDE DEF j
  <2>2. JobFits(j)
    BY <2>1 DEF JobFits
  <2> QED
    BY <2>2 DEF j
<1>2. ASSUME NEW kind \in {"apply", "pull"}, Asks(kind) \/ AsksInOutage(kind) PROVE IInv'
  <2>1. UNCHANGED <<leaders, mirrors, wired, day>>
    BY <1>2 DEF Asks, AsksInOutage
  <2>2. \/ job' = Reading(kind, leaders)
        \/ \E o : job' = Reading(kind, Dark(leaders, o))
    BY <1>2 DEF Asks, AsksInOutage
  <2>3. JobFits(job')
    BY <1>0, <1>1, <2>2, DarkType
  <2> QED
    BY <1>0, <2>1, <2>3, NoMirror
<1>3. CASE Solves
  <2>1. UNCHANGED <<leaders, mirrors, wired, day>> /\ job # None /\ JobFits(job) /\ job.seen = None
    BY <1>0, <1>3 DEF Solves
  <2>2. CASE job.kind = "pull" /\ Pending(Planned(job.view, mirrors, day)) # {}
    <3>1. job' = None
      BY <1>3, <2>2 DEF Solves
    <3> QED
      BY <1>0, <2>1, <3>1, NoMirror
  <2>3. CASE ~(job.kind = "pull" /\ Pending(Planned(job.view, mirrors, day)) # {})
    <3>1. job' = [job EXCEPT !.seen = mirrors]
      BY <1>3, <2>3 DEF Solves
    <3>2. job \in Jobs /\ (job.copy # None => AllFit(job.copy))
      BY <2>1 DEF JobFits
    <3>3. /\ job' \in Jobs /\ job'.seen = mirrors /\ job'.view = job.view
          /\ job'.kind = job.kind /\ job'.copy = job.copy
      BY <1>0, <3>1, <3>2 DEF Jobs
    <3>4. job.copy = None
      BY <2>1 DEF JobFits
    <3>5. job'.kind = "pull" => Pending(Planned(job'.view, job'.seen, day)) = {}
      BY <2>3, <3>3
    <3>6. AllFit(job'.seen)
      BY <1>0, <3>3
    <3>7. JobFits(job')
      BY <3>3, <3>4, <3>5, <3>6 DEF JobFits
    <3> QED
      BY <1>0, <2>1, <3>7, NoMirror
  <2> QED
    BY <2>2, <2>3
<1>4. CASE Loads
  <2>1. /\ UNCHANGED <<leaders, mirrors, wired, day>> /\ JobFits(job) /\ job.seen # None
        /\ job.kind = "apply" /\ job' = [job EXCEPT !.copy = mirrors]
    BY <1>0, <1>4 DEF Loads
  <2>2. job \in Jobs /\ AllFit(job.seen)
    BY <2>1 DEF JobFits
  <2>3. /\ job' \in Jobs /\ job'.seen = job.seen /\ job'.view = job.view
        /\ job'.kind = "apply" /\ job'.copy = mirrors
    BY <1>0, <2>1, <2>2 DEF Jobs
  <2>4. AllFit(job'.copy) /\ AllFit(job'.seen) /\ job'.seen # None
    BY <1>0, <2>1, <2>2, <2>3
  <2>5. JobFits(job')
    BY <2>3, <2>4 DEF JobFits
  <2> QED
    BY <1>0, <2>1, <2>5, NoMirror
<1>5. CASE Saves
  BY <1>5, SavesInv
<1>6. CASE Export
  <2>1. UNCHANGED <<leaders, mirrors, day>> /\ job' = None
    BY <1>6 DEF Export
  <2>2. DOMAIN wired' \subseteq Mirror
    BY <1>0, <1>6 DEF Export, Groups, Exported, Active
  <2> QED
    BY <1>0, <2>1, <2>2, NoMirror
<1>7. CASE NextDay
  <2>1. UNCHANGED <<leaders, mirrors, job, wired>> /\ day' = day + 1 /\ day < MaxDay /\ job = None
    BY <1>7 DEF NextDay
  <2>2. day' \in 1..MaxDay
    BY <1>0, <2>1
  <2> QED
    BY <1>0, <2>1, <2>2, NoMirror
<1>8. CASE UNCHANGED vars
  BY <1>0, <1>8, NoMirror DEF vars
<1> QED
  BY <1>2, <1>3, <1>4, <1>5, <1>6, <1>7, <1>8, LeaderInv, MirrorDayInv, ActivateInv, PairInv,
     PaidInv, SwitchInv DEF Next

\* The invariant holds in every state.
THEOREM PlanInvariant == Spec => []IInv
  BY InitInv, NextInv, PTL DEF Spec

\* The records are well formed in every state.
THEOREM PlanTypes == Spec => []TypeOK
<1>1. IInv => TypeOK
  BY DEF IInv
<1> QED
  BY <1>1, PlanInvariant, PTL

\* Two funded clones of one firm come to share a leader only by hand or by a plan saved
\* over a mirror written since it was solved, for every fleet, every set of leaders and
\* every channel (copier_plan.py:202): a plan moves no funded clone to another leader, and
\* shows a waiting one only a leader that no funded twin has.
LEMMA TwinsStep ==
  ASSUME IInv, [Next]_vars, NEW m \in Mirror, NEW n \in Mirror, Twins(m, n)'
  PROVE  Twins(m, n) \/ \E x \in {m, n} : ByHand(x) \/ Overtaken(x)
<1>1. CASE UNCHANGED mirrors
  BY <1>1 DEF Twins
<1>2. CASE \E k \in Mirror : MirrorDay(k) \/ Paid(k) \/ Switch(k)
  <2>1. StillFollows(m) /\ StillFollows(n)
    BY <1>2, MirrorDayInv, PaidInv, SwitchInv
  <2> QED
    BY <2>1, TwinsKept
<1>3. ASSUME NEW k \in Mirror, Activate(k) \/ Pair(k)
      PROVE  Twins(m, n) \/ \E x \in {m, n} : ByHand(x)
  <2>1. \A x \in Mirror \ {k} : mirrors'[x] = mirrors[x]
    BY <1>3, ActivateInv, PairInv
  <2>2. CASE k \notin {m, n}
    BY <2>1, <2>2 DEF Twins
  <2>3. CASE k \in {m, n}
    <3>1. m # n
      BY DEF Twins
    <3>2. CASE Activate(k)
      BY <2>3, <3>2 DEF ByHand
    <3>3. CASE Pair(k)
      <4>1. mirrors'[k].leader # Shown(k)
        BY <2>3, <3>1, <3>3, PairInv
      <4> QED
        BY <2>3, <3>3, <4>1 DEF ByHand
    <3> QED
      BY <1>3, <3>2, <3>3
  <2> QED
    BY <2>2, <2>3
<1>4. CASE Saves
  <2>1. SUFFICES ASSUME \A x \in {m, n} : ~Overtaken(x) PROVE Twins(m, n)
    OBVIOUS
  <2>2. \A x \in {m, n} : job.seen[x] = job.copy[x] /\ job.copy[x] = mirrors[x]
    BY <1>4, <2>1 DEF Overtaken
  <2>3. StillFollows(m) /\ StillFollows(n)
    BY <1>4, <2>2, SavesInv
  <2> QED
    BY <2>3, TwinsKept
<1>5. CASE \/ \E kind \in {"apply", "pull"} : Asks(kind) \/ AsksInOutage(kind)
           \/ Solves \/ Loads \/ Export \/ NextDay
           \/ \E l \in Leader : LeaderDay(l) \/ Toggle(l)
           \/ UNCHANGED vars
  <2>1. UNCHANGED mirrors
    BY <1>5 DEF Asks, AsksInOutage, Solves, Loads, Export, NextDay, LeaderDay, Toggle, vars
  <2> QED
    BY <1>1, <2>1
<1> QED
  BY <1>2, <1>3, <1>4, <1>5 DEF Next

\* Twins part only by hand or under an overtaken plan.
THEOREM TwinsNeverShare == Spec => TwinsApart
<1>1. IInv /\ [Next]_vars =>
        [\A m, n \in Mirror : Twins(m, n)' =>
           Twins(m, n) \/ \E x \in {m, n} : ByHand(x) \/ Overtaken(x)]_vars
  BY TwinsStep
<1> QED
  BY <1>1, PlanInvariant, PTL DEF Spec, TwinsApart
-----------------------------------------------------------------------------
(* The buy list.                                                            *)

LoginLines(L, logins) == {[firm |-> "topstep", login |-> o, count |-> LoginNeed(L, o)] : o \in logins}
FirmLines(M) == {[firm |-> f, login |-> None, count |-> FirmNeed(M, f)] :
                   f \in {"lucid", "tradeify", "apex"}}
Logins(L) == IF Owners(L) = {} THEN {None} ELSE Owners(L)

\* The list is what the logins lack and what the follower firms lack.
LEMMA BuyListIs ==
  ASSUME NEW L, NEW M
  PROVE  BuyList(L, M) = {b \in LoginLines(L, Logins(L)) \cup FirmLines(M) : b.count > 0}
  BY DEF BuyList, LoginLines, FirmLines, Logins

\* What a login lacks depends on its own accounts.
LEMMA SameNeed ==
  ASSUME NEW K, NEW L, NEW o,
         \A l \in Leader : OwnerOf[l] = o => (PipelineEval(K, l) <=> PipelineEval(L, l))
  PROVE  LoginNeed(K, o) = LoginNeed(L, o)
<1>1. {l \in Leader : OwnerOf[l] = o /\ PipelineEval(K, l)}
        = {l \in Leader : OwnerOf[l] = o /\ PipelineEval(L, l)}
  OBVIOUS
<1> QED
  BY <1>1 DEF LoginNeed

\* A login that fails adds nothing to the list while another is seen.
LEMMA DarkBuysNothing ==
  ASSUME NEW L \in Views, NEW M, NEW o, Owners(Dark(L, o)) # {}
  PROVE  BuyList(Dark(L, o), M) \subseteq BuyList(L, M)
<1> DEFINE D == Dark(L, o)
<1>1. \A l \in Leader : OwnerOf[l] # o => D[l] = L[l]
  BY DEF Dark
<1>2. \A l \in Leader : OwnerOf[l] = o => D[l].phase = "gone"
  BY DEF Dark, Views, LeaderRecord
<1> HIDE DEF D
<1>3. Owners(D) \subseteq Owners(L) /\ o \notin Owners(D)
  BY <1>1, <1>2 DEF Owners
<1>4. ASSUME NEW p \in Owners(D) PROVE LoginNeed(D, p) = LoginNeed(L, p)
  <2>1. \A l \in Leader : OwnerOf[l] = p => (PipelineEval(D, l) <=> PipelineEval(L, l))
    BY <1>1, <1>3 DEF PipelineEval
  <2> QED
    BY <2>1, SameNeed
<1>5. Owners(D) # {} /\ Owners(L) # {}
  BY <1>3 DEF D
<1>6. LoginLines(D, Logins(D)) \subseteq LoginLines(L, Logins(L))
  BY <1>3, <1>4, <1>5 DEF LoginLines, Logins
<1>7. BuyList(D, M) \subseteq BuyList(L, M)
  BY <1>6, BuyListIs
<1> QED
  BY <1>7 DEF D

\* An account that is locked for the day keeps its slot.
LEMMA LockedKeepsSlot ==
  ASSUME NEW L \in Views, NEW M
  PROVE  BuyList([l \in Leader |-> IF L[l].status = "off" THEN L[l]
                                   ELSE [L[l] EXCEPT !.status = "locked"]], M) = BuyList(L, M)
<1> DEFINE K == [l \in Leader |-> IF L[l].status = "off" THEN L[l]
                                  ELSE [L[l] EXCEPT !.status = "locked"]]
<1>1. \A l \in Leader : K[l].phase = L[l].phase
  BY DEF Views, LeaderRecord
<1>2. \A l \in Leader : K[l].status # "off" <=> L[l].status # "off"
  BY DEF Views, LeaderRecord
<1> HIDE DEF K
<1>3. Owners(K) = Owners(L)
  BY <1>1 DEF Owners
<1>4. \A o : LoginNeed(K, o) = LoginNeed(L, o)
  <2> TAKE o
  <2>1. \A l \in Leader : PipelineEval(K, l) <=> PipelineEval(L, l)
    BY <1>1, <1>2 DEF PipelineEval
  <2> QED
    BY <2>1, SameNeed
<1>5. LoginLines(K, Logins(K)) = LoginLines(L, Logins(L))
  BY <1>3, <1>4 DEF LoginLines, Logins
<1>6. BuyList(K, M) = BuyList(L, M)
  BY <1>5, BuyListIs
<1> QED
  BY <1>6 DEF K

\* Nothing is bought for accounts that are only out of sight, whatever the logins, their
\* accounts and the pipeline (copier_plan.py:112-117): neither for a login that failed,
\* while another is seen, nor for accounts the broker has locked for the day.
THEOREM NothingBoughtForTheLiving == Spec => []BuysOnlyForTheDead
<1>1. IInv => BuysOnlyForTheDead
  <2> SUFFICES ASSUME leaders \in Views PROVE BuysOnlyForTheDead
    BY DEF IInv
  <2> QED
    BY DarkBuysNothing, LockedKeepsSlot DEF BuysOnlyForTheDead
<1> QED
  BY <1>1, PlanInvariant, PTL
-----------------------------------------------------------------------------
(* What the box pulls.                                                      *)

\* A firm's evals by days, and the Apex accounts by their last nuke, as pairs.
DaysOrder(r, A)     == {p \in A \X A : MoreDays(r, p[1], p[2])}
NukeOrder(M, today) == {p \in NukeMode(M) \X NukeMode(M) : NukeBefore(M, today, p[1], p[2])}
IntakeOf(f)         == IF f = "apex" THEN ApexIntake ELSE CloneIntake

\* The firm's share of the intake is the first of its evals.
LEMMA IntakeFacts ==
  ASSUME NEW M \in Fleets, NEW f \in {"lucid", "tradeify", "apex"}
  PROVE  LET F == {m \in Intake(M) : FirmOf[m] = f}
         IN F \subseteq Evals(M, f) /\ IsFiniteSet(F) /\ Cardinality(F) <= IntakeOf(f)
<1> DEFINE A(g) == Evals(M, g)
           First(g) == Firsts(A(g), IntakeOf(g), LAMBDA x, y : MoreDays(M, x, y))
           R == DaysOrder(M, A(f))
<1>1. {m \in Intake(M) : FirmOf[m] = f} = First(f)
  <2>1. Intake(M) = UNION {First(g) : g \in {"lucid", "tradeify", "apex"}}
    BY DEF Intake, IntakeOf
  <2>2. \A g : \A x \in First(g) : FirmOf[x] = g
    BY DEF Firsts, Evals
  <2> HIDE DEF First
  <2> QED
    BY <2>1, <2>2
<1>2. First(f) = Foremost(A(f), R, IntakeOf(f))
  <2> DEFINE B == A(f)
  <2>1. \A x, y \in B : <<y, x>> \in R <=> MoreDays(M, y, x)
    BY DEF DaysOrder
  <2>2. First(f) = {x \in B : Cardinality({y \in B : MoreDays(M, y, x)}) < IntakeOf(f)}
    BY DEF Firsts
  <2>3. Foremost(B, R, IntakeOf(f)) = {x \in B : Cardinality({y \in B : <<y, x>> \in R}) < IntakeOf(f)}
    BY DEF Foremost, Ahead
  <2> HIDE DEF B, R, First
  <2>4. \A x \in B : {y \in B : MoreDays(M, y, x)} = {y \in B : <<y, x>> \in R}
    BY <2>1
  <2>5. First(f) = Foremost(B, R, IntakeOf(f))
    BY <2>2, <2>3, <2>4
  <2> QED
    BY <2>5 DEF B
<1>3. A(f) \subseteq Mirror /\ IsFiniteSet(A(f))
  <2>1. A(f) \subseteq Mirror
    BY DEF Evals
  <2> QED
    BY <2>1, CopierAssumption, FS_Subset
<1>4. Strict(A(f), R)
  <2> DEFINE B == A(f)
  <2>1. \A x \in B : x \in Nat /\ M[x].days \in Nat
    BY <1>3, CopierAssumption DEF Fleets, MirrorRecord
  <2>2. \A x, y \in B : <<x, y>> \in R <=> MoreDays(M, x, y)
    BY DEF DaysOrder
  <2> HIDE DEF B, R
  <2>3. Strict(B, R)
    BY <2>1, <2>2 DEF Strict, MoreDays
  <2> QED
    BY <2>3 DEF B
<1>5. IntakeOf(f) \in Nat
  BY CopierAssumption DEF IntakeOf
<1> HIDE DEF A, R, First
<1>6. /\ First(f) \subseteq A(f) /\ IsFiniteSet(First(f)) /\ Cardinality(First(f)) <= IntakeOf(f)
  BY <1>2, <1>3, <1>4, <1>5, ForemostFacts
<1> QED
  BY <1>1, <1>6 DEF A

\* The day's nukes are the first of the Apex accounts whose turn it is.
LEMMA NukeTodayIs ==
  ASSUME NEW M \in Fleets, NEW today
  PROVE  /\ NukeToday(M, today) = Foremost(NukeMode(M), NukeOrder(M, today), NukeSlots)
         /\ NukeMode(M) \subseteq Mirror /\ IsFiniteSet(NukeMode(M))
         /\ Strict(NukeMode(M), NukeOrder(M, today))
         /\ \A x, y \in NukeMode(M) : <<x, y>> \in NukeOrder(M, today) <=> NukeBefore(M, today, x, y)
<1> DEFINE A == NukeMode(M)
           R == NukeOrder(M, today)
<1>1. A \subseteq Mirror
  BY DEF NukeMode
<1>2. IsFiniteSet(A)
  BY <1>1, CopierAssumption, FS_Subset
<1>3. \A x, y \in A : <<x, y>> \in R <=> NukeBefore(M, today, x, y)
  BY DEF NukeOrder
<1>4. NukeToday(M, today) = {x \in A : Cardinality({y \in A : NukeBefore(M, today, y, x)}) < NukeSlots}
  BY DEF NukeToday, Firsts
<1>5. \A x \in A : x \in Nat /\ M[x].nukeDate \in Nat
  <2>1. \A x \in A : M[x].nukeDate \in 0..MaxDay
    BY <1>1 DEF Fleets, MirrorRecord
  <2>2. Mirror \subseteq Nat /\ MaxDay \in Nat
    BY CopierAssumption
  <2>3. 0..MaxDay \subseteq Nat
    BY <2>2
  <2> HIDE DEF A
  <2> QED
    BY <1>1, <2>1, <2>2, <2>3
<1> HIDE DEF A, R
<1>6. \A x \in A : {y \in A : NukeBefore(M, today, y, x)} = Ahead(A, R, x)
  BY <1>3 DEF Ahead
<1>7. NukeToday(M, today) = Foremost(A, R, NukeSlots)
  BY <1>4, <1>6 DEF Foremost
<1>8. Strict(A, R)
  <2>1. \A x \in A : ~NukeBefore(M, today, x, x)
    BY <1>5 DEF NukeBefore
  <2>2. \A x, y, z \in A : NukeBefore(M, today, x, y) /\ NukeBefore(M, today, y, z)
                             => NukeBefore(M, today, x, z)
    BY <1>5 DEF NukeBefore
  <2>3. \A x, y \in A : x # y => NukeBefore(M, today, x, y) \/ NukeBefore(M, today, y, x)
    BY <1>5 DEF NukeBefore
  <2> QED
    BY <1>3, <2>1, <2>2, <2>3 DEF Strict
<1> QED
  BY <1>1, <1>2, <1>3, <1>7, <1>8 DEF A, R
\* A mapping without a line to edit, of a mirror that has a leader: what it says of the
\* mirror, by its kind and phase.
NoEdit(L, M, today, m) ==
  LET r == M[m]
  IN /\ ~r.ready
     /\ r.phase = "eval" => m \in Intake(M)
     /\ Apex(m) /\ r.phase = "eval" => r.leader = Channel(L, "apex-eval")
     /\ Apex(m) /\ r.phase = "funded" =>
          \/ Channel(L, "apex-nuke") = None \/ Channel(L, "apex-flip") = None
          \/ r.leader = Channel(L, "apex-nuke") /\ m \in NukeToday(M, today)
          \/ r.leader = Channel(L, "apex-flip")
     /\ ~Apex(m) /\ r.phase = "eval" =>
          /\ r.leader \in Avail(L, m) /\ r.mult = EvalScale(m, r)
          /\ r.leader \in Drivers(L) \/ Drivers(L) \cap Avail(L, m) = {}
     /\ ~Apex(m) /\ r.phase = "funded" => LiveFunded(L, r.leader) /\ r.mult = 10

\* Every line that is not said is a fact of the mirror.
LEMMA NoEditFacts ==
  ASSUME NEW L \in Views, NEW M \in Fleets, NEW today, NEW m \in Mirror, NEW acc,
         M[m].leader # None, M[m].phase \in {"eval", "funded"},
         Desire(Sight(L, M, today), M, acc, m).edits = {}
  PROVE  NoEdit(L, M, today, m)
<1> DEFINE S == Sight(L, M, today)
           r == M[m]
           d == Desire(S, M, acc, m)
<1>0. /\ r.leader # None /\ r.phase \in {"eval", "funded"} /\ d.edits = {}
      /\ r.ready \in BOOLEAN
  BY DEF Fleets, MirrorRecord
<1>1. /\ S.channel["apex-eval"] = Channel(L, "apex-eval")
      /\ S.channel["apex-nuke"] = Channel(L, "apex-nuke")
      /\ S.channel["apex-flip"] = Channel(L, "apex-flip")
      /\ S.avail[m] = Avail(L, m) /\ S.drivers = Drivers(L)
      /\ S.funded = {l \in Leader : LiveFunded(L, l)}
      /\ S.intake = Intake(M) /\ S.nukes = NukeToday(M, today)
  BY DEF Sight
<1>2. /\ r.ready => d = Parked(r)
      /\ ~r.ready /\ Apex(m) /\ r.phase = "eval" => d = DesireApexEval(S, M, m)
      /\ ~r.ready /\ Apex(m) /\ r.phase = "funded" => d = DesireApexFunded(S, M, m)
      /\ ~r.ready /\ ~Apex(m) /\ r.phase = "eval" => d = DesireCloneEval(S, M, acc.load, m)
      /\ ~r.ready /\ ~Apex(m) /\ r.phase = "funded" => d = DesireCloneFunded(S, M, m)
  BY <1>0 DEF Desire
<1> HIDE DEF S, d
<1>3. ~r.ready
  <2> SUFFICES ASSUME r.ready PROVE FALSE
    OBVIOUS
  <2>1. d = To(None, r.channel, r.mult, Line("UNMAP", TRUE))
    BY <1>0, <1>2 DEF Parked
  <2>2. d.edits = {"UNMAP"}
    BY <2>1, ToFacts DEF Line
  <2> QED
    BY <1>0, <2>2
<1>4. ASSUME Apex(m), r.phase = "eval"
      PROVE  m \in Intake(M) /\ r.leader = Channel(L, "apex-eval")
  <2>1. d = DesireApexEval(S, M, m)
    BY <1>2, <1>3, <1>4
  <2>2. CASE m \in S.intake /\ S.channel["apex-eval"] # None
    <3>1. d = To(S.channel["apex-eval"], "eval", r.mult, Line("MAP", r.leader # S.channel["apex-eval"]))
      BY <2>1, <2>2 DEF DesireApexEval
    <3>2. Line("MAP", r.leader # S.channel["apex-eval"]) = {}
      BY <1>0, <3>1, ToFacts
    <3> QED
      BY <1>1, <2>2, <3>2 DEF Line
  <2>3. CASE ~(m \in S.intake /\ S.channel["apex-eval"] # None)
    <3>1. d = To(None, "eval", r.mult, Line("UNMAP", r.leader # None))
      BY <2>1, <2>3 DEF DesireApexEval
    <3>2. Line("UNMAP", r.leader # None) = {}
      BY <1>0, <3>1, ToFacts
    <3> QED
      BY <1>0, <3>2 DEF Line
  <2> QED
    BY <2>2, <2>3
<1>5. ASSUME Apex(m), r.phase = "funded"
      PROVE  \/ Channel(L, "apex-nuke") = None \/ Channel(L, "apex-flip") = None
             \/ r.leader = Channel(L, "apex-nuke") /\ m \in NukeToday(M, today)
             \/ r.leader = Channel(L, "apex-flip")
  <2> DEFINE ch == S.channel[IF m \in S.nukes THEN "apex-nuke" ELSE "apex-flip"]
             edits == Line("SET_CHANNEL", Landed(r)) \cup Line("MAP", ch # None /\ r.leader # ch)
  <2>1. d = DesireApexFunded(S, M, m)
    BY <1>2, <1>3, <1>5
  <2>2. CASE m \in S.nukes
    <3>1. d = [To(ch, "nuke", 10, edits) EXCEPT !.nuke = ch # None]
      BY <2>1, <2>2 DEF DesireApexFunded
    <3> HIDE DEF ch, edits
    <3>2. edits = {}
      BY <1>0, <3>1, NukeFacts
    <3>3. ch = None \/ r.leader = ch
      BY <3>2 DEF edits, Line
    <3> QED
      BY <1>1, <2>2, <3>3 DEF ch
  <2>3. CASE m \notin S.nukes /\ (Landed(r) \/ r.channel = "flip")
    <3>1. d = To(ch, "flip", 10, edits)
      BY <2>1, <2>3 DEF DesireApexFunded
    <3> HIDE DEF ch, edits
    <3>2. edits = {}
      BY <1>0, <3>1, ToFacts
    <3>3. ch = None \/ r.leader = ch
      BY <3>2 DEF edits, Line
    <3> QED
      BY <1>1, <2>3, <3>3 DEF ch
  <2>4. CASE m \notin S.nukes /\ ~(Landed(r) \/ r.channel = "flip")
    <3>1. d = To(None, "nuke", 10, Line("UNMAP", r.leader # None))
      BY <2>1, <2>4 DEF DesireApexFunded
    <3>2. Line("UNMAP", r.leader # None) = {}
      BY <1>0, <3>1, ToFacts
    <3> QED
      BY <1>0, <3>2 DEF Line
  <2> QED
    BY <2>2, <2>3, <2>4
<1>6. ASSUME ~Apex(m), r.phase = "eval"
      PROVE  /\ m \in Intake(M) /\ r.leader \in Avail(L, m) /\ r.mult = EvalScale(m, r)
             /\ r.leader \in Drivers(L) \/ Drivers(L) \cap Avail(L, m) = {}
  <2> DEFINE mult == EvalScale(m, r)
             set == Line("SET_MULT", r.mult # mult)
  <2>1. d = DesireCloneEval(S, M, acc.load, m)
    BY <1>2, <1>3, <1>6
  <2>2. CASE m \in S.intake /\ Keeps(S, m, r.leader)
    <3>1. d = To(r.leader, "", mult, set)
      BY <2>1, <2>2 DEF DesireCloneEval
    <3> HIDE DEF mult, set
    <3>2. set = {}
      BY <1>0, <3>1 DEF To
    <3>3. r.mult = mult
      BY <3>2 DEF set, Line
    <3> QED
      BY <1>1, <2>2, <3>3 DEF Keeps, mult
  <2>3. CASE ~(m \in S.intake /\ Keeps(S, m, r.leader))
    <3>1. \E l, a, e : d = To(l, "", mult, e) /\ a \in e
      <4>1. CASE m \notin S.intake
        <5>1. d = To(None, "", mult, Line("UNMAP", r.leader # None))
          BY <2>1, <4>1 DEF DesireCloneEval
        <5>2. "UNMAP" \in Line("UNMAP", r.leader # None)
          BY <1>0 DEF Line
        <5> HIDE DEF mult
        <5> QED
          BY <5>1, <5>2
      <4>2. CASE m \in S.intake /\ ~Keeps(S, m, r.leader) /\ S.avail[m] = {}
        <5>1. d = To(None, "", mult, set \cup Line("UNMAP", r.leader # None))
          BY <2>1, <4>2 DEF DesireCloneEval
        <5>2. "UNMAP" \in set \cup Line("UNMAP", r.leader # None)
          BY <1>0 DEF Line
        <5> HIDE DEF mult, set
        <5> QED
          BY <5>1, <5>2
      <4>3. CASE m \in S.intake /\ ~Keeps(S, m, r.leader) /\ S.avail[m] # {}
        <5>1. d = To(Best(S, acc.load, m), "", mult, set \cup {"MOVE"})
          BY <1>0, <2>1, <4>3 DEF DesireCloneEval, Best
        <5>2. "MOVE" \in set \cup {"MOVE"}
          OBVIOUS
        <5> HIDE DEF mult, set
        <5> QED
          BY <5>1, <5>2
      <4> QED
        BY <2>3, <4>1, <4>2, <4>3
    <3> HIDE DEF mult
    <3>2. PICK l, a, e : d = To(l, "", mult, e) /\ a \in e
      BY <3>1
    <3>3. d.edits = e
      BY <3>2 DEF To
    <3> QED
      BY <1>0, <3>2, <3>3
  <2> QED
    BY <2>2, <2>3
<1>7. ASSUME ~Apex(m), r.phase = "funded"
      PROVE  LiveFunded(L, r.leader) /\ r.mult = 10
  <2> DEFINE live == r.leader \in S.funded
             set == Line("SET_MULT", r.mult # 10)
             drop == Line("UNMAP", r.leader # None /\ ~live)
             to == IF live THEN r.leader ELSE None
  <2>1. d = To(to, "", 10, set \cup drop)
    BY <1>2, <1>3, <1>7 DEF DesireCloneFunded
  <2> HIDE DEF live, set, drop, to
  <2>2. set \cup drop = {}
    BY <1>0, <2>1 DEF To
  <2>3. set = {} /\ drop = {}
    BY <2>2
  <2>4. r.mult = 10
    BY <2>3 DEF set, Line
  <2>5. live
    BY <1>0, <2>3 DEF drop, Line
  <2> QED
    BY <1>1, <2>4, <2>5 DEF live
<1> QED
  BY <1>3, <1>4, <1>5, <1>6, <1>7 DEF NoEdit
\* A leader that is exported is tradable, as a channel or as a leader of its own, unless
\* the channel is down; and only a nuke's leader is of the nuke channel.
LEMMA LeaderFacts ==
  ASSUME NEW L \in Views, NEW M \in Fleets, NEW today, NEW m \in Mirror,
         M[m].leader # None, M[m].phase \in {"eval", "funded"}, NoEdit(L, M, today, m)
  PROVE  LET down == /\ Apex(m) /\ M[m].phase = "funded"
                     /\ \E c \in {"apex-nuke", "apex-flip"} : Channel(L, c) = None
         IN /\ Tradable(L, M[m].leader) \/ down
            /\ Signal[M[m].leader] = "apex-nuke" /\ ~down => m \in NukeToday(M, today)
<1> DEFINE r == M[m]
           down == /\ Apex(m) /\ M[m].phase = "funded"
                   /\ \E c \in {"apex-nuke", "apex-flip"} : Channel(L, c) = None
<1>1. CASE Apex(m) /\ r.phase = "eval"
  <2>1. r.leader = Channel(L, "apex-eval")
    BY <1>1 DEF NoEdit
  <2>2. Tradable(L, r.leader) /\ Signal[r.leader] = "apex-eval"
    BY <2>1, ChannelFacts
  <2> QED
    BY <2>2
<1>2. CASE Apex(m) /\ r.phase = "funded"
  <2>1. ASSUME ~down
        PROVE  /\ Tradable(L, r.leader)
               /\ Signal[r.leader] = "apex-nuke" => m \in NukeToday(M, today)
    <3>1. \/ r.leader = Channel(L, "apex-nuke") /\ m \in NukeToday(M, today)
          \/ r.leader = Channel(L, "apex-flip")
      BY <1>2, <2>1 DEF NoEdit
    <3>2. CASE r.leader = Channel(L, "apex-nuke") /\ m \in NukeToday(M, today)
      BY <3>2, ChannelFacts
    <3>3. CASE r.leader = Channel(L, "apex-flip")
      <4>1. Tradable(L, r.leader) /\ Signal[r.leader] = "apex-flip"
        BY <3>3, ChannelFacts
      <4> QED
        BY <4>1
    <3> QED
      BY <3>1, <3>2, <3>3
  <2> QED
    BY <2>1
<1>3. CASE ~Apex(m)
  <2>1. LiveEval(L, r.leader) \/ LiveFunded(L, r.leader)
    BY <1>3 DEF NoEdit, Avail, EvalLeaders
  <2>2. Tradable(L, r.leader) /\ Signal[r.leader] = ""
    BY <2>1 DEF LiveEval, LiveFunded
  <2> QED
    BY <2>2
<1> QED
  BY <1>1, <1>2, <1>3

\* A pull that goes through obeys the fleet's rules, as far as the mirrors it was checked
\* on are those it exports.
LEMMA PullLawful ==
  ASSUME IInv, Export, Active(mirrors) # {}
  PROVE  Lawful(job, wired')
<1> DEFINE L == job.view
           M == job.seen
           P == Planned(L, M, day)
           W == wired'
<1>0. job # None /\ JobFits(job) /\ M # None /\ job.kind = "pull" /\ TypeOK
  BY DEF IInv, Export
<1>1. L \in Views /\ M \in Fleets /\ AllFit(M) /\ Pending(P) = {} /\ mirrors \in Fleets
  BY <1>0 DEF JobFits, Jobs, TypeOK, Fleets
<1>2. W = Groups(mirrors)
  BY DEF Export
<1>3. /\ DOMAIN W = Exported(mirrors) /\ Exported(mirrors) \subseteq Mirror
      /\ \A m \in DOMAIN W : W[m].leader = mirrors[m].leader /\ W[m].mult = mirrors[m].mult
  <2>1. DOMAIN W = Exported(mirrors) /\ Exported(mirrors) \subseteq Mirror
    BY <1>2 DEF Groups, Exported, Active
  <2>2. \A m \in Exported(mirrors) : W[m] = [leader |-> mirrors[m].leader, mult |-> mirrors[m].mult]
    BY <1>2 DEF Groups
  <2> QED
    BY <2>1, <2>2
<1>4. ASSUME NEW m \in DOMAIN W, M[m] = mirrors[m]
      PROVE  /\ m \in Mirror /\ M[m].leader # None /\ M[m].phase \in {"eval", "funded"}
             /\ NoEdit(L, M, day, m)
  <2>1. m \in Mirror /\ M[m].leader # None /\ M[m].phase \in {"eval", "funded"} /\ m \in Active(M)
    BY <1>3, <1>4 DEF Exported, Active
  <2>2. PICK acc : /\ acc.load \in LoadsOf(L)
                   /\ Untouched(M, EvalLeaders(L)).taken \subseteq acc.taken
                   /\ P[m] = Desire(Sight(L, M, day), M, acc, m)
    BY <1>1, <2>1, PlanFacts
  <2>3. P[m].edits = {}
    <3>1. m \in DOMAIN P
      BY <1>1, <2>1, PlanFacts
    <3> QED
      BY <1>1, <3>1 DEF Pending
  <2>4. NoEdit(L, M, day, m)
    BY <1>1, <2>1, <2>2, <2>3, NoEditFacts
  <2> QED
    BY <2>1, <2>4
<1> HIDE DEF L, W, P, M
<1>5. ASSUME NEW m \in DOMAIN W, M[m] = mirrors[m] PROVE LawfulFollower(L, m, W[m])
  <2> DEFINE r == mirrors[m]
  <2>1. /\ m \in Mirror /\ r.leader # None /\ r.phase \in {"eval", "funded"}
        /\ NoEdit(L, M, day, m) /\ r \in MirrorRecord /\ Fits(m, r)
    BY <1>1, <1>4, <1>5 DEF Fleets, AllFit
  <2>2. ~r.ready /\ r.leader \in Leader
    BY <1>5, <2>1 DEF NoEdit, MirrorRecord
  <2>3. Tradable(L, r.leader) \/ ChannelDown(L, m)
    BY <1>1, <1>5, <2>1, LeaderFacts DEF ChannelDown
  <2>4. r.phase = "funded" => r.mult = 10
    BY <1>5, <2>1 DEF NoEdit, Fits
  <2>5. ASSUME r.phase = "eval", ~Apex(m)
        PROVE  /\ r.mult <= Base(m)
               /\ Lockstep(m) \/ ~L[r.leader].nearFloor
               /\ r.leader \in Drivers(L) \/ Drivers(L) \cap Avail(L, m) = {}
    <3>1. /\ r.leader \in Avail(L, m) /\ r.mult = EvalScale(m, r)
          /\ r.leader \in Drivers(L) \/ Drivers(L) \cap Avail(L, m) = {}
      BY <1>5, <2>1, <2>5 DEF NoEdit
    <3>2. r.mult <= Base(m)
      BY <2>1, <3>1, ScaleFacts
    <3> QED
      BY <3>1, <3>2 DEF Avail
  <2>6. W[m].leader = r.leader /\ W[m].mult = r.mult
    BY <1>3
  <2> QED
    BY <2>2, <2>3, <2>4, <2>5, <2>6 DEF LawfulFollower
<1>6. ASSUME NEW f \in {"lucid", "tradeify", "apex"}, M = mirrors
      PROVE  Cardinality({m \in DOMAIN W : FirmOf[m] = f /\ mirrors[m].phase = "eval"}) <= IntakeOf(f)
  <2> DEFINE E == {m \in DOMAIN W : FirmOf[m] = f /\ mirrors[m].phase = "eval"}
             F == {m \in Intake(M) : FirmOf[m] = f}
  <2>1. IsFiniteSet(F) /\ Cardinality(F) <= IntakeOf(f) /\ IntakeOf(f) \in Nat
    BY <1>1, IntakeFacts, CopierAssumption DEF IntakeOf
  <2>2. E \subseteq F
    BY <1>4, <1>6 DEF NoEdit
  <2> HIDE DEF E, F
  <2>3. Cardinality(E) <= Cardinality(F) /\ IsFiniteSet(E)
    BY <2>1, <2>2, FS_Subset
  <2>4. Cardinality(E) \in Nat /\ Cardinality(F) \in Nat
    BY <2>1, <2>3, FS_CardinalityType
  <2>5. Cardinality(E) <= IntakeOf(f)
    BY <2>1, <2>3, <2>4
  <2> QED
    BY <2>5 DEF E
<1>7. ASSUME M = mirrors
      PROVE  Cardinality({m \in DOMAIN W : Signal[W[m].leader] = "apex-nuke" /\ ~ChannelDown(L, m)}) <= NukeSlots
  <2> DEFINE E == {m \in DOMAIN W : Signal[W[m].leader] = "apex-nuke" /\ ~ChannelDown(L, m)}
             F == NukeToday(M, day)
  <2>1. IsFiniteSet(F) /\ Cardinality(F) <= NukeSlots /\ NukeSlots \in Nat
    BY <1>1, NukeTodayIs, ForemostFacts, CopierAssumption
  <2>2. E \subseteq F
    <3> SUFFICES ASSUME NEW m \in E PROVE m \in F
      OBVIOUS
    <3>1. /\ m \in Mirror /\ M[m].leader # None /\ M[m].phase \in {"eval", "funded"}
          /\ NoEdit(L, M, day, m) /\ W[m].leader = M[m].leader
      BY <1>3, <1>4, <1>7
    <3> QED
      BY <1>1, <1>7, <3>1, LeaderFacts DEF ChannelDown
  <2> HIDE DEF E, F
  <2>3. Cardinality(E) <= Cardinality(F) /\ IsFiniteSet(E)
    BY <2>1, <2>2, FS_Subset
  <2>4. Cardinality(E) \in Nat /\ Cardinality(F) \in Nat
    BY <2>1, <2>3, FS_CardinalityType
  <2>5. Cardinality(E) <= NukeSlots
    BY <2>1, <2>3, <2>4
  <2> QED
    BY <2>5 DEF E
<1>8. Lawful(job, W)
  BY <1>5, <1>6, <1>7 DEF Lawful, IntakeOf, L, M
<1> QED
  BY <1>8 DEF W

\* Whatever the fleet and the slots, the groups a pull hands to the box obey the fleet's
\* rules, but for mirrors changed since they were checked: the exporter checks only that
\* the plan has no line to edit, and that is enough.
THEOREM PulledGroupsLawful == Spec => PulledLawful
<1>1. IInv /\ [Next]_vars => [Export /\ Active(mirrors) # {} => Lawful(job, wired')]_vars
  BY PullLawful
<1> QED
  BY <1>1, PlanInvariant, PTL DEF Spec, PulledLawful
-----------------------------------------------------------------------------
(* Applying a plan leaves nothing to edit.                                  *)

\* A plan changes nothing that the intake is decided on.
LEMMA IntakeStays ==
  ASSUME NEW M, NEW N, \A m \in Mirror : SameBut(M[m], N[m])
  PROVE  Intake(N) = Intake(M)
<1>1. \A f : Evals(N, f) = Evals(M, f) /\ Evals(M, f) \subseteq Mirror
  BY DEF Evals, SameBut
<1>2. \A x, y \in Mirror : MoreDays(N, x, y) <=> MoreDays(M, x, y)
  BY DEF MoreDays, SameBut
<1>3. ASSUME NEW f, NEW n
      PROVE  Firsts(Evals(N, f), n, LAMBDA x, y : MoreDays(N, x, y))
               = Firsts(Evals(M, f), n, LAMBDA x, y : MoreDays(M, x, y))
  <2> DEFINE A == Evals(M, f)
  <2>1. Evals(N, f) = A /\ A \subseteq Mirror
    BY <1>1
  <2> HIDE DEF A
  <2>2. \A x \in A : {y \in A : MoreDays(N, y, x)} = {y \in A : MoreDays(M, y, x)}
    BY <1>2, <2>1
  <2>3. {x \in A : Cardinality({y \in A : MoreDays(N, y, x)}) < n}
          = {x \in A : Cardinality({y \in A : MoreDays(M, y, x)}) < n}
    BY <2>2
  <2> QED
    BY <2>1, <2>3 DEF Firsts, A
<1> QED
  BY <1>3 DEF Intake

\* Those that are served today stay the first when they are stamped with the day: the
\* order puts today's before the rest, and they fill the slots.
LEMMA StampedStayFirst ==
  ASSUME NEW M \in Fleets, NEW N \in Fleets, NEW today \in Nat, NukeMode(N) = NukeMode(M),
         NEW stamped \in BOOLEAN,
         \A m \in NukeMode(M) : N[m].nukeDate = IF stamped /\ m \in NukeToday(M, today)
                                                THEN today ELSE M[m].nukeDate
  PROVE  NukeToday(N, today) = NukeToday(M, today)
<1> DEFINE A == NukeMode(M)
           K == NukeToday(M, today)
           R == NukeOrder(M, today)
           Q == NukeOrder(N, today)
<1>1. /\ K = Foremost(A, R, NukeSlots) /\ NukeToday(N, today) = Foremost(A, Q, NukeSlots)
      /\ A \subseteq Mirror /\ IsFiniteSet(A) /\ Strict(A, R) /\ Strict(A, Q)
  BY NukeTodayIs
<1>2. /\ \A x, y \in A : <<x, y>> \in R <=> NukeBefore(M, today, x, y)
      /\ \A x, y \in A : <<x, y>> \in Q <=> NukeBefore(N, today, x, y)
  BY NukeTodayIs
<1>3. NukeSlots \in Nat /\ \A x \in A : x \in Nat
  BY <1>1, CopierAssumption
<1>4. /\ K \subseteq A /\ IsFiniteSet(K) /\ Cardinality(K) \in Nat /\ Cardinality(K) <= NukeSlots
      /\ \A x \in K, y \in A : <<y, x>> \in R => y \in K
      /\ K # A => Cardinality(K) >= NukeSlots
  BY <1>1, <1>3, ForemostFacts
<1>5. \A m \in A : N[m].nukeDate = IF stamped /\ m \in K THEN today ELSE M[m].nukeDate
  OBVIOUS
<1> HIDE DEF A, K, R, Q
<1>6. CASE ~stamped
  <2>0. \A x \in A : N[x].nukeDate = M[x].nukeDate
    BY <1>5, <1>6
  <2>1. \A x, y \in A : <<x, y>> \in Q <=> <<x, y>> \in R
    <3>1. \A x, y \in A : NukeBefore(N, today, x, y) <=> NukeBefore(M, today, x, y)
      BY <2>0 DEF NukeBefore
    <3> QED
      BY <1>2, <3>1
  <2>2. \A x \in A : Ahead(A, Q, x) = Ahead(A, R, x)
    BY <2>1 DEF Ahead
  <2>3. Foremost(A, Q, NukeSlots) = K
    BY <1>1, <2>2 DEF Foremost
  <2> QED
    BY <1>1, <2>3 DEF K
<1>7. CASE stamped
  <2>1. /\ \A m \in K : N[m].nukeDate = today
        /\ \A m \in A \ K : N[m].nukeDate = M[m].nukeDate
    BY <1>4, <1>5, <1>7
  <2>2. ASSUME NEW x \in K, NEW y \in A, <<y, x>> \in Q PROVE y \in K
    <3> SUFFICES ASSUME y \notin K PROVE FALSE
      OBVIOUS
    <3>1. x \in A /\ NukeBefore(N, today, y, x)
      BY <1>2, <1>4, <2>2
    <3>2. N[x].nukeDate = today /\ N[y].nukeDate = M[y].nukeDate
      BY <2>1
    <3>3. M[y].nukeDate = today /\ y < x
      BY <3>1, <3>2 DEF NukeBefore
    <3>4. NukeBefore(M, today, y, x)
      BY <3>3 DEF NukeBefore
    <3>5. <<y, x>> \in R
      BY <1>2, <3>1, <3>4
    <3> QED
      BY <1>4, <3>5
  <2>3. ASSUME NEW x \in A \ K, NEW y \in K PROVE <<y, x>> \in Q
    <3>1. y \in A /\ x # y /\ <<x, y>> \notin R
      BY <1>4
    <3>2. <<y, x>> \in R
      BY <1>1, <3>1 DEF Strict
    <3>3. NukeBefore(M, today, y, x)
      BY <1>2, <3>1, <3>2
    <3>4. N[y].nukeDate = today /\ N[x].nukeDate = M[x].nukeDate
      BY <2>1
    <3>5. NukeBefore(N, today, y, x)
      <4>1. CASE M[x].nukeDate # today
        BY <3>4, <4>1 DEF NukeBefore
      <4>2. CASE M[x].nukeDate = today
        <5>1. M[y].nukeDate = today /\ y < x
          BY <3>3, <4>2 DEF NukeBefore
        <5> QED
          BY <3>4, <4>2, <5>1 DEF NukeBefore
      <4> QED
        BY <4>1, <4>2
    <3> QED
      BY <1>2, <3>1, <3>5
  <2>4. \A x \in A : IsFiniteSet(Ahead(A, Q, x)) /\ Cardinality(Ahead(A, Q, x)) \in Nat
    <3> TAKE x \in A
    <3>1. IsFiniteSet(Ahead(A, Q, x))
      BY <1>1, FS_Subset DEF Ahead
    <3> QED
      BY <3>1, FS_CardinalityType
  <2>5. ASSUME NEW x \in K PROVE Cardinality(Ahead(A, Q, x)) < NukeSlots
    <3> DEFINE H == Ahead(A, Q, x)
    <3>1. x \in A /\ H \subseteq K \ {x}
      <4>1. x \in A
        BY <1>4
      <4>2. H \subseteq K
        BY <2>2 DEF Ahead
      <4>3. x \notin H
        BY <1>1, <4>1 DEF Ahead, Strict
      <4> QED
        BY <4>1, <4>2, <4>3
    <3> HIDE DEF H
    <3>2. IsFiniteSet(K \ {x}) /\ Cardinality(K \ {x}) = Cardinality(K) - 1
      BY <1>4, FS_RemoveElement
    <3>3. Cardinality(H) <= Cardinality(K \ {x}) /\ Cardinality(H) \in Nat
      BY <2>4, <3>1, <3>2, FS_Subset DEF H
    <3> QED
      BY <1>3, <1>4, <3>2, <3>3 DEF H
  <2>6. ASSUME NEW x \in A \ K PROVE ~(Cardinality(Ahead(A, Q, x)) < NukeSlots)
    <3> DEFINE H == Ahead(A, Q, x)
    <3>1. K \subseteq H
      BY <1>4, <2>3 DEF Ahead
    <3>2. IsFiniteSet(H) /\ Cardinality(H) \in Nat
      BY <2>4
    <3> HIDE DEF H
    <3>3. Cardinality(K) <= Cardinality(H) /\ Cardinality(K) >= NukeSlots
      BY <1>4, <3>1, <3>2, FS_Subset
    <3>4. ~(Cardinality(H) < NukeSlots)
      BY <1>3, <1>4, <3>2, <3>3
    <3> QED
      BY <3>4 DEF H
  <2>7. Foremost(A, Q, NukeSlots) = K
    BY <1>4, <2>5, <2>6 DEF Foremost
  <2> QED
    BY <1>1, <2>7 DEF K
<1> QED
  BY <1>6, <1>7
\* What a plan says of a funded Apex account.
LEMMA ApexFundedPlan ==
  ASSUME NEW S, NEW M, NEW m
  PROVE  LET d == DesireApexFunded(S, M, m)
             landed == Landed(M[m]) \/ M[m].channel = "flip"
         IN /\ m \in S.nukes => /\ d.leader = S.channel["apex-nuke"] /\ d.channel = "nuke"
                                /\ d.nuke = (S.channel["apex-nuke"] # None)
            /\ m \notin S.nukes /\ landed =>
                 d.leader = S.channel["apex-flip"] /\ d.channel = "flip" /\ d.nuke = FALSE
            /\ m \notin S.nukes /\ ~landed =>
                 d.leader = None /\ d.channel = "nuke" /\ d.nuke = FALSE
<1> DEFINE d == DesireApexFunded(S, M, m)
           landed == Landed(M[m]) \/ M[m].channel = "flip"
<1>1. CASE m \in S.nukes
  <2>1. \E e : d = [To(S.channel["apex-nuke"], "nuke", 10, e)
                      EXCEPT !.nuke = S.channel["apex-nuke"] # None]
    BY <1>1 DEF DesireApexFunded
  <2> HIDE DEF d
  <2>2. /\ d.leader = S.channel["apex-nuke"] /\ d.channel = "nuke"
        /\ d.nuke = (S.channel["apex-nuke"] # None)
    BY <2>1, NukeFacts
  <2> QED
    BY <1>1, <2>2 DEF d
<1>2. CASE m \notin S.nukes /\ landed
  <2>1. \E e : d = To(S.channel["apex-flip"], "flip", 10, e)
    BY <1>2 DEF DesireApexFunded
  <2> HIDE DEF d
  <2>2. d.leader = S.channel["apex-flip"] /\ d.channel = "flip" /\ d.nuke = FALSE
    BY <2>1, ToFacts
  <2> QED
    BY <1>2, <2>2 DEF d
<1>3. CASE m \notin S.nukes /\ ~landed
  <2>1. \E e : d = To(None, "nuke", 10, e)
    BY <1>3 DEF DesireApexFunded
  <2> HIDE DEF d
  <2>2. d.leader = None /\ d.channel = "nuke" /\ d.nuke = FALSE
    BY <2>1, ToFacts
  <2> QED
    BY <1>3, <2>2 DEF d
<1> QED
  BY <1>1, <1>2, <1>3

\* What a plan says of the evals: the channel or a leader it would keep, and the scale.
LEMMA ApexEvalPlan ==
  ASSUME NEW S, NEW M, NEW m
  PROVE  LET d == DesireApexEval(S, M, m)
             ch == S.channel["apex-eval"]
         IN d.leader = IF m \in S.intake /\ ch # None THEN ch ELSE None
<1> DEFINE d == DesireApexEval(S, M, m)
           ch == S.channel["apex-eval"]
           l == IF m \in S.intake /\ ch # None THEN ch ELSE None
<1>1. \E e : d = To(l, "eval", M[m].mult, e)
  BY DEF DesireApexEval
<1> HIDE DEF d, l
<1>2. d.leader = l
  BY <1>1, ToFacts
<1> QED
  BY <1>2 DEF d, l

\* A clone's eval is parked, or it gets a leader that the next plan keeps, or there is none.
LEMMA CloneEvalPlan ==
  ASSUME NEW L \in Views, NEW M, NEW today, NEW m \in Mirror, NEW load \in LoadsOf(L)
  PROVE  LET S == Sight(L, M, today)
             d == DesireCloneEval(S, M, load, m)
         IN /\ d.mult = EvalScale(m, M[m])
            /\ m \notin S.intake => d.leader = None
            /\ m \in S.intake => Keeps(S, m, d.leader) \/ (S.avail[m] = {} /\ d.leader = None)
<1> DEFINE S == Sight(L, M, today)
           d == DesireCloneEval(S, M, load, m)
           mult == EvalScale(m, M[m])
<1>1. ASSUME NEW l, NEW e, d = To(l, "", mult, e)
      PROVE  d.leader = l /\ d.mult = mult
  <2> HIDE DEF d, mult
  <2>1. d.leader = l
    BY <1>1 DEF To
  <2>2. d.mult = mult
    BY <1>1 DEF To
  <2> QED
    BY <2>1, <2>2
<1>2. CASE m \notin S.intake
  <2>1. \E e : d = To(None, "", mult, e)
    BY <1>2 DEF DesireCloneEval
  <2> HIDE DEF d, mult, S
  <2>2. d.leader = None /\ d.mult = mult
    BY <1>1, <2>1
  <2> QED
    BY <1>2, <2>2 DEF d, mult, S
<1>3. CASE m \in S.intake /\ Keeps(S, m, M[m].leader)
  <2>1. \E e : d = To(M[m].leader, "", mult, e)
    BY <1>3 DEF DesireCloneEval
  <2> HIDE DEF d, mult, S
  <2>2. d.leader = M[m].leader /\ d.mult = mult
    BY <1>1, <2>1
  <2>3. Keeps(S, m, d.leader)
    BY <1>3, <2>2
  <2>4. /\ d.mult = mult /\ (m \notin S.intake => d.leader = None)
        /\ m \in S.intake => Keeps(S, m, d.leader) \/ (S.avail[m] = {} /\ d.leader = None)
    BY <1>3, <2>2, <2>3
  <2> QED
    BY <2>4 DEF d, mult, S
<1>4. CASE m \in S.intake /\ ~Keeps(S, m, M[m].leader) /\ S.avail[m] = {}
  <2>1. \E e : d = To(None, "", mult, e)
    BY <1>4 DEF DesireCloneEval
  <2> HIDE DEF d, mult, S
  <2>2. d.leader = None /\ d.mult = mult
    BY <1>1, <2>1
  <2> QED
    BY <1>4, <2>2 DEF d, mult, S
<1>5. CASE m \in S.intake /\ ~Keeps(S, m, M[m].leader) /\ S.avail[m] # {}
  <2>1. \E e : d = To(Best(S, load, m), "", mult, e)
    BY <1>5 DEF DesireCloneEval, Best
  <2>2. S.avail[m] = Avail(L, m) /\ S.avail[m] \subseteq Leader
    BY DEF Sight, Avail, EvalLeaders
  <2>3. /\ Best(S, load, m) \in S.avail[m]
        /\ Best(S, load, m) \in S.drivers \/ S.drivers \cap S.avail[m] = {}
    BY <1>5, <2>2, BestFacts
  <2> HIDE DEF d, mult, S
  <2>4. d.leader = Best(S, load, m) /\ d.mult = mult
    BY <1>1, <2>1
  <2>5. Keeps(S, m, Best(S, load, m))
    BY <2>2, <2>3, CopierAssumption DEF Keeps
  <2>6. Keeps(S, m, d.leader)
    BY <2>4, <2>5
  <2>7. /\ d.mult = mult /\ (m \notin S.intake => d.leader = None)
        /\ m \in S.intake => Keeps(S, m, d.leader) \/ (S.avail[m] = {} /\ d.leader = None)
    BY <1>5, <2>4, <2>6
  <2> QED
    BY <2>7 DEF d, mult, S
<1> QED
  BY <1>2, <1>3, <1>4, <1>5

\* A mapping that says what the mirror already does has no line.
LEMMA CloneEvalQuiet ==
  ASSUME NEW S, NEW M, NEW load, NEW m, M[m].mult = EvalScale(m, M[m]),
         m \notin S.intake => M[m].leader = None,
         m \in S.intake => Keeps(S, m, M[m].leader) \/ (S.avail[m] = {} /\ M[m].leader = None)
  PROVE  DesireCloneEval(S, M, load, m).edits = {}
<1> DEFINE d == DesireCloneEval(S, M, load, m)
           mult == EvalScale(m, M[m])
<1>0. Line("SET_MULT", M[m].mult # mult) = {}
  BY DEF Line
<1>1. \E l, e : d = To(l, "", mult, e) /\ e = {}
  <2>1. CASE m \notin S.intake
    <3>1. Line("UNMAP", M[m].leader # None) = {}
      BY <2>1 DEF Line
    <3>2. d = To(None, "", mult, Line("UNMAP", M[m].leader # None))
      BY <2>1 DEF DesireCloneEval
    <3> HIDE DEF mult, d
    <3> QED
      BY <3>1, <3>2
  <2>2. CASE m \in S.intake /\ Keeps(S, m, M[m].leader)
    <3>1. d = To(M[m].leader, "", mult, Line("SET_MULT", M[m].mult # mult))
      BY <2>2 DEF DesireCloneEval
    <3> HIDE DEF mult, d
    <3> QED
      BY <1>0, <3>1
  <2>3. CASE m \in S.intake /\ ~Keeps(S, m, M[m].leader)
    <3>1. S.avail[m] = {} /\ M[m].leader = None
      BY <2>3
    <3>2. Line("UNMAP", M[m].leader # None) = {}
      BY <3>1 DEF Line
    <3>3. d = To(None, "", mult, Line("SET_MULT", M[m].mult # mult)
                                   \cup Line("UNMAP", M[m].leader # None))
      BY <2>3, <3>1 DEF DesireCloneEval
    <3>4. Line("SET_MULT", M[m].mult # mult) \cup Line("UNMAP", M[m].leader # None) = {}
      BY <1>0, <3>2
    <3> HIDE DEF mult, d
    <3> QED
      BY <3>3, <3>4
  <2> QED
    BY <2>1, <2>2, <2>3
<1> HIDE DEF mult, d
<1>2. PICK l, e : d = To(l, "", mult, e) /\ e = {}
  BY <1>1
<1>3. d.edits = {}
  BY <1>2 DEF To
<1> QED
  BY <1>3 DEF d
\* The mapping by the kind and the phase of the mirror.
LEMMA DesireBy ==
  ASSUME NEW S, NEW M \in Fleets, NEW acc, NEW m \in Active(M)
  PROVE  LET r == M[m]
             d == Desire(S, M, acc, m)
             turn == ~(r.phase = "passed" \/ r.ready) /\ r.phase # "waiting"
         IN /\ r.phase = "passed" \/ r.ready => d = Parked(r)
            /\ turn => r.phase \in {"eval", "funded"}
            /\ turn /\ Apex(m) /\ r.phase = "eval" => d = DesireApexEval(S, M, m)
            /\ turn /\ Apex(m) /\ r.phase = "funded" => d = DesireApexFunded(S, M, m)
            /\ turn /\ ~Apex(m) /\ r.phase = "eval" => d = DesireCloneEval(S, M, acc.load, m)
            /\ turn /\ ~Apex(m) /\ r.phase = "funded" => d = DesireCloneFunded(S, M, m)
<1>1. M[m].phase \in {"eval", "waiting", "funded", "passed"}
  BY DEF Active, Fleets, MirrorRecord
<1> QED
  BY <1>1 DEF Desire

\* Without an unopened Apex account, applying a plan leaves the same accounts the day's
\* nukes: those that had their nuke have landed on record already.
LEMMA NukesStay ==
  ASSUME NEW L \in Views, NEW M \in Fleets, AllFit(M), NEW today \in 0..MaxDay, Unopened(M) = {}
  PROVE  NukeToday(Applied(M, Planned(L, M, today), today), today) = NukeToday(M, today)
<1> DEFINE P == Planned(L, M, today)
           N == Applied(M, P, today)
           S == Sight(L, M, today)
           ch == Channel(L, "apex-nuke")
           K == NukeToday(M, today)
<1>1. /\ N \in Fleets
      /\ \A m \in Active(M) : SameBut(M[m], N[m]) /\ Takes(M[m], N[m], P[m], today)
      /\ \A m \in Mirror \ Active(M) : N[m] = M[m]
  BY AppliedFacts
<1>2. S.channel["apex-nuke"] = ch /\ S.nukes = K
  BY DEF Sight
<1>3. K \subseteq NukeMode(M)
  BY DEF NukeToday, Firsts
<1>4. \A m \in Active(M) : \E acc : P[m] = Desire(S, M, acc, m)
  <2> TAKE m \in Active(M)
  <2>1. \E acc : /\ acc.load \in LoadsOf(L)
                 /\ Untouched(M, EvalLeaders(L)).taken \subseteq acc.taken
                 /\ P[m] = Desire(S, M, acc, m)
    BY PlanFacts
  <2> QED
    BY <2>1
<1>5. today \in Nat /\ Active(M) \subseteq Mirror
  <2>1. MaxDay \in Nat
    BY CopierAssumption
  <2> QED
    BY <2>1 DEF Active
<1> HIDE DEF P, N, S, ch, K
<1>6. ASSUME NEW m \in Active(M), Apex(m), M[m].phase = "funded", ~M[m].ready
      PROVE  /\ m \in NukeMode(M) <=> m \in NukeMode(N)
             /\ m \in NukeMode(M) =>
                  N[m].nukeDate = IF ch # None /\ m \in K THEN today ELSE M[m].nukeDate
  <2> DEFINE landed == Landed(M[m]) \/ M[m].channel = "flip"
  <2>1. P[m] = DesireApexFunded(S, M, m)
    <3>1. PICK acc : P[m] = Desire(S, M, acc, m)
      BY <1>4
    <3>2. ~(M[m].phase = "passed" \/ M[m].ready) /\ M[m].phase # "waiting"
      BY <1>6
    <3> QED
      BY <1>6, <3>1, <3>2, DesireBy
  <2>2. /\ m \in K => P[m].channel = "nuke" /\ P[m].nuke = (ch # None)
        /\ m \notin K /\ landed => P[m].channel = "flip" /\ P[m].nuke = FALSE
        /\ m \notin K /\ ~landed => P[m].channel = "nuke" /\ P[m].nuke = FALSE
    <3>1. /\ m \in S.nukes => P[m].channel = "nuke" /\ P[m].nuke = (S.channel["apex-nuke"] # None)
          /\ m \notin S.nukes /\ landed => P[m].channel = "flip" /\ P[m].nuke = FALSE
          /\ m \notin S.nukes /\ ~landed => P[m].channel = "nuke" /\ P[m].nuke = FALSE
      <4> DEFINE d == DesireApexFunded(S, M, m)
      <4>1. /\ m \in S.nukes => d.channel = "nuke" /\ d.nuke = (S.channel["apex-nuke"] # None)
            /\ m \notin S.nukes /\ landed => d.channel = "flip" /\ d.nuke = FALSE
            /\ m \notin S.nukes /\ ~landed => d.channel = "nuke" /\ d.nuke = FALSE
        BY ApexFundedPlan
      <4> HIDE DEF d
      <4>2. P[m] = d
        BY <2>1 DEF d
      <4> HIDE DEF landed
      <4> QED
        BY <4>1, <4>2
    <3> QED
      BY <1>2, <3>1
  <2>3. m \in NukeMode(M) <=> ~landed
    BY <1>5, <1>6 DEF NukeMode, Active
  <2>4. /\ N[m].phase = "funded" /\ ~N[m].ready /\ N[m].won = M[m].won /\ N[m].enabled
        /\ N[m].channel = P[m].channel
        /\ N[m].nukeDate = IF P[m].nuke THEN today ELSE M[m].nukeDate
    <3>1. SameBut(M[m], N[m]) /\ Takes(M[m], N[m], P[m], today) /\ M[m].enabled
      BY <1>1 DEF Active
    <3> QED
      BY <1>6, <3>1 DEF SameBut, Takes
  <2>5. m \in NukeMode(N) <=> ~Landed(N[m]) /\ N[m].channel # "flip"
    BY <1>5, <1>6, <2>4 DEF NukeMode
  <2>6. ~landed => ~M[m].won
    <3>1. M[m].channel \notin {"nuke", "flip"} => ~M[m].won
      BY <1>6 DEF Unopened
    <3> QED
      BY <3>1 DEF Landed
  <2>7. m \in K => ~landed
    BY <1>3, <2>3
  <2> HIDE DEF landed
  <2>8. m \in NukeMode(N) <=> ~landed
    BY <2>2, <2>4, <2>5, <2>6, <2>7 DEF Landed
  <2>9. ~landed => N[m].nukeDate = IF ch # None /\ m \in K THEN today ELSE M[m].nukeDate
    BY <2>2, <2>4
  <2> QED
    BY <2>3, <2>8, <2>9
<1>7. \A m \in NukeMode(M) \cup NukeMode(N) :
        m \in Active(M) /\ Apex(m) /\ M[m].phase = "funded" /\ ~M[m].ready
  <2> TAKE m \in NukeMode(M) \cup NukeMode(N)
  <2>1. m \in Mirror
    BY DEF NukeMode
  <2>2. \/ SameBut(M[m], N[m])
        \/ N[m] = M[m]
    BY <1>1, <2>1
  <2>3. Apex(m) /\ M[m].phase = "funded" /\ ~M[m].ready /\ M[m].enabled
    BY <2>2 DEF NukeMode, SameBut
  <2> QED
    BY <2>1, <2>3 DEF Active
<1>8. NukeMode(N) = NukeMode(M)
  BY <1>6, <1>7
<1>9. \A m \in NukeMode(M) :
        N[m].nukeDate = IF ch # None /\ m \in K THEN today ELSE M[m].nukeDate
  BY <1>6, <1>7
<1>10. NukeToday(N, today) = K
  <2> DEFINE stamped == ch # None
  <2>1. stamped \in BOOLEAN
    OBVIOUS
  <2> HIDE DEF stamped
  <2>2. \A m \in NukeMode(M) :
          N[m].nukeDate = IF stamped /\ m \in NukeToday(M, today) THEN today ELSE M[m].nukeDate
    BY <1>9 DEF stamped, K
  <2> QED
    BY <1>1, <1>5, <1>8, <2>1, <2>2, StampedStayFirst DEF K
<1> QED
  BY <1>10 DEF N, P, K
\* A mirror whose mapping has been applied has no line in the next plan.
LEMMA AppliedQuiet ==
  ASSUME NEW L \in Views, NEW M \in Fleets, AllFit(M), NEW today \in 0..MaxDay,
         NEW m \in Active(M), M[m].phase # "waiting",
         Apex(m) /\ M[m].phase = "funded" => Unopened(M) = {}
  PROVE  Planned(L, Applied(M, Planned(L, M, today), today), today)[m].edits = {}
<1> DEFINE P == Planned(L, M, today)
           N == Applied(M, P, today)
           Q == Planned(L, N, today)
           S == Sight(L, M, today)
           T == Sight(L, N, today)
           r == M[m]
           s == N[m]
<1>1. /\ N \in Fleets
      /\ \A x \in Active(M) : SameBut(M[x], N[x]) /\ Takes(M[x], N[x], P[x], today)
      /\ \A x \in Mirror \ Active(M) : N[x] = M[x]
  BY AppliedFacts
<1>2. m \in Mirror /\ m \in Active(N) /\ r \in MirrorRecord
  BY <1>1 DEF Active, SameBut, Fleets
<1>3. /\ T.channel = S.channel /\ T.avail = S.avail /\ T.drivers = S.drivers
      /\ T.funded = S.funded /\ T.intake = S.intake
  <2>1. Intake(N) = Intake(M)
    <3>1. \A x \in Mirror : SameBut(M[x], N[x])
      BY <1>1 DEF SameBut
    <3> QED
      BY <3>1, IntakeStays
  <2> HIDE DEF N
  <2> QED
    BY <2>1 DEF Sight
<1>4. Apex(m) /\ r.phase = "funded" => T.nukes = S.nukes
  <2>1. Apex(m) /\ r.phase = "funded" => NukeToday(N, today) = NukeToday(M, today)
    BY NukesStay
  <2> HIDE DEF N
  <2> QED
    BY <2>1 DEF Sight
<1>5. PICK acc : /\ acc.load \in LoadsOf(L)
                 /\ Untouched(M, EvalLeaders(L)).taken \subseteq acc.taken
                 /\ P[m] = Desire(S, M, acc, m)
  BY PlanFacts
<1>6. PICK bcc : /\ bcc.load \in LoadsOf(L)
                 /\ Untouched(N, EvalLeaders(L)).taken \subseteq bcc.taken
                 /\ Q[m] = Desire(T, N, bcc, m)
  BY <1>1, <1>2, PlanFacts
<1> DEFINE p == P[m]
           q == Q[m]
           turn == ~(r.phase = "passed" \/ r.ready)
<1>7. /\ s.leader = p.leader /\ s.channel = p.channel /\ s.mult = p.mult
      /\ s.phase = r.phase /\ s.ready = r.ready /\ s.won = r.won
      /\ s.days = r.days /\ s.left = r.left
  BY <1>1 DEF SameBut, Takes
<1> HIDE DEF P, Q, N, S, T
<1>8. /\ ~turn => p = Parked(r)
      /\ turn => r.phase \in {"eval", "funded"}
      /\ turn /\ Apex(m) /\ r.phase = "eval" => p = DesireApexEval(S, M, m)
      /\ turn /\ Apex(m) /\ r.phase = "funded" => p = DesireApexFunded(S, M, m)
      /\ turn /\ ~Apex(m) /\ r.phase = "eval" => p = DesireCloneEval(S, M, acc.load, m)
      /\ turn /\ ~Apex(m) /\ r.phase = "funded" => p = DesireCloneFunded(S, M, m)
  BY <1>5, DesireBy
<1>9. /\ ~turn => q = Parked(s)
      /\ turn /\ Apex(m) /\ r.phase = "eval" => q = DesireApexEval(T, N, m)
      /\ turn /\ Apex(m) /\ r.phase = "funded" => q = DesireApexFunded(T, N, m)
      /\ turn /\ ~Apex(m) /\ r.phase = "eval" => q = DesireCloneEval(T, N, bcc.load, m)
      /\ turn /\ ~Apex(m) /\ r.phase = "funded" => q = DesireCloneFunded(T, N, m)
  BY <1>1, <1>2, <1>6, <1>7, DesireBy
<1>10. CASE ~turn
  <2>1. p = To(None, r.channel, r.mult, Line("UNMAP", r.leader # None))
    BY <1>8, <1>10 DEF Parked
  <2>2. p.leader = None
    BY <2>1 DEF To
  <2>3. q = To(None, s.channel, s.mult, Line("UNMAP", s.leader # None))
    BY <1>9, <1>10 DEF Parked
  <2>4. Line("UNMAP", s.leader # None) = {}
    BY <1>7, <2>2 DEF Line
  <2> HIDE DEF q, s
  <2>5. q.edits = {}
    BY <2>3, <2>4, ToFacts
  <2> QED
    BY <2>5 DEF q, Q, N, P
<1>11. CASE turn /\ Apex(m) /\ r.phase = "eval"
  <2> DEFINE ch == S.channel["apex-eval"]
  <2>1. p.leader = IF m \in S.intake /\ ch # None THEN ch ELSE None
    BY <1>8, <1>11, ApexEvalPlan
  <2>2. q = DesireApexEval(T, N, m) /\ T.channel["apex-eval"] = ch /\ T.intake = S.intake
    BY <1>3, <1>9, <1>11
  <2>3. Line("MAP", ch # ch) = {} /\ Line("UNMAP", None # None) = {}
    BY DEF Line
  <2>4. \E l, e : q = To(l, "eval", s.mult, e) /\ e = {}
    <3>1. CASE m \in S.intake /\ ch # None
      <4>1. q = To(ch, "eval", s.mult, Line("MAP", s.leader # ch)) /\ s.leader = ch
        BY <1>7, <2>1, <2>2, <3>1 DEF DesireApexEval
      <4> HIDE DEF q, s, ch
      <4> QED
        BY <2>3, <4>1
    <3>2. CASE ~(m \in S.intake /\ ch # None)
      <4>1. q = To(None, "eval", s.mult, Line("UNMAP", s.leader # None)) /\ s.leader = None
        BY <1>7, <2>1, <2>2, <3>2 DEF DesireApexEval
      <4> HIDE DEF q, s, ch
      <4> QED
        BY <2>3, <4>1
    <3> QED
      BY <3>1, <3>2
  <2> HIDE DEF q, s
  <2>5. q.edits = {}
    BY <2>4, ToFacts
  <2> QED
    BY <2>5 DEF q, Q, N, P
<1>12. CASE turn /\ Apex(m) /\ r.phase = "funded"
  <2> DEFINE landed == Landed(r) \/ r.channel = "flip"
  <2>1. /\ m \in S.nukes => p.leader = S.channel["apex-nuke"] /\ p.channel = "nuke"
        /\ m \notin S.nukes /\ landed => p.leader = S.channel["apex-flip"] /\ p.channel = "flip"
        /\ m \notin S.nukes /\ ~landed => p.leader = None /\ p.channel = "nuke"
    <3> DEFINE d == DesireApexFunded(S, M, m)
    <3>1. /\ m \in S.nukes => d.leader = S.channel["apex-nuke"] /\ d.channel = "nuke"
          /\ m \notin S.nukes /\ landed => d.leader = S.channel["apex-flip"] /\ d.channel = "flip"
          /\ m \notin S.nukes /\ ~landed => d.leader = None /\ d.channel = "nuke"
      BY ApexFundedPlan
    <3>2. p = d
      BY <1>8, <1>12
    <3> HIDE DEF d, landed, p
    <3> QED
      BY <3>1, <3>2
  <2>2. q = DesireApexFunded(T, N, m) /\ T.channel = S.channel /\ T.nukes = S.nukes
    BY <1>3, <1>4, <1>9, <1>12
  <2>3. ~landed => ~r.won
    <3>1. r.channel \notin {"nuke", "flip"} => ~r.won
      BY <1>12 DEF Unopened
    <3> QED
      BY <3>1 DEF Landed
  <2>4. m \in S.nukes => ~landed
    <3>1. m \in S.nukes => m \in NukeMode(M)
      BY DEF S, Sight, NukeToday, Firsts
    <3> QED
      BY <3>1 DEF NukeMode
  <2>5. /\ s.leader = p.leader /\ s.channel = p.channel /\ s.won = r.won
    BY <1>7
  <2> DEFINE to == S.channel[IF m \in S.nukes THEN "apex-nuke" ELSE "apex-flip"]
             lines == Line("SET_CHANNEL", Landed(s)) \cup Line("MAP", to # None /\ s.leader # to)
  <2>6. ASSUME m \in S.nukes \/ landed PROVE lines = {}
    <3>1. s.leader = to
      BY <2>1, <2>4, <2>5, <2>6
    <3>2. ~Landed(s)
      BY <2>1, <2>3, <2>4, <2>5, <2>6 DEF Landed
    <3> HIDE DEF to, s
    <3> QED
      BY <3>1, <3>2 DEF Line
  <2>7. CASE m \in S.nukes
    <3>1. q = [To(to, "nuke", 10, lines) EXCEPT !.nuke = to # None]
      BY <2>2, <2>7 DEF DesireApexFunded
    <3>2. lines = {}
      BY <2>6, <2>7
    <3> HIDE DEF q, to, lines
    <3>3. q.edits = {}
      BY <3>1, <3>2, NukeFacts
    <3> QED
      BY <3>3 DEF q, Q, N, P
  <2>8. CASE m \notin S.nukes /\ landed
    <3>1. q = To(to, "flip", 10, lines)
      BY <2>1, <2>2, <2>5, <2>8 DEF DesireApexFunded
    <3>2. lines = {}
      BY <2>6, <2>8
    <3> HIDE DEF q, to, lines
    <3>3. q.edits = {}
      BY <3>1, <3>2, ToFacts
    <3> QED
      BY <3>3 DEF q, Q, N, P
  <2>9. CASE m \notin S.nukes /\ ~landed
    <3>1. s.leader = None /\ s.channel = "nuke" /\ ~Landed(s)
      BY <2>1, <2>3, <2>5, <2>9 DEF Landed
    <3>2. q = To(None, "nuke", 10, Line("UNMAP", s.leader # None))
      BY <2>2, <2>9, <3>1 DEF DesireApexFunded
    <3>3. Line("UNMAP", s.leader # None) = {}
      BY <3>1 DEF Line
    <3> HIDE DEF q
    <3>4. q.edits = {}
      BY <3>2, <3>3, ToFacts
    <3> QED
      BY <3>4 DEF q, Q, N, P
  <2> QED
    BY <2>7, <2>8, <2>9
<1>13. CASE turn /\ ~Apex(m) /\ r.phase = "eval"
  <2>1. /\ p.mult = EvalScale(m, r)
        /\ m \notin S.intake => p.leader = None
        /\ m \in S.intake => Keeps(S, m, p.leader) \/ (S.avail[m] = {} /\ p.leader = None)
    <3> DEFINE d == DesireCloneEval(S, M, acc.load, m)
    <3>1. /\ d.mult = EvalScale(m, r)
          /\ m \notin S.intake => d.leader = None
          /\ m \in S.intake => Keeps(S, m, d.leader) \/ (S.avail[m] = {} /\ d.leader = None)
      BY <1>2, <1>5, CloneEvalPlan DEF S
    <3>2. p = d
      BY <1>8, <1>13
    <3> HIDE DEF d, p
    <3> QED
      BY <3>1, <3>2
  <2>2. EvalScale(m, s) = EvalScale(m, r)
    BY <1>7 DEF EvalScale
  <2>3. \A l : Keeps(T, m, l) <=> Keeps(S, m, l)
    BY <1>3 DEF Keeps
  <2>4. /\ s.mult = EvalScale(m, s)
        /\ m \notin T.intake => s.leader = None
        /\ m \in T.intake => Keeps(T, m, s.leader) \/ (T.avail[m] = {} /\ s.leader = None)
    <3>1. s.leader = p.leader /\ s.mult = p.mult
      BY <1>7
    <3> HIDE DEF p, s
    <3> QED
      BY <1>3, <2>1, <2>2, <2>3, <3>1
  <2>5. DesireCloneEval(T, N, bcc.load, m).edits = {}
    BY <2>4, CloneEvalQuiet
  <2>6. q.edits = {}
    BY <1>9, <1>13, <2>5
  <2> QED
    BY <2>6 DEF q, Q, N, P
<1>14. CASE turn /\ ~Apex(m) /\ r.phase = "funded"
  <2> DEFINE live(x) == x \in S.funded
             to(x) == IF live(x) THEN x ELSE None
             lines(x) == Line("SET_MULT", x.mult # 10) \cup Line("UNMAP", x.leader # None /\ ~live(x.leader))
  <2>1. p = To(to(r.leader), "", 10, lines(r))
    BY <1>8, <1>14 DEF DesireCloneFunded
  <2>2. q = To(to(s.leader), "", 10, lines(s))
    BY <1>3, <1>9, <1>14 DEF DesireCloneFunded
  <2>3. p.leader = to(r.leader)
    <3> HIDE DEF to, lines, p
    <3> QED
      BY <2>1 DEF To
  <2>4. p.mult = 10
    <3> HIDE DEF to, lines, p
    <3> QED
      BY <2>1 DEF To
  <2>5. s.mult = 10 /\ (s.leader # None => live(s.leader))
    BY <1>7, <2>3, <2>4
  <2>6. lines(s) = {}
    BY <2>5 DEF Line
  <2>7. q.edits = lines(s)
    <3> HIDE DEF to, lines, q
    <3> QED
      BY <2>2 DEF To
  <2> QED
    BY <2>6, <2>7 DEF q, Q, N, P
<1> QED
  BY <1>8, <1>10, <1>11, <1>12, <1>13, <1>14

\* In every state between the requests, whatever the fleet, the slots and the channels:
\* the plan that follows an applied one has no line to edit (copier_plan.py:6-9), but for
\* the waiting mirrors and, while one account has won before it was given a channel, the
\* funded Apex accounts.
THEOREM PlansResolve == Spec => []Resolves
<1>1. IInv => Resolves
  <2> SUFFICES ASSUME IInv, job = None,
                      NEW m \in Pending(Planned(leaders,
                            Applied(mirrors, Planned(leaders, mirrors, day), day), day))
               PROVE  \/ mirrors[m].phase = "waiting"
                      \/ Apex(m) /\ mirrors[m].phase = "funded" /\ Unopened(mirrors) # {}
    BY DEF Resolves
  <2> DEFINE N == Applied(mirrors, Planned(leaders, mirrors, day), day)
             Q == Planned(leaders, N, day)
  <2>1. leaders \in Views /\ mirrors \in Fleets /\ AllFit(mirrors) /\ TypeOK
    BY DEF IInv, TypeOK, Fleets
  <2>2. day \in 0..MaxDay
    <3>1. day \in 1..MaxDay /\ MaxDay \in Nat
      BY <2>1, CopierAssumption DEF TypeOK
    <3> QED
      BY <3>1
  <2>3. /\ N \in Fleets
        /\ \A x \in Active(mirrors) : SameBut(mirrors[x], N[x])
        /\ \A x \in Mirror \ Active(mirrors) : N[x] = mirrors[x]
    BY <2>1, <2>2, AppliedFacts
  <2>4. m \in DOMAIN Q /\ Q[m].edits # {}
    BY DEF Pending
  <2>5. m \in Active(N)
    <3> HIDE DEF N
    <3>1. DOMAIN Q = Active(N)
      BY <2>1, <2>3, PlanFacts
    <3> QED
      BY <2>4, <3>1
  <2> HIDE DEF Q
  <2>6. m \in Active(mirrors)
    <3>1. m \in Mirror /\ N[m].enabled /\ N[m].phase \notin {"blown", "retired"}
      BY <2>5 DEF Active
    <3> HIDE DEF N
    <3> QED
      BY <2>3, <3>1 DEF Active, SameBut
  <2> SUFFICES ASSUME mirrors[m].phase # "waiting",
                      Apex(m) /\ mirrors[m].phase = "funded" => Unopened(mirrors) = {}
               PROVE  FALSE
    OBVIOUS
  <2>7. Q[m].edits = {}
    BY <2>1, <2>2, <2>6, AppliedQuiet DEF Q
  <2> QED
    BY <2>4, <2>7
<1> QED
  BY <1>1, PlanInvariant, PTL
=============================================================================
