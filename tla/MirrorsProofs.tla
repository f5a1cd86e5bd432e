--------------------------- MODULE MirrorsProofs ----------------------------
(***************************************************************************)
(* Proofs about the mirrors, for any leaders, mirrors, firms and amounts.  *)
(* First what a sum over leaders is, by induction on their number; then    *)
(* types and records; the theorem that needs little more                   *)
(* (BankedIsWithdrawn); then drift: where an outcome is booked, what the   *)
(* pass's copy still agrees with (Pass, Sharers), and for each action that *)
(* the drift it causes is one of the named windows.  Last, what may be     *)
(* relied on for a mirror that never drifted (Known).                      *)
(***************************************************************************)
EXTENDS Mirrors, FiniteSetTheorems, WellFoundedInduction, TLAPS

\* Induction, stated of a set: the least number it lacks is none.
LEMMA NatSet == ASSUME NEW T \in SUBSET Nat, \A n \in Nat : (\A k \in Nat : k < n => k \in T) => n \in T
                PROVE  T = Nat
<1> SUFFICES ASSUME Nat \ T # {} PROVE FALSE
  OBVIOUS
<1>1. PICK n \in Nat \ T : \A k \in Nat \ T : ~ (<<k, n>> \in OpToRel(<, Nat))
  BY WFMin, NatLessThanWellFounded
<1>2. \A k \in Nat : k < n => k \in T
  BY <1>1 DEF OpToRel
<1>3. QED
  BY <1>1, <1>2

Pick(s) == CHOOSE x \in s : TRUE
Step(f, h, s) == IF s = {} THEN 0 ELSE f[Pick(s)] + h[s \ {Pick(s)}]
Iter(f, S) == CHOOSE h : h = [s \in SUBSET S |-> Step(f, h, s)]

\* The library's sum is the iteration's value.
LEMMA SumIsIter == ASSUME NEW f, NEW S PROVE SumFunctionOnSet(f, S) = Iter(f, S)[S]
  BY DEF SumFunctionOnSet, FoldFunctionOnSet, MapThenFoldSet, Iter, Step, Pick

\* Taking one element away leaves one fewer.
LEMMA Removed == ASSUME NEW S, IsFiniteSet(S), NEW x \in S
                 PROVE  /\ IsFiniteSet(S \ {x}) /\ Cardinality(S) \in Nat
                        /\ Cardinality(S \ {x}) = Cardinality(S) - 1
                        /\ Cardinality(S) - 1 \in Nat
<1>1. Cardinality(S) # 0 /\ Cardinality(S) \in Nat
  BY FS_EmptySet, FS_CardinalityType
<1>2. IsFiniteSet(S \ {x}) /\ Cardinality(S \ {x}) = Cardinality(S) - 1
  BY FS_RemoveElement
<1> QED
  BY <1>1, <1>2

\* The iteration the sum stands for exists: it is built on ever larger subsets.
LEMMA IterExists == ASSUME NEW f, NEW S, IsFiniteSet(S)
                    PROVE  \A s \in SUBSET S : Iter(f, S)[s] = Step(f, Iter(f, S), s)
<1> DEFINE Small(n) == {s \in SUBSET S : Cardinality(s) <= n}
           Good(n, h) == h = [s \in Small(n) |-> Step(f, h, s)]
           T == {n \in Nat : \E h : Good(n, h)}
<1>1. \A s \in SUBSET S : IsFiniteSet(s) /\ Cardinality(s) \in Nat /\ Cardinality(s) <= Cardinality(S)
  BY FS_Subset, FS_CardinalityType
<1>2. \A s \in SUBSET S : s # {} => /\ s \ {Pick(s)} \in SUBSET S
                                    /\ Cardinality(s \ {Pick(s)}) = Cardinality(s) - 1
                                    /\ Cardinality(s) # 0
  BY <1>1, FS_RemoveElement, FS_EmptySet DEF Pick
<1>3. 0 \in T
  <2>1. Small(0) = {{}}
    BY <1>1, FS_EmptySet
  <2>2. Good(0, [s \in Small(0) |-> 0])
    BY <2>1 DEF Step
  <2>3. QED
    BY <2>2
<1>4. ASSUME NEW n \in Nat, NEW h, Good(n, h) PROVE \E g : Good(n + 1, g)
  <2>1. Good(n, h)
    BY <1>4
  <2> DEFINE g == [s \in Small(n + 1) |-> Step(f, h, s)]
  <2>2. \A s \in Small(n) : g[s] = h[s] /\ s \in Small(n + 1)
    BY <1>1, <2>1
  <2>3. \A s \in Small(n + 1) : Step(f, h, s) = Step(f, g, s)
    <3> SUFFICES ASSUME NEW s \in Small(n + 1), s # {} PROVE h[s \ {Pick(s)}] = g[s \ {Pick(s)}]
      BY DEF Step
    <3>1. s \ {Pick(s)} \in Small(n)
      BY <1>1, <1>2
    <3> QED
      BY <2>2, <3>1
  <2>4. Good(n + 1, g)
    BY <2>3
  <2> WITNESS g
  <2> QED
    BY <2>4
<1>5. T = Nat
  <2>1. ASSUME NEW n \in Nat, \A k \in Nat : k < n => k \in T PROVE n \in T
    <3>1. CASE n = 0
      BY <1>3, <3>1
    <3>2. CASE n # 0
      <4>1. n - 1 \in Nat /\ n - 1 < n /\ (n - 1) + 1 = n
        BY <3>2
      <4>2. n - 1 \in T
        BY <2>1, <4>1
      <4>3. PICK h : Good(n - 1, h)
        BY <4>2
      <4> HIDE DEF Good
      <4>4. \E g : Good((n - 1) + 1, g)
        BY <1>4, <4>1, <4>3
      <4> QED
        BY <4>1, <4>4
    <3> QED
      BY <3>1, <3>2
  <2>2. T \in SUBSET Nat
    OBVIOUS
  <2> HIDE DEF T
  <2> QED
    BY <2>1, <2>2, NatSet
<1>6. PICK h : Good(Cardinality(S), h)
  BY <1>5, FS_CardinalityType
<1>7. Small(Cardinality(S)) = SUBSET S
  BY <1>1
<1>8. h = [s \in SUBSET S |-> Step(f, h, s)]
  BY <1>6, <1>7
<1>9. Iter(f, S) = [s \in SUBSET S |-> Step(f, Iter(f, S), s)]
  BY <1>8 DEF Iter
<1> QED
  BY <1>9

\* The iteration over a subset does not depend on the whole.
LEMMA IterBelow == ASSUME NEW f, NEW S, IsFiniteSet(S), NEW R \in SUBSET S
                   PROVE  Iter(f, S)[R] = Iter(f, R)[R]
<1> DEFINE g == Iter(f, S)
           h == Iter(f, R)
           T == {n \in Nat : \A s \in SUBSET R : Cardinality(s) = n => g[s] = h[s]}
<1>0. IsFiniteSet(R)
  BY FS_Subset
<1>1. \A s \in SUBSET R : IsFiniteSet(s) /\ Cardinality(s) \in Nat
  BY <1>0, FS_Subset, FS_CardinalityType
<1>2. \A s \in SUBSET R : g[s] = Step(f, g, s) /\ h[s] = Step(f, h, s)
  <2>1. \A s \in SUBSET R : s \in SUBSET S
    OBVIOUS
  <2>2. \A s \in SUBSET S : g[s] = Step(f, g, s)
    BY IterExists
  <2>3. \A s \in SUBSET R : h[s] = Step(f, h, s)
    BY <1>0, IterExists
  <2> HIDE DEF g, h
  <2> QED
    BY <2>1, <2>2, <2>3
<1>3. ASSUME NEW n \in Nat, \A k \in Nat : k < n => k \in T PROVE n \in T
  <2> HIDE DEF g, h
  <2> SUFFICES ASSUME NEW s \in SUBSET R, Cardinality(s) = n PROVE g[s] = h[s]
    OBVIOUS
  <2>1. CASE s = {}
    BY <1>2, <2>1 DEF Step
  <2>2. CASE s # {}
    <3>0. Pick(s) \in s
      BY <2>2 DEF Pick
    <3>1. s \ {Pick(s)} \in SUBSET R /\ Cardinality(s \ {Pick(s)}) = n - 1 /\ n - 1 \in Nat
      BY <1>1, <3>0, Removed
    <3>2. n - 1 \in T
      BY <1>3, <3>1
    <3>3. g[s \ {Pick(s)}] = h[s \ {Pick(s)}]
      BY <3>1, <3>2
    <3> QED
      BY <1>2, <2>2, <3>3 DEF Step
  <2> QED
    BY <2>1, <2>2
<1>4. T = Nat
  <2> HIDE DEF g, h
  <2>1. T \in SUBSET Nat
    OBVIOUS
  <2> HIDE DEF T
  <2> QED
    BY <1>3, <2>1, NatSet
<1> QED
  BY <1>0, <1>4, FS_CardinalityType

\* The sum takes one chosen element at a time.
LEMMA SumStep == ASSUME NEW f, NEW S, IsFiniteSet(S)
                 PROVE  /\ S = {} => SumFunctionOnSet(f, S) = 0
                        /\ S # {} => /\ Pick(S) \in S
                                     /\ SumFunctionOnSet(f, S)
                                          = f[Pick(S)] + SumFunctionOnSet(f, S \ {Pick(S)})
<1>1. Iter(f, S)[S] = Step(f, Iter(f, S), S)
  BY IterExists
<1>2. S # {} => Iter(f, S)[S \ {Pick(S)}] = Iter(f, S \ {Pick(S)})[S \ {Pick(S)}]
  BY IterBelow
<1> QED
  BY <1>1, <1>2, SumIsIter DEF Step, Pick

\* Any element may be the one that is taken.
LEMMA SumAny == ASSUME NEW S, IsFiniteSet(S), NEW f \in [S -> Int]
                PROVE  /\ SumFunctionOnSet(f, S) \in Int
                       /\ \A x \in S : SumFunctionOnSet(f, S) = f[x] + SumFunctionOnSet(f, S \ {x})
<1> DEFINE V(s) == SumFunctionOnSet(f, s)
           Ok(s) == V(s) \in Int /\ \A x \in s : V(s) = f[x] + V(s \ {x})
           T == {n \in Nat : \A s \in SUBSET S : Cardinality(s) = n => Ok(s)}
<1>1. \A s \in SUBSET S : IsFiniteSet(s) /\ Cardinality(s) \in Nat
  BY FS_Subset, FS_CardinalityType
<1>2. \A s \in SUBSET S : /\ s = {} => V(s) = 0
                          /\ s # {} => Pick(s) \in s /\ V(s) = f[Pick(s)] + V(s \ {Pick(s)})
  BY <1>1, SumStep
<1>3. ASSUME NEW n \in Nat, \A k \in Nat : k < n => k \in T,
             NEW s \in SUBSET S, Cardinality(s) = n
      PROVE  Ok(s)
  <2>1. \A r \in SUBSET S : Cardinality(r) \in Nat /\ Cardinality(r) < n => Ok(r)
    BY <1>3
  <2> HIDE DEF T
  <2>2. ASSUME NEW x \in s PROVE /\ s \ {x} \in SUBSET S /\ Cardinality(s \ {x}) \in Nat
                                 /\ Cardinality(s \ {x}) < n
    <3>1. Cardinality(s \ {x}) = Cardinality(s) - 1 /\ Cardinality(s) - 1 \in Nat
      BY <1>1, Removed
    <3> QED
      BY <1>3, <3>1
  <2>3. \A x \in s : Ok(s \ {x})
    BY <2>1, <2>2
  <2>4. CASE s = {}
    <3>1. V(s) = 0
      BY <1>2, <2>4
    <3>2. \A x \in s : FALSE
      BY <2>4
    <3> QED
      BY <3>1, <3>2
  <2>5. CASE s # {}
    <3>1. PICK c \in s : V(s) = f[c] + V(s \ {c})
      BY <1>2, <2>5
    <3>2. V(s) \in Int
      BY <2>3, <3>1
    <3>3. ASSUME NEW x \in s PROVE V(s) = f[x] + V(s \ {x})
      <4>1. CASE x = c
        BY <3>1, <4>1
      <4>2. CASE x # c
        <5>1. V(s \ {c}) = f[x] + V((s \ {c}) \ {x}) /\ V(s \ {x}) = f[c] + V((s \ {x}) \ {c})
          BY <2>3, <4>2
        <5>2. (s \ {c}) \ {x} = (s \ {x}) \ {c}
          OBVIOUS
        <5>3. PICK q : q = s \ {x}
          OBVIOUS
        <5>4. q \in SUBSET S /\ c \in q /\ Cardinality(q) < n
          BY <2>2, <4>2, <5>3
        <5>5. q \ {c} \in SUBSET S /\ Cardinality(q \ {c}) \in Nat /\ Cardinality(q \ {c}) < n
          <6>1. Cardinality(q) \in Nat /\ Cardinality(q \ {c}) = Cardinality(q) - 1 /\ Cardinality(q) - 1 \in Nat
            BY <1>1, <5>4, Removed
          <6> QED
            BY <5>4, <6>1
        <5>6. V(q \ {c}) \in Int
          BY <2>1, <5>5
        <5>7. PICK r \in Int : r = V((s \ {x}) \ {c})
          BY <5>3, <5>6
        <5>8. V(s \ {c}) = f[x] + r /\ V(s \ {x}) = f[c] + r
          BY <5>1, <5>2, <5>7
        <5> QED
          BY <3>1, <5>8
      <4> QED
        BY <4>1, <4>2
    <3> QED
      BY <3>2, <3>3
  <2> QED
    BY <2>4, <2>5
<1>4. T = Nat
  <2>1. T \in SUBSET Nat
    OBVIOUS
  <2>2. ASSUME NEW n \in Nat, \A k \in Nat : k < n => k \in T PROVE n \in T
    <3> HIDE DEF Ok
    <3> QED
      BY <1>3, <2>2
  <2> HIDE DEF T
  <2> QED
    BY <2>1, <2>2, NatSet
<1> QED
  BY <1>1, <1>4

\* One value of a function changes its sum by the difference.
LEMMA SumSame == ASSUME NEW S, IsFiniteSet(S), NEW f, NEW g, \A s \in S : f[s] = g[s]
                 PROVE  SumFunctionOnSet(f, S) = SumFunctionOnSet(g, S)
<1> DEFINE T == {n \in Nat : \A s \in SUBSET S : Cardinality(s) = n =>
                   SumFunctionOnSet(f, s) = SumFunctionOnSet(g, s)}
<1>1. \A s \in SUBSET S : IsFiniteSet(s) /\ Cardinality(s) \in Nat
  BY FS_Subset, FS_CardinalityType
<1>2. ASSUME NEW n \in Nat, \A k \in Nat : k < n => k \in T,
             NEW s \in SUBSET S, Cardinality(s) = n
      PROVE  SumFunctionOnSet(f, s) = SumFunctionOnSet(g, s)
  <2>1. \A q \in SUBSET S : Cardinality(q) \in Nat /\ Cardinality(q) < n =>
          SumFunctionOnSet(f, q) = SumFunctionOnSet(g, q)
    BY <1>2
  <2> HIDE DEF T
  <2>2. CASE s = {}
    BY <1>1, <2>2, SumStep
  <2>3. CASE s # {}
    <3>1. /\ Pick(s) \in s
          /\ SumFunctionOnSet(f, s) = f[Pick(s)] + SumFunctionOnSet(f, s \ {Pick(s)})
          /\ SumFunctionOnSet(g, s) = g[Pick(s)] + SumFunctionOnSet(g, s \ {Pick(s)})
      BY <1>1, <2>3, SumStep
    <3>2. Cardinality(s \ {Pick(s)}) = Cardinality(s) - 1 /\ Cardinality(s) - 1 \in Nat
      BY <1>1, <3>1, Removed
    <3>3. Cardinality(s \ {Pick(s)}) \in Nat /\ Cardinality(s \ {Pick(s)}) < n
      BY <1>2, <3>2
    <3>4. SumFunctionOnSet(f, s \ {Pick(s)}) = SumFunctionOnSet(g, s \ {Pick(s)})
      BY <2>1, <3>3
    <3>5. f[Pick(s)] = g[Pick(s)]
      BY <3>1
    <3> QED
      BY <3>1, <3>4, <3>5
  <2> QED
    BY <2>2, <2>3
<1>3. T = Nat
  <2>1. T \in SUBSET Nat
    OBVIOUS
  <2>2. ASSUME NEW n \in Nat, \A k \in Nat : k < n => k \in T PROVE n \in T
    BY <1>2, <2>2
  <2> HIDE DEF T
  <2> QED
    BY <2>1, <2>2, NatSet
<1> QED
  BY <1>1, <1>3

\* A change at one point changes the sum by as much.
LEMMA SumChange == ASSUME NEW S, IsFiniteSet(S), NEW f \in [S -> Int], NEW g \in [S -> Int],
                          NEW x \in S, \A y \in S \ {x} : f[y] = g[y]
                   PROVE  /\ SumFunction(f) \in Int /\ SumFunction(g) \in Int
                          /\ SumFunction(g) = SumFunction(f) - f[x] + g[x]
<1>1. IsFiniteSet(S \ {x}) /\ \A y \in S \ {x} : f[y] \in Int /\ g[y] \in Int
  BY Removed
<1>2. SumFunctionOnSet(f, S \ {x}) = SumFunctionOnSet(g, S \ {x})
  BY <1>1, SumSame
<1>3. /\ SumFunctionOnSet(f, S) \in Int /\ SumFunctionOnSet(g, S) \in Int
      /\ SumFunctionOnSet(f, S) = f[x] + SumFunctionOnSet(f, S \ {x})
      /\ SumFunctionOnSet(g, S) = g[x] + SumFunctionOnSet(g, S \ {x})
  BY SumAny
<1>4. SumFunctionOnSet(f, S \ {x}) \in Int
  <2>1. PICK h : h = [y \in S \ {x} |-> f[y]]
    OBVIOUS
  <2>2. h \in [S \ {x} -> Int] /\ \A y \in S \ {x} : f[y] = h[y]
    BY <1>1, <2>1
  <2>3. SumFunctionOnSet(h, S \ {x}) \in Int
    BY <1>1, <2>2, SumAny
  <2>4. QED
    BY <1>1, <2>2, <2>3, SumSame
<1>5. f[x] \in Int /\ g[x] \in Int
  OBVIOUS
<1>6. DOMAIN f = S /\ DOMAIN g = S
  OBVIOUS
<1>7. QED
  BY <1>2, <1>3, <1>4, <1>5, <1>6 DEF SumFunction

\* A sum of zeros is zero.
LEMMA SumZeros == ASSUME NEW S, IsFiniteSet(S), NEW f \in [S -> Int], \A s \in S : f[s] = 0
                  PROVE  SumFunction(f) = 0
<1> DEFINE T == {n \in Nat : \A s \in SUBSET S : Cardinality(s) = n => SumFunctionOnSet(f, s) = 0}
<1>1. \A s \in SUBSET S : IsFiniteSet(s) /\ Cardinality(s) \in Nat
  BY FS_Subset, FS_CardinalityType
<1>2. ASSUME NEW n \in Nat, \A k \in Nat : k < n => k \in T,
             NEW s \in SUBSET S, Cardinality(s) = n
      PROVE  SumFunctionOnSet(f, s) = 0
  <2>1. \A q \in SUBSET S : Cardinality(q) \in Nat /\ Cardinality(q) < n => SumFunctionOnSet(f, q) = 0
    BY <1>2
  <2> HIDE DEF T
  <2>2. CASE s = {}
    BY <1>1, <2>2, SumStep
  <2>3. CASE s # {}
    <3>1. /\ Pick(s) \in s
          /\ SumFunctionOnSet(f, s) = f[Pick(s)] + SumFunctionOnSet(f, s \ {Pick(s)})
      BY <1>1, <2>3, SumStep
    <3>2. Cardinality(s \ {Pick(s)}) = Cardinality(s) - 1 /\ Cardinality(s) - 1 \in Nat
      BY <1>1, <3>1, Removed
    <3>3. Cardinality(s \ {Pick(s)}) \in Nat /\ Cardinality(s \ {Pick(s)}) < n
      BY <1>2, <3>2
    <3>4. SumFunctionOnSet(f, s \ {Pick(s)}) = 0
      BY <2>1, <3>3
    <3>5. f[Pick(s)] = 0
      BY <3>1
    <3> QED
      BY <3>1, <3>4, <3>5
  <2> QED
    BY <2>2, <2>3
<1>3. T = Nat
  <2>1. T \in SUBSET Nat
    OBVIOUS
  <2>2. ASSUME NEW n \in Nat, \A k \in Nat : k < n => k \in T PROVE n \in T
    BY <1>2, <2>2
  <2> HIDE DEF T
  <2> QED
    BY <2>1, <2>2, NatSet
<1>4. DOMAIN f = S
  OBVIOUS
<1> QED
  BY <1>1, <1>3, <1>4 DEF SumFunction

\* A sum whose other terms are 0 is its one term.
LEMMA SumAlone == ASSUME NEW S, IsFiniteSet(S), NEW f \in [S -> Int], NEW x \in S,
                         \A y \in S \ {x} : f[y] = 0
                  PROVE  SumFunction(f) = f[x]
<1>1. PICK g : g = [y \in S |-> 0]
  OBVIOUS
<1>2. g \in [S -> Int] /\ (\A y \in S : g[y] = 0) /\ \A y \in S \ {x} : g[y] = f[y]
  BY <1>1
<1>3. SumFunction(g) = 0
  BY <1>2, SumZeros
<1>4. SumFunction(f) = SumFunction(g) - g[x] + f[x]
  BY <1>2, SumChange
<1>5. f[x] \in Int /\ g[x] = 0
  BY <1>2
<1>6. QED
  BY <1>3, <1>4, <1>5

\* An appended term is added.
LEMMA SumAppend == ASSUME NEW s \in Seq(Int), NEW x \in Int
                   PROVE  /\ SumFunction(s) \in Int /\ SumFunction(Append(s, x)) = SumFunction(s) + x
<1>1. PICK n \in Nat : n = Len(s)
  OBVIOUS
<1>0. Append(s, x) \in Seq(Int)
  OBVIOUS
<1>2. PICK t \in Seq(Int) : t = Append(s, x)
  BY <1>0
<1>3. DOMAIN s = 1..n /\ s \in [1..n -> Int] /\ IsFiniteSet(1..n) /\ IsFiniteSet(1..n + 1)
  <2>1. 1 \in Int /\ n \in Int /\ n + 1 \in Int
    OBVIOUS
  <2>2. IsFiniteSet(1..n) /\ IsFiniteSet(1..(n + 1))
    BY <2>1, FS_Interval
  <2>3. DOMAIN s = 1..n /\ s \in [1..n -> Int]
    BY <1>1
  <2>4. QED
    BY <2>2, <2>3
<1>4. Len(t) = n + 1 /\ t[n + 1] = x /\ (\A i \in 1..n : t[i] = s[i])
  BY <1>1, <1>2
<1>5. DOMAIN t = 1..n + 1 /\ t \in [1..n + 1 -> Int]
  BY <1>4
<1>6. SumFunctionOnSet(t, 1..n + 1) = t[n + 1] + SumFunctionOnSet(t, (1..n + 1) \ {n + 1})
  <2>1. n + 1 \in 1..n + 1
    OBVIOUS
  <2>2. QED
    BY <1>3, <1>5, <2>1, SumAny
<1>7. (1..n + 1) \ {n + 1} = 1..n
  OBVIOUS
<1>8. SumFunctionOnSet(t, 1..n) = SumFunctionOnSet(s, 1..n)
  BY <1>3, <1>4, SumSame
<1>9. SumFunctionOnSet(s, 1..n) \in Int
  BY <1>3, SumAny
<1>10. SumFunction(s) = SumFunctionOnSet(s, 1..n) /\ SumFunction(t) = SumFunctionOnSet(t, 1..n + 1)
  BY <1>3, <1>5 DEF SumFunction
<1>11. SumFunction(t) = SumFunction(s) + x
  <2>1. PICK v \in Int : v = SumFunctionOnSet(s, 1..n)
    BY <1>9
  <2>2. SumFunction(t) = x + v
    BY <1>4, <1>6, <1>7, <1>8, <1>10, <2>1
  <2>3. QED
    BY <1>10, <2>1, <2>2
<1>12. QED
  BY <1>2, <1>9, <1>10, <1>11
-----------------------------------------------------------------------------
WinDay(m, pnl) == pnl > 0 /\ pnl >= Firm[m].winDayMin

\* Of m's shares in closed trades, only l's may be other than 0.
Alone(l, m) == \A k \in Leader \ {l} : Share(k, m) = 0

\* All of m's shares are in the pass's copy.
Settled(m) == \A l \in Leader : Booked(l) \/ Share(l, m) = 0

\* A record claims no more of an account than the firm grants.
Sound(m, r, t) ==
  /\ r.peak <= t.peak /\ r.wins <= t.wins
  /\ r.phase = "blown" => t.dead
  /\ r.ready => t.wins >= Firm[m].winDays
  
\* A record's peak is one, its multiplier one of two.
Sane(m, r) == r.equity <= r.peak /\ r.mult \in {10, Firm[m].scale}
Records ==
  /\ \A m \in DOMAIN store : Sane(m, store[m])
  /\ pass # None => \A m \in DOMAIN pass.copy : Sane(m, pass.copy[m])
  /\ plan # None => \A m \in DOMAIN plan : Sane(m, plan[m])
  /\ \A m \in Mirror : truth[m].equity <= truth[m].peak

\* Only a mirror has a share, in the store and in the pass's copy.
Sharers == \A l \in Leader, m \in Mirror : Share(l, m) # 0 =>
  m \in DOMAIN store /\ (pass # None => m \in DOMAIN pass.copy)

\* What the copy of a pass has that nobody edited is what the store has, before the booking.
Pass == pass # None =>
  /\ \A l \in pass.booked : pend[l] # None
  /\ pass.saved => \A l \in Leader : pend[l] # None => l \in pass.booked
  /\ \A m \in pass.touched : pass.copy[m].date = day
  /\ \A m \in DOMAIN pass.copy \ pass.edited :
       m \in DOMAIN store /\ (m \notin pass.touched => pass.copy[m] = store[m])
  /\ pass.touched \cap pass.edited \subseteq drifted

\* The store's record of an account that never drifted, also once its one open share is booked.
DiskOf(m) ==
  /\ Sound(m, store[m], truth[m])
  /\ \A l \in Leader : Alone(l, m) =>
       /\ WinDay(m, Share(l, m)) => store[m].wins < truth[m].wins
       /\ store[m].equity + Share(l, m) <= Floor(m, store[m].peak) => truth[m].dead

\* The pass's record, once its shares are booked; a share it has booked is what it has added.
CopyOf(m) == pass # None =>
  /\ \A l \in pass.booked : Share(l, m) \in {0, Believed(m).equity - store[m].equity}
  /\ m \in pass.touched /\ Settled(m) =>
       /\ Sound(m, pass.copy[m], truth[m])
       /\ pass.copy[m].equity <= Floor(m, pass.copy[m].peak) => truth[m].dead

\* What is known of the accounts whose inference was never off.
Known == \A m \in DOMAIN store \ drifted : Drift(m) = 0 /\ DiskOf(m) /\ CopyOf(m)

\* As long as no payout follows a reversal, the ledger is payouts and then reversals of the latest
\* of them, and the others are the operator's.
InOrder(s, p, k) == /\ \A i \in 1..Len(s) : s[i] > 0 <=> i <= k
                    /\ Len(p) = 2 * k - Len(s)
                    /\ \A i \in 1..Len(p) : p[i] = s[i]
                    /\ SumFunction(s) = SumFunction(p)
BankedOf(s, p) == /\ \A i \in 1..Len(s) : s[i] # 0
                  /\ PaidAfterReversal(s) \/ \E k \in 0..Len(s) : InOrder(s, p, k)
Banked == \A m \in Mirror \ uncounted : BankedOf(ledger[m], paid[m])

IInv == TypeOK /\ Records /\ Sharers /\ Pass /\ Known /\ Banked

-----------------------------------------------------------------------------
\* The profile of each mirror's firm.
LEMMA FirmTypes == \A m \in Mirror : Firm[m] \in FirmProfile
  BY MirrorsAssumption

\* A new mirror is a well-formed record.
LEMMA FreshOK == ASSUME NEW m \in Mirror, NEW l \in Leader \cup {None}, NEW ph \in Phases
                 PROVE  Fresh(m, l, ph) \in MirrorRecord /\ Sane(m, Fresh(m, l, ph))
  BY FirmTypes DEF Fresh, MirrorRecord, Sane, FirmProfile, Channels

\* A new mirror has traded nothing.
LEMMA FreshIs == ASSUME NEW m \in Mirror, NEW l \in Leader \cup {None}, NEW ph \in Phases
                 PROVE  /\ Fresh(m, l, ph).equity = 0 /\ Fresh(m, l, ph).peak = 0
                        /\ Fresh(m, l, ph).wins = 0 /\ Fresh(m, l, ph).ready = FALSE
                        /\ Fresh(m, l, ph).phase = ph /\ Fresh(m, l, ph).anchor = None
  BY DEF Fresh

\* The floor is below the peak, and never above the start.
LEMMA FloorOK == ASSUME NEW m \in Mirror, NEW p \in Int
                 PROVE  Floor(m, p) \in Int /\ Floor(m, p) < p /\ Floor(m, p) <= 0
  BY FirmTypes DEF Floor, Smaller, FirmProfile

\* A payout's amount is a number.
LEMMA PreviewOK == ASSUME NEW m \in Mirror, NEW r \in MirrorRecord PROVE Preview(m, r) \in Int
  BY FirmTypes DEF Preview, Smaller, FirmProfile, MirrorRecord

\* Larger returns one of the two, no less than either.
LEMMA LargerOK == ASSUME NEW x \in Int, NEW y \in Int
                  PROVE  /\ Larger(x, y) \in Int /\ Larger(x, y) >= x /\ Larger(x, y) >= y
                         /\ Larger(x, y) = x \/ Larger(x, y) = y
                         /\ x \in Nat => Larger(x, y) \in Nat
  BY DEF Larger

\* Larger of a peak and an equity is a peak.
LEMMA LargerNat == \A x \in Nat, y \in Int : Larger(x, y) \in Nat
  BY DEF Larger

\* What a booked day changes in a record.
LEMMA CountedOK == ASSUME NEW m \in Mirror, NEW r \in MirrorRecord, NEW p \in Int, NEW d \in Nat
                   PROVE  LET c == Counted(m, r, p, d) IN
                          /\ c \in MirrorRecord /\ c.equity = r.equity + p /\ c.peak = r.peak
                          /\ c.date = d /\ c.mult = r.mult /\ c.phase = r.phase /\ c.ready = r.ready
                          /\ c.wins = IF WinDay(m, p) THEN r.wins + 1 ELSE r.wins
<1>1. /\ r.equity \in Int /\ r.days \in Nat /\ r.window \in Int /\ r.best \in Nat
      /\ r.evalBest \in Nat /\ r.wins \in Nat
  BY DEF MirrorRecord
<1>2. PICK best \in Nat : best = IF p > 0 THEN Larger(r.best, p) ELSE r.best
  BY <1>1, LargerNat
<1>3. PICK ev \in Nat : ev = IF p > 0 /\ r.phase = "eval" THEN Larger(r.evalBest, p) ELSE r.evalBest
  BY <1>1, LargerNat
<1>4. PICK wins \in Nat : wins = IF WinDay(m, p) THEN r.wins + 1 ELSE r.wins
  BY <1>1
<1>5. Counted(m, r, p, d) = [r EXCEPT !.equity = r.equity + p, !.days = r.days + 1,
                               !.window = r.window + p, !.date = d, !.lastPnl = p,
                               !.best = best, !.evalBest = ev, !.wins = wins]
  BY <1>2, <1>3, <1>4 DEF Counted, MirrorRecord, WinDay
<1>6. QED
  <2>1. PICK e \in Int, n \in Nat, w \in Int : e = r.equity + p /\ n = r.days + 1 /\ w = r.window + p
    BY <1>1
  <2>2. Counted(m, r, p, d) = [r EXCEPT !.equity = e, !.days = n, !.window = w, !.date = d,
                                 !.lastPnl = p, !.best = best, !.evalBest = ev, !.wins = wins]
    BY <1>5, <2>1
  <2>3. PICK q \in MirrorRecord : q = [r EXCEPT !.equity = e, !.days = n, !.window = w, !.date = d]
    BY DEF MirrorRecord
  <2>4. Counted(m, r, p, d) = [q EXCEPT !.lastPnl = p, !.best = best, !.evalBest = ev, !.wins = wins]
    BY <2>2, <2>3 DEF MirrorRecord
  <2>5. [q EXCEPT !.lastPnl = p, !.best = best, !.evalBest = ev, !.wins = wins] \in MirrorRecord
    BY DEF MirrorRecord
  <2>6. Counted(m, r, p, d) \in MirrorRecord
    BY <2>4, <2>5
  <2>7. QED
    BY <1>4, <2>1, <2>2, <2>6 DEF MirrorRecord

\* What judging a record changes: blown only at the floor, ready only with the days.
LEMMA JudgedOK == ASSUME NEW m \in Mirror, NEW r \in MirrorRecord
                  PROVE  LET j == Judged(m, r) IN
                         /\ j \in MirrorRecord /\ j.equity = r.equity /\ j.mult = r.mult
                         /\ j.date = r.date /\ j.wins = r.wins
                         /\ j.peak = IF r.equity <= Floor(m, r.peak) THEN r.peak
                                     ELSE Larger(r.peak, r.equity)
                         /\ j.phase = "blown" => r.phase = "blown" \/ r.equity <= Floor(m, r.peak)
                         /\ j.ready => r.ready \/ r.wins >= Firm[m].winDays
<1>1. r.equity \in Int /\ r.peak \in Nat /\ r.ready \in BOOLEAN /\ r.phase \in Phases
  BY DEF MirrorRecord
<1>2. CASE r.equity <= Floor(m, r.peak)
  <2>1. Judged(m, r) = [r EXCEPT !.phase = "blown", !.ready = FALSE]
    BY <1>2 DEF Judged
  <2>2. QED
    BY <1>2, <2>1 DEF MirrorRecord, Phases
<1>3. CASE ~ (r.equity <= Floor(m, r.peak))
  <2>1. PICK pk \in Nat : pk = Larger(r.peak, r.equity)
    BY <1>1, LargerNat
  <2>2. PICK ph \in Phases : /\ ph = IF /\ r.phase = "eval" /\ r.equity >= Firm[m].target
                                        /\ r.days >= Firm[m].minDays /\ Consistent(m, r)
                                     THEN "passed" ELSE r.phase
                             /\ ph = "blown" => r.phase = "blown"
    BY <1>1 DEF Phases
  <2>3. PICK rd \in BOOLEAN : /\ rd = (r.ready \/ (r.phase = "funded" /\ Eligible(m, r)))
                              /\ rd => r.ready \/ r.wins >= Firm[m].winDays
    BY <1>1 DEF Eligible
  <2>4. Judged(m, r) = [r EXCEPT !.peak = pk, !.phase = ph, !.ready = rd]
    BY <1>3, <2>1, <2>2, <2>3 DEF Judged, MirrorRecord
  <2>5. PICK j : j = [r EXCEPT !.peak = pk, !.phase = ph, !.ready = rd]
    OBVIOUS
  <2>6. /\ j \in MirrorRecord /\ j.equity = r.equity /\ j.mult = r.mult /\ j.date = r.date
        /\ j.wins = r.wins /\ j.peak = pk /\ j.phase = ph /\ j.ready = rd
    BY <2>5 DEF MirrorRecord
  <2>7. QED
    BY <1>3, <2>1, <2>2, <2>3, <2>4, <2>5, <2>6
<1>4. QED
  BY <1>2, <1>3

\* What a synced balance changes.
LEMMA SyncedOK == ASSUME NEW r \in MirrorRecord, NEW e \in Int
                  PROVE  LET y == Synced(r, e) IN
                         /\ y \in MirrorRecord /\ y.equity = e /\ y.peak = Larger(r.peak, e)
                         /\ y.mult = r.mult /\ y.wins = r.wins /\ y.phase = r.phase
                         /\ y.ready = r.ready /\ y.date = r.date
                         /\ y.payouts = r.payouts
<1>1. r.peak \in Nat
  BY DEF MirrorRecord
<1>2. PICK q \in Nat : q = Larger(r.peak, e)
  BY <1>1, LargerOK
<1>3. Synced(r, e) = [r EXCEPT !.equity = e, !.peak = q]
  BY <1>1, <1>2 DEF Synced, MirrorRecord
<1>4. QED
  BY <1>2, <1>3 DEF MirrorRecord

\* What booking an outcome makes of a record.
LEMMA AdvancedOK == ASSUME NEW m \in Mirror, NEW r \in MirrorRecord, NEW p \in Int, NEW d \in Nat
                    PROVE  LET a == Advanced(m, r, p, d) IN
                           /\ a \in MirrorRecord /\ a.equity = r.equity + p /\ a.mult = r.mult
                           /\ a.date = d
                           /\ a.wins = IF WinDay(m, p) THEN r.wins + 1 ELSE r.wins
                           /\ a.peak = IF r.equity + p <= Floor(m, r.peak) THEN r.peak
                                       ELSE Larger(r.peak, r.equity + p)
                           /\ a.phase = "blown" =>
                                r.phase = "blown" \/ r.equity + p <= Floor(m, r.peak)
                           /\ a.ready => r.ready \/ a.wins >= Firm[m].winDays
<1>1. PICK c \in MirrorRecord : c = Counted(m, r, p, d)
  BY CountedOK
<1>2. /\ c.equity = r.equity + p /\ c.peak = r.peak
      /\ c.date = d /\ c.mult = r.mult /\ c.phase = r.phase /\ c.ready = r.ready
      /\ c.wins = IF WinDay(m, p) THEN r.wins + 1 ELSE r.wins
  BY <1>1, CountedOK
<1>3. Advanced(m, r, p, d) = Judged(m, c)
  BY <1>1 DEF Advanced
<1>4. QED
  BY <1>2, <1>3, JudgedOK

\* What a payout makes of a record.
LEMMA PaidOutOK == ASSUME NEW m \in Mirror, NEW r \in MirrorRecord
                   PROVE  LET a == PaidOut(m, r) IN
                          /\ a \in MirrorRecord /\ a.equity = r.equity - Preview(m, r)
                          /\ a.peak = r.peak /\ a.mult = r.mult /\ a.wins = 0 /\ a.ready = FALSE
                          /\ a.phase = "blown" => r.phase = "blown"
<1>1. r.equity \in Int /\ r.payouts \in Nat /\ r.phase \in Phases /\ r.channel \in Channels
  BY DEF MirrorRecord
<1>2. PICK e \in Int, n \in Nat : e = r.equity - Preview(m, r) /\ n = r.payouts + 1
  BY <1>1, PreviewOK
<1>3. PICK ch \in Channels : ch = IF Firm[m].gate THEN "nuke" ELSE r.channel
  BY <1>1 DEF Channels
<1>4. PICK ph \in Phases : /\ ph = IF r.payouts + 1 >= Firm[m].payoutsTarget THEN "retired" ELSE r.phase
                           /\ ph = "blown" => r.phase = "blown"
  BY <1>1 DEF Phases
<1>0. PICK z \in Nat, zi \in Int : z = 0 /\ zi = 0
  OBVIOUS
<1>5. PICK q \in MirrorRecord : q = [r EXCEPT !.equity = e, !.payouts = n, !.wins = z, !.window = zi]
  BY DEF MirrorRecord
<1>6. PaidOut(m, r) = [q EXCEPT !.best = z, !.ready = FALSE, !.channel = ch, !.phase = ph]
  BY <1>0, <1>2, <1>3, <1>4, <1>5 DEF PaidOut, MirrorRecord
<1>7. [q EXCEPT !.best = z, !.ready = FALSE, !.channel = ch, !.phase = ph] \in MirrorRecord
  BY DEF MirrorRecord
<1>8. QED
  BY <1>0, <1>2, <1>4, <1>5, <1>6, <1>7 DEF MirrorRecord

\* A payout leaves no more than the peak, also one marked without profit.
LEMMA PaidOutSane == ASSUME NEW m \in Mirror, NEW r \in MirrorRecord, Sane(m, r)
                     PROVE  Sane(m, PaidOut(m, r))
<1>1. PICK a \in MirrorRecord : /\ a = PaidOut(m, r) /\ a.equity = r.equity - Preview(m, r)
                                /\ a.peak = r.peak /\ a.mult = r.mult
  BY PaidOutOK
<1>2. PICK e \in Int, k \in Nat : e = r.equity /\ k = r.peak /\ e <= k
  BY DEF MirrorRecord, Sane
<1>3. PICK cap \in Nat \ {0}, request \in Nat, half \in Int :
        cap = Firm[m].cap /\ request = Firm[m].request /\ half = e \div 2
  BY <1>2, FirmTypes DEF FirmProfile
<1>4. e < 0 => e <= half /\ half < 0
  BY <1>2, <1>3
<1>5. e >= 0 => 0 <= half
  BY <1>2, <1>3
<1>6. e - Smaller(half, cap) <= k
  BY <1>2, <1>3, <1>4, <1>5 DEF Smaller
<1>7. e - Smaller(request, Smaller(cap, e)) <= k
  BY <1>2, <1>3 DEF Smaller
<1>8. r.equity - Preview(m, r) <= r.peak
  BY <1>2, <1>3, <1>6, <1>7 DEF Preview
<1>9. QED
  BY <1>1, <1>8 DEF Sane

\* What an activation makes of a record.
LEMMA ActivatedOK == ASSUME NEW m \in Mirror, NEW r \in MirrorRecord, NEW l \in Leader \cup {None}
                     PROVE  LET a == Activated(m, r, l) IN
                            /\ a \in MirrorRecord /\ a.equity = 0 /\ a.peak = 0 /\ a.mult = 10
                            /\ a.wins = 0 /\ a.ready = FALSE /\ a.phase \in {"waiting", "funded"}
<1>1. PICK ch \in Channels : ch = IF Firm[m].gate THEN "nuke" ELSE r.channel
  BY DEF Channels, MirrorRecord
<1>2. PICK ph \in {"waiting", "funded"} : ph = IF l = None THEN "waiting" ELSE "funded"
  OBVIOUS
<1>3. PICK z \in Nat, zi \in Int, ten \in 1..10 : z = 0 /\ zi = 0 /\ ten = 10
  OBVIOUS
<1>4. PICK q \in MirrorRecord : q = [r EXCEPT !.equity = zi, !.peak = z, !.days = z, !.wins = z]
  BY DEF MirrorRecord
<1>5. PICK s \in MirrorRecord : s = [q EXCEPT !.window = zi, !.best = z, !.evalBest = z, !.ready = FALSE]
  BY DEF MirrorRecord
<1>6. PICK t \in MirrorRecord : t = [s EXCEPT !.mult = ten, !.anchor = None, !.channel = ch]
  BY DEF MirrorRecord
<1>7. PICK u \in MirrorRecord : u = [t EXCEPT !.leader = l, !.phase = ph]
  BY DEF MirrorRecord, Phases
<1>8. s = [r EXCEPT !.equity = 0, !.peak = 0, !.days = 0, !.wins = 0,
                    !.window = 0, !.best = 0, !.evalBest = 0, !.ready = FALSE]
  BY <1>3, <1>4, <1>5 DEF MirrorRecord
<1>9. u = [s EXCEPT !.mult = 10, !.anchor = None, !.channel = ch, !.leader = l, !.phase = ph]
  BY <1>3, <1>6, <1>7 DEF MirrorRecord
<1>10. Activated(m, r, l) = u
  BY <1>1, <1>2, <1>8, <1>9 DEF Activated, MirrorRecord
<1>11. s.equity = 0 /\ s.peak = 0 /\ s.wins = 0 /\ s.ready = FALSE
  BY <1>8 DEF MirrorRecord
<1>12. /\ u.equity = s.equity /\ u.peak = s.peak /\ u.wins = s.wins /\ u.ready = s.ready
       /\ u.mult = 10 /\ u.phase = ph
  BY <1>5, <1>9 DEF MirrorRecord
<1>13. QED
  BY <1>2, <1>7, <1>10, <1>11, <1>12

\* What a box's row makes of a record: its equity from the anchor, or an anchor.
LEMMA PatchedOK == ASSUME NEW s \in MirrorRecord, NEW r \in MirrorRecord, NEW b \in Int
                   PROVE  LET a == Patched(s, r, b) IN
                          /\ a \in MirrorRecord /\ a.mult = s.mult /\ a.wins = s.wins
                          /\ a.phase = s.phase /\ a.ready = s.ready
                          /\ \/ a = s
                             \/ r.anchor # None /\ a.equity = b - r.anchor
                                  /\ a.peak = Larger(s.peak, a.equity)
                             \/ r.anchor = None /\ r.equity = 0 /\ a.equity = 0 /\ a.peak = s.peak
<1>1. s.peak \in Nat /\ (r.anchor # None => r.anchor \in Int)
  BY DEF MirrorRecord
<1>2. CASE r.anchor # None
  <2>1. PICK e \in Int : e = b - r.anchor
    BY <1>1, <1>2
  <2>2. Patched(s, r, b) = Synced(s, e)
    BY <1>2, <2>1 DEF Patched
  <2>3. QED
    BY <1>2, <2>1, <2>2, SyncedOK
<1>3. CASE r.anchor = None /\ Untraded(r)
  <2>1. PICK y \in MirrorRecord : y = Synced(s, 0)
    BY SyncedOK
  <2>2. /\ y.equity = 0 /\ y.peak = s.peak /\ y.mult = s.mult /\ y.wins = s.wins
        /\ y.phase = s.phase /\ y.ready = s.ready
    BY <1>1, <2>1, SyncedOK DEF Larger
  <2>3. Patched(s, r, b) = [y EXCEPT !.anchor = b]
    BY <1>3, <2>1 DEF Patched
  <2>4. QED
    BY <1>3, <2>2, <2>3 DEF MirrorRecord, Untraded
<1>4. CASE r.anchor = None /\ ~ Untraded(r)
  BY <1>4 DEF Patched
<1>5. QED
  BY <1>2, <1>3, <1>4

\* A patched record's equity is at most its peak.
LEMMA PatchedSane == ASSUME NEW m \in Mirror, NEW s \in MirrorRecord, Sane(m, s),
                            NEW r \in MirrorRecord, NEW b \in Int
                     PROVE  Sane(m, Patched(s, r, b))
<1>1. PICK a \in MirrorRecord :
        /\ a = Patched(s, r, b) /\ a.mult = s.mult
        /\ \/ a = s
           \/ a.peak = Larger(s.peak, a.equity)
           \/ a.equity = 0 /\ a.peak = s.peak
  BY PatchedOK
<1>2. a.equity \in Int /\ s.equity \in Int /\ s.peak \in Nat
  BY DEF MirrorRecord
<1>3. QED
  BY <1>1, <1>2 DEF Sane, Larger

\* What a copied share makes of the truth.
LEMMA CopiedOK == ASSUME NEW m \in Mirror, NEW t \in Truths, NEW p \in Int
                  PROVE  LET c == Copied(m, t, p) IN
                         /\ c \in Truths /\ c.equity = t.equity + p
                         /\ c.peak = Larger(t.peak, t.equity + p)
                         /\ t.dead \/ t.equity + p <= Floor(m, t.peak) => c.dead
                         /\ c.wins = IF WinDay(m, p) THEN t.wins + 1 ELSE t.wins
<1>1. t.equity \in Int /\ t.peak \in Nat /\ t.wins \in Nat /\ t.dead \in BOOLEAN
  BY DEF Truths
<1>2. PICK e \in Int : e = t.equity + p
  BY <1>1
<1>3. PICK pk \in Nat : pk = Larger(t.peak, e)
  BY <1>1, LargerNat
<1>4. PICK w \in Nat : w = IF WinDay(m, p) THEN t.wins + 1 ELSE t.wins
  BY <1>1
<1>5. PICK dead \in BOOLEAN : dead = (t.dead \/ e <= Floor(m, t.peak))
  OBVIOUS
<1>6. Copied(m, t, p) = [equity |-> e, peak |-> pk, dead |-> dead, wins |-> w]
  BY <1>2, <1>3, <1>4, <1>5 DEF Copied, WinDay, Floor
<1>7. PICK c : c = [equity |-> e, peak |-> pk, dead |-> dead, wins |-> w]
  OBVIOUS
<1>8. c \in Truths /\ c.equity = e /\ c.peak = pk /\ c.wins = w /\ c.dead = dead
  BY <1>7 DEF Truths
<1>9. QED
  BY <1>2, <1>3, <1>4, <1>5, <1>6, <1>7, <1>8

\* A mirror's share of an outcome is whole.
LEMMA ScaledOK == ASSUME NEW m \in Mirror, NEW r \in MirrorRecord, Sane(m, r), NEW d \in Outcome
                  PROVE  Scaled(d, r) \in Int /\ Scaled(d, r) * 10 = d * r.mult
<1>1. d \in Int /\ (d * Firm[m].scale) % 10 = 0 /\ Firm[m].scale \in 1..10
  BY MirrorsAssumption, FirmTypes DEF FirmProfile
<1>2. CASE r.mult = 10
  BY <1>1, <1>2 DEF Scaled
<1>3. CASE r.mult = Firm[m].scale
  <2>1. PICK x \in Int : x = d * r.mult
    BY <1>1, <1>3
  <2>2. x % 10 = 0
    BY <1>1, <1>3, <2>1
  <2>3. (x \div 10) * 10 = x
    BY <2>2
  <2>4. QED
    BY <2>1, <2>3 DEF Scaled
<1>4. QED
  BY <1>2, <1>3 DEF Sane

-----------------------------------------------------------------------------
\* What of a mirror's share is neither in the store nor in the pass's copy.
Open(l, m) == IF Booked(l) THEN 0 ELSE Share(l, m)

\* Shares are numbers.
LEMMA ShareOK == TypeOK => \A l \in Leader, m \in Mirror : Share(l, m) \in Int
  BY MirrorsAssumption DEF TypeOK, Share, Closed

\* What is not booked is 0 when all is settled, and the one open share when there is one.
LEMMA UnbookedOK ==
  ASSUME TypeOK, NEW m \in Mirror
  PROVE  /\ Unbooked(m) \in Int
         /\ Settled(m) => Unbooked(m) = 0
         /\ \A l \in Leader : (\A k \in Leader \ {l} : Open(k, m) = 0) => Unbooked(m) = Open(l, m)
<1>1. PICK f : f = [l \in Leader |-> Open(l, m)]
  OBVIOUS
<1>2. f \in [Leader -> Int] /\ Unbooked(m) = SumFunction(f) /\ IsFiniteSet(Leader)
  BY <1>1, ShareOK, MirrorsAssumption DEF Open, Unbooked, Sum
<1>3. \A l \in Leader : f[l] = Open(l, m)
  BY <1>1
<1>4. Settled(m) => Unbooked(m) = 0
  <2>1. Settled(m) => \A l \in Leader : f[l] = 0
    BY <1>3 DEF Settled, Open
  <2>2. QED
    BY <1>2, <2>1, SumZeros
<1>5. \A l \in Leader : (\A k \in Leader \ {l} : Open(k, m) = 0) => Unbooked(m) = Open(l, m)
  BY <1>2, <1>3, SumAlone
<1>6. Unbooked(m) \in Int
  <2>1. CASE Leader = {}
    BY <1>4, <2>1 DEF Settled
  <2>2. CASE Leader # {}
    BY <1>2, <2>2, SumChange
  <2>3. QED
    BY <2>1, <2>2
<1>7. QED
  BY <1>4, <1>5, <1>6

\* One leader's change moves what is not booked by as much.
LEMMA UnbookedMoves ==
  ASSUME TypeOK, TypeOK', NEW m \in Mirror
  PROVE  /\ (\A k \in Leader : Open(k, m)' = Open(k, m)) => Unbooked(m)' = Unbooked(m)
         /\ \A l \in Leader : (\A k \in Leader \ {l} : Open(k, m)' = Open(k, m)) =>
              Unbooked(m)' = Unbooked(m) - Open(l, m) + Open(l, m)'
<1>1. PICK f : f = [l \in Leader |-> Open(l, m)]
  OBVIOUS
<1>2. PICK g : g = [l \in Leader |-> Open(l, m)']
  OBVIOUS
<1>3. f \in [Leader -> Int] /\ Unbooked(m) = SumFunction(f) /\ IsFiniteSet(Leader)
  BY <1>1, ShareOK, MirrorsAssumption DEF Open, Unbooked, Sum
<1>4. (\A l \in Leader : Share(l, m) \in Int)'
  BY MirrorsAssumption DEF TypeOK, Share, Closed
<1>5. g \in [Leader -> Int] /\ Unbooked(m)' = SumFunction(g)
  BY <1>2, <1>4 DEF Open, Unbooked, Sum
<1>6. (\A k \in Leader : Open(k, m)' = Open(k, m)) => f = g
  BY <1>1, <1>2
<1>7. ASSUME NEW l \in Leader, \A k \in Leader \ {l} : Open(k, m)' = Open(k, m)
      PROVE  Unbooked(m)' = Unbooked(m) - Open(l, m) + Open(l, m)'
  <2>1. \A k \in Leader \ {l} : f[k] = g[k]
    BY <1>1, <1>2, <1>7
  <2>2. SumFunction(g) = SumFunction(f) - f[l] + g[l]
    BY <1>3, <1>5, <2>1, SumChange
  <2>3. f[l] = Open(l, m) /\ g[l] = Open(l, m)'
    BY <1>1, <1>2
  <2>4. QED
    BY <1>3, <1>5, <2>2, <2>3
<1>8. QED
  BY <1>3, <1>5, <1>6, <1>7
-----------------------------------------------------------------------------
(* Types and records.                                                      *)

\* What a step of the pass or of anyone must show, part by part.
StoreTyped == /\ DOMAIN store \subseteq Mirror /\ store \in [DOMAIN store -> MirrorRecord]
              /\ \A m \in DOMAIN store : Sane(m, store[m])
PassTyped == pass # None =>
  /\ DOMAIN pass.copy \subseteq Mirror /\ pass \in Passes(DOMAIN pass.copy)
  /\ \A m \in DOMAIN pass.copy : Sane(m, pass.copy[m])
TruthTyped == truth \in [Mirror -> Truths] /\ \A m \in Mirror : truth[m].equity <= truth[m].peak
BooksTyped == ledger \in [Mirror -> Seq(Int)] /\ paid \in [Mirror -> Seq(Int)] /\ uncounted \subseteq Mirror
RowsTyped == seen \in [Mirror -> {None} \cup Rows] /\ report \in [Mirror -> {None} \cup Rows]
TradesTyped == pend \in [Leader -> {None} \cup Closed] /\ fired \in [Leader -> 0..MaxDay]
PlanTyped == plan # None =>
  /\ DOMAIN plan \subseteq Mirror /\ plan \in [DOMAIN plan -> MirrorRecord]
  /\ \A m \in DOMAIN plan : Sane(m, plan[m])
Intakes == UNION {Imports(names) : names \in SUBSET Mirror}
IntakeTyped == import # None =>
  /\ import \in Intakes
  /\ \A m \in import.todo : import.copy[m] \in MirrorRecord /\ import.rows[m] # None
CopiesTyped == PlanTyped /\ IntakeTyped
RestTyped == drifted \subseteq Mirror /\ day \in 1..MaxDay /\ events \in 0..MaxEvents

Typed == /\ StoreTyped /\ PassTyped /\ TruthTyped /\ BooksTyped
         /\ RowsTyped /\ TradesTyped /\ RestTyped /\ CopiesTyped

\* An import under way is of some set of names, and not None.
LEMMA IntakesAre == \A i : /\ i \in Intakes <=> \E names \in SUBSET Mirror : i \in Imports(names)
                           /\ i \in Intakes => i # None
  BY MirrorsAssumption DEF Intakes

\* The parts are the type invariant and the records.
LEMMA TypedIs == Typed <=> TypeOK /\ Records
  BY IntakesAre
     DEF Typed, TypeOK, Records, StoreTyped, PassTyped, TruthTyped, BooksTyped, RowsTyped,
         TradesTyped, RestTyped, CopiesTyped, PlanTyped, IntakeTyped

\* The fields of a pass under way.
LEMMA PassFields == ASSUME PassTyped, pass # None
                    PROVE  /\ pass.copy \in [DOMAIN pass.copy -> MirrorRecord]
                           /\ DOMAIN pass.copy \subseteq Mirror
                           /\ pass.touched \subseteq DOMAIN pass.copy /\ pass.booked \subseteq Leader
                           /\ pass.edited \subseteq Mirror /\ pass.saved \in BOOLEAN
                           /\ \A m \in DOMAIN pass.copy : Sane(m, pass.copy[m])
  BY DEF PassTyped, Passes

\* A pass is not None.
LEMMA PassIs == ASSUME NEW names \in SUBSET Mirror, NEW p \in Passes(names) PROVE p # None
  BY MirrorsAssumption

\* Noting an edit keeps the pass typed.
LEMMA EditedTyped == ASSUME PassTyped, NEW E \in SUBSET Mirror, EditedAll(E)
                     PROVE  PassTyped'
<1>1. CASE pass = None
  BY <1>1 DEF EditedAll, PassTyped
<1>2. CASE pass # None
  <2>1. pass' = [pass EXCEPT !.edited = @ \cup E]
    BY <1>2 DEF EditedAll
  <2>2. pass'.copy = pass.copy /\ pass' \in Passes(DOMAIN pass.copy)
    BY <1>2, <2>1, PassFields DEF PassTyped, Passes
  <2>3. QED
    BY <1>2, <2>2, PassFields DEF PassTyped
<1>3. QED
  BY <1>1, <1>2

\* Watch adds mirrors only.
LEMMA RestKept == ASSUME RestTyped, Watch, UNCHANGED <<day, events>> PROVE RestTyped'
  BY DEF RestTyped, Watch

\* So it does when an event is counted.
LEMMA RestCounted == ASSUME RestTyped, Watch, events < MaxEvents, events' = events + 1, day' = day
                     PROVE  RestTyped'
  BY MirrorsAssumption DEF RestTyped, Watch

\* The first state is typed.
LEMMA InitTyped == Init => Typed
<1> SUFFICES ASSUME Init PROVE Typed
  OBVIOUS
<1> USE DEF Init
<1>1. PICK lead \in [Mirror -> Leader], ph \in [Mirror -> UNION {FirstPhase[m] : m \in Mirror}],
           out \in Unlisted, before \in Earlier :
             /\ \A m \in Mirror : ph[m] \in FirstPhase[m]
             /\ store = [m \in Mirror \ out |-> Fresh(m, lead[m], ph[m])]
             /\ truth = [m \in Mirror |-> IF m \in out THEN Copied(m, Start(m), before) ELSE Start(m)]
  OBVIOUS
<1>2. before \in Int /\ out \subseteq Mirror /\ \A m \in Mirror : ph[m] \in Phases
  BY <1>1, MirrorsAssumption
<1>3. StoreTyped
  <2>1. DOMAIN store = Mirror \ out
    BY <1>1
  <2>2. \A m \in Mirror \ out : store[m] = Fresh(m, lead[m], ph[m])
    BY <1>1
  <2>3. \A m \in Mirror \ out : store[m] \in MirrorRecord /\ Sane(m, store[m])
    BY <1>1, <1>2, <2>2, FreshOK
  <2>4. QED
    BY <1>1, <2>1, <2>3 DEF StoreTyped
<1>4. TruthTyped
  <2>1. \A m \in Mirror : Start(m) \in Truths /\ Start(m).equity <= Start(m).peak
    BY DEF Start, Truths
  <2>2. \A m \in Mirror : /\ Copied(m, Start(m), before) \in Truths
                          /\ Copied(m, Start(m), before).equity <= Copied(m, Start(m), before).peak
    <3> SUFFICES ASSUME NEW m \in Mirror
                 PROVE  /\ Copied(m, Start(m), before) \in Truths
                        /\ Copied(m, Start(m), before).equity <= Copied(m, Start(m), before).peak
      OBVIOUS
    <3>1. PICK t \in Truths : t = Start(m) /\ t.equity = 0 /\ t.peak = 0
      BY <2>1 DEF Start
    <3>2. /\ Copied(m, t, before) \in Truths /\ Copied(m, t, before).equity = t.equity + before
          /\ Copied(m, t, before).peak = Larger(t.peak, t.equity + before)
      BY <1>2, CopiedOK
    <3>3. QED
      BY <1>2, <3>1, <3>2 DEF Larger
  <2>3. QED
    BY <1>1, <2>1, <2>2 DEF TruthTyped
<1>5. PassTyped /\ BooksTyped /\ RowsTyped /\ TradesTyped /\ RestTyped /\ CopiesTyped
  BY MirrorsAssumption DEF PassTyped, BooksTyped, RowsTyped, TradesTyped, RestTyped,
                           CopiesTyped, PlanTyped, IntakeTyped
<1>6. QED
  BY <1>3, <1>4, <1>5 DEF Typed

\* A trade's shares, and what they do.
LEMMA TradeIs ==
  ASSUME Typed, NEW l \in Leader, NEW delta \in Outcome, Trade(l, delta)
  PROVE  \E by \in [Mirror -> Int] :
           /\ by = [m \in Mirror |-> IF m \in DOMAIN store /\ Follows(store[m], l)
                                     THEN Scaled(delta, store[m]) ELSE 0]
           /\ pend' = [pend EXCEPT ![l] = [delta |-> delta, by |-> by]]
           /\ pend' \in [Leader -> {None} \cup Closed] /\ pend'[l] \in Closed /\ pend'[l] # None
           /\ pend'[l].by = by /\ pend'[l].delta = delta
           /\ \A k \in Leader \ {l} : pend'[k] = pend[k]
           /\ truth' = [m \in Mirror |-> Copied(m, truth[m], by[m])]
<1> DEFINE by == [m \in Mirror |-> IF m \in DOMAIN store /\ Follows(store[m], l)
                                  THEN Scaled(delta, store[m]) ELSE 0]
<1>1. by \in [Mirror -> Int]
  <2>1. \A m \in DOMAIN store : m \in Mirror /\ store[m] \in MirrorRecord /\ Sane(m, store[m])
    BY DEF Typed, StoreTyped
  <2>2. \A m \in DOMAIN store : Scaled(delta, store[m]) \in Int
    BY <2>1, ScaledOK
  <2>3. QED
    BY <2>2
<1>2. /\ pend' = [pend EXCEPT ![l] = [delta |-> delta, by |-> by]]
      /\ truth' = [m \in Mirror |-> Copied(m, truth[m], by[m])]
  BY DEF Trade
<1>3. by = [m \in Mirror |-> IF m \in DOMAIN store /\ Follows(store[m], l)
                             THEN Scaled(delta, store[m]) ELSE 0]
  OBVIOUS
<1> HIDE DEF by
<1>4. PICK c \in Closed : c = [delta |-> delta, by |-> by] /\ c.by = by /\ c.delta = delta /\ c # None
  <2>1. [delta |-> delta, by |-> by] \in Closed
    BY <1>1 DEF Closed
  <2>2. QED
    BY <2>1, MirrorsAssumption
<1>5. pend \in [Leader -> {None} \cup Closed] /\ pend' = [pend EXCEPT ![l] = c]
  BY <1>2, <1>4 DEF Typed, TradesTyped
<1>6. pend' \in [Leader -> {None} \cup Closed] /\ pend'[l] = c /\ \A k \in Leader \ {l} : pend'[k] = pend[k]
  BY <1>5
<1>7. WITNESS by \in [Mirror -> Int]
<1>8. QED
  BY <1>2, <1>3, <1>4, <1>6

\* Each action keeps the parts it touches.
LEMMA TradeTyped == ASSUME Typed, Watch, NEW l \in Leader, NEW delta \in Outcome, Trade(l, delta)
                    PROVE  Typed'
<1>1. StoreTyped /\ TruthTyped /\ TradesTyped /\ RestTyped /\ BooksTyped /\ RowsTyped /\ pass = None
  BY DEF Typed, Trade
<1>2. PICK by \in [Mirror -> Int] : /\ pend' \in [Leader -> {None} \cup Closed]
                                    /\ truth' = [m \in Mirror |-> Copied(m, truth[m], by[m])]
  BY TradeIs
<1>3. truth' = [m \in Mirror |-> Copied(m, truth[m], by[m])]
  BY <1>2
<1>4. TruthTyped'
  <2>1. \A m \in Mirror : truth[m] \in Truths /\ truth[m].equity \in Int /\ truth[m].peak \in Nat
    BY <1>1 DEF TruthTyped, Truths
  <2>2. \A m \in Mirror : by[m] \in Int
    BY <1>2
  <2>3. ASSUME NEW m \in Mirror
        PROVE  Copied(m, truth[m], by[m]) \in Truths
               /\ Copied(m, truth[m], by[m]).equity <= Copied(m, truth[m], by[m]).peak
    <3>1. PICK e \in Int, pk \in Nat : e = truth[m].equity + by[m] /\ pk = truth[m].peak
      BY <2>1, <2>2
    <3>2. /\ Copied(m, truth[m], by[m]) \in Truths /\ Copied(m, truth[m], by[m]).equity = e
          /\ Copied(m, truth[m], by[m]).peak = Larger(pk, e)
      BY <2>1, <2>2, <3>1, CopiedOK
    <3>3. QED
      BY <3>1, <3>2 DEF Larger
  <2>4. QED
    BY <1>3, <2>3 DEF TruthTyped
<1>5. TradesTyped'
  <2>2. fired' \in [Leader -> 0..MaxDay]
    BY <1>1, MirrorsAssumption DEF Trade, TradesTyped, RestTyped
  <2>3. QED
    BY <1>2, <2>2 DEF TradesTyped
<1>6. StoreTyped' /\ BooksTyped' /\ RowsTyped' /\ PassTyped' /\ RestTyped'
  BY <1>1, RestKept DEF Trade, StoreTyped, BooksTyped, RowsTyped, PassTyped
<1>7. CopiesTyped'
  BY DEF Trade, Typed, CopiesTyped, PlanTyped, IntakeTyped
<1>8. QED
  BY <1>4, <1>5, <1>6, <1>7 DEF Typed

\* The clock keeps the types.
LEMMA NextDayTyped == ASSUME Typed, Watch, NextDay PROVE Typed'
<1>1. RestTyped'
  BY MirrorsAssumption DEF Typed, NextDay, RestTyped, Watch
<1>2. QED
  BY <1>1 DEF Typed, NextDay, StoreTyped, PassTyped, TruthTyped, BooksTyped, RowsTyped, TradesTyped, CopiesTyped, PlanTyped, IntakeTyped

\* A pass loads typed records.
LEMMA PassBeginsTyped == ASSUME Typed, Watch, PassBegins PROVE Typed' /\ pass' # None
<1>1. StoreTyped /\ TruthTyped /\ BooksTyped /\ RowsTyped /\ TradesTyped /\ RestTyped
  BY DEF Typed
<1>2. /\ pass' = [copy |-> store, touched |-> {}, booked |-> {}, edited |-> {}, saved |-> FALSE]
      /\ UNCHANGED <<store, ledger, pend, fired, truth, paid, uncounted, seen, report, plan, import, day, events>>
  BY DEF PassBegins
<1>3. PassTyped' /\ pass' # None
  <2>1. pass' \in Passes(DOMAIN store) /\ pass'.copy = store
    BY <1>1, <1>2 DEF Passes, StoreTyped
  <2>2. QED
    BY <1>1, <2>1, PassIs DEF PassTyped, StoreTyped
<1>4. QED
  BY <1>1, <1>2, <1>3, RestKept
     DEF Typed, StoreTyped, TruthTyped, BooksTyped, RowsTyped, TradesTyped, CopiesTyped, PlanTyped, IntakeTyped

\* What Books does to the copy.
Booking(l) == [m \in DOMAIN pass.copy |->
                 IF m \in Takers(pass.copy, l, day)
                 THEN Advanced(m, pass.copy[m], Scaled(pend[l].delta, pass.copy[m]), day)
                 ELSE pass.copy[m]]

\* Booking makes records of records, and the shares it books are whole.
LEMMA BookingOK ==
  ASSUME Typed, NEW l \in Leader, pass # None, pend[l] # None
  PROVE  /\ pend[l].delta \in Outcome /\ day \in Nat
         /\ \A m \in DOMAIN pass.copy :
              /\ m \in Mirror /\ pass.copy[m] \in MirrorRecord /\ Sane(m, pass.copy[m])
              /\ Scaled(pend[l].delta, pass.copy[m]) \in Int
              /\ Scaled(pend[l].delta, pass.copy[m]) * 10 = pend[l].delta * pass.copy[m].mult
         /\ \A m \in DOMAIN pass.copy : Booking(l)[m] \in MirrorRecord /\ Sane(m, Booking(l)[m])
<1>1. PassTyped /\ pend[l] \in Closed /\ day \in Nat
  BY DEF Typed, TradesTyped, RestTyped
<1>2. pend[l].delta \in Outcome
  BY <1>1 DEF Closed
<1>3. ASSUME NEW m \in DOMAIN pass.copy
      PROVE  /\ m \in Mirror /\ pass.copy[m] \in MirrorRecord /\ Sane(m, pass.copy[m])
             /\ Scaled(pend[l].delta, pass.copy[m]) \in Int
             /\ Scaled(pend[l].delta, pass.copy[m]) * 10 = pend[l].delta * pass.copy[m].mult
  <2>1. m \in Mirror /\ pass.copy[m] \in MirrorRecord /\ Sane(m, pass.copy[m])
    BY <1>1, PassFields
  <2>2. QED
    BY <1>2, <2>1, ScaledOK
<1>4. ASSUME NEW m \in DOMAIN pass.copy
      PROVE  Booking(l)[m] \in MirrorRecord /\ Sane(m, Booking(l)[m])
  <2>1. CASE m \in Takers(pass.copy, l, day)
    <3>1. PICK r \in MirrorRecord, p \in Int : r = pass.copy[m] /\ p = Scaled(pend[l].delta, pass.copy[m])
      BY <1>3
    <3>2. Booking(l)[m] = Advanced(m, r, p, day)
      BY <2>1, <3>1 DEF Booking
    <3>3. PICK a \in MirrorRecord : /\ a = Advanced(m, r, p, day) /\ a.equity = r.equity + p
            /\ a.mult = r.mult
            /\ a.peak = IF r.equity + p <= Floor(m, r.peak) THEN r.peak ELSE Larger(r.peak, r.equity + p)
      BY <1>1, <1>3, <3>1, AdvancedOK
    <3>4. r.equity \in Int /\ r.peak \in Nat /\ Sane(m, r)
      BY <1>3, <3>1 DEF MirrorRecord
    <3>5. Floor(m, r.peak) < r.peak /\ Floor(m, r.peak) \in Int
      BY <1>3, <3>4, FloorOK
    <3>6. a.equity <= a.peak
      BY <3>3, <3>4, <3>5 DEF Larger
    <3>7. QED
      BY <3>2, <3>3, <3>4, <3>6 DEF Sane
  <2>2. CASE m \notin Takers(pass.copy, l, day)
    BY <1>3, <2>2 DEF Booking
  <2>3. QED
    BY <2>1, <2>2
<1>5. QED
  BY <1>1, <1>2, <1>3, <1>4

\* What Books does, field by field.
LEMMA BooksIs ==
  ASSUME Typed, NEW l \in Leader, Books(l)
  PROVE  /\ pass # None /\ pass' # None /\ pend[l] # None /\ ~Booked(l) /\ ~pass.saved
         /\ pass' \in Passes(DOMAIN pass.copy) /\ DOMAIN pass.copy \subseteq Mirror
         /\ pass'.copy = Booking(l) /\ pass'.touched = pass.touched \cup Takers(pass.copy, l, day)
         /\ pass'.booked = pass.booked \cup {l} /\ pass'.edited = pass.edited
         /\ pass'.saved = pass.saved
         /\ Takers(pass.copy, l, day) \subseteq DOMAIN pass.copy
         /\ UNCHANGED <<store, ledger, pend, fired, truth, paid, uncounted, seen, report, plan, import, day, events>>
<1>1. PassTyped /\ pass # None /\ pend[l] # None /\ ~Booked(l) /\ ~pass.saved
  BY DEF Typed, Books
<1>2. PICK c : c = Booking(l)
  OBVIOUS
<1>3. PICK tk : tk = Takers(pass.copy, l, day)
  OBVIOUS
<1>4. pass' = [pass EXCEPT !.copy = c, !.touched = @ \cup tk, !.booked = @ \cup {l}]
  BY <1>2, <1>3 DEF Books, Booking
<1>5. tk \subseteq DOMAIN pass.copy
  BY <1>3 DEF Takers
<1>6. c \in [DOMAIN pass.copy -> MirrorRecord] 
  BY <1>1, <1>2, BookingOK DEF Booking
<1>7. pass \in Passes(DOMAIN pass.copy) /\ DOMAIN pass.copy \subseteq Mirror
  BY <1>1 DEF PassTyped
<1>8. /\ pass' \in Passes(DOMAIN pass.copy) /\ pass'.copy = c /\ pass'.touched = pass.touched \cup tk
      /\ pass'.booked = pass.booked \cup {l} /\ pass'.edited = pass.edited /\ pass'.saved = pass.saved
  BY <1>4, <1>5, <1>6, <1>7 DEF Passes
<1>9. pass' # None
  BY <1>7, <1>8, PassIs
<1>10. UNCHANGED <<store, ledger, pend, fired, truth, paid, uncounted, seen, report, plan, import, day, events>>
  BY DEF Books
<1>11. QED
  BY <1>1, <1>2, <1>3, <1>5, <1>7, <1>8, <1>9, <1>10

\* Booking keeps the types.
LEMMA BooksTypedKeeps == ASSUME Typed, Watch, NEW l \in Leader, Books(l) PROVE Typed'
<1>1. PassTyped'
  <2>1. DOMAIN Booking(l) = DOMAIN pass.copy
    BY DEF Booking
  <2>2. \A m \in DOMAIN pass.copy : Sane(m, Booking(l)[m])
    BY BooksIs, BookingOK
  <2>3. QED
    BY <2>1, <2>2, BooksIs DEF PassTyped
<1>2. QED
  BY <1>1, BooksIs, RestKept
     DEF Typed, StoreTyped, TruthTyped, BooksTyped, RowsTyped, TradesTyped, CopiesTyped, PlanTyped, IntakeTyped

\* What the pass's first save does, field by field.
LEMMA SavesLeadersIs ==
  ASSUME Typed, SavesLeaders
  PROVE  /\ pass # None /\ pass' # None /\ ~pass.saved
         /\ pass' \in Passes(DOMAIN pass.copy) /\ DOMAIN pass.copy \subseteq Mirror
         /\ pass'.copy = pass.copy /\ pass'.touched = pass.touched /\ pass'.booked = pass.booked
         /\ pass'.edited = pass.edited /\ pass'.saved = TRUE
         /\ \A l \in Leader : pend[l] # None => l \in pass.booked
         /\ UNCHANGED <<store, ledger, pend, fired, truth, paid, uncounted, seen, report, plan, import, day, events>>
<1>1. /\ pass # None /\ ~pass.saved /\ pass' = [pass EXCEPT !.saved = TRUE]
      /\ \A l \in Leader : pend[l] # None => l \in pass.booked
      /\ UNCHANGED <<store, ledger, pend, fired, truth, paid, uncounted, seen, report, plan, import, day, events>>
  BY DEF SavesLeaders
<1>2. pass \in Passes(DOMAIN pass.copy) /\ DOMAIN pass.copy \subseteq Mirror
  BY <1>1 DEF Typed, PassTyped
<1>3. /\ pass' \in Passes(DOMAIN pass.copy) /\ pass'.copy = pass.copy /\ pass'.touched = pass.touched
      /\ pass'.booked = pass.booked /\ pass'.edited = pass.edited /\ pass'.saved = TRUE
  BY <1>1, <1>2 DEF Passes
<1>4. QED
  BY <1>1, <1>2, <1>3, PassIs

\* The first save keeps the types.
LEMMA SavesLeadersTyped == ASSUME Typed, Watch, SavesLeaders PROVE Typed'
<1>1. PassTyped'
  BY SavesLeadersIs DEF Typed, PassTyped
<1>2. QED
  BY <1>1, SavesLeadersIs, RestKept
     DEF Typed, StoreTyped, TruthTyped, BooksTyped, RowsTyped, TradesTyped, CopiesTyped, PlanTyped, IntakeTyped

\* The merge of the copy over the file keeps the types.
LEMMA SavesMirrorsTyped == ASSUME Typed, Watch, SavesMirrors PROVE Typed'
<1>1. pass # None /\ store' = Merged /\ pass' = None
  BY DEF SavesMirrors
<1>2. StoreTyped'
  <2>1. \A m \in DOMAIN store \cup pass.touched : m \in Mirror /\ Merged[m] \in MirrorRecord /\ Sane(m, Merged[m])
    BY <1>1, PassFields DEF Typed, StoreTyped, Merged
  <2>2. DOMAIN Merged = DOMAIN store \cup pass.touched
    BY DEF Merged
  <2>3. Merged \in [DOMAIN store \cup pass.touched -> MirrorRecord]
    BY <2>1 DEF Merged
  <2>4. QED
    BY <1>1, <2>1, <2>2, <2>3 DEF StoreTyped
<1>3. TradesTyped'
  BY DEF SavesMirrors, Typed, TradesTyped
<1>4. QED
  BY <1>1, <1>2, <1>3, RestKept DEF SavesMirrors, Typed, PassTyped, TruthTyped, BooksTyped, RowsTyped, CopiesTyped, PlanTyped, IntakeTyped

\* A crash keeps the types.
LEMMA CrashTyped == ASSUME Typed, Watch, Crash PROVE Typed'
<1>1. TradesTyped' /\ RestTyped'
  BY RestCounted DEF Crash, Typed, TradesTyped
<1>2. QED
  BY <1>1 DEF Crash, Typed, PassTyped, StoreTyped, TruthTyped, BooksTyped, RowsTyped, CopiesTyped, PlanTyped, IntakeTyped

\* A payout, marked: what the firm has made of it, or nothing.
LEMMA MarkPaidTruth ==
  ASSUME Typed, NEW m \in Mirror, NEW a \in Int, NEW made \in BOOLEAN, MarkPaid(m, a, made)
  PROVE  /\ made => a > 0 /\ \E t \in Truths :
              /\ truth' = [truth EXCEPT ![m] = t] /\ t.equity <= t.peak
              /\ t.equity = truth[m].equity - a /\ t.wins = 0
              /\ t.peak = Larger(truth[m].peak, truth[m].equity - a)
              /\ truth[m].dead => t.dead
         /\ ~ made => truth' = truth
<1>1. TruthTyped
  BY DEF Typed
<1>2. CASE ~ made
  BY <1>2 DEF MarkPaid
<1>3. CASE made
  <2>0. a > 0 /\ truth' = [truth EXCEPT ![m] = [Copied(m, truth[m], -a) EXCEPT !.wins = 0]]
    BY <1>3 DEF MarkPaid
  <2>1. truth[m] \in Truths /\ truth[m].equity \in Int /\ truth[m].peak \in Nat /\ -a \in Int
        /\ truth[m].equity <= truth[m].peak
    BY <1>1 DEF TruthTyped, Truths
  <2>2. PICK c \in Truths : /\ c = Copied(m, truth[m], -a) /\ c.equity = truth[m].equity + (-a)
                            /\ c.peak = Larger(truth[m].peak, truth[m].equity + (-a))
                            /\ truth[m].dead => c.dead
    BY <2>1, CopiedOK
  <2>3. PICK t \in Truths : t = [c EXCEPT !.wins = 0] /\ t.equity = c.equity /\ t.peak = c.peak
                            /\ t.wins = 0 /\ t.dead = c.dead
    <3>1. PICK t : t = [c EXCEPT !.wins = 0]
      OBVIOUS
    <3>2. t \in Truths /\ t.equity = c.equity /\ t.peak = c.peak /\ t.wins = 0 /\ t.dead = c.dead
      BY <3>1 DEF Truths
    <3>3. QED
      BY <3>1, <3>2
  <2>4. t.equity <= t.peak /\ truth[m].equity + (-a) = truth[m].equity - a
    BY <2>1, <2>2, <2>3 DEF Larger
  <2>5. truth' = [truth EXCEPT ![m] = t]
    BY <2>0, <2>2, <2>3
  <2>6. QED
    BY <1>3, <2>0, <2>2, <2>3, <2>4, <2>5
<1>4. QED
  BY <1>2, <1>3

\* A payout keeps the types.
LEMMA MarkPaidTyped == ASSUME Typed, Watch, NEW m \in Mirror, NEW a \in Int, NEW made \in BOOLEAN,
                              MarkPaid(m, a, made)
                       PROVE  Typed'
<1>1. StoreTyped /\ TruthTyped /\ BooksTyped /\ m \in DOMAIN store /\ EditedAll({m})
  BY DEF Typed, MarkPaid, Edited
<1>2. a = Preview(m, store[m])
  BY DEF MarkPaid
<1>3. /\ store' = [store EXCEPT ![m] = PaidOut(m, store[m])]
      /\ ledger' = [ledger EXCEPT ![m] = Append(ledger[m], a)]
      /\ paid' = [paid EXCEPT ![m] = Append(paid[m], a)]
      /\ uncounted' \subseteq uncounted \cup {m}
  BY DEF MarkPaid
<1>4. StoreTyped'
  <2>1. store[m] \in MirrorRecord /\ Sane(m, store[m])
    BY <1>1 DEF StoreTyped
  <2>2. PICK r \in MirrorRecord : r = PaidOut(m, store[m])
    BY <2>1, PaidOutOK
  <2>3. Sane(m, r)
    BY <2>1, <2>2, PaidOutSane
  <2>4. store' = [store EXCEPT ![m] = r]
    BY <1>3, <2>2
  <2>5. QED
    BY <1>1, <2>3, <2>4 DEF StoreTyped
<1>5. TruthTyped'
  <2>1. truth' = truth \/ \E t \in Truths : t.equity <= t.peak /\ truth' = [truth EXCEPT ![m] = t]
    BY MarkPaidTruth
  <2>2. QED
    BY <1>1, <2>1 DEF TruthTyped
<1>6. BooksTyped'
  <2>1. Append(ledger[m], a) \in Seq(Int) /\ Append(paid[m], a) \in Seq(Int)
    BY <1>1 DEF BooksTyped
  <2>2. QED
    BY <1>1, <1>3, <2>1 DEF BooksTyped
<1>7. RestTyped'
  <2>1. /\ RestTyped /\ day' = day
        /\ events' = events \/ (events < MaxEvents /\ events' = events + 1)
    BY DEF MarkPaid, Typed
  <2>2. QED
    BY <2>1, RestKept, RestCounted
<1>8. QED
  BY <1>1, <1>4, <1>5, <1>6, <1>7, EditedTyped
     DEF MarkPaid, Typed, RowsTyped, TradesTyped, CopiesTyped, PlanTyped, IntakeTyped

\* An adoption of earlier payouts keeps the types: it changes the count only.
LEMMA AdoptIs ==
  ASSUME Typed, NEW m \in Mirror, Adopt(m)
  PROVE  \E y \in MirrorRecord :
           /\ m \in DOMAIN store /\ store' = [store EXCEPT ![m] = y] /\ Sane(m, y)
           /\ y.equity = store[m].equity /\ y.peak = store[m].peak /\ y.mult = store[m].mult
           /\ y.wins = store[m].wins /\ y.phase = store[m].phase /\ y.ready = store[m].ready
<1>1. m \in DOMAIN store /\ store[m] \in MirrorRecord /\ Sane(m, store[m])
  BY DEF Typed, StoreTyped, Adopt
<1>2. PICK n \in Nat : n = store[m].payouts + 1
  BY <1>1 DEF MirrorRecord
<1>3. PICK y : y = [store[m] EXCEPT !.payouts = n]
  OBVIOUS
<1>4. /\ y \in MirrorRecord /\ y.equity = store[m].equity /\ y.peak = store[m].peak
      /\ y.mult = store[m].mult /\ y.wins = store[m].wins /\ y.phase = store[m].phase
      /\ y.ready = store[m].ready
  BY <1>1, <1>3 DEF MirrorRecord
<1>5. store' = [store EXCEPT ![m] = y]
  BY <1>1, <1>2, <1>3 DEF Adopt, MirrorRecord
<1>6. QED
  BY <1>1, <1>4, <1>5 DEF Sane

\* So the types stay.
LEMMA AdoptTyped == ASSUME Typed, Watch, NEW m \in Mirror, Adopt(m) PROVE Typed'
<1>1. StoreTyped /\ BooksTyped /\ EditedAll({m})
  BY DEF Typed, Adopt, Edited
<1>2. PICK y \in MirrorRecord : m \in DOMAIN store /\ store' = [store EXCEPT ![m] = y] /\ Sane(m, y)
  BY AdoptIs
<1>3. StoreTyped'
  BY <1>1, <1>2 DEF StoreTyped
<1>4. BooksTyped'
  <2>1. paid[m] \in Seq(Int) /\ 0 \in Int
    BY <1>1 DEF BooksTyped
  <2>2. Append(paid[m], 0) \in Seq(Int)
    BY <2>1
  <2>3. QED
    BY <1>1, <2>2 DEF BooksTyped, Adopt
<1>5. RestTyped'
  BY RestCounted DEF Adopt, Typed
<1>6. QED
  BY <1>1, <1>3, <1>4, <1>5, EditedTyped
     DEF Adopt, Typed, TruthTyped, RowsTyped, TradesTyped, CopiesTyped, PlanTyped, IntakeTyped

\* A reversal negates one entry, or adds none.
LEMMA ReversedOK == ASSUME NEW s \in Seq(Int)
                    PROVE  Reversed(s) = s \/ \E i \in DOMAIN s : s[i] > 0 /\ Reversed(s) = Append(s, -s[i])
<1>1. PICK payouts : payouts = {i \in DOMAIN s : s[i] > 0}
  OBVIOUS
<1>2. PICK newest : newest = {i \in payouts : Cardinality({j \in payouts : j <= i})
                        = Cardinality(payouts) - Cardinality({i_1 \in DOMAIN s : s[i_1] < 0})}
  OBVIOUS
<1>3. Reversed(s) = IF newest = {} THEN s ELSE Append(s, -s[CHOOSE i \in newest : TRUE])
  BY <1>1, <1>2 DEF Reversed
<1>4. QED
  BY <1>1, <1>2, <1>3

\* A payout taken back lowers the count, and may sync the record to the dashboard.
LEMMA TakeBackIs ==
  ASSUME Typed, NEW m \in Mirror, TakeBack(m)
  PROVE  \E y \in MirrorRecord :
           /\ m \in DOMAIN store /\ store' = [store EXCEPT ![m] = y] /\ Sane(m, y)
           /\ y.mult = store[m].mult /\ y.wins = store[m].wins /\ y.phase = store[m].phase
           /\ y.ready = store[m].ready /\ y # store[m]
           /\ \/ y.equity = store[m].equity /\ y.peak = store[m].peak
              \/ y.equity = truth[m].equity /\ y.peak = Larger(store[m].peak, truth[m].equity)
<1>1. /\ m \in DOMAIN store /\ store[m] \in MirrorRecord /\ Sane(m, store[m]) /\ store[m].payouts > 0
      /\ truth[m].equity \in Int
  BY DEF Typed, StoreTyped, TakeBack, TruthTyped, Truths
<1>2. PICK r \in {store[m], Synced(store[m], truth[m].equity)} :
        store' = [store EXCEPT ![m] = [r EXCEPT !.payouts = r.payouts - 1]]
  BY Zenon DEF TakeBack
<1>3. /\ r \in MirrorRecord /\ r.mult = store[m].mult /\ r.wins = store[m].wins
      /\ r.phase = store[m].phase /\ r.ready = store[m].ready /\ r.payouts = store[m].payouts
      /\ \/ r.equity = store[m].equity /\ r.peak = store[m].peak
         \/ r.equity = truth[m].equity /\ r.peak = Larger(store[m].peak, truth[m].equity)
  BY <1>1, SyncedOK
<1>4. store[m].payouts \in Nat /\ r.payouts \in Nat /\ store[m].peak \in Nat
  BY <1>1, <1>3 DEF MirrorRecord
<1>5. PICK n \in Nat : n = r.payouts - 1
  BY <1>1, <1>3, <1>4
<1>6. PICK y : y = [r EXCEPT !.payouts = n]
  OBVIOUS
<1>7. /\ y \in MirrorRecord /\ y.equity = r.equity /\ y.peak = r.peak /\ y.mult = r.mult
      /\ y.wins = r.wins /\ y.phase = r.phase /\ y.ready = r.ready /\ y.payouts = n
  BY <1>3, <1>6 DEF MirrorRecord
<1>8. store' = [store EXCEPT ![m] = y]
  BY <1>2, <1>5, <1>6
<1>9. y # store[m]
  BY <1>3, <1>4, <1>5, <1>7
<1>10. Sane(m, y)
  BY <1>1, <1>3, <1>4, <1>7 DEF Sane, Larger
<1>11. QED
  BY <1>1, <1>3, <1>7, <1>8, <1>9, <1>10

\* A sequence without its last entry.
LEMMA FrontOK == ASSUME NEW p \in Seq(Int), p # <<>>
                 PROVE  /\ Front(p) \in Seq(Int) /\ Len(Front(p)) = Len(p) - 1
                        /\ Len(p) \in Nat \ {0}
                        /\ \A j \in 1..Len(p) - 1 : Front(p)[j] = p[j]
<1>1. Len(p) \in Nat \ {0}
  OBVIOUS
<1>2. Front(p) = SubSeq(p, 1, Len(p) - 1)
  BY DEF Front
<1>3. PICK n \in Nat : n = Len(p) - 1
  BY <1>1
<1>4. SubSeq(p, 1, n) \in Seq(Int)
  BY <1>1, <1>3
<1>5. Len(SubSeq(p, 1, n)) = n /\ \A j \in 1..n : SubSeq(p, 1, n)[j] = p[j]
  BY <1>1, <1>3
<1>6. QED
  BY <1>1, <1>2, <1>3, <1>4, <1>5

\* A payout taken back keeps the types.
LEMMA TakeBackTyped == ASSUME Typed, Watch, NEW m \in Mirror, TakeBack(m) PROVE Typed'
<1>1. StoreTyped /\ BooksTyped /\ EditedAll({m})
  BY DEF Typed, TakeBack, Edited
<1>2. /\ ledger' = [ledger EXCEPT ![m] = Reversed(ledger[m])]
      /\ paid' = [paid EXCEPT ![m] = IF paid[m] = <<>> THEN paid[m] ELSE Front(paid[m])]
      /\ paid[m] \in Seq(Int) /\ ledger[m] \in Seq(Int) /\ uncounted' = uncounted
  BY <1>1 DEF BooksTyped, TakeBack
<1>3. PICK y \in MirrorRecord : m \in DOMAIN store /\ store' = [store EXCEPT ![m] = y] /\ Sane(m, y)
  BY TakeBackIs
<1>4. StoreTyped'
  BY <1>1, <1>3 DEF StoreTyped
<1>5. BooksTyped'
  <2>1. Reversed(ledger[m]) \in Seq(Int)
    <3>1. \A i \in DOMAIN ledger[m] : ledger[m][i] \in Int
      BY <1>2
    <3>2. \A x \in Int : Append(ledger[m], x) \in Seq(Int)
      BY <1>2
    <3>3. \A x \in Int : -x \in Int
      OBVIOUS
    <3>4. QED
      BY <1>2, <3>1, <3>2, <3>3, ReversedOK
  <2>2. PICK q \in Seq(Int) : q = IF paid[m] = <<>> THEN paid[m] ELSE Front(paid[m])
    BY <1>2, FrontOK
  <2>3. QED
    BY <1>1, <1>2, <2>1, <2>2 DEF BooksTyped
<1>6. RestTyped'
  BY RestCounted DEF TakeBack, Typed
<1>7. QED
  BY <1>1, <1>4, <1>5, <1>6, EditedTyped
     DEF TakeBack, Typed, TruthTyped, RowsTyped, TradesTyped, CopiesTyped, PlanTyped, IntakeTyped

\* An activation keeps the types.
LEMMA ActivateTyped == ASSUME Typed, Watch, NEW m \in Mirror, NEW l \in Leader \cup {None}, Activate(m, l)
                       PROVE  Typed'
<1>1. StoreTyped /\ TruthTyped /\ RowsTyped /\ m \in DOMAIN store /\ EditedAll({m})
  BY DEF Typed, Activate, Edited
<1>2. PICK r \in MirrorRecord : r = Activated(m, store[m], l) /\ Sane(m, r)
  <2>1. store[m] \in MirrorRecord
    BY <1>1 DEF StoreTyped
  <2>2. PICK r \in MirrorRecord : r = Activated(m, store[m], l) /\ r.equity = 0 /\ r.peak = 0 /\ r.mult = 10
    BY <2>1, ActivatedOK
  <2>3. QED
    BY <2>2 DEF Sane
<1>3. store' = [store EXCEPT ![m] = r]
  BY <1>2 DEF Activate
<1>4. StoreTyped'
  BY <1>1, <1>2, <1>3 DEF StoreTyped
<1>5. TruthTyped'
  <2>1. PICK t \in Truths : t = Start(m) /\ t.equity <= t.peak
    <3>1. Start(m) \in Truths /\ Start(m).equity <= Start(m).peak
      BY DEF Start, Truths
    <3>2. QED
      BY <3>1
  <2>2. truth' = [truth EXCEPT ![m] = t]
    BY <2>1 DEF Activate
  <2>3. QED
    BY <1>1, <2>1, <2>2 DEF TruthTyped
<1>6. RowsTyped'
  BY <1>1 DEF Activate, RowsTyped
<1>7. QED
  BY <1>1, <1>4, <1>5, <1>6, EditedTyped, RestKept DEF Activate, Typed, BooksTyped, TradesTyped, CopiesTyped, PlanTyped, IntakeTyped

\* Pairing a waiting mirror keeps the types.
LEMMA PairTyped == ASSUME Typed, Watch, NEW m \in Mirror, NEW l \in Leader, Pair(m, l) PROVE Typed'
<1>1. StoreTyped /\ m \in DOMAIN store /\ EditedAll({m})
  BY DEF Typed, Pair, Edited
<1>2. PICK r : r = [store[m] EXCEPT !.leader = l, !.phase = "funded"]
  OBVIOUS
<1>3. r \in MirrorRecord /\ Sane(m, r)
  <2>1. store[m] \in MirrorRecord /\ Sane(m, store[m])
    BY <1>1 DEF StoreTyped
  <2>2. r \in MirrorRecord
    BY <1>2, <2>1 DEF MirrorRecord, Phases
  <2>3. r.equity = store[m].equity /\ r.peak = store[m].peak /\ r.mult = store[m].mult
    BY <1>2, <2>1 DEF MirrorRecord
  <2>4. QED
    BY <2>1, <2>2, <2>3 DEF Sane
<1>4. store' = [store EXCEPT ![m] = r]
  BY <1>1, <1>2 DEF Pair, StoreTyped, MirrorRecord
<1>5. StoreTyped'
  BY <1>1, <1>3, <1>4 DEF StoreTyped
<1>6. QED
  BY <1>1, <1>5, EditedTyped, RestKept DEF Pair, Typed, BooksTyped, TradesTyped, TruthTyped, RowsTyped, CopiesTyped, PlanTyped, IntakeTyped

\* A new leader or multiplier keeps the types.
LEMMA RemapTyped == ASSUME Typed, Watch, NEW m \in Mirror, NEW l \in Leader \cup {None},
                           NEW k \in {10, Firm[m].scale}, Remap(m, l, k)
                    PROVE  Typed'
<1>1. StoreTyped /\ m \in DOMAIN store /\ EditedAll({m})
  BY DEF Typed, Remap, Edited
<1>2. PICK r : r = [store[m] EXCEPT !.leader = l, !.mult = k]
  OBVIOUS
<1>3. k \in 1..10
  BY FirmTypes DEF FirmProfile
<1>4. r \in MirrorRecord /\ Sane(m, r)
  <2>1. store[m] \in MirrorRecord /\ Sane(m, store[m])
    BY <1>1 DEF StoreTyped
  <2>2. r \in MirrorRecord
    BY <1>2, <1>3, <2>1 DEF MirrorRecord
  <2>3. r.equity = store[m].equity /\ r.peak = store[m].peak /\ r.mult = k
    BY <1>2, <2>1 DEF MirrorRecord
  <2>4. QED
    BY <2>1, <2>2, <2>3 DEF Sane
<1>5. store' = [store EXCEPT ![m] = r]
  BY <1>1, <1>2 DEF Remap, StoreTyped, MirrorRecord
<1>6. StoreTyped'
  BY <1>1, <1>4, <1>5 DEF StoreTyped
<1>7. RestTyped'
  BY RestCounted DEF Remap, Typed
<1>8. QED
  BY <1>1, <1>6, <1>7, EditedTyped DEF Remap, Typed, BooksTyped, TradesTyped, TruthTyped, RowsTyped, CopiesTyped, PlanTyped, IntakeTyped

\* A deletion keeps the types.
LEMMA DeleteTyped == ASSUME Typed, Watch, NEW m \in Mirror, Delete(m) PROVE Typed'
<1>1. StoreTyped /\ TradesTyped /\ m \in DOMAIN store /\ EditedAll({m})
  BY DEF Typed, Delete, Edited
<1>2. /\ store' = [x \in DOMAIN store \ {m} |-> store[x]]
      /\ pend' = [l \in Leader |-> IF pend[l] = None THEN None ELSE [pend[l] EXCEPT !.by[m] = 0]]
  BY DEF Delete, Restrict
<1>3. StoreTyped'
  BY <1>1, <1>2 DEF StoreTyped
<1>4. TradesTyped'
  <2>1. \A c \in Closed : [c EXCEPT !.by[m] = 0] \in Closed
    BY DEF Closed
  <2>2. \A l \in Leader : pend[l] # None => pend[l] \in Closed
    BY <1>1 DEF TradesTyped
  <2>3. pend' \in [Leader -> {None} \cup Closed]
    BY <1>2, <2>1, <2>2
  <2>4. QED
    BY <1>1, <2>3 DEF TradesTyped, Delete
<1>5. RestTyped'
  BY RestCounted DEF Delete, Typed
<1>6. QED
  BY <1>1, <1>3, <1>4, <1>5, EditedTyped DEF Delete, Typed, BooksTyped, TruthTyped, RowsTyped, CopiesTyped, PlanTyped, IntakeTyped

\* The copier's row keeps the types.
LEMMA RefreshesTyped == ASSUME Typed, Watch, NEW m \in Mirror, Refreshes(m) PROVE Typed'
<1>1. RowsTyped'
  <2>1. [day |-> day, balance |-> truth[m].equity] \in Rows
    BY DEF Typed, RestTyped, TruthTyped, Truths, Rows
  <2>2. QED
    BY <2>1 DEF Refreshes, Typed, RowsTyped
<1>2. QED
  BY <1>1, RestKept DEF Refreshes, Typed, StoreTyped, PassTyped, BooksTyped, TradesTyped, TruthTyped, CopiesTyped, PlanTyped, IntakeTyped

\* A plan maps records; it keeps them records.
LEMMA PlanLoadsTyped == ASSUME Typed, Watch, PlanLoads PROVE Typed'
<1>1. StoreTyped
  BY DEF Typed
<1>2. PICK names \in SUBSET DOMAIN store :
        \E lead \in [names -> Leader \cup {None}], full \in SUBSET names :
          plan' = [m \in names |-> [store[m] EXCEPT !.leader = lead[m],
                                     !.mult = IF m \in full THEN 10 ELSE Firm[m].scale]]
  BY DEF PlanLoads
<1>0. PICK lead \in [names -> Leader \cup {None}], full \in SUBSET names :
        plan' = [m \in names |-> [store[m] EXCEPT !.leader = lead[m],
                                   !.mult = IF m \in full THEN 10 ELSE Firm[m].scale]]
  BY <1>2
<1>3. ASSUME NEW m \in names PROVE m \in Mirror /\ plan'[m] \in MirrorRecord /\ Sane(m, plan'[m])
  <2>1. m \in Mirror /\ store[m] \in MirrorRecord /\ Sane(m, store[m]) /\ lead[m] \in Leader \cup {None}
    BY <1>1 DEF StoreTyped
  <2>2. PICK k \in 1..10 : k = (IF m \in full THEN 10 ELSE Firm[m].scale) /\ k \in {10, Firm[m].scale}
    BY <2>1, FirmTypes DEF FirmProfile
  <2>3. plan'[m] = [store[m] EXCEPT !.leader = lead[m], !.mult = k]
    BY <1>0, <2>2
  <2>4. PICK r : r = [store[m] EXCEPT !.leader = lead[m], !.mult = k]
    OBVIOUS
  <2>5. r \in MirrorRecord /\ r.equity = store[m].equity /\ r.peak = store[m].peak /\ r.mult = k
    BY <2>1, <2>4 DEF MirrorRecord
  <2>6. QED
    BY <2>1, <2>2, <2>3, <2>4, <2>5 DEF Sane
<1>4. PlanTyped'
  <2>1. DOMAIN plan' = names /\ plan' = [m \in names |-> plan'[m]]
    BY <1>0
  <2>2. names \subseteq Mirror
    BY <1>3
  <2>3. QED
    BY <1>3, <2>1, <2>2 DEF PlanTyped
<1>5. RestTyped' /\ CopiesTyped'
  BY <1>4, RestCounted DEF PlanLoads, Typed, CopiesTyped, IntakeTyped
<1>6. QED
  BY <1>5 DEF PlanLoads, Typed, StoreTyped, PassTyped, BooksTyped, TruthTyped, RowsTyped, TradesTyped

\* The plan's records, saved, are records.
LEMMA PlanSavesTyped == ASSUME Typed, Watch, PlanSaves PROVE Typed'
<1>1. StoreTyped /\ PlanTyped /\ plan # None /\ EditedAll(DOMAIN plan) /\ plan' = None
  BY DEF Typed, CopiesTyped, PlanSaves
<1>2. store' = [m \in DOMAIN store \cup DOMAIN plan |-> IF m \in DOMAIN plan THEN plan[m] ELSE store[m]]
  BY DEF PlanSaves
<1>3. StoreTyped'
  <2>1. DOMAIN store' = DOMAIN store \cup DOMAIN plan
    BY <1>2
  <2>2. \A m \in DOMAIN store' : m \in Mirror /\ store'[m] \in MirrorRecord /\ Sane(m, store'[m])
    BY <1>1, <1>2 DEF StoreTyped, PlanTyped
  <2>3. store' = [m \in DOMAIN store' |-> store'[m]]
    BY <1>2
  <2>4. QED
    BY <2>2, <2>3 DEF StoreTyped
<1>4. DOMAIN plan \in SUBSET Mirror
  BY <1>1 DEF PlanTyped
<1>5. CopiesTyped' /\ RestTyped'
  BY <1>1, RestKept DEF PlanSaves, Typed, CopiesTyped, PlanTyped, IntakeTyped
<1>6. QED
  BY <1>1, <1>3, <1>4, <1>5, EditedTyped DEF PlanSaves, Typed, BooksTyped, TruthTyped, RowsTyped, TradesTyped

\* The fields of an import under way.
LEMMA IntakeFields == ASSUME IntakeTyped, import # None
                      PROVE  /\ import.rows \in [Mirror -> {None} \cup Rows] /\ import.todo \subseteq Mirror
                             /\ \A m \in import.todo : /\ import.copy[m] \in MirrorRecord
                                                       /\ import.rows[m] \in Rows
                                                       /\ import.rows[m].balance \in Int
<1>1. import.rows \in [Mirror -> {None} \cup Rows] /\ import.todo \subseteq Mirror
  BY DEF IntakeTyped, Intakes, Imports
<1>2. \A m \in import.todo : import.rows[m] \in Rows
  BY <1>1 DEF IntakeTyped
<1>3. QED
  BY <1>1, <1>2 DEF IntakeTyped, Rows

\* An import begins with typed rows.
LEMMA ObservesTyped == ASSUME Typed, Watch, Observes PROVE Typed'
<1>1. RowsTyped
  BY DEF Typed
<1>2. PICK on \in (SUBSET {m \in Mirror : seen[m] # None}) \ {{}} :
        import' = [rows |-> [m \in Mirror |-> IF m \in on THEN seen[m] ELSE None],
                   copy |-> None, todo |-> {}]
  BY DEF Observes
<1>3. import' \in Intakes /\ import'.todo = {}
  BY <1>1, <1>2 DEF RowsTyped, Intakes, Imports
<1>4. CopiesTyped' /\ RestTyped'
  BY <1>3, RestCounted DEF Observes, Typed, CopiesTyped, PlanTyped, IntakeTyped
<1>5. QED
  BY <1>4 DEF Observes, Typed, StoreTyped, PassTyped, BooksTyped, TruthTyped, RowsTyped, TradesTyped

\* The copy an import loads is typed.
LEMMA ImportLoadsTyped == ASSUME Typed, Watch, ImportLoads PROVE Typed'
<1>1. StoreTyped /\ IntakeTyped /\ import # None
  BY DEF Typed, CopiesTyped, ImportLoads
<1>2. PICK todo : todo = {m \in DOMAIN store : Recent(import.rows[m])}
  OBVIOUS
<1>3. import' = [import EXCEPT !.copy = store, !.todo = todo]
  BY <1>2 DEF ImportLoads
<1>4. DOMAIN store \in SUBSET Mirror /\ store \in [DOMAIN store -> MirrorRecord]
      /\ todo \subseteq DOMAIN store /\ \A m \in todo : store[m] \in MirrorRecord
  BY <1>1, <1>2 DEF StoreTyped
<1>5. \A m \in todo : import.rows[m] # None
  BY <1>2 DEF Recent
<1>6. import' \in Intakes /\ import'.rows = import.rows /\ import'.copy = store /\ import'.todo = todo
  <2>1. PICK names \in SUBSET Mirror : import \in Imports(names)
    BY <1>1, IntakesAre DEF IntakeTyped
  <2>2. /\ import' \in Imports(DOMAIN store) /\ import'.rows = import.rows
        /\ import'.copy = store /\ import'.todo = todo
    BY <1>3, <1>4, <2>1 DEF Imports
  <2>3. QED
    BY <1>4, <2>2, IntakesAre
<1>7. CopiesTyped' /\ RestTyped'
  BY <1>4, <1>5, <1>6, RestKept DEF ImportLoads, Typed, CopiesTyped, PlanTyped, IntakeTyped
<1>8. QED
  BY <1>7 DEF ImportLoads, Typed, StoreTyped, PassTyped, BooksTyped, TruthTyped, RowsTyped, TradesTyped

\* What a patch makes of the file.
LEMMA PatchesIs ==
  ASSUME Typed, NEW m \in Mirror, Patches(m)
  PROVE  /\ import # None /\ m \in import.todo /\ PatchOf(m)
         /\ import' \in Intakes /\ import'.todo = import.todo \ {m}
         /\ import'.copy = import.copy /\ import'.rows = import.rows
         /\ \/ m \notin DOMAIN store /\ UNCHANGED <<store, pass>>
            \/ \E s \in MirrorRecord :
                 /\ m \in DOMAIN store /\ Sane(m, s)
                 /\ s = Patched(store[m], import.copy[m], import.rows[m].balance)
                 /\ store' = [store EXCEPT ![m] = s]
                 /\ EditedAll(IF s = store[m] THEN {} ELSE {m})
<1>1. IntakeTyped /\ StoreTyped /\ import # None /\ m \in import.todo
  BY DEF Typed, CopiesTyped, Patches
<1>2. import' = [import EXCEPT !.todo = @ \ {m}]
  BY DEF Patches
<1>3. /\ import' \in Intakes /\ import'.todo = import.todo \ {m}
      /\ import'.copy = import.copy /\ import'.rows = import.rows
  BY <1>1, <1>2 DEF IntakeTyped, Intakes, Imports
<1>4. import' # None
  BY <1>3, IntakesAre
<1>5. CASE m \notin DOMAIN store
  BY <1>1, <1>3, <1>4, <1>5 DEF Patches, PatchOf
<1>6. CASE m \in DOMAIN store
  <2>1. PICK s : s = Patched(store[m], import.copy[m], import.rows[m].balance)
    OBVIOUS
  <2>2. store' = [store EXCEPT ![m] = s] /\ EditedAll(IF s = store[m] THEN {} ELSE {m})
    BY <1>6, <2>1 DEF Patches
  <2>3. /\ store[m] \in MirrorRecord /\ Sane(m, store[m])
        /\ import.copy[m] \in MirrorRecord /\ import.rows[m].balance \in Int
    BY <1>1, <1>6, IntakeFields DEF StoreTyped
  <2>4. s \in MirrorRecord /\ Sane(m, s)
    BY <2>1, <2>3, PatchedOK, PatchedSane
  <2>5. QED
    BY <1>1, <1>3, <1>4, <1>6, <2>1, <2>2, <2>4 DEF PatchOf
<1>7. QED
  BY <1>5, <1>6

\* A patch keeps the types.
LEMMA PatchesTyped == ASSUME Typed, Watch, NEW m \in Mirror, Patches(m) PROVE Typed'
<1>1. StoreTyped /\ IntakeTyped /\ PassTyped
  BY DEF Typed, CopiesTyped
<1>2. StoreTyped' /\ PassTyped'
  <2>1. CASE UNCHANGED <<store, pass>>
    BY <1>1, <2>1 DEF StoreTyped, PassTyped
  <2>2. ASSUME NEW s \in MirrorRecord, m \in DOMAIN store, Sane(m, s), store' = [store EXCEPT ![m] = s],
               EditedAll(IF s = store[m] THEN {} ELSE {m})
        PROVE  StoreTyped' /\ PassTyped'
    <3>1. StoreTyped'
      BY <1>1, <2>2 DEF StoreTyped
    <3>2. PICK E \in SUBSET Mirror : E = IF s = store[m] THEN {} ELSE {m}
      OBVIOUS
    <3>3. PassTyped'
      BY <1>1, <2>2, <3>2, EditedTyped
    <3>4. QED
      BY <3>1, <3>3
  <2>3. QED
    BY <2>1, <2>2, PatchesIs
<1>3. CopiesTyped'
  BY PatchesIs DEF Patches, Typed, CopiesTyped, PlanTyped, IntakeTyped
<1>4. RestTyped'
  BY RestKept DEF Patches, Typed
<1>5. QED
  BY <1>2, <1>3, <1>4 DEF Patches, Typed, BooksTyped, TruthTyped, RowsTyped, TradesTyped

\* The report is stored with the rows the import had.
LEMMA ImportEndsTyped == ASSUME Typed, Watch, ImportEnds PROVE Typed'
<1>1. RowsTyped'
  BY IntakeFields DEF ImportEnds, Typed, RowsTyped, CopiesTyped
<1>2. CopiesTyped' /\ RestTyped'
  BY RestKept DEF ImportEnds, Typed, CopiesTyped, PlanTyped, IntakeTyped
<1>3. QED
  BY <1>1, <1>2 DEF ImportEnds, Typed, StoreTyped, PassTyped, BooksTyped, TruthTyped, TradesTyped

\* Onboarding adds well-formed records.
LEMMA OnboardedOK ==
  ASSUME StoreTyped, NEW names \in SUBSET Mirror, NEW ph \in [names -> Phases]
  PROVE  LET o == Onboarded(ph) IN
         /\ DOMAIN o = DOMAIN store \cup names /\ DOMAIN o \subseteq Mirror
         /\ o \in [DOMAIN o -> MirrorRecord]
         /\ \A m \in DOMAIN o : Sane(m, o[m])
<1>1. PICK o : o = Onboarded(ph)
  OBVIOUS
<1>2. DOMAIN o = DOMAIN store \cup names
  BY <1>1 DEF Onboarded
<1>3. ASSUME NEW m \in DOMAIN o PROVE o[m] \in MirrorRecord /\ Sane(m, o[m])
  <2>1. CASE m \in names
    <3>1. PICK p \in Phases : p = ph[m]
      BY <2>1
    <3>2. o[m] = Fresh(m, None, p)
      BY <1>1, <2>1, <3>1 DEF Onboarded
    <3>3. QED
      BY <2>1, <3>2, FreshOK
  <2>2. CASE m \notin names
    BY <1>1, <1>2, <2>2 DEF StoreTyped, Onboarded
  <2>3. QED
    BY <2>1, <2>2
<1>4. o = [m \in DOMAIN o |-> o[m]]
  BY <1>1 DEF Onboarded
<1>5. QED
  BY <1>1, <1>2, <1>3, <1>4 DEF StoreTyped

\* An onboarding keeps the types.
LEMMA ImportTyped == ASSUME Typed, Watch, NEW names \in SUBSET Mirror, Import(names) PROVE Typed'
<1>1. StoreTyped /\ RowsTyped /\ EditedAll(names)
  BY DEF Typed, Import
<1>2. PICK ph \in [names -> Phases] : store' = Onboarded(ph)
  BY DEF Import
<1>3. StoreTyped'
  BY <1>1, <1>2, OnboardedOK DEF StoreTyped
<1>4. import' \in Intakes /\ import'.todo = {}
  BY <1>1 DEF Import, RowsTyped, Intakes, Imports
<1>5. CopiesTyped' /\ RestTyped'
  BY <1>4, RestKept DEF Import, Typed, CopiesTyped, PlanTyped, IntakeTyped
<1>6. QED
  BY <1>1, <1>3, <1>5, EditedTyped DEF Import, Typed, BooksTyped, TruthTyped, TradesTyped, RowsTyped

\* Every step keeps the types.
LEMMA NextTyped == Typed /\ [Next]_vars => Typed'
<1> SUFFICES ASSUME Typed, [Next]_vars PROVE Typed'
  OBVIOUS
<1>1. CASE UNCHANGED vars
  BY <1>1 DEF vars, Typed, StoreTyped, PassTyped, TruthTyped, BooksTyped, RowsTyped, TradesTyped, RestTyped,
                   CopiesTyped, PlanTyped, IntakeTyped
<1>2. CASE Next
  <2>1. Watch
    BY <1>2 DEF Next
  <2>2. CASE \E l \in Leader, d \in Outcome : Trade(l, d)
    BY <2>1, <2>2, TradeTyped
  <2>3. CASE NextDay
    BY <2>1, <2>3, NextDayTyped
  <2>4. CASE PassStep
    BY <2>1, <2>4, PassBeginsTyped, BooksTypedKeeps, SavesLeadersTyped, SavesMirrorsTyped DEF PassStep
  <2>5. CASE Crash
    BY <2>1, <2>5, CrashTyped
  <2>0. ASSUME NEW m \in Mirror, NEW amount \in {Preview(m, store[m]) : x \in {m} \cap DOMAIN store},
               NEW made \in BOOLEAN, MarkPaid(m, amount, made)
        PROVE  Typed'
    <3>1. m \in DOMAIN store /\ amount = Preview(m, store[m])
      BY <2>0 DEF MarkPaid
    <3>2. amount \in Int
      BY <3>1, PreviewOK DEF Typed, StoreTyped
    <3>3. QED
      BY <2>0, <2>1, <3>2, MarkPaidTyped
  <2>6. CASE \E m \in Mirror : Operator(m)
    BY <2>0, <2>1, <2>6, AdoptTyped, TakeBackTyped, DeleteTyped, RefreshesTyped, PairTyped,
       ActivateTyped, RemapTyped DEF Operator
  <2>7. CASE Observes
    BY <2>1, <2>7, ObservesTyped
  <2>8. CASE \E names \in (SUBSET Mirror) \ {{}} : Import(names)
    BY <2>1, <2>8, ImportTyped
  <2>9. CASE PlanLoads \/ PlanSaves \/ ImportLoads \/ (\E m \in Mirror : Patches(m)) \/ ImportEnds
    BY <2>1, <2>9, PlanLoadsTyped, PlanSavesTyped, ImportLoadsTyped, PatchesTyped, ImportEndsTyped
  <2>10. QED
    BY <1>2, <2>2, <2>3, <2>4, <2>5, <2>6, <2>7, <2>8, <2>9 DEF Next
<1>3. QED
  BY <1>1, <1>2

\* In every state of every instance the records are typed, a record's equity is at most its peak.
THEOREM RecordsAreTyped == Spec => []Typed
<1>1. Init => Typed
  BY InitTyped
<1>2. Typed /\ [Next]_vars => Typed'
  BY NextTyped
<1>3. QED
  BY <1>1, <1>2, PTL DEF Spec

-----------------------------------------------------------------------------
(* The ledger of payouts.                                                  *)
LEMMA AfterReversal == ASSUME NEW s \in Seq(Int), NEW x \in Int, PaidAfterReversal(s)
                       PROVE  PaidAfterReversal(Append(s, x))
<1>1. PICK i, j \in 1..Len(s) : i < j /\ s[i] < 0 /\ s[j] > 0
  BY DEF PaidAfterReversal
<1>2. PICK t : t = Append(s, x)
  OBVIOUS
<1>3. Len(t) = Len(s) + 1 /\ t[i] = s[i] /\ t[j] = s[j] /\ i \in 1..Len(t) /\ j \in 1..Len(t)
  BY <1>2
<1>4. QED
  BY <1>1, <1>2, <1>3 DEF PaidAfterReversal

\* A payout, booked.
LEMMA PayoutBanked == ASSUME NEW s \in Seq(Int), NEW p \in Seq(Int), NEW a \in Nat, a > 0, BankedOf(s, p)
                      PROVE  BankedOf(Append(s, a), Append(p, a))
<1>1. PICK t, q, n, w : /\ t = Append(s, a) /\ q = Append(p, a) /\ n = Len(s) /\ w = Len(p)
  OBVIOUS
<1>2. /\ t \in Seq(Int) /\ q \in Seq(Int) /\ n \in Nat /\ w \in Nat
      /\ Len(t) = n + 1 /\ Len(q) = w + 1 /\ t[n + 1] = a /\ q[w + 1] = a
      /\ (\A i \in 1..n : t[i] = s[i]) /\ \A i \in 1..w : q[i] = p[i]
  BY <1>1
<1>3. \A i \in 1..n : s[i] # 0 /\ s[i] \in Int
  BY <1>1 DEF BankedOf
<1>4. \A i \in 1..n + 1 : t[i] # 0
  <2>1. \A i \in 1..n + 1 : i \in 1..n \/ i = n + 1
    BY <1>2
  <2>2. t[n + 1] # 0
    BY <1>2
  <2>3. \A i \in 1..n : t[i] # 0
    BY <1>2, <1>3
  <2>4. QED
    BY <2>1, <2>2, <2>3
<1>5. CASE PaidAfterReversal(s)
  <2>1. PaidAfterReversal(t)
    BY <1>1, <1>5, AfterReversal
  <2>2. QED
    BY <1>1, <1>2, <1>4, <2>1 DEF BankedOf
<1>6. ASSUME NEW k \in 0..n, InOrder(s, p, k) PROVE BankedOf(t, q)
  <2>1. CASE k < n
    <3>1. k + 1 \in 1..n /\ ~ (s[k + 1] > 0)
      BY <1>1, <1>2, <1>6, <2>1 DEF InOrder
    <3>2. t[k + 1] < 0 /\ t[n + 1] > 0 /\ k + 1 < n + 1 /\ k + 1 \in 1..n + 1 /\ n + 1 \in 1..n + 1
      BY <1>2, <1>3, <2>1, <3>1
    <3>3. PaidAfterReversal(t)
      BY <1>2, <3>2 DEF PaidAfterReversal
    <3>4. QED
      BY <1>2, <1>4, <3>3 DEF BankedOf
  <2>2. CASE k = n
    <3>1. w = n /\ (\A i \in 1..n : s[i] > 0) /\ \A i \in 1..n : p[i] = s[i]
      BY <1>1, <1>2, <1>6, <2>2 DEF InOrder
    <3>2. \A i \in 1..n + 1 : i \in 1..n \/ i = n + 1
      BY <1>2
    <3>3. \A i \in 1..n + 1 : t[i] > 0 /\ q[i] = t[i]
      BY <1>2, <3>1, <3>2
    <3>4. SumFunction(t) = SumFunction(q)
      <4>1. p \in Seq(Int) /\ a \in Int
        OBVIOUS
      <4>2. SumFunction(t) = SumFunction(s) + a /\ SumFunction(q) = SumFunction(p) + a
        BY <1>1, <4>1, SumAppend
      <4>3. SumFunction(s) = SumFunction(p)
        BY <1>6 DEF InOrder
      <4>4. QED
        BY <4>2, <4>3
    <3>5. InOrder(t, q, n + 1) /\ n + 1 \in 0..Len(t)
      BY <1>2, <3>1, <3>3, <3>4 DEF InOrder
    <3>6. QED
      BY <1>2, <1>4, <3>5 DEF BankedOf
  <2>3. QED
    BY <1>2, <1>6, <2>1, <2>2
<1>7. QED
  BY <1>1, <1>5, <1>6 DEF BankedOf

\* The newest payout that stands is the last of those the operator stands by.
LEMMA ReversesLast ==
  ASSUME NEW s \in Seq(Int), NEW p \in Seq(Int), p # <<>>, BankedOf(s, p),
         NEW k \in 0..Len(s), InOrder(s, p, k)
  PROVE  Len(p) \in 1..k /\ Reversed(s) = Append(s, -s[Len(p)])
<1>1. PICK n \in Nat, w \in Nat : n = Len(s) /\ w = Len(p) /\ w # 0
  OBVIOUS
<1>2. w = 2 * k - n /\ k <= n /\ k \in Nat /\ w \in 1..k
  BY <1>1 DEF InOrder
<1>3. DOMAIN s = 1..n /\ \A i \in 1..n : s[i] \in Int /\ s[i] # 0 /\ (s[i] > 0 <=> i <= k)
  BY <1>1 DEF BankedOf, InOrder
<1>4. PICK payouts : payouts = {i \in DOMAIN s : s[i] > 0}
  OBVIOUS
<1>5. payouts = 1..k
  BY <1>2, <1>3, <1>4
<1>6. {i \in DOMAIN s : s[i] < 0} = k + 1 .. n
  BY <1>2, <1>3
<1>7. Cardinality(payouts) = k /\ Cardinality(k + 1 .. n) = n - k
  <2>1. Cardinality(1..k) = k
    BY <1>2, FS_Interval
  <2>2. CASE k < n
    BY <1>1, <1>2, <1>5, <2>1, <2>2, FS_Interval
  <2>3. CASE k = n
    BY <1>1, <1>2, <1>5, <2>1, <2>3, FS_Interval
  <2>4. QED
    BY <1>1, <1>2, <2>2, <2>3
<1>8. \A i \in payouts : Cardinality({j \in payouts : j <= i}) = i
  <2>1. ASSUME NEW i \in payouts PROVE Cardinality({j \in payouts : j <= i}) = i
    <3>1. {j \in payouts : j <= i} = 1..i /\ i \in Nat /\ i # 0
      BY <1>2, <1>5
    <3>2. 1 \in Int /\ i \in Int /\ ~ (1 > i) /\ i - 1 + 1 = i
      BY <3>1
    <3>3. Cardinality(1..i) = i
      BY <3>2, FS_Interval
    <3>4. QED
      BY <3>1, <3>3
  <2>2. QED
    BY <2>1
<1>9. PICK left : left = Cardinality(payouts) - Cardinality({i \in DOMAIN s : s[i] < 0})
  OBVIOUS
<1>10. left = w
  <2>1. left = k - (n - k)
    BY <1>6, <1>7, <1>9
  <2>2. QED
    BY <1>1, <1>2, <2>1
<1>11. PICK newest : newest = {i \in payouts : Cardinality({j \in payouts : j <= i}) = left}
  OBVIOUS
<1>12. newest = {w}
  <2>1. w \in payouts
    BY <1>2, <1>5
  <2>2. newest = {i \in payouts : i = w}
    BY <1>8, <1>10, <1>11, Zenon
  <2>3. QED
    BY <2>1, <2>2, Zenon
<1>13. Reversed(s) = IF newest = {} THEN s ELSE Append(s, -s[CHOOSE i \in newest : TRUE])
  BY <1>4, <1>9, <1>11 DEF Reversed
<1>14. QED
  BY <1>1, <1>2, <1>12, <1>13

\* Once a payout has followed a reversal nothing more is claimed.
LEMMA ReversedLate ==
  ASSUME NEW s \in Seq(Int), PaidAfterReversal(s), \A j \in 1..Len(s) : s[j] # 0,
         NEW i \in DOMAIN s, s[i] > 0, NEW q
  PROVE  BankedOf(Append(s, -s[i]), q)
<1>1. PICK x \in Int : x = -s[i] /\ x # 0
  OBVIOUS
<1>2. PICK t : t = Append(s, x)
  OBVIOUS
<1>3. Len(t) = Len(s) + 1 /\ \A j \in 1..Len(t) : t[j] = IF j = Len(t) THEN x ELSE s[j]
  BY <1>2
<1>4. \A j \in 1..Len(t) : t[j] # 0
  <2>1. \A j \in 1..Len(t) : j # Len(t) => j \in 1..Len(s)
    <3>1. Len(s) \in Nat
      OBVIOUS
    <3>2. QED
      BY <1>3, <3>1
  <2>2. QED
    BY <1>1, <1>3, <2>1
<1>5. PaidAfterReversal(t)
  BY <1>2, AfterReversal
<1>6. QED
  BY <1>1, <1>2, <1>4, <1>5 DEF BankedOf

\* A payout taken back.
LEMMA ReversalBanked == ASSUME NEW s \in Seq(Int), NEW p \in Seq(Int), p # <<>>, BankedOf(s, p)
                        PROVE  BankedOf(Reversed(s), Front(p))
<1>1. CASE PaidAfterReversal(s)
  <2>1. CASE Reversed(s) = s
    BY <1>1, <2>1 DEF BankedOf
  <2>2. ASSUME NEW i \in DOMAIN s, s[i] > 0, Reversed(s) = Append(s, -s[i])
        PROVE  BankedOf(Reversed(s), Front(p))
    BY <1>1, <2>2, ReversedLate DEF BankedOf
  <2>3. QED
    BY <2>1, <2>2, ReversedOK
<1>2. ASSUME NEW k \in 0..Len(s), InOrder(s, p, k)
      PROVE  BankedOf(Reversed(s), Front(p))
  <2>1. PICK n \in Nat, w \in Nat : n = Len(s) /\ w = Len(p) /\ w # 0
    OBVIOUS
  <2>2. w \in 1..k /\ Reversed(s) = Append(s, -s[w]) /\ k \in Nat /\ k <= n
    BY <1>2, <2>1, ReversesLast
  <2>3. s[w] \in Int /\ s[w] > 0 /\ p[w] = s[w] /\ w \in 1..n
    <3>1. w \in 1..n /\ w \in 1..w /\ w <= k
      BY <2>1, <2>2
    <3>2. \A i \in 1..n : s[i] > 0 <=> i <= k
      BY <1>2, <2>1 DEF InOrder
    <3>3. \A i \in 1..w : p[i] = s[i]
      BY <1>2, <2>1 DEF InOrder
    <3>4. s[w] \in Int
      BY <2>1, <3>1
    <3>5. QED
      BY <3>1, <3>2, <3>3, <3>4
  <2>4. PICK x \in Int : x = -s[w] /\ x < 0
    <3>1. PICK v \in Int : v = s[w] /\ v > 0
      BY <2>3
    <3>2. -v \in Int /\ -v < 0
      BY <3>1
    <3>3. QED
      BY <3>1, <3>2
  <2>5. PICK t : t = Append(s, x)
    OBVIOUS
  <2>6. Len(t) = n + 1 /\ \A j \in 1..n + 1 : t[j] = IF j = n + 1 THEN x ELSE s[j]
    BY <2>1, <2>5
  <2>7. PICK q : q = Front(p)
    OBVIOUS
  <2>8. /\ q \in Seq(Int) /\ Len(q) = w - 1 /\ (\A j \in 1..w - 1 : q[j] = p[j])
        /\ p = Append(q, p[w])
    <3>1. /\ q \in Seq(Int) /\ Len(q) = w - 1 /\ \A j \in 1..w - 1 : q[j] = p[j]
      BY <2>1, <2>7, FrontOK
    <3>2. PICK u : u = Append(q, p[w])
      OBVIOUS
    <3>3. p[w] \in Int /\ u \in Seq(Int) /\ Len(u) = w /\ \A j \in 1..w : u[j] = p[j]
      BY <2>1, <3>1, <3>2
    <3>4. u = p
      <4>1. p \in Seq(Int) /\ Len(p) = w
        BY <2>1
      <4>2. p = [j \in 1..w |-> p[j]] /\ u = [j \in 1..w |-> u[j]]
        BY <3>3, <4>1
      <4>3. [j \in 1..w |-> p[j]] = [j \in 1..w |-> u[j]]
        BY <3>3
      <4>4. QED
        BY <4>2, <4>3, Zenon
    <3>5. QED
      BY <3>1, <3>2, <3>4
  <2>9. SumFunction(t) = SumFunction(q)
    <3>1. SumFunction(s) \in Int /\ SumFunction(t) = SumFunction(s) + x
      BY <2>5, SumAppend
    <3>2. q \in Seq(Int) /\ p[w] \in Int
      BY <2>3, <2>8
    <3>3. SumFunction(q) \in Int /\ SumFunction(p) = SumFunction(q) + p[w]
      BY <2>8, <3>2, SumAppend
    <3>4. SumFunction(s) = SumFunction(p)
      BY <1>2 DEF InOrder
    <3>5. QED
      BY <2>3, <2>4, <3>1, <3>2, <3>3, <3>4
  <2>10. \A j \in 1..n : s[j] # 0 /\ (s[j] > 0 <=> j <= k)
    BY <1>2, <2>1 DEF InOrder, BankedOf
  <2>11. \A j \in 1..n + 1 : t[j] # 0 /\ (t[j] > 0 <=> j <= k)
    <3>1. \A j \in 1..n + 1 : j # n + 1 => j \in 1..n
      BY <2>1
    <3>2. x # 0 /\ ~ (x > 0) /\ ~ (n + 1 <= k)
      BY <2>1, <2>2, <2>4
    <3>3. QED
      BY <2>6, <2>10, <3>1, <3>2
  <2>12. \A j \in 1..w - 1 : q[j] = t[j]
    <3>1. \A j \in 1..w - 1 : j \in 1..n + 1 /\ j # n + 1 /\ j \in 1..w
      BY <2>1, <2>3
    <3>2. \A j \in 1..w : p[j] = s[j]
      BY <1>2, <2>1 DEF InOrder
    <3>3. QED
      BY <2>6, <2>8, <3>1, <3>2
  <2>13. w - 1 = 2 * k - (n + 1)
    BY <1>2, <2>1, <2>2 DEF InOrder
  <2>14. InOrder(t, q, k) /\ k \in 0..Len(t)
    BY <2>1, <2>2, <2>6, <2>8, <2>9, <2>11, <2>12, <2>13 DEF InOrder
  <2>15. BankedOf(t, q)
    BY <2>6, <2>11, <2>14 DEF BankedOf
  <2>16. QED
    BY <2>2, <2>4, <2>5, <2>7, <2>15
<1>3. QED
  BY <1>1, <1>2 DEF BankedOf

\* A payout taken back that no event stands for reverses nothing.
LEMMA NothingReversed == ASSUME NEW s \in Seq(Int), BankedOf(s, <<>>) PROVE BankedOf(Reversed(s), <<>>)
<1>1. CASE PaidAfterReversal(s)
  <2>1. CASE Reversed(s) = s
    BY <2>1
  <2>2. ASSUME NEW i \in DOMAIN s, s[i] > 0, Reversed(s) = Append(s, -s[i])
        PROVE  BankedOf(Reversed(s), <<>>)
    BY <1>1, <2>2, ReversedLate DEF BankedOf
  <2>3. QED
    BY <2>1, <2>2, ReversedOK
<1>2. ASSUME NEW k \in 0..Len(s), InOrder(s, <<>>, k) PROVE Reversed(s) = s
  <2>1. PICK n \in Nat : n = Len(s)
    OBVIOUS
  <2>2. Len(<<>>) = 0 /\ n = 2 * k /\ k \in Nat
    BY <1>2, <2>1 DEF InOrder
  <2>3. DOMAIN s = 1..n /\ \A i \in 1..n : s[i] \in Int /\ s[i] # 0 /\ (s[i] > 0 <=> i <= k)
    BY <1>2, <2>1 DEF BankedOf, InOrder
  <2>4. PICK payouts : payouts = {i \in DOMAIN s : s[i] > 0}
    OBVIOUS
  <2>5. payouts = 1..k /\ {i \in DOMAIN s : s[i] < 0} = k + 1 .. n
    BY <2>2, <2>3, <2>4
  <2>6. Cardinality(1..k) = k
    BY <2>2, FS_Interval
  <2>7. Cardinality(k + 1 .. n) = n - k
    <3>1. CASE k = 0
      BY <2>2, <3>1, FS_Interval
    <3>2. CASE k # 0
      BY <2>1, <2>2, <3>2, FS_Interval
    <3>3. QED
      BY <3>1, <3>2
  <2>8. PICK left : left = Cardinality(payouts) - Cardinality({i \in DOMAIN s : s[i] < 0})
    OBVIOUS
  <2>9. left = 0
    <3>1. left = k - (n - k)
      BY <2>5, <2>6, <2>7, <2>8
    <3>2. QED
      BY <2>1, <2>2, <3>1
  <2>10. PICK newest : newest = {i \in payouts : Cardinality({j \in payouts : j <= i}) = left}
    OBVIOUS
  <2>11. ASSUME NEW i \in payouts PROVE Cardinality({j \in payouts : j <= i}) # 0
    <3>1. {j \in payouts : j <= i} = 1..i /\ i \in Nat /\ i # 0
      BY <2>2, <2>5
    <3>2. 1 \in Int /\ i \in Int /\ ~ (1 > i) /\ i - 1 + 1 = i
      BY <3>1
    <3>3. Cardinality(1..i) = i
      BY <3>2, FS_Interval
    <3>4. QED
      BY <3>1, <3>3
  <2>12. newest = {}
    BY <2>9, <2>10, <2>11, Zenon
  <2>13. Reversed(s) = IF newest = {} THEN s ELSE Append(s, -s[CHOOSE i \in newest : TRUE])
    BY <2>4, <2>8, <2>10 DEF Reversed
  <2>14. QED
    BY <2>12, <2>13
<1>3. QED
  BY <1>1, <1>2 DEF BankedOf

\* Before the first payout nothing is banked.
LEMMA InitBanked == Init => Banked
<1> SUFFICES ASSUME Init, NEW m \in Mirror PROVE BankedOf(ledger[m], paid[m])
  BY DEF Banked
<1>1. ledger[m] = <<>> /\ paid[m] = <<>>
  BY DEF Init
<1>2. InOrder(<<>>, <<>>, 0)
  <2>1. Len(<<>>) = 0 /\ 1..0 = {} /\ 0 = 2 * 0 - 0
    OBVIOUS
  <2>2. QED
    BY <2>1, Zenon DEF InOrder
<1>3. QED
  BY <1>1, <1>2 DEF BankedOf

\* Only a payout and a reversal touch the two sums, and they move together.
LEMMA NextBanked == Typed /\ Banked /\ [Next]_vars => Banked'
<1> SUFFICES ASSUME Typed, Banked, [Next]_vars, NEW m \in Mirror, m \notin uncounted'
             PROVE  BankedOf(ledger[m], paid[m])'
  BY DEF Banked
<1>0. uncounted \subseteq uncounted'
  BY DEF Next, vars, Trade, NextDay, PassStep, PassBegins, Books, SavesLeaders, SavesMirrors, Crash,
         Operator, MarkPaid, Adopt, TakeBack, Delete, Refreshes, Pair, Activate, Remap, PlanLoads,
         PlanSaves, Observes, Import, ImportLoads, Patches, ImportEnds
<1>1. ledger \in [Mirror -> Seq(Int)] /\ paid \in [Mirror -> Seq(Int)] /\ BankedOf(ledger[m], paid[m])
  BY <1>0 DEF Typed, BooksTyped, Banked
<1>2. CASE UNCHANGED <<ledger[m], paid[m]>>
  BY <1>1, <1>2 DEF BankedOf, InOrder, PaidAfterReversal
<1>3. ASSUME NEW x \in Mirror, NEW a, NEW made \in BOOLEAN, MarkPaid(x, a, made)
      PROVE  BankedOf(ledger[m], paid[m])'
  <2>1. CASE x # m
    BY <1>1, <1>2, <1>3, <2>1 DEF MarkPaid
  <2>2. CASE x = m
    <3>1. m \in DOMAIN store /\ store[m] \in MirrorRecord /\ a = Preview(m, store[m]) /\ a > 0
      BY <1>3, <2>2 DEF MarkPaid, Typed, StoreTyped
    <3>2. a \in Nat
      BY <3>1, PreviewOK
    <3>3. ledger'[m] = Append(ledger[m], a) /\ paid'[m] = Append(paid[m], a)
      BY <1>1, <1>3, <2>2 DEF MarkPaid
    <3>4. BankedOf(Append(ledger[m], a), Append(paid[m], a))
      BY <1>1, <3>1, <3>2, PayoutBanked
    <3>5. QED
      BY <3>3, <3>4 DEF BankedOf, InOrder, PaidAfterReversal
  <2>3. QED
    BY <2>1, <2>2
<1>4. ASSUME NEW x \in Mirror, TakeBack(x) PROVE BankedOf(ledger[m], paid[m])'
  <2>1. CASE x # m
    BY <1>1, <1>2, <1>4, <2>1 DEF TakeBack
  <2>2. CASE x = m
    <3>1. /\ ledger'[m] = Reversed(ledger[m])
          /\ paid'[m] = IF paid[m] = <<>> THEN paid[m] ELSE Front(paid[m])
      BY <1>1, <1>4, <2>2 DEF TakeBack
    <3>2. BankedOf(Reversed(ledger[m]), IF paid[m] = <<>> THEN paid[m] ELSE Front(paid[m]))
      BY <1>1, ReversalBanked, NothingReversed
    <3>3. QED
      BY <3>1, <3>2 DEF BankedOf, InOrder, PaidAfterReversal
  <2>3. QED
    BY <2>1, <2>2
<1>5. ASSUME NEW x \in Mirror, Adopt(x) PROVE BankedOf(ledger[m], paid[m])'
  <2>1. x # m
    BY <1>5 DEF Adopt
  <2>2. QED
    BY <1>1, <1>2, <1>5, <2>1 DEF Adopt
<1>6. CASE UNCHANGED <<ledger, paid>>
  BY <1>2, <1>6
<1>7. QED
  BY <1>3, <1>4, <1>5, <1>6
     DEF Next, vars, Trade, NextDay, PassStep, PassBegins, Books, SavesLeaders, SavesMirrors, Crash,
         Operator, Delete, Refreshes, Pair, Activate, Remap, PlanLoads, PlanSaves, Observes, Import,
         ImportLoads, Patches, ImportEnds

\* In every instance analytics' banked total is the withdrawals the operator stands by, as long as
\* no payout follows a reversal and none was counted without a positive event.
THEOREM BankedIsWithdrawn == Spec => []LedgerIsBanked
<1>1. Init => Banked
  BY InitBanked
<1>2. Typed /\ Banked /\ [Next]_vars => Banked'
  BY NextBanked
<1>3. Banked => LedgerIsBanked
  BY DEF Banked, BankedOf, InOrder, LedgerIsBanked, Sum
<1>4. QED
  BY <1>1, <1>2, <1>3, RecordsAreTyped, PTL DEF Spec

-----------------------------------------------------------------------------
(* Shares and the pass's copy.                                             *)
Wired == Sharers /\ Pass

\* The parts imply the type invariant, before and after a step.
LEMMA TypedMeans == (Typed => TypeOK) /\ (Typed' => TypeOK')
  BY IntakesAre
     DEF Typed, TypeOK, StoreTyped, PassTyped, TruthTyped, BooksTyped, RowsTyped, TradesTyped, RestTyped,
         CopiesTyped, PlanTyped, IntakeTyped

\* An edit of the store leaves the pass as it is, but for what it has been edited under.
LEMMA EditFrame ==
  ASSUME Typed, NEW E \in SUBSET Mirror, EditedAll(E)
  PROVE  /\ pass = None <=> pass' = None
         /\ \A l \in Leader : Booked(l)' <=> Booked(l)
         /\ pass # None => /\ pass'.copy = pass.copy /\ pass'.touched = pass.touched
                           /\ pass'.booked = pass.booked /\ pass'.saved = pass.saved
                           /\ pass'.edited = pass.edited \cup E
<1>1. CASE pass = None
  BY <1>1 DEF EditedAll, Booked
<1>2. CASE pass # None
  <2>1. pass' = [pass EXCEPT !.edited = @ \cup E]
    BY <1>2 DEF EditedAll
  <2>2. pass \in Passes(DOMAIN pass.copy) /\ DOMAIN pass.copy \subseteq Mirror
    BY <1>2 DEF Typed, PassTyped
  <2>3. /\ pass'.copy = pass.copy /\ pass'.touched = pass.touched /\ pass' \in Passes(DOMAIN pass.copy)
        /\ pass'.booked = pass.booked /\ pass'.saved = pass.saved /\ pass'.edited = pass.edited \cup E
    BY <2>1, <2>2 DEF Passes
  <2>4. pass' # None
    BY <2>2, <2>3, PassIs
  <2>5. QED
    BY <1>2, <2>3, <2>4 DEF Booked
<1>3. QED
  BY <1>1, <1>2

\* What Watch leaves out of the drifted.
LEMMA Watched == ASSUME Watch, NEW m \in Mirror, m \notin drifted'
                 PROVE  /\ m \notin drifted /\ Drift(m)' = 0
                        /\ ledger'[m] # ledger[m] => Unbooked(m) = 0
                        /\ pass' # None => m \notin pass'.edited \cap pass'.touched
                        /\ ~ Overwritten(m) /\ ~ Outdated(m)
  BY DEF Watch

\* A mirror both edited and booked is among the drifted.
LEMMA Crossed == ASSUME Watch, PassTyped', pass' # None
                 PROVE  pass'.touched \cap pass'.edited \subseteq drifted'
<1>1. pass'.edited \subseteq Mirror
  BY DEF PassTyped, Passes
<1>2. QED
  BY <1>1 DEF Watch

\* An edit of the store keeps the shares and the pass's copy wired.
LEMMA EditsWired ==
  ASSUME Typed, Typed', Wired, Watch, NEW E \in SUBSET Mirror, EditedAll(E),
         pend' = pend, day' = day, DOMAIN store \subseteq DOMAIN store',
         \A m \in DOMAIN store \ E : store'[m] = store[m]
  PROVE  Wired'
<1>1. Sharers'
  BY EditFrame DEF Wired, Sharers, Share
<1>2. Pass'
  <2>1. CASE pass = None
    BY <2>1, EditFrame DEF Pass
  <2>2. CASE pass # None
    BY <2>2, EditFrame, Crossed DEF Wired, Pass, Typed
  <2>3. QED
    BY <2>1, <2>2
<1>3. QED
  BY <1>1, <1>2 DEF Wired

\* So does a step that touches none of the three.
LEMMA StillWired == ASSUME Wired, Watch, UNCHANGED <<store, pass, pend>>, day' = day \/ pass = None
                    PROVE  Wired'
<1>1. Sharers'
  BY DEF Wired, Sharers, Share
<1>2. Pass'
  BY DEF Wired, Pass, Watch
<1>3. QED
  BY <1>1, <1>2 DEF Wired

\* No share and no pass at the start.
LEMMA InitWired == Init => Wired
  BY DEF Init, Wired, Sharers, Share, Pass

\* A trade gives shares to mirrors only, out of a pass.
LEMMA TradeWired == ASSUME Typed, Wired, NEW l \in Leader, NEW delta \in Outcome, Trade(l, delta)
                    PROVE  Wired'
<1>1. PICK by \in [Mirror -> Int] :
        /\ by = [m \in Mirror |-> IF m \in DOMAIN store /\ Follows(store[m], l)
                                  THEN Scaled(delta, store[m]) ELSE 0]
        /\ pend'[l].by = by /\ \A k \in Leader \ {l} : pend'[k] = pend[k]
  BY TradeIs
<1>2. pass = None /\ pass' = None /\ store' = store
  BY DEF Trade
<1>3. Sharers'
  <2>1. ASSUME NEW k \in Leader, NEW m \in Mirror, Share(k, m)' # 0
        PROVE  m \in DOMAIN store
    <3>1. CASE k = l
      BY <1>1, <2>1, <3>1 DEF Share, Typed, TradesTyped
    <3>2. CASE k # l
      BY <1>1, <2>1, <3>2 DEF Share, Typed, TradesTyped, Wired, Sharers
    <3>3. QED
      BY <3>1, <3>2
  <2>2. QED
    BY <1>2, <2>1 DEF Sharers
<1>4. QED
  BY <1>2, <1>3 DEF Wired, Pass

\* A new pass's copy is the store.
LEMMA PassBeginsWired == ASSUME Typed, Wired, Watch, PassBegins PROVE Wired'
  BY DEF PassBegins, Wired, Sharers, Share, Pass

\* Booking touches the takers and dates them today.
LEMMA BooksWired == ASSUME Typed, Typed', Wired, Watch, NEW l \in Leader, Books(l) PROVE Wired'
<1>1. Sharers'
  <2>1. DOMAIN pass'.copy = DOMAIN pass.copy
    BY BooksIs DEF Booking
  <2>2. QED
    BY <2>1, BooksIs DEF Wired, Sharers, Share
<1>2. \A m \in pass'.touched : pass'.copy[m].date = day
  <2>1. ASSUME NEW m \in pass'.touched PROVE pass'.copy[m].date = day
    <3>1. m \in DOMAIN pass.copy
      BY BooksIs, PassFields DEF Typed
    <3>2. CASE m \in Takers(pass.copy, l, day)
      <4>1. /\ m \in Mirror /\ pass.copy[m] \in MirrorRecord /\ day \in Nat
            /\ Scaled(pend[l].delta, pass.copy[m]) \in Int
        BY <3>1, BooksIs, BookingOK
      <4>2. pass'.copy[m] = Advanced(m, pass.copy[m], Scaled(pend[l].delta, pass.copy[m]), day)
        BY <3>1, <3>2, BooksIs DEF Booking
      <4>3. QED
        BY <4>1, <4>2, AdvancedOK
    <3>3. CASE m \notin Takers(pass.copy, l, day)
      <4>1. m \in pass.touched /\ pass # None
        BY <2>1, <3>3, BooksIs
      <4>2. pass'.copy[m] = pass.copy[m]
        <5>1. pass'.copy = Booking(l)
          BY BooksIs
        <5>2. QED
          BY <3>1, <3>3, <5>1 DEF Booking
      <4>3. QED
        BY <4>1, <4>2 DEF Wired, Pass
    <3>4. QED
      BY <3>2, <3>3
  <2>2. QED
    BY <2>1
<1>3. ASSUME NEW m \in DOMAIN pass'.copy \ pass'.edited
      PROVE  m \in DOMAIN store /\ (m \notin pass'.touched => pass'.copy[m] = store[m])
  BY BooksIs DEF Booking, Wired, Pass
<1>4. Pass'
  <2>1. \A k \in pass'.booked : pend'[k] # None
    BY BooksIs DEF Wired, Pass
  <2>2. pass'.touched \cap pass'.edited \subseteq drifted'
    BY BooksIs, Crossed DEF Typed
  <2>3. QED
    BY <1>2, <1>3, <2>1, <2>2, BooksIs DEF Pass
<1>5. QED
  BY <1>1, <1>4 DEF Wired

\* Once the leaders are saved every closed trade is booked.
LEMMA SavesLeadersWired == ASSUME Typed, Wired, Watch, SavesLeaders PROVE Wired'
<1>1. Sharers'
  BY SavesLeadersIs DEF Wired, Sharers, Share
<1>2. Pass'
  BY SavesLeadersIs DEF Wired, Pass, Watch
<1>3. QED
  BY <1>1, <1>2 DEF Wired

\* The second save ends the pass and closes what it booked.
LEMMA SavesMirrorsWired == ASSUME Typed, Wired, SavesMirrors PROVE Wired'
  BY DEF SavesMirrors, Merged, Wired, Sharers, Share, Pass

\* A crash ends the pass too, and closes what was saved.
LEMMA CrashWired == ASSUME Typed, Wired, Crash PROVE Wired'
  BY DEF Crash, Wired, Sharers, Share, Pass

\* What the operator does to one mirror, the sum of a payout being a number.
Marks(m) == \E a \in Int, made \in BOOLEAN : MarkPaid(m, a, made)
LEMMA OperatorIs == ASSUME Typed, NEW m \in Mirror, Operator(m)
                    PROVE  \/ Marks(m) \/ Adopt(m) \/ TakeBack(m) \/ Delete(m) \/ Refreshes(m)
                           \/ (\E l \in Leader : Pair(m, l))
                           \/ (\E l \in Leader \cup {None} : Activate(m, l))
                           \/ \E l \in Leader \cup {None}, k \in {10, Firm[m].scale} : Remap(m, l, k)
<1>1. ASSUME NEW amount, NEW made \in BOOLEAN, MarkPaid(m, amount, made) PROVE Marks(m)
  <2>1. m \in DOMAIN store /\ amount = Preview(m, store[m])
    BY <1>1 DEF MarkPaid
  <2>2. amount \in Int
    BY <2>1, PreviewOK DEF Typed, StoreTyped
  <2>3. QED
    BY <1>1, <2>2 DEF Marks
<1>2. QED
  BY <1>1 DEF Operator

\* The operator's edits of one mirror leave the others alone.
LEMMA MirrorEdits ==
  ASSUME Typed, NEW m \in Mirror,
         \/ Marks(m) \/ Adopt(m) \/ TakeBack(m) \/ (\E l \in Leader : Pair(m, l))
         \/ (\E l \in Leader \cup {None} : Activate(m, l))
         \/ \E l \in Leader \cup {None}, k \in {10, Firm[m].scale} : Remap(m, l, k)
  PROVE  /\ EditedAll({m}) /\ pend' = pend /\ day' = day /\ m \in DOMAIN store
         /\ DOMAIN store' = DOMAIN store /\ \A n \in DOMAIN store \ {m} : store'[n] = store[n]
         /\ \A n \in Mirror \ {m} : truth'[n] = truth[n]
<1>1. store \in [DOMAIN store -> MirrorRecord] /\ truth \in [Mirror -> Truths]
  BY DEF Typed, StoreTyped, TruthTyped
<1>2. ASSUME NEW a, NEW made, MarkPaid(m, a, made)
      PROVE  /\ EditedAll({m}) /\ pend' = pend /\ day' = day /\ m \in DOMAIN store
             /\ DOMAIN store' = DOMAIN store /\ \A n \in DOMAIN store \ {m} : store'[n] = store[n]
             /\ \A n \in Mirror \ {m} : truth'[n] = truth[n]
  <2>1. /\ store' = [store EXCEPT ![m] = PaidOut(m, @)] /\ m \in DOMAIN store
        /\ EditedAll({m}) /\ pend' = pend /\ day' = day
    BY <1>2 DEF MarkPaid, Edited
  <2>2. \A n \in Mirror \ {m} : truth'[n] = truth[n]
    BY <1>1, <1>2 DEF MarkPaid
  <2>3. QED
    BY <1>1, <2>1, <2>2
<1>3. CASE TakeBack(m)
  <2>1. PICK y : store' = [store EXCEPT ![m] = y]
    BY <1>3, TakeBackIs
  <2>2. QED
    BY <1>1, <1>3, <2>1 DEF TakeBack, Edited
<1>8. CASE Adopt(m)
  BY <1>1, <1>8 DEF Adopt, Edited
<1>4. ASSUME NEW l, Pair(m, l)
      PROVE  /\ EditedAll({m}) /\ pend' = pend /\ day' = day /\ truth' = truth /\ m \in DOMAIN store
             /\ DOMAIN store' = DOMAIN store /\ \A n \in DOMAIN store \ {m} : store'[n] = store[n]
  BY <1>1, <1>4 DEF Pair, Edited
<1>5. ASSUME NEW l, Activate(m, l)
      PROVE  /\ EditedAll({m}) /\ pend' = pend /\ day' = day /\ m \in DOMAIN store
             /\ DOMAIN store' = DOMAIN store /\ \A n \in DOMAIN store \ {m} : store'[n] = store[n]
             /\ \A n \in Mirror \ {m} : truth'[n] = truth[n]
  BY <1>1, <1>5 DEF Activate, Edited
<1>6. ASSUME NEW l, NEW k, Remap(m, l, k)
      PROVE  /\ EditedAll({m}) /\ pend' = pend /\ day' = day /\ truth' = truth /\ m \in DOMAIN store
             /\ DOMAIN store' = DOMAIN store /\ \A n \in DOMAIN store \ {m} : store'[n] = store[n]
  BY <1>1, <1>6 DEF Remap, Edited
<1>7. QED
  BY <1>2, <1>3, <1>4, <1>5, <1>6, <1>8 DEF Marks

\* A deletion takes the mirror's shares with it, and no one else's.
LEMMA DeletedShare ==
  ASSUME Typed, NEW m \in Mirror, Delete(m)
  PROVE  \A l \in Leader : /\ pend'[l] = None <=> pend[l] = None
                           /\ \A n \in Mirror : Share(l, n)' = IF n = m THEN 0 ELSE Share(l, n)
<1>0. pend' = [l \in Leader |-> IF pend[l] = None THEN None ELSE [pend[l] EXCEPT !.by[m] = 0]]
  BY DEF Delete
<1>1. ASSUME NEW l \in Leader, pend[l] # None
      PROVE  /\ pend'[l] # None /\ pend'[l].by[m] = 0
             /\ \A n \in Mirror \ {m} : pend'[l].by[n] = pend[l].by[n]
  <2>1. pend[l] \in Closed
    BY <1>1 DEF Typed, TradesTyped
  <2>2. pend'[l] = [pend[l] EXCEPT !.by[m] = 0]
    BY <1>0, <1>1
  <2>3. pend'[l] \in Closed
    BY <2>1, <2>2 DEF Closed
  <2>4. QED
    BY <2>1, <2>2, <2>3, MirrorsAssumption DEF Closed
<1>2. ASSUME NEW l \in Leader
      PROVE  /\ pend'[l] = None <=> pend[l] = None
             /\ \A n \in Mirror : Share(l, n)' = IF n = m THEN 0 ELSE Share(l, n)
  <2>1. CASE pend[l] = None
    <3>1. pend'[l] = None
      BY <1>0, <2>1
    <3>2. QED
      BY <2>1, <3>1 DEF Share
  <2>2. CASE pend[l] # None
    BY <1>1, <2>2 DEF Share
  <2>3. QED
    BY <2>1, <2>2
<1>3. QED
  BY <1>2

\* A deletion keeps the wiring.
LEMMA DeleteWired == ASSUME Typed, Typed', Wired, Watch, NEW m \in Mirror, Delete(m) PROVE Wired'
<1>1. /\ EditedAll({m}) /\ DOMAIN store' = DOMAIN store \ {m} /\ day' = day
      /\ \A n \in DOMAIN store \ {m} : store'[n] = store[n]
      /\ pend' = [l \in Leader |-> IF pend[l] = None THEN None ELSE [pend[l] EXCEPT !.by[m] = 0]]
  BY DEF Delete, Edited, Restrict
<1>2. \A l \in Leader : /\ pend'[l] = None <=> pend[l] = None
                        /\ \A n \in Mirror : Share(l, n)' = IF n = m THEN 0 ELSE Share(l, n)
  BY DeletedShare
<1>3. Sharers'
  BY <1>1, <1>2, EditFrame DEF Wired, Sharers
<1>4. Pass'
  <2>1. CASE pass = None
    BY <1>1, <2>1, EditFrame DEF Pass
  <2>2. CASE pass # None
    <3>1. /\ pass' # None /\ pass'.copy = pass.copy /\ pass'.touched = pass.touched
          /\ pass'.booked = pass.booked /\ pass'.saved = pass.saved
          /\ pass'.edited = pass.edited \cup {m} /\ pass.booked \subseteq Leader
      BY <1>1, <2>2, EditFrame, PassFields DEF Typed
    <3>2. pass'.touched \cap pass'.edited \subseteq drifted'
      BY <3>1, Crossed DEF Typed
    <3>3. QED
      BY <1>1, <1>2, <2>2, <3>1, <3>2 DEF Wired, Pass
  <2>3. QED
    BY <2>1, <2>2
<1>5. QED
  BY <1>3, <1>4 DEF Wired

\* What a plan, an import and a patch edit.
LEMMA ReportEdits ==
  ASSUME Typed, \/ PlanSaves \/ (\E names \in SUBSET Mirror : Import(names))
                \/ \E m \in Mirror : Patches(m) /\ m \in DOMAIN store
  PROVE  \E E \in SUBSET Mirror :
           /\ EditedAll(E) /\ pend' = pend /\ day' = day /\ DOMAIN store \subseteq DOMAIN store'
           /\ \A m \in DOMAIN store \ E : store'[m] = store[m]
           /\ DOMAIN store' \ DOMAIN store \subseteq E
<1>1. CASE PlanSaves
  <2>1. plan # None /\ EditedAll(DOMAIN plan) /\ DOMAIN plan \in SUBSET Mirror
    BY <1>1 DEF PlanSaves, Typed, CopiesTyped, PlanTyped
  <2>2. store' = [m \in DOMAIN store \cup DOMAIN plan |-> IF m \in DOMAIN plan THEN plan[m] ELSE store[m]]
    BY <1>1 DEF PlanSaves
  <2>3. pend' = pend /\ day' = day
    BY <1>1 DEF PlanSaves
  <2>4. QED
    BY <2>1, <2>2, <2>3
<1>2. ASSUME NEW names \in SUBSET Mirror, Import(names)
      PROVE  \E E \in SUBSET Mirror :
               /\ EditedAll(E) /\ pend' = pend /\ day' = day /\ DOMAIN store \subseteq DOMAIN store'
               /\ \A m \in DOMAIN store \ E : store'[m] = store[m]
               /\ DOMAIN store' \ DOMAIN store \subseteq E
  <2>1. PICK ph \in [names -> Phases] : store' = Onboarded(ph)
    BY <1>2 DEF Import
  <2>2. EditedAll(names) /\ pend' = pend /\ day' = day
    BY <1>2 DEF Import
  <2>3. /\ DOMAIN store' = DOMAIN store \cup names
        /\ \A m \in DOMAIN store \ names : store'[m] = store[m]
    BY <2>1 DEF Onboarded
  <2>4. QED
    BY <2>2, <2>3
<1>3. ASSUME NEW m \in Mirror, Patches(m), m \in DOMAIN store
      PROVE  \E E \in SUBSET Mirror :
               /\ EditedAll(E) /\ pend' = pend /\ day' = day /\ DOMAIN store \subseteq DOMAIN store'
               /\ \A n \in DOMAIN store \ E : store'[n] = store[n]
               /\ DOMAIN store' \ DOMAIN store \subseteq E
  <2>1. PICK s \in MirrorRecord : /\ store' = [store EXCEPT ![m] = s]
                                  /\ EditedAll(IF s = store[m] THEN {} ELSE {m})
    BY <1>3, PatchesIs
  <2>2. PICK E \in SUBSET Mirror : E = IF s = store[m] THEN {} ELSE {m}
    OBVIOUS
  <2>3. pend' = pend /\ day' = day
    BY <1>3 DEF Patches
  <2>4. store \in [DOMAIN store -> MirrorRecord]
    BY DEF Typed, StoreTyped
  <2>5. QED
    BY <2>1, <2>2, <2>3, <2>4
<1>4. QED
  BY <1>1, <1>2, <1>3

\* The steps that leave the file, the pass and the trades alone.
Quiet == \/ PlanLoads \/ Observes \/ ImportLoads \/ ImportEnds
         \/ \E m \in Mirror : Refreshes(m) \/ (Patches(m) /\ m \notin DOMAIN store)
LEMMA QuietIs == ASSUME Quiet
                 PROVE  UNCHANGED <<store, pass, pend, truth, ledger, paid, day>>
  BY DEF Quiet, PlanLoads, Observes, ImportLoads, ImportEnds, Refreshes, Patches

\* Every step keeps the wiring.
LEMMA NextWired == Typed /\ Wired /\ [Next]_vars => Wired'
<1> SUFFICES ASSUME Typed, Wired, [Next]_vars PROVE Wired'
  OBVIOUS
<1>0. Typed'
  BY NextTyped
<1>1. CASE UNCHANGED vars
  BY <1>1 DEF vars, Wired, Sharers, Share, Pass
<1>2. CASE Next
  <2>1. Watch
    BY <1>2 DEF Next
  <2>2. CASE \E l \in Leader, d \in Outcome : Trade(l, d)
    BY <2>2, TradeWired
  <2>3. CASE NextDay
    BY <2>1, <2>3, StillWired DEF NextDay
  <2>4. CASE PassStep
    BY <1>0, <2>1, <2>4, PassBeginsWired, BooksWired, SavesLeadersWired, SavesMirrorsWired DEF PassStep
  <2>5. CASE Crash
    BY <2>5, CrashWired
  <2>6. CASE Quiet
    BY <2>1, <2>6, QuietIs, StillWired
  <2>7. ASSUME NEW m \in Mirror, Operator(m), ~ Refreshes(m) PROVE Wired'
    <3>1. CASE Delete(m)
      BY <1>0, <2>1, <3>1, DeleteWired
    <3>2. CASE \/ Marks(m) \/ Adopt(m) \/ TakeBack(m) \/ (\E l \in Leader : Pair(m, l))
               \/ (\E l \in Leader \cup {None} : Activate(m, l))
               \/ \E l \in Leader \cup {None}, k \in {10, Firm[m].scale} : Remap(m, l, k)
      <4>1. /\ EditedAll({m}) /\ pend' = pend /\ day' = day /\ {m} \in SUBSET Mirror
            /\ DOMAIN store \subseteq DOMAIN store' /\ \A n \in DOMAIN store \ {m} : store'[n] = store[n]
        BY <3>2, MirrorEdits
      <4>2. QED
        BY <1>0, <2>1, <4>1, EditsWired
    <3>3. QED
      BY <2>7, <3>1, <3>2, OperatorIs
  <2>8. CASE \/ PlanSaves \/ (\E names \in SUBSET Mirror : Import(names))
             \/ \E m \in Mirror : Patches(m) /\ m \in DOMAIN store
    <3>1. PICK E \in SUBSET Mirror :
           /\ EditedAll(E) /\ pend' = pend /\ day' = day /\ DOMAIN store \subseteq DOMAIN store'
           /\ \A m \in DOMAIN store \ E : store'[m] = store[m]
      BY <2>8, ReportEdits
    <3>2. QED
      BY <1>0, <2>1, <3>1, EditsWired
  <2>9. QED
    BY <1>2, <2>2, <2>3, <2>4, <2>5, <2>6, <2>7, <2>8 DEF Next, Quiet
<1>3. QED
  BY <1>1, <1>2

\* Types and wiring hold in every state.
LEMMA WiredAlways == Spec => [](Typed /\ Wired)
<1>1. Init => Wired
  BY InitWired
<1>2. QED
  BY <1>1, NextWired, RecordsAreTyped, PTL DEF Spec

-----------------------------------------------------------------------------
(* Where drift is born.                                                    *)
LEMMA DriftIs ==
  Typed => /\ \A m \in Mirror : Unbooked(m) \in Int
           /\ \A m \in DOMAIN store : /\ m \in Mirror /\ truth[m].equity \in Int
                                      /\ Believed(m) \in MirrorRecord /\ Believed(m).equity \in Int
                                      /\ Drift(m) = truth[m].equity - Believed(m).equity - Unbooked(m)
<1> SUFFICES ASSUME Typed
             PROVE  /\ \A m \in Mirror : Unbooked(m) \in Int
                    /\ \A m \in DOMAIN store :
                         /\ m \in Mirror /\ truth[m].equity \in Int
                         /\ Believed(m) \in MirrorRecord /\ Believed(m).equity \in Int
                         /\ Drift(m) = truth[m].equity - Believed(m).equity - Unbooked(m)
  OBVIOUS
<1>1. \A m \in Mirror : Unbooked(m) \in Int
  BY TypedMeans, UnbookedOK
<1>2. ASSUME NEW m \in DOMAIN store
      PROVE  m \in Mirror /\ truth[m].equity \in Int /\ Believed(m) \in MirrorRecord
  <2>1. m \in Mirror /\ store[m] \in MirrorRecord
    BY DEF Typed, StoreTyped
  <2>2. truth[m].equity \in Int
    BY <2>1 DEF Typed, TruthTyped, Truths
  <2>3. pass # None /\ m \in pass.touched => pass.copy[m] \in MirrorRecord
    BY PassFields DEF Typed
  <2>4. QED
    BY <2>1, <2>2, <2>3 DEF Believed
<1>3. \A r \in MirrorRecord : r.equity \in Int
  BY DEF MirrorRecord
<1>4. QED
  BY <1>1, <1>2, <1>3 DEF Drift

\* The same in the next state.
LEMMA DriftIsNext ==
  (Typed => /\ \A m \in Mirror : Unbooked(m) \in Int
            /\ \A m \in DOMAIN store : /\ m \in Mirror /\ truth[m].equity \in Int
                                       /\ Believed(m) \in MirrorRecord /\ Believed(m).equity \in Int
                                       /\ Drift(m) = truth[m].equity - Believed(m).equity - Unbooked(m))'
  BY DriftIs, PTL

Cause(m) == \/ Imported(m) \/ SecondOfDate(m) \/ Remapped(m) \/ Misread(m) \/ MarkedUnpaid(m)
            \/ LostAtCrash(m) \/ Overlap(m) \/ Overwritten(m) \/ Outdated(m)
Caused == \A m \in DOMAIN store' : Drift(m)' \notin {0, Drift(m)} => Cause(m)

Untouched(m) == pass = None \/ m \notin pass.touched

\* An edit adds the edited records to the drift, and takes the truth's move off it.
LEMMA EditDrift ==
  ASSUME Typed, Typed', NEW E \in SUBSET Mirror, EditedAll(E), pend' = pend
  PROVE  /\ \A m \in Mirror : Unbooked(m)' = Unbooked(m)
         /\ \A m \in DOMAIN store : m \in DOMAIN store' /\ Untouched(m) =>
              Drift(m)' = Drift(m) + (truth'[m].equity - truth[m].equity)
                                   - (store'[m].equity - store[m].equity)
         /\ \A m \in DOMAIN store' : Untouched(m) =>
              Drift(m)' = truth'[m].equity - store'[m].equity - Unbooked(m)
         /\ \A m \in E : ~ Untouched(m) => Overlap(m)
         /\ \A m \in DOMAIN store : m \in DOMAIN store' /\ store'[m] = store[m]
                                    /\ truth'[m] = truth[m] => Drift(m)' = Drift(m)
<1>1. ASSUME NEW m \in Mirror PROVE Unbooked(m)' = Unbooked(m)
  <2>1. \A l \in Leader : Open(l, m)' = Open(l, m)
    BY EditFrame DEF Open, Share
  <2>2. QED
    BY <2>1, TypedMeans, UnbookedMoves
<1>2. \A m \in Mirror : Untouched(m) => Believed(m) = store[m] /\ Believed(m)' = store'[m]
  BY EditFrame DEF Untouched, Believed
<1>3. ASSUME NEW m \in DOMAIN store' PROVE Untouched(m) =>
              Drift(m)' = truth'[m].equity - store'[m].equity - Unbooked(m)
  <2>1. m \in Mirror /\ Drift(m)' = truth'[m].equity - Believed(m)'.equity - Unbooked(m)'
    BY DriftIsNext
  <2>2. QED
    BY <1>1, <1>2, <2>1
<1>4. ASSUME NEW m \in DOMAIN store, m \in DOMAIN store', Untouched(m)
      PROVE  Drift(m)' = Drift(m) + (truth'[m].equity - truth[m].equity)
                                  - (store'[m].equity - store[m].equity)
  <2>1. /\ m \in Mirror /\ truth[m].equity \in Int /\ store[m].equity \in Int /\ Unbooked(m) \in Int
        /\ Drift(m) = truth[m].equity - store[m].equity - Unbooked(m)
    BY <1>2, <1>4, DriftIs
  <2>2. truth'[m].equity \in Int /\ store'[m].equity \in Int
    BY <1>2, <1>4, <2>1, DriftIsNext
  <2>3. Drift(m)' = truth'[m].equity - store'[m].equity - Unbooked(m)
    BY <1>3, <1>4
  <2>4. QED
    BY <2>1, <2>2, <2>3
<1>5. \A m \in E : ~ Untouched(m) => Overlap(m)
  BY EditFrame DEF Untouched, Overlap, Latest
<1>6. ASSUME NEW m \in DOMAIN store, m \in DOMAIN store', store'[m] = store[m], truth'[m] = truth[m]
      PROVE  Drift(m)' = Drift(m)
  <2>1. Believed(m)' = Believed(m)
    BY <1>6, EditFrame DEF Believed
  <2>2. m \in Mirror
    BY <1>6, DriftIs
  <2>3. QED
    BY <1>1, <1>6, <2>1, <2>2, DriftIs, DriftIsNext
<1>7. QED
  BY <1>1, <1>3, <1>4, <1>5, <1>6

\* A trade moves the truth and what is not booked alike.
LEMMA TradeCaused == ASSUME Typed, Typed', NEW l \in Leader, NEW delta \in Outcome, Trade(l, delta)
                     PROVE  Caused
<1> SUFFICES ASSUME NEW m \in DOMAIN store' PROVE Drift(m)' = Drift(m)
  BY DEF Caused
<1>1. PICK by \in [Mirror -> Int] :
        /\ pend'[l] # None /\ pend'[l].by = by /\ \A k \in Leader \ {l} : pend'[k] = pend[k]
        /\ truth' = [x \in Mirror |-> Copied(x, truth[x], by[x])]
  BY TradeIs
<1>2. pass = None /\ pass' = None /\ store' = store /\ pend[l] = None
  BY DEF Trade
<1>3. m \in Mirror /\ m \in DOMAIN store /\ truth[m].equity \in Int
  BY <1>2, DriftIs
<1>6. by[m] \in Int
  BY <1>1, <1>3
<1>7. Open(l, m) = 0 /\ Open(l, m)' = by[m] /\ \A k \in Leader \ {l} : Open(k, m)' = Open(k, m)
  BY <1>1, <1>2 DEF Open, Booked, Share
<1>8. Unbooked(m)' = Unbooked(m) + by[m]
  <2>1. Unbooked(m) \in Int
    BY <1>3, DriftIs
  <2>2. Unbooked(m)' = Unbooked(m) - Open(l, m) + Open(l, m)'
    BY <1>3, <1>7, TypedMeans, UnbookedMoves
  <2>3. QED
    BY <1>6, <1>7, <2>1, <2>2
<1>9. truth'[m].equity = truth[m].equity + by[m]
  <2>1. truth[m] \in Truths
    BY <1>3 DEF Typed, TruthTyped
  <2>2. truth'[m] = Copied(m, truth[m], by[m])
    BY <1>1, <1>3
  <2>3. PICK p \in Int : p = by[m]
    BY <1>6
  <2>4. Copied(m, truth[m], p).equity = truth[m].equity + p
    BY <1>3, <2>1, CopiedOK
  <2>5. QED
    BY <2>2, <2>3, <2>4
<1>10. Believed(m)' = Believed(m)
  BY <1>2 DEF Believed
<1>11. QED
  <2>1. /\ Believed(m).equity \in Int /\ Unbooked(m) \in Int
        /\ Drift(m) = truth[m].equity - Believed(m).equity - Unbooked(m)
    BY <1>3, DriftIs
  <2>2. Drift(m)' = truth'[m].equity - Believed(m).equity - Unbooked(m)'
    BY <1>10, DriftIsNext
  <2>3. QED
    BY <1>3, <1>6, <1>8, <1>9, <2>1, <2>2

\* With the shares, the store and the truth unchanged, so is the drift.
LEMMA QuietDrift ==
  ASSUME Typed, Typed', NEW m \in DOMAIN store', m \in DOMAIN store, truth'[m] = truth[m],
         Believed(m)' = Believed(m), \A l \in Leader : Open(l, m)' = Open(l, m)
  PROVE  Drift(m)' = Drift(m)
<1>1. m \in Mirror /\ Unbooked(m)' = Unbooked(m)
  BY DriftIs, TypedMeans, UnbookedMoves
<1>2. QED
  BY <1>1, DriftIs, DriftIsNext

\* What Books makes of one mirror's drift.
LEMMA BooksMoves ==
  ASSUME Typed, Typed', NEW l \in Leader, Books(l), NEW m \in DOMAIN store
  PROVE  LET tk == Takers(pass.copy, l, day) IN
         /\ m \in DOMAIN store' /\ Share(l, m) \in Int
         /\ Unbooked(m)' = Unbooked(m) - Share(l, m)
         /\ m \notin tk => Believed(m)' = Believed(m) /\ Drift(m)' = Drift(m) + Share(l, m)
         /\ m \in tk => /\ pass.copy[m] \in MirrorRecord
                        /\ Scaled(pend[l].delta, pass.copy[m]) \in Int
                        /\ Believed(m)' = pass'.copy[m]
                        /\ Believed(m)'.equity = pass.copy[m].equity + Scaled(pend[l].delta, pass.copy[m])
                        /\ Untouched(m) /\ pass.copy[m] = store[m] =>
                             Drift(m)' = Drift(m) + Share(l, m) - Scaled(pend[l].delta, pass.copy[m])
<1>1. PICK tk : tk = Takers(pass.copy, l, day)
  OBVIOUS
<1>2. /\ pass # None /\ pass' # None /\ pend[l] # None /\ ~ Booked(l)
      /\ pass'.copy = Booking(l) /\ pass'.touched = pass.touched \cup tk
      /\ pass'.booked = pass.booked \cup {l} /\ tk \subseteq DOMAIN pass.copy
      /\ store' = store /\ pend' = pend /\ truth' = truth
  BY <1>1, BooksIs
<1>3. m \in Mirror /\ truth[m].equity \in Int /\ Unbooked(m) \in Int /\ m \in DOMAIN store'
  BY <1>2, DriftIs
<1>4. Share(l, m) \in Int /\ Unbooked(m)' = Unbooked(m) - Share(l, m)
  <2>1. Share(l, m) \in Int
    BY <1>3, TypedMeans, ShareOK
  <2>2. Open(l, m) = Share(l, m) /\ Open(l, m)' = 0 /\ \A k \in Leader \ {l} : Open(k, m)' = Open(k, m)
    BY <1>2 DEF Open, Booked, Share
  <2>3. Unbooked(m)' = Unbooked(m) - Open(l, m) + Open(l, m)'
    BY <1>3, <2>2, TypedMeans, UnbookedMoves
  <2>4. QED
    BY <1>3, <2>1, <2>2, <2>3
<1>5. /\ Drift(m) = truth[m].equity - Believed(m).equity - Unbooked(m) /\ Believed(m).equity \in Int
      /\ Drift(m)' = truth[m].equity - Believed(m)'.equity - Unbooked(m)'
  BY <1>2, <1>3, DriftIs, DriftIsNext
<1>6. m \notin tk => Believed(m)' = Believed(m) /\ Drift(m)' = Drift(m) + Share(l, m)
  <2>1. CASE m \in tk
    BY <2>1
  <2>2. CASE m \notin tk
    <3>1. Believed(m)' = Believed(m)
      <4>1. CASE m \in pass.touched
        <5>1. m \in DOMAIN pass.copy
          BY <1>2, <4>1, PassFields DEF Typed
        <5>2. pass'.copy[m] = pass.copy[m]
          BY <1>1, <1>2, <2>2, <5>1 DEF Booking
        <5>3. QED
          BY <1>2, <4>1, <5>2 DEF Believed
      <4>2. CASE m \notin pass.touched
        BY <1>2, <2>2, <4>2 DEF Believed
      <4>3. QED
        BY <4>1, <4>2
    <3>2. QED
      BY <1>3, <1>4, <1>5, <3>1
  <2>3. QED
    BY <2>1, <2>2
<1>7. ASSUME m \in tk
      PROVE  /\ pass.copy[m] \in MirrorRecord
             /\ Scaled(pend[l].delta, pass.copy[m]) \in Int
             /\ Believed(m)' = pass'.copy[m]
             /\ Believed(m)'.equity = pass.copy[m].equity + Scaled(pend[l].delta, pass.copy[m])
  <2>1. /\ pass.copy[m] \in MirrorRecord /\ Scaled(pend[l].delta, pass.copy[m]) \in Int /\ day \in Nat
    BY <1>2, <1>7, BookingOK
  <2>2. Believed(m)' = pass'.copy[m]
    BY <1>2, <1>7 DEF Believed
  <2>3. pass'.copy[m] = Advanced(m, pass.copy[m], Scaled(pend[l].delta, pass.copy[m]), day)
    BY <1>1, <1>2, <1>7 DEF Booking
  <2>4. QED
    BY <1>3, <2>1, <2>2, <2>3, AdvancedOK
<1>8. ASSUME m \in tk, Untouched(m), pass.copy[m] = store[m]
      PROVE  Drift(m)' = Drift(m) + Share(l, m) - Scaled(pend[l].delta, pass.copy[m])
  <2>1. PICK p \in Int : p = Scaled(pend[l].delta, pass.copy[m])
    BY <1>7, <1>8
  <2>2. Believed(m) = store[m] /\ Believed(m)'.equity = Believed(m).equity + p
    BY <1>7, <1>8, <2>1 DEF Untouched, Believed
  <2>3. QED
    BY <1>3, <1>4, <1>5, <2>1, <2>2
<1>9. QED
  BY <1>1, <1>3, <1>4, <1>6, <1>7, <1>8

\* Booking drifts where the share is not what was copied, or the date is taken.
LEMMA BooksCaused == ASSUME Typed, Typed', Wired, NEW l \in Leader, Books(l) PROVE Caused
<1> SUFFICES ASSUME NEW m \in DOMAIN store', Drift(m)' # Drift(m) PROVE Cause(m)
  BY DEF Caused
<1>1. PICK tk : tk = Takers(pass.copy, l, day)
  OBVIOUS
<1>2. /\ pass # None /\ pass' # None /\ pend[l] # None /\ ~ Booked(l) /\ Booked(l)'
      /\ pass'.touched = pass.touched \cup tk /\ tk \subseteq DOMAIN pass.copy /\ store' = store
  BY <1>1, BooksIs DEF Booked
<1>3. m \in DOMAIN store /\ m \in Mirror
  BY <1>2, DriftIs
<1>4. CASE m \in pass.touched
  <2>1. pass.copy[m].date = day /\ m \in DOMAIN pass.copy
    BY <1>2, <1>4, PassFields DEF Wired, Pass, Typed
  <2>2. m \notin tk
    BY <1>1, <2>1 DEF Takers
  <2>3. Drift(m)' = Drift(m) + Share(l, m) /\ Drift(m) \in Int
    BY <1>1, <1>3, <2>2, BooksMoves, DriftIs
  <2>4. SecondOfDate(m)
    BY <1>2, <2>1, <2>3 DEF SecondOfDate
  <2>5. QED
    BY <2>4 DEF Cause
<1>5. CASE m \notin pass.touched /\ m \notin tk
  <2>1. Drift(m)' = Drift(m) + Share(l, m) /\ Drift(m) \in Int
    BY <1>1, <1>3, <1>5, BooksMoves, DriftIs DEF Untouched
  <2>2. Share(l, m) # 0
    BY <2>1
  <2>3. m \in DOMAIN pass.copy
    BY <1>2, <1>3, <2>2 DEF Wired, Sharers
  <2>4. ~ Follows(pass.copy[m], l) \/ pass.copy[m].date = day
    BY <1>1, <1>5, <2>3 DEF Takers
  <2>5. SecondOfDate(m) \/ Remapped(m)
    BY <1>2, <2>2, <2>3, <2>4 DEF SecondOfDate, Remapped
  <2>6. QED
    BY <2>5 DEF Cause
<1>6. CASE m \notin pass.touched /\ m \in tk
  <2>1. CASE m \in pass.edited
    BY <1>2, <1>6, <2>1, BooksIs DEF Cause, Overlap, Latest
  <2>2. CASE m \notin pass.edited
    <3>1. pass.copy[m] = store[m]
      BY <1>2, <1>6, <2>2 DEF Wired, Pass
    <3>2. /\ Drift(m)' = Drift(m) + Share(l, m) - Scaled(pend[l].delta, pass.copy[m])
          /\ Drift(m) \in Int /\ Share(l, m) \in Int
      BY <1>1, <1>3, <1>6, <3>1, BooksMoves, DriftIs DEF Untouched
    <3>3. Scaled(pend[l].delta, pass.copy[m]) # Share(l, m)
      BY <3>2
    <3>4. Follows(pass.copy[m], l) /\ m \in DOMAIN pass.copy
      BY <1>1, <1>6 DEF Takers
    <3>5. Remapped(m)
      BY <1>2, <3>3, <3>4 DEF Remapped
    <3>6. QED
      BY <3>5 DEF Cause
  <2>3. QED
    BY <2>1, <2>2
<1>7. QED
  BY <1>4, <1>5, <1>6

\* Leaving the pass with its outcomes saved books nothing of an untouched mirror.
LEMMA Closing ==
  ASSUME Typed, Typed', pass # None, pass' = None, NEW m \in DOMAIN store, m \in DOMAIN store',
         m \notin pass.touched, store'[m] = store[m], truth' = truth,
         pend' = [l \in Leader |-> IF l \in pass.booked THEN None ELSE pend[l]]
  PROVE  Drift(m)' = Drift(m)
<1>1. \A l \in Leader : Open(l, m)' = Open(l, m)
  BY DEF Open, Booked, Share
<1>2. Believed(m)' = Believed(m)
  BY DEF Believed
<1>3. QED
  BY <1>1, <1>2, QuietDrift

\* A pass's other steps drift where an edit or a crash came between.
LEMMA PassCaused ==
  ASSUME Typed, Typed', Wired, PassBegins \/ SavesLeaders \/ SavesMirrors \/ Crash
  PROVE  Caused
<1> SUFFICES ASSUME NEW m \in DOMAIN store', Drift(m)' # Drift(m) PROVE Cause(m)
  BY DEF Caused
<1>1. CASE PassBegins
  <2>1. \A l \in Leader : Open(l, m)' = Open(l, m)
    BY <1>1 DEF PassBegins, Open, Booked, Share
  <2>2. Believed(m)' = Believed(m)
    BY <1>1 DEF PassBegins, Believed
  <2>3. m \in DOMAIN store /\ truth'[m] = truth[m]
    BY <1>1 DEF PassBegins
  <2>4. QED
    BY <2>1, <2>2, <2>3, QuietDrift
<1>2. CASE SavesLeaders
  <2>1. \A l \in Leader : Open(l, m)' = Open(l, m)
    BY <1>2, SavesLeadersIs DEF Open, Booked, Share
  <2>2. Believed(m)' = Believed(m)
    BY <1>2, SavesLeadersIs DEF Believed
  <2>3. m \in DOMAIN store /\ truth'[m] = truth[m]
    BY <1>2, SavesLeadersIs
  <2>4. QED
    BY <2>1, <2>2, <2>3, QuietDrift
<1>3. CASE SavesMirrors
  <2>1. CASE m \in pass.touched
    <3>1. /\ pass # None /\ pass' = None /\ m \in DOMAIN pass.copy /\ store'[m] = pass.copy[m]
          /\ truth' = truth /\ pend' = [l \in Leader |-> IF l \in pass.booked THEN None ELSE pend[l]]
      BY <1>3, <2>1, PassFields DEF SavesMirrors, Merged, Typed
    <3>2. CASE m \in pass.edited
      BY <2>1, <3>1, <3>2 DEF Cause, Overlap, Latest
    <3>3. CASE m \notin pass.edited
      <4>1. m \in DOMAIN store
        BY <3>1, <3>3 DEF Wired, Pass
      <4>2. \A l \in Leader : Open(l, m)' = Open(l, m)
        BY <3>1 DEF Open, Booked, Share
      <4>3. Believed(m)' = Believed(m)
        BY <2>1, <3>1 DEF Believed
      <4>4. QED
        BY <3>1, <4>1, <4>2, <4>3, QuietDrift
    <3>4. QED
      BY <3>2, <3>3
  <2>2. CASE m \notin pass.touched
    <3>1. m \in DOMAIN store /\ store'[m] = store[m]
      BY <1>3, <2>2 DEF SavesMirrors, Merged
    <3>2. QED
      BY <1>3, <2>2, <3>1, Closing DEF SavesMirrors
  <2>3. QED
    BY <2>1, <2>2
<1>4. CASE Crash
  <2>1. CASE pass # None /\ (~ pass.saved \/ m \in pass.touched)
    BY <1>4, <2>1 DEF Crash, Cause, LostAtCrash
  <2>2. CASE pass # None /\ pass.saved /\ m \notin pass.touched
    <3>1. pend' = [l \in Leader |-> IF l \in pass.booked THEN None ELSE pend[l]]
      BY <1>4, <2>2 DEF Crash
    <3>2. QED
      BY <1>4, <2>2, <3>1, Closing DEF Crash
  <2>3. CASE pass = None
    <3>1. pend' = pend
      BY <1>4, <2>3 DEF Crash, Typed, TradesTyped
    <3>2. \A l \in Leader : Open(l, m)' = Open(l, m)
      BY <1>4, <2>3, <3>1 DEF Crash, Open, Booked, Share
    <3>3. Believed(m)' = Believed(m)
      BY <1>4, <2>3 DEF Crash, Believed
    <3>4. m \in DOMAIN store /\ truth'[m] = truth[m]
      BY <1>4 DEF Crash
    <3>5. QED
      BY <3>2, <3>3, <3>4, QuietDrift
  <2>4. QED
    BY <2>1, <2>2, <2>3
<1>5. QED
  BY <1>1, <1>2, <1>3, <1>4

\* A step that leaves the file, the pass and the trades alone moves no drift.
LEMMA QuietCaused == ASSUME Typed, Typed', Quiet PROVE Caused
<1>1. ASSUME NEW m \in DOMAIN store' PROVE Drift(m)' = Drift(m)
  <2>1. \A l \in Leader : Open(l, m)' = Open(l, m)
    BY QuietIs DEF Open, Booked, Share
  <2>2. Believed(m)' = Believed(m) /\ m \in DOMAIN store /\ truth'[m] = truth[m]
    BY QuietIs DEF Believed
  <2>3. QED
    BY <2>1, <2>2, QuietDrift
<1>2. QED
  BY <1>1 DEF Caused

\* The operator's edits drift only while a trade or a pass is open, or where a payout was not made.
LEMMA OperatorCaused == ASSUME Typed, Typed', Wired, NEW x \in Mirror, Operator(x) PROVE Caused
<1>1. CASE Refreshes(x)
  BY <1>1, QuietCaused DEF Quiet
<1>2. CASE Delete(x)
  <2>1. /\ EditedAll({x}) /\ DOMAIN store' = DOMAIN store \ {x} /\ truth' = truth
        /\ \A n \in DOMAIN store \ {x} : store'[n] = store[n]
        /\ pend' = [l \in Leader |-> IF pend[l] = None THEN None ELSE [pend[l] EXCEPT !.by[x] = 0]]
    BY <1>2 DEF Delete, Edited, Restrict
  <2>2. ASSUME NEW m \in DOMAIN store' PROVE Drift(m)' = Drift(m)
    <3>1. m \in DOMAIN store /\ m # x /\ store'[m] = store[m] /\ m \in Mirror
      BY <2>1, DriftIs
    <3>2. \A l \in Leader : Share(l, m)' = Share(l, m)
      BY <1>2, <3>1, DeletedShare
    <3>3. \A l \in Leader : Open(l, m)' = Open(l, m)
      BY <2>1, <3>2, EditFrame DEF Open
    <3>4. Believed(m)' = Believed(m)
      BY <2>1, <3>1, EditFrame DEF Believed
    <3>5. QED
      BY <2>1, <3>1, <3>3, <3>4, QuietDrift
  <2>3. QED
    BY <2>2 DEF Caused
<1>3. ASSUME \/ Marks(x) \/ Adopt(x) \/ TakeBack(x) \/ (\E l \in Leader : Pair(x, l))
             \/ (\E l \in Leader \cup {None} : Activate(x, l))
             \/ \E l \in Leader \cup {None}, k \in {10, Firm[x].scale} : Remap(x, l, k)
      PROVE  Caused
  <2> SUFFICES ASSUME NEW m \in DOMAIN store', Drift(m)' # Drift(m), Drift(m)' # 0 PROVE Cause(m)
    BY DEF Caused
  <2>1. /\ EditedAll({x}) /\ pend' = pend /\ {x} \in SUBSET Mirror /\ m \in DOMAIN store /\ m \in Mirror
        /\ m # x => store'[m] = store[m] /\ truth'[m] = truth[m]
    BY <1>3, MirrorEdits, DriftIs
  <2>2. m = x
    BY <2>1, EditDrift
  <2>3. CASE ~ Untouched(x)
    BY <2>1, <2>2, <2>3, EditDrift DEF Cause
  <2>4. CASE Untouched(x)
    <3>1. /\ Drift(x)' = Drift(x) + (truth'[x].equity - truth[x].equity)
                                  - (store'[x].equity - store[x].equity)
          /\ Drift(x)' = truth'[x].equity - store'[x].equity - Unbooked(x)
      BY <2>1, <2>2, <2>4, EditDrift
    <3>2. /\ store[x] \in MirrorRecord /\ store[x].equity \in Int /\ truth[x] \in Truths
          /\ truth[x].equity \in Int /\ Unbooked(x) \in Int /\ store \in [DOMAIN store -> MirrorRecord]
          /\ truth \in [Mirror -> Truths] /\ Drift(x) \in Int
      BY <2>1, <2>2, DriftIs DEF Typed, StoreTyped, TruthTyped, MirrorRecord
    <3>3. ASSUME Unbooked(x) # 0, store'[x] # store[x] PROVE Cause(m)
      BY <2>2, <3>3 DEF Cause, Misread
    <3>4. ASSUME NEW a \in Int, NEW made \in BOOLEAN, MarkPaid(x, a, made) PROVE Cause(m)
      <4>1. store'[x].equity = store[x].equity - a
        BY <2>1, <2>2, <3>2, <3>4, PaidOutOK DEF MarkPaid
      <4>2. CASE made
        <5>1. truth'[x].equity = truth[x].equity - a
          <6>1. PICK t \in Truths : truth' = [truth EXCEPT ![x] = t] /\ t.equity = truth[x].equity - a
            BY <3>4, <4>2, MarkPaidTruth
          <6>2. QED
            BY <3>2, <6>1
        <5>2. QED
          BY <2>2, <3>1, <3>2, <3>4, <4>1, <5>1
      <4>3. CASE ~ made
        <5>1. truth'[x] = truth[x]
          BY <3>4, <4>3 DEF MarkPaid
        <5>2. ledger[x] \in Seq(Int) /\ ledger'[x] = Append(ledger[x], a)
          BY <3>4 DEF MarkPaid, Typed, BooksTyped
        <5>3. ledger'[x] # ledger[x]
          <6>1. Len(Append(ledger[x], a)) = Len(ledger[x]) + 1 /\ Len(ledger[x]) \in Nat
            BY <5>2
          <6>2. Len(Append(ledger[x], a)) # Len(ledger[x])
            BY <6>1
          <6>3. QED
            BY <5>2, <6>2
        <5>4. QED
          BY <2>2, <5>1, <5>3 DEF Cause, MarkedUnpaid
      <4>4. QED
        BY <4>2, <4>3
    <3>9. CASE Adopt(x)
      <4>1. store'[x].equity = store[x].equity
        BY <3>2, <3>9, AdoptIs
      <4>2. truth' = truth
        BY <3>9 DEF Adopt
      <4>3. QED
        BY <2>2, <3>1, <3>2, <4>1, <4>2
    <3>5. CASE TakeBack(x)
      <4>1. PICK y \in MirrorRecord : /\ store' = [store EXCEPT ![x] = y] /\ y # store[x]
                                      /\ y.equity \in {store[x].equity, truth[x].equity}
        BY <3>5, TakeBackIs
      <4>2. store'[x] = y /\ truth' = truth
        BY <2>1, <2>2, <3>2, <3>5, <4>1 DEF TakeBack
      <4>3. CASE y.equity = store[x].equity
        BY <2>2, <3>1, <3>2, <4>2, <4>3
      <4>4. CASE y.equity = truth[x].equity
        <5>1. Drift(x)' = -Unbooked(x)
          BY <3>1, <3>2, <4>2, <4>4
        <5>2. QED
          BY <2>2, <3>2, <3>3, <4>1, <4>2, <5>1
      <4>5. QED
        BY <4>1, <4>3, <4>4
    <3>6. ASSUME NEW l \in Leader \cup {None}, Activate(x, l) PROVE Cause(m)
      <4>1. store'[x] = Activated(x, store[x], l) /\ truth'[x] = Start(x) /\ store[x].phase = "passed"
        BY <2>1, <2>2, <3>2, <3>6 DEF Activate
      <4>2. store'[x].equity = 0 /\ truth'[x].equity = 0 /\ store'[x] # store[x]
        <5>1. PICK a : a = Activated(x, store[x], l)
          OBVIOUS
        <5>2. a.equity = 0 /\ a.phase # "passed"
          BY <3>2, <5>1, ActivatedOK
        <5>3. QED
          BY <4>1, <5>1, <5>2 DEF Start
      <4>3. Drift(x)' = -Unbooked(x)
        BY <3>1, <3>2, <4>2
      <4>4. QED
        BY <2>2, <3>2, <3>3, <4>2, <4>3
    <3>7. ASSUME \/ \E l \in Leader : Pair(x, l)
                 \/ \E l \in Leader \cup {None}, k \in {10, Firm[x].scale} : Remap(x, l, k)
          PROVE  Cause(m)
      <4>1. truth' = truth
        BY <3>7 DEF Pair, Remap
      <4>2. store'[x].equity = store[x].equity
        <5>1. ASSUME NEW l, store' = [store EXCEPT ![x].leader = l, ![x].phase = "funded"]
              PROVE  store'[x].equity = store[x].equity
          BY <2>1, <2>2, <3>2, <5>1 DEF MirrorRecord
        <5>2. ASSUME NEW l, NEW k, store' = [store EXCEPT ![x].leader = l, ![x].mult = k]
              PROVE  store'[x].equity = store[x].equity
          BY <2>1, <2>2, <3>2, <5>2 DEF MirrorRecord
        <5>3. QED
          BY <3>7, <5>1, <5>2 DEF Pair, Remap
      <4>3. QED
        BY <2>2, <3>1, <3>2, <4>1, <4>2
    <3>8. QED
      BY <1>3, <3>4, <3>5, <3>6, <3>7, <3>9 DEF Marks
  <2>5. QED
    BY <2>3, <2>4
<1>4. QED
  BY <1>1, <1>2, <1>3, OperatorIs

\* A plan drifts where it takes a changed record back.
LEMMA PlanSavesCaused == ASSUME Typed, Typed', PlanSaves PROVE Caused
<1> SUFFICES ASSUME NEW m \in DOMAIN store', Drift(m)' \notin {0, Drift(m)}, ~ Overwritten(m) PROVE Cause(m)
  BY DEF Caused, Cause
<1>1. /\ plan # None /\ plan' = None /\ EditedAll(DOMAIN plan) /\ DOMAIN plan \in SUBSET Mirror
      /\ pend' = pend /\ truth' = truth
  BY DEF PlanSaves, Typed, CopiesTyped, PlanTyped
<1>2. store' = [x \in DOMAIN store \cup DOMAIN plan |-> IF x \in DOMAIN plan THEN plan[x] ELSE store[x]]
  BY DEF PlanSaves
<1>3. CASE m \notin DOMAIN plan
  <2>1. m \in DOMAIN store /\ store'[m] = store[m]
    BY <1>2, <1>3
  <2>2. QED
    BY <1>1, <2>1, EditDrift
<1>4. CASE m \in DOMAIN plan
  <2>0. CASE store' = store
    BY <1>1, <2>0, EditDrift
  <2>1. CASE store' # store
    <3>1. m \in DOMAIN store /\ plan[m] = [store[m] EXCEPT !.leader = plan[m].leader, !.mult = plan[m].mult]
      BY <1>1, <1>4, <2>1 DEF Overwritten
    <3>2. store'[m] = plan[m]
      BY <1>2, <1>4
    <3>3. store[m] \in MirrorRecord
      BY <3>1 DEF Typed, StoreTyped
    <3>4. store'[m].equity = store[m].equity /\ store[m].equity \in Int
      BY <3>1, <3>2, <3>3 DEF MirrorRecord
    <3>5. CASE ~ Untouched(m)
      BY <1>1, <1>4, <3>5, EditDrift DEF Cause
    <3>6. CASE Untouched(m)
      <4>1. Drift(m)' = Drift(m) + (truth'[m].equity - truth[m].equity)
                                 - (store'[m].equity - store[m].equity)
        BY <1>1, <3>1, <3>6, EditDrift
      <4>2. truth[m].equity \in Int /\ Drift(m) \in Int
        BY <3>1, DriftIs
      <4>3. QED
        BY <1>1, <3>4, <4>1, <4>2
    <3>7. QED
      BY <3>5, <3>6
  <2>2. QED
    BY <2>0, <2>1
<1>5. QED
  BY <1>3, <1>4

\* A patch drifts where its row is old or ahead of the booking, or its copy of the file is.
LEMMA PatchesCaused == ASSUME Typed, Typed', NEW x \in Mirror, Patches(x), x \in DOMAIN store PROVE Caused
<1> SUFFICES ASSUME NEW m \in DOMAIN store', Drift(m)' \notin {0, Drift(m)}, ~ Outdated(m) PROVE Cause(m)
  BY DEF Caused, Cause
<1>1. PICK s \in MirrorRecord : /\ PatchOf(x) /\ x \in import.todo /\ import # None
                                /\ store' = [store EXCEPT ![x] = s]
                                /\ EditedAll(IF s = store[x] THEN {} ELSE {x})
  BY PatchesIs
<1>2. PICK E \in SUBSET Mirror : E = (IF s = store[x] THEN {} ELSE {x}) /\ EditedAll(E)
  BY <1>1
<1>3. pend' = pend /\ truth' = truth /\ store \in [DOMAIN store -> MirrorRecord] /\ m \in DOMAIN store
  BY <1>1 DEF Patches, Typed, StoreTyped
<1>4. m = x
  BY <1>1, <1>2, <1>3, EditDrift
<1>5. CASE ~ Untouched(m)
  <2>1. CASE s = store[x]
    <3>1. store'[m] = store[m] /\ truth'[m] = truth[m]
      BY <1>1, <1>3, <1>4, <2>1
    <3>2. QED
      BY <1>2, <1>3, <3>1, EditDrift
  <2>2. CASE s # store[x]
    BY <1>2, <1>3, <1>4, <1>5, <2>2, EditDrift DEF Cause
  <2>3. QED
    BY <2>1, <2>2
<1>6. CASE Untouched(m)
  <2>1. s = Patched(store[x], store[x], import.rows[x].balance) /\ store'[x] = s
    BY <1>1, <1>3, <1>4 DEF Outdated
  <2>2. /\ store[x] \in MirrorRecord /\ import.rows[x].balance \in Int /\ store[x].equity \in Int
        /\ truth[x].equity \in Int /\ Unbooked(x) \in Int /\ Drift(x) \in Int /\ s.equity \in Int
        /\ (store[x].anchor # None => store[x].anchor \in Int)
    BY <1>1, <1>3, DriftIs, IntakeFields DEF Typed, CopiesTyped, MirrorRecord
  <2>3. \/ s.equity = store[x].equity
        \/ store[x].anchor # None /\ s.equity = import.rows[x].balance - store[x].anchor
    <3>1. PICK r \in MirrorRecord, b \in Int : r = store[x] /\ b = import.rows[x].balance
      BY <2>2
    <3>2. s = Patched(r, r, b)
      BY <2>1, <3>1
    <3>3. \/ s = r
          \/ r.anchor # None /\ s.equity = b - r.anchor
          \/ r.equity = 0 /\ s.equity = 0
      BY <3>2, PatchedOK
    <3>4. QED
      BY <3>1, <3>3
  <2>4. /\ Drift(x)' = Drift(x) - (s.equity - store[x].equity)
        /\ Drift(x)' = truth[x].equity - s.equity - Unbooked(x)
    <3>1. /\ Drift(x)' = Drift(x) + (truth'[x].equity - truth[x].equity)
                                  - (store'[x].equity - store[x].equity)
          /\ Drift(x)' = truth'[x].equity - store'[x].equity - Unbooked(x)
      BY <1>2, <1>3, <1>4, <1>6, EditDrift
    <3>2. QED
      BY <1>3, <2>1, <2>2, <3>1
  <2>5. s.equity # store[x].equity
    BY <1>4, <2>2, <2>4
  <2>6. Unbooked(x) # 0 \/ import.rows[x].balance # truth[x].equity \/ store[x].anchor \notin {None, 0}
    BY <1>4, <2>2, <2>3, <2>4, <2>5
  <2>7. Misread(x)
    BY <1>1, <2>1, <2>5, <2>6 DEF Misread
  <2>8. QED
    BY <1>4, <2>7 DEF Cause
<1>7. QED
  BY <1>5, <1>6

\* An import drifts where the account has traded before.
LEMMA ImportCaused == ASSUME Typed, Typed', Wired, NEW names \in SUBSET Mirror, Import(names) PROVE Caused
<1> SUFFICES ASSUME NEW m \in DOMAIN store', Drift(m)' \notin {0, Drift(m)} PROVE Cause(m)
  BY DEF Caused
<1>1. PICK ph \in [names -> Phases] : store' = Onboarded(ph)
  BY DEF Import
<1>2. EditedAll(names) /\ pend' = pend /\ truth' = truth /\ \A x \in names : x \notin DOMAIN store
  BY DEF Import, Proposed
<1>3. CASE m \notin names
  <2>1. m \in DOMAIN store /\ store'[m] = store[m]
    BY <1>1, <1>3 DEF Onboarded
  <2>2. QED
    BY <1>2, <2>1, EditDrift
<1>4. CASE m \in names
  <2>1. m \notin DOMAIN store /\ m \in Mirror
    BY <1>2, <1>4
  <2>2. PICK q \in Phases : q = ph[m]
    BY <1>4
  <2>3. store'[m] = Fresh(m, None, q)
    BY <1>1, <1>4, <2>2 DEF Onboarded
  <2>4. store'[m].equity = 0
    <3>1. None \in Leader \cup {None}
      OBVIOUS
    <3>2. Fresh(m, None, q).equity = 0
      BY <2>1, <3>1, FreshIs, Zenon
    <3>3. QED
      BY <2>3, <3>2
  <2>5. Unbooked(m) = 0
    <3>1. \A l \in Leader : Share(l, m) = 0
      BY <2>1 DEF Wired, Sharers
    <3>2. QED
      BY <2>1, <3>1, TypedMeans, UnbookedOK DEF Settled
  <2>6. truth[m].equity \in Int
    BY <2>1 DEF Typed, TruthTyped, Truths
  <2>7. CASE Untouched(m)
    <3>1. Drift(m)' = truth[m].equity
      BY <1>2, <2>4, <2>5, <2>6, <2>7, EditDrift
    <3>2. Imported(m)
      BY <2>1, <3>1 DEF Imported
    <3>3. QED
      BY <3>2 DEF Cause
  <2>8. CASE ~ Untouched(m)
    BY <1>2, <1>4, <2>1, <2>8, EditDrift DEF Cause
  <2>9. QED
    BY <2>7, <2>8
<1>5. QED
  BY <1>3, <1>4

\* Every drift has a named cause.
LEMMA NextCaused == ASSUME Typed, Wired, [Next]_vars PROVE UNCHANGED vars \/ Caused
<1>0. Typed'
  BY NextTyped
<1>1. CASE \E l \in Leader, d \in Outcome : Trade(l, d)
  BY <1>0, <1>1, TradeCaused
<1>2. CASE NextDay
  <2>1. \A m \in DOMAIN store' : Drift(m)' = Drift(m)
    BY <1>0, <1>2, QuietDrift DEF NextDay, Open, Booked, Share, Believed
  <2>2. QED
    BY <2>1 DEF Caused
<1>3. CASE PassStep \/ Crash
  BY <1>0, <1>3, BooksCaused, PassCaused DEF PassStep
<1>4. CASE \E m \in Mirror : Operator(m)
  BY <1>0, <1>4, OperatorCaused
<1>5. CASE Quiet
  BY <1>0, <1>5, QuietCaused
<1>6. CASE PlanSaves \/ (\E m \in Mirror : Patches(m) /\ m \in DOMAIN store)
           \/ \E names \in SUBSET Mirror : Import(names)
  BY <1>0, <1>6, PlanSavesCaused, PatchesCaused, ImportCaused
<1>7. QED
  BY <1>1, <1>2, <1>3, <1>4, <1>5, <1>6 DEF Next, Quiet

\* In every instance a mirror's inferred equity leaves what the firm shows only in the named windows.
THEOREM DriftIsBorn == Spec => DriftBorn
<1>1. Typed /\ Wired /\ [Next]_vars =>
        [\A m \in DOMAIN store' :
           Drift(m)' \notin {0, Drift(m)} =>
             \/ Imported(m) \/ SecondOfDate(m) \/ Remapped(m) \/ Misread(m) \/ MarkedUnpaid(m)
             \/ LostAtCrash(m) \/ Overlap(m) \/ Overwritten(m) \/ Outdated(m)]_vars
  BY NextCaused DEF Caused, Cause
<1>2. QED
  BY <1>1, WiredAlways, PTL DEF Spec, DriftBorn

-----------------------------------------------------------------------------
(* What is known of the accounts whose inference was never off.            *)
LEMMA FloorRises == ASSUME NEW m \in Mirror, NEW p \in Int, NEW q \in Int, p <= q
                    PROVE  Floor(m, p) <= Floor(m, q)
  BY FirmTypes DEF Floor, Smaller, FirmProfile

\* The numbers a mirror's record, its truth and its shares are made of.
LEMMA Numbers ==
  ASSUME Typed, NEW m \in DOMAIN store
  PROVE  /\ m \in Mirror /\ store[m] \in MirrorRecord /\ Sane(m, store[m]) /\ truth[m] \in Truths
         /\ store[m].equity \in Int /\ store[m].peak \in Nat /\ store[m].wins \in Nat
         /\ store[m].equity <= store[m].peak
         /\ truth[m].equity \in Int /\ truth[m].peak \in Nat /\ truth[m].wins \in Nat
         /\ truth[m].dead \in BOOLEAN /\ truth[m].equity <= truth[m].peak
         /\ Floor(m, store[m].peak) \in Int /\ Floor(m, truth[m].peak) \in Int
         /\ Firm[m].winDays \in Nat /\ \A l \in Leader : Share(l, m) \in Int
<1>1. m \in Mirror /\ store[m] \in MirrorRecord /\ Sane(m, store[m]) /\ truth[m] \in Truths
      /\ truth[m].equity <= truth[m].peak
  BY DEF Typed, StoreTyped, TruthTyped
<1>2. /\ store[m].equity \in Int /\ store[m].peak \in Nat /\ store[m].wins \in Nat
      /\ store[m].equity <= store[m].peak
  BY <1>1 DEF MirrorRecord, Sane
<1>3. /\ truth[m].equity \in Int /\ truth[m].peak \in Nat /\ truth[m].wins \in Nat
      /\ truth[m].dead \in BOOLEAN
  BY <1>1 DEF Truths
<1>4. Floor(m, store[m].peak) \in Int /\ Floor(m, truth[m].peak) \in Int
  BY <1>1, <1>2, <1>3, FloorOK
<1>5. Firm[m].winDays \in Nat
  BY <1>1, FirmTypes DEF FirmProfile
<1>6. \A l \in Leader : Share(l, m) \in Int
  BY <1>1, TypedMeans, ShareOK
<1>7. QED
  BY <1>1, <1>2, <1>3, <1>4, <1>5, <1>6

\* What a record claims is all that its account's view depends on.
LEMMA SameClaims ==
  ASSUME NEW m, DiskOf(m), truth'[m] = truth[m],
         \A l \in Leader : Share(l, m)' = Share(l, m),
         store'[m].equity = store[m].equity, store'[m].peak = store[m].peak,
         store'[m].wins = store[m].wins, store'[m].ready = store[m].ready,
         store'[m].phase = "blown" => store[m].phase = "blown"
  PROVE  DiskOf(m)'
  BY DEF DiskOf, Alone, Sound

\* An edited account is undrifted only out of the pass's hands, with nothing of it booked.
LEMMA EditKnown ==
  ASSUME Typed, Typed', Wired, Known, Watch, NEW E \in SUBSET Mirror, EditedAll(E), pend' = pend,
         NEW m \in DOMAIN store', m \notin drifted', m \in E, m \in DOMAIN store
  PROVE  /\ Untouched(m) /\ DiskOf(m) /\ CopyOf(m)' /\ m \in Mirror
         /\ Drift(m) = 0 /\ Drift(m)' = 0 /\ Unbooked(m) \in Int
         /\ truth[m].equity = store[m].equity + Unbooked(m)
         /\ truth'[m].equity = store'[m].equity + Unbooked(m)
         /\ \A l \in Leader : Share(l, m)' = Share(l, m)
         /\ \A l \in Leader : Alone(l, m) => Share(l, m) = Unbooked(m)
<1>1. m \in Mirror /\ m \notin drifted /\ Drift(m)' = 0 /\ (pass' # None => m \notin pass'.edited \cap pass'.touched)
  BY Watched
<1>2. Drift(m) = 0 /\ DiskOf(m) /\ CopyOf(m)
  BY <1>1 DEF Known
<1>3. Untouched(m)
  BY <1>1, EditFrame DEF Untouched
<1>4. \A l \in Leader : Share(l, m)' = Share(l, m)
  BY DEF Share
<1>5. /\ Drift(m) = truth[m].equity - store[m].equity - Unbooked(m)
      /\ truth[m].equity \in Int /\ store[m].equity \in Int /\ Unbooked(m) \in Int
  <2>1. Believed(m) = store[m]
    BY <1>3 DEF Untouched, Believed
  <2>2. QED
    BY <1>1, <2>1, DriftIs
<1>6. /\ Drift(m)' = truth'[m].equity - store'[m].equity - Unbooked(m)
      /\ truth'[m].equity \in Int /\ store'[m].equity \in Int
  <2>1. Believed(m)' = store'[m]
    BY <1>3, EditFrame DEF Untouched, Believed
  <2>2. QED
    BY <1>1, <1>3, <2>1, EditDrift, DriftIsNext
<1>7. pass # None => \A l \in pass.booked : Share(l, m) = 0
  <2>1. Believed(m).equity - store[m].equity = 0
    BY <1>3, <1>5 DEF Untouched, Believed
  <2>2. QED
    BY <1>2, <2>1 DEF CopyOf
<1>8. CopyOf(m)'
  <2>1. ASSUME pass' # None PROVE CopyOf(m)'
    <3>1. pass # None /\ pass'.booked = pass.booked /\ pass'.touched = pass.touched
      BY <2>1, EditFrame
    <3>2. m \notin pass'.touched
      BY <1>3, <3>1 DEF Untouched
    <3>3. \A l \in pass'.booked : Share(l, m)' = 0
      BY <1>4, <1>7, <3>1, PassFields DEF Typed
    <3>4. QED
      BY <3>2, <3>3 DEF CopyOf
  <2>2. QED
    BY <2>1 DEF CopyOf
<1>9. ASSUME NEW l \in Leader, Alone(l, m) PROVE Share(l, m) = Unbooked(m)
  <2>1. \A k \in Leader \ {l} : Open(k, m) = 0
    BY <1>9 DEF Alone, Open
  <2>2. Unbooked(m) = Open(l, m)
    BY <1>1, <2>1, TypedMeans, UnbookedOK
  <2>3. Open(l, m) = Share(l, m)
    BY <1>7 DEF Open, Booked
  <2>4. QED
    BY <2>2, <2>3
<1>10. QED
  BY <1>1, <1>2, <1>3, <1>4, <1>5, <1>6, <1>8, <1>9

\* Whoever is not edited is known as before.
LEMMA OthersKnown ==
  ASSUME Typed, Typed', Wired, Known, Watch, NEW E \in SUBSET Mirror, EditedAll(E),
         NEW m \in DOMAIN store', m \notin drifted', m \in DOMAIN store,
         store'[m] = store[m], truth'[m] = truth[m], \A l \in Leader : Share(l, m)' = Share(l, m)
  PROVE  DiskOf(m)' /\ CopyOf(m)'
<1>1. m \in Mirror /\ m \notin drifted /\ DiskOf(m) /\ CopyOf(m)
  BY Watched, Numbers DEF Known
<1>2. DiskOf(m)'
  BY <1>1, SameClaims
<1>3. CopyOf(m)'
  <2>1. ASSUME pass' # None PROVE CopyOf(m)'
    <3>1. /\ pass # None /\ pass'.booked = pass.booked /\ pass'.touched = pass.touched
          /\ pass'.copy = pass.copy /\ pass.booked \subseteq Leader
          /\ \A l \in Leader : Booked(l)' <=> Booked(l)
      BY <2>1, EditFrame, PassFields DEF Typed
    <3>2. Believed(m)' = Believed(m)
      BY <2>1, <3>1 DEF Believed
    <3>3. Settled(m)' <=> Settled(m)
      BY <3>1 DEF Settled
    <3>4. QED
      BY <1>1, <2>1, <3>1, <3>2, <3>3 DEF CopyOf, Sound
  <2>2. QED
    BY <2>1 DEF CopyOf
<1>4. QED
  BY <1>2, <1>3

\* A mirror registered at the start claims nothing.
LEMMA InitKnown == Init => Known
<1> SUFFICES ASSUME Init, NEW m \in DOMAIN store PROVE Drift(m) = 0 /\ DiskOf(m) /\ CopyOf(m)
  BY DEF Known
<1>0. Typed /\ pass = None
  BY InitTyped DEF Init
<1>1. PICK lead \in [Mirror -> Leader], ph \in [Mirror -> UNION {FirstPhase[x] : x \in Mirror}],
           out \in Unlisted, before \in Earlier :
             /\ \A x \in Mirror : ph[x] \in FirstPhase[x]
             /\ store = [x \in Mirror \ out |-> Fresh(x, lead[x], ph[x])]
             /\ truth = [x \in Mirror |-> IF x \in out THEN Copied(x, Start(x), before) ELSE Start(x)]
  BY DEF Init
<1>2. m \in Mirror /\ m \notin out
  BY <1>1
<1>3. /\ ph[m] \in Phases \ {"blown"} /\ lead[m] \in Leader \cup {None}
      /\ store[m] = Fresh(m, lead[m], ph[m]) /\ truth[m] = Start(m)
  BY <1>1, <1>2, MirrorsAssumption
<1>4. /\ store[m].equity = 0 /\ store[m].peak = 0 /\ store[m].wins = 0 /\ store[m].ready = FALSE
      /\ store[m].phase # "blown"
  <2>1. PICK p \in Phases, l \in Leader \cup {None} : p = ph[m] /\ l = lead[m]
    BY <1>3
  <2>2. /\ Fresh(m, l, p).equity = 0 /\ Fresh(m, l, p).peak = 0 /\ Fresh(m, l, p).wins = 0
        /\ Fresh(m, l, p).ready = FALSE /\ Fresh(m, l, p).phase = p
    BY <1>2, FreshIs, Zenon
  <2>3. store[m] = Fresh(m, l, p)
    BY <1>3, <2>1
  <2>4. QED
    BY <1>3, <2>1, <2>2, <2>3
<1>5. \A l \in Leader : Share(l, m) = 0
  BY DEF Init, Share
<1>6. truth[m].equity = 0 /\ truth[m].peak = 0 /\ truth[m].wins = 0
  BY <1>3 DEF Start
<1>7. DiskOf(m)
  <2>1. PICK f \in Int : f = Floor(m, 0) /\ f < 0
    BY <1>2, FloorOK
  <2>2. Sound(m, store[m], truth[m])
    BY <1>4, <1>6 DEF Sound
  <2>3. ASSUME NEW l \in Leader
        PROVE  ~ WinDay(m, Share(l, m)) /\ ~ (store[m].equity + Share(l, m) <= Floor(m, store[m].peak))
    <3>1. Share(l, m) = 0 /\ ~ (0 + 0 <= f)
      BY <1>5, <2>1
    <3>2. QED
      BY <1>4, <2>1, <3>1 DEF WinDay
  <2>4. QED
    BY <2>2, <2>3 DEF DiskOf
<1>8. Drift(m) = 0
  <2>1. Unbooked(m) = 0
    BY <1>0, <1>2, <1>5, TypedMeans, UnbookedOK DEF Settled
  <2>2. Believed(m) = store[m]
    BY <1>0 DEF Believed
  <2>3. QED
    BY <1>0, <1>4, <1>6, <2>1, <2>2, DriftIs
<1>9. QED
  BY <1>0, <1>7, <1>8 DEF CopyOf

\* A trade adds to the firm's side what its share will add to the record.
LEMMA TradeKnown ==
  ASSUME Typed, Typed', Wired, Known, Watch, NEW l \in Leader, NEW delta \in Outcome, Trade(l, delta),
         NEW m \in DOMAIN store', m \notin drifted'
  PROVE  DiskOf(m)' /\ CopyOf(m)'
<1>1. PICK by \in [Mirror -> Int] :
        /\ pend'[l] # None /\ pend'[l].by = by /\ \A k \in Leader \ {l} : pend'[k] = pend[k]
        /\ truth' = [x \in Mirror |-> Copied(x, truth[x], by[x])]
  BY TradeIs
<1>2. pass = None /\ pass' = None /\ store' = store /\ pend[l] = None /\ m \in DOMAIN store
  BY DEF Trade
<1>3. m \in Mirror /\ m \notin drifted /\ Drift(m) = 0 /\ DiskOf(m)
  BY <1>2, Watched, Numbers DEF Known
<1>4. PICK p \in Int : p = by[m]
  BY <1>1, <1>3
<1>5. Share(l, m) = 0 /\ Share(l, m)' = p /\ \A k \in Leader \ {l} : Share(k, m)' = Share(k, m)
  BY <1>1, <1>2, <1>4 DEF Share
<1>6. /\ truth'[m].equity = truth[m].equity + p /\ truth'[m].peak = Larger(truth[m].peak, truth[m].equity + p)
      /\ truth[m].dead \/ truth[m].equity + p <= Floor(m, truth[m].peak) => truth'[m].dead
      /\ truth'[m].wins = IF WinDay(m, p) THEN truth[m].wins + 1 ELSE truth[m].wins
  <2>1. truth'[m] = Copied(m, truth[m], p) /\ truth[m] \in Truths
    BY <1>1, <1>2, <1>3, <1>4, Numbers
  <2>2. PICK t \in Truths : t = truth[m]
    BY <2>1
  <2>3. LET c == Copied(m, t, p) IN
        /\ c.equity = t.equity + p /\ c.peak = Larger(t.peak, t.equity + p)
        /\ t.dead \/ t.equity + p <= Floor(m, t.peak) => c.dead
        /\ c.wins = IF WinDay(m, p) THEN t.wins + 1 ELSE t.wins
    BY <1>3, CopiedOK
  <2>4. QED
    BY <2>1, <2>2, <2>3
<1>7. /\ store[m].equity \in Int /\ store[m].peak \in Nat /\ store[m].wins \in Nat
      /\ truth[m].equity \in Int /\ truth[m].peak \in Nat /\ truth[m].wins \in Nat
      /\ Floor(m, store[m].peak) \in Int /\ Floor(m, truth[m].peak) \in Int /\ Firm[m].winDays \in Nat
  BY <1>2, Numbers
<1>8. truth'[m].peak >= truth[m].peak /\ truth'[m].wins >= truth[m].wins
      /\ truth'[m].peak \in Int /\ truth'[m].wins \in Int
  <2>1. PICK e \in Int : e = truth[m].equity + p
    BY <1>7
  <2>2. truth'[m].peak >= truth[m].peak /\ truth'[m].peak \in Int
    BY <1>6, <1>7, <2>1 DEF Larger
  <2>3. QED
    BY <1>6, <1>7, <2>2
<1>9. store[m].peak <= truth[m].peak /\ Sound(m, store[m], truth[m])
  BY <1>3 DEF DiskOf, Sound
<1>10. Sound(m, store[m], truth'[m])
  BY <1>6, <1>7, <1>8, <1>9 DEF Sound
<1>11. ASSUME NEW k \in Leader, Alone(k, m)'
       PROVE  /\ WinDay(m, Share(k, m)') => store[m].wins < truth'[m].wins
              /\ store[m].equity + Share(k, m)' <= Floor(m, store[m].peak) => truth'[m].dead
  <2>1. CASE k = l
    <3>1. \A j \in Leader : Share(j, m) = 0
      BY <1>5, <1>11, <2>1 DEF Alone
    <3>2. Unbooked(m) = 0
      BY <1>3, <3>1, TypedMeans, UnbookedOK DEF Settled
    <3>3. truth[m].equity = store[m].equity
      <4>1. Believed(m) = store[m]
        BY <1>2 DEF Believed
      <4>2. QED
        <5>1. Drift(m) = truth[m].equity - Believed(m).equity - Unbooked(m)
          BY <1>2, DriftIs
        <5>2. 0 = truth[m].equity - store[m].equity - 0
          BY <1>3, <3>2, <4>1, <5>1
        <5>3. QED
          BY <1>7, <5>2
    <3>4. Floor(m, store[m].peak) <= Floor(m, truth[m].peak)
      BY <1>3, <1>7, <1>9, FloorRises
    <3>5. WinDay(m, p) => store[m].wins < truth'[m].wins
      BY <1>6, <1>7, <1>9 DEF Sound
    <3>6. store[m].equity + p <= Floor(m, store[m].peak) => truth'[m].dead
      BY <1>6, <1>7, <3>3, <3>4
    <3>7. QED
      BY <1>5, <2>1, <3>5, <3>6
  <2>2. CASE k # l
    <3>1. Share(k, m)' = Share(k, m) /\ Alone(k, m)
      BY <1>5, <1>11, <2>2 DEF Alone
    <3>2. /\ WinDay(m, Share(k, m)) => store[m].wins < truth[m].wins
          /\ store[m].equity + Share(k, m) <= Floor(m, store[m].peak) => truth[m].dead
      BY <1>3, <3>1 DEF DiskOf
    <3>3. QED
      BY <1>6, <1>7, <1>8, <3>1, <3>2
  <2>3. QED
    BY <2>1, <2>2
<1>12. DiskOf(m)'
  BY <1>2, <1>10, <1>11 DEF DiskOf
<1>13. QED
  BY <1>2, <1>12 DEF CopyOf

\* The clock, a pass's begin and its first save, and the quiet steps change nothing that is known.
LEMMA QuietKnown ==
  ASSUME Typed, Wired, Known, Watch, NEW m \in DOMAIN store', m \notin drifted',
         NextDay \/ PassBegins \/ SavesLeaders \/ Quiet
  PROVE  DiskOf(m)' /\ CopyOf(m)'
<1>1. store' = store /\ truth' = truth /\ pend' = pend
  BY SavesLeadersIs, QuietIs DEF NextDay, PassBegins
<1>2. m \in Mirror /\ m \notin drifted /\ DiskOf(m) /\ CopyOf(m)
  BY <1>1, Watched, Numbers DEF Known
<1>3. \A l \in Leader : Share(l, m)' = Share(l, m)
  BY <1>1 DEF Share
<1>4. DiskOf(m)'
  BY <1>1, <1>2, <1>3, SameClaims
<1>5. CASE NextDay
  BY <1>4, <1>5 DEF NextDay, CopyOf
<1>6. CASE PassBegins
  BY <1>4, <1>6 DEF PassBegins, CopyOf
<1>7. CASE SavesLeaders \/ Quiet
  <2>1. pass' # None => /\ pass # None /\ pass'.booked = pass.booked /\ pass'.touched = pass.touched
                        /\ pass'.copy = pass.copy /\ pass.booked \subseteq Leader
    BY <1>7, SavesLeadersIs, QuietIs, PassFields DEF Typed
  <2>2. ASSUME pass' # None PROVE CopyOf(m)'
    <3>1. Believed(m)' = Believed(m)
      BY <1>1, <2>1, <2>2 DEF Believed
    <3>2. Settled(m)' <=> Settled(m)
      BY <1>3, <2>1, <2>2 DEF Settled, Booked
    <3>3. QED
      BY <1>1, <1>2, <1>3, <2>1, <2>2, <3>1, <3>2 DEF CopyOf, Sound
  <2>3. QED
    BY <1>4, <2>2 DEF CopyOf
<1>8. QED
  BY <1>5, <1>6, <1>7

\* What a pass makes of a record that was never off, once the trade is its only open one.
LEMMA AdvancedSound ==
  ASSUME Typed, NEW m \in DOMAIN store, DiskOf(m), NEW l \in Leader, Alone(l, m),
         store[m].equity + Share(l, m) = truth[m].equity, NEW d \in Nat
  PROVE  LET a == Advanced(m, store[m], Share(l, m), d) IN
         Sound(m, a, truth[m]) /\ (a.equity <= Floor(m, a.peak) => truth[m].dead)
<1>1. PICK p \in Int : p = Share(l, m)
  BY Numbers
<1>2. PICK r \in MirrorRecord : r = store[m] /\ m \in Mirror
  BY Numbers
<1>3. /\ r.equity \in Int /\ r.peak \in Nat /\ r.wins \in Nat /\ r.equity <= r.peak
      /\ truth[m].equity \in Int /\ truth[m].peak \in Nat /\ truth[m].wins \in Nat
      /\ truth[m].equity <= truth[m].peak /\ Firm[m].winDays \in Nat /\ Floor(m, r.peak) \in Int
  BY <1>2, Numbers
<1>4. PICK a \in MirrorRecord :
        /\ a = Advanced(m, r, p, d) /\ a.equity = r.equity + p
        /\ a.wins = IF WinDay(m, p) THEN r.wins + 1 ELSE r.wins
        /\ a.peak = IF r.equity + p <= Floor(m, r.peak) THEN r.peak ELSE Larger(r.peak, r.equity + p)
        /\ a.phase = "blown" => r.phase = "blown" \/ r.equity + p <= Floor(m, r.peak)
        /\ a.ready => r.ready \/ a.wins >= Firm[m].winDays
  BY <1>2, AdvancedOK
<1>5. /\ r.peak <= truth[m].peak /\ r.wins <= truth[m].wins
      /\ r.phase = "blown" => truth[m].dead
      /\ r.ready => truth[m].wins >= Firm[m].winDays
      /\ WinDay(m, p) => r.wins < truth[m].wins
      /\ r.equity + p <= Floor(m, r.peak) => truth[m].dead
  BY <1>1, <1>2 DEF DiskOf, Sound
<1>6. r.equity + p = truth[m].equity
  BY <1>1, <1>2
<1>7. a.wins <= truth[m].wins /\ a.wins \in Int
  BY <1>3, <1>4, <1>5
<1>8. a.peak <= truth[m].peak
  BY <1>3, <1>4, <1>5, <1>6 DEF Larger
<1>9. Sound(m, a, truth[m])
  BY <1>3, <1>4, <1>5, <1>7, <1>8 DEF Sound
<1>10. a.equity <= Floor(m, a.peak) => truth[m].dead
  <2>1. CASE r.equity + p <= Floor(m, r.peak)
    BY <1>5, <2>1
  <2>2. CASE ~ (r.equity + p <= Floor(m, r.peak))
    <3>1. a.peak = Larger(r.peak, a.equity) /\ a.equity \in Int
      BY <1>3, <1>4, <2>2
    <3>2. a.peak = r.peak \/ a.peak = a.equity
      BY <3>1 DEF Larger
    <3>3. Floor(m, a.equity) < a.equity /\ Floor(m, a.equity) \in Int
      BY <1>2, <3>1, FloorOK
    <3>4. CASE a.peak = r.peak
      BY <1>4, <2>2, <3>4
    <3>5. CASE a.peak = a.equity
      BY <3>1, <3>3, <3>5
    <3>6. QED
      BY <3>2, <3>4, <3>5
  <2>3. QED
    BY <2>1, <2>2
<1>11. QED
  BY <1>1, <1>2, <1>4, <1>9, <1>10

\* Booking makes the copy claim what the firm has.
LEMMA BooksKnown ==
  ASSUME Typed, Typed', Wired, Known, Watch, NEW l \in Leader, Books(l),
         NEW m \in DOMAIN store', m \notin drifted'
  PROVE  DiskOf(m)' /\ CopyOf(m)'
<1>1. PICK tk : tk = Takers(pass.copy, l, day)
  OBVIOUS
<1>2. /\ pass # None /\ pass' # None /\ pend[l] # None /\ ~ Booked(l)
      /\ pass'.copy = Booking(l) /\ pass'.touched = pass.touched \cup tk
      /\ pass'.booked = pass.booked \cup {l} /\ pass'.edited = pass.edited
      /\ tk \subseteq DOMAIN pass.copy /\ pass.booked \subseteq Leader
      /\ pass.touched \subseteq DOMAIN pass.copy
      /\ store' = store /\ truth' = truth /\ pend' = pend
  BY <1>1, BooksIs, PassFields DEF Typed
<1>3. /\ m \in Mirror /\ m \notin drifted /\ m \in DOMAIN store /\ DiskOf(m) /\ CopyOf(m)
      /\ Drift(m) = 0 /\ Drift(m)' = 0 /\ m \notin pass'.edited \cap pass'.touched
  BY <1>2, Watched, Numbers DEF Known
<1>4. \A k \in Leader : Share(k, m)' = Share(k, m) /\ (Booked(k)' <=> Booked(k) \/ k = l)
  BY <1>2 DEF Share, Booked
<1>5. DiskOf(m)'
  BY <1>2, <1>3, <1>4, SameClaims
<1>6. /\ Share(l, m) \in Int /\ store[m].equity \in Int /\ truth[m].equity \in Int /\ Unbooked(m) \in Int
      /\ Believed(m).equity \in Int
  BY <1>3, Numbers, DriftIs
<1>7. \A k \in pass.booked : Share(k, m) \in {0, Believed(m).equity - store[m].equity}
  BY <1>2, <1>3 DEF CopyOf
<1>8. CASE m \notin tk
  <2>1. Believed(m)' = Believed(m) /\ Drift(m)' = Drift(m) + Share(l, m)
    BY <1>1, <1>3, <1>8, BooksMoves
  <2>2. Share(l, m) = 0
    BY <1>3, <1>6, <2>1
  <2>3. \A k \in pass'.booked : Share(k, m)' \in {0, Believed(m)'.equity - store'[m].equity}
    BY <1>2, <1>4, <1>7, <2>1, <2>2
  <2>4. ASSUME m \in pass'.touched, Settled(m)'
        PROVE  Sound(m, pass'.copy[m], truth[m])
               /\ (pass'.copy[m].equity <= Floor(m, pass'.copy[m].peak) => truth[m].dead)
    <3>1. m \in pass.touched /\ m \in DOMAIN pass.copy
      BY <1>2, <1>8, <2>4
    <3>2. pass'.copy[m] = pass.copy[m]
      BY <1>1, <1>2, <1>8, <3>1 DEF Booking
    <3>3. Settled(m)
      BY <1>4, <2>2, <2>4 DEF Settled
    <3>4. QED
      BY <1>2, <1>3, <3>1, <3>2, <3>3 DEF CopyOf
  <2>5. QED
    BY <1>2, <1>5, <2>3, <2>4 DEF CopyOf
<1>9. CASE m \in tk
  <2>1. m \notin pass.touched
    BY <1>1, <1>2, <1>9 DEF Wired, Pass, Takers
  <2>2. Untouched(m) /\ Believed(m) = store[m]
    BY <2>1 DEF Untouched, Believed
  <2>3. pass.copy[m] = store[m]
    BY <1>2, <1>3, <1>9, <2>1 DEF Wired, Pass
  <2>4. PICK p \in Int : p = Scaled(pend[l].delta, pass.copy[m])
    BY <1>1, <1>3, <1>9, BooksMoves
  <2>5. /\ Believed(m)' = pass'.copy[m] /\ Believed(m)'.equity = store[m].equity + p
        /\ Drift(m)' = Drift(m) + Share(l, m) - p
        /\ Unbooked(m)' = Unbooked(m) - Share(l, m)
    BY <1>1, <1>3, <1>9, <2>2, <2>3, <2>4, BooksMoves
  <2>6. Share(l, m) = p
    <3>1. PICK q \in Int : q = Share(l, m)
      BY <1>6
    <3>2. 0 = 0 + q - p
      BY <1>3, <2>5, <3>1
    <3>3. \A x \in Int, y \in Int : 0 = 0 + x - y => x = y
      OBVIOUS
    <3>4. q = p
      BY <3>2, <3>3, Zenon
    <3>5. QED
      BY <3>1, <3>4
  <2>7. \A k \in pass.booked : Share(k, m) = 0
    BY <1>6, <1>7, <2>2
  <2>8. \A k \in pass'.booked : Share(k, m)' \in {0, Believed(m)'.equity - store'[m].equity}
    <3>1. Believed(m)'.equity - store[m].equity = p
      BY <1>6, <2>4, <2>5
    <3>2. QED
      BY <1>2, <1>4, <2>6, <2>7, <3>1
  <2>9. ASSUME Settled(m)'
        PROVE  Sound(m, pass'.copy[m], truth[m])
               /\ (pass'.copy[m].equity <= Floor(m, pass'.copy[m].peak) => truth[m].dead)
    <3>1. Alone(l, m)
      BY <1>2, <1>4, <2>7, <2>9 DEF Settled, Alone, Booked
    <3>2. \A k \in Leader \ {l} : Open(k, m) = 0
      BY <3>1 DEF Alone, Open
    <3>3. Unbooked(m) = Share(l, m)
      <4>1. Unbooked(m) = Open(l, m)
        BY <1>3, <3>2, TypedMeans, UnbookedOK
      <4>2. QED
        BY <1>2, <4>1 DEF Open
    <3>4. store[m].equity + Share(l, m) = truth[m].equity
      <4>1. Drift(m) = truth[m].equity - store[m].equity - Unbooked(m)
        BY <1>3, <2>2, DriftIs
      <4>2. QED
        BY <1>3, <1>6, <3>3, <4>1
    <3>5. day \in Nat
      BY DEF Typed, RestTyped
    <3>6. pass'.copy[m] = Advanced(m, store[m], Share(l, m), day)
      <4>1. pass'.copy[m] = Advanced(m, pass.copy[m], Scaled(pend[l].delta, pass.copy[m]), day)
        BY <1>1, <1>2, <1>9 DEF Booking
      <4>2. QED
        BY <2>3, <2>4, <2>6, <4>1
    <3>7. QED
      BY <1>3, <3>1, <3>4, <3>5, <3>6, AdvancedSound
  <2>10. QED
    BY <1>2, <1>5, <2>8, <2>9 DEF CopyOf
<1>10. QED
  BY <1>8, <1>9

\* Once its outcomes are saved, all the pass's trades are booked.
LEMMA SavedShares ==
  ASSUME Wired, pass # None, pass.saved, pass' = None, NEW m,
         pend' = [l \in Leader |-> IF l \in pass.booked THEN None ELSE pend[l]]
  PROVE  Settled(m) /\ \A l \in Leader : Share(l, m)' = 0
<1>1. \A l \in Leader : pend[l] # None => l \in pass.booked
  BY DEF Wired, Pass
<1>2. QED
  BY <1>1 DEF Settled, Booked, Share

\* A record whose shares were nothing is as sound without them.
LEMMA NothingOpen ==
  ASSUME Typed, NEW m \in DOMAIN store, m \in DOMAIN store', DiskOf(m), store'[m] = store[m], truth'[m] = truth[m],
         \A l \in Leader : Share(l, m) = 0, \A l \in Leader : Share(l, m)' = 0
  PROVE  DiskOf(m)'
  BY SameClaims

\* The merge saves the records the booking left sound.
LEMMA SavesMirrorsKnown ==
  ASSUME Typed, Typed', Wired, Known, Watch, SavesMirrors, NEW m \in DOMAIN store', m \notin drifted'
  PROVE  DiskOf(m)' /\ CopyOf(m)'
<1>1. /\ pass # None /\ pass.saved /\ store' = Merged /\ pass' = None /\ truth' = truth
      /\ pend' = [l \in Leader |-> IF l \in pass.booked THEN None ELSE pend[l]]
  BY DEF SavesMirrors
<1>2. Settled(m) /\ \A l \in Leader : Share(l, m)' = 0
  BY <1>1, SavedShares
<1>3. pass.touched \subseteq DOMAIN pass.copy /\ pass.booked \subseteq Leader
  BY <1>1, PassFields DEF Typed
<1>4. m \in Mirror /\ m \notin drifted
  BY Watched DEF Typed, StoreTyped
<1>5. m \in DOMAIN store
  <2>1. m \in DOMAIN store \/ m \in pass.touched
    BY <1>1 DEF Merged
  <2>2. QED
    BY <1>1, <1>3, <1>4, <2>1 DEF Wired, Pass
<1>6. DiskOf(m) /\ CopyOf(m)
  BY <1>4, <1>5 DEF Known
<1>7. CASE m \in pass.touched
  <2>1. store'[m] = pass.copy[m]
    BY <1>1, <1>7 DEF Merged
  <2>2. Sound(m, pass.copy[m], truth[m]) /\ (pass.copy[m].equity <= Floor(m, pass.copy[m].peak) => truth[m].dead)
    BY <1>1, <1>2, <1>6, <1>7 DEF CopyOf
  <2>3. pass.copy[m].equity \in Int
    BY <1>1, <1>3, <1>7, PassFields DEF Typed, MirrorRecord
  <2>4. QED
    BY <1>1, <1>2, <2>1, <2>2, <2>3 DEF DiskOf, CopyOf, WinDay
<1>8. CASE m \notin pass.touched
  <2>1. store'[m] = store[m]
    BY <1>1, <1>5, <1>8 DEF Merged
  <2>2. Believed(m).equity - store[m].equity = 0
    BY <1>5, <1>8, Numbers DEF Believed
  <2>3. \A l \in Leader : Share(l, m) = 0
    BY <1>1, <1>2, <1>6, <2>2 DEF CopyOf, Settled, Booked
  <2>4. QED
    BY <1>1, <1>2, <1>5, <1>6, <2>1, <2>3, NothingOpen DEF CopyOf
<1>9. QED
  BY <1>7, <1>8

\* With all settled nothing is unbooked.
LEMMA SettledIs == TypeOK => \A m \in Mirror : Settled(m) => Unbooked(m) = 0
  BY UnbookedOK

\* The same in the next state.
LEMMA SettledNext == (TypeOK => \A m \in Mirror : Settled(m) => Unbooked(m) = 0)'
  BY SettledIs, PTL

\* A crash between the saves drops a booking: whoever had a share in it drifts.
LEMMA CrashKnown ==
  ASSUME Typed, Typed', Wired, Known, Watch, Crash, NEW m \in DOMAIN store', m \notin drifted'
  PROVE  DiskOf(m)' /\ CopyOf(m)'
<1>1. /\ store' = store /\ pass' = None /\ truth' = truth
      /\ pend' = [l \in Leader |-> IF pass # None /\ pass.saved /\ l \in pass.booked THEN None ELSE pend[l]]
  BY DEF Crash
<1>2. m \in Mirror /\ m \in DOMAIN store /\ DiskOf(m) /\ CopyOf(m) /\ Drift(m) = 0 /\ Drift(m)' = 0
  BY <1>1, Watched, Numbers DEF Known
<1>3. CASE pass = None \/ ~ pass.saved
  <2>1. \A l \in Leader : Share(l, m)' = Share(l, m)
    BY <1>1, <1>3 DEF Share
  <2>2. QED
    BY <1>1, <1>2, <2>1, SameClaims DEF CopyOf
<1>4. CASE pass # None /\ pass.saved
  <2>1. pend' = [l \in Leader |-> IF l \in pass.booked THEN None ELSE pend[l]]
    BY <1>1, <1>4
  <2>2. Settled(m) /\ \A l \in Leader : Share(l, m)' = 0
    BY <1>1, <1>4, <2>1, SavedShares
  <2>3. Unbooked(m) = 0
    BY <1>2, <2>2, TypedMeans, UnbookedOK
  <2>4. Unbooked(m)' = 0
    <3>1. Settled(m)'
      BY <2>2 DEF Settled
    <3>2. QED
      BY <1>2, <3>1, TypedMeans, SettledNext
  <2>5. Believed(m).equity = store[m].equity
    <3>1. Believed(m).equity \in Int /\ truth[m].equity \in Int /\ store[m].equity \in Int
      BY <1>2, DriftIs, Numbers
    <3>2. 0 = truth[m].equity - Believed(m).equity - 0
      BY <1>2, <2>3, DriftIs
    <3>3. 0 = truth[m].equity - store[m].equity - 0
      <4>1. Believed(m)' = store[m]
        BY <1>1 DEF Believed
      <4>2. Drift(m)' = truth'[m].equity - Believed(m)'.equity - Unbooked(m)'
        BY <1>1, <1>2, DriftIsNext
      <4>3. QED
        BY <1>1, <1>2, <2>4, <4>1, <4>2
    <3>4. QED
      BY <3>1, <3>2, <3>3
  <2>6. \A l \in Leader : Share(l, m) = 0
    <3>1. Believed(m).equity - store[m].equity = 0
      BY <1>2, <2>5, Numbers
    <3>2. QED
      BY <1>1, <1>2, <1>4, <2>2, <3>1 DEF CopyOf, Settled, Booked
  <2>7. QED
    BY <1>1, <1>2, <2>2, <2>6, NothingOpen DEF CopyOf
<1>5. QED
  BY <1>3, <1>4, PassFields DEF Typed

\* The one share that is open alone is all that is not booked.
LEMMA DiskNext ==
  ASSUME NEW m, NEW u, Sound(m, store'[m], truth'[m]),
         \A l \in Leader : Share(l, m)' = Share(l, m),
         \A l \in Leader : Alone(l, m) =>
           /\ Share(l, m) = u /\ (WinDay(m, u) => store'[m].wins < truth'[m].wins)
           /\ store'[m].equity + u <= Floor(m, store'[m].peak) => truth'[m].dead
  PROVE  DiskOf(m)'
<1>1. \A l \in Leader : Alone(l, m)' => Alone(l, m)
  BY DEF Alone
<1>2. QED
  BY <1>1 DEF DiskOf

\* A payout takes the same sum off both, and both forget their winning days; one that was not made
\* was worth nothing, or it drifts.
LEMMA MarkPaidKnown ==
  ASSUME Typed, Typed', Wired, Known, Watch, NEW m \in Mirror, NEW a \in Int, NEW made \in BOOLEAN,
         MarkPaid(m, a, made), m \notin drifted'
  PROVE  DiskOf(m)'
<1>1. EditedAll({m}) /\ pend' = pend /\ m \in DOMAIN store /\ m \in DOMAIN store' /\ {m} \in SUBSET Mirror
  BY MirrorEdits DEF Marks
<1>2. /\ DiskOf(m) /\ truth[m].equity = store[m].equity + Unbooked(m)
      /\ truth'[m].equity = store'[m].equity + Unbooked(m)
      /\ \A l \in Leader : Share(l, m)' = Share(l, m)
      /\ \A l \in Leader : Alone(l, m) => Share(l, m) = Unbooked(m)
  BY <1>1, EditKnown
<1>3. StoreTyped /\ TruthTyped /\ BooksTyped
  BY DEF Typed
<1>4. a = Preview(m, store[m])
  BY DEF MarkPaid
<1>5. /\ store' = [store EXCEPT ![m] = PaidOut(m, store[m])]
      /\ ledger' = [ledger EXCEPT ![m] = Append(ledger[m], a)]
  BY <1>4 DEF MarkPaid
<1>6. Unbooked(m) = 0
  <2>1. ledger[m] \in Seq(Int) /\ ledger'[m] = Append(ledger[m], a)
    BY <1>3, <1>5 DEF BooksTyped
  <2>2. Len(ledger'[m]) # Len(ledger[m])
    BY <2>1
  <2>3. QED
    BY <2>2, Watched
<1>7. PICK r \in MirrorRecord : r = store[m]
  BY <1>1, Numbers
<1>8. /\ r.equity \in Int /\ r.peak \in Nat /\ truth[m].equity = r.equity
      /\ truth[m] \in Truths /\ truth[m].peak \in Nat /\ -a \in Int /\ truth[m].equity + (-a) = r.equity - a
      /\ Floor(m, r.peak) \in Int /\ Floor(m, truth[m].peak) \in Int /\ r.peak <= truth[m].peak
      /\ r.phase = "blown" => truth[m].dead
  BY <1>1, <1>2, <1>6, <1>7, Numbers DEF DiskOf, Sound
<1>9. PICK y \in MirrorRecord : /\ y = store'[m] /\ y.equity = r.equity - a /\ y.peak = r.peak
                                /\ y.wins = 0 /\ y.ready = FALSE
                                /\ y.phase = "blown" => r.phase = "blown"
  <2>1. store'[m] = PaidOut(m, r)
    BY <1>1, <1>3, <1>5, <1>7 DEF StoreTyped
  <2>2. QED
    BY <1>4, <1>7, <2>1, PaidOutOK
<1>10. CASE made
  <2>1. truth' = [truth EXCEPT ![m] = [Copied(m, truth[m], -a) EXCEPT !.wins = 0]]
    BY <1>10 DEF MarkPaid
  <2>2. PICK c \in Truths : /\ c = Copied(m, truth[m], -a)
                            /\ c.peak = Larger(truth[m].peak, r.equity - a)
                            /\ truth[m].dead \/ r.equity - a <= Floor(m, truth[m].peak) => c.dead
    BY <1>8, CopiedOK
  <2>3. c.peak >= truth[m].peak
    BY <1>8, <2>2 DEF Larger
  <2>4. PICK t : t = [c EXCEPT !.wins = 0]
    OBVIOUS
  <2>5. t \in Truths /\ t.wins = 0 /\ t.peak = c.peak /\ t.dead = c.dead /\ t.peak \in Nat
    BY <2>4 DEF Truths
  <2>6. truth'[m] = t
    BY <1>3, <2>1, <2>2, <2>4 DEF TruthTyped
  <2>7. Sound(m, store'[m], truth'[m])
    BY <1>8, <1>9, <2>2, <2>3, <2>5, <2>6 DEF Sound
  <2>8. y.equity + 0 <= Floor(m, y.peak) => t.dead
    <3>1. Floor(m, r.peak) <= Floor(m, truth[m].peak)
      BY <1>8, FloorRises
    <3>2. r.equity - a <= Floor(m, r.peak) => r.equity - a <= Floor(m, truth[m].peak)
      BY <1>8, <3>1
    <3>3. y.equity + 0 = r.equity - a
      BY <1>8, <1>9
    <3>4. QED
      BY <1>9, <2>2, <2>5, <3>2, <3>3
  <2>9. ~ WinDay(m, 0)
    BY DEF WinDay
  <2>10. QED
    BY <1>2, <1>6, <1>9, <2>6, <2>7, <2>8, <2>9, DiskNext
<1>11. CASE ~ made
  <2>1. truth' = truth
    BY <1>11 DEF MarkPaid
  <2>2. a = 0 /\ y.equity = r.equity
    BY <1>2, <1>6, <1>7, <1>8, <1>9, <2>1
  <2>3. Sound(m, y, truth[m])
    <3>1. truth[m].wins \in Nat
      BY <1>1, Numbers
    <3>2. QED
      BY <1>8, <1>9, <3>1 DEF Sound
  <2>4. ASSUME NEW l \in Leader, Alone(l, m), y.equity + 0 <= Floor(m, y.peak) PROVE truth[m].dead
    <3>1. Share(l, m) = 0
      BY <1>2, <1>6, <2>4
    <3>2. store[m].equity + Share(l, m) <= Floor(m, store[m].peak)
      BY <1>7, <1>8, <1>9, <2>2, <2>4, <3>1
    <3>3. QED
      BY <1>2, <2>4, <3>2 DEF DiskOf
  <2>5. ~ WinDay(m, 0)
    BY DEF WinDay
  <2>6. QED
    BY <1>2, <1>6, <1>9, <2>1, <2>3, <2>4, <2>5, DiskNext
<1>12. QED
  BY <1>10, <1>11

\* An adoption of earlier payouts changes nothing the record claims.
LEMMA AdoptKnown ==
  ASSUME Typed, Typed', Wired, Known, Watch, NEW m \in Mirror, Adopt(m), m \notin drifted'
  PROVE  DiskOf(m)'
<1>1. EditedAll({m}) /\ pend' = pend /\ m \in DOMAIN store /\ m \in DOMAIN store' /\ {m} \in SUBSET Mirror
  BY MirrorEdits
<1>2. DiskOf(m) /\ \A l \in Leader : Share(l, m)' = Share(l, m)
  BY <1>1, EditKnown
<1>3. PICK y \in MirrorRecord :
        /\ store' = [store EXCEPT ![m] = y] /\ y.equity = store[m].equity /\ y.peak = store[m].peak
        /\ y.wins = store[m].wins /\ y.phase = store[m].phase /\ y.ready = store[m].ready
  BY AdoptIs
<1>4. store'[m] = y /\ truth' = truth
  BY <1>1, <1>3 DEF Adopt, Typed, StoreTyped
<1>5. QED
  BY <1>2, <1>3, <1>4, SameClaims

\* A count corrected down, with or without the firm's balance: an account that was never off has it.
LEMMA TakeBackKnown ==
  ASSUME Typed, Typed', Wired, Known, Watch, NEW m \in Mirror, TakeBack(m), m \notin drifted'
  PROVE  DiskOf(m)'
<1>1. EditedAll({m}) /\ pend' = pend /\ m \in DOMAIN store /\ m \in DOMAIN store' /\ {m} \in SUBSET Mirror
  BY MirrorEdits
<1>2. /\ DiskOf(m) /\ truth[m].equity = store[m].equity + Unbooked(m) /\ Unbooked(m) \in Int
      /\ truth'[m].equity = store'[m].equity + Unbooked(m)
      /\ \A l \in Leader : Share(l, m)' = Share(l, m)
  BY <1>1, EditKnown
<1>3. PICK y \in MirrorRecord :
        /\ store' = [store EXCEPT ![m] = y]
        /\ y.wins = store[m].wins /\ y.phase = store[m].phase /\ y.ready = store[m].ready
        /\ \/ y.equity = store[m].equity /\ y.peak = store[m].peak
           \/ y.equity = truth[m].equity /\ y.peak = Larger(store[m].peak, truth[m].equity)
  BY TakeBackIs
<1>4. store'[m] = y /\ truth' = truth
  BY <1>1, <1>3 DEF TakeBack, Typed, StoreTyped
<1>5. /\ store[m].equity \in Int /\ store[m].peak \in Nat /\ store[m].equity <= store[m].peak
      /\ truth[m].equity \in Int
  BY <1>1, Numbers
<1>6. y.equity \in Int
  BY DEF MirrorRecord
<1>7. y.equity = store[m].equity /\ y.peak = store[m].peak
  <2>1. y.equity = truth[m].equity => truth[m].equity = store[m].equity
    BY <1>2, <1>4, <1>5, <1>6
  <2>2. QED
    BY <1>3, <1>5, <2>1 DEF Larger
<1>8. QED
  BY <1>2, <1>3, <1>4, <1>7, SameClaims

\* An activated account starts over, at the firm and in the store.
LEMMA ActivateKnown ==
  ASSUME Typed, Typed', Wired, Known, Watch, NEW m \in Mirror, NEW x \in Leader \cup {None},
         Activate(m, x), m \notin drifted'
  PROVE  DiskOf(m)'
<1>1. EditedAll({m}) /\ pend' = pend /\ m \in DOMAIN store /\ m \in DOMAIN store' /\ {m} \in SUBSET Mirror
  BY MirrorEdits
<1>2. /\ truth'[m].equity = store'[m].equity + Unbooked(m) /\ Unbooked(m) \in Int
      /\ \A l \in Leader : Share(l, m)' = Share(l, m)
      /\ \A l \in Leader : Alone(l, m) => Share(l, m) = Unbooked(m)
  BY <1>1, EditKnown
<1>3. store'[m] = Activated(m, store[m], x) /\ truth'[m] = Start(m)
  BY <1>1 DEF Activate, Typed, StoreTyped, TruthTyped
<1>4. PICK y : /\ y = store'[m] /\ y.equity = 0 /\ y.peak = 0 /\ y.wins = 0 /\ y.ready = FALSE
               /\ y.phase \in {"waiting", "funded"}
  BY <1>1, <1>3, Numbers, ActivatedOK
<1>5. truth'[m].equity = 0 /\ truth'[m].peak = 0 /\ truth'[m].wins = 0
  BY <1>3 DEF Start
<1>6. Unbooked(m) = 0
  BY <1>2, <1>4, <1>5
<1>7. Sound(m, y, truth'[m])
  BY <1>4, <1>5 DEF Sound
<1>8. ~ WinDay(m, 0) /\ ~ (y.equity + 0 <= Floor(m, y.peak))
  <2>1. PICK f \in Int : f = Floor(m, 0) /\ f < 0
    BY FloorOK
  <2>2. ~ (0 + 0 <= f)
    BY <2>1
  <2>3. QED
    BY <1>4, <2>1, <2>2 DEF WinDay
<1>9. QED
  BY <1>2, <1>4, <1>6, <1>7, <1>8, DiskNext

\* A new leader or multiplier changes nothing the record claims.
LEMMA RemapKnown ==
  ASSUME Typed, Typed', Wired, Known, Watch, NEW m \in Mirror, m \notin drifted',
         \/ \E l \in Leader : Pair(m, l)
         \/ \E l \in Leader \cup {None}, k \in {10, Firm[m].scale} : Remap(m, l, k)
  PROVE  DiskOf(m)'
<1>1. EditedAll({m}) /\ pend' = pend /\ m \in DOMAIN store /\ m \in DOMAIN store' /\ {m} \in SUBSET Mirror
  BY MirrorEdits
<1>2. DiskOf(m) /\ \A l \in Leader : Share(l, m)' = Share(l, m)
  BY <1>1, EditKnown
<1>3. truth' = truth
  BY DEF Pair, Remap
<1>4. /\ store'[m].equity = store[m].equity /\ store'[m].peak = store[m].peak
      /\ store'[m].wins = store[m].wins /\ store'[m].ready = store[m].ready
      /\ store'[m].phase = "blown" => store[m].phase = "blown"
  <2>1. store[m] \in MirrorRecord /\ store \in [DOMAIN store -> MirrorRecord]
    BY <1>1 DEF Typed, StoreTyped
  <2>2. ASSUME NEW l, store' = [store EXCEPT ![m].leader = l, ![m].phase = "funded"]
        PROVE  /\ store'[m].equity = store[m].equity /\ store'[m].peak = store[m].peak
               /\ store'[m].wins = store[m].wins /\ store'[m].ready = store[m].ready
               /\ store'[m].phase = "funded"
    BY <1>1, <2>1, <2>2 DEF MirrorRecord
  <2>3. ASSUME NEW l, NEW k, store' = [store EXCEPT ![m].leader = l, ![m].mult = k]
        PROVE  /\ store'[m].equity = store[m].equity /\ store'[m].peak = store[m].peak
               /\ store'[m].wins = store[m].wins /\ store'[m].ready = store[m].ready
               /\ store'[m].phase = store[m].phase
    BY <1>1, <2>1, <2>3 DEF MirrorRecord
  <2>4. QED
    BY <2>2, <2>3 DEF Pair, Remap
<1>5. QED
  BY <1>2, <1>3, <1>4, SameClaims

\* The edits of one mirror, and the others beside them.
LEMMA EditsKnown ==
  ASSUME Typed, Typed', Wired, Known, Watch, NEW x \in Mirror,
         \/ Marks(x) \/ Adopt(x) \/ TakeBack(x) \/ (\E l \in Leader : Pair(x, l))
         \/ (\E l \in Leader \cup {None} : Activate(x, l))
         \/ \E l \in Leader \cup {None}, k \in {10, Firm[x].scale} : Remap(x, l, k),
         NEW m \in DOMAIN store', m \notin drifted'
  PROVE  DiskOf(m)' /\ CopyOf(m)'
<1>1. /\ EditedAll({x}) /\ pend' = pend /\ x \in DOMAIN store /\ {x} \in SUBSET Mirror
      /\ DOMAIN store' = DOMAIN store /\ \A n \in DOMAIN store \ {x} : store'[n] = store[n]
      /\ \A n \in Mirror \ {x} : truth'[n] = truth[n]
  BY MirrorEdits
<1>2. m \in DOMAIN store /\ m \in Mirror
  BY <1>1, Numbers
<1>3. CASE m = x
  <2>1. CopyOf(m)'
    BY <1>1, <1>2, <1>3, EditKnown
  <2>2. DiskOf(x)'
    BY <1>3, MarkPaidKnown, AdoptKnown, TakeBackKnown, ActivateKnown, RemapKnown DEF Marks
  <2>3. QED
    BY <1>3, <2>1, <2>2
<1>4. CASE m # x
  <2>1. \A l \in Leader : Share(l, m)' = Share(l, m)
    BY <1>1 DEF Share
  <2>2. QED
    BY <1>1, <1>2, <1>4, <2>1, OthersKnown
<1>5. QED
  BY <1>3, <1>4

\* A deletion leaves the others as they were.
LEMMA DeleteKnown ==
  ASSUME Typed, Typed', Wired, Known, Watch, NEW x \in Mirror, Delete(x),
         NEW m \in DOMAIN store', m \notin drifted'
  PROVE  DiskOf(m)' /\ CopyOf(m)'
<1>1. /\ EditedAll({x}) /\ {x} \in SUBSET Mirror /\ DOMAIN store' = DOMAIN store \ {x} /\ truth' = truth
      /\ \A n \in DOMAIN store \ {x} : store'[n] = store[n]
  BY DEF Delete, Edited, Restrict
<1>2. m \in DOMAIN store /\ m # x /\ m \in Mirror
  BY <1>1, Numbers
<1>3. \A l \in Leader : Share(l, m)' = Share(l, m)
  BY <1>2, DeletedShare
<1>4. QED
  BY <1>1, <1>2, <1>3, OthersKnown

\* A plan's records, saved over ones that have only other mappings, claim what those claim.
LEMMA PlanSavesKnown ==
  ASSUME Typed, Typed', Wired, Known, Watch, PlanSaves, NEW m \in DOMAIN store', m \notin drifted'
  PROVE  DiskOf(m)' /\ CopyOf(m)'
<1>1. /\ plan # None /\ plan' = None /\ EditedAll(DOMAIN plan) /\ DOMAIN plan \in SUBSET Mirror
      /\ pend' = pend /\ truth' = truth
  BY DEF PlanSaves, Typed, CopiesTyped, PlanTyped
<1>2. store' = [x \in DOMAIN store \cup DOMAIN plan |-> IF x \in DOMAIN plan THEN plan[x] ELSE store[x]]
  BY DEF PlanSaves
<1>3. \A l \in Leader : Share(l, m)' = Share(l, m)
  BY <1>1 DEF Share
<1>4. m \in Mirror /\ ~ Overwritten(m)
  BY Watched DEF Typed, StoreTyped
<1>5. CASE m \in DOMAIN store /\ store'[m] = store[m]
  BY <1>1, <1>3, <1>5, OthersKnown
<1>6. CASE ~ (m \in DOMAIN store /\ store'[m] = store[m])
  <2>1. m \in DOMAIN plan /\ store'[m] = plan[m]
    BY <1>2, <1>6
  <2>2. store' # store
    BY <1>6
  <2>3. m \in DOMAIN store /\ plan[m] = [store[m] EXCEPT !.leader = plan[m].leader, !.mult = plan[m].mult]
    BY <1>1, <1>4, <2>1, <2>2 DEF Overwritten
  <2>4. store[m] \in MirrorRecord
    BY <2>3, Numbers
  <2>5. /\ store'[m].equity = store[m].equity /\ store'[m].peak = store[m].peak
        /\ store'[m].wins = store[m].wins /\ store'[m].ready = store[m].ready
        /\ store'[m].phase = store[m].phase
    <3>1. PICK l, k : plan[m] = [store[m] EXCEPT !.leader = l, !.mult = k]
      BY <2>3
    <3>2. QED
      BY <2>1, <2>4, <3>1 DEF MirrorRecord
  <2>6. DiskOf(m) /\ CopyOf(m)'
    BY <1>1, <2>1, <2>3, EditKnown
  <2>7. QED
    BY <1>1, <1>3, <2>5, <2>6, SameClaims
<1>7. QED
  BY <1>5, <1>6

\* A record that a patch changes keeps its claims: what the box read is what the record has.
LEMMA PatchesKnown ==
  ASSUME Typed, Typed', Wired, Known, Watch, NEW x \in Mirror, Patches(x), x \in DOMAIN store,
         NEW m \in DOMAIN store', m \notin drifted'
  PROVE  DiskOf(m)' /\ CopyOf(m)'
<1>1. PICK s \in MirrorRecord : /\ PatchOf(x) /\ x \in import.todo /\ import # None
                                /\ store' = [store EXCEPT ![x] = s]
                                /\ EditedAll(IF s = store[x] THEN {} ELSE {x})
  BY PatchesIs
<1>2. PICK E \in SUBSET Mirror : E = (IF s = store[x] THEN {} ELSE {x}) /\ EditedAll(E)
  BY <1>1
<1>3. pend' = pend /\ truth' = truth /\ store \in [DOMAIN store -> MirrorRecord]
      /\ m \in DOMAIN store /\ m \in Mirror
  BY <1>1 DEF Patches, Typed, StoreTyped
<1>4. \A l \in Leader : Share(l, m)' = Share(l, m)
  BY <1>3 DEF Share
<1>5. CASE store'[m] = store[m]
  BY <1>2, <1>3, <1>4, <1>5, OthersKnown
<1>6. CASE store'[m] # store[m]
  <2>1. m = x /\ m \in E /\ store'[m] = s
    BY <1>1, <1>2, <1>3, <1>6
  <2>2. s = Patched(store[m], store[m], import.rows[m].balance)
    BY <1>1, <1>3, <2>1, Watched DEF Outdated
  <2>3. /\ DiskOf(m) /\ CopyOf(m)' /\ Unbooked(m) \in Int
        /\ truth[m].equity = store[m].equity + Unbooked(m)
        /\ truth[m].equity = store'[m].equity + Unbooked(m)
    BY <1>2, <1>3, <2>1, EditKnown
  <2>4. PICK r \in MirrorRecord, b \in Int :
          /\ r = store[m] /\ r.equity \in Int /\ r.peak \in Nat /\ r.equity <= r.peak
          /\ b = import.rows[m].balance
    BY <1>1, <1>3, <2>1, Numbers, IntakeFields DEF Typed, CopiesTyped
  <2>5. s = Patched(r, r, b) /\ s.equity \in Int /\ truth[m].equity \in Int
    BY <1>3, <2>2, <2>4, Numbers DEF MirrorRecord
  <2>6. s.equity = r.equity
    BY <2>1, <2>3, <2>4, <2>5
  <2>7. /\ s.wins = r.wins /\ s.phase = r.phase /\ s.ready = r.ready
        /\ s = r \/ s.peak = Larger(r.peak, s.equity) \/ s.peak = r.peak
    BY <2>5, PatchedOK
  <2>8. s.peak = r.peak
    BY <2>4, <2>6, <2>7 DEF Larger
  <2>9. QED
    BY <1>3, <1>4, <2>1, <2>3, <2>4, <2>6, <2>7, <2>8, SameClaims
<1>7. QED
  BY <1>5, <1>6

\* A mirror that is onboarded claims nothing.
LEMMA OnboardedKnown ==
  ASSUME Typed, Typed', Wired, Watch, NEW E \in SUBSET Mirror, EditedAll(E), pend' = pend, truth' = truth,
         NEW m \in DOMAIN store', m \notin drifted', m \in E, m \notin DOMAIN store,
         NEW p \in Phases \ {"blown"}, store'[m] = Fresh(m, None, p)
  PROVE  DiskOf(m)' /\ CopyOf(m)'
<1>1. m \in Mirror /\ (pass' # None => m \notin pass'.edited \cap pass'.touched)
  BY Watched DEF Typed, StoreTyped
<1>2. \A l \in Leader : Share(l, m)' = 0
  BY <1>1 DEF Wired, Sharers, Share
<1>3. /\ store'[m].equity = 0 /\ store'[m].peak = 0 /\ store'[m].wins = 0 /\ store'[m].ready = FALSE
      /\ store'[m].phase # "blown"
  <2>1. PICK none \in Leader \cup {None}, ph \in Phases : none = None /\ ph = p
    OBVIOUS
  <2>2. /\ Fresh(m, none, ph).equity = 0 /\ Fresh(m, none, ph).peak = 0
        /\ Fresh(m, none, ph).wins = 0 /\ Fresh(m, none, ph).ready = FALSE
        /\ Fresh(m, none, ph).phase = ph /\ Fresh(m, none, ph).anchor = None
    BY <1>1, FreshIs, Zenon
  <2>3. store'[m] = Fresh(m, none, ph)
    BY <2>1
  <2>4. QED
    BY <2>1, <2>2, <2>3
<1>4. truth[m].peak \in Nat /\ truth[m].wins \in Nat
  BY DEF Typed, StoreTyped, TruthTyped, Truths
<1>5. Sound(m, store'[m], truth'[m])
  BY <1>3, <1>4 DEF Sound
<1>6. DiskOf(m)'
  <2>1. PICK f \in Int : f = Floor(m, 0) /\ f < 0
    BY FloorOK DEF Typed, StoreTyped
  <2>2. ~ (0 + 0 <= f)
    BY <2>1
  <2>3. ASSUME NEW l \in Leader
        PROVE  ~ WinDay(m, Share(l, m)') /\ ~ (store'[m].equity + Share(l, m)' <= Floor(m, store'[m].peak))
    BY <1>2, <1>3, <2>1, <2>2 DEF WinDay
  <2>4. QED
    BY <1>5, <2>3 DEF DiskOf
<1>7. CopyOf(m)'
  <2>1. ASSUME pass' # None PROVE CopyOf(m)'
    <3>1. /\ pass # None /\ pass'.booked = pass.booked /\ pass'.edited = pass.edited \cup E
          /\ pass.booked \subseteq Leader
      BY <2>1, EditFrame, PassFields DEF Typed
    <3>2. m \notin pass'.touched
      BY <1>1, <2>1, <3>1
    <3>3. \A l \in pass'.booked : Share(l, m)' = 0
      BY <1>2, <3>1
    <3>4. QED
      BY <3>2, <3>3 DEF CopyOf
  <2>2. QED
    BY <2>1 DEF CopyOf
<1>8. QED
  BY <1>6, <1>7

\* So does an import.
LEMMA ImportKnown ==
  ASSUME Typed, Typed', Wired, Known, Watch, NEW names \in SUBSET Mirror, Import(names),
         NEW m \in DOMAIN store', m \notin drifted'
  PROVE  DiskOf(m)' /\ CopyOf(m)'
<1>1. PICK ph \in [names -> Phases] :
        (\A x \in names : ph[x] \in FirstPhase[x]) /\ store' = Onboarded(ph)
  BY DEF Import
<1>2. /\ EditedAll(names) /\ pend' = pend /\ truth' = truth /\ m \in Mirror
      /\ \A x \in names : x \notin DOMAIN store
  BY DEF Import, Proposed, Typed, StoreTyped
<1>3. CASE m \in names
  <2>1. PICK p \in Phases \ {"blown"} : p = ph[m]
    BY <1>1, <1>2, <1>3, MirrorsAssumption
  <2>2. store'[m] = Fresh(m, None, p)
    BY <1>1, <1>3, <2>1 DEF Onboarded
  <2>3. QED
    BY <1>2, <1>3, <2>2, OnboardedKnown
<1>4. CASE m \notin names
  <2>1. m \in DOMAIN store /\ store'[m] = store[m]
    BY <1>1, <1>4 DEF Onboarded
  <2>2. \A l \in Leader : Share(l, m)' = Share(l, m)
    BY <1>2 DEF Share
  <2>3. QED
    BY <1>2, <2>1, <2>2, OthersKnown
<1>5. QED
  BY <1>3, <1>4

\* Every step keeps what is known.
LEMMA NextKnown == Typed /\ Wired /\ Known /\ [Next]_vars => Known'
<1> SUFFICES ASSUME Typed, Wired, Known, [Next]_vars PROVE Known'
  OBVIOUS
<1>0. Typed'
  BY NextTyped
<1>1. CASE UNCHANGED vars
  BY <1>1 DEF vars, Known, Drift, Believed, Unbooked, Booked, Share, DiskOf, CopyOf, Alone, Settled, Sound
<1>2. CASE Next
  <2>0. Watch
    BY <1>2 DEF Next
  <2> SUFFICES ASSUME NEW m \in DOMAIN store', m \notin drifted'
               PROVE  Drift(m)' = 0 /\ DiskOf(m)' /\ CopyOf(m)'
    BY DEF Known
  <2>1. Drift(m)' = 0
    <3>1. m \in Mirror
      BY <1>0 DEF Typed, StoreTyped
    <3>2. QED
      BY <2>0, <3>1, Watched
  <2>2. CASE \E l \in Leader, d \in Outcome : Trade(l, d)
    BY <1>0, <2>0, <2>1, <2>2, TradeKnown
  <2>3. CASE NextDay \/ PassBegins \/ SavesLeaders \/ Quiet
    BY <2>0, <2>1, <2>3, QuietKnown
  <2>4. CASE \E l \in Leader : Books(l)
    BY <1>0, <2>0, <2>1, <2>4, BooksKnown
  <2>5. CASE SavesMirrors
    BY <1>0, <2>0, <2>1, <2>5, SavesMirrorsKnown
  <2>6. CASE Crash
    BY <1>0, <2>0, <2>1, <2>6, CrashKnown
  <2>7. ASSUME NEW x \in Mirror, Operator(x), ~ Refreshes(x) PROVE DiskOf(m)' /\ CopyOf(m)'
    <3>1. CASE Delete(x)
      BY <1>0, <2>0, <3>1, DeleteKnown
    <3>2. CASE ~ Delete(x)
      BY <1>0, <2>0, <2>7, <3>2, EditsKnown, OperatorIs
    <3>3. QED
      BY <3>1, <3>2
  <2>8. CASE \E names \in SUBSET Mirror : Import(names)
    BY <1>0, <2>0, <2>1, <2>8, ImportKnown
  <2>9. CASE PlanSaves \/ \E x \in Mirror : Patches(x) /\ x \in DOMAIN store
    BY <1>0, <2>0, <2>1, <2>9, PlanSavesKnown, PatchesKnown
  <2>10. QED
    BY <1>2, <2>1, <2>2, <2>3, <2>4, <2>5, <2>6, <2>7, <2>8, <2>9 DEF Next, PassStep, Quiet
<1>3. QED
  BY <1>1, <1>2

\* In every instance and order of steps the inductive invariant holds.
LEMMA InvariantHolds == Spec => []IInv
<1>1. Init => Known
  BY InitKnown
<1>2. Init => Banked
  BY InitBanked
<1>3. Typed /\ Wired /\ Known /\ Banked => IInv
  BY TypedIs DEF IInv, Wired
<1>4. QED
  BY <1>1, <1>2, <1>3, NextKnown, NextBanked, WiredAlways, PTL DEF Spec

\* In every instance, whatever trades, passes, crashes, edits and reports came in whatever order: the
\* records are well formed; an account whose inference was never off is called blown only when the firm
\* has closed it and payout ready only when the firm counts the days; and what analytics calls banked
\* is what the operator stands by (services/mirror_sync.py, services/tc_observe.py, store/mirrors.py).
THEOREM RecordsAreReal == Spec => []Inv
<1>1. IInv => TypeOK /\ BlownIsReal /\ ReadyIsEarned
  BY DEF IInv, Known, DiskOf, Sound, BlownIsReal, ReadyIsEarned
<1>2. TypeOK /\ BlownIsReal /\ ReadyIsEarned /\ LedgerIsBanked => Inv
  BY DEF Inv
<1>3. QED
  BY <1>1, <1>2, InvariantHolds, BankedIsWithdrawn, PTL
=============================================================================
