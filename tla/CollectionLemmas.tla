-------------------------- MODULE CollectionLemmas --------------------------
(***************************************************************************)
(* What the proofs need of the sequences that queues and results are, of   *)
(* the least of a set of ids, of the functions that loops compute, and of  *)
(* the sums of Collections.                                                *)
(***************************************************************************)
EXTENDS Naturals, SequencesExt, Collections, FiniteSetTheorems, WellFoundedInduction, TLAPS

-----------------------------------------------------------------------------
(* Sequences                                                               *)

\* Appending x adds x to the members and, if x is new, repeats nothing.
LEMMA AppendMembers ==
  ASSUME NEW S, NEW s \in Seq(S), NEW x \in S
  PROVE  /\ Append(s, x) \in Seq(S)
         /\ Append(s, x) # <<>>
         /\ \A y : Contains(Append(s, x), y) <=> Contains(s, y) \/ y = x
         /\ IsInjective(s) /\ ~Contains(s, x) => IsInjective(Append(s, x))
<1> DEFINE a == Append(s, x)
<1>0. a \in Seq(S) /\ Len(a) = Len(s) + 1 /\ Len(s) \in Nat
  OBVIOUS
<1>1. a \in Seq(S) /\ Len(a) = Len(s) + 1 /\ a # <<>>
  <2>1. Len(<<>>) = 0
    OBVIOUS
  <2> QED
    BY <1>0, <2>1
<1>2. /\ DOMAIN s = 1 .. Len(s) /\ Len(s) \in Nat
      /\ DOMAIN a = 1 .. Len(s) + 1
  BY <1>1
<1>3. \A i \in 1 .. Len(s) : a[i] = s[i]
  OBVIOUS
<1>4. a[Len(s) + 1] = x
  OBVIOUS
<1> HIDE DEF a
<1>5. \A y : Contains(a, y) <=> Contains(s, y) \/ y = x
  BY <1>2, <1>3, <1>4 DEF Contains
<1>6. IsInjective(s) /\ ~Contains(s, x) => IsInjective(a)
  BY <1>2, <1>3, <1>4 DEF Contains, IsInjective
<1> QED
  BY <1>1, <1>5, <1>6 DEF a

\* Removing the head keeps the other members and repeats nothing new.
LEMMA TailMembers ==
  ASSUME NEW S, NEW s \in Seq(S), s # <<>>
  PROVE  /\ Tail(s) \in Seq(S)
         /\ Head(s) \in S
         /\ Contains(s, Head(s))
         /\ \A y : Contains(Tail(s), y) => Contains(s, y)
         /\ \A y : Contains(s, y) => y = Head(s) \/ Contains(Tail(s), y)
         /\ IsInjective(s) => IsInjective(Tail(s)) /\ ~Contains(Tail(s), Head(s))
<1> DEFINE u == Tail(s)
<1>1. u \in Seq(S) /\ Len(u) = Len(s) - 1 /\ Len(s) \in Nat /\ Len(s) >= 1
  OBVIOUS
<1>2. DOMAIN s = 1 .. Len(s) /\ DOMAIN u = 1 .. Len(s) - 1
  BY <1>1
<1>3. \A i \in 1 .. Len(s) - 1 : u[i] = s[i + 1]
  OBVIOUS
<1>4. Head(s) = s[1] /\ s[1] \in S
  OBVIOUS
<1> HIDE DEF u
<1>5. Contains(s, Head(s))
  BY <1>1, <1>2, <1>4 DEF Contains
<1>6. \A y : Contains(u, y) => Contains(s, y)
  BY <1>1, <1>2, <1>3 DEF Contains
<1>7. ASSUME NEW y, Contains(s, y) PROVE y = Head(s) \/ Contains(u, y)
  <2>1. PICK i \in DOMAIN s : s[i] = y
    BY <1>7 DEF Contains
  <2>2. CASE i = 1
    BY <2>1, <2>2, <1>4
  <2>3. CASE i # 1
    <3>1. i - 1 \in 1 .. Len(s) - 1 /\ u[i - 1] = s[i]
      BY <2>1, <2>3, <1>1, <1>2, <1>3
    <3> QED
      BY <3>1, <2>1, <1>2 DEF Contains
  <2> QED
    BY <2>2, <2>3
<1>8. IsInjective(s) => IsInjective(u)
  BY <1>1, <1>2, <1>3, SMTT(30) DEF IsInjective
<1>9. IsInjective(s) => ~Contains(u, Head(s))
  BY <1>1, <1>2, <1>3, <1>4 DEF Contains, IsInjective
<1> QED
  BY <1>1, <1>4, <1>5, <1>6, <1>7, <1>8, <1>9 DEF u

\* An empty sequence has no members and repeats nothing.
LEMMA EmptyMembers == IsInjective(<<>>) /\ \A y : ~Contains(<<>>, y)
<1>1. \A y : ~Contains(<<>>, y)
  BY DEF Contains
<1>2. IsInjective(<<>>)
  BY DEF IsInjective
<1> QED
  BY <1>1, <1>2

\* ToSet collects the members.
LEMMA SetOfMembers ==
  ASSUME NEW S, NEW s \in Seq(S)
  PROVE  /\ \A y : y \in ToSet(s) <=> Contains(s, y)
         /\ s \in Seq(ToSet(s))
<1>1. \A y : y \in ToSet(s) <=> Contains(s, y)
  BY DEF ToSet, Contains
<1>2. s \in Seq(ToSet(s))
  <2>1. \A i \in 1 .. Len(s) : s[i] \in ToSet(s)
    BY DEF ToSet
  <2> QED
    BY <2>1
<1> QED
  BY <1>1, <1>2

\* The last of a sequence that was just extended, and what it leaves alone.
LEMMA AppendPlaces ==
  ASSUME NEW S, NEW s \in Seq(S), NEW x \in S
  PROVE  /\ Len(Append(s, x)) = Len(s) + 1
         /\ DOMAIN Append(s, x) = 1 .. Len(s) + 1
         /\ DOMAIN s = 1 .. Len(s)
         /\ Len(s) \in Nat
         /\ \A i \in 1 .. Len(s) : Append(s, x)[i] = s[i]
         /\ Append(s, x)[Len(s) + 1] = x
         /\ Last(Append(s, x)) = x
BY DEF Last

-----------------------------------------------------------------------------
(* Least elements and loops                                                *)

\* A set of natural numbers has a least one.
LEMMA HasLeast ==
  ASSUME NEW T, T \subseteq Nat, T # {}
  PROVE  \E x \in T : \A y \in T : x <= y
<1> DEFINE R == OpToRel(<, Nat)
<1>1. IsWellFoundedOn(R, Nat)
  BY NatLessThanWellFounded
<1>2. ASSUME NEW x \in Nat, NEW y \in Nat, <<y, x>> \notin R PROVE x <= y
  <2>1. ~(y < x)
    BY <1>2 DEF OpToRel
  <2> QED
    BY <2>1
<1> HIDE DEF R
<1>3. PICK x \in T : \A y \in T : <<y, x>> \notin R
  BY <1>1, WFMin
<1>4. \A y \in T : x <= y
  BY <1>2, <1>3
<1> QED
  BY <1>3, <1>4

\* Induction, over a set instead of a formula.
LEMMA SetInduction ==
  ASSUME NEW P, 0 \in P, \A n \in Nat : n \in P => n + 1 \in P
  PROVE  \A n \in Nat : n \in P
<1> SUFFICES ASSUME NEW m \in Nat, m \notin P PROVE FALSE
  OBVIOUS
<1>1. PICK x \in Nat \ P : \A y \in Nat \ P : x <= y
  BY HasLeast
<1>2. x # 0 /\ x - 1 \in Nat
  BY <1>1
<1>3. x - 1 \in P
  BY <1>1, <1>2
<1> QED
  BY <1>1, <1>2, <1>3

\* f[n] is what n rounds of a loop make of start, when round n makes
\* step[n][x] of x.
IsLoop(f, start, step) == f[0] = start /\ \A n \in Nat : f[n + 1] = step[n][f[n]]

\* Every loop computes a function of the number of rounds.
LEMMA LoopComputes ==
  ASSUME NEW X, NEW start \in X, NEW step \in [Nat -> [X -> X]]
  PROVE  \E f \in [Nat -> X] : IsLoop(f, start, step)
<1> DEFINE Runs(n) == {g \in [0 .. n -> X] :
                         /\ g[0] = start
                         /\ \A i \in 0 .. n : i < n => g[i + 1] = step[i][g[i]]}
<1>1. \A n \in Nat : n \in {m \in Nat : Runs(m) # {}}
  <2>1. [i \in 0 .. 0 |-> start] \in Runs(0)
    OBVIOUS
  <2>2. ASSUME NEW n \in Nat, NEW g \in Runs(n) PROVE Runs(n + 1) # {}
    <3> DEFINE h == [i \in 0 .. n + 1 |-> IF i = n + 1 THEN step[n][g[n]] ELSE g[i]]
    <3>1. /\ g \in [0 .. n -> X] /\ g[0] = start
          /\ \A i \in 0 .. n : i < n => g[i + 1] = step[i][g[i]]
      OBVIOUS
    <3>2. g[n] \in X /\ step[n][g[n]] \in X
      BY <3>1
    <3>3. h \in [0 .. n + 1 -> X] /\ h[0] = start
      BY <3>1, <3>2
    <3>4. ASSUME NEW i \in 0 .. n + 1, i < n + 1 PROVE h[i + 1] = step[i][h[i]]
      <4>1. i \in 0 .. n /\ i + 1 \in 0 .. n + 1 /\ h[i] = g[i]
        BY <3>4
      <4>2. CASE i = n
        BY <4>1, <4>2
      <4>3. CASE i < n
        <5>1. h[i + 1] = g[i + 1]
          BY <4>1, <4>3
        <5> QED
          BY <3>1, <4>1, <4>3, <5>1
      <4> QED
        BY <4>1, <4>2, <4>3
    <3>5. h \in Runs(n + 1)
      <4> HIDE DEF h
      <4> QED
        BY <3>3, <3>4
    <3> QED
      BY <3>5
  <2> DEFINE P == {m \in Nat : Runs(m) # {}}
  <2>3. 0 \in P
    <3> HIDE DEF Runs
    <3> QED
      BY <2>1
  <2>4. \A n \in Nat : n \in P => n + 1 \in P
    <3> HIDE DEF Runs
    <3> QED
      BY <2>2
  <2> HIDE DEF P
  <2>5. \A n \in Nat : n \in P
    BY <2>3, <2>4, SetInduction
  <2> QED
    BY <2>5 DEF P
<1>2. ASSUME NEW n \in Nat, NEW g \in Runs(n), NEW m \in Nat, NEW h \in Runs(m)
      PROVE  \A i \in Nat : i <= n /\ i <= m => g[i] = h[i]
  <2> DEFINE P == {i \in Nat : i <= n /\ i <= m => g[i] = h[i]}
  <2>1. 0 \in P
    OBVIOUS
  <2>2. ASSUME NEW i \in Nat, i \in P PROVE i + 1 \in P
    <3> SUFFICES ASSUME i + 1 <= n, i + 1 <= m PROVE g[i + 1] = h[i + 1]
      OBVIOUS
    <3>1. i \in 0 .. n /\ i < n /\ i \in 0 .. m /\ i < m
      OBVIOUS
    <3>2. g[i + 1] = step[i][g[i]] /\ h[i + 1] = step[i][h[i]]
      BY <3>1
    <3>3. g[i] = h[i]
      BY <2>2, <3>1
    <3> QED
      BY <3>2, <3>3
  <2> HIDE DEF P
  <2>3. \A i \in Nat : i \in P
    BY <2>1, <2>2, SetInduction
  <2> QED
    BY <2>3 DEF P
<1> DEFINE run == [n \in Nat |-> CHOOSE g \in Runs(n) : TRUE]
           f == [n \in Nat |-> run[n][n]]
<1>3. \A n \in Nat : run[n] \in Runs(n)
  <2> HIDE DEF Runs
  <2> QED
    BY <1>1
<1>4. \A n \in Nat : /\ run[n] \in [0 .. n -> X] /\ run[n][0] = start
                   /\ \A i \in 0 .. n : i < n => run[n][i + 1] = step[i][run[n][i]]
  <2> HIDE DEF run
  <2> QED
    BY <1>3
<1>5. \A n \in Nat : run[n + 1][n] = run[n][n]
  <2> HIDE DEF Runs, run
  <2> QED
    BY <1>2, <1>3
<1> HIDE DEF run, Runs
<1>6. f \in [Nat -> X] /\ f[0] = start
  BY <1>4
<1>7. ASSUME NEW n \in Nat PROVE f[n + 1] = step[n][f[n]]
  <2>1. n + 1 \in Nat /\ n \in 0 .. n + 1 /\ n < n + 1
    OBVIOUS
  <2>2. run[n + 1][n + 1] = step[n][run[n + 1][n]]
    BY <1>4, <2>1
  <2> QED
    BY <1>5, <2>1, <2>2
<1> QED
  BY <1>6, <1>7 DEF IsLoop

\* What is kept of a sequence was among its elements.
LEMMA KeptElements ==
  ASSUME NEW S, NEW s \in Seq(S), NEW K
  PROVE  Kept(s, K) \in Seq(S)
<1> DEFINE A == S \cup {s[i] : i \in Nat}
           step == [n \in Nat |-> [x \in Seq(A) |->
                      IF n + 1 \in K THEN Append(x, s[n + 1]) ELSE x]]
           Loop(g) == g = [i \in Nat |->
                         IF i = 0 THEN <<>>
                         ELSE IF i \in K THEN Append(g[i - 1], s[i]) ELSE g[i - 1]]
           kept == CHOOSE g : Loop(g)
<1>1. step \in [Nat -> [Seq(A) -> Seq(A)]]
  <2>1. \A n \in Nat, x \in Seq(A) : Append(x, s[n + 1]) \in Seq(A)
    OBVIOUS
  <2> QED
    BY <2>1
<1>2. <<>> \in Seq(A)
  OBVIOUS
<1>3. PICK f \in [Nat -> Seq(A)] : IsLoop(f, <<>>, step)
  <2> HIDE DEF A, step
  <2> QED
    BY <1>1, <1>2, LoopComputes
<1>4. \A n \in Nat : f[n + 1] = IF n + 1 \in K THEN Append(f[n], s[n + 1]) ELSE f[n]
  BY <1>3 DEF IsLoop
<1>5. Loop(f)
  <2>1. ASSUME NEW i \in Nat
        PROVE  f[i] = IF i = 0 THEN <<>>
                      ELSE IF i \in K THEN Append(f[i - 1], s[i]) ELSE f[i - 1]
    <3>1. CASE i = 0
      BY <1>3, <3>1 DEF IsLoop
    <3>2. CASE i # 0
      <4>1. i - 1 \in Nat /\ (i - 1) + 1 = i
        BY <3>2
      <4> QED
        BY <1>4, <3>2, <4>1
    <3> QED
      BY <3>1, <3>2
  <2>2. f = [i \in Nat |-> f[i]]
    BY <1>3
  <2> HIDE DEF A
  <2> QED
    BY <2>1, <2>2
<1>6. Loop(kept)
  <2> HIDE DEF Loop
  <2> QED
    BY <1>5
<1>7. /\ kept[0] = <<>>
      /\ \A n \in Nat : kept[n + 1] = IF n + 1 \in K THEN Append(kept[n], s[n + 1])
                                       ELSE kept[n]
  <2> HIDE DEF kept
  <2>1. kept[0] = <<>>
    BY <1>6
  <2>2. ASSUME NEW n \in Nat
        PROVE  kept[n + 1] = IF n + 1 \in K THEN Append(kept[n], s[n + 1]) ELSE kept[n]
    <3>1. n + 1 \in Nat /\ n + 1 # 0 /\ (n + 1) - 1 = n
      OBVIOUS
    <3> QED
      BY <1>6, <3>1
  <2> QED
    BY <2>1, <2>2
<1> HIDE DEF kept
<1> DEFINE P == {n \in Nat : n <= Len(s) => kept[n] \in Seq(S)}
<1>8. 0 \in P
  <2>1. <<>> \in Seq(S)
    OBVIOUS
  <2> QED
    BY <1>7, <2>1
<1>9. \A n \in Nat : n \in P => n + 1 \in P
  <2> SUFFICES ASSUME NEW n \in Nat, n \in P, n + 1 <= Len(s) PROVE kept[n + 1] \in Seq(S)
    OBVIOUS
  <2>1. kept[n] \in Seq(S) /\ s[n + 1] \in S
    OBVIOUS
  <2>2. kept[n + 1] = kept[n] \/ kept[n + 1] = Append(kept[n], s[n + 1])
    BY <1>7
  <2>3. Append(kept[n], s[n + 1]) \in Seq(S)
    BY <2>1
  <2> QED
    BY <2>1, <2>2, <2>3
<1>10. \A n \in Nat : n \in P
  <2> HIDE DEF P
  <2> QED
    BY <1>8, <1>9, SetInduction
<1>11. kept[Len(s)] \in Seq(S)
  <2>1. Len(s) \in Nat
    OBVIOUS
  <2> QED
    BY <1>10, <2>1
<1> QED
  BY <1>11 DEF Kept, kept

-----------------------------------------------------------------------------
(* Sums and sizes                                                          *)

\* n units of one thing are n units.
LEMMA UnitsOfOne ==
  ASSUME NEW x, NEW n \in Nat
  PROVE  IsFiniteSet({x} \X (1 .. n)) /\ Cardinality({x} \X (1 .. n)) = n
<1>1. IsFiniteSet({x}) /\ Cardinality({x}) = 1
  BY FS_Singleton
<1>2. IsFiniteSet(1 .. n) /\ Cardinality(1 .. n) = n
  <2>1. IsFiniteSet(1 .. n) /\ Cardinality(1 .. n) = IF 1 > n THEN 0 ELSE n - 1 + 1
    BY FS_Interval
  <2> QED
    BY <2>1
<1>3. /\ IsFiniteSet({x} \X (1 .. n))
      /\ Cardinality({x} \X (1 .. n)) = Cardinality({x}) * Cardinality(1 .. n)
  BY <1>1, <1>2, FS_Product
<1> QED
  BY <1>1, <1>2, <1>3

\* A finite sum is a natural number.
LEMMA SumType ==
  ASSUME NEW S, IsFiniteSet(S), NEW f \in [S -> Nat]
  PROVE  IsFiniteSet(UnitsOf(f)) /\ SumOf(f) \in Nat
<1> DEFINE g == [x \in S |-> {x} \X (1 .. f[x])]
           T == {{x} \X (1 .. f[x]) : x \in S}
<1>1. g \in Surjection(S, T)
  BY DEF Surjection
<1>2. IsFiniteSet(T)
  <2> HIDE DEF g, T
  <2> QED
    BY <1>1, FS_Surjection
<1>3. ASSUME NEW Z \in T PROVE IsFiniteSet(Z)
  <2>1. PICK x \in S : Z = {x} \X (1 .. f[x])
    OBVIOUS
  <2>2. f[x] \in Nat
    OBVIOUS
  <2> QED
    BY <2>1, <2>2, UnitsOfOne
<1>4. IsFiniteSet(UNION T)
  <2> HIDE DEF T
  <2> QED
    BY <1>2, <1>3, FS_UNION
<1>5. IsFiniteSet(UnitsOf(f))
  BY <1>4 DEF UnitsOf
<1> QED
  BY <1>5, FS_CardinalityType DEF SumOf

\* The sum is that of all but one, and the one.
LEMMA SumSplit ==
  ASSUME NEW S, IsFiniteSet(S), NEW f \in [S -> Nat], NEW x \in S
  PROVE  SumOf(f) = SumOf([y \in S \ {x} |-> f[y]]) + f[x]
<1> DEFINE r == [y \in S \ {x} |-> f[y]]
           One == {x} \X (1 .. f[x])
<1>1. r \in [S \ {x} -> Nat]
  OBVIOUS
<1>2. IsFiniteSet(S \ {x})
  BY FS_RemoveElement
<1>3. IsFiniteSet(UnitsOf(r)) /\ Cardinality(UnitsOf(r)) \in Nat
  <2> HIDE DEF r
  <2> QED
    BY <1>1, <1>2, SumType DEF SumOf
<1>4. IsFiniteSet(One) /\ Cardinality(One) = f[x]
  BY UnitsOfOne
<1>5. UnitsOf(f) = UnitsOf(r) \cup One
  BY DEF UnitsOf
<1>6. UnitsOf(r) \cap One = {}
  BY DEF UnitsOf
<1>7. Cardinality(UnitsOf(f)) = Cardinality(UnitsOf(r)) + Cardinality(One) - Cardinality({})
  <2> HIDE DEF r, One
  <2> QED
    BY <1>3, <1>4, <1>5, <1>6, FS_Union
<1>8. Cardinality({}) = 0
  BY FS_EmptySet
<1> QED
  BY <1>3, <1>4, <1>7, <1>8 DEF SumOf

\* No term exceeds the sum.
LEMMA TermWithinSum ==
  ASSUME NEW S, IsFiniteSet(S), NEW f \in [S -> Nat], NEW x \in S
  PROVE  f[x] <= SumOf(f)
<1> DEFINE r == [y \in S \ {x} |-> f[y]]
<1>1. r \in [S \ {x} -> Nat] /\ IsFiniteSet(S \ {x})
  BY FS_RemoveElement
<1>2. SumOf(r) \in Nat
  <2> HIDE DEF r
  <2> QED
    BY <1>1, SumType
<1>3. SumOf(f) = SumOf(r) + f[x]
  BY SumSplit
<1> QED
  BY <1>2, <1>3

\* A sum of which one term changes, changes as the term does.
LEMMA SumChange ==
  ASSUME NEW S, IsFiniteSet(S), NEW f \in [S -> Nat], NEW g \in [S -> Nat],
         NEW x \in S, \A y \in S \ {x} : g[y] = f[y]
  PROVE  /\ SumOf(f) \in Nat /\ SumOf(g) \in Nat
         /\ f[x] <= SumOf(f)
         /\ SumOf(g) = SumOf(f) - f[x] + g[x]
<1> DEFINE r == [y \in S \ {x} |-> f[y]]
<1>1. r = [y \in S \ {x} |-> g[y]]
  OBVIOUS
<1>2. SumOf(f) \in Nat /\ SumOf(g) \in Nat
  BY SumType
<1>3. SumOf(f) = SumOf(r) + f[x]
  BY SumSplit
<1>4. SumOf(g) = SumOf(r) + g[x]
  BY <1>1, SumSplit
<1>5. r \in [S \ {x} -> Nat] /\ IsFiniteSet(S \ {x})
  BY FS_RemoveElement
<1>6. SumOf(r) \in Nat
  <2> HIDE DEF r
  <2> QED
    BY <1>5, SumType
<1> QED
  BY <1>2, <1>3, <1>4, <1>6

\* A sum of zeros is zero.
LEMMA SumOfZeros ==
  ASSUME NEW S, NEW f, DOMAIN f = S, \A x \in S : f[x] = 0
  PROVE  SumOf(f) = 0
<1>1. \A x \in S : 1 .. f[x] = {}
  OBVIOUS
<1>2. UnitsOf(f) = {}
  BY <1>1 DEF UnitsOf
<1> QED
  BY <1>2, FS_EmptySet DEF SumOf

\* A finite set goes into another that has as many elements or more.
LEMMA InjectionExists ==
  ASSUME NEW S, IsFiniteSet(S), NEW T, IsFiniteSet(T), Cardinality(S) <= Cardinality(T)
  PROVE  \E f \in [S -> T] : IsInjective(f)
<1> DEFINE m == Cardinality(S)
           n == Cardinality(T)
<1>1. m \in Nat /\ n \in Nat /\ ExistsBijection(1 .. m, S) /\ ExistsBijection(1 .. n, T)
  BY FS_CardinalityType
<1>2. PICK g : g \in Bijection(1 .. m, S)
  BY <1>1 DEF ExistsBijection
<1>3. PICK h : h \in Bijection(1 .. n, T)
  BY <1>1 DEF ExistsBijection
<1>4. /\ g \in [1 .. m -> S] /\ \A x \in S : \E i \in 1 .. m : g[i] = x
      /\ h \in [1 .. n -> T] /\ \A i, j \in 1 .. n : h[i] = h[j] => i = j
  BY <1>2, <1>3 DEF Bijection, Injection, Surjection, IsInjective
<1> DEFINE number == [x \in S |-> CHOOSE i \in 1 .. m : g[i] = x]
           f == [x \in S |-> h[number[x]]]
<1>5. \A x \in S : number[x] \in 1 .. m /\ g[number[x]] = x
  BY <1>4
<1>6. \A x \in S : number[x] \in 1 .. n
  <2> HIDE DEF number, m, n
  <2>1. m <= n
    BY DEF m, n
  <2> QED
    BY <1>1, <1>5, <2>1
<1> HIDE DEF number
<1>7. f \in [S -> T]
  BY <1>4, <1>6
<1>8. IsInjective(f)
  BY <1>4, <1>5, <1>6 DEF IsInjective
<1> QED
  BY <1>7, <1>8
=============================================================================
