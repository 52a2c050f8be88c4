------------------------------ MODULE FoldLemmas ------------------------------
(***************************************************************************)
(* What the folds of the models compute, for every input.  The library's   *)
(* induction theorems take an operator as a parameter; here induction      *)
(* speaks of the set of numbers with a property, and a fold of the         *)
(* functions its steps are.                                                *)
(***************************************************************************)
EXTENDS Selection, FiniteSets, SequencesExt, FiniteSetTheorems, SequenceTheorems,
        WellFoundedInduction, TLAPS

-----------------------------------------------------------------------------
(* Numbers. *)

\* A set of numbers has a least element.
LEMMA SmallestOf ==
    ASSUME NEW S \in SUBSET Nat, S # {}
    PROVE  \E x \in S : \A y \in S : x <= y
<1>1. PICK x \in S : \A y \in S : ~(<<y, x>> \in OpToRel(<, Nat))
  BY NatLessThanWellFounded, WFMin
<1>2. ASSUME NEW y \in S PROVE x <= y
  <2>1. ~(y < x)
    BY <1>1 DEF OpToRel
  <2>2. QED BY <2>1
<1>3. QED BY <1>2

\* A set of numbers with 0 and the successor of each of its members is Nat.
LEMMA Induction ==
    ASSUME NEW P, 0 \in P, \A n \in Nat : n \in P => n + 1 \in P
    PROVE  Nat \subseteq P
<1> DEFINE Rest == {n \in Nat : n \notin P}
<1>1. SUFFICES ASSUME Rest # {} PROVE FALSE
  OBVIOUS
<1>2. PICK x \in Rest : \A y \in Rest : x <= y
  BY <1>1, SmallestOf
<1>3. x # 0 /\ x - 1 \in Nat /\ x - 1 \notin Rest
  BY <1>2
<1>4. x - 1 \in P
  BY <1>3
<1>5. (x - 1) + 1 \in P
  BY <1>3, <1>4
<1>6. QED BY <1>2, <1>5

\* A set with the empty sequence that keeps what is appended to its members has
\* every sequence.
LEMMA SequenceInduction ==
    ASSUME NEW T, NEW P, <<>> \in P, \A s \in Seq(T), x \in T : s \in P => Append(s, x) \in P
    PROVE  Seq(T) \subseteq P
<1> DEFINE Q == {n \in Nat : \A s \in Seq(T) : Len(s) = n => s \in P}
<1>1. 0 \in Q
  <2>1. \A s \in Seq(T) : Len(s) = 0 => s = <<>>
    BY EmptySeq
  <2>2. QED BY <2>1
<1>2. ASSUME NEW n \in Nat, n \in Q PROVE n + 1 \in Q
  <2>1. ASSUME NEW s \in Seq(T), Len(s) = n + 1 PROVE s \in P
    <3>1. s # <<>>
      BY <2>1, EmptySeq
    <3>2. PICK b \in Seq(T), x \in T : s = Append(b, x)
      BY <3>1, SequenceEmptyOrAppend
    <3>3. Len(b) \in Nat /\ Len(s) = Len(b) + 1
      BY <3>2, AppendProperties
    <3>4. Len(b) = n
      BY <2>1, <3>3
    <3>5. b \in P
      BY <1>2, <3>4
    <3>6. QED BY <3>2, <3>5
  <2>2. QED BY <2>1
<1>3. Nat \subseteq Q
  <2> HIDE DEF Q
  <2>1. QED BY <1>1, <1>2, Induction
<1>4. \A s \in Seq(T) : Len(s) \in Nat
  BY LenProperties
<1>5. QED BY <1>3, <1>4

\* A set of numbers that is not empty has a least one.
LEMMA MinOfNumbers ==
    ASSUME NEW S \in SUBSET Nat, S # {}
    PROVE  Min(S) \in S /\ \A x \in S : Min(S) <= x
BY SmallestOf DEF Min

\* A set of numbers with a bound has a greatest element: what is smallest seen
\* from the bound.
LEMMA MaxOfBounded ==
    ASSUME NEW n \in Nat, NEW S \in SUBSET (0..n), S # {}
    PROVE  Max(S) \in S /\ \A x \in S : x <= Max(S)
<1> DEFINE T == {y \in 0..n : n - y \in S}
<1>1. \A x \in S : x \in 0..n /\ n - x \in T
  <2> TAKE x \in S
  <2>1. x \in 0..n /\ n - x \in 0..n /\ n - (n - x) = x
    OBVIOUS
  <2>2. QED BY <2>1
<1>2. T \in SUBSET Nat /\ T # {}
  <2>1. PICK x \in S : TRUE
    OBVIOUS
  <2>2. n - x \in T
    BY <1>1
  <2>3. T \subseteq Nat
    OBVIOUS
  <2>4. QED BY <2>2, <2>3
<1>3. PICK y \in T : \A z \in T : y <= z
  BY <1>2, SmallestOf
<1>4. \A x \in S : x <= n - y
  <2> TAKE x \in S
  <2>1. x \in 0..n /\ y \in 0..n /\ y <= n - x
    BY <1>1, <1>3
  <2>2. QED BY <2>1
<1>5. n - y \in S
  OBVIOUS
<1>6. QED BY <1>4, <1>5 DEF Max

\* The greatest of the first n numbers is the last.
LEMMA MaxOfFirst ==
    ASSUME NEW n \in Nat \ {0}
    PROVE  Max(1..n) = n /\ (1..n) \ {n} = 1..(n - 1)
<1>1. n \in 1..n /\ \A y \in 1..n : n >= y
  OBVIOUS
<1>2. Max(1..n) = n
  BY <1>1 DEF Max
<1>3. QED BY <1>2

-----------------------------------------------------------------------------
(* Folds. *)

\* A function that takes an element of each subset of D.
Chooses(ch, D) == \A T \in SUBSET D : T # {} => ch[T] \in T

\* What a fold over a set goes through: the value for every subset, of which it
\* takes one element off.
IsFold(it, D, base, ch, step) ==
    it = [T \in SUBSET D |-> IF T = {} THEN base ELSE step[ch[T]][it[T \ {ch[T]}]]]

\* A fold over a finite set computes something.
LEMMA FoldExists ==
    ASSUME NEW D, IsFiniteSet(D), NEW S, NEW base \in S,
           NEW ch, Chooses(ch, D), NEW step, step \in [D -> [S -> S]]
    PROVE  \E it : IsFold(it, D, base, ch, step) /\ it \in [SUBSET D -> S]
<1> DEFINE Sub(n) == {T \in SUBSET D : Cardinality(T) <= n}
           Value(it, T) == IF T = {} THEN base ELSE step[ch[T]][it[T \ {ch[T]}]]
           IsFoldTo(it, n) == it \in [Sub(n) -> S] /\ \A T \in Sub(n) : it[T] = Value(it, T)
           P == {n \in Nat : \E it : IsFoldTo(it, n)}
<1>1. \A T \in SUBSET D : IsFiniteSet(T) /\ Cardinality(T) \in Nat /\ Cardinality(T) <= Cardinality(D)
  BY FS_Subset, FS_CardinalityType
<1>2. \A T \in SUBSET D : T # {} =>
         /\ ch[T] \in D /\ T \ {ch[T]} \in SUBSET D
         /\ Cardinality(T \ {ch[T]}) = Cardinality(T) - 1
  BY <1>1, FS_RemoveElement DEF Chooses
<1>3. 0 \in P
  <2> DEFINE it == [T \in Sub(0) |-> base]
  <2>1. \A T \in Sub(0) : T = {}
    BY <1>1, FS_EmptySet
  <2>2. IsFoldTo(it, 0)
    BY <2>1
  <2>3. QED BY <2>2
<1>4. ASSUME NEW n \in Nat, n \in P PROVE n + 1 \in P
  <2>1. PICK it : IsFoldTo(it, n)
    BY <1>4
  <2> DEFINE next == [T \in Sub(n + 1) |-> Value(it, T)]
  <2>2. \A T \in Sub(n) : T \in Sub(n + 1) /\ next[T] = it[T]
    <3>1. Sub(n) \subseteq Sub(n + 1)
      BY <1>1
    <3>2. \A T \in Sub(n) : it[T] = Value(it, T)
      BY <2>1
    <3> HIDE DEF Sub, Value
    <3>3. QED BY <3>1, <3>2
  <2>3. \A T \in Sub(n + 1) : T # {} => T \ {ch[T]} \in Sub(n)
    BY <1>1, <1>2
  <2>4. \A T \in Sub(n + 1) : Value(it, T) \in S
    BY <1>2, <2>1, <2>3
  <2>5. \A T \in Sub(n + 1) : Value(next, T) = Value(it, T)
    BY <2>2, <2>3
  <2> HIDE DEF Sub, Value
  <2>6. next \in [Sub(n + 1) -> S]
    BY <2>4
  <2>7. IsFoldTo(next, n + 1)
    BY <2>5, <2>6
  <2> HIDE DEF IsFoldTo
  <2>8. QED BY <2>7
<1>5. PICK it : IsFoldTo(it, Cardinality(D))
  <2>1. Cardinality(D) \in P
    <3> HIDE DEF P
    <3>1. Nat \subseteq P
      BY <1>3, <1>4, Induction
    <3>2. QED BY <3>1, FS_CardinalityType
  <2>2. QED BY <2>1
<1>6. Sub(Cardinality(D)) = SUBSET D
  BY <1>1
<1>7. it \in [SUBSET D -> S] /\ \A T \in SUBSET D : it[T] = Value(it, T)
  BY <1>5, <1>6
<1>8. it = [T \in SUBSET D |-> Value(it, T)]
  BY <1>7
<1>9. QED BY <1>7, <1>8 DEF IsFold

\* A function on 0..n defined by recursion.
IsRecursion(f, n, base, step) ==
    f = [i \in 0..n |-> IF i = 0 THEN base ELSE step[i][f[i - 1]]]

\* Such a function exists.
LEMMA RecursionExists ==
    ASSUME NEW n \in Nat, NEW S, NEW base \in S, NEW step, step \in [1..n -> [S -> S]]
    PROVE  \E f : f \in [0..n -> S] /\ IsRecursion(f, n, base, step)
<1> DEFINE D == 1..n
           ch == [T \in SUBSET D |-> Max(T)]
<1>1. ASSUME NEW T \in SUBSET D, T # {} PROVE ch[T] \in T
  <2>1. T \in SUBSET (0..n)
    OBVIOUS
  <2>2. Max(T) \in T
    BY <1>1, <2>1, MaxOfBounded
  <2>3. QED BY <2>2
<1>2. IsFiniteSet(D)
  BY FS_Interval
<1>3. PICK it : IsFold(it, D, base, ch, step) /\ it \in [SUBSET D -> S]
  <2>1. step \in [D -> [S -> S]]
    OBVIOUS
  <2>2. Chooses(ch, D)
    BY <1>1 DEF Chooses
  <2> HIDE DEF ch, D
  <2>3. QED BY <1>2, <2>1, <2>2, FoldExists
<1> DEFINE f == [i \in 0..n |-> it[1..i]]
<1>4. \A i \in 0..n : 1..i \in SUBSET D
  OBVIOUS
<1>5. \A i \in 0..n : f[i] = it[1..i] /\ f[i] \in S
  BY <1>3, <1>4
<1>6. f[0] = base
  BY <1>3, <1>4 DEF IsFold
<1>7. ASSUME NEW i \in 1..n PROVE f[i] = step[i][f[i - 1]]
  <2>1. i \in Nat \ {0} /\ 1..i \in SUBSET D /\ i \in 1..i
    BY <1>4
  <2>2. ch[1..i] = i /\ (1..i) \ {i} = 1..(i - 1)
    BY <2>1, MaxOfFirst
  <2> HIDE DEF ch, D
  <2>3. it[1..i] = step[i][it[1..(i - 1)]]
    BY ZenonT(30), <1>3, <2>1, <2>2 DEF IsFold
  <2>4. f[i] = it[1..i] /\ f[i - 1] = it[1..(i - 1)]
    BY <1>5
  <2> HIDE DEF f
  <2>5. QED BY <2>3, <2>4
<1> HIDE DEF f
<1>8. f \in [0..n -> S] /\ IsRecursion(f, n, base, step)
  <2>1. f = [i \in 0..n |-> f[i]]
    BY DEF f
  <2>2. \A i \in 0..n : f[i] = IF i = 0 THEN base ELSE step[i][f[i - 1]]
    BY <1>6, <1>7
  <2>3. QED BY <1>5, <2>1, <2>2 DEF IsRecursion
<1>9. QED BY <1>8

-----------------------------------------------------------------------------
(* Sums. *)

\* What a sum over the values of a function goes through.
IsSum(it, g, D) ==
    it = [T \in SUBSET D |-> IF T = {} THEN 0
                             ELSE LET x == CHOOSE x \in T : TRUE IN g[x] + it[T \ {x}]]

\* The sum of finitely many numbers is computed that way.
LEMMA SumIsFold ==
    ASSUME NEW D, IsFiniteSet(D), NEW g \in [D -> Nat]
    PROVE  \E it : IsSum(it, g, D) /\ SumFunction(g) = it[D]
<1> DEFINE ch == [T \in SUBSET D |-> CHOOSE x \in T : TRUE]
           step == [x \in D |-> [n \in Nat |-> g[x] + n]]
<1>1. step \in [D -> [Nat -> Nat]] /\ \A x \in D : \A n \in Nat : step[x][n] = g[x] + n
  OBVIOUS
<1>2. \A T \in SUBSET D : T # {} => ch[T] \in T
  OBVIOUS
<1>3. PICK it : IsFold(it, D, 0, ch, step) /\ it \in [SUBSET D -> Nat]
  <2>1. Chooses(ch, D)
    BY <1>2 DEF Chooses
  <2> HIDE DEF ch, step
  <2>2. QED BY <1>1, <2>1, FoldExists
<1>4. ASSUME NEW T \in SUBSET D, T # {}
      PROVE  step[ch[T]][it[T \ {ch[T]}]] = LET x == CHOOSE x \in T : TRUE IN g[x] + it[T \ {x}]
  BY <1>1, <1>2, <1>3, <1>4
<1>5. IsSum(it, g, D)
  <2> HIDE DEF ch, step
  <2>1. QED BY <1>3, <1>4 DEF IsFold, IsSum
<1>6. DOMAIN g = D
  OBVIOUS
<1>7. \E z : IsSum(z, g, DOMAIN g) /\ SumFunction(g) = z[DOMAIN g]
  <2> HIDE DEF ch, step
  <2>1. IsSum(it, g, DOMAIN g)
    BY <1>5, <1>6
  <2>2. QED
    BY <2>1 DEF IsSum, SumFunction, SumFunctionOnSet, FoldFunctionOnSet, MapThenFoldSet
<1>8. QED BY <1>6, <1>7

\* The sum of zeros is zero.
LEMMA SumOfZeros ==
    ASSUME NEW D, IsFiniteSet(D), NEW g \in [D -> Nat], \A x \in D : g[x] = 0
    PROVE  SumFunction(g) = 0
<1>1. PICK it : IsSum(it, g, D) /\ SumFunction(g) = it[D]
  BY SumIsFold
<1> DEFINE P == {n \in Nat : \A T \in SUBSET D : Cardinality(T) = n => it[T] = 0}
<1>2. \A T \in SUBSET D : IsFiniteSet(T) /\ Cardinality(T) \in Nat
  BY FS_Subset, FS_CardinalityType
<1>3. 0 \in P
  <2>1. \A T \in SUBSET D : Cardinality(T) = 0 => T = {}
    BY <1>2, FS_EmptySet
  <2>2. QED BY <1>1, <2>1 DEF IsSum
<1>4. ASSUME NEW n \in Nat, n \in P PROVE n + 1 \in P
  <2>1. ASSUME NEW T \in SUBSET D, Cardinality(T) = n + 1 PROVE it[T] = 0
    <3> DEFINE x == CHOOSE x \in T : TRUE
    <3>1. T # {} /\ x \in T
      BY <2>1, <1>2, FS_EmptySet
    <3>2. it[T] = g[x] + it[T \ {x}]
      BY <1>1, <3>1 DEF IsSum
    <3> HIDE DEF x
    <3>3. Cardinality(T \ {x}) = n
      BY <1>2, <2>1, <3>1, FS_RemoveElement
    <3>4. it[T \ {x}] = 0
      BY <1>4, <3>3
    <3>5. QED BY <3>1, <3>2, <3>4
  <2>2. QED BY <2>1
<1>5. Cardinality(D) \in P
  <2> HIDE DEF P
  <2>1. Nat \subseteq P
    BY <1>3, <1>4, Induction
  <2>2. QED BY <1>2, <2>1
<1>6. QED BY <1>1, <1>5

\* A term that grows by k lets the sum grow by k.
LEMMA SumGrows ==
    ASSUME NEW D, IsFiniteSet(D), NEW g \in [D -> Nat], NEW h \in [D -> Nat],
           NEW c \in D, NEW k \in Nat, h[c] = g[c] + k, \A x \in D \ {c} : h[x] = g[x]
    PROVE  SumFunction(g) \in Nat /\ SumFunction(h) = SumFunction(g) + k
<1>1. PICK it : IsSum(it, g, D) /\ SumFunction(g) = it[D]
  BY SumIsFold
<1>2. PICK ti : IsSum(ti, h, D) /\ SumFunction(h) = ti[D]
  BY SumIsFold
<1> DEFINE Extra(T) == IF c \in T THEN k ELSE 0
           P == {n \in Nat : \A T \in SUBSET D : Cardinality(T) = n =>
                    it[T] \in Nat /\ ti[T] = it[T] + Extra(T)}
<1>3. \A T \in SUBSET D : IsFiniteSet(T) /\ Cardinality(T) \in Nat
  BY FS_Subset, FS_CardinalityType
<1>4. 0 \in P
  <2>1. \A T \in SUBSET D : Cardinality(T) = 0 => T = {}
    BY <1>3, FS_EmptySet
  <2>2. it[{}] = 0 /\ ti[{}] = 0
    BY <1>1, <1>2 DEF IsSum
  <2>3. QED BY <2>1, <2>2
<1>5. ASSUME NEW n \in Nat, n \in P PROVE n + 1 \in P
  <2>1. ASSUME NEW T \in SUBSET D, Cardinality(T) = n + 1
        PROVE  it[T] \in Nat /\ ti[T] = it[T] + Extra(T)
    <3> DEFINE x == CHOOSE x \in T : TRUE
    <3>1. T # {} /\ x \in T
      BY <2>1, <1>3, FS_EmptySet
    <3>2. it[T] = g[x] + it[T \ {x}] /\ ti[T] = h[x] + ti[T \ {x}]
      BY <1>1, <1>2, <3>1 DEF IsSum
    <3> HIDE DEF x
    <3>3. Cardinality(T \ {x}) = n
      BY <1>3, <2>1, <3>1, FS_RemoveElement
    <3>4. it[T \ {x}] \in Nat /\ ti[T \ {x}] = it[T \ {x}] + Extra(T \ {x})
      BY <1>5, <3>3
    <3>5. CASE x = c
      <4>1. Extra(T \ {x}) = 0 /\ Extra(T) = k
        BY <3>1, <3>5
      <4>2. g[c] \in Nat
        OBVIOUS
      <4> HIDE DEF Extra
      <4>3. QED BY <3>2, <3>4, <3>5, <4>1, <4>2
    <3>6. CASE x # c
      <4>1. Extra(T \ {x}) = Extra(T) /\ Extra(T) \in Nat
        BY <3>6
      <4>2. h[x] = g[x] /\ g[x] \in Nat
        BY <3>1, <3>6
      <4> HIDE DEF Extra
      <4>3. QED BY <3>2, <3>4, <4>1, <4>2
    <3>7. QED BY <3>5, <3>6
  <2>2. QED BY <2>1
<1>6. Cardinality(D) \in P
  <2> HIDE DEF P
  <2>1. Nat \subseteq P
    BY <1>4, <1>5, Induction
  <2>2. QED BY <1>3, <2>1
<1>7. QED BY <1>1, <1>2, <1>6

-----------------------------------------------------------------------------
(* Elements picked out of a sequence. *)

\* What Pick goes through, place by place.
IsPicking(f, s, places) ==
    /\ f[0] = <<>>
    /\ \A i \in 1..Len(s) :
          f[i] = IF i \in places THEN Append(f[i - 1], s[i]) ELSE f[i - 1]

\* Pick goes through a sequence from the first place to the last.
LEMMA PickIsPicking ==
    ASSUME NEW T, NEW s \in Seq(T), NEW places
    PROVE  \E f : f \in [0..Len(s) -> Seq(T)] /\ IsPicking(f, s, places) /\ Pick(s, places) = f[Len(s)]
<1> DEFINE n == Len(s)
           S == Seq(T)
           step == [i \in 1..n |-> [q \in S |-> IF i \in places THEN Append(q, s[i]) ELSE q]]
<1>1. n \in Nat /\ <<>> \in S /\ \A i \in 1..n : s[i] \in T
  OBVIOUS
<1>2. \A i \in 1..n : \A q \in S : Append(q, s[i]) \in S
  BY <1>1
<1>3. step \in [1..n -> [S -> S]]
  BY <1>2
<1>4. PICK f : f \in [0..n -> S] /\ IsRecursion(f, n, <<>>, step)
  <2> HIDE DEF n, S, step
  <2>1. QED BY <1>1, <1>3, RecursionExists
<1>5. \A i \in 1..n : step[i][f[i - 1]] = IF i \in places THEN Append(f[i - 1], s[i]) ELSE f[i - 1]
  <2>1. \A i \in 1..n : i - 1 \in 0..n
    BY <1>1
  <2> HIDE DEF n, S
  <2>2. QED BY <1>4, <2>1
<1> HIDE DEF step
<1>6. f = [i \in 0..n |-> IF i = 0 THEN <<>>
                          ELSE IF i \in places THEN Append(f[i - 1], s[i]) ELSE f[i - 1]]
  <2>1. \A i \in 0..n : i # 0 => i \in 1..n
    BY <1>1
  <2> HIDE DEF n, S
  <2>2. QED BY <1>4, <1>5, <2>1 DEF IsRecursion
<1>7. \E z : /\ z = [i \in 0..n |-> IF i = 0 THEN <<>>
                                    ELSE IF i \in places THEN Append(z[i - 1], s[i]) ELSE z[i - 1]]
             /\ Pick(s, places) = z[n]
  BY <1>6 DEF Pick
<1>8. PICK z : /\ z = [i \in 0..n |-> IF i = 0 THEN <<>>
                                      ELSE IF i \in places THEN Append(z[i - 1], s[i]) ELSE z[i - 1]]
               /\ Pick(s, places) = z[n]
  BY <1>7
<1>9. IsPicking(z, s, places)
  <2>1. 0 \in 0..n /\ \A i \in 1..n : i \in 0..n /\ i # 0
    BY <1>1
  <2>2. QED BY <1>8, <2>1 DEF IsPicking
<1>10. ASSUME NEW i \in Nat PROVE i <= n => z[i] \in S
  <2> DEFINE P == {k \in Nat : k <= n => z[k] \in S}
  <2>1. 0 \in P
    BY <1>1, <1>9 DEF IsPicking
  <2>2. ASSUME NEW k \in Nat, k \in P PROVE k + 1 \in P
    <3>1. SUFFICES ASSUME k + 1 <= n PROVE z[k + 1] \in S
      OBVIOUS
    <3>2. z[k] \in S /\ k + 1 \in 1..n /\ (k + 1) - 1 = k
      BY <1>1, <2>2, <3>1
    <3> HIDE DEF P, S, n
    <3>3. z[k + 1] = IF k + 1 \in places THEN Append(z[k], s[k + 1]) ELSE z[k]
      BY <1>9, <3>2 DEF IsPicking, n
    <3>4. QED BY <1>2, <3>2, <3>3
  <2> HIDE DEF P
  <2>3. Nat \subseteq P
    BY <2>1, <2>2, Induction
  <2>4. i \in P
    BY <2>3
  <2>5. QED BY <2>4 DEF P
<1>11. z \in [0..n -> S]
  <2>1. z = [i \in 0..n |-> z[i]]
    BY <1>8
  <2>2. \A i \in 0..n : z[i] \in S
    BY <1>10
  <2> HIDE DEF n, S
  <2>3. QED BY <2>1, <2>2
<1>12. QED BY <1>8, <1>9, <1>11


\* What is picked depends on the places up to the last one picked.
LEMMA PickPrefix ==
    ASSUME NEW T, NEW s \in Seq(T), NEW t \in Seq(T), NEW at, NEW places,
           Len(s) <= Len(t),
           \A i \in 1..Len(s) : s[i] = t[i] /\ (i \in at <=> i \in places),
           \A i \in (Len(s) + 1)..Len(t) : i \notin places
    PROVE  Pick(t, places) = Pick(s, at)
<1>1. PICK f : f \in [0..Len(s) -> Seq(T)] /\ IsPicking(f, s, at) /\ Pick(s, at) = f[Len(s)]
  BY PickIsPicking
<1>2. PICK g : g \in [0..Len(t) -> Seq(T)] /\ IsPicking(g, t, places) /\ Pick(t, places) = g[Len(t)]
  BY SMTT(30), PickIsPicking
<1> DEFINE m == Len(s)
           n == Len(t)
           P == {k \in Nat : k <= n => g[k] = f[IF k <= m THEN k ELSE m]}
<1>3. m \in Nat /\ n \in Nat
  OBVIOUS
<1>4. 0 \in P
  BY <1>1, <1>2, <1>3 DEF IsPicking
<1>5. ASSUME NEW k \in Nat, k \in P PROVE k + 1 \in P
  <2>1. SUFFICES ASSUME k + 1 <= n PROVE g[k + 1] = f[IF k + 1 <= m THEN k + 1 ELSE m]
    OBVIOUS
  <2>2. g[k] = f[IF k <= m THEN k ELSE m] /\ k + 1 \in 1..n /\ (k + 1) - 1 = k
    BY <1>3, <1>5, <2>1
  <2>3. g[k + 1] = IF k + 1 \in places THEN Append(g[k], t[k + 1]) ELSE g[k]
    <3> HIDE DEF P
    <3>1. QED BY <1>2, <2>2 DEF IsPicking
  <2>4. CASE k + 1 <= m
    <3>1. k + 1 \in 1..m /\ k <= m
      BY <1>3, <2>4
    <3>2. f[k + 1] = IF k + 1 \in at THEN Append(f[k], s[k + 1]) ELSE f[k]
      BY <1>1, <2>2, <3>1 DEF IsPicking
    <3>3. s[k + 1] = t[k + 1] /\ (k + 1 \in at <=> k + 1 \in places)
      BY <3>1
    <3>4. QED BY <2>2, <2>3, <2>4, <3>1, <3>2, <3>3
  <2>5. CASE ~(k + 1 <= m)
    <3>1. k + 1 \in (m + 1)..n /\ (IF k <= m THEN k ELSE m) = m
      BY <1>3, <2>1, <2>5
    <3>2. k + 1 \notin places
      BY <3>1
    <3>3. QED BY <2>2, <2>3, <2>5, <3>1, <3>2
  <2>6. QED BY <2>4, <2>5
<1>6. n \in P
  <2> HIDE DEF P
  <2>1. Nat \subseteq P
    BY <1>4, <1>5, Induction
  <2>2. QED BY <1>3, <2>1
<1>7. g[n] = f[m]
  BY <1>3, <1>6
<1>8. QED BY <1>1, <1>2, <1>7

\* The last element is picked last.
LEMMA PickAppend ==
    ASSUME NEW T, NEW s \in Seq(T), NEW x \in T, NEW places
    PROVE  Pick(Append(s, x), places) = IF Len(s) + 1 \in places THEN Append(Pick(s, places), x)
                                        ELSE Pick(s, places)
<1> DEFINE t == Append(s, x)
           n == Len(s)
<1>1. t \in Seq(T) /\ n \in Nat /\ Len(t) = n + 1 /\ t[n + 1] = x /\ \A i \in 1..n : t[i] = s[i]
  OBVIOUS
<1>2. PICK g : g \in [0..Len(t) -> Seq(T)] /\ IsPicking(g, t, places) /\ Pick(t, places) = g[Len(t)]
  BY <1>1, PickIsPicking
<1>3. PICK f : f \in [0..n -> Seq(T)] /\ IsPicking(f, s, places) /\ Pick(s, places) = f[n]
  BY PickIsPicking
<1> HIDE DEF t, n
<1> DEFINE P == {k \in Nat : k <= n => g[k] = f[k]}
<1>4. 0 \in P
  BY <1>2, <1>3 DEF IsPicking
<1>5. ASSUME NEW k \in Nat, k \in P PROVE k + 1 \in P
  <2>1. SUFFICES ASSUME k + 1 <= n PROVE g[k + 1] = f[k + 1]
    OBVIOUS
  <2>2. g[k] = f[k] /\ k + 1 \in 1..n /\ k + 1 \in 1..Len(t) /\ (k + 1) - 1 = k
    BY SMTT(30), <1>1, <1>5, <2>1
  <2> HIDE DEF P
  <2>3. QED BY <1>1, <1>2, <1>3, <2>2 DEF IsPicking, n
<1>6. g[n] = f[n]
  <2> HIDE DEF P
  <2>1. Nat \subseteq P
    BY <1>4, <1>5, Induction
  <2>2. n \in P
    BY <1>1, <2>1
  <2>3. QED BY <1>1, <2>2 DEF P
<1>7. g[n + 1] = IF n + 1 \in places THEN Append(g[n], x) ELSE g[n]
  <2>1. n + 1 \in 1..Len(t) /\ (n + 1) - 1 = n
    BY <1>1
  <2>2. QED BY <1>1, <1>2, <2>1 DEF IsPicking
<1>8. Pick(t, places) = IF n + 1 \in places THEN Append(Pick(s, places), x) ELSE Pick(s, places)
  BY <1>1, <1>2, <1>3, <1>6, <1>7
<1>9. QED BY <1>8 DEF t, n

\* A single place among those that a sequence grows by adds its element.
LEMMA PickOneMore ==
    ASSUME NEW T, NEW s \in Seq(T), NEW t \in Seq(T), NEW at, NEW places,
           Len(s) <= Len(t),
           \A i \in 1..Len(s) : s[i] = t[i] /\ (i \in at <=> i \in places),
           NEW j \in (Len(s) + 1)..Len(t),
           \A i \in (Len(s) + 1)..Len(t) : i \in places <=> i = j
    PROVE  Pick(t, places) = Append(Pick(s, at), t[j])
<1> DEFINE before == SubSeq(t, 1, j - 1)
           upto == SubSeq(t, 1, j)
<1>1. /\ Len(s) \in Nat /\ Len(t) \in Nat /\ j \in 1..Len(t) /\ t[j] \in T
      /\ before \in Seq(T) /\ Len(before) = j - 1 /\ \A i \in 1..(j - 1) : before[i] = t[i]
      /\ upto \in Seq(T) /\ Len(upto) = j /\ \A i \in 1..j : upto[i] = t[i]
  BY SubSeqProperties
<1>2. upto = Append(before, t[j])
  <2> HIDE DEF before, upto
  <2>1. Append(before, t[j]) \in Seq(T) /\ Len(Append(before, t[j])) = Len(upto)
    BY <1>1
  <2>2. \A i \in 1..Len(upto) : upto[i] = Append(before, t[j])[i]
    BY <1>1
  <2>3. QED BY <1>1, <2>1, <2>2, SeqEqual
<1> HIDE DEF before, upto
<1>3. Pick(t, places) = Pick(upto, places)
  BY <1>1, PickPrefix
<1>4. Pick(upto, places) = Append(Pick(before, places), t[j])
  <2>1. Len(before) + 1 \in places
    BY <1>1
  <2>2. QED BY <1>1, <1>2, <2>1, PickAppend
<1>5. Pick(before, places) = Pick(s, at)
  <2>1. \A i \in 1..Len(s) : s[i] = before[i]
    <3>1. \A i \in 1..Len(s) : i \in 1..(j - 1)
      BY <1>1
    <3>2. QED BY <1>1, <3>1
  <2>2. \A i \in (Len(s) + 1)..Len(before) : i \notin places
    BY <1>1
  <2>3. Len(s) <= Len(before)
    BY <1>1
  <2>4. QED BY SMTT(30), <1>1, <2>1, <2>2, <2>3, PickPrefix
<1>6. QED BY <1>3, <1>4, <1>5

\* What is picked are elements of the sequence; nothing is picked of nothing.
LEMMA PickTyped ==
    ASSUME NEW T, NEW s \in Seq(T), NEW places
    PROVE  Pick(s, places) \in Seq(T) /\ Pick(<<>>, places) = <<>>
<1>1. Pick(s, places) \in Seq(T)
  <2>1. PICK f : f \in [0..Len(s) -> Seq(T)] /\ Pick(s, places) = f[Len(s)]
    BY PickIsPicking
  <2>2. Len(s) \in 0..Len(s)
    OBVIOUS
  <2>3. QED BY <2>1, <2>2
<1>2. Pick(<<>>, places) = <<>>
  <2>1. <<>> \in Seq(T) /\ Len(<<>>) = 0
    OBVIOUS
  <2>2. PICK f : IsPicking(f, <<>>, places) /\ Pick(<<>>, places) = f[0]
    BY <2>1, PickIsPicking
  <2>3. QED BY <2>2 DEF IsPicking
<1>3. QED BY <1>1, <1>2

\* What is true of the elements at the places is true of all that is picked.
LEMMA PickFrom ==
    ASSUME NEW T, NEW s \in Seq(T), NEW places, NEW U,
           \A i \in 1..Len(s) : i \in places => s[i] \in U
    PROVE  Pick(s, places) \in Seq(U)
<1>1. PICK f : IsPicking(f, s, places) /\ Pick(s, places) = f[Len(s)]
  BY PickIsPicking
<1> DEFINE n == Len(s)
           P == {k \in Nat : k <= n => f[k] \in Seq(U)}
<1>2. n \in Nat
  OBVIOUS
<1>3. 0 \in P
  <2>1. <<>> \in Seq(U)
    OBVIOUS
  <2>2. QED BY <1>1, <2>1 DEF IsPicking
<1>4. ASSUME NEW k \in Nat, k \in P PROVE k + 1 \in P
  <2>1. SUFFICES ASSUME k + 1 <= n PROVE f[k + 1] \in Seq(U)
    OBVIOUS
  <2>2. f[k] \in Seq(U) /\ k + 1 \in 1..n /\ (k + 1) - 1 = k
    BY <1>2, <1>4, <2>1
  <2> HIDE DEF P
  <2>3. f[k + 1] = IF k + 1 \in places THEN Append(f[k], s[k + 1]) ELSE f[k]
    BY <1>1, <2>2 DEF IsPicking
  <2>4. k + 1 \in places => s[k + 1] \in U
    BY <2>2
  <2>5. QED BY <2>2, <2>3, <2>4, AppendProperties
<1>5. n \in P
  <2> HIDE DEF P
  <2>1. Nat \subseteq P
    BY <1>3, <1>4, Induction
  <2>2. QED BY <1>2, <2>1
<1>6. QED BY <1>1, <1>2, <1>5

\* The elements of a set are chosen one after the other.
LEMMA OnlyAppend ==
    ASSUME NEW T, NEW s \in Seq(T), NEW x \in T, NEW U
    PROVE  Only(Append(s, x), U) = IF x \in U THEN Append(Only(s, U), x) ELSE Only(s, U)
<1> DEFINE t == Append(s, x)
           at == {i \in DOMAIN s : s[i] \in U}
           places == {i \in DOMAIN t : t[i] \in U}
<1>1. /\ t \in Seq(T) /\ Len(s) \in Nat /\ Len(t) = Len(s) + 1 /\ t[Len(s) + 1] = x
      /\ \A i \in 1..Len(s) : t[i] = s[i]
      /\ DOMAIN s = 1..Len(s) /\ DOMAIN t = 1..Len(t)
  OBVIOUS
<1>2. \A i \in 1..Len(s) : i \in at <=> i \in places
  BY <1>1
<1>3. Len(s) + 1 \in places <=> x \in U
  BY <1>1
<1>4. Pick(t, places) = IF x \in U THEN Append(Pick(s, places), x) ELSE Pick(s, places)
  <2> HIDE DEF places
  <2>1. QED BY <1>3, PickAppend
<1>5. Pick(s, places) = Pick(s, at)
  <2> HIDE DEF places, at, t
  <2>1. \A i \in (Len(s) + 1)..Len(s) : i \notin places
    BY <1>1
  <2>2. Len(s) <= Len(s)
    BY <1>1
  <2>3. QED BY <1>2, <2>1, <2>2, PickPrefix
<1>6. QED BY <1>4, <1>5 DEF Only

\* Only elements of the set are chosen; none, if there is none.
LEMMA OnlyTyped ==
    ASSUME NEW T, NEW s \in Seq(T), NEW U
    PROVE  /\ Only(s, U) \in Seq(T) /\ Only(s, U) \in Seq(U)
           /\ Only(<<>>, U) = <<>>
           /\ (\A i \in 1..Len(s) : s[i] \notin U) => Only(s, U) = <<>>
<1> DEFINE at == {i \in DOMAIN s : s[i] \in U}
<1>1. DOMAIN s = 1..Len(s) /\ Len(s) \in Nat
  OBVIOUS
<1>2. Pick(s, at) \in Seq(T)
  BY PickTyped
<1>3. Pick(s, at) \in Seq(U)
  <2>1. \A i \in 1..Len(s) : i \in at => s[i] \in U
    OBVIOUS
  <2> HIDE DEF at
  <2>2. QED BY <2>1, PickFrom
<1>4. Only(<<>>, U) = <<>>
  BY PickTyped DEF Only
<1>5. ASSUME \A i \in 1..Len(s) : s[i] \notin U PROVE Pick(s, at) = <<>>
  <2>1. \A i \in 1..Len(s) : i \in at => s[i] \in {}
    BY <1>1, <1>5
  <2>2. Pick(s, at) \in Seq({})
    <3> HIDE DEF at
    <3>1. QED BY <2>1, PickFrom
  <2>3. \A q \in Seq({}) : q = <<>>
    <3>1. ASSUME NEW q \in Seq({}), q # <<>> PROVE FALSE
      <4>1. 1 \in 1..Len(q)
        BY <3>1, EmptySeq
      <4>2. q[1] \in {}
        BY <4>1, ElementOfSeq
      <4>3. QED BY <4>2
    <3>2. QED BY <3>1
  <2>4. QED BY <2>2, <2>3
<1>6. QED BY <1>2, <1>3, <1>4, <1>5 DEF Only

-----------------------------------------------------------------------------
(* One more element behind two sequences. *)

\* To join a longer sequence is to lengthen the joined one.
LEMMA ConcatAppend ==
    ASSUME NEW T, NEW s \in Seq(T), NEW t \in Seq(T), NEW x \in T
    PROVE  s \o Append(t, x) = Append(s \o t, x)
<1>1. PICK one, both : one = <<x>> /\ both = s \o t
  OBVIOUS
<1>2. one \in Seq(T) /\ both \in Seq(T)
  BY <1>1, ConcatProperties
<1>3. Append(t, x) = t \o one /\ Append(both, x) = both \o one
  BY <1>1, <1>2, AppendIsConcat
<1>4. (s \o t) \o one = s \o (t \o one)
  BY <1>2, ConcatAssociative
<1>5. QED BY <1>1, <1>3, <1>4

\* Joining, as an operator that the provers need not look into.
Joined(a, b) == a \o b

\* Four sequences joined from either end.
LEMMA Regrouped ==
    ASSUME NEW M
    PROVE  \A a \in Seq(M), b \in Seq(M), c \in Seq(M), d \in Seq(M) :
              Joined(a, Joined(Joined(b, c), d)) = Joined(Joined(Joined(a, b), c), d)
<1> DEFINE S == Seq(M)
<1>1. /\ \A a \in S, b \in S : Joined(a, b) \in S
      /\ \A a \in S, b \in S, c \in S : Joined(Joined(a, b), c) = Joined(a, Joined(b, c))
  BY ConcatProperties, ConcatAssociative DEF Joined
<1> HIDE DEF S
<1>2. ASSUME NEW a \in S, NEW b \in S, NEW c \in S, NEW d \in S
      PROVE  Joined(a, Joined(Joined(b, c), d)) = Joined(Joined(Joined(a, b), c), d)
  <2>1. Joined(b, c) \in S
    BY <1>1
  <2>2. Joined(Joined(a, Joined(b, c)), d) = Joined(a, Joined(Joined(b, c), d))
    BY <1>1, <2>1
  <2>3. Joined(Joined(a, b), c) = Joined(a, Joined(b, c))
    BY <1>1
  <2>4. QED BY <2>2, <2>3
<1>3. QED BY <1>2 DEF S

\* What is chosen of two sequences joined.
LEMMA OnlyConcat ==
    ASSUME NEW T, NEW U, NEW s \in Seq(T)
    PROVE  \A t \in Seq(T) : Only(s \o t, U) = Only(s, U) \o Only(t, U)
<1> DEFINE P == {t \in Seq(T) : Only(s \o t, U) = Only(s, U) \o Only(t, U)}
<1>1. <<>> \in P
  <2>1. <<>> \in Seq(T) /\ s \o <<>> = s /\ Only(<<>>, U) = <<>>
    BY ConcatEmptySeq, OnlyTyped
  <2>2. Only(s, U) \o <<>> = Only(s, U)
    <3>1. Only(s, U) \in Seq(T)
      BY OnlyTyped
    <3>2. QED BY <3>1, ConcatEmptySeq
  <2>3. QED BY <2>1, <2>2
<1>2. ASSUME NEW t \in Seq(T), NEW x \in T, t \in P PROVE Append(t, x) \in P
  <2>1. PICK both, more : both = s \o t /\ more = Append(t, x)
    OBVIOUS
  <2>2. both \in Seq(T) /\ more \in Seq(T) /\ s \o more = Append(both, x)
    BY <2>1, ConcatProperties, AppendProperties, ConcatAppend
  <2>3. Only(both, U) = Only(s, U) \o Only(t, U)
    BY <1>2, <2>1
  <2> HIDE DEF P
  <2>4. Only(s \o more, U) = IF x \in U THEN Append(Only(both, U), x) ELSE Only(both, U)
    <3>1. Only(Append(both, x), U) = IF x \in U THEN Append(Only(both, U), x) ELSE Only(both, U)
      BY <2>2, OnlyAppend
    <3>2. QED BY <2>2, <3>1
  <2>5. Only(more, U) = IF x \in U THEN Append(Only(t, U), x) ELSE Only(t, U)
    <3>1. Only(Append(t, x), U) = IF x \in U THEN Append(Only(t, U), x) ELSE Only(t, U)
      BY <1>2, OnlyAppend
    <3>2. QED BY <2>1, <3>1
  <2>6. Only(s, U) \in Seq(T) /\ Only(t, U) \in Seq(T)
    BY OnlyTyped
  <2>7. Only(s, U) \o Append(Only(t, U), x) = Append(Only(s, U) \o Only(t, U), x)
    BY <2>6, ConcatAppend
  <2>8. Only(s \o more, U) = Only(s, U) \o Only(more, U)
    BY <2>3, <2>4, <2>5, <2>7
  <2>9. QED BY <2>1, <2>2, <2>8 DEF P
<1>3. Seq(T) \subseteq P
  <2> HIDE DEF P
  <2>1. QED BY <1>1, <1>2, SequenceInduction
<1>4. QED BY <1>3

-----------------------------------------------------------------------------
(* Sequences joined to one. *)

IsJoining(f, s) == f[1] = s[1] /\ \A i \in 2..Len(s) : f[i] = f[i - 1] \o s[i]

\* FlattenSeq joins sequences one after the other.
LEMMA FlattenIsJoining ==
    ASSUME NEW T, NEW s \in Seq(Seq(T)), s # <<>>
    PROVE  \E f : IsJoining(f, s) /\ FlattenSeq(s) = f[Len(s)]
<1> DEFINE n == Len(s)
           S == Seq(T)
           step == [i \in 1..n |-> [q \in S |-> IF i = 1 THEN s[i] ELSE q \o s[i]]]
<1>1. n \in Nat \ {0} /\ <<>> \in S /\ \A i \in 1..n : s[i] \in S
  OBVIOUS
<1>2. \A i \in 1..n : \A q \in S : q \o s[i] \in S
  BY <1>1
<1>3. step \in [1..n -> [S -> S]]
  BY <1>1, <1>2
<1>4. PICK g : g \in [0..n -> S] /\ IsRecursion(g, n, <<>>, step)
  <2> HIDE DEF n, S, step
  <2>1. QED BY <1>1, <1>3, RecursionExists
<1> DEFINE f == [i \in 1..n |-> g[i]]
<1>5. ASSUME NEW i \in 1..n PROVE f[i] = IF i = 1 THEN s[i] ELSE f[i - 1] \o s[i]
  <2>1. i \in 0..n /\ i # 0 /\ i - 1 \in 0..n /\ (i # 1 => i - 1 \in 1..n)
    BY <1>1
  <2>2. g[i] = step[i][g[i - 1]]
    <3> HIDE DEF n, S, step
    <3>1. QED BY <1>4, <2>1 DEF IsRecursion
  <2>3. g[i - 1] \in S
    BY <1>4, <2>1
  <2>4. step[i][g[i - 1]] = IF i = 1 THEN s[i] ELSE g[i - 1] \o s[i]
    BY <2>3
  <2>5. QED BY <2>1, <2>2, <2>4
<1> HIDE DEF step
<1>6. f = [i \in 1..n |-> IF i = 1 THEN s[i] ELSE f[i - 1] \o s[i]]
  <2>1. f = [i \in 1..n |-> f[i]]
    OBVIOUS
  <2> HIDE DEF f, n
  <2>2. QED BY <1>5, <2>1
<1> HIDE DEF f
<1>7. PICK z : /\ z = [i \in 1..Len(s) |-> IF i = 1 THEN s[i] ELSE z[i - 1] \o s[i]]
               /\ FlattenSeq(s) = z[Len(s)]
  BY <1>1, <1>6 DEF FlattenSeq
<1>8. IsJoining(z, s)
  <2>1. 1 \in 1..Len(s) /\ \A i \in 2..Len(s) : i \in 1..Len(s) /\ i # 1
    BY <1>1
  <2>2. QED BY <1>7, <2>1 DEF IsJoining
<1>9. QED BY <1>7, <1>8

\* What is joined is a sequence of the same elements.
LEMMA FlattenTyped ==
    ASSUME NEW T, NEW s \in Seq(Seq(T))
    PROVE  FlattenSeq(s) \in Seq(T) /\ (s = <<>> => FlattenSeq(s) = <<>>)
<1>1. CASE s = <<>>
  BY <1>1 DEF FlattenSeq
<1>2. CASE s # <<>>
  <2>1. PICK f : IsJoining(f, s) /\ FlattenSeq(s) = f[Len(s)]
    BY <1>2, FlattenIsJoining
  <2> DEFINE n == Len(s)
             P == {k \in Nat : 1 <= k /\ k <= n => f[k] \in Seq(T)}
  <2>2. n \in Nat \ {0} /\ \A i \in 1..n : s[i] \in Seq(T)
    BY <1>2
  <2>3. 0 \in P
    OBVIOUS
  <2>4. ASSUME NEW k \in Nat, k \in P PROVE k + 1 \in P
    <3>1. SUFFICES ASSUME k + 1 <= n PROVE f[k + 1] \in Seq(T)
      OBVIOUS
    <3>2. k + 1 \in 1..n /\ s[k + 1] \in Seq(T)
      BY <2>2, <3>1
    <3>3. CASE k = 0
      BY <2>1, <3>2, <3>3 DEF IsJoining
    <3>4. CASE k # 0
      <4>1. k + 1 \in 2..n /\ (k + 1) - 1 = k /\ f[k] \in Seq(T)
        BY <2>2, <2>4, <3>1, <3>4
      <4>2. f[k + 1] = f[k] \o s[k + 1]
        BY <2>1, <4>1 DEF IsJoining
      <4>3. QED BY <3>2, <4>1, <4>2, ConcatProperties
    <3>5. QED BY <3>3, <3>4
  <2>5. n \in P
    <3> HIDE DEF P
    <3>1. Nat \subseteq P
      BY <2>3, <2>4, Induction
    <3>2. QED BY <2>2, <3>1
  <2>6. QED BY <1>2, <2>1, <2>2, <2>5
<1>3. QED BY <1>1, <1>2

\* One more sequence is joined at the end.
LEMMA FlattenAppend ==
    ASSUME NEW T, NEW s \in Seq(Seq(T)), NEW x \in Seq(T)
    PROVE  FlattenSeq(Append(s, x)) = FlattenSeq(s) \o x
<1> DEFINE t == Append(s, x)
           n == Len(s)
<1>1. /\ t \in Seq(Seq(T)) /\ t # <<>> /\ n \in Nat /\ Len(t) = n + 1 /\ t[n + 1] = x
      /\ \A i \in 1..n : t[i] = s[i]
  <2> DEFINE S == Seq(T)
  <2>1. s \in Seq(S) /\ x \in S
    OBVIOUS
  <2> HIDE DEF S
  <2>2. /\ t \in Seq(S) /\ t # <<>> /\ n \in Nat /\ Len(t) = n + 1 /\ t[n + 1] = x
        /\ \A i \in 1..n : t[i] = s[i]
    BY <2>1, AppendProperties
  <2>3. QED BY <2>2 DEF S
<1>2. PICK g : IsJoining(g, t) /\ FlattenSeq(t) = g[Len(t)]
  BY <1>1, FlattenIsJoining
<1>3. CASE s = <<>>
  <2>1. FlattenSeq(s) = <<>>
    BY <1>3, FlattenTyped
  <2>2. n = 0
    BY <1>3
  <2> HIDE DEF t, n
  <2>3. FlattenSeq(t) = x
    BY <1>1, <1>2, <2>2 DEF IsJoining
  <2>4. QED BY <2>1, <2>3 DEF t
<1>4. CASE s # <<>>
  <2>1. PICK f : IsJoining(f, s) /\ FlattenSeq(s) = f[n]
    BY <1>4, FlattenIsJoining
  <2>2. n \in Nat \ {0}
    BY <1>4
  <2> HIDE DEF t
  <2> DEFINE P == {k \in Nat : 1 <= k /\ k <= n => g[k] = f[k]}
  <2>3. 0 \in P
    OBVIOUS
  <2>4. ASSUME NEW k \in Nat, k \in P PROVE k + 1 \in P
    <3>1. SUFFICES ASSUME k + 1 <= n PROVE g[k + 1] = f[k + 1]
      OBVIOUS
    <3>2. k + 1 \in 1..n /\ t[k + 1] = s[k + 1]
      BY <1>1, <3>1
    <3>3. CASE k = 0
      BY <1>2, <2>1, <3>2, <3>3 DEF IsJoining
    <3>4. CASE k # 0
      <4>1. k + 1 \in 2..n /\ k + 1 \in 2..Len(t) /\ (k + 1) - 1 = k /\ g[k] = f[k]
        BY <1>1, <2>4, <3>1, <3>4
      <4> HIDE DEF P
      <4>2. QED BY <1>2, <2>1, <3>2, <4>1 DEF IsJoining
    <3>5. QED BY <3>3, <3>4
  <2>5. g[n] = f[n]
    <3> HIDE DEF P
    <3>1. Nat \subseteq P
      BY <2>3, <2>4, Induction
    <3>2. n \in P
      BY <2>2, <3>1
    <3>3. QED BY <2>2, <3>2 DEF P
  <2>6. g[n + 1] = g[n] \o x
    <3>1. n + 1 \in 2..Len(t) /\ (n + 1) - 1 = n
      BY <1>1, <2>2
    <3>2. QED BY <1>1, <1>2, <3>1 DEF IsJoining
  <2>7. QED BY <1>1, <1>2, <2>1, <2>5, <2>6 DEF t
<1>5. QED BY <1>3, <1>4

\* A sequence of elements of the set is chosen as it is.
LEMMA OnlyAll ==
    ASSUME NEW U
    PROVE  \A s \in Seq(U) : Only(s, U) = s
<1> DEFINE P == {s \in Seq(U) : Only(s, U) = s}
<1>1. <<>> \in P
  BY OnlyTyped, EmptySeq
<1>2. ASSUME NEW s \in Seq(U), NEW x \in U, s \in P PROVE Append(s, x) \in P
  <2>1. Append(s, x) \in Seq(U) /\ Only(s, U) = s
    BY <1>2, AppendProperties
  <2>2. Only(Append(s, x), U) = Append(Only(s, U), x)
    BY OnlyAppend
  <2>3. QED BY <2>1, <2>2
<1>3. Seq(U) \subseteq P
  <2> HIDE DEF P
  <2>1. QED BY <1>1, <1>2, SequenceInduction
<1>4. QED BY <1>3

\* Chosen is what the sequence has of the set.
LEMMA OnlyRange ==
    ASSUME NEW T, NEW U
    PROVE  \A s \in Seq(T) : Range(Only(s, U)) = Range(s) \cap U
<1> DEFINE P == {s \in Seq(T) : Range(Only(s, U)) = Range(s) \cap U}
<1>1. <<>> \in P
  <2>1. Only(<<>>, U) = <<>> /\ <<>> \in Seq(T)
    BY OnlyTyped, EmptySeq
  <2>2. Range(<<>>) = {}
    BY DEF Range
  <2>3. QED BY <2>1, <2>2
<1>2. ASSUME NEW s \in Seq(T), NEW x \in T PROVE Range(Append(s, x)) = Range(s) \cup {x}
  <2>1. PICK n \in Nat : n = Len(s) /\ DOMAIN s = 1..n
    BY LenProperties
  <2>2. PICK more : more = Append(s, x)
    OBVIOUS
  <2>3. /\ DOMAIN more = 1..(n + 1) /\ more[n + 1] = x
        /\ \A i \in 1..n : more[i] = s[i]
    <3>1. /\ Append(s, x) \in Seq(T) /\ Len(Append(s, x)) = Len(s) + 1
          /\ Append(s, x)[Len(s) + 1] = x /\ \A i \in 1..Len(s) : Append(s, x)[i] = s[i]
      BY AppendProperties
    <3>2. QED BY <2>1, <2>2, <3>1, LenProperties
  <2>4. 1..(n + 1) = (1..n) \cup {n + 1}
    OBVIOUS
  <2>5. {more[i] : i \in DOMAIN more} = {s[i] : i \in DOMAIN s} \cup {x}
    BY <2>1, <2>3, <2>4
  <2>6. QED BY <2>2, <2>5 DEF Range
<1>3. ASSUME NEW s \in Seq(T), NEW x \in T, s \in P PROVE Append(s, x) \in P
  <2>1. Range(Only(s, U)) = Range(s) \cap U
    BY <1>3
  <2>2. Only(Append(s, x), U) = IF x \in U THEN Append(Only(s, U), x) ELSE Only(s, U)
    BY OnlyAppend
  <2>3. Range(Append(s, x)) = Range(s) \cup {x}
    BY <1>2
  <2>4. Range(Append(Only(s, U), x)) = Range(Only(s, U)) \cup {x}
    <3>1. Only(s, U) \in Seq(T)
      BY OnlyTyped
    <3>2. QED BY <1>2, <3>1
  <2>5. Range(Only(Append(s, x), U)) = Range(Append(s, x)) \cap U
    <3>1. CASE x \in U
      BY <2>1, <2>2, <2>3, <2>4, <3>1
    <3>2. CASE x \notin U
      BY <2>1, <2>2, <2>3, <3>2
    <3>3. QED BY <3>1, <3>2
  <2>6. QED BY <2>5, AppendProperties
<1>4. Seq(T) \subseteq P
  <2> HIDE DEF P
  <2>1. QED BY <1>1, <1>3, SequenceInduction
<1>5. QED BY <1>4

\* Two sequences of sequences are joined one after the other.
LEMMA FlattenTwo ==
    ASSUME NEW T, NEW s \in Seq(Seq(T))
    PROVE  \A t \in Seq(Seq(T)) : FlattenSeq(s \o t) = FlattenSeq(s) \o FlattenSeq(t)
<1> DEFINE S == Seq(T)
           P == {t \in Seq(S) : FlattenSeq(s \o t) = FlattenSeq(s) \o FlattenSeq(t)}
<1>1. FlattenSeq(s) \in Seq(T) /\ FlattenSeq(<<>>) = <<>>
  BY FlattenTyped, EmptySeq
<1> HIDE DEF S
<1>2. s \in Seq(S)
  BY DEF S
<1>3. <<>> \in P
  <2>1. s \o <<>> = s /\ <<>> \in Seq(S)
    BY <1>2, ConcatEmptySeq, EmptySeq
  <2>2. FlattenSeq(s) \o <<>> = FlattenSeq(s)
    BY <1>1, ConcatEmptySeq
  <2>3. QED BY <1>1, <2>1, <2>2
<1>4. ASSUME NEW t \in Seq(S), NEW x \in S, t \in P PROVE Append(t, x) \in P
  <2>1. PICK both : both = s \o t
    OBVIOUS
  <2>2. both \in Seq(S) /\ s \o Append(t, x) = Append(both, x) /\ Append(t, x) \in Seq(S)
    BY <1>2, <2>1, ConcatProperties, AppendProperties, ConcatAppend
  <2>3. PICK fs \in Seq(T), ft \in Seq(T) : fs = FlattenSeq(s) /\ ft = FlattenSeq(t)
    BY FlattenTyped DEF S
  <2>4. FlattenSeq(both) = fs \o ft
    BY <1>4, <2>1, <2>3
  <2>5. FlattenSeq(Append(both, x)) = FlattenSeq(both) \o x
    BY <2>2, FlattenAppend DEF S
  <2>6. FlattenSeq(Append(t, x)) = ft \o x
    BY <2>3, FlattenAppend DEF S
  <2>7. (fs \o ft) \o x = fs \o (ft \o x)
    BY ConcatAssociative DEF S
  <2> HIDE DEF P
  <2>8. FlattenSeq(s \o Append(t, x)) = FlattenSeq(s) \o FlattenSeq(Append(t, x))
    BY <2>2, <2>3, <2>4, <2>5, <2>6, <2>7
  <2>9. QED BY <2>2, <2>8 DEF P
<1>5. Seq(S) \subseteq P
  <2> HIDE DEF P
  <2>1. QED BY <1>3, <1>4, SequenceInduction
<1>6. QED BY <1>5 DEF S

\* Sequences of one element are joined to the sequence of these.
LEMMA FlattenOnes ==
    ASSUME NEW T
    PROVE  \A s \in Seq(T) : FlattenSeq([i \in 1..Len(s) |-> <<s[i]>>]) = s
<1> DEFINE Ones(s) == [i \in 1..Len(s) |-> <<s[i]>>]
           P == {s \in Seq(T) : FlattenSeq(Ones(s)) = s}
<1>1. ASSUME NEW x \in T PROVE <<x>> \in Seq(T)
  OBVIOUS
<1>2. ASSUME NEW s \in Seq(T) PROVE Ones(s) \in Seq(Seq(T)) /\ Len(Ones(s)) = Len(s)
  <2> DEFINE S == Seq(T)
  <2>1. Len(s) \in Nat /\ \A i \in 1..Len(s) : <<s[i]>> \in S
    BY <1>1, LenProperties, ElementOfSeq
  <2> HIDE DEF S
  <2>2. Ones(s) \in Seq(S) /\ Len(Ones(s)) = Len(s)
    BY <2>1
  <2>3. QED BY <2>2 DEF S
<1>3. <<>> \in P
  <2>1. Len(<<>>) = 0
    OBVIOUS
  <2>2. Len(Ones(<<>>)) = 0 /\ Ones(<<>>) \in Seq(Seq(T))
    BY <1>2, <2>1, EmptySeq
  <2>3. Ones(<<>>) = <<>>
    <3>1. PICK ones \in Seq(Seq(T)) : ones = Ones(<<>>) /\ Len(ones) = 0
      BY <2>2
    <3>2. ones = <<>>
      BY <3>1, EmptySeq
    <3>3. QED BY <3>1, <3>2
  <2> HIDE DEF Ones
  <2>4. FlattenSeq(Ones(<<>>)) = <<>>
    BY <2>2, <2>3, FlattenTyped
  <2>5. QED BY <2>4, EmptySeq
<1>4. ASSUME NEW s \in Seq(T), NEW x \in T, s \in P PROVE Append(s, x) \in P
  <2>1. PICK more \in Seq(T) : more = Append(s, x)
    BY AppendProperties
  <2>2. PICK n \in Nat : n = Len(s)
    BY LenProperties
  <2>3. Len(more) = n + 1 /\ more[n + 1] = x /\ \A i \in 1..n : more[i] = s[i]
    BY <2>1, <2>2, AppendProperties
  <2> DEFINE S == Seq(T)
  <2>4. PICK one \in S : one = <<x>>
    BY <1>1
  <2> HIDE DEF S
  <2>5. PICK ones \in Seq(S), all \in Seq(S) :
            ones = Ones(s) /\ all = Ones(more) /\ Len(ones) = n /\ Len(all) = n + 1
    BY <1>2, <2>2, <2>3 DEF S
  <2>6. all = Append(ones, one)
    <3>1. PICK grown \in Seq(S) : grown = Append(ones, one)
      BY AppendProperties
    <3>2. Len(grown) = n + 1 /\ grown[n + 1] = one /\ \A i \in 1..n : grown[i] = ones[i]
      BY <2>5, <3>1, AppendProperties
    <3>3. ASSUME NEW i \in 1..Len(all) PROVE all[i] = grown[i]
      <4>1. i \in 1..(n + 1) /\ all[i] = <<more[i]>>
        BY <2>3, <2>5
      <4>2. CASE i = n + 1
        BY <2>3, <2>4, <3>2, <4>1, <4>2
      <4>3. CASE i # n + 1
        <5>1. i \in 1..n
          BY <4>1, <4>3
        <5>2. ones[i] = <<s[i]>>
          BY <2>2, <2>5, <5>1
        <5>3. QED BY <2>3, <3>2, <4>1, <5>1, <5>2
      <4>4. QED BY <4>2, <4>3
    <3>4. all = grown
      BY <2>5, <3>2, <3>3, SeqEqual
    <3>5. QED BY <3>1, <3>4
  <2>7. FlattenSeq(Append(ones, one)) = FlattenSeq(ones) \o one
    BY FlattenAppend DEF S
  <2>8. FlattenSeq(ones) = s
    BY <1>4, <2>5
  <2>9. s \o <<x>> = Append(s, x)
    BY AppendIsConcat
  <2>10. FlattenSeq(Ones(more)) = more
    <3> HIDE DEF Ones, P
    <3>1. QED BY <2>1, <2>4, <2>5, <2>6, <2>7, <2>8, <2>9
  <2>11. QED BY <2>1, <2>10
<1>5. Seq(T) \subseteq P
  <2> HIDE DEF P
  <2>1. QED BY <1>3, <1>4, SequenceInduction
<1>6. QED BY <1>5
=============================================================================
