----------------------------- MODULE SumLemmas ------------------------------
(***************************************************************************)
(* Lemmas the other proof modules share: SumFunctionOnSet of the community *)
(* modules over any finite set, and the remainder by a divisor that is not *)
(* a literal, which the unsigned arithmetic of the code is modelled with.  *)
(***************************************************************************)
EXTENDS Integers, Sequences, SequencesExt, FiniteSetTheorems, TLAPS

(***************************************************************************)
(* Sums over finite sets.  The induction is the minimal counterexample of  *)
(* a well-founded order, which is first-order.                             *)
(***************************************************************************)

\* A set of subsets of a finite set S that is not empty has a smallest one.
LEMMA SmallestSubset ==
  ASSUME NEW S, IsFiniteSet(S), NEW Bad, Bad \subseteq SUBSET S, Bad # {}
  PROVE  \E T \in Bad : \A U \in SUBSET T : U # T => U \notin Bad
<1>1. SUBSET S \subseteq FiniteSubsetsOf(S)
  BY FS_Subset DEF FiniteSubsetsOf
<1>2. \E T \in Bad : \A U \in Bad : ~(<<U, T>> \in StrictSubsetOrdering(S))
  BY <1>1, FS_StrictSubsetOrderingWellFounded, WFMin
<1>3. PICK T \in Bad : \A U \in Bad : ~(<<U, T>> \in StrictSubsetOrdering(S))
  BY <1>2
<1>4. ASSUME NEW U \in SUBSET T, U # T, U \in Bad PROVE FALSE
  BY <1>3, <1>4 DEF StrictSubsetOrdering
<1>5. QED
  BY <1>3, <1>4

SomeOf(T) == CHOOSE x \in T : TRUE

\* What the fold computes on the way: g[T] is the sum over T.
IsSum(g, f, S) ==
  g = [T \in SUBSET S |-> IF T = {} THEN 0 ELSE f[SomeOf(T)] + g[T \ {SomeOf(T)}]]

LEMMA SomeIn == \A T : T # {} => SomeOf(T) \in T
BY DEF SomeOf

LEMMA SumUnique ==
  ASSUME NEW f, NEW S, IsFiniteSet(S), NEW g, NEW h, IsSum(g, f, S), NEW R \in SUBSET S,
         IsSum(h, f, R)
  PROVE  \A T \in SUBSET R : g[T] = h[T]
<1> DEFINE Bad == {T \in SUBSET R : g[T] # h[T]}
<1>1. SUFFICES ASSUME Bad # {} PROVE FALSE
  OBVIOUS
<1>2. PICK T \in Bad : \A U \in SUBSET T : U # T => U \notin Bad
  <2>1. Bad \subseteq SUBSET S
    OBVIOUS
  <2> HIDE DEF Bad
  <2>2. QED
    BY <1>1, <2>1, SmallestSubset
<1>3. g[T] = IF T = {} THEN 0 ELSE f[SomeOf(T)] + g[T \ {SomeOf(T)}]
  BY DEF IsSum
<1>4. h[T] = IF T = {} THEN 0 ELSE f[SomeOf(T)] + h[T \ {SomeOf(T)}]
  BY DEF IsSum
<1>5. T # {}
  BY <1>2, <1>3, <1>4
<1>6. T \ {SomeOf(T)} \in SUBSET T /\ T \ {SomeOf(T)} # T
  BY <1>5, SomeIn
<1>7. g[T \ {SomeOf(T)}] = h[T \ {SomeOf(T)}]
  BY <1>2, <1>6
<1>8. QED
  BY <1>2, <1>3, <1>4, <1>7

LEMMA SumExists ==
  ASSUME NEW f, NEW S, IsFiniteSet(S)
  PROVE  \E g : IsSum(g, f, S)
<1> DEFINE Bad == {T \in SUBSET S : ~\E g : IsSum(g, f, T)}
<1>1. SUFFICES ASSUME Bad # {} PROVE FALSE
  OBVIOUS
<1>2. PICK T \in Bad : \A U \in SUBSET T : U # T => U \notin Bad
  <2>1. Bad \subseteq SUBSET S
    OBVIOUS
  <2> HIDE DEF Bad
  <2>2. QED
    BY <1>1, <2>1, SmallestSubset
<1> DEFINE G(U) == CHOOSE g : IsSum(g, f, U)
<1>3. \A U \in SUBSET T : U # T => IsSum(G(U), f, U)
  <2> SUFFICES ASSUME NEW U \in SUBSET T, U # T PROVE IsSum(G(U), f, U)
    OBVIOUS
  <2>1. \E g : IsSum(g, f, U)
    BY <1>2
  <2>2. QED
    BY <2>1
<1>4. \A U \in SUBSET T : U # T => \A W \in SUBSET U : G(W)[W] = G(U)[W]
  <2> SUFFICES ASSUME NEW U \in SUBSET T, U # T, NEW W \in SUBSET U PROVE G(W)[W] = G(U)[W]
    OBVIOUS
  <2>1. IsSum(G(U), f, U) /\ IsSum(G(W), f, W)
    BY <1>3
  <2>2. IsFiniteSet(U)
    BY FS_Subset
  <2> HIDE DEF G
  <2>3. \A V \in SUBSET W : G(U)[V] = G(W)[V]
    BY <2>1, <2>2, SumUnique
  <2>4. QED
    BY <2>3
<1> DEFINE h == [U \in SUBSET T |-> IF U = {} THEN 0
                   ELSE f[SomeOf(U)] + G(U \ {SomeOf(U)})[U \ {SomeOf(U)}]]
<1>5. \A U \in SUBSET T : U # T => h[U] = G(U)[U]
  <2> SUFFICES ASSUME NEW U \in SUBSET T, U # T PROVE h[U] = G(U)[U]
    OBVIOUS
  <2>1. G(U)[U] = IF U = {} THEN 0 ELSE f[SomeOf(U)] + G(U)[U \ {SomeOf(U)}]
    <3>1. IsSum(G(U), f, U)
      BY <1>3
    <3> HIDE DEF G
    <3>2. QED
      BY <3>1 DEF IsSum
  <2>2. G(U \ {SomeOf(U)})[U \ {SomeOf(U)}] = G(U)[U \ {SomeOf(U)}]
    BY <1>4
  <2> HIDE DEF G
  <2>3. QED
    BY <2>1, <2>2
<1>6. IsSum(h, f, T)
  <2>1. \A U \in SUBSET T : U # {} => h[U \ {SomeOf(U)}] = G(U \ {SomeOf(U)})[U \ {SomeOf(U)}]
    <3> SUFFICES ASSUME NEW U \in SUBSET T, U # {}
                 PROVE  h[U \ {SomeOf(U)}] = G(U \ {SomeOf(U)})[U \ {SomeOf(U)}]
      OBVIOUS
    <3>1. U \ {SomeOf(U)} \in SUBSET T /\ U \ {SomeOf(U)} # T
      BY SomeIn
    <3> HIDE DEF h, G
    <3>2. QED
      BY <3>1, <1>5
  <2>2. \A U \in SUBSET T : h[U] = IF U = {} THEN 0 ELSE f[SomeOf(U)] + h[U \ {SomeOf(U)}]
    <3> HIDE DEF G
    <3>1. QED
      BY <2>1
  <2>3. h = [U \in SUBSET T |-> h[U]]
    OBVIOUS
  <2> HIDE DEF h
  <2>4. QED
    BY <2>2, <2>3 DEF IsSum
<1>7. QED
  BY <1>2, <1>6

LEMMA SumIs ==
  ASSUME NEW f, NEW S, IsFiniteSet(S), NEW g, IsSum(g, f, S)
  PROVE  \A T \in SUBSET S : SumFunctionOnSet(f, T) = g[T]
<1> SUFFICES ASSUME NEW T \in SUBSET S PROVE SumFunctionOnSet(f, T) = g[T]
  OBVIOUS
<1> DEFINE h == CHOOSE h : IsSum(h, f, T)
<1>1. SumFunctionOnSet(f, T) = h[T]
  BY DEF SumFunctionOnSet, FoldFunctionOnSet, MapThenFoldSet, IsSum, SomeOf
<1>2. IsSum(h, f, T)
  BY FS_Subset, SumExists
<1> HIDE DEF h
<1>3. QED
  BY <1>1, <1>2, SumUnique

\* The sum over a set that is not empty, in the order of the fold.
LEMMA SumStep ==
  ASSUME NEW f, NEW S, IsFiniteSet(S)
  PROVE  SumFunctionOnSet(f, S) =
           IF S = {} THEN 0 ELSE f[SomeOf(S)] + SumFunctionOnSet(f, S \ {SomeOf(S)})
<1>1. PICK g : IsSum(g, f, S)
  BY SumExists
<1>2. g[S] = IF S = {} THEN 0 ELSE f[SomeOf(S)] + g[S \ {SomeOf(S)}]
  BY <1>1 DEF IsSum
<1>3. QED
  BY <1>1, <1>2, SumIs

LEMMA EmptySum == ASSUME NEW f PROVE SumFunctionOnSet(f, {}) = 0
BY SumStep, FS_EmptySet

LEMMA SumInt ==
  ASSUME NEW S, IsFiniteSet(S), NEW f, \A x \in S : f[x] \in Int
  PROVE  SumFunctionOnSet(f, S) \in Int
<1> DEFINE Bad == {T \in SUBSET S : SumFunctionOnSet(f, T) \notin Int}
<1>1. SUFFICES ASSUME Bad # {} PROVE FALSE
  OBVIOUS
<1>2. PICK T \in Bad : \A U \in SUBSET T : U # T => U \notin Bad
  <2>1. Bad \subseteq SUBSET S
    OBVIOUS
  <2> HIDE DEF Bad
  <2>2. QED
    BY <1>1, <2>1, SmallestSubset
<1>3. SumFunctionOnSet(f, T) = IF T = {} THEN 0 ELSE f[SomeOf(T)] + SumFunctionOnSet(f, T \ {SomeOf(T)})
  BY FS_Subset, SumStep
<1>4. T # {} => SomeOf(T) \in T /\ SumFunctionOnSet(f, T \ {SomeOf(T)}) \in Int
  BY <1>2, SomeIn
<1>5. QED
  BY <1>2, <1>3, <1>4

\* Any element may be taken out first.
LEMMA SumTakeOut ==
  ASSUME NEW S, IsFiniteSet(S), NEW f, \A x \in S : f[x] \in Int
  PROVE  \A T \in SUBSET S : \A x \in T :
           SumFunctionOnSet(f, T) = f[x] + SumFunctionOnSet(f, T \ {x})
<1> DEFINE Sum(T) == SumFunctionOnSet(f, T)
<1> DEFINE Bad == {T \in SUBSET S : \E x \in T : Sum(T) # f[x] + Sum(T \ {x})}
<1>1. SUFFICES ASSUME Bad # {} PROVE FALSE
  OBVIOUS
<1>2. PICK T \in Bad : \A U \in SUBSET T : U # T => U \notin Bad
  <2>1. Bad \subseteq SUBSET S
    OBVIOUS
  <2> HIDE DEF Bad
  <2>2. QED
    BY <1>1, <2>1, SmallestSubset
<1>a. \A U \in SUBSET S : Sum(U) \in Int
  BY FS_Subset, SumInt
<1>b. \A U \in SUBSET S : U # {} => SomeOf(U) \in U /\ Sum(U) = f[SomeOf(U)] + Sum(U \ {SomeOf(U)})
  BY FS_Subset, SumStep, SomeIn
<1> HIDE DEF Sum
<1>3. PICK x \in T : Sum(T) # f[x] + Sum(T \ {x})
  BY <1>2
<1>4. DEFINE c == SomeOf(T)
<1>5. c \in T /\ Sum(T) = f[c] + Sum(T \ {c}) /\ c # x
  BY <1>b, <1>3
<1> HIDE DEF c
<1>6. Sum(T \ {c}) = f[x] + Sum((T \ {c}) \ {x})
  BY <1>2, <1>5
<1>7. Sum(T \ {x}) = f[c] + Sum((T \ {x}) \ {c})
  BY <1>2, <1>5
<1>8. (T \ {c}) \ {x} = (T \ {x}) \ {c}
  OBVIOUS
<1> DEFINE rest == Sum((T \ {c}) \ {x})
<1>9. f[x] \in Int /\ f[c] \in Int /\ rest \in Int
  BY <1>a, <1>5
<1>10. Sum(T) = f[c] + (f[x] + rest) /\ Sum(T \ {x}) = f[c] + rest
  BY <1>5, <1>6, <1>7, <1>8
<1> HIDE DEF rest
<1>11. QED
  BY <1>3, <1>9, <1>10

\* A sum grows with its terms.
LEMMA SumMonotone ==
  ASSUME NEW S, IsFiniteSet(S), NEW f, NEW g,
         \A x \in S : f[x] \in Int /\ g[x] \in Int /\ f[x] <= g[x]
  PROVE  SumFunctionOnSet(f, S) <= SumFunctionOnSet(g, S)
<1> DEFINE Bad == {T \in SUBSET S : ~(SumFunctionOnSet(f, T) <= SumFunctionOnSet(g, T))}
<1>1. SUFFICES ASSUME Bad # {} PROVE FALSE
  OBVIOUS
<1>2. PICK T \in Bad : \A U \in SUBSET T : U # T => U \notin Bad
  <2>1. Bad \subseteq SUBSET S
    OBVIOUS
  <2> HIDE DEF Bad
  <2>2. QED
    BY <1>1, <2>1, SmallestSubset
<1>3. /\ SumFunctionOnSet(f, T) = IF T = {} THEN 0 ELSE f[SomeOf(T)] + SumFunctionOnSet(f, T \ {SomeOf(T)})
      /\ SumFunctionOnSet(g, T) = IF T = {} THEN 0 ELSE g[SomeOf(T)] + SumFunctionOnSet(g, T \ {SomeOf(T)})
  BY FS_Subset, SumStep
<1>4. T # {} => /\ SomeOf(T) \in T
                /\ SumFunctionOnSet(f, T \ {SomeOf(T)}) <= SumFunctionOnSet(g, T \ {SomeOf(T)})
  BY <1>2, SomeIn
<1>5. T # {} => /\ SumFunctionOnSet(f, T \ {SomeOf(T)}) \in Int
                /\ SumFunctionOnSet(g, T \ {SomeOf(T)}) \in Int
  <2>1. IsFiniteSet(T \ {SomeOf(T)})
    BY FS_Subset
  <2>2. QED
    BY <2>1, SumInt
<1>6. QED
  BY <1>2, <1>3, <1>4, <1>5

LEMMA SumSame ==
  ASSUME NEW S, IsFiniteSet(S), NEW f, NEW g, \A x \in S : f[x] \in Int /\ g[x] = f[x]
  PROVE  SumFunctionOnSet(f, S) = SumFunctionOnSet(g, S)
<1>1. SumFunctionOnSet(f, S) \in Int /\ SumFunctionOnSet(g, S) \in Int
  BY SumInt
<1>2. SumFunctionOnSet(f, S) <= SumFunctionOnSet(g, S)
  BY SumMonotone
<1>3. SumFunctionOnSet(g, S) <= SumFunctionOnSet(f, S)
  BY SumMonotone
<1>4. QED
  BY <1>1, <1>2, <1>3

\* Leaving out terms that are not negative leaves no more.
LEMMA SumPart ==
  ASSUME NEW S, IsFiniteSet(S), NEW f, \A x \in S : f[x] \in Nat
  PROVE  \A T \in SUBSET S : SumFunctionOnSet(f, T) <= SumFunctionOnSet(f, S)
                             /\ SumFunctionOnSet(f, T) \in Nat
<1>0. ASSUME NEW T \in SUBSET S PROVE SumFunctionOnSet(f, T) \in Nat
  <2> DEFINE z == [x \in T |-> 0]
  <2> DEFINE Bad == {U \in SUBSET T : ~(SumFunctionOnSet(f, U) >= 0)}
  <2>1. SumFunctionOnSet(f, T) \in Int
    BY FS_Subset, SumInt
  <2>2. SUFFICES ASSUME Bad # {} PROVE FALSE
    BY <2>1
  <2>3. PICK U \in Bad : \A V \in SUBSET U : V # U => V \notin Bad
    <3>1. Bad \subseteq SUBSET S
      OBVIOUS
    <3> HIDE DEF Bad
    <3>2. QED
      BY <2>2, <3>1, SmallestSubset
  <2>4. SumFunctionOnSet(f, U) = IF U = {} THEN 0 ELSE f[SomeOf(U)] + SumFunctionOnSet(f, U \ {SomeOf(U)})
    BY FS_Subset, SumStep
  <2>5. U # {} => SomeOf(U) \in U /\ SumFunctionOnSet(f, U \ {SomeOf(U)}) >= 0
    BY <2>3, SomeIn
  <2>6. U # {} => SumFunctionOnSet(f, U \ {SomeOf(U)}) \in Int
    <3>1. IsFiniteSet(U \ {SomeOf(U)})
      BY FS_Subset
    <3>2. QED
      BY <3>1, SumInt
  <2>7. QED
    BY <2>3, <2>4, <2>5, <2>6
<1> DEFINE Bad == {T \in SUBSET S : ~(SumFunctionOnSet(f, S \ T) <= SumFunctionOnSet(f, S))}
<1>1. Bad = {}
  <2> SUFFICES ASSUME Bad # {} PROVE FALSE
    OBVIOUS
  <2>1. PICK T \in Bad : \A U \in SUBSET T : U # T => U \notin Bad
    <3>1. Bad \subseteq SUBSET S
      OBVIOUS
    <3> HIDE DEF Bad
    <3>2. QED
      BY <3>1, SmallestSubset
  <2>a. T \in SUBSET S /\ ~(SumFunctionOnSet(f, S \ T) <= SumFunctionOnSet(f, S))
    BY <2>1
  <2>2. T # {}
    <3>1. SumFunctionOnSet(f, S) \in Nat
      BY <1>0
    <3>2. SUFFICES ASSUME T = {} PROVE FALSE
      OBVIOUS
    <3>3. S \ T = S
      BY <3>2
    <3>4. QED
      BY <2>a, <3>1, <3>3
  <2>3. PICK x : x \in T
    BY <2>2
  <2>4. /\ SumFunctionOnSet(f, S \ (T \ {x})) = f[x] + SumFunctionOnSet(f, (S \ (T \ {x})) \ {x})
        /\ (S \ (T \ {x})) \ {x} = S \ T
    BY <2>3, SumTakeOut
  <2>5. SumFunctionOnSet(f, S \ (T \ {x})) <= SumFunctionOnSet(f, S)
    BY <2>1, <2>3
  <2>6. f[x] \in Nat /\ SumFunctionOnSet(f, S \ T) \in Nat /\ SumFunctionOnSet(f, S) \in Nat
    BY <1>0, <2>3
  <2>7. QED
    BY <2>a, <2>4, <2>5, <2>6
<1>2. QED
  <2> SUFFICES ASSUME NEW T \in SUBSET S PROVE SumFunctionOnSet(f, T) <= SumFunctionOnSet(f, S)
    BY <1>0
  <2>1. S \ (S \ T) = T /\ S \ T \in SUBSET S
    OBVIOUS
  <2>2. QED
    BY <1>1, <2>1

\* One term that grows by one makes the sum grow by one.
LEMMA SumGrowsByOne ==
  ASSUME NEW S, IsFiniteSet(S), NEW f, \A x \in S : f[x] \in Int, NEW y \in S, NEW g,
         g[y] = f[y] + 1, \A x \in S : x # y => g[x] = f[x]
  PROVE  SumFunctionOnSet(g, S) = SumFunctionOnSet(f, S) + 1
<1>1. SumFunctionOnSet(f, S) = f[y] + SumFunctionOnSet(f, S \ {y})
  BY SumTakeOut
<1>2. SumFunctionOnSet(g, S) = g[y] + SumFunctionOnSet(g, S \ {y})
  <2>1. \A x \in S : g[x] \in Int
    OBVIOUS
  <2>2. QED
    BY <2>1, SumTakeOut
<1>3. IsFiniteSet(S \ {y})
  BY FS_Subset
<1>4. SumFunctionOnSet(f, S \ {y}) = SumFunctionOnSet(g, S \ {y})
  <2>1. \A x \in S \ {y} : f[x] \in Int /\ g[x] = f[x]
    OBVIOUS
  <2>2. QED
    BY <1>3, <2>1, SumSame
<1>5. SumFunctionOnSet(f, S \ {y}) \in Int
  BY <1>3, SumInt
<1>6. QED
  BY <1>1, <1>2, <1>4, <1>5
\* A set of numbers below a bound that is not empty has a least element.
LEMMA LeastNumber ==
  ASSUME NEW n \in Nat, NEW H, H \subseteq 1..n, H # {}
  PROVE  \E m \in H : \A k \in H : m <= k
<1> DEFINE Bad == {1..m : m \in H}
<1>1. Bad \subseteq SUBSET (1..n) /\ Bad # {}
  <2>1. \A m \in H : 1..m \subseteq 1..n
    OBVIOUS
  <2>2. QED
    BY <2>1
<1>2. IsFiniteSet(1..n)
  BY FS_Interval
<1>3. \E T \in Bad : \A U \in SUBSET T : U # T => U \notin Bad
  <2> HIDE DEF Bad
  <2>1. QED
    BY <1>1, <1>2, SmallestSubset
<1>4. PICK m \in H : \A U \in SUBSET (1..m) : U # 1..m => U \notin Bad
  BY <1>3
<1>5. ASSUME NEW k \in H, k < m PROVE FALSE
  <2>1. 1..k \in SUBSET (1..m) /\ m \in 1..m /\ m \notin 1..k
    BY <1>5
  <2>2. 1..k \in Bad /\ 1..k # 1..m
    BY <2>1
  <2>3. QED
    BY <1>4, <2>1, <2>2
<1>6. QED
  BY <1>5

-----------------------------------------------------------------------------
(***************************************************************************)
(* Remainders.                                                             *)
(***************************************************************************)

\* The remainder and its quotient, for a divisor that is not a literal.
LEMMA Quotient ==
  ASSUME NEW w \in Nat \ {0}, NEW a \in Int
  PROVE  a \div w \in Int /\ a % w \in 0..(w - 1) /\ a = w * (a \div w) + (a % w)
<1>1. a \div w \in Int
  OBVIOUS
<1>2. a % w \in 0..(w - 1)
  OBVIOUS
<1>3. a = w * (a \div w) + (a % w)
  OBVIOUS
<1>4. QED
  BY <1>1, <1>2, <1>3

LEMMA ModUnique ==
  ASSUME NEW w \in Nat \ {0}, NEW a \in Int, NEW q \in Int, NEW r \in 0..(w - 1), a = w * q + r
  PROVE  a % w = r
OBVIOUS

\* Whole rounds on top of a remainder do not show.
LEMMA ModOffset ==
  ASSUME NEW w \in Nat \ {0}, NEW a, NEW r \in 0..(w - 1), a = w * 2 + r
  PROVE  a % w = r
<1>1. a \in Int /\ 2 \in Int
  OBVIOUS
<1>2. QED
  BY <1>1, ModUnique

\* The counter that goes up by one goes up by one or wraps to zero.
LEMMA ModNext ==
  ASSUME NEW w \in Nat \ {0}, NEW a \in Nat
  PROVE  (a + 1) % w = 0 \/ (a + 1) % w = (a % w) + 1
<1> DEFINE q == a \div w
           r == a % w
           b == a + 1
<1>1. a \in Int /\ b \in Int
  OBVIOUS
<1>2. q \in Int /\ r \in 0..(w - 1) /\ a = w * q + r
  BY <1>1, Quotient
<1>3. b = a + 1
  OBVIOUS
<1> HIDE DEF q, r, b
<1>4. CASE r = w - 1
  <2>1. b = w * (q + 1) + 0 /\ q + 1 \in Int /\ 0 \in 0..(w - 1)
    BY <1>2, <1>3, <1>4
  <2>2. b % w = 0
    BY <1>1, <2>1, ModUnique
  <2> QED
    BY <2>2 DEF b
<1>5. CASE r # w - 1
  <2>1. b = w * q + (r + 1) /\ r + 1 \in 0..(w - 1)
    BY <1>2, <1>3, <1>5
  <2>2. b % w = r + 1
    BY <1>1, <1>2, <2>1, ModUnique
  <2> QED
    BY <2>2 DEF b, r
<1>6. QED
  BY <1>4, <1>5

\* Unsigned subtraction of two readings of a counter gives the distance between
\* them, over a wrap, when it is less than the width.
LEMMA ModDistance ==
  ASSUME NEW w \in Nat \ {0}, NEW a \in Nat, NEW b \in Nat, b <= a, a - b < w
  PROVE  ((a % w) - (b % w)) % w = a - b
<1> DEFINE p == a \div w
           q == b \div w
           r == a % w
           s == b % w
           c == r - s
           d == a - b
<1>1. a \in Int /\ b \in Int
  OBVIOUS
<1>2. /\ p \in Int /\ r \in 0..(w - 1) /\ a = w * p + r
      /\ q \in Int /\ s \in 0..(w - 1) /\ b = w * q + s
  BY <1>1, Quotient
<1> HIDE DEF p, q, r, s
<1>3. c \in Int /\ d \in 0..(w - 1)
  BY <1>2
<1>4. w * (q - p) = w * q - w * p /\ q - p \in Int
  BY <1>2
<1>5. c = w * (q - p) + d
  <2>1. w * q \in Int /\ w * p \in Int
    BY <1>2
  <2> QED
    BY <1>1, <1>2, <1>4, <2>1
<1> HIDE DEF c, d
<1>6. c % w = d
  BY <1>3, <1>4, <1>5, ModUnique
<1>7. QED
  BY <1>6 DEF c, d, r, s

LEMMA ModSmall == ASSUME NEW w \in Nat \ {0}, NEW a \in 0..(w - 1) PROVE a % w = a
OBVIOUS

LEMMA ModLe == ASSUME NEW w \in Nat \ {0}, NEW a \in Nat PROVE a % w <= a /\ a % w \in Nat
OBVIOUS

\* A term may be reduced before it is added to.
LEMMA ModAdd ==
  ASSUME NEW w \in Nat \ {0}, NEW a \in Int, NEW b \in Int
  PROVE  ((a % w) + b) % w = (a + b) % w
<1> DEFINE q == a \div w
           r == a % w
           c == r + b
           d == a + b
<1>1. q \in Int /\ r \in Int /\ a = w * q + r
  BY Quotient
<1> HIDE DEF q, r
<1>2. c \in Int /\ d \in Int
  BY <1>1
<1> DEFINE p == c \div w
           s == c % w
<1>3. p \in Int /\ s \in 0..(w - 1) /\ c = w * p + s
  BY <1>2, Quotient
<1> HIDE DEF p, s
<1>4. w * (q + p) = w * q + w * p /\ q + p \in Int /\ w * q \in Int /\ w * p \in Int
  BY <1>1, <1>3
<1>5. d = w * (q + p) + s
  BY <1>1, <1>3, <1>4
<1> HIDE DEF c, d
<1>6. d % w = s
  BY <1>2, <1>3, <1>4, <1>5, ModUnique
<1>7. QED
  BY <1>6 DEF c, d, r, s

\* A natural number lies in the block of its quotient.
LEMMA BlockOf ==
  ASSUME NEW w \in Nat \ {0}, NEW a \in Nat
  PROVE  a \div w \in Nat /\ (a \div w) * w <= a /\ a < (a \div w) * w + w
<1> DEFINE q == a \div w
           r == a % w
<1>1. q \in Int /\ r \in 0..(w - 1) /\ a = w * q + r
  BY Quotient
<1> HIDE DEF q, r
<1>2. ASSUME q < 0 PROVE FALSE
  <2>1. w * (q + 1) = w * q + w /\ w * (q + 1) <= 0 /\ w * q \in Int
    BY <1>1, <1>2
  <2>2. QED
    BY <1>1, <2>1
<1>3. q \in Nat /\ q * w = w * q /\ q * w \in Int
  BY <1>1, <1>2
<1>4. q \in Nat /\ q * w <= a /\ a < q * w + w
  BY <1>1, <1>3
<1>5. QED
  BY <1>4 DEF q

-----------------------------------------------------------------------------
(***************************************************************************)
(* Functions of the numbers up to one, defined by what follows each.       *)
(***************************************************************************)

\* Induction up to n, for a set of numbers.
LEMMA UpTo ==
  ASSUME NEW n \in Nat, NEW G, 0 \in G, \A i \in 1..n : i - 1 \in G => i \in G
  PROVE  0..n \subseteq G
<1> DEFINE Bad == {i \in 1..n : i \notin G}
<1>1. ASSUME Bad # {} PROVE FALSE
  <2>1. PICK m \in Bad : \A k \in Bad : m <= k
    <3>1. Bad \subseteq 1..n
      OBVIOUS
    <3> HIDE DEF Bad
    <3>2. QED
      BY <1>1, <3>1, LeastNumber
  <2>2. m - 1 = 0 \/ m - 1 \in 1..n
    OBVIOUS
  <2>3. m - 1 \in G
    BY <2>1, <2>2
  <2>4. QED
    BY <2>3
<1>2. QED
  BY <1>1

\* What a step for each number makes of a value.
IsStep(step, n, W) == step \in [1..n -> [W -> W]]

IsIteration(h, n, W, base, step) ==
  h \in [0..n -> W] /\ h[0] = base /\ \A i \in 1..n : h[i] = step[i][h[i - 1]]

LEMMA Iterates ==
  ASSUME NEW n \in Nat, NEW W, NEW base \in W, NEW step, IsStep(step, n, W)
  PROVE  \E h : IsIteration(h, n, W, base, step)
<1> USE DEF IsStep, IsIteration
<1> DEFINE Is(h, m) == h[0] = base /\ \A i \in 1..m : h[i] = step[i][h[i - 1]]
           G == {m \in 0..n : \E h \in [0..m -> W] : Is(h, m)}
<1>1. 0 \in G
  <2> DEFINE h == [i \in 0..0 |-> base]
  <2>1. h \in [0..0 -> W] /\ h[0] = base
    OBVIOUS
  <2> HIDE DEF h
  <2>2. Is(h, 0)
    BY <2>1
  <2> HIDE DEF Is
  <2>3. QED
    BY <2>1, <2>2
<1>2. ASSUME NEW m \in 1..n, m - 1 \in G PROVE m \in G
  <2>1. PICK g \in [0..(m - 1) -> W] : Is(g, m - 1)
    BY <1>2
  <2> DEFINE h == [i \in 0..m |-> IF i = m THEN step[m][g[m - 1]] ELSE g[i]]
  <2>2. m - 1 \in 0..(m - 1) /\ step[m][g[m - 1]] \in W
    OBVIOUS
  <2>3. h \in [0..m -> W] /\ h[m] = step[m][g[m - 1]] /\ \A i \in 0..(m - 1) : h[i] = g[i]
    BY <2>2
  <2> HIDE DEF h
  <2>4. ASSUME NEW i \in 1..m PROVE h[i] = step[i][h[i - 1]]
    <3>1. i - 1 \in 0..(m - 1)
      OBVIOUS
    <3>2. CASE i = m
      BY <2>3, <3>1, <3>2
    <3>3. CASE i # m
      <4>1. i \in 1..(m - 1) /\ i \in 0..(m - 1)
        BY <3>3
      <4>2. QED
        BY <2>1, <2>3, <3>1, <4>1
    <3>4. QED
      BY <3>2, <3>3
  <2>5. Is(h, m)
    <3>1. 0 \in 0..(m - 1)
      OBVIOUS
    <3>2. QED
      BY <2>1, <2>3, <2>4, <3>1
  <2>6. QED
    BY <2>3, <2>5
<1>3. n \in G
  <2>1. \A m \in 1..n : m - 1 \in G => m \in G
    BY <1>2
  <2> HIDE DEF G
  <2>2. 0..n \subseteq G
    BY ONLY n \in Nat, <1>1, <2>1, UpTo
  <2>3. QED
    BY <2>2
<1>4. QED
  BY <1>3

-----------------------------------------------------------------------------
(***************************************************************************)
(* std::sort: a finite set has a sequence in which no element comes after  *)
(* one it should precede.                                                  *)
(***************************************************************************)

\* R is a strict order of S.
Orders(R, S) ==
  /\ \A x \in S : <<x, x>> \notin R
  /\ \A x, y, z \in S : <<x, y>> \in R /\ <<y, z>> \in R => <<x, z>> \in R

LEMMA LastExists ==
  ASSUME NEW S, IsFiniteSet(S), NEW R, Orders(R, S)
  PROVE  \A T \in SUBSET S : T # {} => \E m \in T : \A x \in T : <<m, x>> \notin R
  <1> DEFINE Bad == {T \in SUBSET S : T # {} /\ \A m \in T : \E x \in T : <<m, x>> \in R}
  <1>1. SUFFICES ASSUME Bad # {} PROVE FALSE
    OBVIOUS
  <1>2. PICK T \in Bad : \A U \in SUBSET T : U # T => U \notin Bad
    <2>1. Bad \subseteq SUBSET S
      OBVIOUS
    <2> HIDE DEF Bad
    <2>2. QED
      BY <1>1, <2>1, SmallestSubset
  <1>3. PICK y \in T : TRUE
    OBVIOUS
  <1>4. PICK x \in T : <<y, x>> \in R
    OBVIOUS
  <1>5. x # y
    BY <1>4 DEF Orders
  <1>6. T \ {y} # {} /\ T \ {y} \in SUBSET S /\ T \ {y} # T
    BY <1>4, <1>5
  <1>7. PICK m \in T \ {y} : \A z \in T \ {y} : <<m, z>> \notin R
    BY <1>2, <1>6
  <1>8. <<m, y>> \in R
    BY <1>7
  <1>9. <<m, x>> \in R
    BY <1>4, <1>8 DEF Orders
  <1>10. QED
    BY <1>5, <1>7, <1>9

\* s is in the order R.
InOrder(s, R) == \A i, j \in DOMAIN s : i < j => <<s[j], s[i]>> \notin R

LEMMA OrderedExists ==
  ASSUME NEW S, IsFiniteSet(S), NEW R, Orders(R, S)
  PROVE  \E s \in SetToSeqs(S) : InOrder(s, R)
  <1> DEFINE Bad == {T \in SUBSET S : ~\E s \in SetToSeqs(T) : InOrder(s, R)}
  <1>1. SUFFICES ASSUME Bad # {} PROVE FALSE
    OBVIOUS
  <1>2. PICK T \in Bad : \A U \in SUBSET T : U # T => U \notin Bad
    <2>1. Bad \subseteq SUBSET S
      OBVIOUS
    <2> HIDE DEF Bad
    <2>2. QED
      BY <1>1, <2>1, SmallestSubset
  <1>3. T \in SUBSET S /\ IsFiniteSet(T)
    BY FS_Subset
  <1>4. T # {}
    <2> SUFFICES ASSUME T = {} PROVE FALSE
      OBVIOUS
    <2> DEFINE s == [i \in 1..0 |-> i]
    <2>1. Cardinality(T) = 0
      BY FS_EmptySet
    <2>2. s \in SetToSeqs(T) /\ InOrder(s, R)
      BY <2>1 DEF SetToSeqs, InOrder
    <2>3. QED
      BY <2>2
  <1>5. PICK m \in T : \A x \in T : <<m, x>> \notin R
    BY <1>3, <1>4, LastExists
  <1>6. T \ {m} \in SUBSET T /\ T \ {m} # T
    OBVIOUS
  <1>7. PICK s \in SetToSeqs(T \ {m}) : InOrder(s, R)
    BY <1>2, <1>6
  <1> DEFINE n == Cardinality(T)
             longer == [i \in 1..n |-> IF i = n THEN m ELSE s[i]]
  <1>8. n \in Nat \ {0} /\ Cardinality(T \ {m}) = n - 1
    BY <1>3, FS_CardinalityType, FS_EmptySet, FS_RemoveElement
  <1>9. s \in [1..(n - 1) -> T \ {m}] /\ \A i, j \in 1..(n - 1) : i # j => s[i] # s[j]
    BY <1>7, <1>8 DEF SetToSeqs
  <1> HIDE DEF n
  <1>10. \A i \in 1..n : i # n => i \in 1..(n - 1)
    BY <1>8
  <1>11. longer \in [1..n -> T] /\ \A i, j \in 1..n : i # j => longer[i] # longer[j]
    BY <1>8, <1>9, <1>10
  <1>12. longer \in SetToSeqs(T)
    BY <1>11 DEF SetToSeqs, n
  <1>13. InOrder(longer, R)
    <2> SUFFICES ASSUME NEW i \in 1..n, NEW j \in 1..n, i < j PROVE <<longer[j], longer[i]>> \notin R
      BY DEF InOrder
    <2>1. i # n /\ i \in 1..(n - 1) /\ longer[i] = s[i] /\ s[i] \in T
      BY <1>8, <1>9
    <2>2. CASE j = n
      BY <1>5, <2>1, <2>2
    <2>3. CASE j # n
      BY <1>7, <1>9, <1>10, <2>1, <2>3 DEF InOrder
    <2>4. QED
      BY <2>2, <2>3
  <1>14. QED
    BY <1>12, <1>13

\* A sequence of a set's elements holds them, each once.
LEMMA SeqOfSet ==
  ASSUME NEW S, IsFiniteSet(S), NEW s \in SetToSeqs(S)
  PROVE  /\ s \in Seq(S) /\ DOMAIN s = 1..Cardinality(S) /\ Range(s) = S
         /\ \A i, j \in DOMAIN s : i # j => s[i] # s[j]
  <1> DEFINE n == Cardinality(S)
  <1>1. n \in Nat /\ s \in [1..n -> S] /\ \A i, j \in 1..n : i # j => s[i] # s[j]
    BY FS_CardinalityType DEF SetToSeqs
  <1>2. s \in Seq(S) /\ DOMAIN s = 1..n
    BY <1>1
  <1>3. Range(s) = S
    <2>1. s \in Injection(1..n, S)
      BY <1>1 DEF Injection, IsInjective
    <2>2. Cardinality(1..n) = n
      BY <1>1, FS_Interval
    <2>3. s \in Surjection(1..n, S)
      BY <2>1, <2>2, FS_Injection
    <2>4. QED
      BY <1>2, <2>3 DEF Surjection, Range
  <1>4. QED
    BY <1>1, <1>2, <1>3
=============================================================================
