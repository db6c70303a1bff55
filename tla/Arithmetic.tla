------------------------------- MODULE Arithmetic -------------------------------
(***************************************************************************)
(* Facts about sums and fractions that the proofs of several components    *)
(* need.                                                                   *)
(*                                                                         *)
(* Sums: the community's SumFunctionOnSet is a recursive function that     *)
(* takes the elements in the order CHOOSE gives them; what the proofs      *)
(* about volumes, balances and positions need is that the order does not   *)
(* matter.  Induction is over finite sets: a family of them that is not    *)
(* empty has a smallest member.                                            *)
(*                                                                         *)
(* Fractions are compared as integers over a common denominator (Means);   *)
(* that Plus, Scale and Over do to them what they should rests on Gcd      *)
(* dividing both of its arguments.  Gcd is a recursive function: that one  *)
(* exists is shown by giving it (the greatest common divisor), and what it *)
(* computes by looking at the least argument for which it would not.       *)
(***************************************************************************)
EXTENDS Fractions, Functions, FiniteSetTheorems, TLAPS

\* A family of subsets of a finite set has a member with no smaller one in the family.
LEMMA Minimal ==
  ASSUME NEW S, IsFiniteSet(S), NEW F \in SUBSET (SUBSET S), F # {}
  PROVE  \E A \in F : \A B \in SUBSET A : B # A => B \notin F
<1>1. IsWellFoundedOn(StrictSubsetOrdering(S), SUBSET S)
  BY FS_StrictSubsetOrderingWellFounded, FS_FiniteSubsetsOfFinite
<1>2. PICK A \in F : \A B \in F : <<B, A>> \notin StrictSubsetOrdering(S)
  BY <1>1, WFMin
<1> QED
  BY <1>2 DEF StrictSubsetOrdering

\* A set of numbers that is not empty has a least one.
LEMMA LeastNumber ==
  ASSUME NEW T \in SUBSET Nat, T # {}
  PROVE  \E n \in T : \A m \in T : n <= m
<1>1. PICK t \in T : TRUE
  OBVIOUS
<1> DEFINE F == {0..n : n \in {m \in T : m <= t}}
<1>2. IsFiniteSet(0..t)
  BY FS_Interval
<1>3. F \in SUBSET (SUBSET (0..t)) /\ F # {}
  BY <1>1
<1>4. PICK A \in F : \A B \in SUBSET A : B # A => B \notin F
  <2> HIDE DEF F
  <2> QED BY <1>2, <1>3, Minimal
<1>5. PICK n \in T : n <= t /\ A = 0..n
  BY <1>4
<1>6. ASSUME NEW m \in T, m < n PROVE FALSE
  <2>1. 0..m \in SUBSET A /\ 0..m \in F
    BY <1>1, <1>5, <1>6
  <2>2. n \in A /\ n \notin 0..m
    BY <1>5, <1>6
  <2> QED BY <1>4, <2>1, <2>2
<1> QED BY <1>5, <1>6

\* g gives the sum of every subset of S, whichever element is added last.
SumsUp(g, f, S) ==
  /\ \A x \in S : f[x] \in Int
  /\ g \in [SUBSET S -> Int]
  /\ g[{}] = 0
  /\ \A T \in SUBSET S : \A x \in T : g[T] = f[x] + g[T \ {x}]

\* The recursive function inside SumFunctionOnSet.
Recursion(f, S) ==
  CHOOSE iter : iter = [s \in SUBSET S |-> IF s = {} THEN 0
                                          ELSE f[CHOOSE x \in s : TRUE] + iter[s \ {CHOOSE x \in s : TRUE}]]

\* One more element: the sums with it are the sums without it, and its value.
LEMMA SumsGrow ==
  ASSUME NEW f, NEW S, NEW g, SumsUp(g, f, S), NEW x, x \notin S, f[x] \in Int
  PROVE  \E h : SumsUp(h, f, S \cup {x})
<1> DEFINE U == S \cup {x}
           h == [T \in SUBSET U |-> IF x \in T THEN f[x] + g[T \ {x}] ELSE g[T]]
<1>1. \A T \in SUBSET U : (x \notin T => T \in SUBSET S) /\ T \ {x} \in SUBSET S
  OBVIOUS
<1>2. \A T \in SUBSET S : g[T] \in Int
  BY DEF SumsUp
<1>3. h \in [SUBSET U -> Int]
  BY <1>1, <1>2
<1>4. h[{}] = 0
  BY DEF SumsUp
<1>5. ASSUME NEW T \in SUBSET U, NEW y \in T PROVE h[T] = f[y] + h[T \ {y}]
  <2>1. T \ {y} \in SUBSET U
    OBVIOUS
  <2>2. CASE y = x
    BY <2>1, <2>2
  <2>3. CASE y # x /\ x \notin T
    BY <1>1, <2>1, <2>3 DEF SumsUp
  <2>4. CASE y # x /\ x \in T
    <3>1. g[T \ {x}] = f[y] + g[(T \ {x}) \ {y}]
      BY <1>1, <2>4 DEF SumsUp
    <3>2. g[T \ {x}] = f[y] + g[(T \ {y}) \ {x}]
      <4>1. (T \ {x}) \ {y} = (T \ {y}) \ {x}
        OBVIOUS
      <4> QED BY <3>1, <4>1
    <3>3. h[T] = f[x] + g[T \ {x}] /\ h[T \ {y}] = f[x] + g[(T \ {y}) \ {x}]
      BY <2>1, <2>4
    <3>4. g[T \ {x}] \in Int /\ g[(T \ {y}) \ {x}] \in Int
      BY <1>1, <1>2, <2>1
    <3>5. f[y] \in Int
      BY <2>4 DEF SumsUp
    <3> HIDE DEF h
    <3> QED BY <3>2, <3>3, <3>4, <3>5
  <2> QED BY <2>2, <2>3, <2>4
<1>6. \A y \in U : f[y] \in Int
  BY DEF SumsUp
<1> HIDE DEF h
<1>7. SumsUp(h, f, U)
  BY <1>3, <1>4, <1>5, <1>6 DEF SumsUp
<1> QED BY <1>7

\* Every finite set has such sums.
LEMMA SumsExist ==
  ASSUME NEW f, NEW S, IsFiniteSet(S), \A x \in S : f[x] \in Int
  PROVE  \E g : SumsUp(g, f, S)
<1> DEFINE Bad == {T \in SUBSET S : ~\E g : SumsUp(g, f, T)}
<1>1. CASE Bad # {}
  <2>1. PICK A \in Bad : \A B \in SUBSET A : B # A => B \notin Bad
    <3> HIDE DEF Bad
    <3>1. Bad \in SUBSET (SUBSET S)
      BY DEF Bad
    <3> QED BY <1>1, <3>1, Minimal
  <2>2. CASE A = {}
    <3> DEFINE g == [T \in SUBSET {} |-> 0]
    <3>1. SumsUp(g, f, A)
      BY <2>2 DEF SumsUp
    <3> QED BY <2>1, <3>1
  <2>3. CASE A # {}
    <3>1. PICK x \in A : TRUE
      BY <2>3
    <3>2. A \ {x} \in SUBSET A /\ A \ {x} # A /\ A \ {x} \in SUBSET S /\ f[x] \in Int
      BY <3>1
    <3>3. PICK g : SumsUp(g, f, A \ {x})
      BY <2>1, <3>2
    <3>4. (A \ {x}) \cup {x} = A /\ x \notin A \ {x}
      BY <3>1
    <3>5. \E h : SumsUp(h, f, (A \ {x}) \cup {x})
      <4> DEFINE B == A \ {x}
      <4> HIDE DEF B, Bad
      <4>1. SumsUp(g, f, B) /\ x \notin B
        BY <3>3, <3>4 DEF B
      <4>2. \E h : SumsUp(h, f, B \cup {x})
        BY <4>1, <3>2, SumsGrow
      <4> QED BY <4>2 DEF B
    <3> QED BY <2>1, <3>4, <3>5
  <2> QED BY <2>2, <2>3
<1> QED BY <1>1

\* They are what the recursive function computes.
LEMMA SumsAreFound ==
  ASSUME NEW f, NEW S, IsFiniteSet(S), NEW g, SumsUp(g, f, S)
  PROVE  Recursion(f, S) = g
<1> DEFINE first(T) == CHOOSE x \in T : TRUE
           step(h) == [T \in SUBSET S |-> IF T = {} THEN 0 ELSE f[first(T)] + h[T \ {first(T)}]]
<1>1. \A T \in SUBSET S : T # {} => first(T) \in T /\ T \ {first(T)} \in SUBSET S
  OBVIOUS
<1>2. g = step(g)
  <2>1. \A T \in SUBSET S : g[T] = IF T = {} THEN 0 ELSE f[first(T)] + g[T \ {first(T)}]
    BY <1>1 DEF SumsUp
  <2>2. g = [T \in SUBSET S |-> g[T]]
    BY DEF SumsUp
  <2> QED BY <2>1, <2>2
<1>3. ASSUME NEW h, h = step(h) PROVE h = g
  <2> DEFINE Bad == {T \in SUBSET S : h[T] # g[T]}
  <2>1. CASE Bad # {}
    <3>1. PICK A \in Bad : \A B \in SUBSET A : B # A => B \notin Bad
      <4> HIDE DEF Bad, step
      <4>1. Bad \in SUBSET (SUBSET S)
        BY DEF Bad
      <4> QED BY <2>1, <4>1, Minimal
    <3>2. CASE A = {}
      BY <1>3, <3>1, <3>2 DEF SumsUp
    <3>3. CASE A # {}
      <4>1. A \in SUBSET S /\ h[A] # g[A] /\ first(A) \in A
        BY <1>1, <3>1, <3>3
      <4>2. A \ {first(A)} \in SUBSET A /\ A \ {first(A)} # A
        BY <4>1
      <4>3. h[A \ {first(A)}] = g[A \ {first(A)}]
        BY <3>1, <4>1, <4>2
      <4>4. h[A] = f[first(A)] + h[A \ {first(A)}] /\ g[A] = f[first(A)] + g[A \ {first(A)}]
        <5> HIDE DEF first
        <5> QED BY <1>2, <1>3, <3>3, <4>1
      <4> QED BY <4>1, <4>3, <4>4
    <3> QED BY <3>2, <3>3
  <2>2. CASE Bad = {}
    <3>1. \A T \in SUBSET S : h[T] = g[T]
      BY <2>2
    <3>2. h = [T \in SUBSET S |-> h[T]] /\ g = [T \in SUBSET S |-> g[T]]
      BY <1>3 DEF SumsUp
    <3> QED BY <3>1, <3>2
  <2> QED BY <2>1, <2>2
<1>4. Recursion(f, S) = CHOOSE h : h = step(h)
  BY DEF Recursion
<1> HIDE DEF step
<1> QED BY <1>2, <1>3, <1>4

\* So a sum is what any such g says.
LEMMA SumFound ==
  ASSUME NEW f, NEW S, IsFiniteSet(S), NEW g, SumsUp(g, f, S)
  PROVE  SumFunctionOnSet(f, S) = g[S]
<1>1. SumFunctionOnSet(f, S) = Recursion(f, S)[S]
  BY DEF SumFunctionOnSet, FoldFunctionOnSet, MapThenFoldSet, Recursion
<1> QED BY <1>1, SumsAreFound

-----------------------------------------------------------------------------
\* The facts that proofs use.

\* A sum of integers is an integer.
LEMMA SumType ==
  ASSUME NEW f, NEW S, IsFiniteSet(S), \A x \in S : f[x] \in Int
  PROVE  SumFunctionOnSet(f, S) \in Int
<1>1. PICK g : SumsUp(g, f, S)
  BY SumsExist
<1>2. g[S] \in Int
  BY <1>1 DEF SumsUp
<1> QED BY <1>1, <1>2, SumFound

\* The empty sum is zero.
LEMMA SumEmpty == ASSUME NEW f PROVE SumFunctionOnSet(f, {}) = 0
<1>1. IsFiniteSet({})
  BY FS_EmptySet
<1>2. PICK g : SumsUp(g, f, {})
  BY <1>1, SumsExist
<1> QED BY <1>1, <1>2, SumFound DEF SumsUp

\* The sum of zeros is zero.
LEMMA SumZero ==
  ASSUME NEW f, NEW S, IsFiniteSet(S), \A x \in S : f[x] = 0
  PROVE  SumFunctionOnSet(f, S) = 0
<1> DEFINE g == [T \in SUBSET S |-> 0]
<1>1. SumsUp(g, f, S)
  BY DEF SumsUp
<1>2. g[S] = 0
  OBVIOUS
<1> HIDE DEF g
<1> QED BY <1>1, <1>2, SumFound

\* Functions that agree on a set have the same sum over it.
LEMMA SumSame ==
  ASSUME NEW f, NEW h, NEW S, IsFiniteSet(S), \A x \in S : f[x] \in Int /\ h[x] = f[x]
  PROVE  SumFunctionOnSet(h, S) = SumFunctionOnSet(f, S)
<1>1. PICK g : SumsUp(g, f, S)
  BY SumsExist
<1>2. SumsUp(g, h, S)
  BY <1>1 DEF SumsUp
<1> QED BY <1>1, <1>2, SumFound

\* A sum is the value of any element and the sum of the others.
LEMMA SumRemove ==
  ASSUME NEW f, NEW S, IsFiniteSet(S), \A y \in S : f[y] \in Int, NEW x \in S
  PROVE  SumFunctionOnSet(f, S) = f[x] + SumFunctionOnSet(f, S \ {x})
<1> DEFINE R == S \ {x}
<1>1. PICK g : SumsUp(g, f, S)
  BY SumsExist
<1>2. IsFiniteSet(R) /\ R \in SUBSET S
  BY FS_RemoveElement
<1> DEFINE h == [T \in SUBSET R |-> g[T]]
<1>3. SumsUp(h, f, R)
  <2>1. \A T \in SUBSET R : T \in SUBSET S /\ h[T] = g[T] /\ g[T] \in Int
    BY <1>1 DEF SumsUp
  <2>2. h \in [SUBSET R -> Int] /\ h[{}] = 0
    BY <1>1, <2>1 DEF SumsUp
  <2>3. ASSUME NEW T \in SUBSET R, NEW y \in T PROVE h[T] = f[y] + h[T \ {y}]
    <3>1. T \ {y} \in SUBSET R
      OBVIOUS
    <3> QED BY <1>1, <2>1, <3>1 DEF SumsUp
  <2>4. \A y \in R : f[y] \in Int
    OBVIOUS
  <2> HIDE DEF h, R
  <2> QED BY <2>2, <2>3, <2>4 DEF SumsUp
<1>4. g[S] = f[x] + g[R]
  BY <1>1 DEF SumsUp
<1>5. SumFunctionOnSet(f, S) = g[S]
  BY <1>1, SumFound
<1>6. SumFunctionOnSet(f, R) = h[R] /\ h[R] = g[R]
  <2>1. h[R] = g[R]
    OBVIOUS
  <2> HIDE DEF h, R
  <2> QED BY <1>2, <1>3, <2>1, SumFound
<1> QED BY <1>4, <1>5, <1>6

\* One more element adds its value.
LEMMA SumAdd ==
  ASSUME NEW f, NEW S, IsFiniteSet(S), NEW x, x \notin S, \A y \in S \cup {x} : f[y] \in Int
  PROVE  SumFunctionOnSet(f, S \cup {x}) = f[x] + SumFunctionOnSet(f, S)
<1> DEFINE U == S \cup {x}
<1>1. IsFiniteSet(U) /\ U \ {x} = S /\ x \in U
  BY FS_AddElement
<1>2. \A y \in U : f[y] \in Int
  OBVIOUS
<1> HIDE DEF U
<1>3. SumFunctionOnSet(f, U) = f[x] + SumFunctionOnSet(f, U \ {x})
  BY <1>1, <1>2, SumRemove
<1> QED BY <1>1, <1>3 DEF U

\* Changing the value of one element changes the sum by as much.
LEMMA SumUpdate ==
  ASSUME NEW f, NEW h, NEW S, IsFiniteSet(S), NEW x \in S,
         \A y \in S : f[y] \in Int /\ h[y] \in Int, \A y \in S : y # x => h[y] = f[y]
  PROVE  SumFunctionOnSet(h, S) = SumFunctionOnSet(f, S) + h[x] - f[x]
<1> DEFINE R == S \ {x}
<1>1. IsFiniteSet(R) /\ \A y \in R : f[y] \in Int /\ h[y] = f[y]
  BY FS_RemoveElement
<1>2. SumFunctionOnSet(f, S) = f[x] + SumFunctionOnSet(f, R) /\ SumFunctionOnSet(h, S) = h[x] + SumFunctionOnSet(h, R)
  BY SumRemove
<1>3. SumFunctionOnSet(h, R) = SumFunctionOnSet(f, R) /\ SumFunctionOnSet(f, R) \in Int
  <2> HIDE DEF R
  <2> QED BY <1>1, SumSame, SumType
<1> QED BY <1>2, <1>3

\* The sum over two disjoint sets is the sum of their sums.
LEMMA SumUnion ==
  ASSUME NEW f, NEW S, NEW T, IsFiniteSet(S), IsFiniteSet(T), S \cap T = {},
         \A y \in S \cup T : f[y] \in Int
  PROVE  SumFunctionOnSet(f, S \cup T) = SumFunctionOnSet(f, S) + SumFunctionOnSet(f, T)
<1> DEFINE Adds(A) == SumFunctionOnSet(f, S \cup A) = SumFunctionOnSet(f, S) + SumFunctionOnSet(f, A)
           Bad == {A \in SUBSET T : ~Adds(A)}
<1>1. SumFunctionOnSet(f, S) \in Int
  BY SumType
<1>2. Adds({})
  <2>1. S \cup {} = S
    OBVIOUS
  <2> QED BY <1>1, <2>1, SumEmpty
<1>3. ASSUME NEW A \in SUBSET T, NEW x \in A, Adds(A \ {x}) PROVE Adds(A)
  <2> DEFINE B == A \ {x}
  <2>1. IsFiniteSet(A)
    BY FS_Subset
  <2>2. IsFiniteSet(B)
    BY <2>1, FS_RemoveElement
  <2>3. IsFiniteSet(S \cup A)
    BY <2>1, FS_Union
  <2>4. (S \cup A) \ {x} = S \cup B
    OBVIOUS
  <2>5. SumFunctionOnSet(f, S \cup A) = f[x] + SumFunctionOnSet(f, S \cup B)
    <3> DEFINE U == S \cup A
    <3>1. x \in U /\ \A y \in U : f[y] \in Int
      OBVIOUS
    <3> HIDE DEF U, B
    <3>2. SumFunctionOnSet(f, U) = f[x] + SumFunctionOnSet(f, U \ {x})
      BY <2>3, <3>1, SumRemove DEF U
    <3> QED BY <2>4, <3>2 DEF U
  <2>6. SumFunctionOnSet(f, A) = f[x] + SumFunctionOnSet(f, B)
    BY <2>1, SumRemove
  <2>7. SumFunctionOnSet(f, B) \in Int /\ f[x] \in Int
    <3>1. \A y \in B : f[y] \in Int
      OBVIOUS
    <3> HIDE DEF B
    <3> QED BY <2>2, <3>1, SumType
  <2>8. SumFunctionOnSet(f, S \cup B) = SumFunctionOnSet(f, S) + SumFunctionOnSet(f, B)
    BY <1>3
  <2> HIDE DEF B
  <2> QED BY <1>1, <2>5, <2>6, <2>7, <2>8
<1>4. Bad = {}
  <2> SUFFICES ASSUME Bad # {} PROVE FALSE
    OBVIOUS
  <2>1. PICK A \in Bad : \A B \in SUBSET A : B # A => B \notin Bad
    <3>1. Bad \in SUBSET (SUBSET T)
      OBVIOUS
    <3> HIDE DEF Bad
    <3> QED BY <3>1, Minimal
  <2>2. A \in SUBSET T /\ ~Adds(A)
    BY <2>1
  <2>3. A # {}
    BY <1>2, <2>2
  <2>4. PICK x \in A : TRUE
    BY <2>3
  <2>5. A \ {x} \in SUBSET A /\ A \ {x} # A /\ A \ {x} \in SUBSET T
    BY <2>2, <2>4
  <2> HIDE DEF Adds
  <2>6. Adds(A \ {x})
    BY <2>1, <2>5
  <2> QED BY <1>3, <2>2, <2>4, <2>6
<1> QED
  <2>1. T \notin Bad
    BY <1>4
  <2> QED BY <2>1

-----------------------------------------------------------------------------
\* d divides n.
Divides(d, n) == \E k \in Int : n = d * k

CommonDivisors(a, b) == {d \in Nat : d > 0 /\ Divides(d, a) /\ Divides(d, b)}
Greatest(D) == CHOOSE m \in D : \A d \in D : d <= m

\* Division with remainder, and without one.
LEMMA DivMod ==
  ASSUME NEW a \in Int, NEW b \in Nat, b > 0
  PROVE  /\ a \div b \in Int /\ a % b \in 0..(b - 1)
         /\ a = b * (a \div b) + (a % b)
BY SMT

LEMMA Exact ==
  ASSUME NEW b \in Nat, b > 0, NEW k \in Int
  PROVE  (b * k) \div b = k
BY SMT

\* What divides two numbers divides their combinations.
LEMMA DividesSum ==
  ASSUME NEW d \in Int, NEW x \in Int, NEW y \in Int, NEW n \in Int, Divides(d, x), Divides(d, y),
         NEW z, z = x + n * y
  PROVE  Divides(d, z)
<1>1. PICK k \in Int : x = d * k
  BY DEF Divides
<1>2. PICK l \in Int : y = d * l
  BY DEF Divides
<1>3. z = d * (k + n * l) /\ k + n * l \in Int
  BY <1>1, <1>2
<1> QED BY <1>3 DEF Divides

LEMMA DividesZero ==
  ASSUME NEW d \in Int
  PROVE  Divides(d, 0) /\ Divides(d, d)
<1>1. 0 = d * 0 /\ d = d * 1
  OBVIOUS
<1> QED BY <1>1 DEF Divides

\* A step of Euclid's algorithm keeps the common divisors.
LEMMA EuclidStep ==
  ASSUME NEW a \in Nat, NEW b \in Nat, b > 0
  PROVE  CommonDivisors(b, a % b) = CommonDivisors(a, b)
<1>1. PICK q \in Int, r \in Nat : q = a \div b /\ r = a % b /\ a = b * q + r
  BY DivMod
<1>2. ASSUME NEW d \in Nat, Divides(d, b)
      PROVE  Divides(d, r) <=> Divides(d, a)
  <2>1. PICK m \in Int : m = -q
    BY <1>1
  <2>2. r = a + m * b /\ a = r + q * b /\ d \in Int /\ a \in Int /\ b \in Int /\ r \in Int
    BY <1>1, <2>1
  <2>3. ASSUME Divides(d, a) PROVE Divides(d, r)
    BY <1>2, <2>2, <2>3, DividesSum
  <2>4. ASSUME Divides(d, r) PROVE Divides(d, a)
    BY <1>2, <2>2, <2>4, DividesSum
  <2> QED BY <2>3, <2>4
<1> QED BY <1>1, <1>2 DEF CommonDivisors

\* Of a number and zero the greatest common divisor is the number.
LEMMA DivisorsOfOne ==
  ASSUME NEW b \in Nat, b > 0
  PROVE  Greatest(CommonDivisors(b, 0)) = b
<1>1. b \in CommonDivisors(b, 0)
  BY DividesZero DEF CommonDivisors
<1>2. ASSUME NEW d \in CommonDivisors(b, 0) PROVE d <= b
  <2>1. d \in Nat /\ d > 0
    BY DEF CommonDivisors
  <2>2. PICK k \in Int : b = d * k
    BY DEF CommonDivisors, Divides
  <2>3. k >= 1
    BY <2>1, <2>2
  <2> QED BY <2>1, <2>2, <2>3
<1> DEFINE D == CommonDivisors(b, 0)
<1>3. D \subseteq Nat
  BY DEF CommonDivisors
<1> HIDE DEF D
<1>4. \A m \in D : (\A d \in D : d <= m) => m = b
  <2> SUFFICES ASSUME NEW m \in D, \A d \in D : d <= m PROVE m = b
    OBVIOUS
  <2>1. b <= m /\ m <= b /\ m \in Nat
    BY <1>1, <1>2, <1>3 DEF D
  <2> QED BY <2>1
<1>5. Greatest(D) = b
  BY <1>1, <1>2, <1>4 DEF Greatest, D
<1> QED BY <1>5 DEF D

\* Gcd is the function that its recursion describes.
LEMMA GcdUnfolds ==
  \A a, b \in Nat : Gcd[<<a, b>>] = IF b = 0 THEN a ELSE Gcd[<<b, a % b>>]
<1> DEFINE euclid == [p \in Nat \X Nat |-> IF p[2] = 0 THEN p[1] ELSE Greatest(CommonDivisors(p[1], p[2]))]
           body(g) == [p \in Nat \X Nat |-> IF p[2] = 0 THEN p[1] ELSE g[<<p[2], p[1] % p[2]>>]]
<1>1. \A a, b \in Nat : euclid[<<a, b>>] = IF b = 0 THEN a ELSE Greatest(CommonDivisors(a, b))
  OBVIOUS
<1>2. ASSUME NEW a \in Nat, NEW b \in Nat
      PROVE  euclid[<<a, b>>] = IF b = 0 THEN a ELSE euclid[<<b, a % b>>]
  <2> HIDE DEF euclid
  <2>1. CASE b = 0
    BY <1>1, <2>1
  <2>2. CASE b # 0
    <3>1. a % b \in Nat /\ b > 0
      BY <2>2, DivMod
    <3>2. euclid[<<b, a % b>>] = IF a % b = 0 THEN b ELSE Greatest(CommonDivisors(b, a % b))
      <4>1. PICK r \in Nat : r = a % b
        BY <3>1
      <4>2. euclid[<<b, r>>] = IF r = 0 THEN b ELSE Greatest(CommonDivisors(b, r))
        BY <1>1, <2>2
      <4>3. b # 0
        BY <2>2
      <4> QED BY <4>1, <4>2
    <3>3. CommonDivisors(b, a % b) = CommonDivisors(a, b)
      BY <3>1, EuclidStep
    <3>4. Greatest(CommonDivisors(b, 0)) = b
      BY <3>1, DivisorsOfOne
    <3>5. euclid[<<b, a % b>>] = Greatest(CommonDivisors(a, b))
      <4>1. CASE a % b = 0
        BY <3>2, <3>3, <3>4, <4>1
      <4>2. CASE a % b # 0
        BY <3>2, <3>3, <4>2
      <4> QED BY <4>1, <4>2
    <3> QED BY <1>1, <2>2, <3>5
  <2> QED BY <2>1, <2>2
<1>3. euclid = body(euclid)
  <2>1. ASSUME NEW p \in Nat \X Nat
        PROVE  euclid[p] = IF p[2] = 0 THEN p[1] ELSE euclid[<<p[2], p[1] % p[2]>>]
    <3> HIDE DEF euclid
    <3>1. PICK a \in Nat, b \in Nat : p = <<a, b>>
      OBVIOUS
    <3> QED BY <1>2, <3>1
  <2>2. euclid = [p \in Nat \X Nat |-> euclid[p]]
    OBVIOUS
  <2> HIDE DEF euclid
  <2> QED BY <2>1, <2>2
<1>4. Gcd = CHOOSE g : g = body(g)
  BY DEF Gcd
<1> HIDE DEF euclid, body
<1>5. Gcd = body(Gcd)
  BY <1>3, <1>4
<1> USE DEF body
<1> QED BY <1>5

DividesBoth(g, a, b) == g \in Nat /\ Divides(g, a) /\ Divides(g, b) /\ (a > 0 \/ b > 0 => g > 0)

\* Gcd divides both of its arguments.
LEMMA GcdDivides == \A b \in Nat : \A a \in Nat : DividesBoth(Gcd[<<a, b>>], a, b)
<1> DEFINE Bad == {b \in Nat : \E a \in Nat : ~DividesBoth(Gcd[<<a, b>>], a, b)}
<1> SUFFICES ASSUME Bad # {} PROVE FALSE
  OBVIOUS
<1>1. PICK b \in Bad : \A m \in Bad : b <= m
  BY LeastNumber
<1>2. b \in Nat
  OBVIOUS
<1>3. PICK a \in Nat : ~DividesBoth(Gcd[<<a, b>>], a, b)
  OBVIOUS
<1>4. CASE b = 0
  <2>1. Gcd[<<a, b>>] = a
    BY <1>2, <1>4, GcdUnfolds
  <2>2. Divides(a, a) /\ Divides(a, 0)
    BY DividesZero
  <2> QED BY <1>3, <1>4, <2>1, <2>2 DEF DividesBoth
<1>5. CASE b # 0
  <2>1. PICK q \in Int, r \in Nat : r = a % b /\ a = b * q + r /\ r < b
    <3>1. b > 0 /\ a \in Int
      BY <1>2, <1>5
    <3>2. /\ a \div b \in Int /\ a % b \in 0..(b - 1)
          /\ a = b * (a \div b) + (a % b)
      BY <1>2, <3>1, DivMod
    <3>3. a % b \in Nat /\ a % b < b
      BY <1>2, <3>2
    <3> QED BY <3>2, <3>3
  <2>2. DividesBoth(Gcd[<<b, r>>], b, r)
    <3>0. r < b /\ b \in Nat
      BY <1>2, <2>1
    <3>1. r \notin Bad
      BY <1>1, <3>0
    <3> QED BY <1>2, <3>1
  <2>3. PICK g \in Nat : g = Gcd[<<b, r>>] /\ Divides(g, b) /\ Divides(g, r) /\ g > 0
    BY <1>2, <1>5, <2>2 DEF DividesBoth
  <2>4. Gcd[<<a, b>>] = g
    BY <1>2, <1>5, <2>1, <2>3, GcdUnfolds
  <2>5. Divides(g, a)
    <3>1. g \in Int /\ r \in Int /\ b \in Int /\ a \in Int /\ a = r + q * b
      BY <1>2, <2>1
    <3> QED BY <2>3, <3>1, DividesSum
  <2> QED BY <1>3, <2>3, <2>4, <2>5 DEF DividesBoth
<1> QED BY <1>4, <1>5

-----------------------------------------------------------------------------
\* Fractions as integers over a common denominator: x is u / D.
Rational == [num : Int, den : Nat \ {0}]
Means(x, u, D) == x \in Rational /\ u \in Int /\ D \in Nat \ {0} /\ x.num * D = u * x.den

\* A factor that is not zero can be cancelled.
LEMMA Cancel ==
  ASSUME NEW x \in Int, NEW y \in Int, NEW d \in Int, d # 0, x * d = y * d
  PROVE  x = y
<1>1. (x - y) * d = 0
  OBVIOUS
<1>2. x - y = 0
  BY <1>1
<1> QED BY <1>2

\* Ratio reduces by a common factor.
LEMMA RatioParts ==
  ASSUME NEW n \in Int, NEW d \in Nat \ {0}
  PROVE  \E g \in Nat \ {0}, k \in Int, l \in Nat \ {0} :
             n = g * k /\ d = g * l /\ Ratio(n, d) = [num |-> k, den |-> l]
<1>1. Abs(n) \in Nat /\ (Abs(n) = n \/ Abs(n) = -n)
  BY DEF Abs
<1>2. PICK m \in Nat : m = Abs(n)
  BY <1>1
<1>3. PICK g \in Nat : g = Gcd[<<d, m>>] /\ Divides(g, d) /\ Divides(g, m) /\ g > 0
  BY GcdDivides DEF DividesBoth
<1>4. PICK l \in Int : d = g * l
  BY <1>3 DEF Divides
<1>5. PICK j \in Int : m = g * j
  BY <1>3 DEF Divides
<1>6. \E k \in Int : n = g * k
  <2>1. CASE m = n
    BY <1>5, <2>1
  <2>2. CASE m = -n
    <3>1. n = g * (-j) /\ -j \in Int
      BY <1>5, <2>2
    <3> QED BY <3>1
  <2> QED BY <1>1, <1>2, <2>1, <2>2
<1>7. PICK k \in Int : n = g * k
  BY <1>6
<1>8. n \div g = k /\ d \div g = l
  BY <1>3, <1>4, <1>7, Exact
<1>9. l > 0
  BY <1>3, <1>4
<1>10. Ratio(n, d) = [num |-> n \div g, den |-> d \div g]
  BY <1>2, <1>3 DEF Ratio
<1>11. g \in Nat \ {0} /\ l \in Nat \ {0} /\ Ratio(n, d) = [num |-> k, den |-> l]
  BY <1>3, <1>8, <1>9, <1>10
<1> QED BY <1>4, <1>7, <1>11

LEMMA RatioMeans ==
  ASSUME NEW n \in Int, NEW d \in Nat \ {0}, NEW u \in Int, NEW D \in Nat \ {0}, n * D = u * d
  PROVE  Means(Ratio(n, d), u, D)
<1>1. PICK g \in Nat \ {0}, k \in Int, l \in Nat \ {0} :
          n = g * k /\ d = g * l /\ Ratio(n, d) = [num |-> k, den |-> l]
  BY RatioParts
<1>2. (k * D) * g = (u * l) * g
  <2>1. (g * k) * D = u * (g * l)
    BY <1>1
  <2>2. (g * k) * D = (k * D) * g /\ u * (g * l) = (u * l) * g
    OBVIOUS
  <2> QED BY <2>1, <2>2
<1>3. k * D = u * l
  <2>1. k * D \in Int /\ u * l \in Int /\ g \in Int /\ g # 0
    OBVIOUS
  <2> QED BY <1>2, <2>1, Cancel
<1> QED BY <1>1, <1>3 DEF Means, Rational

\* What the operators on fractions do to the integers over a common denominator.
LEMMA WholeMeans ==
  ASSUME NEW n \in Int, NEW D \in Nat \ {0}
  PROVE  Means(Whole(n), n * D, D)
BY DEF Means, Whole, Rational

LEMMA ScaleMeans ==
  ASSUME NEW n \in Int, NEW a, NEW u, NEW D, Means(a, u, D)
  PROVE  Means(Scale(n, a), n * u, D)
<1>1. PICK x \in Int, d \in Nat \ {0} : x = a.num /\ d = a.den
  BY DEF Means, Rational
<1>2. u \in Int /\ D \in Nat \ {0} /\ x * D = u * d
  BY <1>1 DEF Means
<1>3. (n * x) * D = (n * u) * d /\ n * x \in Int /\ n * u \in Int
  <2>1. (n * x) * D = n * (x * D) /\ (n * u) * d = n * (u * d)
    BY <1>2
  <2> QED BY <1>2, <2>1
<1>4. Scale(n, a) = Ratio(n * x, d)
  BY <1>1 DEF Scale
<1> QED BY <1>2, <1>3, <1>4, RatioMeans

LEMMA OverMeans ==
  ASSUME NEW n \in Nat \ {0}, NEW a, NEW u \in Int, NEW D, Means(a, u * n, D)
  PROVE  Means(Over(a, n), u, D)
<1>1. PICK x \in Int, d \in Nat \ {0} : x = a.num /\ d = a.den
  BY DEF Means, Rational
<1>2. D \in Nat \ {0} /\ x * D = (u * n) * d
  BY <1>1 DEF Means
<1>3. x * D = u * (d * n) /\ d * n \in Nat \ {0}
  <2>1. (u * n) * d = u * (d * n)
    OBVIOUS
  <2> QED BY <1>2, <2>1
<1>4. Over(a, n) = Ratio(x, d * n)
  BY <1>1 DEF Over
<1> QED BY <1>2, <1>3, <1>4, RatioMeans

LEMMA PlusMeans ==
  ASSUME NEW a, NEW b, NEW u, NEW v, NEW D, Means(a, u, D), Means(b, v, D)
  PROVE  Means(Plus(a, b), u + v, D)
<1>1. PICK x \in Int, d \in Nat \ {0}, y \in Int, e \in Nat \ {0} :
          x = a.num /\ d = a.den /\ y = b.num /\ e = b.den
  BY DEF Means, Rational
<1>2. u \in Int /\ v \in Int /\ D \in Nat \ {0} /\ x * D = u * d /\ y * D = v * e
  BY <1>1 DEF Means
<1>3. PICK g \in Nat : g = Gcd[<<d, e>>] /\ Divides(g, d) /\ Divides(g, e) /\ g > 0
  BY GcdDivides DEF DividesBoth
<1>4. PICK k \in Int : d = g * k
  BY <1>3 DEF Divides
<1>5. PICK l \in Int : e = g * l
  BY <1>3 DEF Divides
<1>6. e \div g = l /\ d \div g = k
  BY <1>3, <1>4, <1>5, Exact
<1>7. PICK n \in Int, f \in Int : n = x * l + y * k /\ f = k * e
  OBVIOUS
<1>8. f \in Nat \ {0}
  <2>1. k > 0
    BY <1>3, <1>4
  <2> QED BY <1>7, <2>1
<1>9. Plus(a, b) = Ratio(n, f)
  BY <1>1, <1>3, <1>6, <1>7 DEF Plus
<1>10. n * D = (u + v) * f
  <2>1. n * D = (x * D) * l + (y * D) * k
    BY <1>2, <1>7
  <2>2. n * D = (u * d) * l + (v * e) * k
    BY <1>2, <2>1
  <2>3. (u * d) * l = u * (k * e)
    BY <1>2, <1>4, <1>5
  <2>4. (v * e) * k = v * (k * e)
    BY <1>2
  <2>5. (u + v) * (k * e) = u * (k * e) + v * (k * e)
    BY <1>2
  <2> QED BY <1>7, <2>2, <2>3, <2>4, <2>5
<1> QED BY <1>2, <1>7, <1>8, <1>9, <1>10, RatioMeans

\* The denominator can be any multiple.
LEMMA MeansTimes ==
  ASSUME NEW x, NEW u, NEW D, Means(x, u, D), NEW n \in Nat \ {0}
  PROVE  Means(x, n * u, n * D)
<1>1. PICK k \in Int, d \in Nat \ {0} : k = x.num /\ d = x.den
  BY DEF Means, Rational
<1>2. u \in Int /\ D \in Nat \ {0} /\ k * D = u * d /\ x \in Rational
  BY <1>1 DEF Means
<1>3. k * (n * D) = (n * u) * d /\ n * u \in Int /\ n * D \in Nat \ {0}
  <2>1. k * (n * D) = n * (k * D) /\ (n * u) * d = n * (u * d)
    BY <1>2
  <2> QED BY <1>2, <2>1
<1> QED BY <1>1, <1>2, <1>3 DEF Means

\* Three fractions have a common denominator.
LEMMA CommonDenominator ==
  ASSUME NEW x \in Rational, NEW y \in Rational, NEW z \in Rational
  PROVE  \E D \in Nat \ {0}, u, v, w \in Int : Means(x, u, D) /\ Means(y, v, D) /\ Means(z, w, D)
<1>1. PICK a \in Int, d \in Nat \ {0} : a = x.num /\ d = x.den
  BY DEF Rational
<1>2. PICK b \in Int, e \in Nat \ {0} : b = y.num /\ e = y.den
  BY DEF Rational
<1>3. PICK c \in Int, f \in Nat \ {0} : c = z.num /\ f = z.den
  BY DEF Rational
<1>4. Means(x, a, d) /\ Means(y, b, e) /\ Means(z, c, f)
  BY <1>1, <1>2, <1>3 DEF Means
<1>5. PICK ef \in Nat \ {0}, df \in Nat \ {0}, de \in Nat \ {0} : ef = e * f /\ df = d * f /\ de = d * e
  OBVIOUS
<1>6. Means(x, ef * a, ef * d) /\ Means(y, df * b, df * e) /\ Means(z, de * c, de * f)
  BY <1>4, <1>5, MeansTimes
<1>7. ef * d = de * f /\ df * e = de * f /\ de * f \in Nat \ {0}
  BY <1>5
<1>8. ef * a \in Int /\ df * b \in Int /\ de * c \in Int
  OBVIOUS
<1> QED BY <1>6, <1>7, <1>8

\* Comparisons and positive factors.
LEMMA CancelAtMost ==
  ASSUME NEW x \in Int, NEW y \in Int, NEW d \in Int, d > 0, x * d <= y * d
  PROVE  x <= y
<1> SUFFICES ASSUME x > y PROVE FALSE
  OBVIOUS
<1>1. (x - y) * d > 0
  OBVIOUS
<1> QED BY <1>1

LEMMA Grows ==
  ASSUME NEW x \in Int, NEW y \in Int, NEW d \in Int, d >= 0, x <= y
  PROVE  x * d <= y * d
<1>1. (y - x) * d >= 0
  OBVIOUS
<1> QED BY <1>1

\* Fractions compare as the integers do.
LEMMA SameMeans ==
  ASSUME NEW x, NEW y, NEW u, NEW D, Means(x, u, D), Means(y, u, D)
  PROVE  Same(x, y)
<1>1. PICK a \in Int, d \in Nat \ {0} : a = x.num /\ d = x.den
  BY DEF Means, Rational
<1>2. PICK b \in Int, e \in Nat \ {0} : b = y.num /\ e = y.den
  BY DEF Means, Rational
<1>3. u \in Int /\ D \in Nat \ {0} /\ a * D = u * d /\ b * D = u * e
  BY <1>1, <1>2 DEF Means
<1>4. (a * e) * D = (b * d) * D
  <2>1. (a * e) * D = (a * D) * e /\ (b * d) * D = (b * D) * d
    BY <1>3
  <2>2. (u * d) * e = (u * e) * d
    BY <1>3
  <2> QED BY <1>3, <2>1, <2>2
<1>5. a * e = b * d
  <2>1. a * e \in Int /\ b * d \in Int /\ D \in Int /\ D # 0
    BY <1>3
  <2> QED BY <1>4, <2>1, Cancel
<1> QED BY <1>1, <1>2, <1>5 DEF Same

LEMMA MeansSame ==
  ASSUME NEW x, NEW y, NEW u, NEW v, NEW D, Means(x, u, D), Means(y, v, D), Same(x, y)
  PROVE  u = v
<1>1. PICK a \in Int, d \in Nat \ {0} : a = x.num /\ d = x.den
  BY DEF Means, Rational
<1>2. PICK b \in Int, e \in Nat \ {0} : b = y.num /\ e = y.den
  BY DEF Means, Rational
<1>3. u \in Int /\ v \in Int /\ D \in Nat \ {0} /\ a * D = u * d /\ b * D = v * e /\ a * e = b * d
  BY <1>1, <1>2 DEF Means, Same
<1>4. u * (d * e) = v * (d * e)
  <2>1. u * (d * e) = (u * d) * e /\ v * (d * e) = (v * e) * d
    BY <1>3
  <2>2. (a * D) * e = (a * e) * D /\ (b * D) * d = (b * d) * D
    BY <1>3
  <2> QED BY <1>3, <2>1, <2>2
<1>5. d * e \in Int /\ d * e # 0
  OBVIOUS
<1> QED BY <1>3, <1>4, <1>5, Cancel

LEMMA MeansAtMost ==
  ASSUME NEW x, NEW y, NEW u, NEW v, NEW D, Means(x, u, D), Means(y, v, D)
  PROVE  AtMost(x, y) <=> u <= v
<1>1. PICK a \in Int, d \in Nat \ {0} : a = x.num /\ d = x.den
  BY DEF Means, Rational
<1>2. PICK b \in Int, e \in Nat \ {0} : b = y.num /\ e = y.den
  BY DEF Means, Rational
<1>3. u \in Int /\ v \in Int /\ D \in Nat \ {0} /\ a * D = u * d /\ b * D = v * e
  BY <1>1, <1>2 DEF Means
<1>4. PICK de \in Int, ae \in Int, bd \in Int : de = d * e /\ ae = a * e /\ bd = b * d
  OBVIOUS
<1>5. ae * D = u * de /\ bd * D = v * de
  <2>1. (a * e) * D = (a * D) * e /\ (b * d) * D = (b * D) * d
    BY <1>3
  <2>2. (u * d) * e = u * (d * e) /\ (v * e) * d = v * (d * e)
    BY <1>3
  <2> QED BY <1>3, <1>4, <2>1, <2>2
<1>6. de > 0 /\ D \in Int /\ D > 0 /\ D >= 0 /\ de >= 0
  BY <1>3, <1>4
<1>7. ASSUME ae <= bd PROVE u <= v
  <2>1. ae * D <= bd * D
    BY <1>6, <1>7, Grows
  <2>2. u * de <= v * de
    BY <1>5, <2>1
  <2> QED BY <1>3, <1>6, <2>2, CancelAtMost
<1>8. ASSUME u <= v PROVE ae <= bd
  <2>1. u * de <= v * de
    BY <1>3, <1>6, <1>8, Grows
  <2>2. ae * D <= bd * D
    BY <1>5, <2>1
  <2> QED BY <1>6, <2>2, CancelAtMost
<1>9. AtMost(x, y) <=> ae <= bd
  BY <1>1, <1>2, <1>4 DEF AtMost
<1> QED BY <1>7, <1>8, <1>9

\* ---- fractions in a range ----
Within(lo, x, hi) == x \in Rational /\ AtMost(Whole(lo), x) /\ AtMost(x, Whole(hi))
NotNegative(x) == x \in Rational /\ AtMost(Whole(0), x)

\* Two fractions have a common denominator.
LEMMA CommonOfTwo ==
  ASSUME NEW x \in Rational, NEW y \in Rational
  PROVE  \E D \in Nat \ {0}, u, v \in Int : Means(x, u, D) /\ Means(y, v, D)
BY CommonDenominator

LEMMA MeansWithin ==
  ASSUME NEW x, NEW u, NEW D, Means(x, u, D), NEW n \in Int
  PROVE  /\ AtMost(Whole(n), x) <=> n * D <= u
         /\ AtMost(x, Whole(n)) <=> u <= n * D
<1>1. D \in Nat \ {0}
  BY DEF Means
<1>2. Means(Whole(n), n * D, D)
  BY <1>1, WholeMeans
<1> QED BY <1>2, MeansAtMost

LEMMA MeansLess ==
  ASSUME NEW x, NEW y, NEW u, NEW v, NEW D, Means(x, u, D), Means(y, v, D)
  PROVE  Less(x, y) <=> u < v
<1>1. AtMost(y, x) <=> v <= u
  BY MeansAtMost
<1>2. x.num \in Int /\ x.den \in Int /\ y.num \in Int /\ y.den \in Int /\ u \in Int /\ v \in Int
  BY DEF Means, Rational
<1>3. PICK a \in Int, b \in Int : a = x.num * y.den /\ b = y.num * x.den
  BY <1>2
<1>4. (AtMost(y, x) <=> b <= a) /\ (Less(x, y) <=> a < b)
  BY <1>3 DEF AtMost, Less
<1> QED BY <1>1, <1>2, <1>4

LEMMA MinusMeans ==
  ASSUME NEW a, NEW b, NEW u, NEW v, NEW D, Means(a, u, D), Means(b, v, D)
  PROVE  Means(Minus(a, b), u - v, D)
<1>1. u \in Int /\ v \in Int
  BY DEF Means
<1> DEFINE m == -1
<1>2. Means(Scale(m, b), m * v, D)
  <2>1. m \in Int
    OBVIOUS
  <2> HIDE DEF m
  <2> QED BY <2>1, ScaleMeans
<1>3. Means(Plus(a, Scale(m, b)), u + (m * v), D)
  <2> HIDE DEF m
  <2> QED BY <1>2, PlusMeans
<1>4. u + (m * v) = u - v
  BY <1>1
<1> QED BY <1>3, <1>4 DEF Minus

LEMMA MagnitudeMeans ==
  ASSUME NEW a, NEW u, NEW D, Means(a, u, D)
  PROVE  Means(Magnitude(a), Abs(u), D)
<1>1. PICK x \in Int, d \in Nat \ {0} : a = [num |-> x, den |-> d]
  BY DEF Means, Rational
<1>2. u \in Int /\ D \in Nat \ {0} /\ x * D = u * d
  BY <1>1 DEF Means
<1>3. Magnitude(a) = [num |-> Abs(x), den |-> d]
  BY <1>1 DEF Magnitude
<1>4. Abs(x) \in Int /\ Abs(u) \in Int
  BY <1>2 DEF Abs
<1>5. Abs(x) * D = Abs(u) * d
  <2>1. CASE x < 0
    <3>1. x * D < 0
      BY <1>2, <2>1
    <3>2. u < 0
      <4> SUFFICES ASSUME u >= 0 PROVE FALSE
        BY <1>2
      <4>1. u * d >= 0
        BY <1>2
      <4> QED BY <1>2, <3>1, <4>1
    <3>3. (-x) * D = -(x * D) /\ (-u) * d = -(u * d)
      BY <1>2
    <3> QED BY <1>2, <2>1, <3>2, <3>3 DEF Abs
  <2>2. CASE x >= 0
    <3>1. x * D >= 0
      BY <1>2, <2>2
    <3>2. u >= 0
      <4> SUFFICES ASSUME u < 0 PROVE FALSE
        BY <1>2
      <4>1. u * d < 0
        BY <1>2
      <4> QED BY <1>2, <3>1, <4>1
    <3> QED BY <1>2, <2>2, <3>2 DEF Abs
  <2> QED BY <2>1, <2>2
<1> QED BY <1>2, <1>3, <1>4, <1>5 DEF Means, Rational

\* A quotient of u by v, which is positive.
LEMMA DivideMeans ==
  ASSUME NEW a, NEW b, NEW u, NEW v, NEW D, Means(a, u, D), Means(b, v, D), v > 0
  PROVE  Means(Divide(a, b), u, v)
<1>1. PICK x \in Int, d \in Nat \ {0} : x = a.num /\ d = a.den
  BY DEF Means, Rational
<1>2. PICK y \in Int, e \in Nat \ {0} : y = b.num /\ e = b.den
  BY DEF Means, Rational
<1>3. u \in Int /\ v \in Nat \ {0} /\ D \in Nat \ {0} /\ x * D = u * d /\ y * D = v * e
  BY <1>1, <1>2 DEF Means
<1>4. y > 0
  <2> SUFFICES ASSUME y <= 0 PROVE FALSE
    OBVIOUS
  <2>1. y * D <= 0
    BY <1>3
  <2>2. v * e > 0
    BY <1>3
  <2> QED BY <1>3, <2>1, <2>2
<1>5. PICK n \in Int, f \in Nat \ {0} : n = x * e /\ f = d * y
  BY <1>4
<1>6. Divide(a, b) = Ratio(n, f)
  <2>1. Sign(y) = 1 /\ Abs(y) = y
    BY <1>4 DEF Sign, Abs
  <2>2. (x * e) * 1 = x * e
    OBVIOUS
  <2> QED BY <1>1, <1>2, <1>5, <2>1, <2>2 DEF Divide
<1>7. (n * v) * D = (u * f) * D
  <2>1. (n * v) * D = (x * D) * (v * e)
    BY <1>3, <1>5
  <2>2. (u * f) * D = (u * d) * (y * D)
    BY <1>3, <1>5
  <2>3. (x * D) * (v * e) = (u * d) * (y * D)
    BY <1>3
  <2> QED BY <2>1, <2>2, <2>3
<1>8. n * v = u * f
  <2>1. n * v \in Int /\ u * f \in Int /\ D \in Int /\ D # 0
    BY <1>3
  <2> QED BY <1>7, <2>1, Cancel
<1> QED BY <1>3, <1>6, <1>8, RatioMeans

\* An average with the weights a and b stays between what it averages.
LEMMA AverageWithin ==
  ASSUME NEW lo \in Int, NEW hi \in Int, NEW a \in Nat, NEW b \in Nat, NEW n \in Nat \ {0}, n = a + b,
         NEW D \in Nat \ {0}, NEW u \in Int, NEW v \in Int, NEW w, Means(w, a * u + b * v, n * D),
         lo * D <= u, u <= hi * D, lo * D <= v, v <= hi * D
  PROVE  Within(lo, w, hi)
<1>1. PICK l \in Int, h \in Int : l = lo * D /\ h = hi * D
  OBVIOUS
<1>2. l * a <= u * a /\ u * a <= h * a /\ l * b <= v * b /\ v * b <= h * b
  <2>1. l \in Int /\ h \in Int /\ l <= u /\ u <= h /\ l <= v /\ v <= h /\ a \in Int /\ b \in Int /\ a >= 0 /\ b >= 0
    BY <1>1
  <2> QED BY ONLY <2>1, u \in Int, v \in Int, Grows
<1>3. l * n = l * a + l * b /\ h * n = h * a + h * b /\ a * u = u * a /\ b * v = v * b
  OBVIOUS
<1>4. lo * (n * D) = l * n /\ hi * (n * D) = h * n
  BY <1>1
<1>5. lo * (n * D) <= a * u + b * v /\ a * u + b * v <= hi * (n * D)
  <2>1. PICK p \in Int, q \in Int, r \in Int, s \in Int, x \in Int, y \in Int :
          p = l * a /\ q = u * a /\ r = h * a /\ s = l * b /\ x = v * b /\ y = h * b
    OBVIOUS
  <2>2. p <= q /\ q <= r /\ s <= x /\ x <= y
    BY <1>2, <2>1
  <2>3. p + s <= q + x /\ q + x <= r + y
    BY <2>2
  <2> QED BY <1>3, <1>4, <2>1, <2>3
<1>6. w \in Rational
  BY DEF Means
<1> QED BY <1>5, <1>6, MeansWithin DEF Within

\* ---- lowest terms ----
\* Division with remainder has one result.
LEMMA Remainder ==
  ASSUME NEW b \in Nat, b > 0, NEW q \in Int, NEW r \in Nat, r < b, NEW a, a = b * q + r
  PROVE  a % b = r
<1>1. PICK p \in Int, s \in Nat : a = b * p + s /\ s = a % b /\ s < b
  <2>1. a \in Int
    OBVIOUS
  <2>2. a \div b \in Int /\ a % b \in 0..(b - 1) /\ a = b * (a \div b) + (a % b)
    BY <2>1, DivMod
  <2>3. a % b \in Nat /\ a % b < b
    BY <2>2
  <2> QED BY <2>2, <2>3
<1>2. PICK k \in Int : k = q - p
  BY <1>1
<1>3. b * k = s - r
  <2>1. b * k = b * q - b * p
    BY <1>1, <1>2
  <2> QED BY <1>1, <2>1
<1>4. k = 0
  <2>1. CASE k >= 1
    <3>1. b * k >= b
      BY <2>1
    <3> QED BY <1>1, <1>3, <3>1
  <2>2. CASE k <= -1
    <3>1. b * k <= -b
      BY <2>2
    <3> QED BY <1>1, <1>3, <3>1
  <2> QED BY <1>2, <2>1, <2>2
<1>5. b * k = 0
  BY <1>4
<1>6. s = r
  BY <1>3, <1>5
<1>7. a % b = s
  BY <1>1
<1> QED BY ONLY <1>6, <1>7

LEMMA RemainderScales ==
  ASSUME NEW k \in Nat, k > 0, NEW a \in Nat, NEW b \in Nat, b > 0
  PROVE  (k * a) % (k * b) = k * (a % b)
<1>1. PICK q \in Int, r \in Nat : a = b * q + r /\ r = a % b /\ r < b
  <2>1. a \in Int
    OBVIOUS
  <2>2. a \div b \in Int /\ a % b \in 0..(b - 1) /\ a = b * (a \div b) + (a % b)
    BY <2>1, DivMod
  <2>3. a % b \in Nat /\ a % b < b
    BY <2>2
  <2> QED BY <2>2, <2>3
<1>2. PICK c \in Nat, s \in Nat, e \in Nat : c = k * b /\ s = k * r /\ e = k * a
  OBVIOUS
<1>3. e = c * q + s
  <2>1. k * (b * q + r) = (k * b) * q + k * r
    OBVIOUS
  <2> QED BY <1>1, <1>2, <2>1
<1>4. c > 0 /\ s < c
  <2>1. k * (b - r) > 0
    BY <1>1
  <2>2. k * (b - r) = k * b - k * r
    OBVIOUS
  <2> QED BY <1>2, <2>1, <2>2
<1>5. e % c = s
  <2>1. c \in Nat /\ c > 0 /\ q \in Int /\ s \in Nat /\ s < c /\ e = c * q + s
    BY <1>2, <1>3, <1>4
  <2> QED BY ONLY <2>1, Remainder
<1> QED BY <1>1, <1>2, <1>5

\* A common factor is a factor of the greatest common divisor.
LEMMA GcdScales ==
  ASSUME NEW k \in Nat, k > 0
  PROVE  \A b \in Nat : \A a \in Nat : Gcd[<<k * a, k * b>>] = k * Gcd[<<a, b>>]
<1> DEFINE Bad == {b \in Nat : \E a \in Nat : Gcd[<<k * a, k * b>>] # k * Gcd[<<a, b>>]}
<1> SUFFICES ASSUME Bad # {} PROVE FALSE
  OBVIOUS
<1>1. PICK b \in Bad : \A m \in Bad : b <= m
  BY LeastNumber
<1>2. b \in Nat
  OBVIOUS
<1>3. PICK a \in Nat : Gcd[<<k * a, k * b>>] # k * Gcd[<<a, b>>]
  OBVIOUS
<1>4. PICK c \in Nat, e \in Nat : c = k * b /\ e = k * a
  BY <1>2
<1>5. CASE b = 0
  <2>1. c = 0
    BY <1>4, <1>5
  <2>2. Gcd[<<a, b>>] = a /\ Gcd[<<e, c>>] = e
    BY <1>2, <1>5, <2>1, GcdUnfolds
  <2> QED BY <1>3, <1>4, <2>2
<1>6. CASE b # 0
  <2>1. c > 0
    BY <1>2, <1>4, <1>6
  <2>2. PICK r \in Nat : r = a % b /\ r < b
    <3>1. b > 0 /\ a \in Int
      BY <1>2, <1>6
    <3>2. a % b \in 0..(b - 1)
      BY <1>2, <3>1, DivMod
    <3> QED BY <1>2, <3>2
  <2>3. e % c = k * r
    <3>1. b \in Nat /\ b > 0 /\ k \in Nat /\ k > 0 /\ a \in Nat
      BY <1>2, <1>6
    <3>2. (k * a) % (k * b) = k * (a % b)
      BY ONLY <3>1, RemainderScales
    <3> QED BY ONLY <1>4, <2>2, <3>2
  <2>4. Gcd[<<a, b>>] = Gcd[<<b, r>>]
    BY <1>2, <1>6, <2>2, GcdUnfolds
  <2>4a. Gcd[<<e, c>>] = Gcd[<<c, k * r>>]
    <3>1. Gcd[<<e, c>>] = Gcd[<<c, e % c>>]
      <4>1. c # 0
        BY <2>1
      <4> QED BY ONLY <4>1, e \in Nat, c \in Nat, GcdUnfolds
    <3> QED BY <2>3, <3>1
  <2>5. r \notin Bad
    <3>1. ~(b <= r)
      BY <1>2, <2>2
    <3> HIDE DEF Bad
    <3> QED BY <1>1, <3>1
  <2>6. Gcd[<<k * b, k * r>>] = k * Gcd[<<b, r>>]
    BY <1>2, <2>2, <2>5
  <2> QED BY <1>3, <1>4, <2>4, <2>4a, <2>6
<1> QED BY <1>5, <1>6

\* Expanding a fraction does not change its lowest terms.
LEMMA RatioScales ==
  ASSUME NEW k \in Nat \ {0}, NEW n \in Int, NEW d \in Nat \ {0}
  PROVE  Ratio(k * n, k * d) = Ratio(n, d)
<1>1. PICK m \in Nat : m = Abs(n)
  BY DEF Abs
<1>2. PICK g \in Nat : g = Gcd[<<d, m>>] /\ Divides(g, d) /\ Divides(g, m) /\ g > 0
  BY GcdDivides DEF DividesBoth
<1>3. PICK l \in Int : d = g * l
  BY <1>2 DEF Divides
<1>4. PICK j \in Int : m = g * j
  BY <1>2 DEF Divides
<1>5. PICK i \in Int : n = g * i
  <2>1. m = n \/ m = -n
    BY <1>1 DEF Abs
  <2>2. n = g * j \/ n = g * (-j)
    BY <1>4, <2>1
  <2> QED BY <2>2
<1>6. PICK e \in Nat, kn \in Int, km \in Nat, kg \in Nat : e = k * d /\ kn = k * n /\ km = k * m /\ kg = k * g
  OBVIOUS
<1>7. Abs(kn) = km
  <2>1. CASE n < 0
    <3>1. kn < 0 /\ m = -n /\ km = -kn
      BY <1>1, <1>6, <2>1 DEF Abs
    <3> QED BY <3>1 DEF Abs
  <2>2. CASE n >= 0
    <3>1. kn >= 0 /\ m = n /\ km = kn
      BY <1>1, <1>6, <2>2 DEF Abs
    <3> QED BY <3>1 DEF Abs
  <2> QED BY <2>1, <2>2
<1>8. Gcd[<<e, km>>] = kg
  BY <1>2, <1>6, GcdScales
<1>9. kg > 0 /\ kn = kg * i /\ e = kg * l
  <2>1. k * (g * i) = (k * g) * i /\ k * (g * l) = (k * g) * l
    OBVIOUS
  <2>2. k * g > 0
    BY <1>2
  <2> QED BY <1>3, <1>5, <1>6, <2>1, <2>2
<1>10. kn \div kg = i /\ e \div kg = l
  BY <1>9, Exact
<1>11. n \div g = i /\ d \div g = l
  BY <1>2, <1>3, <1>5, Exact
<1>12. Ratio(kn, e) = [num |-> i, den |-> l]
  BY <1>7, <1>8, <1>10 DEF Ratio
<1>13. Ratio(n, d) = [num |-> i, den |-> l]
  BY <1>1, <1>2, <1>11 DEF Ratio
<1> QED BY <1>6, <1>12, <1>13

\* Fractions of the same value have the same lowest terms.
LEMMA RatioOnly ==
  ASSUME NEW n \in Int, NEW d \in Nat \ {0}, NEW m \in Int, NEW e \in Nat \ {0}, n * e = m * d
  PROVE  Ratio(n, d) = Ratio(m, e)
<1>1. Ratio(e * n, e * d) = Ratio(n, d) /\ Ratio(d * m, d * e) = Ratio(m, e)
  BY RatioScales
<1>2. e * n = d * m /\ e * d = d * e
  OBVIOUS
<1> QED BY <1>1, <1>2

\* A sum of values each within a multiple of its weight is within that multiple of the weights.
LEMMA SumBounds ==
  ASSUME NEW f, NEW w, NEW S, IsFiniteSet(S), NEW lo \in Int, NEW hi \in Int,
         \A x \in S : f[x] \in Int /\ w[x] \in Int /\ lo * w[x] <= f[x] /\ f[x] <= hi * w[x]
  PROVE  /\ lo * SumFunctionOnSet(w, S) <= SumFunctionOnSet(f, S)
         /\ SumFunctionOnSet(f, S) <= hi * SumFunctionOnSet(w, S)
<1> DEFINE Good(T) == /\ lo * SumFunctionOnSet(w, T) <= SumFunctionOnSet(f, T)
                      /\ SumFunctionOnSet(f, T) <= hi * SumFunctionOnSet(w, T)
           Bad == {T \in SUBSET S : ~Good(T)}
<1>1. CASE Bad # {}
  <2>1. PICK A \in Bad : \A B \in SUBSET A : B # A => B \notin Bad
    <3> HIDE DEF Bad
    <3>1. Bad \in SUBSET (SUBSET S)
      BY DEF Bad
    <3> QED BY <1>1, <3>1, Minimal
  <2>2. A \in SUBSET S /\ ~Good(A)
    OBVIOUS
  <2>3. CASE A = {}
    <3>1. SumFunctionOnSet(w, A) = 0 /\ SumFunctionOnSet(f, A) = 0
      BY <2>3, SumEmpty
    <3>2. Good(A)
      BY <3>1
    <3> QED BY <2>2, <3>2
  <2>4. CASE A # {}
    <3>1. PICK x \in A : TRUE
      BY <2>4
    <3> DEFINE B == A \ {x}
    <3>2. B \in SUBSET A /\ B # A /\ B \in SUBSET S /\ IsFiniteSet(A) /\ IsFiniteSet(B)
      BY <2>2, <3>1, FS_Subset
    <3>3. B \notin Bad
      <4> HIDE DEF Bad, B
      <4> QED BY <2>1, <3>2
    <3>4. Good(B)
      BY <3>2, <3>3
    <3>5. PICK fx \in Int, wx \in Int : fx = f[x] /\ wx = w[x] /\ lo * wx <= fx /\ fx <= hi * wx
      BY <2>2, <3>1
    <3>6. PICK sf \in Int, sw \in Int : sf = SumFunctionOnSet(f, B) /\ sw = SumFunctionOnSet(w, B)
      <4> HIDE DEF B, Good, Bad
      <4>1. \A y \in B : f[y] \in Int /\ w[y] \in Int
        BY <3>2
      <4>2. SumFunctionOnSet(f, B) \in Int /\ SumFunctionOnSet(w, B) \in Int
        BY <3>2, <4>1, SumType
      <4> QED BY <4>2
    <3>7. SumFunctionOnSet(f, A) = fx + sf /\ SumFunctionOnSet(w, A) = wx + sw
      <4>1. \A y \in A : f[y] \in Int /\ w[y] \in Int
        BY <2>2
      <4>2. SumFunctionOnSet(f, A) = f[x] + SumFunctionOnSet(f, A \ {x})
        <5> HIDE DEF Good, Bad
        <5> QED BY <3>1, <3>2, <4>1, SumRemove
      <4>3. SumFunctionOnSet(w, A) = w[x] + SumFunctionOnSet(w, A \ {x})
        <5> HIDE DEF Good, Bad
        <5> QED BY <3>1, <3>2, <4>1, SumRemove
      <4> QED BY <3>5, <3>6, <4>2, <4>3
    <3>8. lo * sw <= sf /\ sf <= hi * sw
      BY <3>4, <3>6
    <3>9. lo * (wx + sw) = lo * wx + lo * sw /\ hi * (wx + sw) = hi * wx + hi * sw
      OBVIOUS
    <3>10. PICK a \in Int, b \in Int, c \in Int, d \in Int :
             a = lo * wx /\ b = lo * sw /\ c = hi * wx /\ d = hi * sw
      OBVIOUS
    <3>11. lo * (wx + sw) <= fx + sf /\ fx + sf <= hi * (wx + sw)
      BY <3>5, <3>8, <3>9, <3>10
    <3>12. Good(A)
      BY <3>7, <3>11
    <3> QED BY <2>2, <3>12
  <2> QED BY <2>3, <2>4
<1>2. CASE Bad = {}
  <2>1. S \notin Bad
    BY <1>2
  <2>2. Good(S)
    BY <2>1
  <2> QED BY <2>2
<1> QED BY <1>1, <1>2

\* A sum of ones counts.
LEMMA SumOnes ==
  ASSUME NEW f, NEW a \in Int, NEW n \in Nat, \A i \in a + 1 .. a + n : f[i] = 1
  PROVE  SumFunctionOnSet(f, a + 1 .. a + n) = n
<1> DEFINE Good(m) == SumFunctionOnSet(f, a + 1 .. a + m) = m
           Bad == {m \in 0..n : ~Good(m)}
<1>1. CASE Bad # {}
  <2>1. PICK m \in Bad : \A k \in Bad : m <= k
    <3> HIDE DEF Bad
    <3>1. Bad \in SUBSET Nat
      BY DEF Bad
    <3> QED BY <1>1, <3>1, LeastNumber
  <2>2. m \in 0..n /\ ~Good(m)
    OBVIOUS
  <2>3. CASE m = 0
    <3>1. a + 1 .. a + m = {}
      BY <2>3
    <3>2. SumFunctionOnSet(f, a + 1 .. a + m) = 0
      BY <3>1, SumEmpty
    <3> QED BY <2>2, <2>3, <3>2
  <2>4. CASE m # 0
    <3>1. PICK k \in Nat : m = k + 1 /\ k \in 0..n
      BY <2>2, <2>4
    <3>2. k \notin Bad
      <4>1. ~(m <= k)
        BY <3>1
      <4> HIDE DEF Bad
      <4> QED BY <2>1, <4>1
    <3>3. SumFunctionOnSet(f, a + 1 .. a + k) = k
      BY <3>1, <3>2
    <3> DEFINE T == a + 1 .. a + m
    <3>4. IsFiniteSet(T) /\ a + m \in T /\ T \ {a + m} = a + 1 .. a + k
      <4>1. a + 1 \in Int /\ a + m \in Int
        BY <2>2
      <4>2. IsFiniteSet(T)
        BY <4>1, FS_Interval
      <4>3. a + m \in T /\ T \ {a + m} = a + 1 .. a + k
        BY <3>1
      <4> QED BY <4>2, <4>3
    <3>5. \A i \in T : f[i] = 1
      BY <2>2
    <3>6. SumFunctionOnSet(f, T) = f[a + m] + SumFunctionOnSet(f, T \ {a + m})
      <4> HIDE DEF T, Good, Bad
      <4>1. \A i \in T : f[i] \in Int
        BY <3>5
      <4> QED BY <3>4, <4>1, SumRemove
    <3>7. SumFunctionOnSet(f, T) = 1 + k
      BY <3>3, <3>4, <3>5, <3>6
    <3> QED BY <2>2, <3>1, <3>7
  <2> QED BY <2>3, <2>4
<1>2. CASE Bad = {}
  <2>1. n \notin Bad /\ n \in 0..n
    BY <1>2
  <2> QED BY <2>1
<1> QED BY <1>1, <1>2
================================================================================
