------------------------------ MODULE SumProofs ------------------------------
(***************************************************************************)
(* Sums of the values of a function over a finite set: SumFunctionOnSet    *)
(* and SumFunction of the community module Functions, which fold in an     *)
(* order that CHOOSE picks.                                                *)
(*                                                                         *)
(* The induction is on subsets, stated for a set of good subsets rather    *)
(* than for a predicate, so that first-order provers can use it.  From it  *)
(* follow that the fold is what its recursive equation says (SumUnfolds),  *)
(* and then that the order does not matter (SumRemove).                    *)
(***************************************************************************)
EXTENDS Integers, Functions, FiniteSetTheorems, WellFoundedInduction, TLAPS

\* If a subset is good whenever it is good without any one of its elements, then
\* all subsets are: a smallest bad one would be good.
LEMMA SubsetInduction ==
  ASSUME NEW S, IsFiniteSet(S), NEW Good \in SUBSET (SUBSET S),
         \A A \in SUBSET S : (\A x \in A : A \ {x} \in Good) => A \in Good
  PROVE  \A A \in SUBSET S : A \in Good
<1> DEFINE Bad == (SUBSET S) \ Good
<1>1. SUFFICES ASSUME Bad # {} PROVE FALSE
  OBVIOUS
<1>2. IsWellFoundedOn(StrictSubsetOrdering(S), SUBSET S)
  BY FS_StrictSubsetOrderingWellFounded, FS_FiniteSubsetsOfFinite
<1>3. Bad \subseteq SUBSET S
  OBVIOUS
<1> HIDE DEF Bad
<1>4. PICK A \in Bad : \A B \in Bad : ~ (<<B, A>> \in StrictSubsetOrdering(S))
  BY <1>1, <1>2, <1>3, WFMin
<1>5. A \in SUBSET S /\ A \notin Good
  BY DEF Bad
<1>6. ASSUME NEW x \in A PROVE A \ {x} \in Good
  <2>1. <<A \ {x}, A>> \in StrictSubsetOrdering(S)
    BY <1>5, <1>6 DEF StrictSubsetOrdering
  <2>2. A \ {x} \notin Bad
    BY <2>1, <1>4
  <2> QED BY <2>2, <1>5 DEF Bad
<1> QED BY <1>5, <1>6

-----------------------------------------------------------------------------
(* The fold as its recursive equation.                                     *)

Some(s) == CHOOSE x \in s : TRUE
Unfolds(h, f, S) ==
  h = [s \in SUBSET S |-> IF s = {} THEN 0 ELSE f[Some(s)] + h[s \ {Some(s)}]]

\* The element the fold takes out next is one of the set.
LEMMA SomeIn == ASSUME NEW s, s # {} PROVE Some(s) \in s
  BY DEF Some

\* Two functions that fold f agree wherever both are defined.
LEMMA UnfoldsUnique ==
  ASSUME NEW S, IsFiniteSet(S), NEW f, NEW A, NEW B, S \subseteq A, S \subseteq B,
         NEW h, NEW g, Unfolds(h, f, A), Unfolds(g, f, B)
  PROVE  \A s \in SUBSET S : h[s] = g[s]
<1> DEFINE Good == {s \in SUBSET S : h[s] = g[s]}
<1>1. ASSUME NEW s \in SUBSET S, \A x \in s : s \ {x} \in Good
      PROVE  s \in Good
  <2>1. h[s] = IF s = {} THEN 0 ELSE f[Some(s)] + h[s \ {Some(s)}]
    BY DEF Unfolds
  <2>2. g[s] = IF s = {} THEN 0 ELSE f[Some(s)] + g[s \ {Some(s)}]
    BY DEF Unfolds
  <2>3. s # {} => h[s \ {Some(s)}] = g[s \ {Some(s)}]
    BY <1>1, SomeIn
  <2> QED BY <2>1, <2>2, <2>3
<1>2. Good \in SUBSET (SUBSET S)
  OBVIOUS
<1> HIDE DEF Good
<1>3. \A s \in SUBSET S : s \in Good
  BY <1>1, <1>2, SubsetInduction
<1> QED BY <1>3 DEF Good

\* There is a function that folds f: on each set, from those on the smaller ones.
LEMMA UnfoldsExists ==
  ASSUME NEW S, IsFiniteSet(S), NEW f
  PROVE  \E h : Unfolds(h, f, S)
<1> DEFINE H(s) == CHOOSE h : Unfolds(h, f, s)
           V(s) == H(s)[s]
           Good == {A \in SUBSET S : \A s \in SUBSET A : Unfolds(H(s), f, s)}
<1>1. ASSUME NEW A \in SUBSET S, \A x \in A : A \ {x} \in Good
      PROVE  A \in Good
  <2>1. \A s \in SUBSET A : s # A => Unfolds(H(s), f, s)
    <3> HIDE DEF H
    <3>1. ASSUME NEW s \in SUBSET A, s # A PROVE Unfolds(H(s), f, s)
      <4>1. PICK x \in A : x \notin s
        BY <3>1
      <4>2. s \in SUBSET (A \ {x})
        BY <4>1
      <4> QED BY <4>2, <1>1
    <3> QED BY <3>1
  <2> DEFINE h == [s \in SUBSET A |->
                     IF s = {} THEN 0 ELSE f[Some(s)] + V(s \ {Some(s)})]
  <2>2. ASSUME NEW s \in SUBSET A, s # A PROVE V(s) = h[s]
    <3> HIDE DEF H
    <3>1. Unfolds(H(s), f, s)
      BY <2>1, <2>2
    <3>2. H(s)[s] = IF s = {} THEN 0 ELSE f[Some(s)] + H(s)[s \ {Some(s)}]
      BY <3>1 DEF Unfolds
    <3>3. ASSUME s # {} PROVE H(s)[s \ {Some(s)}] = V(s \ {Some(s)})
      <4> DEFINE r == s \ {Some(s)}
      <4>1. r \in SUBSET A /\ r # A /\ r \subseteq s /\ IsFiniteSet(r)
        <5>1. Some(s) \in s /\ s \subseteq A /\ r \in SUBSET S
          BY <3>3, SomeIn
        <5> QED BY <5>1, FS_Subset
      <4>2. Unfolds(H(r), f, r)
        BY <4>1, <2>1
      <4> HIDE DEF r
      <4>3. \A u \in SUBSET r : H(s)[u] = H(r)[u]
        BY <4>1, <4>2, <3>1, UnfoldsUnique
      <4>4. H(s)[r] = H(r)[r]
        BY <4>3
      <4> QED BY <4>4 DEF r
    <3> QED BY <3>2, <3>3
  <2>3. ASSUME NEW s \in SUBSET A, s # {} PROVE V(s \ {Some(s)}) = h[s \ {Some(s)}]
    <3>1. s \ {Some(s)} \in SUBSET A /\ s \ {Some(s)} # A
      BY <2>3, SomeIn
    <3> HIDE DEF V, h
    <3> QED BY <3>1, <2>2
  <2>4. h = [s \in SUBSET A |-> IF s = {} THEN 0 ELSE f[Some(s)] + h[s \ {Some(s)}]]
    <3>1. \A s \in SUBSET A : (IF s = {} THEN 0 ELSE f[Some(s)] + V(s \ {Some(s)}))
                            = (IF s = {} THEN 0 ELSE f[Some(s)] + h[s \ {Some(s)}])
      <4> HIDE DEF V, h
      <4> QED BY <2>3
    <3>2. h = [s \in SUBSET A |->
                 IF s = {} THEN 0 ELSE f[Some(s)] + V(s \ {Some(s)})]
      OBVIOUS
    <3> HIDE DEF V, h
    <3> QED BY <3>1, <3>2, Zenon
  <2>5. Unfolds(h, f, A)
    <3> HIDE DEF V, h
    <3> QED BY <2>4 DEF Unfolds
  <2>6. Unfolds(H(A), f, A)
    <3> HIDE DEF h
    <3> QED BY <2>5
  <2>7. \A s \in SUBSET A : Unfolds(H(s), f, s)
    <3> HIDE DEF H
    <3> QED BY <2>1, <2>6
  <2> HIDE DEF H
  <2> QED BY <2>7
<1>2. Good \in SUBSET (SUBSET S)
  OBVIOUS
<1>3. S \in Good
  <2> HIDE DEF Good
  <2> QED BY <1>1, <1>2, SubsetInduction
<1>4. Unfolds(H(S), f, S)
  <2> HIDE DEF H
  <2> QED BY <1>3
<1> QED BY <1>4

\* So the function that MapThenFoldSet chooses does fold f.
LEMMA SumUnfolds ==
  ASSUME NEW S, IsFiniteSet(S), NEW f
  PROVE  \E h : Unfolds(h, f, S) /\ SumFunctionOnSet(f, S) = h[S]
<1> DEFINE Folded(h) ==
             [s \in SUBSET S |->
                IF s = {} THEN 0
                ELSE f[CHOOSE x \in s : TRUE] + h[s \ {CHOOSE x \in s : TRUE}]]
           It == CHOOSE h : h = Folded(h)
<1>1. SumFunctionOnSet(f, S) = It[S]
  BY DEF SumFunctionOnSet, FoldFunctionOnSet, MapThenFoldSet
<1>2. \E h : h = Folded(h)
  <2>1. PICK h : Unfolds(h, f, S)
    BY UnfoldsExists
  <2>2. h = Folded(h)
    BY <2>1 DEF Unfolds, Some
  <2> QED BY <2>2, Zenon
<1>3. It = Folded(It)
  BY <1>2, Zenon
<1>4. Unfolds(It, f, S)
  <2> HIDE DEF It
  <2> QED BY <1>3 DEF Unfolds, Some
<1> HIDE DEF It
<1> QED BY <1>1, <1>4

\* Nothing adds up to 0.
LEMMA SumEmpty == ASSUME NEW f PROVE SumFunctionOnSet(f, {}) = 0
<1>1. IsFiniteSet({})
  BY FS_EmptySet
<1>2. PICK h : Unfolds(h, f, {}) /\ SumFunctionOnSet(f, {}) = h[{}]
  BY <1>1, SumUnfolds
<1> QED BY <1>2 DEF Unfolds

\* The sum is the chosen element's value and the sum of the others'.
LEMMA SumChosen ==
  ASSUME NEW S, IsFiniteSet(S), S # {}, NEW f
  PROVE  SumFunctionOnSet(f, S) = f[Some(S)] + SumFunctionOnSet(f, S \ {Some(S)})
<1> DEFINE r == S \ {Some(S)}
<1>1. IsFiniteSet(r) /\ r \subseteq S
  BY FS_Subset
<1>2. PICK h : Unfolds(h, f, S) /\ SumFunctionOnSet(f, S) = h[S]
  BY SumUnfolds
<1>3. PICK g : Unfolds(g, f, r) /\ SumFunctionOnSet(f, r) = g[r]
  BY <1>1, SumUnfolds
<1>4. \A s \in SUBSET r : h[s] = g[s]
  <2> HIDE DEF r
  <2> QED BY <1>1, <1>2, <1>3, UnfoldsUnique
<1>5. h[S] = f[Some(S)] + h[r]
  BY <1>2 DEF Unfolds
<1>6. h[r] = g[r]
  BY <1>4
<1> QED BY <1>2, <1>3, <1>5, <1>6

\* Sums of integers are integers, of natural numbers natural numbers.
LEMMA SumType ==
  ASSUME NEW S, IsFiniteSet(S), NEW f, NEW K \in {Nat, Int}, \A s \in S : f[s] \in K
  PROVE  SumFunctionOnSet(f, S) \in K
<1> DEFINE Good == {A \in SUBSET S : SumFunctionOnSet(f, A) \in K}
<1>1. ASSUME NEW A \in SUBSET S, \A x \in A : A \ {x} \in Good
      PROVE  A \in Good
  <2>1. CASE A = {}
    BY <2>1, SumEmpty
  <2>2. CASE A # {}
    <3>1. Some(A) \in A /\ IsFiniteSet(A)
      BY <2>2, SomeIn, FS_Subset
    <3>2. SumFunctionOnSet(f, A) = f[Some(A)] + SumFunctionOnSet(f, A \ {Some(A)})
      BY <2>2, <3>1, SumChosen
    <3>3. SumFunctionOnSet(f, A \ {Some(A)}) \in K /\ f[Some(A)] \in K
      BY <1>1, <3>1
    <3> QED BY <3>2, <3>3
  <2> QED BY <2>1, <2>2
<1>2. Good \in SUBSET (SUBSET S)
  OBVIOUS
<1>3. S \in Good
  <2> HIDE DEF Good
  <2> QED BY <1>1, <1>2, SubsetInduction
<1> QED BY <1>3

\* Any element can be taken out first.
LEMMA SumRemove ==
  ASSUME NEW S, IsFiniteSet(S), NEW f, \A s \in S : f[s] \in Int, NEW x \in S
  PROVE  SumFunctionOnSet(f, S) = f[x] + SumFunctionOnSet(f, S \ {x})
<1> DEFINE Sm(A) == SumFunctionOnSet(f, A)
           Good == {A \in SUBSET S : \A y \in A : Sm(A) = f[y] + Sm(A \ {y})}
<1>1. ASSUME NEW A \in SUBSET S, \A z \in A : A \ {z} \in Good
      PROVE  A \in Good
  <2> SUFFICES ASSUME NEW y \in A PROVE Sm(A) = f[y] + Sm(A \ {y})
    OBVIOUS
  <2> DEFINE c == Some(A)
  <2>1. c \in A /\ \A B \in SUBSET A : IsFiniteSet(B) /\ Sm(B) \in Int
    BY SomeIn, FS_Subset, SumType
  <2> HIDE DEF Sm
  <2>2. Sm(A) = f[c] + Sm(A \ {c})
    BY <2>1, SumChosen DEF Sm
  <2>3. CASE y = c
    BY <2>2, <2>3
  <2>4. CASE y # c
    <3> HIDE DEF c
    <3> DEFINE r == (A \ {c}) \ {y}
    <3>1. r = (A \ {y}) \ {c}
      OBVIOUS
    <3>2. Sm(A \ {c}) = f[y] + Sm(r)
      BY <1>1, <2>1, <2>4
    <3>3. Sm(A \ {y}) = f[c] + Sm(r)
      BY <1>1, <2>1, <2>4, <3>1
    <3>4. f[c] \in Int /\ f[y] \in Int /\ Sm(r) \in Int
      BY <2>1
    <3> QED BY <2>2, <3>2, <3>3, <3>4
  <2> QED BY <2>3, <2>4
<1>2. Good \in SUBSET (SUBSET S)
  OBVIOUS
<1>3. S \in Good
  <2> HIDE DEF Good
  <2> QED BY <1>1, <1>2, SubsetInduction
<1> QED BY <1>3

\* The sum depends only on the values in the set.
LEMMA SumEqual ==
  ASSUME NEW S, IsFiniteSet(S), NEW f, NEW g, \A s \in S : f[s] = g[s]
  PROVE  SumFunctionOnSet(f, S) = SumFunctionOnSet(g, S)
<1> DEFINE Sum(g0, A) == SumFunctionOnSet(g0, A)
           Good == {A \in SUBSET S : Sum(f, A) = Sum(g, A)}
<1>1. ASSUME NEW A \in SUBSET S, \A x \in A : A \ {x} \in Good
      PROVE  A \in Good
  <2>1. CASE A = {}
    BY <2>1, SumEmpty
  <2>2. CASE A # {}
    <3>1. Some(A) \in A /\ IsFiniteSet(A)
      BY <2>2, SomeIn, FS_Subset
    <3>2. Sum(f, A) = f[Some(A)] + Sum(f, A \ {Some(A)})
      BY <2>2, <3>1, SumChosen
    <3>3. Sum(g, A) = g[Some(A)] + Sum(g, A \ {Some(A)})
      BY <2>2, <3>1, SumChosen
    <3> QED BY <3>1, <3>2, <3>3, <1>1
  <2> QED BY <2>1, <2>2
<1>2. Good \in SUBSET (SUBSET S)
  OBVIOUS
<1>3. S \in Good
  <2> HIDE DEF Good
  <2> QED BY <1>1, <1>2, SubsetInduction
<1> QED BY <1>3

\* Termwise smaller is smaller.
LEMMA SumAtMost ==
  ASSUME NEW S, IsFiniteSet(S), NEW f, NEW g,
         \A s \in S : f[s] \in Int /\ g[s] \in Int /\ f[s] <= g[s]
  PROVE  SumFunctionOnSet(f, S) <= SumFunctionOnSet(g, S)
<1> DEFINE Sum(g0, A) == SumFunctionOnSet(g0, A)
           Good == {A \in SUBSET S : Sum(f, A) <= Sum(g, A)}
<1>1. ASSUME NEW A \in SUBSET S, \A x \in A : A \ {x} \in Good
      PROVE  A \in Good
  <2>1. CASE A = {}
    BY <2>1, SumEmpty
  <2>2. CASE A # {}
    <3> DEFINE c == Some(A)
    <3>1. c \in A /\ IsFiniteSet(A) /\ IsFiniteSet(A \ {c})
      BY <2>2, SomeIn, FS_Subset
    <3> HIDE DEF c
    <3>2. Sum(f, A) = f[c] + Sum(f, A \ {c})
      BY <3>1, SumRemove
    <3>3. Sum(g, A) = g[c] + Sum(g, A \ {c})
      BY <3>1, SumRemove
    <3>4. Sum(f, A \ {c}) \in Int /\ Sum(g, A \ {c}) \in Int
      BY <3>1, SumType
    <3>5. Sum(f, A \ {c}) <= Sum(g, A \ {c})
      BY <1>1, <3>1
    <3>6. f[c] \in Int /\ g[c] \in Int /\ f[c] <= g[c]
      BY <3>1
    <3> QED BY <3>2, <3>3, <3>4, <3>5, <3>6
  <2> QED BY <2>1, <2>2
<1>2. Good \in SUBSET (SUBSET S)
  OBVIOUS
<1>3. S \in Good
  <2> HIDE DEF Good
  <2> QED BY <1>1, <1>2, SubsetInduction
<1> QED BY <1>3

\* A change of one value changes the sum by as much.
LEMMA SumChange ==
  ASSUME NEW S, IsFiniteSet(S), NEW f, NEW g, NEW x \in S,
         \A s \in S : f[s] \in Int /\ g[s] \in Int, \A s \in S \ {x} : f[s] = g[s]
  PROVE  SumFunctionOnSet(g, S) = SumFunctionOnSet(f, S) + g[x] - f[x]
<1>1. IsFiniteSet(S \ {x})
  BY FS_Subset
<1>2. SumFunctionOnSet(f, S) = f[x] + SumFunctionOnSet(f, S \ {x})
  BY SumRemove
<1>3. SumFunctionOnSet(g, S) = g[x] + SumFunctionOnSet(g, S \ {x})
  BY SumRemove
<1>4. SumFunctionOnSet(f, S \ {x}) = SumFunctionOnSet(g, S \ {x})
  BY <1>1, SumEqual
<1>5. SumFunctionOnSet(f, S \ {x}) \in Int
  BY <1>1, SumType
<1> QED BY <1>2, <1>3, <1>4, <1>5

\* The sum of termwise sums.
LEMMA SumOfTwo ==
  ASSUME NEW S, IsFiniteSet(S), NEW f, NEW g, NEW h,
         \A s \in S : f[s] \in Int /\ g[s] \in Int /\ h[s] = f[s] + g[s]
  PROVE  SumFunctionOnSet(h, S) = SumFunctionOnSet(f, S) + SumFunctionOnSet(g, S)
<1> DEFINE Sum(g0, A) == SumFunctionOnSet(g0, A)
           Good == {A \in SUBSET S : Sum(h, A) = Sum(f, A) + Sum(g, A)}
<1>1. ASSUME NEW A \in SUBSET S, \A x \in A : A \ {x} \in Good
      PROVE  A \in Good
  <2>1. CASE A = {}
    BY <2>1, SumEmpty
  <2>2. CASE A # {}
    <3> DEFINE c == Some(A)
    <3>1. c \in A /\ IsFiniteSet(A) /\ IsFiniteSet(A \ {c})
      BY <2>2, SomeIn, FS_Subset
    <3> HIDE DEF c
    <3>2. Sum(f, A) = f[c] + Sum(f, A \ {c})
      BY <3>1, SumRemove
    <3>3. Sum(g, A) = g[c] + Sum(g, A \ {c})
      BY <3>1, SumRemove
    <3>4. Sum(f, A \ {c}) \in Int /\ Sum(g, A \ {c}) \in Int
      BY <3>1, SumType
    <3>5. Sum(h, A \ {c}) = Sum(f, A \ {c}) + Sum(g, A \ {c})
      BY <1>1, <3>1
    <3>6. f[c] \in Int /\ g[c] \in Int /\ h[c] = f[c] + g[c] /\ \A s \in A : h[s] \in Int
      BY <3>1
    <3>7. Sum(h, A) = h[c] + Sum(h, A \ {c})
      BY <3>1, <3>6, SumRemove
    <3> QED BY <3>2, <3>3, <3>4, <3>5, <3>6, <3>7
  <2> QED BY <2>1, <2>2
<1>2. Good \in SUBSET (SUBSET S)
  OBVIOUS
<1>3. S \in Good
  <2> HIDE DEF Good
  <2> QED BY <1>1, <1>2, SubsetInduction
<1> QED BY <1>3

\* Zeros add up to 0.
LEMMA SumZero ==
  ASSUME NEW S, IsFiniteSet(S), NEW f, \A s \in S : f[s] = 0
  PROVE  SumFunctionOnSet(f, S) = 0
<1>1. \A s \in S : f[s] \in Int
  OBVIOUS
<1>2. \A s \in S : f[s] \in Int /\ f[s] \in Int /\ f[s] = f[s] + f[s]
  OBVIOUS
<1> DEFINE sum == SumFunctionOnSet(f, S)
<1>3. sum \in Int
  BY <1>1, SumType
<1>4. sum = sum + sum
  BY <1>2, SumOfTwo
<1> HIDE DEF sum
<1>5. sum = 0
  BY <1>3, <1>4
<1> QED BY <1>5 DEF sum

\* A sum of equal numbers is a product.
LEMMA SumConstant ==
  ASSUME NEW S, IsFiniteSet(S), NEW f, NEW c \in Int, \A s \in S : f[s] = c
  PROVE  SumFunctionOnSet(f, S) = c * Cardinality(S)
<1> DEFINE Sum(A) == SumFunctionOnSet(f, A)
           Good == {A \in SUBSET S : Sum(A) = c * Cardinality(A)}
<1>1. ASSUME NEW A \in SUBSET S, \A x \in A : A \ {x} \in Good
      PROVE  A \in Good
  <2>1. CASE A = {}
    <3>1. Sum(A) = 0 /\ Cardinality(A) = 0
      BY <2>1, SumEmpty, FS_EmptySet
    <3> QED BY <3>1
  <2>2. CASE A # {}
    <3> DEFINE x == Some(A)
               n == Cardinality(A \ {x})
    <3>1. x \in A /\ IsFiniteSet(A)
      BY <2>2, SomeIn, FS_Subset
    <3> HIDE DEF x
    <3>2. IsFiniteSet(A \ {x}) /\ Cardinality(A) = n + 1 /\ n \in Nat
      <4>1. IsFiniteSet(A \ {x}) /\ Cardinality(A \ {x}) = Cardinality(A) - 1
        BY <3>1, FS_RemoveElement
      <4>2. Cardinality(A) \in Nat /\ Cardinality(A \ {x}) \in Nat
        BY <3>1, <4>1, FS_CardinalityType
      <4> QED BY <4>1, <4>2
    <3>3. \A s \in A : f[s] \in Int
      OBVIOUS
    <3>4. Sum(A) = f[x] + Sum(A \ {x}) /\ f[x] = c
      BY <3>1, <3>3, SumRemove
    <3>5. Sum(A \ {x}) = c * n
      BY <1>1, <3>1
    <3> HIDE DEF n, Sum
    <3>6. Sum(A) = c * Cardinality(A)
      <4>1. c * (n + 1) = c + c * n
        BY <3>2
      <4> QED BY <3>2, <3>4, <3>5, <4>1
    <3> QED BY <3>6
  <2> QED BY <2>1, <2>2
<1>2. Good \in SUBSET (SUBSET S)
  OBVIOUS
<1>3. S \in Good
  <2> HIDE DEF Good
  <2> QED BY <1>1, <1>2, SubsetInduction
<1> QED BY <1>3

\* So is a sum of equal numbers and one other, but for the difference.
LEMMA SumAllButOne ==
  ASSUME NEW S, IsFiniteSet(S), NEW f, NEW c \in Int, NEW x \in S, f[x] \in Int,
         \A s \in S \ {x} : f[s] = c
  PROVE  SumFunctionOnSet(f, S) = c * Cardinality(S) + f[x] - c
<1> DEFINE g == [s \in S |-> c]
<1>1. \A s \in S : g[s] = c
  OBVIOUS
<1> HIDE DEF g
<1>2. \A s \in S : g[s] \in Int /\ f[s] \in Int
  BY <1>1
<1>3. \A s \in S \ {x} : g[s] = f[s]
  BY <1>1
<1>4. SumFunctionOnSet(g, S) = c * Cardinality(S)
  BY <1>1, SumConstant
<1>5. SumFunctionOnSet(f, S) = SumFunctionOnSet(g, S) + f[x] - g[x]
  BY <1>2, <1>3, SumChange
<1> QED BY <1>1, <1>4, <1>5

\* A sum of natural numbers is at least each of them.
LEMMA SumAtLeast ==
  ASSUME NEW S, IsFiniteSet(S), NEW f, \A s \in S : f[s] \in Nat, NEW x \in S
  PROVE  f[x] <= SumFunctionOnSet(f, S)
<1>1. IsFiniteSet(S \ {x})
  BY FS_Subset
<1>2. SumFunctionOnSet(f, S) = f[x] + SumFunctionOnSet(f, S \ {x})
  BY SumRemove
<1>3. SumFunctionOnSet(f, S \ {x}) \in Nat
  BY <1>1, SumType
<1> QED BY <1>2, <1>3

=============================================================================
