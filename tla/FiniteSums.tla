----------------------------- MODULE FiniteSums ------------------------------
(***************************************************************************)
(* Facts about sums over finite sets.  SumFunctionOnSet is a fold, defined *)
(* by recursion over the subsets of the set: the first lemmas establish    *)
(* that there is exactly one function that recursion defines, the others   *)
(* that the order in which the fold takes the elements makes no difference.*)
(* In place of an induction over subsets each looks at a smallest          *)
(* counterexample.                                                         *)
(***************************************************************************)
EXTENDS Integers, FiniteSets, Functions, FiniteSetTheorems,
        WellFoundedInduction, TLAPS

\* Every property that fails for a subset of a finite set fails for a smallest.
LEMMA SmallestSubset ==
  ASSUME NEW S, IsFiniteSet(S), NEW Bad, Bad \subseteq SUBSET S, Bad # {}
  PROVE  \E T \in Bad : \A U \in SUBSET T : U \in Bad => U = T
<1> DEFINE R == StrictSubsetOrdering(S)
<1>1. IsWellFoundedOn(R, FiniteSubsetsOf(S)) /\ FiniteSubsetsOf(S) = SUBSET S
  BY FS_StrictSubsetOrderingWellFounded, FS_FiniteSubsetsOfFinite
<1> HIDE DEF R
<1>2. \E T \in Bad : \A U \in Bad : <<U, T>> \notin R
  BY <1>1, WFMin
<1>3. \A T \in SUBSET S : \A U \in SUBSET T : U # T => <<U, T>> \in R
  BY DEF R, StrictSubsetOrdering
<1> QED
  BY <1>2, <1>3

\* The recursion that SumFunctionOnSet unfolds to.
AnyOf(s) == CHOOSE x \in s : TRUE
SumStep(f, g, s) == IF s = {} THEN 0 ELSE f[AnyOf(s)] + g[s \ {AnyOf(s)}]
IsSum(f, S, g) == g = [s \in SUBSET S |-> SumStep(f, g, s)]

\* A sum is the value at the whole set of a function with that recursion.
LEMMA SumUnfolds ==
  ASSUME NEW f, NEW S
  PROVE  SumFunctionOnSet(f, S) = (CHOOSE g : IsSum(f, S, g))[S]
BY DEF SumFunctionOnSet, FoldFunctionOnSet, MapThenFoldSet, IsSum, SumStep, AnyOf

\* There is no other function it could unfold to.
LEMMA SumUnique ==
  ASSUME NEW f, NEW S, IsFiniteSet(S), NEW g, NEW h,
         IsSum(f, S, g), IsSum(f, S, h)
  PROVE  g = h
<1> DEFINE Bad == {T \in SUBSET S : g[T] # h[T]}
<1>0. /\ Bad \subseteq SUBSET S
      /\ \A T \in SUBSET S : T \notin Bad <=> g[T] = h[T]
  OBVIOUS
<1> HIDE DEF Bad
<1>1. ASSUME Bad # {}
      PROVE  FALSE
  <2>1. PICK T \in Bad : \A U \in SUBSET T : U \in Bad => U = T
    BY <1>0, <1>1, SmallestSubset
  <2>2. g[T] = SumStep(f, g, T) /\ h[T] = SumStep(f, h, T)
    BY <1>0 DEF IsSum
  <2>3. CASE T = {}
    BY <1>0, <2>2, <2>3 DEF SumStep
  <2>4. CASE T # {}
    <3>1. AnyOf(T) \in T
      BY <2>4 DEF AnyOf
    <3>2. g[T \ {AnyOf(T)}] = h[T \ {AnyOf(T)}]
      BY <1>0, <2>1, <3>1
    <3> QED
      BY <1>0, <2>2, <2>4, <3>2 DEF SumStep
  <2> QED
    BY <2>3, <2>4
<1> QED
  BY <1>0, <1>1 DEF IsSum

\* The function exists: a sum of sums of subsets is one.
SumOf(f, s) == (CHOOSE g : IsSum(f, s, g))[s]
Sums(f, S) == [s \in SUBSET S |-> SumOf(f, s)]

LEMMA SumExists ==
  ASSUME NEW f, NEW S, IsFiniteSet(S)
  PROVE  IsSum(f, S, Sums(f, S))
<1> DEFINE Bad == {T \in SUBSET S : ~IsSum(f, T, Sums(f, T))}
<1>0. /\ Bad \subseteq SUBSET S
      /\ \A T \in SUBSET S : T \notin Bad <=> IsSum(f, T, Sums(f, T))
  OBVIOUS
<1> HIDE DEF Bad
<1>1. ASSUME Bad # {}
      PROVE  FALSE
  <2>1. PICK T \in Bad : \A U \in SUBSET T : U \in Bad => U = T
    BY <1>0, <1>1, SmallestSubset
  <2>2. \A U \in SUBSET T : U # T => IsSum(f, U, Sums(f, U))
    BY <1>0, <2>1
  <2> DEFINE g == [s \in SUBSET T |-> IF s = T THEN SumStep(f, Sums(f, T), T)
                                                ELSE SumOf(f, s)]
  <2>3. ASSUME NEW s \in SUBSET T
        PROVE  g[s] = SumStep(f, g, s)
    <3>1. CASE s = {}
      <4>1. s # T => SumOf(f, s) = SumStep(f, Sums(f, s), s)
        BY <2>2 DEF IsSum, Sums
      <4> QED
        BY <3>1, <4>1 DEF SumStep
    <3>2. CASE s # {}
      <4>1. AnyOf(s) \in s
        BY <3>2 DEF AnyOf
      <4>2. s \ {AnyOf(s)} # T /\ s \ {AnyOf(s)} \in SUBSET T
        BY <4>1
      <4>3. g[s \ {AnyOf(s)}] = SumOf(f, s \ {AnyOf(s)})
        BY <4>2
      <4>4. g[s] = f[AnyOf(s)] + SumOf(f, s \ {AnyOf(s)})
        <5>1. CASE s = T
          BY <3>2, <4>2, <5>1 DEF SumStep, Sums
        <5>2. CASE s # T
          <6>1. Sums(f, s)[s] = SumStep(f, Sums(f, s), s)
            BY <2>2, <5>2 DEF IsSum, Sums
          <6>2. g[s] = SumOf(f, s) /\ Sums(f, s)[s] = SumOf(f, s)
            BY <5>2 DEF Sums
          <6> QED
            BY <3>2, <6>1, <6>2 DEF SumStep, Sums
        <5> QED
          BY <5>1, <5>2
      <4> HIDE DEF g
      <4> QED
        BY <3>2, <4>3, <4>4 DEF SumStep
    <3> QED
      BY <3>1, <3>2
  <2>4. g = [s \in SUBSET T |-> g[s]]
    OBVIOUS
  <2> HIDE DEF g
  <2>5. IsSum(f, T, g)
    BY <2>3, <2>4 DEF IsSum
  <2>6. IsFiniteSet(T)
    BY <1>0, FS_Subset
  <2>7. (CHOOSE h : IsSum(f, T, h)) = g
    BY <2>5, <2>6, SumUnique
  <2>8. SumOf(f, T) = g[T]
    BY <2>7 DEF SumOf
  <2>9. \A s \in SUBSET T : g[s] = SumOf(f, s)
    BY <2>8 DEF g
  <2>10. g = Sums(f, T)
    BY <2>4, <2>9 DEF Sums
  <2> QED
    BY <1>0, <2>1, <2>5, <2>10
<1> QED
  BY <1>0, <1>1

\* What a sum unfolds to, one element at a time.
LEMMA SumOfFirst ==
  ASSUME NEW f, NEW S, IsFiniteSet(S)
  PROVE  SumFunctionOnSet(f, S) =
           IF S = {} THEN 0
           ELSE f[AnyOf(S)] + SumFunctionOnSet(f, S \ {AnyOf(S)})
<1>1. \A T \in SUBSET S : SumFunctionOnSet(f, T) = SumOf(f, T)
  BY SumUnfolds DEF SumOf
<1>2. Sums(f, S)[S] = SumStep(f, Sums(f, S), S)
  <2> DEFINE g == Sums(f, S)
  <2>1. IsSum(f, S, g)
    BY SumExists
  <2> HIDE DEF g
  <2>2. g = [s \in SUBSET S |-> SumStep(f, g, s)]
    BY <2>1 DEF IsSum
  <2>3. g[S] = SumStep(f, g, S)
    BY <2>2
  <2> QED
    BY <2>3 DEF g
<1>3. \A T \in SUBSET S : Sums(f, S)[T] = SumOf(f, T)
  BY DEF Sums
<1>4. CASE S = {}
  BY <1>1, <1>2, <1>3, <1>4 DEF SumStep
<1>5. CASE S # {}
  BY <1>1, <1>2, <1>3, <1>5 DEF SumStep
<1> QED
  BY <1>4, <1>5

\* The empty sum.
LEMMA SumEmpty ==
  ASSUME NEW f
  PROVE  SumFunctionOnSet(f, {}) = 0
BY SumOfFirst, FS_EmptySet

\* A sum of natural numbers is one.
LEMMA SumType ==
  ASSUME NEW f, NEW S, IsFiniteSet(S), \A x \in S : f[x] \in Nat
  PROVE  SumFunctionOnSet(f, S) \in Nat
<1> DEFINE Bad == {T \in SUBSET S : SumFunctionOnSet(f, T) \notin Nat}
<1>0. /\ Bad \subseteq SUBSET S
      /\ \A T \in SUBSET S : T \notin Bad <=> SumFunctionOnSet(f, T) \in Nat
  OBVIOUS
<1> HIDE DEF Bad
<1>1. ASSUME Bad # {}
      PROVE  FALSE
  <2>1. PICK T \in Bad : \A U \in SUBSET T : U \in Bad => U = T
    BY <1>0, <1>1, SmallestSubset
  <2>2. T \subseteq S /\ IsFiniteSet(T)
    BY <1>0, FS_Subset
  <2>3. T # {}
    <3>1. SumFunctionOnSet(f, {}) \in Nat
      BY SumEmpty
    <3> QED
      BY <1>0, <3>1
  <2>4. AnyOf(T) \in T
    BY <2>3 DEF AnyOf
  <2>5. SumFunctionOnSet(f, T \ {AnyOf(T)}) \in Nat
    BY <1>0, <2>1, <2>2, <2>4
  <2> HIDE DEF AnyOf
  <2>6. SumFunctionOnSet(f, T) =
          f[AnyOf(T)] + SumFunctionOnSet(f, T \ {AnyOf(T)})
    BY <2>2, <2>3, SumOfFirst
  <2> QED
    BY <1>0, <2>2, <2>4, <2>5, <2>6
<1> QED
  BY <1>0, <1>1

\* Any element may be taken out of a sum first.
LEMMA SumRemove ==
  ASSUME NEW f, NEW S, IsFiniteSet(S), \A x \in S : f[x] \in Nat,
         NEW x \in S
  PROVE  SumFunctionOnSet(f, S) = f[x] + SumFunctionOnSet(f, S \ {x})
<1> DEFINE Good(T) == \A y \in T : SumFunctionOnSet(f, T) =
                                     f[y] + SumFunctionOnSet(f, T \ {y})
           Bad == {T \in SUBSET S : ~Good(T)}
<1>0. /\ Bad \subseteq SUBSET S
      /\ \A T \in SUBSET S : T \notin Bad <=> Good(T)
  OBVIOUS
<1> HIDE DEF Bad
<1>1. ASSUME Bad # {}
      PROVE  FALSE
  <2>1. PICK T \in Bad : \A U \in SUBSET T : U \in Bad => U = T
    BY <1>0, <1>1, SmallestSubset
  <2>2. T \subseteq S /\ IsFiniteSet(T)
    BY <1>0, FS_Subset
  <2> SUFFICES ASSUME NEW y \in T
               PROVE  SumFunctionOnSet(f, T) =
                        f[y] + SumFunctionOnSet(f, T \ {y})
    BY <1>0, <2>2
  <2> DEFINE z == AnyOf(T)
  <2>3. z \in T
    BY DEF AnyOf
  <2> HIDE DEF z
  <2>4. SumFunctionOnSet(f, T) = f[z] + SumFunctionOnSet(f, T \ {z})
    BY <2>2, SumOfFirst DEF z
  <2>5. CASE y = z
    BY <2>4, <2>5
  <2>6. CASE y # z
    <3>1. SumFunctionOnSet(f, T \ {z}) =
            f[y] + SumFunctionOnSet(f, (T \ {z}) \ {y})
      <4>1. T \ {z} \in SUBSET T /\ T \ {z} # T /\ y \in T \ {z}
        BY <2>3, <2>6
      <4> QED
        BY <1>0, <2>1, <2>2, <4>1
    <3>2. SumFunctionOnSet(f, T \ {y}) =
            f[z] + SumFunctionOnSet(f, (T \ {y}) \ {z})
      <4>1. T \ {y} \in SUBSET T /\ T \ {y} # T /\ z \in T \ {y}
        BY <2>3, <2>6
      <4> QED
        BY <1>0, <2>1, <2>2, <4>1
    <3>3. (T \ {z}) \ {y} = (T \ {y}) \ {z}
      OBVIOUS
    <3>4. SumFunctionOnSet(f, (T \ {y}) \ {z}) \in Nat
      <4>1. IsFiniteSet((T \ {y}) \ {z})
        BY <2>2, FS_Subset
      <4> QED
        BY <2>2, <4>1, SumType
    <3>5. f[y] \in Nat /\ f[z] \in Nat
      BY <2>2, <2>3
    <3> QED
      BY <2>4, <3>1, <3>2, <3>3, <3>4, <3>5
  <2> QED
    BY <2>5, <2>6
<1>2. Good(S)
  BY <1>0, <1>1
<1> QED
  BY <1>2

\* A new element adds its value.
LEMMA SumAdd ==
  ASSUME NEW f, NEW S, IsFiniteSet(S), NEW x, x \notin S, f[x] \in Nat,
         \A y \in S : f[y] \in Nat
  PROVE  SumFunctionOnSet(f, S \cup {x}) = SumFunctionOnSet(f, S) + f[x]
<1>1. (S \cup {x}) \ {x} = S /\ IsFiniteSet(S \cup {x})
  BY FS_AddElement
<1>2. SumFunctionOnSet(f, S) \in Nat
  BY SumType
<1>3. SumFunctionOnSet(f, S \cup {x}) =
        f[x] + SumFunctionOnSet(f, (S \cup {x}) \ {x})
  BY <1>1, SumRemove
<1>4. SumFunctionOnSet(f, S \cup {x}) = f[x] + SumFunctionOnSet(f, S)
  BY <1>1, <1>3
<1> QED
  BY <1>2, <1>4

\* A single element is its own sum.
LEMMA SumSingle ==
  ASSUME NEW f, NEW x, f[x] \in Nat
  PROVE  SumFunctionOnSet(f, {x}) = f[x]
<1>1. {} \cup {x} = {x} /\ IsFiniteSet({})
  BY FS_EmptySet
<1>2. SumFunctionOnSet(f, {} \cup {x}) = SumFunctionOnSet(f, {}) + f[x]
  BY <1>1, SumAdd
<1> QED
  BY <1>1, <1>2, SumEmpty

\* Functions that agree on a set have the same sum over it.
LEMMA SumAgree ==
  ASSUME NEW f, NEW g, NEW S, IsFiniteSet(S), \A x \in S : f[x] = g[x]
  PROVE  SumFunctionOnSet(f, S) = SumFunctionOnSet(g, S)
<1> DEFINE Bad == {T \in SUBSET S :
                     SumFunctionOnSet(f, T) # SumFunctionOnSet(g, T)}
<1>0. /\ Bad \subseteq SUBSET S
      /\ \A T \in SUBSET S :
           T \notin Bad <=> SumFunctionOnSet(f, T) = SumFunctionOnSet(g, T)
  OBVIOUS
<1> HIDE DEF Bad
<1>1. ASSUME Bad # {}
      PROVE  FALSE
  <2>1. PICK T \in Bad : \A U \in SUBSET T : U \in Bad => U = T
    BY <1>0, <1>1, SmallestSubset
  <2>2. T \subseteq S /\ IsFiniteSet(T)
    BY <1>0, FS_Subset
  <2>3. T # {}
    BY <1>0, <2>2, SumEmpty
  <2> DEFINE z == AnyOf(T)
  <2>4. z \in T
    BY <2>3 DEF AnyOf
  <2> HIDE DEF z
  <2>5. SumFunctionOnSet(f, T \ {z}) = SumFunctionOnSet(g, T \ {z})
    BY <1>0, <2>1, <2>2, <2>4
  <2>6. /\ SumFunctionOnSet(f, T) = f[z] + SumFunctionOnSet(f, T \ {z})
        /\ SumFunctionOnSet(g, T) = g[z] + SumFunctionOnSet(g, T \ {z})
    BY <2>2, <2>3, SumOfFirst DEF z
  <2> QED
    BY <1>0, <2>2, <2>4, <2>5, <2>6
<1> QED
  BY <1>0, <1>1

\* Functions that differ at one element have sums that differ by as much.
LEMMA SumDiffers ==
  ASSUME NEW f, NEW g, NEW S, IsFiniteSet(S), NEW x \in S, NEW n \in Nat,
         \A y \in S : f[y] \in Nat, g[x] = f[x] + n,
         \A y \in S \ {x} : g[y] = f[y]
  PROVE  SumFunctionOnSet(g, S) = SumFunctionOnSet(f, S) + n
<1>1. IsFiniteSet(S \ {x})
  BY FS_Subset
<1>2. SumFunctionOnSet(g, S \ {x}) = SumFunctionOnSet(f, S \ {x})
  BY <1>1, SumAgree
<1>3. SumFunctionOnSet(f, S \ {x}) \in Nat
  BY <1>1, SumType
<1>4. \A y \in S : g[y] \in Nat
  OBVIOUS
<1>5. /\ SumFunctionOnSet(f, S) = f[x] + SumFunctionOnSet(f, S \ {x})
      /\ SumFunctionOnSet(g, S) = g[x] + SumFunctionOnSet(g, S \ {x})
  BY <1>4, SumRemove
<1> QED
  BY <1>2, <1>3, <1>5

\* Zeros add up to zero.
LEMMA SumOfZeros ==
  ASSUME NEW f, NEW S, IsFiniteSet(S), \A x \in S : f[x] = 0
  PROVE  SumFunctionOnSet(f, S) = 0
<1> DEFINE Bad == {T \in SUBSET S : SumFunctionOnSet(f, T) # 0}
<1>0. /\ Bad \subseteq SUBSET S
      /\ \A T \in SUBSET S : T \notin Bad <=> SumFunctionOnSet(f, T) = 0
  OBVIOUS
<1> HIDE DEF Bad
<1>1. ASSUME Bad # {}
      PROVE  FALSE
  <2>1. PICK T \in Bad : \A U \in SUBSET T : U \in Bad => U = T
    BY <1>0, <1>1, SmallestSubset
  <2>2. T \subseteq S /\ IsFiniteSet(T) /\ T # {}
    BY <1>0, <2>1, SumEmpty, FS_Subset
  <2>3. PICK z \in T : TRUE
    BY <2>2
  <2>4. SumFunctionOnSet(f, T \ {z}) = 0
    BY <1>0, <2>1, <2>2, <2>3
  <2>5. SumFunctionOnSet(f, T) = f[z] + SumFunctionOnSet(f, T \ {z})
    BY <2>2, <2>3, SumRemove
  <2>6. SumFunctionOnSet(f, T) = 0
    BY <2>2, <2>3, <2>4, <2>5
  <2> QED
    BY <1>0, <2>1, <2>6
<1> QED
  BY <1>0, <1>1
=============================================================================
