------------------------ MODULE TrafficSplit_proofs -------------------------
(***************************************************************************)
(* What the operators of LinkState and TrafficSplit return, for any links  *)
(* and any bursts: the default links are links that are up, and every      *)
(* decision of the receiver adds up to the burst.                          *)
(***************************************************************************)
EXTENDS TrafficSplit, TLAPS, FiniteSetTheorems, WellFoundedInduction

-----------------------------------------------------------------------------
\* Sums over finite sets. SumFunctionOnSet of the community module Functions
\* is a choice among recursive functions on the subsets of a set, so what it
\* adds up to is shown by induction on those subsets. The library's induction
\* theorems take an operator as a parameter; here well-founded induction is
\* used through its form for sets, WFMin.

\* A set of subsets of a finite S that has the empty one, and with A also A
\* with any one more element, has all of them.
LEMMA SubsetInduction ==
  ASSUME NEW S, IsFiniteSet(S), NEW T \in SUBSET SUBSET S,
         {} \in T,
         \A A \in T : \A x \in S \ A : A \cup {x} \in T
  PROVE  T = SUBSET S
<1>. DEFINE R == StrictSubsetOrdering(S)
            U == (SUBSET S) \ T
<1>1. SUFFICES ASSUME U # {} PROVE FALSE
  OBVIOUS
<1>2. FiniteSubsetsOf(S) = SUBSET S
  BY FS_FiniteSubsetsOfFinite
<1>3. PICK B \in U : \A A \in U : <<A, B>> \notin R
  <2>. HIDE DEF R, U
  <2>1. IsWellFoundedOn(R, SUBSET S)
    BY <1>2, FS_StrictSubsetOrderingWellFounded DEF R
  <2>2. U \subseteq SUBSET S
    BY DEF U
  <2>. QED  BY <1>1, <2>1, <2>2, WFMin
<1>4. PICK x : x \in B
  BY <1>3
<1>5. B \ {x} \in T
  <2>1. <<B \ {x}, B>> \in R
    BY <1>4 DEF StrictSubsetOrdering
  <2>. QED  BY <1>3, <2>1
<1>6. (B \ {x}) \cup {x} = B
  BY <1>4
<1>. QED  BY <1>3, <1>4, <1>5, <1>6

\* A set of numbers that has 0, and with n also n + 1, has all of them.
LEMMA NatSetInduction ==
  ASSUME NEW T \in SUBSET Nat, 0 \in T, \A n \in T : n + 1 \in T
  PROVE  T = Nat
<1>. DEFINE U == Nat \ T
<1>1. SUFFICES ASSUME U # {} PROVE FALSE
  OBVIOUS
<1>2. PICK n \in U : \A k \in U : <<k, n>> \notin OpToRel(<, Nat)
  BY <1>1, NatLessThanWellFounded, WFMin
<1>3. \A k \in U : ~(k < n)
  BY <1>2 DEF OpToRel
<1>4. n # 0 /\ n - 1 \in Nat
  <2>1. n \in Nat /\ n \notin T
    BY <1>2
  <2>. QED  BY <2>1
<1>5. n - 1 \in T
  BY <1>3, <1>4
<1>6. (n - 1) + 1 = n
  BY <1>4
<1>. QED  BY <1>2, <1>5, <1>6

\* The functions from which SumFunctionOnSet chooses one, on a set D of sets.
Chosen(s) == CHOOSE x \in s : TRUE

SumStep(f, g, s) == IF s = {} THEN 0 ELSE f[Chosen(s)] + g[s \ {Chosen(s)}]

IsSum(f, D, g) == g = [s \in D |-> SumStep(f, g, s)]

\* What SumFunctionOnSet stands for.
LEMMA SumDef ==
  ASSUME NEW f, NEW S
  PROVE  SumFunctionOnSet(f, S) = (CHOOSE g : IsSum(f, SUBSET S, g))[S]
BY DEF SumFunctionOnSet, FoldFunctionOnSet, MapThenFoldSet, IsSum, SumStep, Chosen

\* The element that is taken out of a set next.
LEMMA ChosenIn ==
  ASSUME NEW S, IsFiniteSet(S), NEW s \in SUBSET S
  PROVE  /\ IsFiniteSet(s) /\ Cardinality(s) \in Nat
         /\ s # {} => /\ Chosen(s) \in s
                      /\ Cardinality(s \ {Chosen(s)}) = Cardinality(s) - 1
<1>1. IsFiniteSet(s) /\ Cardinality(s) \in Nat
  BY FS_Subset, FS_CardinalityType
<1>2. s # {} => Chosen(s) \in s
  BY DEF Chosen
<1>. QED  BY <1>1, <1>2, FS_RemoveElement

\* There is such a function, by the number of elements.
LEMMA SumExists ==
  ASSUME NEW S, IsFiniteSet(S), NEW f
  PROVE  \E g : IsSum(f, SUBSET S, g)
<1>. DEFINE Upto(n) == {s \in SUBSET S : Cardinality(s) <= n}
            T == {n \in Nat : \E g : IsSum(f, Upto(n), g)}
<1>1. 0 \in T
  <2>1. ASSUME NEW s \in Upto(0)
        PROVE  s = {}
    <3>1. s \in SUBSET S /\ Cardinality(s) <= 0
      OBVIOUS
    <3>2. IsFiniteSet(s) /\ Cardinality(s) \in Nat
      BY <3>1, ChosenIn
    <3>. QED  BY <3>1, <3>2, FS_EmptySet
  <2>2. IsSum(f, Upto(0), [s \in Upto(0) |-> 0])
    BY <2>1 DEF IsSum, SumStep
  <2>. QED  BY <2>2
<1>2. ASSUME NEW n \in T
      PROVE  n + 1 \in T
  <2>. n \in Nat
    OBVIOUS
  <2>1. PICK g : IsSum(f, Upto(n), g)
    OBVIOUS
  <2>. DEFINE h == [s \in Upto(n + 1) |-> SumStep(f, g, s)]
  <2>2. ASSUME NEW s \in Upto(n)
        PROVE  s \in Upto(n + 1)
    <3>1. Cardinality(s) \in Nat
      BY ChosenIn
    <3>. QED  BY <3>1
  <2>3. \A s \in Upto(n) : h[s] = g[s]
    BY <2>1, <2>2 DEF IsSum
  <2>4. ASSUME NEW s \in Upto(n + 1), s # {}
        PROVE  s \ {Chosen(s)} \in Upto(n)
    <3>1. s \ {Chosen(s)} \in SUBSET S
      OBVIOUS
    <3>. QED  BY <2>4, <3>1, ChosenIn
  <2>5. \A s \in Upto(n + 1) : SumStep(f, g, s) = SumStep(f, h, s)
    BY <2>3, <2>4 DEF SumStep
  <2>6. IsSum(f, Upto(n + 1), h)
    BY <2>5 DEF IsSum
  <2>7. \E k : IsSum(f, Upto(n + 1), k)
    BY <2>6
  <2>. HIDE DEF Upto
  <2>. QED  BY <2>7
<1>3. Cardinality(S) \in T
  <2>. HIDE DEF T
  <2>1. T \subseteq Nat
    BY DEF T
  <2>2. T = Nat
    BY <1>1, <1>2, <2>1, NatSetInduction
  <2>. QED  BY <2>2, FS_CardinalityType
<1>4. PICK g : IsSum(f, Upto(Cardinality(S)), g)
  BY <1>3
<1>5. Upto(Cardinality(S)) = SUBSET S
  BY FS_Subset
<1>. QED  BY <1>4, <1>5

\* Such functions agree where both are defined.
LEMMA SumUnique ==
  ASSUME NEW S, IsFiniteSet(S), NEW A \in SUBSET S, NEW f,
         NEW D, D = SUBSET S, NEW g, IsSum(f, D, g),
         NEW E, E = SUBSET A, NEW h, IsSum(f, E, h)
  PROVE  g[A] = h[A]
<1>. DEFINE T == {n \in Nat : \A s \in SUBSET A : Cardinality(s) = n => g[s] = h[s]}
<1>1. 0 \in T
  BY ChosenIn, FS_EmptySet DEF IsSum, SumStep
<1>2. ASSUME NEW n \in T
      PROVE  n + 1 \in T
  <2>1. SUFFICES ASSUME NEW s \in SUBSET A, Cardinality(s) = n + 1
                 PROVE  g[s] = h[s]
    OBVIOUS
  <2>2. s # {}
    BY <2>1, FS_EmptySet
  <2>3. g[s \ {Chosen(s)}] = h[s \ {Chosen(s)}]
    BY <2>1, <2>2, ChosenIn
  <2>4. g[s] = SumStep(f, g, s) /\ h[s] = SumStep(f, h, s)
    BY DEF IsSum
  <2>. QED  BY <2>2, <2>3, <2>4 DEF SumStep
<1>3. T = Nat
  <2>. HIDE DEF T
  <2>1. T \subseteq Nat
    BY DEF T
  <2>. QED  BY <1>1, <1>2, <2>1, NatSetInduction
<1>. QED  BY <1>3, ChosenIn, FS_Subset

\* So the sum takes out one element after the other.
LEMMA SumUnfolds ==
  ASSUME NEW S, IsFiniteSet(S), NEW f
  PROVE  /\ SumFunctionOnSet(f, {}) = 0
         /\ S # {} => SumFunctionOnSet(f, S) = f[Chosen(S)] + SumFunctionOnSet(f, S \ {Chosen(S)})
<1>1. PICK g : IsSum(f, SUBSET S, g)
  BY SumExists
<1>2. ASSUME NEW A \in SUBSET S
      PROVE  SumFunctionOnSet(f, A) = g[A]
  <2>1. PICK h : IsSum(f, SUBSET A, h) /\ SumFunctionOnSet(f, A) = h[A]
    BY SumExists, SumDef, FS_Subset
  <2>2. g[A] = h[A]
    BY <1>1, <2>1, SumUnique
  <2>. QED  BY <2>1, <2>2
<1>3. g[S] = SumStep(f, g, S) /\ g[{}] = SumStep(f, g, {})
  BY <1>1 DEF IsSum
<1>4. S \ {Chosen(S)} \in SUBSET S
  OBVIOUS
<1>. QED  BY <1>2, <1>3, <1>4 DEF SumStep

\* Nothing adds up to 0.
LEMMA SumEmpty ==
  ASSUME NEW f
  PROVE  SumFunctionOnSet(f, {}) = 0
BY SumUnfolds, FS_EmptySet

\* Numbers add up to a number.
LEMMA SumType ==
  ASSUME NEW S, IsFiniteSet(S), NEW f, \A x \in S : f[x] \in Nat
  PROVE  SumFunctionOnSet(f, S) \in Nat
<1>. DEFINE T == {n \in Nat : \A s \in SUBSET S : Cardinality(s) = n => SumFunctionOnSet(f, s) \in Nat}
<1>1. 0 \in T
  <2>1. ASSUME NEW s \in SUBSET S, Cardinality(s) = 0
        PROVE  s = {}
    BY <2>1, ChosenIn, FS_EmptySet
  <2>2. SumFunctionOnSet(f, {}) = 0
    BY SumUnfolds
  <2>. QED  BY <2>1, <2>2
<1>2. ASSUME NEW n \in T
      PROVE  n + 1 \in T
  <2>1. SUFFICES ASSUME NEW s \in SUBSET S, Cardinality(s) = n + 1
                 PROVE  SumFunctionOnSet(f, s) \in Nat
    OBVIOUS
  <2>2. s # {}
    BY <2>1, FS_EmptySet
  <2>3. SumFunctionOnSet(f, s \ {Chosen(s)}) \in Nat
    BY <2>1, <2>2, ChosenIn
  <2>4. f[Chosen(s)] \in Nat
    BY <2>2, ChosenIn
  <2>5. IsFiniteSet(s)
    BY ChosenIn
  <2>6. SumFunctionOnSet(f, s) = f[Chosen(s)] + SumFunctionOnSet(f, s \ {Chosen(s)})
    BY <2>2, <2>5, SumUnfolds
  <2>. QED  BY <2>3, <2>4, <2>6
<1>3. T = Nat
  <2>. HIDE DEF T
  <2>1. T \subseteq Nat
    BY DEF T
  <2>. QED  BY <1>1, <1>2, <2>1, NatSetInduction
<1>4. Cardinality(S) \in T
  BY <1>3, FS_CardinalityType
<1>. QED  BY <1>4

\* The order does not matter: any element may be taken out first.
LEMMA SumInsert ==
  ASSUME NEW S, IsFiniteSet(S), NEW f, \A x \in S : f[x] \in Nat, NEW x \in S
  PROVE  SumFunctionOnSet(f, S) = f[x] + SumFunctionOnSet(f, S \ {x})
<1>. DEFINE Sum(s) == SumFunctionOnSet(f, s)
            T == {n \in Nat : \A s \in SUBSET S, y \in S :
                                Cardinality(s) = n /\ y \in s => Sum(s) = f[y] + Sum(s \ {y})}
<1>0. \A s \in SUBSET S : Sum(s) \in Nat
  BY SumType, FS_Subset
<1>1. 0 \in T
  <2>1. ASSUME NEW s \in SUBSET S, Cardinality(s) = 0
        PROVE  s = {}
    BY <2>1, ChosenIn, FS_EmptySet
  <2>. QED  BY <2>1
<1>2. ASSUME NEW n \in T
      PROVE  n + 1 \in T
  <2>. n \in Nat
    OBVIOUS
  <2>1. SUFFICES ASSUME NEW s \in SUBSET S, Cardinality(s) = n + 1, NEW y \in S, y \in s
                 PROVE  Sum(s) = f[y] + Sum(s \ {y})
    OBVIOUS
  <2>. DEFINE c == Chosen(s)
  <2>2. /\ c \in s /\ c \in S
        /\ IsFiniteSet(s)
        /\ Cardinality(s \ {c}) = n
        /\ Cardinality(s \ {y}) = n
    <3>1. c \in s /\ IsFiniteSet(s) /\ Cardinality(s \ {c}) = Cardinality(s) - 1
      BY <2>1, ChosenIn
    <3>2. Cardinality(s \ {y}) = Cardinality(s) - 1
      BY <2>1, <3>1, FS_RemoveElement
    <3>. QED  BY <2>1, <3>1, <3>2
  <2>3. Sum(s) = f[c] + Sum(s \ {c})
    BY <2>2, SumUnfolds
  <2>. HIDE DEF c, Sum
  <2>4. CASE c # y
    <3>1. Sum(s \ {c}) = f[y] + Sum((s \ {c}) \ {y})
      BY <2>1, <2>2, <2>4
    <3>2. Sum(s \ {y}) = f[c] + Sum((s \ {y}) \ {c})
      BY <2>1, <2>2, <2>4
    <3>3. (s \ {y}) \ {c} = (s \ {c}) \ {y}
      OBVIOUS
    <3>4. Sum((s \ {c}) \ {y}) \in Nat /\ f[y] \in Nat /\ f[c] \in Nat
      BY <1>0, <2>2
    <3>. QED  BY <2>3, <3>1, <3>2, <3>3, <3>4
  <2>. QED  BY <2>3, <2>4
<1>3. T = Nat
  <2>. HIDE DEF T
  <2>1. T \subseteq Nat
    BY DEF T
  <2>. QED  BY <1>1, <1>2, <2>1, NatSetInduction
<1>4. Cardinality(S) \in T
  BY <1>3, FS_CardinalityType
<1>. QED  BY <1>4

\* Equal summands have equal sums.
LEMMA SumEqual ==
  ASSUME NEW S, IsFiniteSet(S), NEW f, NEW g, \A x \in S : f[x] = g[x] /\ f[x] \in Nat
  PROVE  SumFunctionOnSet(f, S) = SumFunctionOnSet(g, S)
<1>. DEFINE T == {A \in SUBSET S : SumFunctionOnSet(f, A) = SumFunctionOnSet(g, A)}
<1>1. {} \in T
  BY SumUnfolds
<1>2. ASSUME NEW A \in T, NEW x \in S \ A
      PROVE  A \cup {x} \in T
  <2>. DEFINE B == A \cup {x}
  <2>1. IsFiniteSet(B) /\ B \in SUBSET S /\ x \in B /\ B \ {x} = A
    BY FS_Subset
  <2>. HIDE DEF B
  <2>2. SumFunctionOnSet(f, B) = f[x] + SumFunctionOnSet(f, A)
    BY <2>1, SumInsert
  <2>3. SumFunctionOnSet(g, B) = g[x] + SumFunctionOnSet(g, A)
    BY <2>1, SumInsert
  <2>. QED  BY <2>1, <2>2, <2>3 DEF B
<1>3. T = SUBSET S
  <2>. HIDE DEF T
  <2>1. T \subseteq SUBSET S
    BY DEF T
  <2>. QED  BY <1>1, <1>2, <2>1, SubsetInduction
<1>. QED  BY <1>3

\* The sum of sums.
LEMMA SumOfSums ==
  ASSUME NEW S, IsFiniteSet(S), NEW f, NEW g, NEW h,
         \A x \in S : f[x] \in Nat /\ g[x] \in Nat /\ h[x] = f[x] + g[x]
  PROVE  SumFunctionOnSet(h, S) = SumFunctionOnSet(f, S) + SumFunctionOnSet(g, S)
<1>. DEFINE T == {A \in SUBSET S : SumFunctionOnSet(h, A) = SumFunctionOnSet(f, A) + SumFunctionOnSet(g, A)}
<1>1. {} \in T
  <2>1. SumFunctionOnSet(f, {}) = 0 /\ SumFunctionOnSet(g, {}) = 0 /\ SumFunctionOnSet(h, {}) = 0
    BY SumEmpty
  <2>. QED  BY <2>1
<1>2. ASSUME NEW A \in T, NEW x \in S \ A
      PROVE  A \cup {x} \in T
  <2>. DEFINE B == A \cup {x}
  <2>1. /\ IsFiniteSet(B) /\ B \in SUBSET S /\ x \in B /\ B \ {x} = A
        /\ IsFiniteSet(A) /\ A \in SUBSET S
    BY FS_Subset
  <2>. HIDE DEF B
  <2>2. SumFunctionOnSet(f, B) = f[x] + SumFunctionOnSet(f, A)
    BY <2>1, SumInsert
  <2>3. SumFunctionOnSet(g, B) = g[x] + SumFunctionOnSet(g, A)
    BY <2>1, SumInsert
  <2>4. SumFunctionOnSet(h, B) = h[x] + SumFunctionOnSet(h, A)
    <3>1. \A y \in B : h[y] \in Nat
      BY <2>1
    <3>. QED  BY <2>1, <3>1, SumInsert
  <2>5. SumFunctionOnSet(f, A) \in Nat /\ SumFunctionOnSet(g, A) \in Nat
    BY <2>1, SumType
  <2>6. SumFunctionOnSet(h, A) = SumFunctionOnSet(f, A) + SumFunctionOnSet(g, A)
    OBVIOUS
  <2>7. f[x] \in Nat /\ g[x] \in Nat /\ h[x] = f[x] + g[x]
    OBVIOUS
  <2>8. SumFunctionOnSet(h, B) = SumFunctionOnSet(f, B) + SumFunctionOnSet(g, B)
    BY <2>2, <2>3, <2>4, <2>5, <2>6, <2>7
  <2>. QED  BY <2>1, <2>8 DEF B
<1>3. T = SUBSET S
  <2>. HIDE DEF T
  <2>1. T \subseteq SUBSET S
    BY DEF T
  <2>. QED  BY <1>1, <1>2, <2>1, SubsetInduction
<1>. QED  BY <1>3

\* Equal summands.
LEMMA SumConstant ==
  ASSUME NEW S, IsFiniteSet(S), NEW k \in Nat, NEW f, \A x \in S : f[x] = k
  PROVE  SumFunctionOnSet(f, S) = Cardinality(S) * k
<1>. DEFINE T == {A \in SUBSET S : SumFunctionOnSet(f, A) = Cardinality(A) * k}
<1>1. {} \in T
  BY SumUnfolds, FS_EmptySet
<1>2. ASSUME NEW A \in T, NEW x \in S \ A
      PROVE  A \cup {x} \in T
  <2>. DEFINE B == A \cup {x}
  <2>1. /\ IsFiniteSet(B) /\ B \in SUBSET S /\ x \in B /\ B \ {x} = A
        /\ IsFiniteSet(A) /\ A \in SUBSET S
    BY FS_Subset
  <2>2. Cardinality(B) = Cardinality(A) + 1 /\ Cardinality(A) \in Nat
    BY <2>1, FS_AddElement, FS_CardinalityType
  <2>. HIDE DEF B
  <2>3. SumFunctionOnSet(f, B) = f[x] + SumFunctionOnSet(f, A)
    BY <2>1, SumInsert
  <2>4. SumFunctionOnSet(f, A) = Cardinality(A) * k /\ f[x] = k
    OBVIOUS
  <2>5. SumFunctionOnSet(f, B) = Cardinality(B) * k
    BY <2>2, <2>3, <2>4
  <2>. QED  BY <2>1, <2>5 DEF B
<1>3. T = SUBSET S
  <2>. HIDE DEF T
  <2>1. T \subseteq SUBSET S
    BY DEF T
  <2>. QED  BY <1>1, <1>2, <2>1, SubsetInduction
<1>. QED  BY <1>3

\* Summands that are all 0.
LEMMA SumZero ==
  ASSUME NEW S, IsFiniteSet(S), NEW f, \A x \in S : f[x] = 0
  PROVE  SumFunctionOnSet(f, S) = 0
<1>1. SumFunctionOnSet(f, S) = Cardinality(S) * 0
  BY SumConstant
<1>2. Cardinality(S) \in Nat
  BY FS_CardinalityType
<1>. QED  BY <1>1, <1>2


\* f and g differ in x only.
LEMMA SumChange ==
  ASSUME NEW S, IsFiniteSet(S), NEW f, NEW g, NEW x \in S,
         \A y \in S : f[y] \in Nat /\ g[y] \in Nat,
         \A y \in S \ {x} : f[y] = g[y]
  PROVE  SumFunctionOnSet(g, S) + f[x] = SumFunctionOnSet(f, S) + g[x]
<1>. DEFINE A == S \ {x}
<1>1. IsFiniteSet(A)
  BY FS_Subset
<1>2. SumFunctionOnSet(f, A) = SumFunctionOnSet(g, A) /\ SumFunctionOnSet(f, A) \in Nat
  BY <1>1, SumEqual, SumType
<1>3. SumFunctionOnSet(f, S) = f[x] + SumFunctionOnSet(f, A)
  BY SumInsert
<1>4. SumFunctionOnSet(g, S) = g[x] + SumFunctionOnSet(g, A)
  BY SumInsert
<1>. QED
  <2>. HIDE DEF A
  <2>. QED  BY <1>2, <1>3, <1>4

\* Only the elements of A count if f is 0 for the others.
LEMMA SumSupport ==
  ASSUME NEW S, IsFiniteSet(S), NEW A \in SUBSET S, NEW f,
         \A x \in S : f[x] \in Nat, \A x \in S \ A : f[x] = 0
  PROVE  SumFunctionOnSet(f, S) = SumFunctionOnSet(f, A)
<1>. DEFINE T == {B \in SUBSET (S \ A) : SumFunctionOnSet(f, A \cup B) = SumFunctionOnSet(f, A)}
<1>0. IsFiniteSet(S \ A)
  BY FS_Subset
<1>1. {} \in T
  OBVIOUS
<1>2. ASSUME NEW B \in T, NEW x \in (S \ A) \ B
      PROVE  B \cup {x} \in T
  <2>. DEFINE C == A \cup (B \cup {x})
  <2>1. IsFiniteSet(C) /\ C \in SUBSET S /\ x \in C /\ C \ {x} = A \cup B
    BY FS_Subset
  <2>2. IsFiniteSet(A \cup B) /\ \A y \in A \cup B : f[y] \in Nat
    BY FS_Subset
  <2>. HIDE DEF C
  <2>3. SumFunctionOnSet(f, C) = f[x] + SumFunctionOnSet(f, A \cup B)
    BY <2>1, SumInsert
  <2>4. SumFunctionOnSet(f, A \cup B) \in Nat /\ f[x] = 0
    BY <2>2, SumType
  <2>5. SumFunctionOnSet(f, C) = SumFunctionOnSet(f, A)
    BY <2>3, <2>4
  <2>. QED  BY <2>5 DEF C
<1>3. T = SUBSET (S \ A)
  <2>. HIDE DEF T
  <2>1. T \subseteq SUBSET (S \ A)
    BY DEF T
  <2>. QED  BY <1>0, <1>1, <1>2, <2>1, SubsetInduction
<1>4. S \ A \in T /\ A \cup (S \ A) = S
  BY <1>3
<1>. QED  BY <1>4

\* No summand exceeds the sum.
LEMMA SumCovers ==
  ASSUME NEW S, IsFiniteSet(S), NEW f, \A y \in S : f[y] \in Nat, NEW x \in S
  PROVE  f[x] <= SumFunctionOnSet(f, S)
<1>1. SumFunctionOnSet(f, S) = f[x] + SumFunctionOnSet(f, S \ {x})
  BY SumInsert
<1>2. IsFiniteSet(S \ {x}) /\ SumFunctionOnSet(f, S \ {x}) \in Nat
  BY SumType, FS_Subset
<1>. QED  BY <1>1, <1>2

-----------------------------------------------------------------------------
\* Exactly k elements of a finite set of numbers have fewer than k below them.

\* The number of elements of S below x.
Rank(S, x) == Cardinality({y \in S : y < x})

\* A finite set of numbers has a largest one.
LEMMA LargestElement ==
  ASSUME NEW S \in SUBSET Int, IsFiniteSet(S), S # {}
  PROVE  \E x \in S : \A y \in S : y <= x
<1>. DEFINE T == {A \in SUBSET S : A # {} => \E x \in A : \A y \in A : y <= x}
<1>1. {} \in T
  OBVIOUS
<1>2. ASSUME NEW A \in T, NEW z \in S \ A
      PROVE  A \cup {z} \in T
  <2>1. CASE A = {}
    BY <2>1
  <2>2. CASE A # {}
    <3>1. PICK x \in A : \A y \in A : y <= x
      BY <2>2
    <3>2. CASE z <= x
      <4>1. \A y \in A \cup {z} : y <= x
        BY <3>1, <3>2
      <4>. QED  BY <4>1
    <3>3. CASE x <= z
      <4>1. \A y \in A \cup {z} : y <= z
        <5>1. \A y \in A : y \in Int
          OBVIOUS
        <5>. QED  BY <3>1, <3>3, <5>1
      <4>. QED  BY <4>1
    <3>. QED  BY <3>2, <3>3
  <2>. QED  BY <2>1, <2>2
<1>3. T = SUBSET S
  <2>. HIDE DEF T
  <2>1. T \subseteq SUBSET S
    BY DEF T
  <2>. QED  BY <1>1, <1>2, <2>1, SubsetInduction
<1>. QED  BY <1>3

\* A finite nonempty set of integers has a smallest element.
LEMMA SmallestElement ==
  ASSUME NEW S \in SUBSET Int, IsFiniteSet(S), S # {}
  PROVE  \E x \in S : \A y \in S : x <= y
<1>. DEFINE T == {A \in SUBSET S : A # {} => \E x \in A : \A y \in A : x <= y}
<1>1. {} \in T
  OBVIOUS
<1>2. ASSUME NEW A \in T, NEW z \in S \ A
      PROVE  A \cup {z} \in T
  <2>1. CASE A = {}
    BY <2>1
  <2>2. CASE A # {}
    <3>1. PICK x \in A : \A y \in A : x <= y
      BY <2>2
    <3>2. CASE x <= z
      <4>1. \A y \in A \cup {z} : x <= y
        BY <3>1, <3>2
      <4>. QED  BY <4>1
    <3>3. CASE z <= x
      <4>1. \A y \in A \cup {z} : z <= y
        <5>1. \A y \in A : y \in Int
          OBVIOUS
        <5>. QED  BY <3>1, <3>3, <5>1
      <4>. QED  BY <4>1
    <3>. QED  BY <3>2, <3>3
  <2>. QED  BY <2>1, <2>2
<1>3. T = SUBSET S
  <2>. HIDE DEF T
  <2>1. T \subseteq SUBSET S
    BY DEF T
  <2>. QED  BY <1>1, <1>2, <2>1, SubsetInduction
<1>. QED  BY <1>3

\* Without the largest element all others keep their rank.
LEMMA RankOfLargest ==
  ASSUME NEW A \in SUBSET Int, IsFiniteSet(A), NEW m \in A, \A y \in A : y <= m
  PROVE  /\ Rank(A, m) = Cardinality(A) - 1
         /\ \A x \in A \ {m} : Rank(A, x) = Rank(A \ {m}, x)
         /\ \A x \in A \ {m} : Rank(A \ {m}, x) \in 0 .. Cardinality(A) - 2
         /\ Cardinality(A \ {m}) = Cardinality(A) - 1
<1>0. ASSUME NEW y \in A
      PROVE  y < m <=> y # m
  <2>1. y \in Int /\ m \in Int /\ y <= m
    OBVIOUS
  <2>. QED  BY <2>1
<1>1. {y \in A : y < m} = A \ {m}
  BY <1>0
<1>2. Cardinality(A \ {m}) = Cardinality(A) - 1
  BY FS_RemoveElement
<1>3. ASSUME NEW x \in A \ {m}
      PROVE  Rank(A, x) = Rank(A \ {m}, x) /\ Rank(A \ {m}, x) \in 0 .. Cardinality(A) - 2
  <2>. DEFINE C == {y \in A \ {m} : y < x}
  <2>1. {y \in A : y < x} = C
    OBVIOUS
  <2>2. C \subseteq (A \ {m}) \ {x}
    OBVIOUS
  <2>3. IsFiniteSet(A \ {m}) /\ IsFiniteSet((A \ {m}) \ {x}) /\ IsFiniteSet(C)
    BY FS_Subset
  <2>4. Cardinality((A \ {m}) \ {x}) = Cardinality(A) - 2
    <3>1. Cardinality((A \ {m}) \ {x}) = Cardinality(A \ {m}) - 1
      BY <2>3, FS_RemoveElement
    <3>. QED  BY <1>2, <3>1, FS_CardinalityType
  <2>5. Cardinality(C) <= Cardinality((A \ {m}) \ {x}) /\ Cardinality(C) \in Nat
    BY <2>2, <2>3, FS_Subset, FS_CardinalityType
  <2>6. Cardinality(A) \in Nat
    BY FS_CardinalityType
  <2>7. Rank(A, x) = Cardinality(C) /\ Rank(A \ {m}, x) = Cardinality(C)
    BY <2>1 DEF Rank
  <2>. HIDE DEF C
  <2>. QED  BY <2>4, <2>5, <2>6, <2>7
<1>. QED  BY <1>1, <1>2, <1>3 DEF Rank

\* Exactly k elements of a finite set of numbers have fewer than k below them.
LEMMA SumOfRanks ==
  ASSUME NEW S \in SUBSET Int, IsFiniteSet(S), NEW k \in 0 .. Cardinality(S), NEW f,
         \A x \in S : f[x] = IF Rank(S, x) < k THEN 1 ELSE 0
  PROVE  SumFunctionOnSet(f, S) = k
<1>. DEFINE Below(A, j) == [x \in A |-> IF Rank(A, x) < j THEN 1 ELSE 0]
            T == {n \in Nat : \A A \in SUBSET S : Cardinality(A) = n =>
                                \A j \in 0 .. n : SumFunctionOnSet(Below(A, j), A) = j}
<1>1. 0 \in T
  <2>1. ASSUME NEW A \in SUBSET S, Cardinality(A) = 0
        PROVE  A = {}
    BY <2>1, ChosenIn, FS_EmptySet
  <2>2. \A j \in 0 .. 0 : SumFunctionOnSet(Below({}, j), {}) = j
    <3>. HIDE DEF Below
    <3>. QED  BY SumEmpty
  <2>. HIDE DEF Below
  <2>. QED  BY <2>1, <2>2
<1>2. ASSUME NEW n \in T
      PROVE  n + 1 \in T
  <2>. n \in Nat
    OBVIOUS
  <2>1. SUFFICES ASSUME NEW A \in SUBSET S, Cardinality(A) = n + 1, NEW j \in 0 .. n + 1
                 PROVE  SumFunctionOnSet(Below(A, j), A) = j
    BY DEF T
  <2>2. IsFiniteSet(A) /\ A # {} /\ A \in SUBSET Int
    <3>1. IsFiniteSet(A)
      BY FS_Subset
    <3>2. A # {}
      BY <2>1, FS_EmptySet
    <3>. QED  BY <3>1, <3>2
  <2>3. PICK m \in A : \A y \in A : y <= m
    BY <2>2, LargestElement
  <2>. DEFINE B == A \ {m}
              g == Below(A, j)
              i == IF j = n + 1 THEN n ELSE j
  <2>4. /\ Rank(A, m) = n
        /\ \A x \in B : Rank(A, x) = Rank(B, x)
        /\ \A x \in B : Rank(B, x) \in 0 .. n - 1
        /\ Cardinality(B) = n
    BY <2>1, <2>2, <2>3, RankOfLargest
  <2>5. \A x \in A : g[x] \in Nat
    OBVIOUS
  <2>6. SumFunctionOnSet(g, A) = g[m] + SumFunctionOnSet(g, B)
    <3>. HIDE DEF g
    <3>. QED  BY <2>2, <2>5, SumInsert
  <2>7. B \in SUBSET S /\ IsFiniteSet(B) /\ i \in 0 .. n
    BY <2>2, FS_Subset
  <2>8. SumFunctionOnSet(Below(B, i), B) = i
    <3>. HIDE DEF Below, i, B
    <3>. QED  BY <2>4, <2>7
  <2>9. ASSUME NEW x \in B
        PROVE  g[x] = Below(B, i)[x] /\ g[x] \in Nat
    <3>1. Rank(A, x) = Rank(B, x) /\ Rank(B, x) \in 0 .. n - 1
      BY <2>4
    <3>2. Rank(B, x) < i <=> Rank(A, x) < j
      BY <3>1
    <3>3. g[x] = (IF Rank(A, x) < j THEN 1 ELSE 0)
      OBVIOUS
    <3>4. Below(B, i)[x] = (IF Rank(B, x) < i THEN 1 ELSE 0)
      OBVIOUS
    <3>. HIDE DEF g, Below, i
    <3>. QED  BY <3>2, <3>3, <3>4
  <2>10. SumFunctionOnSet(g, B) = SumFunctionOnSet(Below(B, i), B)
    <3>. HIDE DEF Below, i, B, g
    <3>. QED  BY <2>7, <2>9, SumEqual
  <2>11. g[m] + i = j
    BY <2>4
  <2>. HIDE DEF g, i, B, Below
  <2>12. SumFunctionOnSet(g, A) = j
    BY <2>6, <2>8, <2>10, <2>11
  <2>. QED  BY <2>12 DEF g
<1>3. T = Nat
  <2>. HIDE DEF T
  <2>1. T \subseteq Nat
    BY DEF T
  <2>. QED  BY <1>1, <1>2, <2>1, NatSetInduction
<1>4. SumFunctionOnSet(Below(S, k), S) = k
  <2>1. Cardinality(S) \in T
    BY <1>3, FS_CardinalityType
  <2>. HIDE DEF Below
  <2>. QED  BY <2>1
<1>5. \A x \in S : f[x] = Below(S, k)[x] /\ f[x] \in Nat
  OBVIOUS
<1>. QED
  <2>. HIDE DEF Below
  <2>. QED  BY <1>4, <1>5, SumEqual

-----------------------------------------------------------------------------
\* Links and decisions.

\* The links are finitely many numbers, Wi-Fi and LTE among them.
LEMMA CidsFinite == IsFiniteSet(Cids) /\ Cids \in SUBSET Int /\ Wifi \in Cids /\ Lte \in Cids
<1>1. PICK top \in Nat : top = 254
  OBVIOUS
<1>2. Cids \in SUBSET (0 .. top) /\ Cids \in SUBSET Int
  BY <1>1, CidsAssumption
<1>3. IsFiniteSet(0 .. top)
  BY FS_Interval
<1>4. IsFiniteSet(Cids)
  BY <1>2, <1>3, FS_Subset
<1>. QED  BY <1>2, <1>4, CidsAssumption

\* The largest and the smallest of some links are among them.
LEMMA MaxMinIn ==
  ASSUME NEW S \in SUBSET Cids, S # {}
  PROVE  Max(S) \in S /\ Min(S) \in S
<1>1. IsFiniteSet(S) /\ S \in SUBSET Int
  BY CidsFinite, FS_Subset
<1>2. \E x \in S : \A y \in S : y <= x
  BY <1>1, LargestElement
<1>3. \E x \in S : \A y \in S : x <= y
  BY <1>1, SmallestElement
<1>4. Max(S) \in S
  BY <1>1, <1>2 DEF Max
<1>5. Min(S) \in S
  BY <1>3 DEF Min
<1>. QED  BY <1>4, <1>5

\* UpdateDefaultLink changes no link's state, and its defaults are up.
LEMMA UpdatedDefaults ==
  ASSUME NEW s \in LinkStates
  PROVE  /\ UpdateDefaultLink(s) \in LinkStates
         /\ UpLinks(UpdateDefaultLink(s)) = UpLinks(s)
         /\ UpLinks(s) # {} => {UpdateDefaultLink(s).high, UpdateDefaultLink(s).low} \subseteq UpLinks(s)
<1>. DEFINE t == UpdateDefaultLink(s)
            up == UpLinks(s)
<1>1. up \in SUBSET Cids
  BY DEF UpLinks
<1>2. up # {} => Max(up) \in up /\ Min(up) \in up
  <2>. HIDE DEF up
  <2>. QED  BY <1>1, MaxMinIn
<1>3. t = s \/ (up # {} /\ (\/ t = [s EXCEPT !.high = Max(up), !.low = Min(up)]
                           \/ t = [s EXCEPT !.high = Min(up), !.low = Max(up)]))
  BY DEF UpdateDefaultLink
<1>4. /\ t \in LinkStates
      /\ t.ctrFailed = s.ctrFailed /\ t.lowQuality = s.lowQuality /\ t.bitmapFailed = s.bitmapFailed
  <2>1. \A h, l \in Cids : \A r : r = [s EXCEPT !.high = h, !.low = l] =>
          /\ r \in LinkStates
          /\ r.ctrFailed = s.ctrFailed /\ r.lowQuality = s.lowQuality /\ r.bitmapFailed = s.bitmapFailed
    BY DEF LinkStates
  <2>. HIDE DEF t, up
  <2>2. up # {} => Max(up) \in Cids /\ Min(up) \in Cids
    BY <1>1, <1>2
  <2>. QED  BY <1>3, <2>1, <2>2
<1>5. UpLinks(t) = up
  <2>. HIDE DEF t
  <2>. QED  BY <1>4 DEF UpLinks, IsLinkUp
<1>6. up # {} => {t.high, t.low} \subseteq up
  <2>1. up # {} => \/ t = [s EXCEPT !.high = Max(up), !.low = Min(up)]
                   \/ t = [s EXCEPT !.high = Min(up), !.low = Max(up)]
    BY DEF UpdateDefaultLink
  <2>. HIDE DEF t, up
  <2>. QED  BY <1>2, <2>1 DEF LinkStates
<1>. QED  BY <1>4, <1>5, <1>6

\* The defaults of t are up if the links that are up are others than in s.
Follow(s, t) == UpLinks(t) \notin {UpLinks(s), {}} => {t.high, t.low} \subseteq UpLinks(t)

\* LinkDown takes the link down, touches no other link, and leaves the
\* defaults up.
LEMMA LinkDownIs ==
  ASSUME NEW s \in LinkStates, NEW why \in Reasons, NEW c \in Cids
  PROVE  /\ LinkDown(s, why, c) \in LinkStates
         /\ UpLinks(LinkDown(s, why, c)) = UpLinks(s) \ {c}
         /\ Follow(s, LinkDown(s, why, c))
<1>. DEFINE t == [s EXCEPT ![why] = s[why] \cup {c}]
<1>1. t \in LinkStates
  BY DEF LinkStates, Reasons
<1>2. UpLinks(t) = UpLinks(s) \ {c}
  BY DEF LinkStates, Reasons, UpLinks, IsLinkUp
<1>3. IsLinkUp(s, c) <=> c \in UpLinks(s)
  BY DEF UpLinks
<1>4. LinkDown(s, why, c) = IF IsLinkUp(s, c) THEN UpdateDefaultLink(t) ELSE t
  BY DEF LinkDown
<1>. HIDE DEF t
<1>. QED  BY <1>1, <1>2, <1>3, <1>4, UpdatedDefaults DEF Follow

\* LinkUp clears one reason of one link, and leaves the defaults up.
LEMMA LinkUpIs ==
  ASSUME NEW s \in LinkStates, NEW why \in Reasons, NEW c
  PROVE  /\ LinkUp(s, why, c) \in LinkStates
         /\ UpLinks(s) \subseteq UpLinks(LinkUp(s, why, c))
         /\ Follow(s, LinkUp(s, why, c))
<1>. DEFINE t == [s EXCEPT ![why] = s[why] \ {c}]
<1>1. t \in LinkStates
  BY DEF LinkStates, Reasons
<1>2. UpLinks(s) \subseteq UpLinks(t)
  BY DEF LinkStates, Reasons, UpLinks, IsLinkUp
<1>3. (c \in s[why] /\ IsLinkUp(t, c)) \/ UpLinks(t) = UpLinks(s)
  <2>1. UpLinks(t) \subseteq UpLinks(s) \cup {c}
    BY DEF LinkStates, Reasons, UpLinks, IsLinkUp
  <2>2. c \notin s[why] => t = s
    BY DEF LinkStates, Reasons
  <2>3. c \in UpLinks(t) => IsLinkUp(t, c)
    BY DEF UpLinks
  <2>. HIDE DEF t
  <2>. QED  BY <1>2, <2>1, <2>2, <2>3
<1>4. LinkUp(s, why, c) = IF c \in s[why] /\ IsLinkUp(t, c) THEN UpdateDefaultLink(t) ELSE t
  BY DEF LinkUp
<1>. HIDE DEF t
<1>. QED  BY <1>1, <1>2, <1>3, <1>4, UpdatedDefaults DEF Follow

\* The burst of a split is its sum over the links.
LEMMA BurstOnCids ==
  ASSUME NEW k \in [Cids -> Nat]
  PROVE  Burst(k) = SumFunctionOnSet(k, Cids)
BY DEF Burst, SumFunction

\* The burst of a split that gives everything to one link is what it gives.
LEMMA BurstOfAllTo ==
  ASSUME NEW c \in Cids, NEW n \in Nat
  PROVE  AllTo(c, n) \in [Cids -> Nat] /\ Burst(AllTo(c, n)) = n
<1>. DEFINE k == AllTo(c, n)
            zero == [d \in Cids |-> 0]
<1>1. k \in [Cids -> Nat] /\ k[c] = n /\ \A d \in Cids \ {c} : k[d] = 0
  BY DEF AllTo
<1>2. SumFunctionOnSet(k, Cids) = k[c] + SumFunctionOnSet(k, Cids \ {c})
  <2>. HIDE DEF k
  <2>. QED  BY <1>1, CidsFinite, SumInsert
<1>3. SumFunctionOnSet(k, Cids \ {c}) = Cardinality(Cids \ {c}) * 0
  <2>1. IsFiniteSet(Cids \ {c})
    BY CidsFinite, FS_Subset
  <2>. HIDE DEF k
  <2>. QED  BY <1>1, <2>1, SumConstant
<1>4. Cardinality(Cids \ {c}) \in Nat
  BY CidsFinite, FS_Subset, FS_CardinalityType
<1>. HIDE DEF k
<1>5. Burst(k) = n
  BY <1>1, <1>2, <1>3, <1>4, BurstOnCids
<1>. QED  BY <1>1, <1>5 DEF k

\* Dealing out what a link leaves gives all of it to the links that are up.
LEMMA DealDealsAll ==
  ASSUME NEW n \in Nat, NEW links \in SUBSET Cids, links # {}
  PROVE  /\ DealRoundRobin(n, links) \in [Cids -> Nat]
         /\ Burst(DealRoundRobin(n, links)) = n
         /\ \A c \in Cids \ links : DealRoundRobin(n, links)[c] = 0
<1>. DEFINE m == Cardinality(links)
            q == n \div m
            r == n % m
            each == [c \in links |-> q]
            rest == [c \in links |-> IF Rank(links, c) < r THEN 1 ELSE 0]
            deal == DealRoundRobin(n, links)
<1>1. IsFiniteSet(links) /\ links \in SUBSET Int /\ m \in Nat /\ m # 0
  BY CidsFinite, FS_Subset, FS_CardinalityType, FS_EmptySet
<1>2. q \in Nat /\ r \in 0 .. m - 1 /\ m * q + r = n
  <2>. HIDE DEF m
  <2>. QED  BY <1>1
<1>3. /\ deal \in [Cids -> Nat]
      /\ \A c \in Cids \ links : deal[c] = 0
      /\ \A c \in links : deal[c] = each[c] + rest[c] /\ each[c] \in Nat /\ rest[c] \in Nat
  <2>. HIDE DEF q, r, m
  <2>1. deal = [c \in Cids |-> IF c \notin links THEN 0
                      ELSE q + (IF Rank(links, c) < r THEN 1 ELSE 0)]
    BY DEF DealRoundRobin, Rank, q, r, m
  <2>. HIDE DEF deal
  <2>. QED  BY <1>2, <2>1
<1>4. SumFunctionOnSet(each, links) = m * q
  <2>. HIDE DEF q
  <2>. QED  BY <1>1, <1>2, SumConstant
<1>5. SumFunctionOnSet(rest, links) = r
  <2>. HIDE DEF r
  <2>1. r \in 0 .. Cardinality(links)
    BY <1>1, <1>2
  <2>2. \A c \in links : rest[c] = IF Rank(links, c) < r THEN 1 ELSE 0
    OBVIOUS
  <2>. HIDE DEF rest, m
  <2>. QED  BY <1>1, <2>1, <2>2, SumOfRanks
<1>6. SumFunctionOnSet(deal, links) = n
  <2>. HIDE DEF each, rest, deal, q, r, m
  <2>1. SumFunctionOnSet(deal, links) = SumFunctionOnSet(each, links) + SumFunctionOnSet(rest, links)
    BY <1>1, <1>3, SumOfSums
  <2>. QED  BY <1>2, <1>4, <1>5, <2>1
<1>7. SumFunctionOnSet(deal, Cids) = SumFunctionOnSet(deal, links)
  <2>. HIDE DEF deal
  <2>. QED  BY <1>3, CidsFinite, SumSupport
<1>. HIDE DEF deal
<1>. QED  BY <1>3, <1>6, <1>7, BurstOnCids DEF deal

\* A sum over the links changes by what changes at one link.
LEMMA SumChangeOnCids ==
  ASSUME NEW f, NEW g, NEW x \in Cids,
         \A y \in Cids : f[y] \in Nat /\ g[y] \in Nat,
         \A y \in Cids \ {x} : f[y] = g[y]
  PROVE  SumFunctionOnSet(g, Cids) + f[x] = SumFunctionOnSet(f, Cids) + g[x]
<1>1. IsFiniteSet(Cids)
  BY CidsFinite
<1>. QED  BY <1>1, SumChange

\* k splits a burst.
Adds(k, burst) == k \in [Cids -> Nat] /\ Burst(k) = burst

\* The split that is left when a link goes down adds up to the burst and gives
\* the link nothing (LinkDownTsu, gma-rx-control.cc).
LEMMA ShedAddsUp ==
  ASSUME NEW s \in LinkStates, NEW burst \in Nat, NEW split, NEW c \in Cids,
         split = NoSplit \/ Adds(split, burst)
  PROVE  LET d == LinkDownTsu(s, split, burst, c) IN
         /\ d.split = NoSplit \/ Adds(d.split, burst)
         /\ d.update => Adds(d.tsu, burst)
         /\ c \notin UpLinks(s) /\ UpLinks(s) # {} => d.split = NoSplit \/ d.split[c] = 0
<1>. DEFINE d == LinkDownTsu(s, split, burst, c)
<1>1. CASE split = NoSplit
  <2>0. s.low \in Cids
    BY DEF LinkStates
  <2>1. Adds(AllTo(s.low, burst), burst)
    BY <2>0, BurstOfAllTo DEF Adds
  <2>2. d = [update |-> c # s.low, tsu |-> AllTo(s.low, burst), split |-> NoSplit]
    BY <1>1, Zenon DEF LinkDownTsu
  <2>3. d.split = NoSplit /\ d.tsu = AllTo(s.low, burst)
    BY <2>2
  <2>. QED  BY <2>1, <2>3
<1>2. CASE split # NoSplit /\ (split[c] = 0 \/ UpLinks(s) = {})
  <2>1. d = [update |-> FALSE, tsu |-> split, split |-> split]
    BY <1>2 DEF LinkDownTsu
  <2>. QED  BY <1>2, <2>1
<1>3. CASE split # NoSplit /\ split[c] # 0 /\ UpLinks(s) # {}
  <2>. DEFINE share == DealRoundRobin(split[c], UpLinks(s))
              rest == [x \in Cids |-> IF x = c THEN 0 ELSE split[x]]
              new == [x \in Cids |-> (IF x = c THEN 0 ELSE split[x]) + share[x]]
  <2>1. d = [update |-> TRUE, tsu |-> new, split |-> new]
    BY <1>3, Zenon DEF LinkDownTsu
  <2>2. split \in [Cids -> Nat] /\ Burst(split) = burst
    BY <1>3 DEF Adds
  <2>3. share \in [Cids -> Nat] /\ Burst(share) = split[c]
        /\ \A x \in Cids \ UpLinks(s) : share[x] = 0
    BY <1>3, <2>2, DealDealsAll DEF UpLinks
  <2>. HIDE DEF share
  <2>4. rest \in [Cids -> Nat] /\ rest[c] = 0 /\ \A x \in Cids : rest[x] \in Nat
    BY <2>2
  <2>14. \A x \in Cids \ {c} : split[x] = rest[x]
    BY <2>2
  <2>15. \A x \in Cids : split[x] \in Nat /\ rest[x] \in Nat
    BY <2>2
  <2>5. new \in [Cids -> Nat] /\ \A x \in Cids : new[x] = rest[x] + share[x]
    BY <2>2, <2>3
  <2>16. \A x \in Cids : rest[x] \in Nat /\ share[x] \in Nat /\ new[x] = rest[x] + share[x]
    BY <2>3, <2>4, <2>5
  <2>. HIDE DEF rest, new
  <2>6. SumFunctionOnSet(rest, Cids) + split[c] = SumFunctionOnSet(split, Cids) + rest[c]
    BY <2>14, <2>15, SumChangeOnCids
  <2>7. SumFunctionOnSet(new, Cids) = SumFunctionOnSet(rest, Cids) + SumFunctionOnSet(share, Cids)
    BY <2>16, CidsFinite, SumOfSums
  <2>8. SumFunctionOnSet(rest, Cids) \in Nat
    BY <2>4, CidsFinite, SumType
  <2>9. Burst(new) = burst
    BY <2>2, <2>3, <2>4, <2>5, <2>6, <2>7, <2>8, BurstOnCids
  <2>10. c \notin UpLinks(s) => new[c] = 0
    BY <2>3, <2>4, <2>5
  <2>. QED  BY <2>1, <2>5, <2>9, <2>10 DEF Adds
<1>. QED  BY <1>1, <1>2, <1>3

\* Moving a share from one link to another keeps the burst, also when they are
\* the same link.
LEMMA MoveKeepsBurst ==
  ASSUME NEW burst \in Nat, NEW k, Adds(k, burst), NEW a \in Cids, NEW b \in Cids, NEW n \in 1 .. k[a]
  PROVE  Adds(MoveShare(k, a, b, n), burst)
<1>1. k \in [Cids -> Nat] /\ k[a] \in Nat /\ n \in Nat /\ n <= k[a] /\ \A x \in Cids : k[x] \in Nat
  BY DEF Adds
<1>. DEFINE moved == MoveShare(k, a, b, n)
            less  == [x \in Cids |-> k[x] - (IF x = a THEN n ELSE 0)]
<1>2. less[a] = k[a] - n /\ \A x \in Cids : less[x] \in Nat
  BY <1>1
<1>3. \A x \in Cids \ {a} : k[x] = less[x]
  BY <1>1
<1>4. moved = [x \in Cids |-> less[x] + (IF x = b THEN n ELSE 0)]
  BY <1>1 DEF MoveShare
<1>. HIDE DEF less, moved
<1>5. moved \in [Cids -> Nat] /\ moved[b] = less[b] + n /\ \A x \in Cids : moved[x] \in Nat
  BY <1>1, <1>2, <1>4
<1>6. \A x \in Cids \ {b} : less[x] = moved[x]
  BY <1>2, <1>4
<1>7. \A x \in Cids : k[x] \in Nat /\ less[x] \in Nat
  BY <1>1, <1>2
<1>8. \A x \in Cids : less[x] \in Nat /\ moved[x] \in Nat
  BY <1>2, <1>5
<1>9. SumFunctionOnSet(less, Cids) + k[a] = SumFunctionOnSet(k, Cids) + less[a]
  BY <1>3, <1>7, SumChangeOnCids
<1>10. SumFunctionOnSet(moved, Cids) + less[b] = SumFunctionOnSet(less, Cids) + moved[b]
  BY <1>6, <1>8, SumChangeOnCids
<1>11. /\ SumFunctionOnSet(less, Cids) \in Nat /\ SumFunctionOnSet(k, Cids) \in Nat
       /\ SumFunctionOnSet(moved, Cids) \in Nat
  BY <1>1, <1>2, <1>5, CidsFinite, SumType
<1>12. SumFunctionOnSet(moved, Cids) = SumFunctionOnSet(k, Cids)
  BY <1>1, <1>2, <1>5, <1>9, <1>10, <1>11
<1>. QED  BY <1>1, <1>5, <1>12, BurstOnCids DEF Adds, moved

\* The first link with a share is a link.
LEMMA FirstUsedIn ==
  ASSUME NEW burst \in Nat \ {0}, NEW k, Adds(k, burst)
  PROVE  FirstUsed(k) \in Cids
<1>1. k \in [Cids -> Nat] /\ SumFunctionOnSet(k, Cids) = burst
  BY BurstOnCids DEF Adds
<1>. DEFINE used == {c \in Cids : k[c] # 0}
<1>2. used # {}
  <2>1. SUFFICES ASSUME \A c \in Cids : k[c] = 0 PROVE FALSE
    OBVIOUS
  <2>2. SumFunctionOnSet(k, Cids) = 0
    BY <2>1, CidsFinite, SumZero
  <2>. QED  BY <1>1, <2>2
<1>3. FirstUsed(k) = Min(used)
  BY DEF FirstUsed
<1>4. used \in SUBSET Cids
  OBVIOUS
<1>. HIDE DEF used
<1>. QED  BY <1>2, <1>3, <1>4, MaxMinIn

\* Whatever a measurement decides adds up to the burst.
LEMMA MeasuredAddsUp ==
  ASSUME NEW s \in LinkStates, NEW burst \in Nat \ {0}, NEW k, Adds(k, burst),
         NEW m \in MeasuredSplits(s, k)
  PROVE  Adds(m, burst)
<1>. DEFINE eligible == UpLinks(s) \cup {FirstUsed(k)}
            moves    == UNION {{MoveShare(k, a, b, n) : n \in 1 .. k[a]} :
                                 a \in eligible, b \in eligible}
<1>1. m \in moves \/ (Burst(k) = 1 /\ m = AllTo(s.low, 1))
  <2>1. CASE Burst(k) = 1 /\ s.low \in UpLinks(s)
    BY <2>1 DEF MeasuredSplits
  <2>2. CASE ~(Burst(k) = 1 /\ s.low \in UpLinks(s))
    <3>1. m \in moves
      BY <2>2 DEF MeasuredSplits
    <3>. QED  BY <3>1
  <2>. QED  BY <2>1, <2>2
<1>2. CASE m \in moves
  <2>1. PICK a \in eligible, b \in eligible : m \in {MoveShare(k, a, b, n) : n \in 1 .. k[a]}
    BY <1>2
  <2>2. a \in Cids /\ b \in Cids
    BY FirstUsedIn DEF UpLinks
  <2>3. PICK n \in 1 .. k[a] : m = MoveShare(k, a, b, n)
    BY <2>1
  <2>. QED  BY <2>2, <2>3, MoveKeepsBurst
<1>3. CASE Burst(k) = 1 /\ m = AllTo(s.low, 1)
  BY <1>3, BurstOfAllTo DEF Adds, LinkStates
<1>. QED  BY <1>1, <1>2, <1>3

\* So does the split that measurement starts from.
LEMMA StartedAddsUp ==
  ASSUME NEW s \in LinkStates, NEW burst \in Nat, NEW split, split = NoSplit \/ Adds(split, burst)
  PROVE  Adds(Started(s, split, burst), burst)
BY BurstOfAllTo DEF Adds, LinkStates, Started

=============================================================================
