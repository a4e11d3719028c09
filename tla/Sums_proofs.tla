----------------------------- MODULE Sums_proofs -----------------------------
(***************************************************************************)
(* Sums over finite sets.  The models add up sizes with the folds of the   *)
(* community modules, MapThenSumSet and FoldFunction, which choose the     *)
(* order of the elements.  Here that order is shown not to matter, for     *)
(* weights given as a function, and what the proofs about the models need  *)
(* of a sum follows.                                                       *)
(***************************************************************************)
EXTENDS Integers, FiniteSets, FiniteSetTheorems, WellFoundedInduction, TLAPS

-----------------------------------------------------------------------------
(***************************************************************************)
(* Induction, for a set of natural numbers instead of a predicate.         *)
(***************************************************************************)

\* A set of natural numbers that has 0, and each successor of its members, has all.
LEMMA Induction ==
  ASSUME NEW T, T \subseteq Nat, 0 \in T, \A n \in T : n + 1 \in T
  PROVE  T = Nat
  <1> SUFFICES ASSUME Nat \ T # {}  PROVE FALSE
    OBVIOUS
  <1>1. PICK n \in Nat \ T : \A m \in Nat \ T : ~(<<m, n>> \in OpToRel(<, Nat))
    BY NatLessThanWellFounded, WFMin
  <1>2. \A m \in Nat \ T : ~(m < n)
    BY <1>1 DEF OpToRel
  <1>3. PICK k \in Nat : n = k + 1 /\ k < n
    <2>1. n # 0 /\ n \in Nat
      OBVIOUS
    <2> WITNESS n - 1 \in Nat
    <2> QED  BY <2>1
  <1>4. k \in T
    BY <1>2, <1>3
  <1> QED  BY <1>3, <1>4

\* A set of natural numbers has a least element.
LEMMA Least ==
  ASSUME NEW T, T \subseteq Nat, T # {}
  PROVE  \E n \in T : \A m \in T : n <= m
  <1>1. PICK n \in T : \A m \in T : ~(<<m, n>> \in OpToRel(<, Nat))
    BY NatLessThanWellFounded, WFMin
  <1>2. \A m \in T : ~(m < n)
    BY <1>1 DEF OpToRel
  <1> QED  BY <1>2

\* A finite set has one element more than without one of them.
LEMMA Without ==
  ASSUME NEW S, IsFiniteSet(S), NEW x \in S
  PROVE  /\ IsFiniteSet(S \ {x})
         /\ Cardinality(S \ {x}) \in Nat
         /\ Cardinality(S) = Cardinality(S \ {x}) + 1
  <1>1. IsFiniteSet(S \ {x}) /\ Cardinality(S \ {x}) = Cardinality(S) - 1
    BY FS_RemoveElement
  <1> QED  BY <1>1, FS_CardinalityType

\* A set of parts of a finite set that has the empty set, and each set all of whose
\* parts with one element less it has, has all parts.
LEMMA SetInduction ==
  ASSUME NEW S, IsFiniteSet(S), NEW P, {} \in P,
         \A A \in SUBSET S : A # {} /\ (\A x \in A : A \ {x} \in P) => A \in P
  PROVE  SUBSET S \subseteq P
  <1> DEFINE T == {n \in Nat : \A A \in SUBSET S : Cardinality(A) = n => A \in P}
  <1>a. ASSUME NEW A \in SUBSET S
        PROVE  /\ IsFiniteSet(A) /\ Cardinality(A) \in Nat
               /\ Cardinality(A) = 0 => A = {}
    BY FS_Subset, FS_CardinalityType, FS_EmptySet
  <1>1. 0 \in T
    BY <1>a
  <1>2. ASSUME NEW n \in T  PROVE n + 1 \in T
    <2> SUFFICES ASSUME NEW A \in SUBSET S, Cardinality(A) = n + 1
                 PROVE  A \in P
      OBVIOUS
    <2>0. n \in Nat
      OBVIOUS
    <2>1. A # {}
      <3>1. Cardinality(A) # 0
        BY <2>0
      <3> QED  BY <3>1, FS_EmptySet
    <2>2. ASSUME NEW x \in A  PROVE A \ {x} \in P
      <3>1. Cardinality(A \ {x}) = n
        BY <1>a, <2>0, Without
      <3> QED  BY <3>1
    <2> QED  BY <2>1, <2>2
  <1> HIDE DEF T
  <1>3. T = Nat
    BY <1>1, <1>2, Induction DEF T
  <1> QED  BY <1>a, <1>3 DEF T

-----------------------------------------------------------------------------
Chosen(s) == CHOOSE x \in s : TRUE

\* f gives the sum of the weights over every part of S, adding the chosen element of
\* a set to the sum over the others.
IsSums(w, S, f) ==
    f = [s \in SUBSET S |-> IF s = {} THEN 0 ELSE w[Chosen(s)] + f[s \ {Chosen(s)}]]

SumsOf(w, S) == CHOOSE f : IsSums(w, S, f)

SumOver(w, S) == SumsOf(w, S)[S]

Weights(w, S) == \A x \in S : w[x] \in Nat

\* The chosen element is one.
LEMMA ChosenIn == ASSUME NEW s, s # {}  PROVE Chosen(s) \in s
  BY DEF Chosen

\* There is such a function: it can be extended from the sets of n elements to those
\* of n + 1.
LEMMA SumsExist ==
  ASSUME NEW S, IsFiniteSet(S), NEW w, Weights(w, S)
  PROVE  \E f \in [SUBSET S -> Nat] : IsSums(w, S, f)
  <1> DEFINE Level(n) == {s \in SUBSET S : Cardinality(s) <= n}
             Sums(n, f) ==
                 f = [s \in Level(n) |-> IF s = {} THEN 0
                                         ELSE w[Chosen(s)] + f[s \ {Chosen(s)}]]
             T == {n \in Nat : \E f \in [Level(n) -> Nat] : Sums(n, f)}
  <1>a. ASSUME NEW s \in SUBSET S
        PROVE  /\ IsFiniteSet(s) /\ Cardinality(s) \in Nat
               /\ Cardinality(s) <= 0 => s = {}
    BY FS_Subset, FS_CardinalityType, FS_EmptySet
  <1>b. ASSUME NEW s \in SUBSET S, s # {}
        PROVE  /\ Chosen(s) \in s /\ w[Chosen(s)] \in Nat
               /\ Cardinality(s \ {Chosen(s)}) \in Nat
               /\ Cardinality(s) = Cardinality(s \ {Chosen(s)}) + 1
    BY <1>a, <1>b, ChosenIn, Without DEF Weights
  <1>1. 0 \in T
    <2> DEFINE f == [s \in Level(0) |-> 0]
    <2>1. \A s \in Level(0) : s = {}
      BY <1>a
    <2>2. f \in [Level(0) -> Nat] /\ Sums(0, f)
      BY <2>1
    <2> QED  BY <2>2
  <1>2. ASSUME NEW n \in T  PROVE n + 1 \in T
    <2>1. PICK f \in [Level(n) -> Nat] : Sums(n, f)
      OBVIOUS
    <2> DEFINE g == [s \in Level(n + 1) |-> IF s = {} THEN 0
                                            ELSE w[Chosen(s)] + f[s \ {Chosen(s)}]]
    <2>2. ASSUME NEW s \in Level(n + 1), s # {}
          PROVE  s \ {Chosen(s)} \in Level(n)
      BY <1>b, <2>2
    <2> HIDE DEF Level
    <2>3. g \in [Level(n + 1) -> Nat]
      <3>1. ASSUME NEW s \in Level(n + 1), s # {}
            PROVE  w[Chosen(s)] + f[s \ {Chosen(s)}] \in Nat
        <4>1. w[Chosen(s)] \in Nat
          BY <1>b, <3>1 DEF Level
        <4>2. f[s \ {Chosen(s)}] \in Nat
          BY <2>2, <3>1
        <4> QED  BY <4>1, <4>2
      <3> QED  BY <3>1
    <2>4. Level(n) \subseteq Level(n + 1)
      BY <1>a DEF Level
    <2>5. \A s \in Level(n) : f[s] = g[s]
      BY <2>1, <2>4
    <2>6. Sums(n + 1, g)
      BY <2>2, <2>5
    <2>7. n + 1 \in Nat
      OBVIOUS
    <2> HIDE DEF g, Sums
    <2> QED  BY <2>3, <2>6, <2>7
  <1>3. T = Nat
    <2> HIDE DEF T
    <2>1. T \subseteq Nat
      BY DEF T
    <2> QED  BY <1>1, <1>2, <2>1, Induction
  <1>4. Cardinality(S) \in T
    BY <1>3, FS_CardinalityType
  <1>5. Level(Cardinality(S)) = SUBSET S
    BY FS_Subset
  <1> QED  BY <1>4, <1>5 DEF IsSums

\* And there is but one.
LEMMA SumsUnique ==
  ASSUME NEW S, IsFiniteSet(S), NEW w, NEW f, NEW g, IsSums(w, S, f), IsSums(w, S, g)
  PROVE  f = g
  <1> DEFINE P == {s \in SUBSET S : f[s] = g[s]}
  <1>1. {} \in P
    BY DEF IsSums
  <1>2. ASSUME NEW A \in SUBSET S, A # {}, \A x \in A : A \ {x} \in P
        PROVE  A \in P
    <2>1. f[A \ {Chosen(A)}] = g[A \ {Chosen(A)}]
      BY <1>2, ChosenIn
    <2>2. /\ f[A] = w[Chosen(A)] + f[A \ {Chosen(A)}]
          /\ g[A] = w[Chosen(A)] + g[A \ {Chosen(A)}]
      BY <1>2 DEF IsSums
    <2> QED  BY <2>1, <2>2
  <1>3. SUBSET S \subseteq P
    <2> HIDE DEF P
    <2> QED  BY <1>1, <1>2, SetInduction
  <1>4. \A s \in SUBSET S : f[s] = g[s]
    BY <1>3
  <1>5. f = [s \in SUBSET S |-> f[s]] /\ g = [s \in SUBSET S |-> g[s]]
    BY DEF IsSums
  <1> QED  BY <1>4, <1>5

\* So the one that is chosen is it.
LEMMA SumsAre ==
  ASSUME NEW S, IsFiniteSet(S), NEW w, Weights(w, S)
  PROVE  IsSums(w, S, SumsOf(w, S)) /\ SumsOf(w, S) \in [SUBSET S -> Nat]
  <1>1. PICK f \in [SUBSET S -> Nat] : IsSums(w, S, f)
    BY SumsExist
  <1>2. IsSums(w, S, SumsOf(w, S))
    BY <1>1 DEF SumsOf
  <1> QED  BY <1>1, <1>2, SumsUnique

\* The sum over a part does not depend on the whole.
LEMMA SumOfPart ==
  ASSUME NEW S, IsFiniteSet(S), NEW w, Weights(w, S), NEW T \in SUBSET S
  PROVE  SumsOf(w, S)[T] = SumOver(w, T)
  <1> DEFINE f == [s \in SUBSET T |-> SumsOf(w, S)[s]]
  <1>1. IsSums(w, S, SumsOf(w, S))
    BY SumsAre
  <1>2. ASSUME NEW s \in SUBSET T
        PROVE  f[s] = IF s = {} THEN 0 ELSE w[Chosen(s)] + f[s \ {Chosen(s)}]
    <2>1. SumsOf(w, S)[s] = IF s = {} THEN 0
                            ELSE w[Chosen(s)] + SumsOf(w, S)[s \ {Chosen(s)}]
      BY <1>1 DEF IsSums
    <2> QED  BY <2>1
  <1>3. IsSums(w, T, f)
    BY <1>2 DEF IsSums
  <1>4. IsFiniteSet(T) /\ Weights(w, T)
    BY FS_Subset DEF Weights
  <1>5. f = SumsOf(w, T)
    BY <1>3, <1>4, SumsAre, SumsUnique
  <1> QED  BY <1>5 DEF SumOver

\* A function that adds up in this way gives the sum, wherever it comes from.
LEMMA SumsGiveSum ==
  ASSUME NEW S, IsFiniteSet(S), NEW w, Weights(w, S), NEW f, IsSums(w, S, f)
  PROVE  f[S] = SumOver(w, S)
  BY SumsAre, SumsUnique DEF SumOver

-----------------------------------------------------------------------------
(***************************************************************************)
(* What the sums are.                                                      *)
(***************************************************************************)

\* A sum of natural numbers is one; nothing adds up to 0.
LEMMA SumNat ==
  ASSUME NEW S, IsFiniteSet(S), NEW w, Weights(w, S)
  PROVE  SumOver(w, S) \in Nat
  <1>1. SumsOf(w, S) \in [SUBSET S -> Nat]
    BY SumsAre
  <1> QED  BY <1>1 DEF SumOver

\* Nothing adds up to zero.
LEMMA SumEmpty ==
  ASSUME NEW w
  PROVE  SumOver(w, {}) = 0
  <1>1. IsSums(w, {}, SumsOf(w, {}))
    BY SumsAre, FS_EmptySet DEF Weights
  <1> QED  BY <1>1 DEF SumOver, IsSums

\* Any element may be added last, not only the chosen one.
LEMMA SumOne ==
  ASSUME NEW S, IsFiniteSet(S), NEW w, Weights(w, S), NEW x \in S
  PROVE  SumOver(w, S) = w[x] + SumOver(w, S \ {x})
  <1> DEFINE P == {A \in SUBSET S :
                     \A y \in A : SumOver(w, A) = w[y] + SumOver(w, A \ {y})}
  <1>1. {} \in P
    OBVIOUS
  <1>a. ASSUME NEW A \in SUBSET S
        PROVE  IsFiniteSet(A) /\ Weights(w, A) /\ SumOver(w, A) \in Nat
    <2>1. IsFiniteSet(A) /\ Weights(w, A)
      BY FS_Subset DEF Weights
    <2> QED  BY <2>1, SumNat
  <1>b. ASSUME NEW A \in SUBSET S, A # {}
        PROVE  SumOver(w, A) = w[Chosen(A)] + SumOver(w, A \ {Chosen(A)})
    <2>1. IsSums(w, A, SumsOf(w, A))
      BY <1>a, SumsAre
    <2>2. SumsOf(w, A)[A] = w[Chosen(A)] + SumsOf(w, A)[A \ {Chosen(A)}]
      BY <1>b, <2>1 DEF IsSums
    <2> QED  BY <1>a, <2>2, SumOfPart DEF SumOver
  <1>2. ASSUME NEW A \in SUBSET S, A # {}, \A y \in A : A \ {y} \in P
        PROVE  A \in P
    <2> DEFINE z == Chosen(A)
    <2>1. z \in A /\ SumOver(w, A) = w[z] + SumOver(w, A \ {z})
      BY <1>2, <1>b, ChosenIn
    <2> HIDE DEF z
    <2>2. ASSUME NEW y \in A, y # z
          PROVE  SumOver(w, A) = w[y] + SumOver(w, A \ {y})
      <3>1. SumOver(w, A \ {z}) = w[y] + SumOver(w, (A \ {z}) \ {y})
        BY <1>2, <2>1, <2>2
      <3>2. SumOver(w, A \ {y}) = w[z] + SumOver(w, (A \ {y}) \ {z})
        BY <1>2, <2>1, <2>2
      <3>3. (A \ {z}) \ {y} = (A \ {y}) \ {z}
        OBVIOUS
      <3>4. w[y] \in Nat /\ w[z] \in Nat /\ SumOver(w, (A \ {y}) \ {z}) \in Nat
        BY <1>a, <2>1 DEF Weights
      <3> DEFINE r == SumOver(w, (A \ {y}) \ {z})
      <3>5. SumOver(w, A) = w[z] + (w[y] + r)
        BY <2>1, <3>1, <3>3
      <3>6. SumOver(w, A \ {y}) = w[z] + r /\ r \in Nat
        BY <3>2, <3>4
      <3> HIDE DEF r
      <3> QED  BY <3>4, <3>5, <3>6
    <2> QED  BY <2>1, <2>2
  <1>3. SUBSET S \subseteq P
    <2> HIDE DEF P
    <2> QED  BY <1>1, <1>2, SetInduction
  <1> QED  BY <1>3

\* A part does not weigh more than the whole.
LEMMA SumMonotone ==
  ASSUME NEW S, IsFiniteSet(S), NEW w, Weights(w, S), NEW T \in SUBSET S
  PROVE  SumOver(w, T) <= SumOver(w, S)
  <1> DEFINE P == {A \in SUBSET S : \A B \in SUBSET A : SumOver(w, B) <= SumOver(w, A)}
  <1>a. ASSUME NEW A \in SUBSET S
        PROVE  IsFiniteSet(A) /\ Weights(w, A) /\ SumOver(w, A) \in Nat
    <2>1. IsFiniteSet(A) /\ Weights(w, A)
      BY FS_Subset DEF Weights
    <2> QED  BY <2>1, SumNat
  <1>1. {} \in P
    <2>1. \A B \in SUBSET {} : B = {}
      OBVIOUS
    <2>2. SumOver(w, {}) <= SumOver(w, {})
      BY SumEmpty
    <2> QED  BY <2>1, <2>2
  <1>2. ASSUME NEW A \in SUBSET S, A # {}, \A x \in A : A \ {x} \in P
        PROVE  A \in P
    <2> SUFFICES ASSUME NEW B \in SUBSET A  PROVE SumOver(w, B) <= SumOver(w, A)
      OBVIOUS
    <2>1. CASE B = A
      BY <1>a, <2>1
    <2>2. CASE B # A
      <3>1. PICK x \in A : x \notin B
        BY <2>2
      <3>2. SumOver(w, B) <= SumOver(w, A \ {x})
        BY <1>2, <3>1
      <3>3. SumOver(w, A) = w[x] + SumOver(w, A \ {x})
        BY <1>a, SumOne
      <3>4. w[x] \in Nat /\ SumOver(w, A \ {x}) \in Nat /\ SumOver(w, B) \in Nat
        BY <1>a DEF Weights
      <3> QED  BY <3>2, <3>3, <3>4
    <2> QED  BY <2>1, <2>2
  <1>3. SUBSET S \subseteq P
    <2> HIDE DEF P
    <2> QED  BY <1>1, <1>2, SetInduction
  <1>4. S \in P
    BY <1>3
  <1> QED  BY <1>4

\* Weights that are not larger do not add up to more.
LEMMA SumOrder ==
  ASSUME NEW S, IsFiniteSet(S), NEW w, NEW v, Weights(w, S), Weights(v, S),
         \A x \in S : w[x] <= v[x]
  PROVE  SumOver(w, S) <= SumOver(v, S)
  <1> DEFINE P == {A \in SUBSET S : SumOver(w, A) <= SumOver(v, A)}
  <1>1. {} \in P
    BY SumEmpty
  <1>2. ASSUME NEW A \in SUBSET S, A # {}, \A x \in A : A \ {x} \in P
        PROVE  A \in P
    <2>1. PICK x \in A : TRUE
      BY <1>2
    <2>2. SumOver(w, A \ {x}) <= SumOver(v, A \ {x})
      BY <1>2
    <2>3. /\ IsFiniteSet(A) /\ Weights(w, A) /\ Weights(v, A)
          /\ IsFiniteSet(A \ {x}) /\ Weights(w, A \ {x}) /\ Weights(v, A \ {x})
      BY FS_Subset DEF Weights
    <2>4. /\ SumOver(w, A) = w[x] + SumOver(w, A \ {x})
          /\ SumOver(v, A) = v[x] + SumOver(v, A \ {x})
      BY <2>3, SumOne
    <2>5. /\ w[x] \in Nat /\ v[x] \in Nat /\ w[x] <= v[x]
          /\ SumOver(w, A \ {x}) \in Nat /\ SumOver(v, A \ {x}) \in Nat
      BY <2>3, SumNat DEF Weights
    <2> QED  BY <2>2, <2>4, <2>5
  <1>3. SUBSET S \subseteq P
    <2> HIDE DEF P
    <2> QED  BY <1>1, <1>2, SetInduction
  <1>4. S \in P
    BY <1>3
  <1> QED  BY <1>4

\* Equal weights add up to the same.
LEMMA SumSame ==
  ASSUME NEW S, IsFiniteSet(S), NEW w, NEW v, Weights(w, S), \A x \in S : w[x] = v[x]
  PROVE  SumOver(w, S) = SumOver(v, S)
  <1>1. Weights(v, S) /\ \A x \in S : w[x] <= v[x] /\ v[x] <= w[x]
    BY DEF Weights
  <1>2. SumOver(w, S) <= SumOver(v, S) /\ SumOver(v, S) <= SumOver(w, S)
    BY <1>1, SumOrder
  <1>3. SumOver(w, S) \in Nat /\ SumOver(v, S) \in Nat
    BY <1>1, SumNat
  <1> QED  BY <1>2, <1>3

\* A set and its image weigh the same if different elements have different images, of
\* the same weight.
LEMMA SumImage ==
  ASSUME NEW S, IsFiniteSet(S), NEW w, NEW v, NEW h, Weights(w, S),
         \A x, y \in S : h[x] = h[y] => x = y,
         \A x \in S : v[h[x]] = w[x]
  PROVE  SumOver(v, {h[x] : x \in S}) = SumOver(w, S)
  <1> DEFINE I(A) == {h[x] : x \in A}
             P == {A \in SUBSET S : IsFiniteSet(I(A)) /\ SumOver(v, I(A)) = SumOver(w, A)}
  <1>1. {} \in P
    <2>1. I({}) = {}
      OBVIOUS
    <2> QED  BY <2>1, SumEmpty, FS_EmptySet
  <1>2. ASSUME NEW A \in SUBSET S, A # {}, \A x \in A : A \ {x} \in P
        PROVE  A \in P
    <2>1. PICK x \in A : TRUE
      BY <1>2
    <2> DEFINE J == I(A \ {x})
               K == I(A)
    <2>2. IsFiniteSet(J) /\ SumOver(v, J) = SumOver(w, A \ {x})
      BY <1>2
    <2>3. h[x] \in K /\ K \ {h[x]} = J /\ K = J \cup {h[x]} /\ Weights(v, K)
      BY DEF Weights
    <2> SUFFICES IsFiniteSet(K) /\ SumOver(v, K) = SumOver(w, A)
      OBVIOUS
    <2> HIDE DEF J, K, P
    <2>4. IsFiniteSet(J \cup {h[x]})
      BY <2>2, FS_AddElement
    <2>5. IsFiniteSet(K)
      BY <2>3, <2>4
    <2>6. SumOver(v, K) = v[h[x]] + SumOver(v, J)
      BY <2>3, <2>5, SumOne
    <2>7. SumOver(w, A) = w[x] + SumOver(w, A \ {x})
      BY FS_Subset, SumOne DEF Weights
    <2> QED  BY <2>2, <2>5, <2>6, <2>7
  <1>3. SUBSET S \subseteq P
    <2> HIDE DEF P
    <2> QED  BY <1>1, <1>2, SetInduction
  <1>4. S \in P
    BY <1>3
  <1> QED  BY <1>4

\* If one weight grows by n, so does the sum.
LEMMA SumGrows ==
  ASSUME NEW S, IsFiniteSet(S), NEW w, NEW v, Weights(w, S), NEW z \in S, NEW n \in Nat,
         v[z] = w[z] + n, \A x \in S \ {z} : v[x] = w[x]
  PROVE  SumOver(v, S) = SumOver(w, S) + n
  <1>1. /\ Weights(v, S) /\ IsFiniteSet(S \ {z})
        /\ Weights(w, S \ {z}) /\ Weights(v, S \ {z})
    BY FS_Subset DEF Weights
  <1>2. /\ SumOver(w, S) = w[z] + SumOver(w, S \ {z})
        /\ SumOver(v, S) = v[z] + SumOver(v, S \ {z})
    BY <1>1, SumOne
  <1>3. SumOver(w, S \ {z}) = SumOver(v, S \ {z}) /\ SumOver(w, S \ {z}) \in Nat
    BY <1>1, SumSame, SumNat
  <1>4. w[z] \in Nat
    BY DEF Weights
  <1> QED  BY <1>2, <1>3, <1>4
=============================================================================
