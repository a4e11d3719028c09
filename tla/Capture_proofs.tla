--------------------------- MODULE Capture_proofs ---------------------------
(***************************************************************************)
(* Theorems about Capture for all MIME types, offers and paths: what the   *)
(* hash of a copy identifies, and what the label of copied files names.    *)
(***************************************************************************)
EXTENDS Capture, Sums_proofs, SequenceTheorems

Str == Seq(Byte)

-----------------------------------------------------------------------------
(***************************************************************************)
(* The order of payloads.                                                  *)
(***************************************************************************)

\* The positions and the bytes of a string.
LEMMA StrFacts ==
  ASSUME NEW s \in Str
  PROVE  /\ Len(s) \in Nat /\ DOMAIN s = 1 .. Len(s)
         /\ \A k \in DOMAIN s : s[k] \in Byte /\ s[k] \in Nat
  <1>1. Byte \subseteq Nat
    BY DEF Byte
  <1>2. /\ Len(s) \in Nat /\ DOMAIN s = 1 .. Len(s)
        /\ \A k \in DOMAIN s : s[k] \in Byte
    BY DEF Str
  <1> QED  BY <1>1, <1>2

\* Two strings that differ have a first position where they do.
LEMMA BeforeTotal ==
  ASSUME NEW s \in Str, NEW t \in Str, s # t
  PROVE  Before(s, t) \/ Before(t, s)
  <1> DEFINE D == {k \in Nat : k # 0 /\ ~(k \in DOMAIN s /\ k \in DOMAIN t /\ s[k] = t[k])}
  <1>1. /\ Len(s) \in Nat /\ DOMAIN s = 1 .. Len(s)
        /\ Len(t) \in Nat /\ DOMAIN t = 1 .. Len(t)
    BY DEF Str
  <1>2. Len(s) + 1 \in D
    BY <1>1
  <1>3. PICK m \in D : \A k \in D : m <= k
    BY <1>2, Least
  <1>4. \A k \in 1 .. m - 1 : k \in DOMAIN s /\ k \in DOMAIN t /\ s[k] = t[k]
    BY <1>3
  <1>5. m \in DOMAIN s \/ m \in DOMAIN t
    <2> SUFFICES ASSUME m \notin DOMAIN s, m \notin DOMAIN t  PROVE FALSE
      OBVIOUS
    <2>1. m \in Nat /\ m # 0
      OBVIOUS
    <2>2. Len(s) = m - 1
      <3>1. Len(s) <= m - 1
        BY <1>1, <2>1
      <3>2. CASE Len(s) < m - 1
        <4>1. Len(s) + 1 \in 1 .. m - 1
          BY <1>1, <2>1, <3>2
        <4> QED  BY <1>1, <1>4, <4>1
      <3> QED  BY <1>1, <2>1, <3>1, <3>2
    <2>3. Len(t) = m - 1
      <3>1. Len(t) <= m - 1
        BY <1>1, <2>1
      <3>2. CASE Len(t) < m - 1
        <4>1. Len(t) + 1 \in 1 .. m - 1
          BY <1>1, <2>1, <3>2
        <4> QED  BY <1>1, <1>4, <4>1
      <3> QED  BY <1>1, <2>1, <3>1, <3>2
    <2>4. s = t
      BY <1>4, <2>2, <2>3 DEF Str
    <2> QED  BY <2>4
  <1>6. CASE m \in DOMAIN s /\ m \in DOMAIN t
    <2>1. s[m] # t[m] /\ s[m] \in Nat /\ t[m] \in Nat
      BY <1>3, <1>6, StrFacts
    <2> QED  BY <1>4, <1>6, <2>1 DEF Before
  <1>7. CASE m \in DOMAIN s /\ m \notin DOMAIN t
    BY <1>4, <1>7 DEF Before
  <1>8. CASE m \notin DOMAIN s /\ m \in DOMAIN t
    BY <1>4, <1>8 DEF Before
  <1> QED  BY <1>5, <1>6, <1>7, <1>8

\* No string is before itself.
LEMMA BeforeIrreflexive ==
  ASSUME NEW s \in Str
  PROVE  ~Before(s, s)
  BY StrFacts DEF Before

\* A string before one that is before a third is before the third.
LEMMA BeforeTransitive ==
  ASSUME NEW s \in Str, NEW t \in Str, NEW u \in Str, Before(s, t), Before(t, u)
  PROVE  Before(s, u)
  <1>1. PICK i \in DOMAIN t : /\ \A k \in 1 .. i - 1 : k \in DOMAIN s /\ s[k] = t[k]
                              /\ i \in DOMAIN s => s[i] < t[i]
    BY DEF Before
  <1>2. PICK j \in DOMAIN u : /\ \A k \in 1 .. j - 1 : k \in DOMAIN t /\ t[k] = u[k]
                              /\ j \in DOMAIN t => t[j] < u[j]
    BY DEF Before
  <1>3. /\ DOMAIN s = 1 .. Len(s) /\ DOMAIN t = 1 .. Len(t) /\ DOMAIN u = 1 .. Len(u)
        /\ Len(s) \in Nat /\ Len(t) \in Nat /\ Len(u) \in Nat
        /\ \A k \in DOMAIN s : s[k] \in Nat
        /\ \A k \in DOMAIN t : t[k] \in Nat
        /\ \A k \in DOMAIN u : u[k] \in Nat
    BY StrFacts
  <1>4. CASE i < j
    <2>1. i \in DOMAIN u /\ t[i] = u[i]
      BY <1>2, <1>3, <1>4
    <2>2. \A k \in 1 .. i - 1 : k \in DOMAIN s /\ s[k] = u[k]
      BY <1>1, <1>2, <1>3, <1>4
    <2> QED  BY <1>1, <2>1, <2>2 DEF Before
  <1>5. CASE j < i
    <2>1. j \in DOMAIN s /\ s[j] = t[j] /\ t[j] < u[j]
      BY <1>1, <1>2, <1>3, <1>5
    <2>2. \A k \in 1 .. j - 1 : k \in DOMAIN s /\ s[k] = u[k]
      BY <1>1, <1>2, <1>3, <1>5
    <2> QED  BY <1>2, <2>1, <2>2 DEF Before
  <1>6. CASE i = j
    <2>1. i \in DOMAIN s => s[i] < u[i]
      BY <1>1, <1>2, <1>3, <1>6
    <2>2. \A k \in 1 .. j - 1 : k \in DOMAIN s /\ s[k] = u[k]
      BY <1>1, <1>2, <1>6
    <2> QED  BY <1>2, <1>6, <2>1, <2>2 DEF Before
  <1> QED  BY <1>3, <1>4, <1>5, <1>6

\* A payload is its MIME type and its data.
LEMMA PayloadFields ==
  /\ \A p \in Payload : p.mime \in Mime /\ p.mime \in Str /\ p.data \in Str
  /\ \A p, q \in Payload : p.mime = q.mime /\ p.data = q.data => p = q
  <1>1. Mime \subseteq Str
    <2>1. Byte \ {0} \subseteq Byte
      OBVIOUS
    <2> QED  BY <2>1, MimesAssumption, SeqMonotonic DEF Str
  <1> QED  BY <1>1 DEF Payload, Str

\* Payloads are ordered by their MIME types, and those of one type by their data.
LEMMA LessTotal ==
  ASSUME NEW p \in Payload, NEW q \in Payload, p # q
  PROVE  Less(p, q) \/ Less(q, p)
  BY PayloadFields, BeforeTotal DEF Less

\* No payload is less than itself.
LEMMA LessIrreflexive ==
  ASSUME NEW p \in Payload
  PROVE  ~Less(p, p)
  BY PayloadFields, BeforeIrreflexive DEF Less

\* The order of payloads is transitive, as sort_by requires.
LEMMA LessTransitive ==
  ASSUME NEW p \in Payload, NEW q \in Payload, NEW r \in Payload, Less(p, q), Less(q, r)
  PROVE  Less(p, r)
  BY PayloadFields, BeforeTransitive DEF Less

-----------------------------------------------------------------------------
(***************************************************************************)
(* Sorting.                                                                *)
(***************************************************************************)

\* An injection of a finite set into itself meets every element.
LEMMA MeetsAll ==
  ASSUME NEW S, IsFiniteSet(S), NEW f \in [S -> S], \A x, y \in S : f[x] = f[y] => x = y
  PROVE  \A z \in S : \E x \in S : f[x] = z
  <1>1. f \in Injection(S, S)
    BY DEF Injection, IsInjective
  <1>2. f \in Surjection(S, S)
    BY <1>1, FS_Injection
  <1> QED  BY <1>2 DEF Surjection

\* The positions of the payloads that come before position i, and itself.
UpTo(s, i) == {j \in DOMAIN s : Less(s[j], s[i]) \/ (s[j] = s[i] /\ j <= i)}

\* Of two positions, one has fewer payloads up to it, and not the other position.
LEMMA UpToIsChain ==
  ASSUME NEW s \in Seq(Payload), NEW i \in DOMAIN s, NEW k \in DOMAIN s, i # k
  PROVE  \/ UpTo(s, i) \subseteq UpTo(s, k) /\ k \notin UpTo(s, i)
         \/ UpTo(s, k) \subseteq UpTo(s, i) /\ i \notin UpTo(s, k)
  <1>1. DOMAIN s \subseteq Nat /\ \A j \in DOMAIN s : s[j] \in Payload
    OBVIOUS
  <1>2. ASSUME NEW a \in DOMAIN s, NEW b \in DOMAIN s,
               Less(s[a], s[b]) \/ (s[a] = s[b] /\ a < b)
        PROVE  UpTo(s, a) \subseteq UpTo(s, b) /\ b \notin UpTo(s, a)
    <2>1. ASSUME NEW j \in UpTo(s, a)  PROVE j \in UpTo(s, b)
      <3>1. j \in DOMAIN s /\ (Less(s[j], s[a]) \/ (s[j] = s[a] /\ j <= a))
        BY DEF UpTo
      <3>2. CASE Less(s[j], s[a])
        BY <1>1, <1>2, <3>1, <3>2, LessTransitive DEF UpTo
      <3>3. CASE s[j] = s[a] /\ j <= a
        BY <1>1, <1>2, <3>1, <3>3 DEF UpTo
      <3> QED  BY <3>1, <3>2, <3>3
    <2>2. ~Less(s[b], s[a])
      <3>1. CASE Less(s[a], s[b])
        BY <1>1, <3>1, LessTransitive, LessIrreflexive
      <3>2. CASE s[a] = s[b]
        BY <1>1, <3>2, LessIrreflexive
      <3> QED  BY <1>2, <3>1, <3>2
    <2>3. ~(s[b] = s[a] /\ b <= a)
      BY <1>1, <1>2, LessIrreflexive
    <2> QED  BY <2>1, <2>2, <2>3 DEF UpTo
  <1>3. CASE s[i] = s[k]
    BY <1>1, <1>2, <1>3
  <1>4. CASE s[i] # s[k]
    BY <1>1, <1>2, <1>4, LessTotal
  <1> QED  BY <1>3, <1>4

\* Sorting puts the payloads into another order, and does nothing else.
LEMMA SortedPermutes ==
  ASSUME NEW s \in Seq(Payload)
  PROVE  /\ Sorted(s) \in Seq(Payload) /\ Len(Sorted(s)) = Len(s)
         /\ Range(Sorted(s)) = Range(s)
  <1> DEFINE I == DOMAIN s
             place == [i \in I |-> Cardinality(UpTo(s, i))]
             at == [n \in I |-> CHOOSE i \in I : place[i] = n]
  <1>1. I = 1 .. Len(s) /\ Len(s) \in Nat /\ \A i \in I : s[i] \in Payload
    OBVIOUS
  <1>2. IsFiniteSet(I) /\ Cardinality(I) = Len(s)
    BY <1>1, FS_Interval
  <1>3. ASSUME NEW i \in I
        PROVE  /\ IsFiniteSet(UpTo(s, i)) /\ i \in UpTo(s, i)
               /\ Cardinality(UpTo(s, i)) \in 1 .. Len(s)
    <2>1. UpTo(s, i) \subseteq I /\ i \in UpTo(s, i)
      BY <1>1 DEF UpTo
    <2>2. IsFiniteSet(UpTo(s, i)) /\ Cardinality(UpTo(s, i)) <= Len(s)
      BY <1>2, <2>1, FS_Subset
    <2>3. Cardinality(UpTo(s, i)) \in Nat /\ Cardinality(UpTo(s, i)) # 0
      BY <2>1, <2>2, FS_CardinalityType, FS_EmptySet
    <2> QED  BY <1>1, <2>1, <2>2, <2>3
  <1>4. ASSUME NEW i \in I, NEW k \in I, i # k
        PROVE  Cardinality(UpTo(s, i)) # Cardinality(UpTo(s, k))
    <2>1. ASSUME NEW a \in I, NEW b \in I,
                 UpTo(s, a) \subseteq UpTo(s, b), b \notin UpTo(s, a)
          PROVE  Cardinality(UpTo(s, a)) # Cardinality(UpTo(s, b))
      <3>1. UpTo(s, a) # UpTo(s, b)
        BY <1>3, <2>1
      <3> QED  BY <1>3, <2>1, <3>1, FS_Subset
    <2> QED  BY <1>4, <2>1, UpToIsChain
  <1>5. place \in [I -> I] /\ \A x, y \in I : place[x] = place[y] => x = y
    BY <1>1, <1>3, <1>4
  <1>6. \A n \in I : \E i \in I : place[i] = n
    <2> HIDE DEF I, place
    <2> QED  BY <1>2, <1>5, MeetsAll
  <1>7. \A n \in I : at[n] \in I /\ place[at[n]] = n
    <2> HIDE DEF I, place
    <2> QED  BY <1>6
  <1>8. \A i \in I : place[i] \in I /\ at[place[i]] = i
    <2> HIDE DEF I, place, at
    <2> QED  BY <1>5, <1>7
  <1>9. Sorted(s) = [n \in I |-> s[at[n]]]
    BY DEF Sorted, UpTo
  <1>10. Sorted(s) \in Seq(Payload) /\ Len(Sorted(s)) = Len(s)
    <2>1. Sorted(s) = [n \in 1 .. Len(s) |-> s[at[n]]] /\ Len(s) \in Nat
      BY <1>1, <1>9
    <2>2. \A n \in 1 .. Len(s) : s[at[n]] \in Payload
      BY <1>1, <1>7
    <2> HIDE DEF I, at
    <2> QED  BY <2>1, <2>2
  <1>11. Range(Sorted(s)) = Range(s)
    <2> HIDE DEF I, place, at
    <2>1. DOMAIN Sorted(s) = I /\ \A n \in I : Sorted(s)[n] = s[at[n]]
      BY <1>9
    <2>2. Range(Sorted(s)) = {s[at[n]] : n \in I}
      BY <2>1 DEF Range
    <2>3. Range(s) = {s[i] : i \in I}
      BY DEF Range, I
    <2> QED  BY <1>7, <1>8, <2>2, <2>3
  <1> QED  BY <1>10, <1>11

-----------------------------------------------------------------------------
(***************************************************************************)
(* Normalizing.                                                            *)
(***************************************************************************)

\* A finite set as a sequence.
LEMMA SeqOfSet ==
  ASSUME NEW S, IsFiniteSet(S)
  PROVE  /\ SetToSeq(S) \in Seq(S) /\ Range(SetToSeq(S)) = S
         /\ Len(SetToSeq(S)) = Cardinality(S)
  <1> DEFINE n == Cardinality(S)
  <1>1. n \in Nat /\ \E f \in [1 .. n -> S] : f \in Bijection(1 .. n, S)
    BY FS_CardinalityType DEF ExistsBijection, Bijection, Injection
  <1>2. \E f \in [1 .. n -> S] : IsInjective(f)
    BY <1>1 DEF Bijection, Injection
  <1>3. SetToSeq(S) \in [1 .. n -> S] /\ IsInjective(SetToSeq(S))
    BY <1>2 DEF SetToSeq
  <1>4. SetToSeq(S) \in Injection(1 .. n, S)
    BY <1>3 DEF Injection
  <1>5. Cardinality(1 .. n) = n
    BY <1>1, FS_Interval
  <1>6. SetToSeq(S) \in Surjection(1 .. n, S)
    BY <1>4, <1>5, FS_Injection
  <1> HIDE DEF n
  <1>7. Range(SetToSeq(S)) = S
    BY <1>3, <1>6 DEF Range, Surjection
  <1>8. SetToSeq(S) \in Seq(S) /\ Len(SetToSeq(S)) = n
    BY <1>1, <1>3
  <1> QED  BY <1>7, <1>8 DEF n

\* A payload for each MIME type that is offered.
Once(payloads) == {With(p.mime, Kept(p.mime, payloads)) : p \in Range(payloads)}

\* Of a sequence of payloads the set is finite.
LEMMA SeqRangeFinite ==
  ASSUME NEW T, NEW s \in Seq(T)
  PROVE  IsFiniteSet(Range(s)) /\ Range(s) \subseteq T
  <1>1. Range(s) = {s[i] : i \in 1 .. Len(s)} /\ Len(s) \in Nat
    BY DEF Range
  <1>2. s \in Surjection(1 .. Len(s), Range(s))
    BY <1>1 DEF Surjection
  <1>3. IsFiniteSet(Range(s))
    BY <1>1, <1>2, FS_Interval, FS_Surjection
  <1>4. Range(s) \subseteq T
    BY <1>1
  <1> QED  BY <1>3, <1>4

\* Of finitely many strings one is the smallest.
LEMMA Smallest ==
  ASSUME NEW S \in SUBSET Str, IsFiniteSet(S), S # {}
  PROVE  \E d \in S : \A e \in S \ {d} : Before(d, e)
  <1> DEFINE P == {A \in SUBSET S : A # {} => \E d \in A : \A e \in A \ {d} : Before(d, e)}
  <1>1. {} \in P
    OBVIOUS
  <1>2. ASSUME NEW A \in SUBSET S, A # {}, \A x \in A : A \ {x} \in P
        PROVE  A \in P
    <2>1. PICK x \in A : TRUE
      BY <1>2
    <2>2. CASE A = {x}
      BY <2>2
    <2>3. CASE A # {x}
      <3>1. PICK d \in A \ {x} : \A e \in (A \ {x}) \ {d} : Before(d, e)
        BY <1>2, <2>3
      <3>2. CASE Before(d, x)
        BY <3>1, <3>2
      <3>3. CASE Before(x, d)
        <4>1. \A e \in A \ {x} : Before(x, e)
          BY <3>1, <3>3, BeforeTransitive
        <4> QED  BY <4>1
      <3> QED  BY <3>2, <3>3, BeforeTotal
    <2> QED  BY <2>2, <2>3
  <1>3. SUBSET S \subseteq P
    <2> HIDE DEF P
    <2> QED  BY <1>1, <1>2, SetInduction
  <1>4. S \in P
    BY <1>3
  <1> QED  BY <1>4

\* What is kept of a MIME type is one of the variants that are offered.
LEMMA KeptIsOffered ==
  ASSUME NEW s \in Seq(Payload), NEW p \in Range(s)
  PROVE  /\ \E q \in Range(s) : q.mime = p.mime /\ q.data = Kept(p.mime, s)
         /\ With(p.mime, Kept(p.mime, s)) \in Range(s)
  <1> DEFINE V == {q \in Range(s) : q.mime = p.mime}
             variants == {q.data : q \in V}
  <1>1. Range(s) \subseteq Payload /\ IsFiniteSet(Range(s))
    BY SeqRangeFinite
  <1>2. IsFiniteSet(V) /\ p \in V
    BY <1>1, FS_Subset
  <1>3. variants \subseteq Str /\ variants # {}
    BY <1>1, <1>2, PayloadFields
  <1>4. IsFiniteSet(variants)
    <2> DEFINE f == [q \in V |-> q.data]
    <2>1. f \in Surjection(V, variants)
      BY DEF Surjection
    <2> HIDE DEF f, V, variants
    <2> QED  BY <1>2, <2>1, FS_Surjection
  <1>5. Kept(p.mime, s) = CHOOSE d \in variants : \A e \in variants \ {d} : Before(d, e)
    BY DEF Kept
  <1>6. Kept(p.mime, s) \in variants
    <2> HIDE DEF variants
    <2> QED  BY <1>3, <1>4, <1>5, Smallest
  <1>7. PICK q \in Range(s) : q.mime = p.mime /\ q.data = Kept(p.mime, s)
    BY <1>6
  <1>8. With(p.mime, Kept(p.mime, s)) = q
    <2>1. q \in Payload
      BY <1>1
    <2> QED  BY <1>7, <2>1 DEF Payload, With
  <1> QED  BY <1>7, <1>8

\* Of the payloads of an offer one remains for each MIME type.
LEMMA OnceFacts ==
  ASSUME NEW s \in Seq(Payload)
  PROVE  /\ Once(s) \subseteq Range(s) /\ IsFiniteSet(Once(s)) /\ Once(s) \subseteq Payload
         /\ {p.mime : p \in Once(s)} = {p.mime : p \in Range(s)}
         /\ \A p, q \in Once(s) : p.mime = q.mime => p = q
  <1>1. Range(s) \subseteq Payload /\ IsFiniteSet(Range(s))
    BY SeqRangeFinite
  <1>2. \A p \in Range(s) : With(p.mime, Kept(p.mime, s)).mime = p.mime
    BY DEF With
  <1>3. Once(s) \subseteq Range(s)
    BY KeptIsOffered DEF Once
  <1>4. {p.mime : p \in Once(s)} = {p.mime : p \in Range(s)}
    BY <1>2 DEF Once
  <1>5. \A p, q \in Once(s) : p.mime = q.mime => p = q
    BY <1>2 DEF Once
  <1> QED  BY <1>1, <1>3, <1>4, <1>5, FS_Subset

\* normalize_payloads returns one payload for each MIME type offered.
LEMMA NormalizedFacts ==
  ASSUME NEW s \in Seq(Payload)
  PROVE  Normalized(s) \in Seq(Payload) /\ Range(Normalized(s)) = Once(s)
  <1>1. IsFiniteSet(Once(s)) /\ Once(s) \subseteq Payload
    BY OnceFacts
  <1>2. SetToSeq(Once(s)) \in Seq(Payload) /\ Range(SetToSeq(Once(s))) = Once(s)
    BY <1>1, SeqOfSet, SeqMonotonic
  <1>3. Normalized(s) = Sorted(SetToSeq(Once(s)))
    BY DEF Normalized, Once
  <1> QED  BY <1>2, <1>3, SortedPermutes

\* The order in which payloads are offered, and how often, does not matter.
LEMMA NormalizedOfRange ==
  ASSUME NEW s, NEW t, Range(s) = Range(t)
  PROVE  Normalized(s) = Normalized(t)
  <1>1. \A m : Kept(m, s) = Kept(m, t)
    BY DEF Kept
  <1>2. Once(s) = Once(t)
    BY <1>1 DEF Once
  <1> QED  BY <1>2 DEF Normalized, Once

\* Payloads with one variant of each MIME type are kept as they are.
LEMMA OnceIsEnough ==
  ASSUME NEW s \in Seq(Payload), \A p, q \in Range(s) : p.mime = q.mime => p = q
  PROVE  Once(s) = Range(s)
  <1>1. ASSUME NEW p \in Range(s)  PROVE With(p.mime, Kept(p.mime, s)) = p
    <2>1. With(p.mime, Kept(p.mime, s)) \in Range(s)
      BY KeptIsOffered
    <2>2. With(p.mime, Kept(p.mime, s)).mime = p.mime
      BY DEF With
    <2> QED  BY <2>1, <2>2
  <1> QED  BY <1>1 DEF Once

\* Normalizing again changes nothing.
LEMMA NormalizedTwice ==
  ASSUME NEW s \in Seq(Payload)
  PROVE  Normalized(Normalized(s)) = Normalized(s)
  <1>1. Normalized(s) \in Seq(Payload) /\ Range(Normalized(s)) = Once(s)
    BY NormalizedFacts
  <1>2. Once(Normalized(s)) = Once(s)
    BY <1>1, OnceIsEnough, OnceFacts
  <1> QED  BY <1>2 DEF Normalized, Once

-----------------------------------------------------------------------------
(***************************************************************************)
(* Sequences joined to one: FlattenSeq.                                    *)
(***************************************************************************)

\* A set that has <<>>, and every sequence one element longer than a member, has all.
LEMMA SeqInduction ==
  ASSUME NEW T, NEW P, <<>> \in P, \A s \in Seq(T), x \in T : s \in P => Append(s, x) \in P
  PROVE  Seq(T) \subseteq P
  <1> DEFINE N == {n \in Nat : \A s \in Seq(T) : Len(s) = n => s \in P}
  <1>1. 0 \in N
    OBVIOUS
  <1>2. ASSUME NEW n \in N  PROVE n + 1 \in N
    <2> SUFFICES ASSUME NEW s \in Seq(T), Len(s) = n + 1  PROVE s \in P
      OBVIOUS
    <2> DEFINE front == [i \in 1 .. n |-> s[i]]
    <2>1. n \in Nat /\ s[n + 1] \in T
      OBVIOUS
    <2>2. \A i \in 1 .. n : s[i] \in T
      BY <2>1
    <2>3. front \in Seq(T) /\ Len(front) = n
      BY <2>1, <2>2
    <2>4. Append(front, s[n + 1]) = s
      BY <2>1, <2>2, <2>3
    <2> HIDE DEF front
    <2>5. front \in P
      BY <2>3
    <2> QED  BY <2>1, <2>3, <2>4, <2>5
  <1>3. N = Nat
    <2> HIDE DEF N
    <2>1. N \subseteq Nat
      BY DEF N
    <2> QED  BY <1>1, <1>2, <2>1, Induction
  <1> QED  BY <1>3

\* What is joined up to each of the sequences.
IsJoin(s, f) == f = [i \in 1 .. Len(s) |-> IF i = 1 THEN s[i] ELSE f[i - 1] \o s[i]]
JoinOf(s) == CHOOSE f : IsJoin(s, f)
JoinsTo(s, f, n) == \A i \in 1 .. n : f[i] = IF i = 1 THEN s[i] ELSE f[i - 1] \o s[i]

\* FlattenSeq is the last of the partial joins.
LEMMA FlattenIsJoin ==
  ASSUME NEW s, Len(s) # 0
  PROVE  FlattenSeq(s) = JoinOf(s)[Len(s)]
  BY DEF FlattenSeq, JoinOf, IsJoin

\* There are partial joins of every sequence.
LEMMA JoinExists ==
  ASSUME NEW T, NEW s \in Seq(Seq(T))
  PROVE  \E f \in [1 .. Len(s) -> Seq(T)] : IsJoin(s, f)
  <1> DEFINE Upto(n, f) == f = [i \in 1 .. n |-> IF i = 1 THEN s[i] ELSE f[i - 1] \o s[i]]
             Has(n) == \E f \in [1 .. n -> Seq(T)] : Upto(n, f)
             N == {n \in Nat : n <= Len(s) => Has(n)}
  <1>1. Has(0)
    <2> DEFINE f == [i \in 1 .. 0 |-> <<>>]
    <2>1. f \in [1 .. 0 -> Seq(T)] /\ Upto(0, f)
      OBVIOUS
    <2> HIDE DEF f, Upto
    <2> QED  BY <2>1
  <1>2. ASSUME NEW n \in Nat, n + 1 <= Len(s), Has(n)
        PROVE  Has(n + 1)
    <2>1. Len(s) \in Nat /\ s[n + 1] \in Seq(T)
      BY <1>2
    <2>2. PICK f \in [1 .. n -> Seq(T)] : Upto(n, f)
      BY <1>2
    <2> DEFINE last == IF n = 0 THEN s[n + 1] ELSE f[n] \o s[n + 1]
               g == [i \in 1 .. n + 1 |-> IF i <= n THEN f[i] ELSE last]
    <2>3. last \in Seq(T)
      BY <2>1
    <2>4. \A i \in 1 .. n : f[i] = IF i = 1 THEN s[i] ELSE f[i - 1] \o s[i]
      BY <2>2
    <2> HIDE DEF last, Upto
    <2>5. g \in [1 .. n + 1 -> Seq(T)]
      BY <2>1, <2>3
    <2>6. /\ \A i \in 1 .. n : g[i] = f[i]
          /\ g[n + 1] = last
      BY <2>1
    <2> HIDE DEF g
    <2>7. ASSUME NEW i \in 1 .. n + 1
          PROVE  g[i] = IF i = 1 THEN s[i] ELSE g[i - 1] \o s[i]
      <3>1. CASE i = n + 1
        BY <2>1, <2>6, <3>1 DEF last
      <3>2. CASE i \in 1 .. n
        <4>1. i = 1 \/ i - 1 \in 1 .. n
          BY <2>1, <3>2
        <4> QED  BY <2>4, <2>6, <3>2, <4>1
      <3> QED  BY <2>1, <3>1, <3>2
    <2>8. g = [i \in 1 .. n + 1 |-> IF i = 1 THEN s[i] ELSE g[i - 1] \o s[i]]
      BY <2>5, <2>7
    <2> QED  BY <2>5, <2>8 DEF Upto
  <1>3. N = Nat
    <2> HIDE DEF Has
    <2>1. Len(s) \in Nat
      OBVIOUS
    <2>2. \A n \in N : n + 1 \in N
      BY <1>2, <2>1
    <2>3. N \subseteq Nat /\ 0 \in N
      BY <1>1
    <2> HIDE DEF N
    <2> QED  BY <2>2, <2>3, Induction
  <1>4. Has(Len(s))
    <2> HIDE DEF Has
    <2>1. Len(s) \in Nat /\ Len(s) <= Len(s)
      OBVIOUS
    <2> QED  BY <1>3, <2>1
  <1> QED  BY <1>4 DEF IsJoin

\* Two joins agree as long as what is joined does.
LEMMA JoinUnique ==
  ASSUME NEW n \in Nat, NEW s, NEW t, NEW f, NEW g,
         \A i \in 1 .. n : s[i] = t[i], JoinsTo(s, f, n), JoinsTo(t, g, n)
  PROVE  \A i \in 1 .. n : f[i] = g[i]
  <1> DEFINE N == {k \in Nat : k \in 1 .. n => f[k] = g[k]}
  <1>1. ASSUME NEW k \in Nat, k \in 1 .. n => f[k] = g[k], k + 1 \in 1 .. n
        PROVE  f[k + 1] = g[k + 1]
    <2>1. (k = 0 \/ k \in 1 .. n) /\ (k + 1) - 1 = k
      BY <1>1
    <2>2. f[k + 1] = IF k + 1 = 1 THEN s[k + 1] ELSE f[k] \o s[k + 1]
      BY <1>1, <2>1 DEF JoinsTo
    <2>3. g[k + 1] = IF k + 1 = 1 THEN t[k + 1] ELSE g[k] \o t[k + 1]
      BY <1>1, <2>1 DEF JoinsTo
    <2>4. s[k + 1] = t[k + 1]
      BY <1>1
    <2>5. CASE k = 0
      BY <2>2, <2>3, <2>4, <2>5
    <2>6. CASE k \in 1 .. n
      <3>1. f[k] = g[k] /\ k + 1 # 1
        BY <1>1, <2>6
      <3> QED  BY <2>2, <2>3, <2>4, <3>1
    <2> QED  BY <2>1, <2>5, <2>6
  <1>2. N = Nat
    <2>1. 0 \in N /\ N \subseteq Nat /\ \A k \in N : k + 1 \in N
      BY <1>1
    <2> HIDE DEF N
    <2> QED  BY <2>1, Induction
  <1> QED  BY <1>2

\* The partial joins that FlattenSeq chooses are those there are.
LEMMA JoinFacts ==
  ASSUME NEW T, NEW s \in Seq(Seq(T))
  PROVE  /\ JoinOf(s) \in [1 .. Len(s) -> Seq(T)]
         /\ JoinsTo(s, JoinOf(s), Len(s))
  <1>1. PICK f \in [1 .. Len(s) -> Seq(T)] : IsJoin(s, f)
    BY JoinExists
  <1>2. IsJoin(s, JoinOf(s))
    BY <1>1 DEF JoinOf
  <1>3. JoinsTo(s, JoinOf(s), Len(s))
    BY <1>2 DEF IsJoin, JoinsTo
  <1>4. JoinsTo(s, f, Len(s))
    BY <1>1 DEF IsJoin, JoinsTo
  <1>5. Len(s) \in Nat
    OBVIOUS
  <1>6. \A i \in 1 .. Len(s) : JoinOf(s)[i] = f[i]
    BY <1>3, <1>4, <1>5, JoinUnique
  <1>7. JoinOf(s) = [i \in 1 .. Len(s) |-> JoinOf(s)[i]]
    <2>1. JoinOf(s) = [i \in 1 .. Len(s) |->
                           IF i = 1 THEN s[i] ELSE JoinOf(s)[i - 1] \o s[i]]
      BY <1>2 DEF IsJoin
    <2> QED  BY <2>1
  <1>8. JoinOf(s) \in [1 .. Len(s) -> Seq(T)]
    BY <1>6, <1>7
  <1> QED  BY <1>3, <1>8

\* Nothing joined is nothing.
LEMMA FlattenNone == FlattenSeq(<<>>) = <<>>
  BY DEF FlattenSeq

\* Joining is one sequence after the other.
LEMMA FlattenAppend ==
  ASSUME NEW T, NEW s \in Seq(Seq(T)), NEW x \in Seq(T)
  PROVE  FlattenSeq(s) \in Seq(T) /\ FlattenSeq(Append(s, x)) = FlattenSeq(s) \o x
  <1> DEFINE n == Len(s)
             t == Append(s, x)
  <1>1. /\ n \in Nat /\ t \in Seq(Seq(T)) /\ Len(t) = n + 1 /\ t[n + 1] = x
        /\ \A i \in 1 .. n : t[i] = s[i]
    OBVIOUS
  <1>2. FlattenSeq(t) = JoinOf(t)[n + 1]
    <2> HIDE DEF n, t
    <2> QED  BY <1>1, FlattenIsJoin
  <1>3. /\ JoinOf(t) \in [1 .. n + 1 -> Seq(T)]
        /\ JoinsTo(t, JoinOf(t), n + 1)
    <2> HIDE DEF t, n
    <2> QED  BY <1>1, JoinFacts
  <1>4. CASE n = 0
    <2>1. s = <<>> /\ FlattenSeq(s) = <<>>
      BY <1>4, FlattenNone
    <2>2. FlattenSeq(t) = x
      BY <1>1, <1>2, <1>3, <1>4 DEF JoinsTo
    <2>3. <<>> \o x = x /\ <<>> \in Seq(T)
      OBVIOUS
    <2> QED  BY <2>1, <2>2, <2>3
  <1>5. CASE n # 0
    <2>1. /\ JoinOf(s) \in [1 .. n -> Seq(T)]
          /\ JoinsTo(s, JoinOf(s), n)
      BY JoinFacts
    <2> HIDE DEF t, n
    <2>2. JoinsTo(t, JoinOf(t), n) /\ \A i \in 1 .. n : s[i] = t[i]
      <3>1. 1 .. n \subseteq 1 .. n + 1
        BY <1>1
      <3> QED  BY <1>1, <1>3, <3>1 DEF JoinsTo
    <2>3. n \in 1 .. n /\ n + 1 \in 1 .. n + 1 /\ (n + 1) - 1 = n /\ n + 1 # 1
      BY <1>1, <1>5
    <2>4. JoinOf(s)[n] = JoinOf(t)[n]
      <3>1. \A i \in 1 .. n : JoinOf(s)[i] = JoinOf(t)[i]
        <4>1. n \in Nat /\ JoinsTo(s, JoinOf(s), n)
          BY <1>1, <2>1
        <4> QED  BY <4>1, <2>2, JoinUnique
      <3> QED  BY <2>3, <3>1
    <2>5. FlattenSeq(s) = JoinOf(s)[n]
      BY <1>5, FlattenIsJoin DEF n
    <2>6. JoinOf(t)[n + 1] = JoinOf(t)[n] \o x
      BY <1>1, <1>3, <2>3 DEF JoinsTo
    <2>7. FlattenSeq(s) \in Seq(T)
      BY <2>1, <2>3, <2>5
    <2> QED  BY <1>2, <2>4, <2>5, <2>6, <2>7 DEF t
  <1> QED  BY <1>4, <1>5

\* The join of strings is a string.
LEMMA FlattenTyped ==
  ASSUME NEW T, NEW s \in Seq(Seq(T))
  PROVE  FlattenSeq(s) \in Seq(T)
  <1>1. <<>> \in Seq(T)
    OBVIOUS
  <1> QED  BY <1>1, FlattenAppend

-----------------------------------------------------------------------------
(***************************************************************************)
(* What is hashed can be read back.                                        *)
(***************************************************************************)
Bytes(n) == Seq(Byte \ {n})     \* strings without the byte n

\* The provers take \o apart; as Cat it stays whole.
Cat(x, y) == x \o y
Nul == <<0>>

\* The part after the last NUL is known, and so is the part before.
LEMMA LastNul ==
  ASSUME NEW x \in Str, NEW y \in Str, NEW d \in Bytes(0), NEW e \in Bytes(0),
         Cat(Cat(x, Nul), d) = Cat(Cat(y, Nul), e)
  PROVE  x = y /\ d = e
  <1> DEFINE u == (x \o <<0>>) \o d
             v == (y \o <<0>>) \o e
  <1>1. /\ Len(x) \in Nat /\ Len(y) \in Nat /\ Len(d) \in Nat /\ Len(e) \in Nat
        /\ 0 \in Byte /\ x \in Seq(Byte) /\ y \in Seq(Byte) /\ d \in Seq(Byte) /\ e \in Seq(Byte)
    BY DEF Str, Bytes, Byte
  <1>2. /\ Len(u) = Len(x) + 1 + Len(d)
        /\ \A i \in 1 .. Len(x) : u[i] = x[i]
        /\ u[Len(x) + 1] = 0
        /\ \A i \in 1 .. Len(d) : u[Len(x) + 1 + i] = d[i]
    BY <1>1
  <1>3. /\ Len(v) = Len(y) + 1 + Len(e)
        /\ \A i \in 1 .. Len(y) : v[i] = y[i]
        /\ v[Len(y) + 1] = 0
        /\ \A i \in 1 .. Len(e) : v[Len(y) + 1 + i] = e[i]
    BY <1>1
  <1>4. u = v
    BY DEF Cat, Nul
  <1>5. (\A i \in 1 .. Len(d) : d[i] # 0) /\ (\A i \in 1 .. Len(e) : e[i] # 0)
    BY DEF Bytes
  <1> HIDE DEF u, v
  <1>6. Len(x) = Len(y)
    <2>1. CASE Len(x) < Len(y)
      <3>1. Len(y) - Len(x) \in 1 .. Len(d) /\ Len(x) + 1 + (Len(y) - Len(x)) = Len(y) + 1
        BY <1>1, <1>2, <1>3, <1>4, <2>1
      <3>2. u[Len(y) + 1] = d[Len(y) - Len(x)]
        BY <1>2, <3>1
      <3> QED  BY <1>3, <1>4, <1>5, <3>1, <3>2
    <2>2. CASE Len(y) < Len(x)
      <3>1. Len(x) - Len(y) \in 1 .. Len(e) /\ Len(y) + 1 + (Len(x) - Len(y)) = Len(x) + 1
        BY <1>1, <1>2, <1>3, <1>4, <2>2
      <3>2. v[Len(x) + 1] = e[Len(x) - Len(y)]
        BY <1>3, <3>1
      <3> QED  BY <1>2, <1>4, <1>5, <3>1, <3>2
    <2> QED  BY <1>1, <2>1, <2>2
  <1>7. Len(d) = Len(e)
    BY <1>1, <1>2, <1>3, <1>4, <1>6
  <1>8. \A i \in 1 .. Len(x) : x[i] = y[i]
    BY <1>2, <1>3, <1>4, <1>6
  <1>9. \A i \in 1 .. Len(d) : d[i] = e[i]
    <2> SUFFICES ASSUME NEW i \in 1 .. Len(d)  PROVE d[i] = e[i]
      OBVIOUS
    <2>1. u[Len(x) + 1 + i] = d[i] /\ v[Len(y) + 1 + i] = e[i]
      BY <1>2, <1>3, <1>7
    <2> QED  BY <1>4, <1>6, <2>1
  <1>10. x = y
    BY <1>1, <1>6, <1>8, SeqEqual
  <1>11. d = e
    BY <1>1, <1>7, <1>9, SeqEqual
  <1> QED  BY <1>10, <1>11

\* Concatenation of strings.
LEMMA CatTyped == ASSUME NEW x \in Str, NEW y \in Str  PROVE Cat(x, y) \in Str
  BY DEF Str, Cat

\* Concatenation is associative.
LEMMA CatAssoc ==
  ASSUME NEW x \in Str, NEW y \in Str, NEW z \in Str
  PROVE  Cat(Cat(x, y), z) = Cat(x, Cat(y, z))
  BY ConcatAssociative DEF Str, Cat

\* Strings with a common head that are equal have equal tails.
LEMMA CancelLeft ==
  ASSUME NEW x \in Str, NEW y \in Str, NEW z \in Str, Cat(x, y) = Cat(x, z)
  PROVE  y = z
  <1> DEFINE u == x \o y
             v == x \o z
  <1>1. /\ Len(x) \in Nat /\ Len(y) \in Nat /\ Len(z) \in Nat
        /\ Len(u) = Len(x) + Len(y) /\ \A i \in 1 .. Len(y) : u[Len(x) + i] = y[i]
        /\ Len(v) = Len(x) + Len(z) /\ \A i \in 1 .. Len(z) : v[Len(x) + i] = z[i]
        /\ y \in Seq(Byte) /\ z \in Seq(Byte)
    BY DEF Str
  <1>2. u = v
    BY DEF Cat
  <1> HIDE DEF u, v
  <1>3. Len(y) = Len(z)
    BY <1>1, <1>2
  <1>4. \A i \in 1 .. Len(y) : y[i] = z[i]
    <2> SUFFICES ASSUME NEW i \in 1 .. Len(y)  PROVE y[i] = z[i]
      OBVIOUS
    <2>1. u[Len(x) + i] = y[i] /\ v[Len(x) + i] = z[i]
      BY <1>1, <1>3
    <2> QED  BY <1>2, <2>1
  <1> QED  BY <1>1, <1>3, <1>4, SeqEqual

\* Strings with a common tail that are equal have equal heads.
LEMMA CancelRight ==
  ASSUME NEW x \in Str, NEW y \in Str, NEW z \in Str, Cat(x, z) = Cat(y, z)
  PROVE  x = y
  <1> DEFINE u == x \o z
             v == y \o z
  <1>1. /\ Len(x) \in Nat /\ Len(y) \in Nat /\ Len(z) \in Nat
        /\ Len(u) = Len(x) + Len(z) /\ \A i \in 1 .. Len(x) : u[i] = x[i]
        /\ Len(v) = Len(y) + Len(z) /\ \A i \in 1 .. Len(y) : v[i] = y[i]
        /\ x \in Seq(Byte) /\ y \in Seq(Byte)
    BY DEF Str
  <1>2. u = v
    BY DEF Cat
  <1> HIDE DEF u, v
  <1>3. Len(x) = Len(y)
    BY <1>1, <1>2
  <1>4. \A i \in 1 .. Len(x) : x[i] = y[i]
    BY <1>1, <1>2, <1>3
  <1> QED  BY <1>1, <1>3, <1>4, SeqEqual

\* Five strings can be joined from either end.
LEMMA CatFive ==
  ASSUME NEW a \in Str, NEW b \in Str, NEW c \in Str, NEW d \in Str, NEW e \in Str
  PROVE  Cat(a, Cat(Cat(Cat(b, c), d), e)) = Cat(Cat(Cat(Cat(a, b), c), d), e)
  <1>1. Cat(b, c) \in Str /\ Cat(Cat(b, c), d) \in Str
    BY CatTyped
  <1>2. Cat(a, Cat(Cat(Cat(b, c), d), e)) = Cat(Cat(a, Cat(Cat(b, c), d)), e)
    BY <1>1, CatAssoc
  <1>3. Cat(a, Cat(Cat(b, c), d)) = Cat(Cat(a, Cat(b, c)), d)
    BY <1>1, CatAssoc
  <1>4. Cat(a, Cat(b, c)) = Cat(Cat(a, b), c)
    BY CatAssoc
  <1> QED  BY <1>2, <1>3, <1>4

\* Nothing, or a string that ends with NUL.
Closed(x) == \E c \in Str : Cat(Nul, x) = Cat(c, Nul)

\* A payload as it is hashed.
Coded(m, d) == Cat(Cat(Cat(m, Nul), d), Nul)

\* A string without NUL is a string.
LEMMA BytesAreStr ==
  Nul \in Str /\ \A d \in Bytes(0) : d \in Str
  <1>1. Byte \ {0} \subseteq Byte /\ 0 \in Byte
    BY DEF Byte
  <1>2. Bytes(0) \subseteq Str
    BY <1>1, SeqMonotonic DEF Bytes, Str
  <1> QED  BY <1>1, <1>2 DEF Nul, Str

\* The last of several encoded payloads is known, and so is what comes before.
LEMMA LastEncoded ==
  ASSUME NEW x \in Str, NEW y \in Str, Closed(x), Closed(y),
         NEW m \in Bytes(0), NEW n \in Bytes(0), NEW d \in Bytes(0), NEW e \in Bytes(0),
         Cat(x, Coded(m, d)) = Cat(y, Coded(n, e))
  PROVE  x = y /\ m = n /\ d = e
  <1>1. m \in Str /\ n \in Str /\ d \in Str /\ e \in Str /\ Nul \in Str
    BY BytesAreStr
  <1>2. /\ Cat(x, m) \in Str /\ Cat(y, n) \in Str
        /\ Cat(Cat(x, m), Nul) \in Str /\ Cat(Cat(y, n), Nul) \in Str
        /\ Cat(Cat(Cat(x, m), Nul), d) \in Str /\ Cat(Cat(Cat(y, n), Nul), e) \in Str
    BY <1>1, CatTyped
  <1>3. Cat(Cat(Cat(Cat(x, m), Nul), d), Nul) = Cat(Cat(Cat(Cat(y, n), Nul), e), Nul)
    BY <1>1, CatFive DEF Coded
  <1>4. Cat(Cat(Cat(x, m), Nul), d) = Cat(Cat(Cat(y, n), Nul), e)
    BY <1>1, <1>2, <1>3, CancelRight
  <1>5. Cat(x, m) = Cat(y, n) /\ d = e
    BY <1>2, <1>4, LastNul
  <1>6. PICK b \in Str, c \in Str : Cat(Nul, x) = Cat(b, Nul) /\ Cat(Nul, y) = Cat(c, Nul)
    BY DEF Closed
  <1>7. Cat(Cat(b, Nul), m) = Cat(Cat(c, Nul), n)
    <2>1. Cat(Cat(Nul, x), m) = Cat(Nul, Cat(x, m))
      BY <1>1, CatAssoc
    <2>2. Cat(Cat(Nul, y), n) = Cat(Nul, Cat(y, n))
      BY <1>1, CatAssoc
    <2> QED  BY <1>5, <1>6, <2>1, <2>2
  <1>8. b = c /\ m = n
    BY <1>7, LastNul
  <1>9. x = y
    BY <1>1, <1>6, <1>8, CancelLeft
  <1> QED  BY <1>5, <1>8, <1>9

\* What follows a closed string is closed if it ends with NUL.
LEMMA ClosedGrows ==
  ASSUME NEW x \in Str, NEW m \in Str, NEW d \in Str
  PROVE  Cat(x, Coded(m, d)) \in Str /\ Closed(Cat(x, Coded(m, d)))
  <1> DEFINE c == Cat(Nul, Cat(Cat(Cat(x, m), Nul), d))
  <1>1. /\ Nul \in Str /\ Cat(Cat(Cat(x, m), Nul), d) \in Str /\ c \in Str
        /\ Cat(Cat(Cat(Cat(x, m), Nul), d), Nul) \in Str
    BY BytesAreStr, CatTyped
  <1>2. Cat(x, Coded(m, d)) = Cat(Cat(Cat(Cat(x, m), Nul), d), Nul)
    BY <1>1, CatFive DEF Coded
  <1>3. Cat(Nul, Cat(x, Coded(m, d))) = Cat(c, Nul)
    BY <1>1, <1>2, CatAssoc
  <1> QED  BY <1>1, <1>2, <1>3 DEF Closed

\* A sequence is empty or has a last element.
LEMMA SeqLast ==
  ASSUME NEW T, NEW s \in Seq(T), s # <<>>
  PROVE  \E f \in Seq(T), x \in T : s = Append(f, x)
  <1> DEFINE P == {t \in Seq(T) : t # <<>> => \E f \in Seq(T), x \in T : t = Append(f, x)}
  <1>1. <<>> \in P
    OBVIOUS
  <1>2. ASSUME NEW t \in Seq(T), NEW x \in T  PROVE Append(t, x) \in P
    <2>1. Append(t, x) \in Seq(T)
      OBVIOUS
    <2> QED  BY <2>1
  <1>3. Seq(T) \subseteq P
    <2> HIDE DEF P
    <2> QED  BY <1>1, <1>2, SeqInduction
  <1> QED  BY <1>3

\* What payloads are hashed as, in the order they have.
AllOf(s) == FlattenSeq([i \in DOMAIN s |-> Encoded(s[i])])

\* What payload_hash feeds for one payload, written with Cat.
LEMMA EncodedIsCoded ==
  ASSUME NEW p \in Payload
  PROVE  Encoded(p) = Coded(p.mime, p.data) /\ Encoded(p) \in Str
  <1>1. Encoded(p) = Coded(p.mime, p.data)
    BY DEF Encoded, Coded, Cat, Nul
  <1>2. Coded(p.mime, p.data) \in Str
    BY PayloadFields, BytesAreStr, CatTyped DEF Coded
  <1> QED  BY <1>1, <1>2

\* What payload_hash feeds for one payload more.
LEMMA AllOfAppend ==
  ASSUME NEW s \in Seq(Payload), NEW p \in Payload
  PROVE  AllOf(s) \in Str /\ AllOf(Append(s, p)) = Cat(AllOf(s), Coded(p.mime, p.data))
  <1> DEFINE c == [i \in DOMAIN s |-> Encoded(s[i])]
  <1>1. \A i \in DOMAIN s : Encoded(s[i]) \in Str
    BY EncodedIsCoded
  <1>2. Len(s) \in Nat /\ DOMAIN s = 1 .. Len(s)
    OBVIOUS
  <1>3. c \in Seq(Seq(Byte)) /\ Encoded(p) \in Seq(Byte)
    BY <1>1, <1>2, EncodedIsCoded DEF Str
  <1>4. [i \in DOMAIN Append(s, p) |-> Encoded(Append(s, p)[i])] = Append(c, Encoded(p))
    <2>1. \A i \in 1 .. Len(s) : Append(s, p)[i] = s[i]
      OBVIOUS
    <2>2. Append(s, p)[Len(s) + 1] = p /\ DOMAIN Append(s, p) = 1 .. Len(s) + 1
      OBVIOUS
    <2>3. Len(c) = Len(s)
      BY <1>2
    <2> QED  BY <1>2, <2>1, <2>2, <2>3
  <1> HIDE DEF c
  <1>5. FlattenSeq(c) \in Seq(Byte) /\ FlattenSeq(Append(c, Encoded(p))) = FlattenSeq(c) \o Encoded(p)
    BY <1>3, FlattenAppend
  <1> QED  BY <1>4, <1>5, EncodedIsCoded DEF AllOf, Str, Cat, c

\* What payload_hash feeds is empty or ends with a NUL.
LEMMA AllOfClosed ==
  ASSUME NEW s \in Seq(Payload)
  PROVE  AllOf(s) \in Str /\ Closed(AllOf(s))
  <1>1. CASE s = <<>>
    <2>1. AllOf(s) = <<>>
      BY <1>1, FlattenNone DEF AllOf
    <2>2. <<>> \in Str /\ Cat(Nul, <<>>) = Cat(<<>>, Nul)
      BY DEF Cat, Nul, Str
    <2> QED  BY <2>1, <2>2 DEF Closed
  <1>2. CASE s # <<>>
    <2>1. PICK f \in Seq(Payload), x \in Payload : s = Append(f, x)
      BY <1>2, SeqLast
    <2>2. AllOf(s) = Cat(AllOf(f), Coded(x.mime, x.data)) /\ AllOf(f) \in Str
      BY <2>1, AllOfAppend
    <2> QED  BY <2>2, ClosedGrows, PayloadFields
  <1> QED  BY <1>1, <1>2

\* Payloads without NUL in their data.
Clean == {p \in Payload : 0 \notin Range(p.data)}

\* A payload without NUL.
LEMMA CleanFields ==
  ASSUME NEW p \in Clean
  PROVE  p \in Payload /\ p.mime \in Bytes(0) /\ p.data \in Bytes(0)
  <1>1. p \in Payload /\ p.mime \in Mime /\ p.data \in Seq(Byte)
    BY DEF Clean, Payload
  <1>2. \A i \in 1 .. Len(p.data) : p.data[i] \in Byte \ {0}
    <2>1. Range(p.data) = {p.data[i] : i \in 1 .. Len(p.data)}
      BY <1>1 DEF Range
    <2> QED  BY <1>1, <2>1 DEF Clean
  <1>3. p.data \in Seq(Byte \ {0})
    BY <1>1, <1>2
  <1> QED  BY <1>1, <1>3, MimesAssumption DEF Bytes

\* From what they are hashed as, payloads without NUL can be read back.
LEMMA ReadBack ==
  ASSUME NEW s \in Seq(Clean), NEW t \in Seq(Clean), AllOf(s) = AllOf(t)
  PROVE  s = t
  <1> DEFINE P == {r \in Seq(Clean) : \A q \in Seq(Clean) : AllOf(r) = AllOf(q) => r = q}
  <1>1. Seq(Clean) \subseteq Seq(Payload)
    <2>1. Clean \subseteq Payload
      BY DEF Clean
    <2> QED  BY <2>1, SeqMonotonic
  <1>2. ASSUME NEW r \in Seq(Clean), NEW x \in Clean
        PROVE  AllOf(Append(r, x)) # AllOf(<<>>)
    <2>1. AllOf(Append(r, x)) = Cat(AllOf(r), Coded(x.mime, x.data)) /\ AllOf(r) \in Str
      BY <1>1, AllOfAppend, CleanFields
    <2>2. AllOf(<<>>) = <<>>
      BY FlattenNone DEF AllOf
    <2>3. \A y \in Str, z \in Str : Cat(y, Cat(z, Nul)) # <<>>
      BY DEF Cat, Nul, Str, Byte
    <2>4. Cat(Cat(x.mime, Nul), x.data) \in Str
      BY CleanFields, PayloadFields, BytesAreStr, CatTyped
    <2> QED  BY <2>1, <2>2, <2>3, <2>4 DEF Coded
  <1>3. <<>> \in P
    <2>1. ASSUME NEW q \in Seq(Clean), AllOf(<<>>) = AllOf(q), q # <<>>  PROVE FALSE
      <3>1. PICK f \in Seq(Clean), y \in Clean : q = Append(f, y)
        BY <2>1, SeqLast
      <3> QED  BY <1>2, <2>1, <3>1
    <2>2. <<>> \in Seq(Clean)
      OBVIOUS
    <2> QED  BY <2>1, <2>2
  <1>4. ASSUME NEW r \in Seq(Clean), NEW x \in Clean, r \in P
        PROVE  Append(r, x) \in P
    <2> SUFFICES ASSUME NEW q \in Seq(Clean), AllOf(Append(r, x)) = AllOf(q)
                 PROVE  Append(r, x) = q
      OBVIOUS
    <2>1. q # <<>>
      BY <1>2
    <2>2. PICK f \in Seq(Clean), y \in Clean : q = Append(f, y)
      BY <2>1, SeqLast
    <2>3. /\ AllOf(Append(r, x)) = Cat(AllOf(r), Coded(x.mime, x.data))
          /\ AllOf(q) = Cat(AllOf(f), Coded(y.mime, y.data))
      BY <1>1, <2>2, AllOfAppend, CleanFields
    <2>4. AllOf(r) \in Str /\ AllOf(f) \in Str /\ Closed(AllOf(r)) /\ Closed(AllOf(f))
      BY <1>1, AllOfClosed
    <2>5. AllOf(r) = AllOf(f) /\ x.mime = y.mime /\ x.data = y.data
      <3>1. /\ x.mime \in Bytes(0) /\ x.data \in Bytes(0)
            /\ y.mime \in Bytes(0) /\ y.data \in Bytes(0)
        BY CleanFields
      <3>2. Cat(AllOf(r), Coded(x.mime, x.data)) = Cat(AllOf(f), Coded(y.mime, y.data))
        BY <2>3
      <3> HIDE DEF P
      <3> QED  BY <2>4, <3>1, <3>2, LastEncoded
    <2>6. r = f /\ x = y
      BY <1>4, <2>5, CleanFields, PayloadFields
    <2> QED  BY <2>2, <2>6
  <1>5. Seq(Clean) \subseteq P
    <2> HIDE DEF P
    <2> QED  BY <1>3, <1>4, SeqInduction
  <1> QED  BY <1>5

\* The hash of payloads without NUL tells which they are.
LEMMA HashTells ==
  ASSUME NEW s \in Seq(Payload), NEW t \in Seq(Payload), NulFree(s), NulFree(t),
         PayloadHash(s) = PayloadHash(t)
  PROVE  Range(s) = Range(t)
  <1>1. /\ Sorted(s) \in Seq(Payload) /\ Range(Sorted(s)) = Range(s)
        /\ Sorted(t) \in Seq(Payload) /\ Range(Sorted(t)) = Range(t)
    BY SortedPermutes
  <1>2. ASSUME NEW r \in Seq(Payload), \A p \in Range(r) : 0 \notin Range(p.data)
        PROVE  r \in Seq(Clean)
    <2>1. \A i \in 1 .. Len(r) : r[i] \in Clean
      BY <1>2 DEF Clean, Range
    <2> QED  BY <2>1
  <1>3. Sorted(s) \in Seq(Clean) /\ Sorted(t) \in Seq(Clean)
    BY <1>1, <1>2 DEF NulFree
  <1>4. AllOf(Sorted(s)) = AllOf(Sorted(t))
    BY DEF PayloadHash, AllOf
  <1>5. Sorted(s) = Sorted(t)
    BY <1>3, <1>4, ReadBack
  <1> QED  BY <1>1, <1>5

-----------------------------------------------------------------------------
(***************************************************************************)
(* A string read from left to right: at position i a piece is taken up, and *)
(* step[i] bytes of it.                                                    *)
(***************************************************************************)
Scan(n, step, piece, f) ==
  f = [i \in Nat |-> IF i > n THEN <<>> ELSE piece[i] \o f[i + step[i]]]

\* A function that reads from every position on exists, whatever the steps.
LEMMA ScanExists ==
  ASSUME NEW n \in Nat, NEW step \in [Nat -> Nat \ {0}], NEW piece
  PROVE  \E f : Scan(n, step, piece, f)
  <1> DEFINE At(f, i) == f[i] = IF i > n THEN <<>> ELSE piece[i] \o f[i + step[i]]
             From(k, f) == \A i \in Nat : i + k > n => At(f, i)
             Has(k) == \E f : f = [i \in Nat |-> f[i]] /\ From(k, f)
             N == {k \in Nat : Has(k)}
  <1>1. Has(0)
    <2> DEFINE f == [i \in Nat |-> <<>>]
    <2>1. f = [i \in Nat |-> f[i]] /\ \A i \in Nat : i > n => f[i] = <<>>
      OBVIOUS
    <2> HIDE DEF f
    <2>2. \A i \in Nat : i + 0 = i
      OBVIOUS
    <2>3. \A i \in Nat : i + 0 > n => At(f, i)
      BY <2>1, <2>2
    <2> QED  BY <2>1, <2>3
  <1>2. ASSUME NEW k \in Nat, Has(k)
        PROVE  Has(k + 1)
    <2>1. PICK f : f = [i \in Nat |-> f[i]] /\ From(k, f)
      BY <1>2
    <2> DEFINE new(i) == IF i > n THEN <<>> ELSE piece[i] \o f[i + step[i]]
               g == [i \in Nat |-> IF i + k = n THEN new(i) ELSE f[i]]
    <2>2. \A i \in Nat : g[i] = IF i + k = n THEN new(i) ELSE f[i]
      OBVIOUS
    <2>3. g = [i \in Nat |-> g[i]]
      OBVIOUS
    <2> HIDE DEF g
    <2>4. ASSUME NEW i \in Nat, i + (k + 1) > n  PROVE At(g, i)
      <3>1. step[i] \in Nat /\ step[i] # 0 /\ i + step[i] \in Nat
        OBVIOUS
      <3>2. g[i + step[i]] = f[i + step[i]]
        <4>1. i + step[i] + k # n
          BY <2>4, <3>1
        <4> QED  BY <2>2, <3>1, <4>1
      <3>3. CASE i + k = n
        BY <2>2, <3>2, <3>3
      <3>4. CASE i + k # n
        <4>1. i + k > n
          BY <2>4, <3>4
        <4>2. At(f, i) /\ g[i] = f[i]
          BY <2>1, <2>2, <3>4, <4>1
        <4> QED  BY <3>2, <4>2
      <3> QED  BY <3>3, <3>4
    <2>5. From(k + 1, g)
      BY <2>4
    <2> QED  BY <2>3, <2>5
  <1>3. N = Nat
    <2> HIDE DEF Has
    <2>1. 0 \in N /\ N \subseteq Nat /\ \A k \in N : k + 1 \in N
      BY <1>1, <1>2
    <2> HIDE DEF N
    <2> QED  BY <2>1, Induction
  <1>4. n + 1 \in Nat /\ \A i \in Nat : i + (n + 1) > n
    OBVIOUS
  <1>5. Has(n + 1)
    <2> HIDE DEF Has
    <2> QED  BY <1>3, <1>4
  <1>6. PICK f : f = [i \in Nat |-> f[i]] /\ From(n + 1, f)
    BY <1>5
  <1>7. \A i \in Nat : f[i] = IF i > n THEN <<>> ELSE piece[i] \o f[i + step[i]]
    BY <1>4, <1>6
  <1> QED  BY <1>6, <1>7 DEF Scan

\* What is read from a position on is a sequence if every piece is.
LEMMA ScanTyped ==
  ASSUME NEW T, NEW n \in Nat, NEW step \in [Nat -> Nat \ {0}], NEW piece, NEW f,
         Scan(n, step, piece, f), \A i \in 1 .. n : piece[i] \in Seq(T)
  PROVE  \A i \in Nat \ {0} : f[i] \in Seq(T)
  <1> DEFINE N == {k \in Nat : \A i \in Nat \ {0} : i + k > n => f[i] \in Seq(T)}
  <1>1. \A i \in Nat : f[i] = IF i > n THEN <<>> ELSE piece[i] \o f[i + step[i]]
    BY DEF Scan
  <1>2. ASSUME NEW i \in Nat, i > n  PROVE f[i] \in Seq(T)
    <2>1. f[i] = <<>>
      BY <1>1, <1>2
    <2>2. <<>> \in Seq(T)
      OBVIOUS
    <2> QED  BY <2>1, <2>2
  <1>3. ASSUME NEW k \in Nat, k \in N, NEW i \in Nat, i # 0, i + (k + 1) > n
        PROVE  f[i] \in Seq(T)
    <2>1. CASE i <= n
      <3> DEFINE j == i + step[i]
      <3>1. step[i] \in Nat /\ step[i] # 0
        OBVIOUS
      <3>2. j \in Nat \ {0} /\ j + k > n
        <4>1. i + (k + 1) > n
          BY <1>3
        <4> HIDE DEF N
        <4>2. \A m \in Nat : m # 0 => i + m \in Nat \ {0} /\ i + m + k > n
          BY <4>1
        <4> QED  BY <3>1, <4>2
      <3>3. f[i] = piece[i] \o f[j]
        <4>1. ~(i > n)
          BY <2>1
        <4> HIDE DEF N
        <4> QED  BY <1>1, <4>1, Zenon
      <3>4. i \in 1 .. n
        BY <1>3, <2>1
      <3>5. piece[i] \in Seq(T)
        BY <3>4
      <3> HIDE DEF j
      <3>6. f[j] \in Seq(T)
        BY <1>3, <3>2
      <3> HIDE DEF N
      <3> QED  BY <3>3, <3>5, <3>6
    <2>2. CASE i > n
      BY <1>2, <2>2
    <2> QED  BY <1>3, <2>1, <2>2
  <1>4. N = Nat
    <2>1. 0 \in N /\ N \subseteq Nat
      BY <1>2
    <2>2. ASSUME NEW k \in Nat, k \in N  PROVE k + 1 \in N
      <3>1. \A i \in Nat \ {0} : i + (k + 1) > n => f[i] \in Seq(T)
        BY <1>3, <2>2
      <3> QED  BY <3>1
    <2> HIDE DEF N
    <2> QED  BY <2>1, <2>2, Induction
  <1>5. n + 1 \in N
    <2> HIDE DEF N
    <2> QED  BY <1>4
  <1> QED  BY <1>5

\* percent_decode as a scan.
Hex(s, i) == Escape(s, i) /\ High(s[i + 1]) < 16 /\ Value(s[i + 2]) < 16
HexStep(s) == [i \in Nat |-> IF Hex(s, i) THEN 3 ELSE 1]
HexPiece(s) == [i \in Nat |->
  IF Hex(s, i) THEN <<16 * High(s[i + 1]) + Value(s[i + 2])>> ELSE <<s[i]>>]

\* percent_decode reads its input in steps of one or three bytes.
LEMMA DecodedScan ==
  ASSUME NEW s, Len(s) \in Nat
  PROVE  \E f : Scan(Len(s), HexStep(s), HexPiece(s), f) /\ PercentDecoded(s) = f[1]
  <1> DEFINE body(f, i) ==
               IF i > Len(s) THEN <<>>
               ELSE IF Escape(s, i) /\ High(s[i + 1]) < 16 /\ Value(s[i + 2]) < 16
               THEN <<16 * High(s[i + 1]) + Value(s[i + 2])>> \o f[i + 3]
               ELSE <<s[i]>> \o f[i + 1]
             scan(f, i) ==
               IF i > Len(s) THEN <<>> ELSE HexPiece(s)[i] \o f[i + HexStep(s)[i]]
             D(f) == f = [i \in Nat |-> body(f, i)]
  <1>1. PercentDecoded(s) = (CHOOSE f : D(f))[1]
    BY DEF PercentDecoded
  <1>2. ASSUME NEW f, NEW i \in Nat  PROVE scan(f, i) = body(f, i)
    <2>1. CASE Hex(s, i)
      <3>1. HexPiece(s)[i] = <<16 * High(s[i + 1]) + Value(s[i + 2])>> /\ HexStep(s)[i] = 3
        BY <2>1 DEF HexPiece, HexStep
      <3> QED  BY <2>1, <3>1, Zenon DEF Hex
    <2>2. CASE ~Hex(s, i)
      <3>1. HexPiece(s)[i] = <<s[i]>> /\ HexStep(s)[i] = 1
        BY <2>2 DEF HexPiece, HexStep
      <3> QED  BY <2>2, <3>1, Zenon DEF Hex
    <2> QED  BY <2>1, <2>2
  <1>3. ASSUME NEW f  PROVE D(f) <=> Scan(Len(s), HexStep(s), HexPiece(s), f)
    <2>1. [i \in Nat |-> body(f, i)] = [i \in Nat |-> scan(f, i)]
      <3> HIDE DEF body, scan
      <3> QED  BY <1>2
    <2> QED  BY <2>1, Zenon DEF Scan
  <1>4. \E f : Scan(Len(s), HexStep(s), HexPiece(s), f)
    <2>1. HexStep(s) \in [Nat -> Nat \ {0}]
      BY DEF HexStep
    <2> QED  BY <2>1, ScanExists
  <1>5. D(CHOOSE f : D(f))
    <2> HIDE DEF D
    <2> QED  BY <1>3, <1>4, Zenon
  <1> HIDE DEF D
  <1> QED  BY <1>1, <1>3, <1>5

\* Two digits make a byte.
LEMMA DigitsTyped ==
  /\ \A b : Value(b) \in 0 .. 16 /\ High(b) \in 0 .. 16
  /\ \A b, c : High(b) < 16 /\ Value(c) < 16 => 16 * High(b) + Value(c) \in Byte
  <1>1. \A b : Value(b) \in 0 .. 16
    BY DEF Value
  <1>2. \A b : High(b) \in 0 .. 16
    BY <1>1 DEF High
  <1>3. \A m \in 0 .. 15, n \in 0 .. 15 : 16 * m + n \in Byte
    BY DEF Byte
  <1>4. ASSUME NEW b, NEW c, High(b) < 16, Value(c) < 16
        PROVE  16 * High(b) + Value(c) \in Byte
    <2>1. High(b) \in 0 .. 15 /\ Value(c) \in 0 .. 15
      BY <1>1, <1>2, <1>4
    <2> QED  BY <1>3, <2>1
  <1> QED  BY <1>1, <1>2, <1>4

\* percent_decode returns a string for every string.
LEMMA DecodedTyped ==
  ASSUME NEW s \in Str
  PROVE  PercentDecoded(s) \in Str
  <1>1. Len(s) \in Nat /\ DOMAIN s = 1 .. Len(s) /\ \A k \in DOMAIN s : s[k] \in Byte
    BY DEF Str
  <1>2. PICK f : Scan(Len(s), HexStep(s), HexPiece(s), f) /\ PercentDecoded(s) = f[1]
    BY <1>1, DecodedScan
  <1>3. ASSUME NEW i \in 1 .. Len(s)  PROVE HexPiece(s)[i] \in Seq(Byte)
    <2>1. CASE Hex(s, i)
      <3>1. 16 * High(s[i + 1]) + Value(s[i + 2]) \in Byte
        BY <2>1, DigitsTyped DEF Hex
      <3>2. HexPiece(s)[i] = <<16 * High(s[i + 1]) + Value(s[i + 2])>>
        BY <2>1 DEF HexPiece
      <3> QED  BY <3>1, <3>2
    <2>2. CASE ~Hex(s, i)
      <3>1. HexPiece(s)[i] = <<s[i]>> /\ s[i] \in Byte
        BY <1>1, <2>2 DEF HexPiece
      <3> QED  BY <3>1
    <2> QED  BY <2>1, <2>2
  <1>4. HexStep(s) \in [Nat -> Nat \ {0}]
    BY DEF HexStep
  <1>5. 1 \in Nat \ {0}
    OBVIOUS
  <1>6. f[1] \in Seq(Byte)
    BY <1>1, <1>2, <1>3, <1>4, <1>5, ScanTyped
  <1> QED  BY <1>2, <1>6 DEF Str

\* Of numbers up to n there is a greatest.
LEMMA Greatest ==
  ASSUME NEW n \in Nat, NEW T \in SUBSET (1 .. n), T # {}
  PROVE  \E m \in T : \A k \in T : k <= m
  <1> DEFINE U == {n - k : k \in T}
  <1>1. U \subseteq Nat /\ U # {}
    <2>1. \A k \in T : k \in 1 .. n
      OBVIOUS
    <2>2. \A k \in T : n - k \in Nat
      BY <2>1
    <2> QED  BY <2>2
  <1>2. PICK u \in U : \A v \in U : u <= v
    <2> HIDE DEF U
    <2> QED  BY <1>1, Least
  <1>3. PICK m \in T : u = n - m
    OBVIOUS
  <1>4. \A k \in T : n - m <= n - k
    BY <1>2, <1>3
  <1>5. m \in 1 .. n /\ \A k \in T : k \in 1 .. n
    OBVIOUS
  <1> QED  BY <1>4, <1>5

\* What is taken for a character is one byte to four, and all of it is there.
LEMMA TakenFacts ==
  ASSUME NEW s, NEW i
  PROVE  /\ Taken(s, i) \in 1 .. 4
         /\ Taken(s, i) # 1 => Begins(s, i, Taken(s, i))
         /\ s[i] < 128 => Taken(s, i) = 1
  <1> DEFINE S == {1} \cup {n \in 1 .. 4 : Begins(s, i, n)}
  <1>1. S \in SUBSET (1 .. 4) /\ S # {}
    OBVIOUS
  <1>2. Taken(s, i) \in S
    <2>1. \A m \in S, k \in S : k <= m <=> m >= k
      BY <1>1
    <2> HIDE DEF S
    <2>2. \E m \in S : \A k \in S : m >= k
      BY <1>1, <2>1, Greatest
    <2> QED  BY <2>2 DEF Taken, Max, S
  <1>3. ASSUME s[i] < 128  PROVE Taken(s, i) = 1
    <2>1. Width(s[i]) = 1
      BY <1>3 DEF Width
    <2>2. \A n \in 1 .. 4 : Begins(s, i, n) => n = 1
      BY <2>1 DEF Begins
    <2> QED  BY <1>2, <2>2
  <1> QED  BY <1>1, <1>2, <1>3

\* A character is a string, and a byte of ASCII is one.
LEMMA CharTyped ==
  ASSUME NEW s \in Str, NEW i \in 1 .. Len(s)
  PROVE  CharAt(s, i) \in Str /\ (s[i] < 128 => CharAt(s, i) = <<s[i]>>)
  <1> DEFINE n == Taken(s, i)
             part == SubSeq(s, i, i + n - 1)
  <1>1. /\ Len(s) \in Nat /\ i \in Nat /\ \A k \in 1 .. Len(s) : s[k] \in Byte
    BY DEF Str
  <1>2. n \in 1 .. 4 /\ (n # 1 => Begins(s, i, n)) /\ (s[i] < 128 => n = 1)
    BY TakenFacts
  <1>3. i + n - 1 <= Len(s)
    BY <1>1, <1>2 DEF Begins
  <1>4. CharAt(s, i) = IF n = Width(s[i]) THEN part ELSE <<239, 191, 189>>
    BY DEF CharAt
  <1> HIDE DEF n
  <1>5. part \in Str
    <2>1. i + n - 1 \in Int /\ \A k \in i .. i + n - 1 : s[k] \in Byte
      BY <1>1, <1>2, <1>3
    <2> QED  BY <1>1, <2>1, SubSeqProperties DEF Str
  <1>6. <<239, 191, 189>> \in Str
    BY DEF Byte, Str
  <1>7. ASSUME s[i] < 128  PROVE CharAt(s, i) = <<s[i]>>
    <2>1. Width(s[i]) = 1 /\ n = 1 /\ i + 1 - 1 = i
      BY <1>1, <1>2, <1>7 DEF Width
    <2>2. CharAt(s, i) = SubSeq(s, i, i)
      BY <1>4, <2>1
    <2>3. SubSeq(s, i, i) = <<s[i]>>
      <3>1. s \in Seq(Byte) /\ i \in 1 .. Len(s) /\ i \in i .. Len(s)
        BY <1>1 DEF Str
      <3>2. SubSeq(s, i, i) = SubSeq(s, i, i - 1) \o <<s[i]>>
        BY <1>1, <3>1, SubSeqRecursiveSecond
      <3>3. SubSeq(s, i, i - 1) = <<>> /\ <<s[i]>> \in Seq(Byte)
        BY <1>1, SubSeqEmpty
      <3>4. ASSUME NEW y \in Seq(Byte)  PROVE <<>> \o y = y
        OBVIOUS
      <3>5. <<>> \o <<s[i]>> = <<s[i]>>
        BY <3>3, <3>4
      <3> QED  BY <3>2, <3>3, <3>5, Zenon
    <2> QED  BY <2>2, <2>3
  <1> HIDE DEF part
  <1>8. CharAt(s, i) \in Str
    BY <1>4, <1>5, <1>6, Zenon
  <1> QED  BY <1>7, <1>8

\* String::from_utf8_lossy as a scan.
CharStep(s) == [i \in Nat |-> Taken(s, i)]
CharPiece(s) == [i \in Nat |-> <<CharAt(s, i)>>]

\* from_utf8_lossy reads its input in steps of one byte to four.
LEMMA CharsScan ==
  ASSUME NEW s, Len(s) \in Nat
  PROVE  /\ CharStep(s) \in [Nat -> Nat \ {0}]
         /\ \E f : Scan(Len(s), CharStep(s), CharPiece(s), f) /\ Chars(s) = f[1]
  <1> DEFINE body(f, i) == IF i > Len(s) THEN <<>> ELSE <<CharAt(s, i)>> \o f[i + Taken(s, i)]
             scan(f, i) ==
               IF i > Len(s) THEN <<>> ELSE CharPiece(s)[i] \o f[i + CharStep(s)[i]]
             D(f) == f = [i \in Nat |-> body(f, i)]
  <1>1. Chars(s) = (CHOOSE f : D(f))[1]
    BY DEF Chars
  <1>2. ASSUME NEW f, NEW i \in Nat  PROVE scan(f, i) = body(f, i)
    <2>1. CharPiece(s)[i] = <<CharAt(s, i)>> /\ CharStep(s)[i] = Taken(s, i)
      BY DEF CharPiece, CharStep
    <2> QED  BY <2>1, Zenon
  <1>3. ASSUME NEW f  PROVE D(f) <=> Scan(Len(s), CharStep(s), CharPiece(s), f)
    <2>1. [i \in Nat |-> body(f, i)] = [i \in Nat |-> scan(f, i)]
      <3> HIDE DEF body, scan
      <3> QED  BY <1>2
    <2> QED  BY <2>1, Zenon DEF Scan
  <1>4. CharStep(s) \in [Nat -> Nat \ {0}]
    <2>1. \A i \in Nat : Taken(s, i) \in Nat \ {0}
      <3>1. \A i \in Nat : Taken(s, i) \in 1 .. 4
        BY TakenFacts
      <3> QED  BY <3>1
    <2> QED  BY <2>1 DEF CharStep
  <1>5. \E f : Scan(Len(s), CharStep(s), CharPiece(s), f)
    BY <1>4, ScanExists
  <1>6. D(CHOOSE f : D(f))
    <2> HIDE DEF D
    <2> QED  BY <1>3, <1>5, Zenon
  <1> HIDE DEF D
  <1> QED  BY <1>1, <1>3, <1>4, <1>6

\* A text is a sequence of characters, and a character one of bytes.
LEMMA CharsTyped ==
  ASSUME NEW s \in Str
  PROVE  Chars(s) \in Seq(Str) /\ Lossy(s) \in Str
  <1>1. Len(s) \in Nat /\ DOMAIN s = 1 .. Len(s) /\ \A k \in DOMAIN s : s[k] \in Byte
    BY DEF Str
  <1>2. /\ CharStep(s) \in [Nat -> Nat \ {0}]
        /\ \E f : Scan(Len(s), CharStep(s), CharPiece(s), f) /\ Chars(s) = f[1]
    BY <1>1, CharsScan
  <1>3. PICK f : Scan(Len(s), CharStep(s), CharPiece(s), f) /\ Chars(s) = f[1]
    BY <1>2
  <1>4. ASSUME NEW i \in 1 .. Len(s)  PROVE CharPiece(s)[i] \in Seq(Str)
    <2>1. CharPiece(s)[i] = <<CharAt(s, i)>> /\ CharAt(s, i) \in Str
      BY <1>1, CharTyped DEF CharPiece
    <2> QED  BY <2>1
  <1>5. 1 \in Nat \ {0}
    OBVIOUS
  <1>6. f[1] \in Seq(Str)
    BY <1>1, <1>2, <1>3, <1>4, <1>5, ScanTyped
  <1>7. Chars(s) \in Seq(Seq(Byte))
    BY <1>3, <1>6 DEF Str
  <1>8. FlattenSeq(Chars(s)) \in Seq(Byte)
    BY <1>7, FlattenTyped
  <1> QED  BY <1>3, <1>6, <1>8 DEF Lossy, Str

\* Each byte as a character.
Singles(s) == [i \in 1 .. Len(s) |-> <<s[i]>>]

\* The bytes of a string, joined, are the string.
LEMMA FlattenSingles ==
  ASSUME NEW T, NEW s \in Seq(T)
  PROVE  Singles(s) \in Seq(Seq(T)) /\ FlattenSeq(Singles(s)) = s
  <1> DEFINE P == {t \in Seq(T) : FlattenSeq(Singles(t)) = t}
  <1>1. ASSUME NEW t \in Seq(T)  PROVE Singles(t) \in Seq(Seq(T)) /\ Len(Singles(t)) = Len(t)
    <2>1. Len(t) \in Nat /\ \A i \in 1 .. Len(t) : <<t[i]>> \in Seq(T)
      OBVIOUS
    <2> QED  BY <2>1 DEF Singles
  <1>2. <<>> \in P
    <2>1. Singles(<<>>) = <<>>
      BY DEF Singles
    <2> QED  BY <2>1, FlattenNone
  <1>3. ASSUME NEW t \in Seq(T), NEW x \in T, t \in P  PROVE Append(t, x) \in P
    <2>1. Singles(Append(t, x)) = Append(Singles(t), <<x>>)
      <3> DEFINE u == Append(t, x)
      <3>1. /\ u \in Seq(T) /\ Len(u) = Len(t) + 1 /\ u[Len(t) + 1] = x /\ Len(t) \in Nat
            /\ \A i \in 1 .. Len(t) : u[i] = t[i]
        BY AppendProperties
      <3> HIDE DEF u
      <3> DEFINE v == Append(Singles(t), <<x>>)
      <3>2. /\ v \in Seq(Seq(T)) /\ Len(v) = Len(t) + 1 /\ v[Len(t) + 1] = <<x>>
            /\ \A i \in 1 .. Len(t) : v[i] = Singles(t)[i]
        <4>1. <<x>> \in Seq(T)
          OBVIOUS
        <4> QED  BY <1>1, <4>1, AppendProperties
      <3> HIDE DEF v
      <3>3. Singles(u) \in Seq(Seq(T)) /\ Len(Singles(u)) = Len(u)
        BY <1>1, <3>1
      <3>4. ASSUME NEW i \in 1 .. Len(t) + 1  PROVE Singles(u)[i] = v[i]
        <4>1. Singles(u)[i] = <<u[i]>>
          BY <3>1 DEF Singles
        <4>2. CASE i = Len(t) + 1
          BY <3>1, <3>2, <4>1, <4>2
        <4>3. CASE i # Len(t) + 1
          <5>1. i \in 1 .. Len(t)
            BY <3>1, <4>3
          <5> QED  BY <3>1, <3>2, <4>1, <5>1 DEF Singles
        <4> QED  BY <4>2, <4>3
      <3> QED  BY <3>1, <3>2, <3>3, <3>4, SeqEqual DEF u, v
    <2>2. <<x>> \in Seq(T) /\ Singles(t) \in Seq(Seq(T))
      BY <1>1
    <2>3. FlattenSeq(Singles(Append(t, x))) = FlattenSeq(Singles(t)) \o <<x>>
      BY <2>1, <2>2, FlattenAppend
    <2>4. FlattenSeq(Singles(t)) = t
      BY <1>3
    <2>5. t \o <<x>> = Append(t, x) /\ Append(t, x) \in Seq(T)
      OBVIOUS
    <2> QED  BY <2>3, <2>4, <2>5
  <1>4. Seq(T) \subseteq P
    <2> HIDE DEF P
    <2> QED  BY <1>2, <1>3, SeqInduction
  <1> QED  BY <1>1, <1>4

\* A text of ASCII is what its bytes are.
LEMMA LossyAscii ==
  ASSUME NEW s \in Str, \A k \in 1 .. Len(s) : s[k] < 128
  PROVE  Lossy(s) = s
  <1> DEFINE n == Len(s)
             t == Singles(s)
  <1>1. n \in Nat /\ s \in Seq(Byte)
    BY DEF Str
  <1>2. t \in Seq(Seq(Byte)) /\ FlattenSeq(t) = s
    BY <1>1, FlattenSingles
  <1>3. Len(t) = n /\ \A i \in 1 .. n : t[i] = <<s[i]>>
    BY <1>1 DEF Singles
  <1>4. PICK f : Scan(n, CharStep(s), CharPiece(s), f) /\ Chars(s) = f[1]
    BY <1>1, CharsScan
  <1>5. \A i \in Nat : f[i] = IF i > n THEN <<>> ELSE CharPiece(s)[i] \o f[i + CharStep(s)[i]]
    BY <1>4 DEF Scan
  <1>6. ASSUME NEW i \in 1 .. n  PROVE f[i] = <<t[i]>> \o f[i + 1]
    <2>1. i \in Nat /\ ~(i > n)
      BY <1>1
    <2>2. CharPiece(s)[i] = <<t[i]>> /\ CharStep(s)[i] = 1
      BY <1>3, <2>1, TakenFacts, CharTyped DEF CharPiece, CharStep
    <2> HIDE DEF n, t
    <2> QED  BY <1>5, <2>1, <2>2, Zenon
  <1> HIDE DEF n, t
  <1> DEFINE Reads(m) == f[n - m + 1] = SubSeq(t, n - m + 1, n)
             N == {m \in Nat : m <= n => Reads(m)}
  <1>7. Reads(0)
    <2>1. SubSeq(t, n + 1, n) = <<>>
      BY <1>1, SubSeqEmpty
    <2>2. n - 0 + 1 = n + 1 /\ n + 1 \in Nat /\ n + 1 > n
      BY <1>1
    <2>3. f[n + 1] = <<>>
      BY <1>5, <2>2
    <2> QED  BY <2>1, <2>2, <2>3
  <1>8. ASSUME NEW m \in Nat, m + 1 <= n, Reads(m)
        PROVE  Reads(m + 1)
    <2> DEFINE i == n - m
    <2>1. i \in 1 .. n /\ n - (m + 1) + 1 = i /\ n \in i .. n /\ n - m + 1 = i + 1
      BY <1>1, <1>8
    <2>2. f[i + 1] = SubSeq(t, i + 1, n)
      BY <1>8, <2>1
    <2> HIDE DEF i
    <2>3. f[i] = <<t[i]>> \o f[i + 1]
      BY <1>6, <2>1
    <2>4. SubSeq(t, i, n) = <<t[i]>> \o SubSeq(t, i + 1, n)
      BY <1>2, <1>3, <2>1, SubSeqRecursiveFirst
    <2>5. f[i] = SubSeq(t, i, n)
      BY <2>2, <2>3, <2>4
    <2> QED  BY <2>1, <2>5
  <1>9. N = Nat
    <2> HIDE DEF Reads
    <2>1. 0 \in N /\ N \subseteq Nat
      BY <1>7
    <2>2. \A m \in N : m + 1 \in N
      BY <1>1, <1>8
    <2> HIDE DEF N
    <2> QED  BY <2>1, <2>2, Induction
  <1>10. Reads(n)
    <2> HIDE DEF Reads
    <2> QED  BY <1>1, <1>9
  <1>11. f[1] = t
    <2>1. n - n + 1 = 1
      BY <1>1
    <2>2. f[1] = SubSeq(t, 1, n)
      BY <1>10, <2>1
    <2> QED  BY <1>2, <1>3, <2>2, SubSeqFull
  <1> QED  BY <1>2, <1>4, <1>11 DEF Lossy

-----------------------------------------------------------------------------
(***************************************************************************)
(* Labels are strings.                                                     *)
(***************************************************************************)

\* The data of a MIME type that is offered is that of one of the payloads.
LEMMA DataOfFacts ==
  ASSUME NEW s \in Seq(Payload), NEW q \in Range(s)
  PROVE  \E p \in Range(s) : p.mime = q.mime /\ DataOf(q.mime, s) = p.data
  <1> DEFINE I == {i \in 1 .. Len(s) : s[i].mime = q.mime}
  <1>1. I \subseteq Nat /\ I # {}
    BY DEF Range
  <1>2. SelectInSeq(s, LAMBDA p : p.mime = q.mime) = Min(I)
    BY <1>1 DEF SelectInSeq
  <1>3. Min(I) \in I
    <2> HIDE DEF I
    <2> QED  BY <1>1, Least DEF Min
  <1>4. DataOf(q.mime, s) = s[Min(I)].data
    BY <1>2 DEF DataOf
  <1>5. s[Min(I)] \in Range(s) /\ s[Min(I)].mime = q.mime
    <2> DEFINE m == Min(I)
    <2>1. m \in 1 .. Len(s) /\ s[m].mime = q.mime
      BY <1>3
    <2> HIDE DEF m
    <2>2. s[m] \in Range(s)
      BY <2>1 DEF Range
    <2> QED  BY <2>1, <2>2 DEF m
  <1> QED  BY <1>4, <1>5

\* What is left after trim is part of the text.
LEMMA TrimmedTyped ==
  ASSUME NEW T, NEW text \in Seq(T)
  PROVE  Trimmed(text) \in Seq(T)
  <1> DEFINE seen == {i \in DOMAIN text : text[i] \notin Space}
             first == CHOOSE i \in seen : \A j \in seen : i <= j
             last == CHOOSE i \in seen : \A j \in seen : i >= j
  <1>1. DOMAIN text = 1 .. Len(text) /\ Len(text) \in Nat
        /\ \A i \in DOMAIN text : text[i] \in T
    OBVIOUS
  <1>2. Trimmed(text) = IF seen = {} THEN <<>> ELSE SubSeq(text, first, last)
    BY DEF Trimmed
  <1>3. seen \subseteq 1 .. Len(text) /\ seen \subseteq Nat
    BY <1>1
  <1>4. CASE seen = {}
    <2>1. <<>> \in Seq(T)
      OBVIOUS
    <2> QED  BY <1>2, <1>4, <2>1
  <1>5. CASE seen # {}
    <2> HIDE DEF seen
    <2>1. first \in seen
      BY <1>3, <1>5, Least
    <2>2. \E m \in seen : \A j \in seen : j <= m
      BY <1>1, <1>3, <1>5, Greatest
    <2>3. last \in seen
      <3>1. \A m \in seen, j \in seen : j <= m <=> m >= j
        BY <1>3
      <3> QED  BY <2>2, <3>1
    <2> HIDE DEF first, last
    <2>4. \A i \in first .. last : text[i] \in T
      BY <1>1, <1>3, <2>1, <2>3
    <2>5. first \in Int /\ last \in Int
      BY <1>3, <2>1, <2>3
    <2>6. SubSeq(text, first, last) \in Seq(T)
      BY <2>4, <2>5, SubSeqProperties
    <2> QED  BY <1>2, <1>5, <2>6
  <1> QED  BY <1>4, <1>5

\* The text of a text entry, and what the label shows of it.
LEMMA ShownTyped ==
  ASSUME NEW s \in Seq(Payload), \E p \in Range(s) : p.mime \in Text
  PROVE  ShownText(s) \in Seq(Str)
  <1> DEFINE mimes == {p.mime : p \in Range(s)}
             I == {i \in 1 .. Len(s) : s[i].mime \in Text}
             first == s[SelectInSeq(s, LAMBDA p : p.mime \in Text)].mime
             shown == IF PlainUtf8 \in mimes THEN PlainUtf8
                      ELSE IF Plain \in mimes THEN Plain ELSE first
  <1>1. I \subseteq Nat /\ I # {}
    BY DEF Range
  <1>2. SelectInSeq(s, LAMBDA p : p.mime \in Text) = Min(I)
    BY <1>1 DEF SelectInSeq
  <1>3. Min(I) \in I
    <2> HIDE DEF I
    <2> QED  BY <1>1, Least DEF Min
  <1>4. first \in mimes
    <2> DEFINE m == Min(I)
    <2>1. m \in 1 .. Len(s) /\ first = s[m].mime
      BY <1>2, <1>3
    <2> HIDE DEF m, first
    <2>2. s[m] \in Range(s)
      BY <2>1 DEF Range
    <2> QED  BY <2>1, <2>2
  <1>5. shown \in mimes
    BY <1>4
  <1>6. PICK q \in Range(s) : shown = q.mime
    BY <1>5
  <1>7. DataOf(shown, s) \in Str
    <2> HIDE DEF shown
    <2>1. Range(s) \subseteq Payload
      BY SeqRangeFinite
    <2> QED  BY <1>6, <2>1, DataOfFacts, PayloadFields
  <1>8. ShownText(s) = Trimmed(Chars(DataOf(shown, s)))
    BY DEF ShownText
  <1> HIDE DEF shown
  <1> QED  BY <1>7, <1>8, CharsTyped, TrimmedTyped

\* The label of a text that is not cut inside a character is a string.
LEMMA TextLabelTyped ==
  ASSUME NEW text \in Seq(Str), ~Panics(text)
  PROVE  TextLabel(text) \in Str
  <1> DEFINE cut == CHOOSE n \in Starts(text) : TRUE
             part == SubSeq(text, 1, cut)
  <1>1. Len(text) \in Nat /\ \A i \in 1 .. Len(text) : text[i] \in Seq(Byte)
    BY DEF Str
  <1>2. text \in Seq(Seq(Byte))
    BY DEF Str
  <1>3. CASE Long(text)
    <2>1. cut \in 0 .. Len(text)
      BY <1>3 DEF Panics, Starts
    <2>2. TextLabel(text) = FlattenSeq(part)
      BY <1>3 DEF TextLabel
    <2> HIDE DEF cut
    <2>3. part \in Seq(Seq(Byte))
      <3>1. cut \in Int /\ 1 \in Int /\ \A i \in 1 .. cut : text[i] \in Seq(Byte)
        BY <1>1, <2>1
      <3> QED  BY <3>1, SubSeqProperties
    <2> HIDE DEF part
    <2> QED  BY <2>2, <2>3, FlattenTyped DEF Str
  <1>4. CASE ~Long(text)
    <2>1. TextLabel(text) = FlattenSeq(text)
      BY <1>4 DEF TextLabel
    <2> QED  BY <1>2, <2>1, FlattenTyped DEF Str
  <1> QED  BY <1>3, <1>4

\* The lines of a URI list.
EndOf(data, i) == CHOOSE j \in i .. Len(data) + 1 :
                    (j <= Len(data) => data[j] = 10) /\ \A k \in i .. j - 1 : data[k] # 10
LineOf(data, i) == SubSeq(data, i, EndOf(data, i) -
                     IF EndOf(data, i) \in i + 1 .. Len(data) /\ data[EndOf(data, i) - 1] = 13
                     THEN 2 ELSE 1)
Lines(data) == {i \in DOMAIN data :
                  (i = 1 \/ data[i - 1] = 10) /\ LineOf(data, i) # <<>> /\ data[i] # 35}

\* A line that begins at a position has an end.
LEMMA EndFacts ==
  ASSUME NEW data \in Str, NEW i \in DOMAIN data
  PROVE  /\ EndOf(data, i) \in i .. Len(data) + 1
         /\ EndOf(data, i) <= Len(data) => data[EndOf(data, i)] = 10
         /\ \A k \in i .. EndOf(data, i) - 1 : data[k] # 10
  <1> DEFINE J == {j \in Nat : i <= j /\ (j <= Len(data) => data[j] = 10)}
  <1>1. Len(data) \in Nat /\ i \in 1 .. Len(data)
    BY DEF Str
  <1>2. Len(data) + 1 \in J
    BY <1>1
  <1>3. PICK j \in J : \A k \in J : j <= k
    <2>1. J \subseteq Nat /\ J # {}
      BY <1>2
    <2> HIDE DEF J
    <2> QED  BY <2>1, Least
  <1>4. j \in i .. Len(data) + 1 /\ (j <= Len(data) => data[j] = 10)
    BY <1>1, <1>2, <1>3
  <1>5. \A k \in i .. j - 1 : data[k] # 10
    BY <1>1, <1>3
  <1> HIDE DEF J
  <1> QED  BY <1>4, <1>5 DEF EndOf

\* A line is a string.
LEMMA LineTyped ==
  ASSUME NEW data \in Str, NEW i \in DOMAIN data
  PROVE  LineOf(data, i) \in Str
  <1> DEFINE j == EndOf(data, i)
             last == j - IF j \in i + 1 .. Len(data) /\ data[j - 1] = 13 THEN 2 ELSE 1
  <1>1. /\ Len(data) \in Nat /\ i \in 1 .. Len(data)
        /\ \A k \in 1 .. Len(data) : data[k] \in Byte
    BY DEF Str
  <1>2. j \in i .. Len(data) + 1
    BY EndFacts
  <1>3. LineOf(data, i) = SubSeq(data, i, last)
    BY DEF LineOf
  <1> HIDE DEF j
  <1>4. last \in Int /\ last <= Len(data)
    BY <1>1, <1>2
  <1> HIDE DEF last
  <1>5. \A k \in i .. last : data[k] \in Byte
    BY <1>1, <1>4
  <1>6. SubSeq(data, i, last) \in Seq(Byte)
    BY <1>1, <1>4, <1>5, SubSeqProperties
  <1> QED  BY <1>3, <1>6 DEF Str

\* The first URI is the line that begins first.
LEMMA UrisFacts ==
  ASSUME NEW data \in Str
  PROVE  /\ IsFiniteSet(Lines(data)) /\ Lines(data) \subseteq DOMAIN data
         /\ Len(Uris(data)) = Cardinality(Lines(data))
         /\ Lines(data) = {} => Uris(data) = <<>>
         /\ \A i \in Lines(data) : (\A j \in Lines(data) : i <= j) =>
               Uris(data)[1] = LineOf(data, i)
  <1> DEFINE B == Lines(data)
             upto(i) == {j \in B : j <= i}
             at(n) == CHOOSE i \in B : Cardinality(upto(i)) = n
  <1>1. Len(data) \in Nat /\ DOMAIN data = 1 .. Len(data)
    BY DEF Str
  <1>2. B \subseteq DOMAIN data
    BY DEF Lines
  <1>3. IsFiniteSet(B)
    <2>1. IsFiniteSet(1 .. Len(data))
      BY <1>1, FS_Interval
    <2> HIDE DEF B
    <2> QED  BY <1>1, <1>2, <2>1, FS_Subset
  <1>4. Cardinality(B) \in Nat
    BY <1>3, FS_CardinalityType
  <1>5. Uris(data) = [n \in 1 .. Cardinality(B) |-> LineOf(data, at(n))]
    BY DEF Uris, Lines, LineOf, EndOf
  <1> HIDE DEF at
  <1>6. Len(Uris(data)) = Cardinality(B)
    <2> HIDE DEF B
    <2> QED  BY <1>4, <1>5
  <1>7. ASSUME B = {}  PROVE Uris(data) = <<>>
    <2>1. Cardinality(B) = 0
      BY <1>7, FS_EmptySet
    <2> HIDE DEF B
    <2> QED  BY <1>5, <2>1
  <1>8. ASSUME NEW i \in B, \A j \in B : i <= j
        PROVE  Uris(data)[1] = LineOf(data, i)
    <2> HIDE DEF B
    <2>1. \A j \in B : j \in Nat
      BY <1>1, <1>2
    <2>2. upto(i) = {i}
      BY <1>8, <2>1
    <2>3. Cardinality(upto(i)) = 1
      BY <2>2, FS_Singleton
    <2>4. ASSUME NEW k \in B, Cardinality(upto(k)) = 1  PROVE k = i
      <3>1. IsFiniteSet(upto(k)) /\ i \in upto(k) /\ k \in upto(k)
        BY <1>3, <1>8, <2>1, FS_Subset
      <3>2. PICK x : upto(k) = {x}
        <4> HIDE DEF upto
        <4> QED  BY <2>4, <3>1, FS_Singleton
      <3> QED  BY <3>1, <3>2
    <2>5. at(1) = i
      BY <2>3, <2>4 DEF at
    <2>6. Cardinality(B) # 0
      BY <1>3, <1>8, FS_EmptySet
    <2>7. 1 \in 1 .. Cardinality(B)
      BY <1>4, <2>6
    <2> QED  BY <1>5, <2>5, <2>7
  <1> QED  BY <1>2, <1>3, <1>6, <1>7, <1>8

\* The last part of a path is a string.
LEMMA FileNameTyped ==
  ASSUME NEW path \in Str
  PROVE  FileName(path) \in Str
  <1> DEFINE name == {i \in DOMAIN path : \A j \in i .. Len(path) : path[j] # 47}
             from1 == Len(path) - Cardinality(name) + 1
  <1>1. /\ Len(path) \in Nat /\ DOMAIN path = 1 .. Len(path)
        /\ \A k \in DOMAIN path : path[k] \in Byte
    BY DEF Str
  <1>2. Cardinality(name) \in Nat /\ Cardinality(name) <= Len(path)
    <2>1. IsFiniteSet(1 .. Len(path)) /\ Cardinality(1 .. Len(path)) = Len(path)
      BY <1>1, FS_Interval
    <2>2. name \subseteq 1 .. Len(path)
      BY <1>1
    <2> HIDE DEF name
    <2> QED  BY <2>1, <2>2, FS_Subset, FS_CardinalityType
  <1> HIDE DEF name
  <1>3. from1 \in Int /\ \A i \in from1 .. Len(path) : path[i] \in Byte
    BY <1>1, <1>2
  <1>4. FileName(path) = SubSeq(path, from1, Len(path))
    BY DEF FileName, name
  <1> HIDE DEF from1
  <1>5. SubSeq(path, from1, Len(path)) \in Seq(Byte)
    BY <1>1, <1>3, SubSeqProperties
  <1> QED  BY <1>4, <1>5 DEF Str

\* What is left of a URI behind n schemes, and how many it begins with.
Behind(uri, n) == SubSeq(uri, 7 * n + 1, Len(uri))
Schemes(uri, n) ==
  ~IsPrefix(Scheme, Behind(uri, n)) /\ \A k \in 0 .. n - 1 : IsPrefix(Scheme, Behind(uri, k))

\* What is left of a URI without its schemes is a string.
LEMMA StrippedTyped ==
  ASSUME NEW uri \in Str
  PROVE  Stripped(uri) \in Str
  <1> DEFINE m == Len(uri)
             n == CHOOSE n \in 0 .. m : Schemes(uri, n)
             J == {j \in 0 .. m : ~IsPrefix(Scheme, Behind(uri, j))}
  <1>1. m \in Nat /\ \A k \in 1 .. m : uri[k] \in Byte
    BY DEF Str
  <1>2. Stripped(uri) = Behind(uri, n)
    BY DEF Stripped, Behind, Schemes
  <1>3. m \in J
    <2>1. 7 * m + 1 > m
      BY <1>1
    <2>2. Behind(uri, m) = <<>>
      BY <1>1, <2>1, SubSeqEmpty DEF Behind
    <2>3. Len(Scheme) = 7 /\ Len(<<>>) = 0
      BY DEF Scheme
    <2> QED  BY <1>1, <2>2, <2>3 DEF IsPrefix
  <1>4. J \subseteq Nat /\ J \subseteq 0 .. m
    BY <1>1
  <1>5. PICK j \in J : \A k \in J : j <= k
    <2> HIDE DEF J
    <2> QED  BY <1>3, <1>4, Least
  <1>6. j \in 0 .. m /\ Schemes(uri, j)
    <2>1. \A k \in 0 .. j - 1 : k \in 0 .. m /\ ~(j <= k)
      BY <1>1, <1>4, <1>5
    <2> QED  BY <1>5, <2>1 DEF Schemes
  <1>7. n \in 0 .. m
    BY <1>6
  <1> HIDE DEF n, m
  <1>8. Behind(uri, n) \in Seq(Byte)
    <2>1. n \in Nat
      BY <1>1, <1>7
    <2>2. 7 * n + 1 \in Int /\ 7 * n + 1 >= 1
      BY <2>1
    <2> DEFINE from1 == 7 * n + 1
    <2> HIDE DEF from1
    <2>3. from1 \in Int /\ from1 >= 1
      BY <2>2 DEF from1
    <2>4. \A i \in from1 .. m : uri[i] \in Byte
      BY <1>1, <2>3
    <2>5. SubSeq(uri, from1, m) \in Seq(Byte)
      BY <1>1, <2>3, <2>4, SubSeqProperties
    <2> QED  BY <2>5 DEF Behind, from1, m
  <1> QED  BY <1>2, <1>8 DEF Str

\* The path of a URI is a string.
LEMMA FileOfTyped ==
  ASSUME NEW uri \in Str
  PROVE  UriPath(uri) \in Str /\ FileOf(uri) \in Str
  BY StrippedTyped, DecodedTyped, CharsTyped DEF UriPath, FileOf

\* The label of an entry that can be shown.
LEMMA LabelTyped ==
  ASSUME NEW s \in Seq(Payload), NEW kind,
         kind = "text" => (\E p \in Range(s) : p.mime \in Text) /\ ~Panics(ShownText(s))
  PROVE  LabelOf(kind, s).text \in Str /\ LabelOf(kind, s).more \in Nat
  <1> DEFINE listed == \E p \in Range(s) : p.mime = UriList
             uris == IF listed THEN Uris(Lossy(DataOf(UriList, s))) ELSE <<>>
  <1>1. LabelOf(kind, s) =
          IF kind \in {"file", "uri"} /\ uris # <<>> THEN FilesLabel(uris)
          ELSE IF kind = "text" THEN [text |-> TextLabel(ShownText(s)), more |-> 0]
          ELSE [text |-> <<>>, more |-> 0]
    BY DEF LabelOf
  <1>2. ASSUME uris # <<>>  PROVE FilesLabel(uris).text \in Str /\ FilesLabel(uris).more \in Nat
    <2> DEFINE data == Lossy(DataOf(UriList, s))
    <2>1. PICK q \in Range(s) : q.mime = UriList
      BY <1>2
    <2>2. Range(s) \subseteq Payload
      BY SeqRangeFinite
    <2>3. data \in Str
      BY <2>1, <2>2, DataOfFacts, PayloadFields, CharsTyped
    <2>4. uris = Uris(data)
      BY <2>1
    <2> HIDE DEF data, uris
    <2>5. Lines(data) # {}
      BY <1>2, <2>3, <2>4, UrisFacts
    <2>6. Lines(data) \subseteq DOMAIN data /\ IsFiniteSet(Lines(data)) /\ DOMAIN data \subseteq Nat
      BY <2>3, UrisFacts, StrFacts
    <2>7. PICK i \in Lines(data) : \A j \in Lines(data) : i <= j
      BY <2>5, <2>6, Least
    <2>8. uris[1] = LineOf(data, i) /\ Len(uris) = Cardinality(Lines(data))
      BY <2>3, <2>4, <2>7, UrisFacts
    <2>9. uris[1] \in Str
      BY <2>3, <2>6, <2>8, LineTyped
    <2>10. Len(uris) - 1 \in Nat
      <3>1. Cardinality(Lines(data)) \in Nat /\ Cardinality(Lines(data)) # 0
        BY <2>5, <2>6, FS_CardinalityType, FS_EmptySet
      <3> QED  BY <2>8, <3>1
    <2>11. FileName(FileOf(uris[1])) \in Str
      BY <2>9, FileOfTyped, FileNameTyped
    <2> QED  BY <2>10, <2>11 DEF FilesLabel
  <1> HIDE DEF uris
  <1>3. CASE kind \in {"file", "uri"} /\ uris # <<>>
    BY <1>1, <1>2, <1>3
  <1>4. CASE ~(kind \in {"file", "uri"} /\ uris # <<>>) /\ kind = "text"
    <2>1. LabelOf(kind, s) = [text |-> TextLabel(ShownText(s)), more |-> 0]
      BY <1>1, <1>4
    <2>2. TextLabel(ShownText(s)) \in Str
      BY <1>4, ShownTyped, TextLabelTyped
    <2> QED  BY <2>1, <2>2
  <1>5. CASE ~(kind \in {"file", "uri"} /\ uris # <<>>) /\ kind # "text"
    <2>1. LabelOf(kind, s) = [text |-> <<>>, more |-> 0] /\ <<>> \in Str
      BY <1>1, <1>5 DEF Str
    <2> QED  BY <2>1
  <1> QED  BY <1>3, <1>4, <1>5

-----------------------------------------------------------------------------
(***************************************************************************)
(* What is selected and what is stored.                                    *)
(***************************************************************************)

\* A MIME type with a string is a payload.
LEMMA WithTyped ==
  ASSUME NEW m \in Mime, NEW d \in Str
  PROVE  With(m, d) \in Payload
  BY DEF With, Payload, Str

\* The URI of a path is a string.
LEMMA UriTyped ==
  ASSUME NEW path \in Str
  PROVE  FileUriPath(path) \in Str /\ Uri(path) \in Str
  <1> DEFINE c == [i \in DOMAIN path |->
                      IF Safe(path[i]) THEN <<path[i]>>
                      ELSE <<37, Digit(path[i] \div 16), Digit(path[i] % 16)>>]
  <1>1. /\ DOMAIN path = 1 .. Len(path) /\ Len(path) \in Nat
        /\ \A i \in DOMAIN path : path[i] \in 0 .. 255
    BY StrFacts DEF Byte
  <1>2. \A n \in 0 .. 15 : Digit(n) \in Byte
    BY DEF Digit, Byte
  <1>3. \A b \in 0 .. 255 : b \div 16 \in 0 .. 15 /\ b % 16 \in 0 .. 15
    OBVIOUS
  <1>4. ASSUME NEW i \in DOMAIN path  PROVE c[i] \in Seq(Byte)
    <2>1. path[i] \in Byte /\ 37 \in Byte
      BY <1>1 DEF Byte
    <2>2. Digit(path[i] \div 16) \in Byte /\ Digit(path[i] % 16) \in Byte
      BY <1>1, <1>2, <1>3
    <2>3. <<path[i]>> \in Seq(Byte)
          /\ <<37, Digit(path[i] \div 16), Digit(path[i] % 16)>> \in Seq(Byte)
      BY <2>1, <2>2
    <2> QED  BY <2>3
  <1>5. c \in Seq(Seq(Byte))
    <2>1. DOMAIN c = 1 .. Len(path) /\ \A i \in 1 .. Len(path) : c[i] \in Seq(Byte)
      BY <1>1, <1>4
    <2>2. c = [i \in 1 .. Len(path) |-> c[i]]
      BY <1>1
    <2> HIDE DEF c
    <2> QED  BY <1>1, <2>1, <2>2
  <1>6. FileUriPath(path) \in Seq(Byte)
    <2> HIDE DEF c
    <2>1. FlattenSeq(c) \in Seq(Byte)
      BY <1>5, FlattenTyped
    <2> QED  BY <2>1 DEF FileUriPath, c
  <1>7. Scheme \in Seq(Byte) /\ <<13, 10>> \in Seq(Byte)
    BY DEF Scheme, Byte
  <1>8. Uri(path) \in Seq(Byte)
    BY <1>6, <1>7 DEF Uri
  <1> QED  BY <1>6, <1>8 DEF Str

\* An entry is what Capture makes of some offer.
Faithful(e) ==
  \E s \in Seq(Payload) :
    e.offered = Range(s) /\ e.payloads = Normalized(s) /\ e.hash = HashOf(s)

HeldInv ==
  /\ selection \in Seq(Payload)
  /\ \A e \in history : Faithful(e)
  /\ EchoKeepsHash
  /\ \A e, f \in history : e.hash = f.hash => e = f
  /\ told /\ selection # <<>> => \E e \in history : e.hash = HashOf(selection)

\* What is offered anew is not yet taken up; only a restore arms a hash.
LEMMA SelectHolds ==
  ASSUME HeldInv, NEW s \in Seq(Payload), NEW w, NEW p, NEW h, Select(s, w, p, h),
         w = "restore" => HashOf(s) = h
  PROVE  HeldInv'
  <1>1. selection' = s /\ from' = [who |-> w, paths |-> p, hash |-> h] /\ told' = FALSE
        /\ history' = history
    BY DEF Select
  <1>2. EchoKeepsHash'
    BY <1>1 DEF EchoKeepsHash
  <1> QED  BY <1>1, <1>2 DEF HeldInv

\* The invariant holds of a daemon that has not started, with no history.
LEMMA HeldInit == Init => HeldInv
  BY DEF Init, HeldInv, EchoKeepsHash

\* The invariant survives every copy, restore, capture, crash and start.
LEMMA HeldStep == HeldInv /\ [Next]_vars => HeldInv'
  <1> SUFFICES ASSUME HeldInv, [Next]_vars  PROVE HeldInv'
    OBVIOUS
  <1>1. Paths \subseteq Str /\ Picture \in Str /\ Offers \subseteq Seq(Payload)
    BY DataAssumption DEF Str
  <1>2. Special \subseteq Mime /\ Image \subseteq Mime /\ {UriList, PlainUtf8, Plain} \subseteq Mime
    BY DEF Mime, Text
  <1>3. CASE Copy
    BY <1>1, <1>3, SelectHolds DEF Copy
  <1>4. CASE CopyFiles
    <2>1. PICK mime \in Special, p \in Paths, q \in Paths :
            LET files == IF p = q THEN <<p>> ELSE <<p, q>>
                list == FlattenSeq([i \in DOMAIN files |-> Uri(files[i])])
            IN Select(<<With(mime, list), With(UriList, list), With(Plain, p)>>, "files", files, <<>>)
      BY <1>4 DEF CopyFiles
    <2> DEFINE files == IF p = q THEN <<p>> ELSE <<p, q>>
               uris == [i \in DOMAIN files |-> Uri(files[i])]
               list == FlattenSeq(uris)
               s == <<With(mime, list), With(UriList, list), With(Plain, p)>>
    <2>2. Select(s, "files", files, <<>>)
      BY <2>1
    <2>3. uris \in Seq(Seq(Byte))
      <3>1. CASE p = q
        <4>1. files = <<p>> /\ Uri(p) \in Seq(Byte)
          BY <1>1, <3>1, UriTyped DEF Str
        <4>2. uris = <<Uri(p)>>
          BY <4>1
        <4> HIDE DEF uris, files
        <4> QED  BY <4>1, <4>2
      <3>2. CASE p # q
        <4>1. files = <<p, q>> /\ Uri(p) \in Seq(Byte) /\ Uri(q) \in Seq(Byte)
          BY <1>1, <3>2, UriTyped DEF Str
        <4>2. uris = <<Uri(p), Uri(q)>>
          BY <4>1
        <4> HIDE DEF uris, files
        <4> QED  BY <4>1, <4>2
      <3> QED  BY <3>1, <3>2
    <2> HIDE DEF uris
    <2>4. list \in Str
      BY <2>3, FlattenTyped DEF Str
    <2> HIDE DEF list, files
    <2>5. /\ With(mime, list) \in Payload /\ With(UriList, list) \in Payload
          /\ With(Plain, p) \in Payload
      BY <1>1, <1>2, <2>4, WithTyped
    <2>6. s \in Seq(Payload)
      BY <2>5
    <2> HIDE DEF s
    <2> QED  BY <2>2, <2>6, SelectHolds
  <1>5. CASE OfferScreenshot
    <2>1. PICK mime \in Image, path \in Paths :
            Select(<<With(mime, Picture), With(PlainUtf8, Lossy(path)),
                     With(UriList, Uri(Lossy(path)))>>,
                   "screenshot", <<path>>, <<>>)
      BY <1>5 DEF OfferScreenshot
    <2>2. /\ With(mime, Picture) \in Payload /\ With(PlainUtf8, Lossy(path)) \in Payload
          /\ With(UriList, Uri(Lossy(path))) \in Payload
      BY <1>1, <1>2, WithTyped, UriTyped, CharsTyped
    <2>3. <<With(mime, Picture), With(PlainUtf8, Lossy(path)),
            With(UriList, Uri(Lossy(path)))>> \in Seq(Payload)
      BY <2>2
    <2> QED  BY <2>1, <2>3, SelectHolds
  <1>6. CASE Restore
    <2>1. PICK e \in history : Select(e.payloads, "restore", <<>>, e.hash)
      BY <1>6 DEF Restore
    <2>2. PICK s \in Seq(Payload) : e.payloads = Normalized(s) /\ e.hash = HashOf(s)
      BY DEF HeldInv, Faithful
    <2>3. e.payloads \in Seq(Payload)
      BY <2>2, NormalizedFacts
    <2>4. HashOf(e.payloads) = e.hash
      BY <2>2, NormalizedTwice DEF HashOf
    <2> QED  BY <2>1, <2>3, <2>4, SelectHolds
  <1>7. CASE Start
    BY <1>7 DEF Start, HeldInv, EchoKeepsHash
  <1>8. CASE Capture
    <2>1. selection' = selection /\ from' = from /\ told' = TRUE /\ selection # <<>>
      BY <1>8 DEF Capture, Ready
    <2>2. EchoKeepsHash'
      BY <2>1 DEF HeldInv, EchoKeepsHash
    <2>3. CASE \E e \in history : e.hash = HashOf(selection)
      <3>1. history' = history
        BY <1>8, <2>3 DEF Capture
      <3> QED  BY <2>1, <2>2, <2>3, <3>1 DEF HeldInv
    <2>4. CASE ~ \E e \in history : e.hash = HashOf(selection)
      <3>1. PICK keep \in SUBSET history : history' = keep \cup {Entry}
        BY <1>8, <2>4 DEF Capture
      <3>2. Entry.hash = HashOf(selection) /\ Faithful(Entry)
        BY DEF Entry, Payloads, Faithful, HeldInv
      <3>3. \A e \in history' : Faithful(e)
        BY <3>1, <3>2 DEF HeldInv
      <3>4. \A e, f \in history' : e.hash = f.hash => e = f
        BY <2>4, <3>1, <3>2 DEF HeldInv
      <3>5. \E e \in history' : e.hash = HashOf(selection)
        BY <3>1, <3>2
      <3> QED  BY <2>1, <2>2, <3>3, <3>4, <3>5 DEF HeldInv
    <2> QED  BY <2>3, <2>4
  <1>9. CASE Panic
    <2>1. from' = from /\ told' = FALSE /\ history' = history /\ selection' \in {<<>>, selection}
      BY <1>9 DEF Panic, Ready
    <2>2. <<>> \in Seq(Payload)
      OBVIOUS
    <2> QED  BY <2>1, <2>2 DEF HeldInv, EchoKeepsHash
  <1>10. CASE UNCHANGED vars
    BY <1>10 DEF vars, HeldInv, EchoKeepsHash
  <1> QED  BY <1>3, <1>4, <1>5, <1>6, <1>7, <1>8, <1>9, <1>10 DEF Next

\* What the history holds is faithful in every state.
LEMMA HeldInvariant == Spec => []HeldInv
  BY HeldInit, HeldStep, PTL DEF Spec

\* However a copy is ordered, and however often it offers something, it is one entry.
THEOREM ContentIsOneEntry == Spec => []OneEntryPerContent
  <1>1. HeldInv => OneEntryPerContent
    <2> SUFFICES ASSUME HeldInv, NEW e \in history, NEW f \in history, e.offered = f.offered
                 PROVE  e = f
      BY DEF OneEntryPerContent
    <2>1. PICK s \in Seq(Payload) : e.offered = Range(s) /\ e.hash = HashOf(s)
      BY DEF HeldInv, Faithful
    <2>2. PICK t \in Seq(Payload) : f.offered = Range(t) /\ f.hash = HashOf(t)
      BY DEF HeldInv, Faithful
    <2>3. Normalized(s) = Normalized(t)
      BY <2>1, <2>2, NormalizedOfRange
    <2> QED  BY <2>1, <2>2, <2>3 DEF HeldInv, HashOf
  <1> QED  BY <1>1, HeldInvariant, PTL

\* A restore is announced with the hash that the server has armed for it.
THEOREM EchoIsRecognized == Spec => []EchoKeepsHash
  <1>1. HeldInv => EchoKeepsHash
    BY DEF HeldInv
  <1> QED  BY <1>1, HeldInvariant, PTL

\* Of a copy that has been taken up the history has the hash, and the payloads too
\* if no NUL occurs in them and in those that are stored.
THEOREM CopiesAreKept == Spec => []CopiesKept
  <1>1. HeldInv => CopiesKept
    <2> SUFFICES ASSUME HeldInv, told, selection # <<>>
                 PROVE  \E e \in history :
                           /\ e.hash = HashOf(selection)
                           /\ NulFree(selection) /\ NulFree(e.payloads) => e.payloads = Payloads
      BY DEF CopiesKept, Done
    <2>1. PICK e \in history : e.hash = HashOf(selection)
      BY DEF HeldInv
    <2>2. PICK s \in Seq(Payload) : e.payloads = Normalized(s) /\ e.hash = HashOf(s)
      BY DEF HeldInv, Faithful
    <2>3. selection \in Seq(Payload)
      BY DEF HeldInv
    <2>4. ASSUME NulFree(selection), NulFree(e.payloads)  PROVE e.payloads = Payloads
      <3>1. /\ Normalized(s) \in Seq(Payload) /\ Range(Normalized(s)) = Once(s)
            /\ Normalized(selection) \in Seq(Payload)
            /\ Range(Normalized(selection)) = Once(selection)
        BY <2>3, NormalizedFacts
      <3>2. NulFree(Normalized(selection))
        BY <2>3, <2>4, <3>1, OnceFacts DEF NulFree
      <3>3. PayloadHash(Normalized(s)) = PayloadHash(Normalized(selection))
        BY <2>1, <2>2 DEF HashOf
      <3>4. Once(s) = Once(selection)
        BY <2>2, <2>4, <3>1, <3>2, <3>3, HashTells
      <3> QED  BY <2>2, <3>4 DEF Payloads, Normalized, Once
    <2> QED  BY <2>1, <2>4
  <1> QED  BY <1>1, HeldInvariant, PTL

\* What is selected by whom, and what has been stored of it, has its type.
LEMMA SelectTyped ==
  ASSUME TypeOK, NEW s \in Seq(Payload), NEW w \in Maker, NEW p \in Seq(Paths), NEW h,
         Select(s, w, p, h)
  PROVE  TypeOK'
  BY DEF Select, TypeOK

\* The entry of a copy that does not crash the daemon is well typed.
LEMMA EntryTyped ==
  ASSUME selection \in Seq(Payload), ~Fatal
  PROVE  EntryType(Entry)
  <1>1. Payloads \in Seq(Payload)
    BY NormalizedFacts DEF Payloads
  <1>2. Kind \in {"file", "image", "uri", "text", "other"}
    BY DEF Kind, KindOf
  <1>3. ASSUME Kind = "text"
        PROVE  (\E p \in Range(Payloads) : p.mime \in Text) /\ ~Panics(ShownText(Payloads))
    <2>1. Text \cap {p.mime : p \in Range(Payloads)} # {}
      BY <1>3 DEF Kind, KindOf
    <2> QED  BY <1>3, <2>1 DEF Fatal
  <1>4. LabelOf(Kind, Payloads).text \in Str /\ LabelOf(Kind, Payloads).more \in Nat
    BY <1>1, <1>3, LabelTyped
  <1>5. /\ Entry.kind = Kind /\ Entry.payloads = Payloads
        /\ Entry.label = LabelOf(Kind, Payloads)
    BY DEF Entry
  <1> QED  BY <1>1, <1>2, <1>4, <1>5 DEF EntryType, Str

\* Every step keeps the types.
LEMMA TypeStep == HeldInv /\ TypeOK /\ [Next]_vars => TypeOK'
  <1> SUFFICES ASSUME HeldInv, TypeOK, [Next]_vars  PROVE TypeOK'
    OBVIOUS
  <1>1. HeldInv'
    BY HeldStep
  <1>2. selection' \in Seq(Payload) /\ selection \in Seq(Payload)
    BY <1>1 DEF HeldInv
  <1>3. ASSUME NEW s, NEW w \in Maker, NEW p \in Seq(Paths), NEW h, Select(s, w, p, h)
        PROVE  TypeOK'
    <2>1. s \in Seq(Payload)
      BY <1>2, <1>3 DEF Select
    <2> QED  BY <1>3, <2>1, SelectTyped
  <1>4. <<>> \in Seq(Paths) /\ \A p \in Paths, q \in Paths : <<p>> \in Seq(Paths) /\ <<p, q>> \in Seq(Paths)
    OBVIOUS
  <1>5. {"app", "files", "restore", "screenshot"} \subseteq Maker
    BY DEF Maker
  <1>6. CASE Copy
    BY <1>3, <1>4, <1>5, <1>6 DEF Copy
  <1>7. CASE CopyFiles
    <2>1. PICK mime \in Special, p \in Paths, q \in Paths :
            LET files == IF p = q THEN <<p>> ELSE <<p, q>>
                list == FlattenSeq([i \in DOMAIN files |-> Uri(files[i])])
            IN Select(<<With(mime, list), With(UriList, list), With(Plain, p)>>, "files", files, <<>>)
      BY <1>7 DEF CopyFiles
    <2> DEFINE files == IF p = q THEN <<p>> ELSE <<p, q>>
               list == FlattenSeq([i \in DOMAIN files |-> Uri(files[i])])
    <2>2. Select(<<With(mime, list), With(UriList, list), With(Plain, p)>>, "files", files, <<>>)
      BY <2>1
    <2>3. files \in Seq(Paths)
      BY <1>4
    <2> HIDE DEF files
    <2> QED  BY <1>3, <1>5, <2>2, <2>3
  <1>8. CASE OfferScreenshot
    BY <1>3, <1>4, <1>5, <1>8 DEF OfferScreenshot
  <1>9. CASE Restore
    BY <1>3, <1>4, <1>5, <1>9 DEF Restore
  <1>10. CASE Start
    BY <1>2, <1>10 DEF Start, TypeOK
  <1>11. CASE Capture
    <2>1. ~Fatal /\ told' = TRUE /\ UNCHANGED <<selection, from, daemon>>
      BY <1>11 DEF Capture
    <2>2. \A e \in history' : e \in history \/ e = Entry
      BY <1>11 DEF Capture
    <2>3. EntryType(Entry)
      BY <1>2, <2>1, EntryTyped
    <2>4. \A e \in history' : EntryType(e)
      BY <2>2, <2>3 DEF TypeOK
    <2> QED  BY <2>1, <2>4 DEF TypeOK
  <1>12. CASE Panic
    BY <1>2, <1>12 DEF Panic, TypeOK
  <1>13. CASE UNCHANGED vars
    BY <1>13 DEF vars, TypeOK
  <1> QED  BY <1>6, <1>7, <1>8, <1>9, <1>10, <1>11, <1>12, <1>13 DEF Next

\* The state has its type: every label is a string, also that of a text that is cut, of
\* a URI list of any form, and of an escape that cannot be decoded.
THEOREM CaptureTypeCorrect == Spec => []TypeOK
  <1>1. Init => TypeOK
    BY DEF Init, TypeOK, Maker
  <1> QED  BY <1>1, TypeStep, HeldInvariant, PTL DEF Spec

-----------------------------------------------------------------------------
(***************************************************************************)
(* Paths are escaped and read back.                                        *)
(***************************************************************************)

\* Where each sequence begins in what is joined of them.
Placed(s, off) ==
  /\ off \in [0 .. Len(s) -> Nat] /\ off[0] = 0 /\ off[Len(s)] = Len(FlattenSeq(s))
  /\ \A k \in 0 .. Len(s) - 1 :
       /\ off[k + 1] = off[k] + Len(s[k + 1]) /\ off[k + 1] <= Len(FlattenSeq(s))
       /\ \A j \in 1 .. Len(s[k + 1]) : FlattenSeq(s)[off[k] + j] = s[k + 1][j]

\* A place within a part of a string is a place of the string.
LEMMA Within ==
  ASSUME NEW a \in Nat, NEW b \in Nat, NEW l \in Nat, NEW m \in Nat,
         b = a + l, b <= m, NEW j \in 1 .. l
  PROVE  a + j \in 1 .. m
  OBVIOUS

\* A string more has its place behind the others.
LEMMA PlacedAppend ==
  ASSUME NEW T, NEW s \in Seq(Seq(T)), NEW x \in Seq(T), NEW off, Placed(s, off)
  PROVE  \E new : Placed(Append(s, x), new)
  <1> DEFINE n == Len(s)
             t == Append(s, x)
             F == FlattenSeq(s)
             G == FlattenSeq(t)
             new == [k \in 0 .. n + 1 |-> IF k = n + 1 THEN off[n] + Len(x) ELSE off[k]]
  <1>1. /\ n \in Nat /\ Len(t) = n + 1 /\ t[n + 1] = x /\ \A k \in 1 .. n : t[k] = s[k]
        /\ \A k \in 1 .. n : s[k] \in Seq(T)
    OBVIOUS
  <1>2. F \in Seq(T) /\ G = F \o x
    BY FlattenAppend
  <1>3. /\ off \in [0 .. n -> Nat] /\ off[0] = 0 /\ off[n] = Len(F)
        /\ \A k \in 0 .. n - 1 :
             /\ off[k + 1] = off[k] + Len(s[k + 1]) /\ off[k + 1] <= Len(F)
             /\ \A j \in 1 .. Len(s[k + 1]) : F[off[k] + j] = s[k + 1][j]
    BY DEF Placed
  <1> HIDE DEF F, G, t, n
  <1>4. /\ Len(x) \in Nat /\ Len(F) \in Nat /\ Len(G) = Len(F) + Len(x)
        /\ \A i \in 1 .. Len(F) : G[i] = F[i]
        /\ \A i \in 1 .. Len(x) : G[Len(F) + i] = x[i]
    BY <1>2
  <1>5. /\ new \in [0 .. n + 1 -> Nat] /\ new[n + 1] = Len(F) + Len(x)
        /\ \A k \in 0 .. n : new[k] = off[k]
    <2>1. n \in 0 .. n /\ off[n] + Len(x) \in Nat /\ \A k \in 0 .. n : off[k] \in Nat
      <3>1. off[n] = Len(F) /\ Len(F) + Len(x) \in Nat
        BY <1>3, <1>4
      <3>2. off \in [0 .. n -> Nat]
        BY <1>3
      <3> QED  BY <1>1, <3>1, <3>2
    <2>2. \A k \in 0 .. n + 1 : k = n + 1 \/ k \in 0 .. n
      BY <1>1
    <2>3. new \in [0 .. n + 1 -> Nat]
      BY <2>1, <2>2
    <2>4. n + 1 \in 0 .. n + 1 /\ \A k \in 0 .. n : k # n + 1 /\ k \in 0 .. n + 1
      BY <1>1
    <2> QED  BY <1>3, <2>3, <2>4
  <1> HIDE DEF new
  <1>6. new[0] = 0 /\ new[n + 1] = Len(G)
    BY <1>1, <1>3, <1>4, <1>5
  <1>7. ASSUME NEW k \in 0 .. n
        PROVE  /\ new[k + 1] = new[k] + Len(t[k + 1]) /\ new[k + 1] <= Len(G)
               /\ \A j \in 1 .. Len(t[k + 1]) : G[new[k] + j] = t[k + 1][j]
    <2>1. CASE k = n
      <3>1. new[k] = Len(F) /\ new[k + 1] = Len(F) + Len(x) /\ t[k + 1] = x
        BY <1>1, <1>3, <1>5, <2>1
      <3> QED  BY <1>4, <3>1
    <2>2. CASE k # n
      <3>1. k \in 0 .. n - 1 /\ k \in 0 .. n /\ k + 1 \in 0 .. n /\ k + 1 \in 1 .. n
        BY <1>1, <2>2
      <3>2. /\ new[k] = off[k] /\ new[k + 1] = off[k + 1] /\ t[k + 1] = s[k + 1]
            /\ off[k] \in Nat /\ off[k + 1] \in Nat /\ s[k + 1] \in Seq(T)
        BY <1>1, <1>3, <1>5, <3>1
      <3>3. /\ off[k + 1] = off[k] + Len(s[k + 1]) /\ off[k + 1] <= Len(F)
            /\ \A j \in 1 .. Len(s[k + 1]) : F[off[k] + j] = s[k + 1][j]
        BY <1>3, <3>1
      <3>4. ASSUME NEW j \in 1 .. Len(s[k + 1])  PROVE G[off[k] + j] = s[k + 1][j]
        <4>1. Len(s[k + 1]) \in Nat
          BY <3>2
        <4>2. off[k] + j \in 1 .. Len(F)
          <5>1. off[k] \in Nat /\ off[k + 1] \in Nat /\ Len(F) \in Nat
            BY <1>4, <3>2
          <5>2. off[k + 1] = off[k] + Len(s[k + 1]) /\ off[k + 1] <= Len(F)
            BY <3>3
          <5> QED  BY <4>1, <5>1, <5>2, Within
        <4> QED  BY <1>4, <3>3, <4>2
      <3> QED  BY <1>4, <3>2, <3>3, <3>4
    <2> QED  BY <2>1, <2>2
  <1>8. Placed(t, new)
    <2>1. (n + 1) - 1 = n
      BY <1>1
    <2> QED  BY <1>1, <1>5, <1>6, <1>7, <2>1 DEF Placed, G
  <1> QED  BY <1>8 DEF t

\* Each string has its place in the join of all.
LEMMA Places ==
  ASSUME NEW T, NEW s \in Seq(Seq(T))
  PROVE  \E off : Placed(s, off)
  <1> DEFINE P == {t \in Seq(Seq(T)) : \E off : Placed(t, off)}
  <1>1. <<>> \in P
    <2> DEFINE off == [k \in 0 .. 0 |-> 0]
    <2>1. off \in [0 .. 0 -> Nat] /\ off[0] = 0 /\ Len(<<>>) = 0 /\ <<>> \in Seq(Seq(T))
      OBVIOUS
    <2> HIDE DEF off
    <2>2. Placed(<<>>, off)
      BY <2>1, FlattenNone DEF Placed
    <2> QED  BY <2>1, <2>2
  <1>2. ASSUME NEW t \in Seq(Seq(T)), NEW x \in Seq(T), t \in P
        PROVE  Append(t, x) \in P
    <2>1. PICK off : Placed(t, off)
      BY <1>2
    <2>2. \E new : Placed(Append(t, x), new)
      BY <2>1, PlacedAppend
    <2>3. Append(t, x) \in Seq(Seq(T))
      OBVIOUS
    <2> QED  BY <2>2, <2>3
  <1>3. Seq(Seq(T)) \subseteq P
    <2> HIDE DEF P
    <2> QED  BY <1>1, <1>2, SeqInduction
  <1> QED  BY <1>3

Code(b) == IF Safe(b) THEN <<b>> ELSE <<37, Digit(b \div 16), Digit(b % 16)>>

\* The two digits of a byte are its value, and none is a plus sign.
LEMMA DigitsValue ==
  /\ \A n \in 0 .. 15 : Digit(n) \in 48 .. 57 \cup 65 .. 70 /\ Value(Digit(n)) = n
                        /\ High(Digit(n)) = n
  /\ \A b \in 0 .. 255 : /\ b \div 16 \in 0 .. 15 /\ b % 16 \in 0 .. 15
                         /\ 16 * (b \div 16) + (b % 16) = b
  <1>1. \A n \in 0 .. 15 : Digit(n) \in 48 .. 57 \cup 65 .. 70 /\ Value(Digit(n)) = n
    BY DEF Digit, Value
  <1>2. \A n \in 0 .. 15 : High(Digit(n)) = n
    BY <1>1 DEF High
  <1> QED  BY <1>1, <1>2

\* The bytes of a URI behind its scheme: ASCII, no colon, no end of a line.
UriByte == 0 .. 127 \ {10, 13, 58}

\* The code of a byte is one byte or an escape.
LEMMA CodeTyped ==
  ASSUME NEW b \in 0 .. 255
  PROVE  /\ Code(b) \in Seq(Byte) /\ Len(Code(b)) \in {1, 3}
         /\ \A j \in 1 .. Len(Code(b)) : Code(b)[j] \in UriByte
  <1>1. CASE Safe(b)
    <2>1. Code(b) = <<b>> /\ b \in Byte /\ b \in UriByte
      BY <1>1 DEF Code, Byte, Safe, UriByte
    <2> QED  BY <2>1
  <1>2. CASE ~Safe(b)
    <2> DEFINE h == Digit(b \div 16)
               l == Digit(b % 16)
    <2>1. h \in 48 .. 57 \cup 65 .. 70 /\ l \in 48 .. 57 \cup 65 .. 70
      BY DigitsValue
    <2>2. Code(b) = <<37, h, l>>
      BY <1>2 DEF Code
    <2> HIDE DEF h, l
    <2>3. /\ 37 \in Byte /\ h \in Byte /\ l \in Byte
          /\ 37 \in UriByte /\ h \in UriByte /\ l \in UriByte
      BY <2>1 DEF Byte, UriByte
    <2>4. Len(Code(b)) = 3 /\ Code(b)[1] = 37 /\ Code(b)[2] = h /\ Code(b)[3] = l
      BY <2>2
    <2>5. Code(b) \in Seq(Byte)
      BY <2>2, <2>3
    <2>6. \A j \in 1 .. 3 : j = 1 \/ j = 2 \/ j = 3
      OBVIOUS
    <2> QED  BY <2>3, <2>4, <2>5, <2>6
  <1> QED  BY <1>1, <1>2

\* Where an escape ends, if the next code begins behind it.
LEMMA EscapeFits ==
  ASSUME NEW a \in Nat, NEW b, NEW m \in Nat, b = a + 3, b <= m
  PROVE  /\ a + 1 \in Nat /\ (a + 1) + 2 <= m /\ b + 1 = (a + 1) + 3
         /\ ~(a + 1 > m)
  OBVIOUS

\* What follows position k is what is read from where its code begins.
LEMMA DecodesCode ==
  ASSUME NEW path \in Str
  PROVE  FileUriPath(path) \in Str /\ PercentDecoded(FileUriPath(path)) = path
  <1> DEFINE n == Len(path)
             c == [i \in DOMAIN path |-> Code(path[i])]
             E == FlattenSeq(c)
  <1>1. n \in Nat /\ DOMAIN path = 1 .. n /\ \A i \in 1 .. n : path[i] \in 0 .. 255
    BY StrFacts DEF Byte
  <1>2. E = FileUriPath(path)
    BY DEF FileUriPath, Code
  <1>3. c \in Seq(Seq(Byte)) /\ Len(c) = n /\ \A i \in 1 .. n : c[i] = Code(path[i])
    <2>1. \A i \in 1 .. n : Code(path[i]) \in Seq(Byte)
      BY <1>1, CodeTyped
    <2>2. c = [i \in 1 .. n |-> Code(path[i])]
      BY <1>1
    <2> HIDE DEF n, c
    <2> QED  BY <1>1, <2>1, <2>2
  <1> HIDE DEF c
  <1>4. E \in Str /\ Len(E) \in Nat
    <2>1. E \in Seq(Byte)
      BY <1>3, FlattenTyped
    <2> HIDE DEF E
    <2> QED  BY <2>1 DEF Str
  <1>5. PICK off : Placed(c, off)
    BY <1>3, Places
  <1> HIDE DEF n, E
  <1>6. /\ \A k \in 0 .. n : off[k] \in Nat
        /\ off[0] = 0 /\ off[n] = Len(E)
        /\ \A k \in 0 .. n - 1 :
             /\ off[k + 1] = off[k] + Len(c[k + 1]) /\ off[k + 1] <= Len(E)
             /\ \A j \in 1 .. Len(c[k + 1]) : E[off[k] + j] = c[k + 1][j]
    BY <1>3, <1>5 DEF Placed, E
  <1>7. PICK f : Scan(Len(E), HexStep(E), HexPiece(E), f) /\ PercentDecoded(E) = f[1]
    BY <1>4, DecodedScan
  <1>8. \A i \in Nat : f[i] = IF i > Len(E) THEN <<>> ELSE HexPiece(E)[i] \o f[i + HexStep(E)[i]]
    BY <1>7 DEF Scan
  <1>9. f[off[n] + 1] = <<>>
    BY <1>4, <1>6, <1>8
  <1>10. ASSUME NEW k \in 0 .. n - 1
         PROVE  f[off[k] + 1] = <<path[k + 1]>> \o f[off[k + 1] + 1]
    <2> DEFINE b == path[k + 1]
               i == off[k] + 1
    <2>1. k + 1 \in 1 .. n /\ k \in 0 .. n /\ b \in 0 .. 255 /\ off[k] \in Nat
      BY <1>1, <1>6
    <2>2. /\ off[k + 1] = off[k] + Len(Code(b)) /\ off[k + 1] <= Len(E)
          /\ \A j \in 1 .. Len(Code(b)) : E[off[k] + j] = Code(b)[j]
      BY <1>3, <1>6, <2>1
    <2> HIDE DEF b
    <2>3. CASE Safe(b)
      <3>1. Code(b) = <<b>> /\ b # 37
        BY <2>3 DEF Code, Safe
      <3>2. Len(Code(b)) = 1 /\ Code(b)[1] = b
        BY <3>1
      <3>3. off[k + 1] = i /\ E[i] = b /\ i \in Nat /\ ~(i > Len(E))
        BY <1>4, <2>1, <2>2, <3>2
      <3> HIDE DEF i
      <3>4. ~Hex(E, i)
        BY <3>1, <3>3 DEF Hex, Escape
      <3>5. HexPiece(E)[i] = <<b>> /\ HexStep(E)[i] = 1
        BY <3>3, <3>4 DEF HexPiece, HexStep
      <3>6. f[i] = <<b>> \o f[i + 1]
        BY <1>8, <3>3, <3>5, Zenon
      <3> QED  BY <3>3, <3>6 DEF i, b
    <2>4. CASE ~Safe(b)
      <3> DEFINE h == b \div 16
                 l == b % 16
      <3>1. h \in 0 .. 15 /\ l \in 0 .. 15 /\ 16 * h + l = b
        BY <2>1, DigitsValue
      <3> HIDE DEF h, l
      <3>2. Code(b) = <<37, Digit(h), Digit(l)>>
        BY <2>4 DEF Code, h, l
      <3>3. Len(Code(b)) = 3 /\ Code(b)[1] = 37 /\ Code(b)[2] = Digit(h) /\ Code(b)[3] = Digit(l)
        BY <3>2
      <3>4. /\ E[off[k] + 1] = 37 /\ E[off[k] + 2] = Digit(h) /\ E[off[k] + 3] = Digit(l)
            /\ off[k + 1] = off[k] + 3 /\ off[k + 1] <= Len(E)
        BY <2>2, <3>3
      <3>5. /\ E[i] = 37 /\ E[i + 1] = Digit(h) /\ E[i + 2] = Digit(l) /\ i \in Nat
            /\ i + 2 <= Len(E) /\ off[k + 1] + 1 = i + 3 /\ ~(i > Len(E))
        <4>1. i + 1 = off[k] + 2 /\ i + 2 = off[k] + 3
          BY <2>1
        <4>2. E[i] = 37 /\ E[i + 1] = Digit(h) /\ E[i + 2] = Digit(l)
          BY <3>4, <4>1
        <4>3. /\ off[k] \in Nat /\ Len(E) \in Nat
              /\ off[k + 1] = off[k] + 3 /\ off[k + 1] <= Len(E)
          BY <1>4, <2>1, <3>4
        <4>4. /\ i \in Nat /\ i + 2 <= Len(E) /\ off[k + 1] + 1 = i + 3 /\ ~(i > Len(E))
          BY <4>3, EscapeFits
        <4> QED  BY <4>2, <4>4
      <3> HIDE DEF i
      <3>6. High(E[i + 1]) = h /\ Value(E[i + 2]) = l
        BY <3>1, <3>5, DigitsValue
      <3>7. Hex(E, i)
        BY <3>1, <3>5, <3>6 DEF Hex, Escape
      <3>8. HexPiece(E)[i] = <<16 * h + l>> /\ HexStep(E)[i] = 3
        BY <3>5, <3>6, <3>7 DEF HexPiece, HexStep
      <3>9. f[i] = <<16 * h + l>> \o f[i + 3]
        BY <1>8, <3>5, <3>8, Zenon
      <3> QED  BY <3>1, <3>5, <3>9 DEF i, b
    <2> QED  BY <2>3, <2>4
  <1> DEFINE Reads(m) == f[off[n - m] + 1] = SubSeq(path, n - m + 1, n)
             N == {m \in Nat : m <= n => Reads(m)}
  <1>11. Reads(0)
    <2>1. SubSeq(path, n + 1, n) = <<>>
      BY <1>1, SubSeqEmpty
    <2>2. n - 0 = n
      BY <1>1
    <2> QED  BY <1>9, <2>1, <2>2
  <1>12. ASSUME NEW m \in Nat, m + 1 <= n, Reads(m)
         PROVE  Reads(m + 1)
    <2> DEFINE k == n - (m + 1)
    <2>1. k \in 0 .. n - 1 /\ k + 1 = n - m /\ k + 1 \in 1 .. n /\ n \in k + 1 .. n
      BY <1>1, <1>12
    <2>2. f[off[k + 1] + 1] = SubSeq(path, k + 2, n)
      <3>1. n - m + 1 = k + 2
        BY <1>1, <2>1
      <3> QED  BY <1>12, <2>1, <3>1
    <2> HIDE DEF k
    <2>3. f[off[k] + 1] = <<path[k + 1]>> \o f[off[k + 1] + 1]
      BY <1>10, <2>1
    <2>4. SubSeq(path, k + 1, n) = <<path[k + 1]>> \o SubSeq(path, (k + 1) + 1, n)
      BY <2>1, SubSeqRecursiveFirst DEF Str, n
    <2>5. (k + 1) + 1 = k + 2
      BY <2>1
    <2>6. f[off[k] + 1] = SubSeq(path, k + 1, n)
      BY <2>2, <2>3, <2>4, <2>5
    <2> QED  BY <2>6 DEF k
  <1>13. N = Nat
    <2> HIDE DEF Reads
    <2>1. 0 \in N /\ N \subseteq Nat
      BY <1>11
    <2>2. \A m \in N : m + 1 \in N
      BY <1>1, <1>12
    <2> HIDE DEF N
    <2> QED  BY <2>1, <2>2, Induction
  <1>14. Reads(n)
    <2> HIDE DEF Reads
    <2> QED  BY <1>1, <1>13
  <1>15. f[1] = path
    <2>1. n - n = 0 /\ off[0] + 1 = 1 /\ 0 + 1 = 1
      BY <1>1, <1>6
    <2>2. f[1] = SubSeq(path, 1, n)
      BY <1>14, <2>1
    <2> QED  BY <2>2, SubSeqFull DEF Str, n
  <1> QED  BY <1>2, <1>4, <1>7, <1>15

\* A line: no line break in it, and it does not begin like a comment.
IsLine(x) == x # <<>> /\ x[1] # 35 /\ \A j \in 1 .. Len(x) : x[j] \notin {10, 13}

\* The line that begins at i, where x and \r\n stand.
LEMMA LineFound ==
  ASSUME NEW data \in Str, NEW x \in Str, IsLine(x), NEW i \in Nat \ {0},
         i + Len(x) + 1 <= Len(data),
         \A j \in 1 .. Len(x) : data[(i - 1) + j] = x[j],
         data[i + Len(x)] = 13, data[i + Len(x) + 1] = 10
  PROVE  LineOf(data, i) = x
  <1> DEFINE m == Len(x)
             j == EndOf(data, i)
  <1>1. /\ m \in Nat /\ Len(data) \in Nat /\ DOMAIN data = 1 .. Len(data) /\ m # 0
        /\ \A k \in 1 .. Len(data) : data[k] \in Byte
    BY DEF Str, IsLine
  <1> HIDE DEF m
  <1>2. i \in DOMAIN data /\ i \in 1 .. Len(data)
    BY <1>1 DEF m
  <1>3. \A k \in i .. i + m : data[k] # 10
    <2> SUFFICES ASSUME NEW k \in i .. i + m  PROVE data[k] # 10
      OBVIOUS
    <2>1. CASE k = i + m
      BY <2>1 DEF m
    <2>2. CASE k # i + m
      <3>1. k - (i - 1) \in 1 .. m /\ (i - 1) + (k - (i - 1)) = k
        BY <1>1, <2>2
      <3>2. data[k] = x[k - (i - 1)]
        BY <3>1 DEF m
      <3> QED  BY <3>1, <3>2 DEF m, IsLine
    <2> QED  BY <2>1, <2>2
  <1>4. /\ j \in i .. Len(data) + 1 /\ (j <= Len(data) => data[j] = 10)
        /\ \A k \in i .. j - 1 : data[k] # 10
    BY <1>2, EndFacts
  <1> HIDE DEF j
  <1>5. j = i + m + 1
    <2>1. i + m + 1 <= Len(data) /\ data[i + m + 1] = 10
      BY DEF m
    <2>2. ~(j <= i + m)
      BY <1>1, <1>3, <1>4, <2>1
    <2>3. ~(j > i + m + 1)
      BY <1>1, <1>4, <2>1
    <2> QED  BY <1>1, <1>4, <2>2, <2>3
  <1>6. j \in i + 1 .. Len(data) /\ data[j - 1] = 13 /\ j - 2 = (i - 1) + m
    <2>1. j - 1 = i + m
      BY <1>1, <1>5
    <2> QED  BY <1>1, <1>5, <2>1 DEF m
  <1>7. LineOf(data, i) = SubSeq(data, i, (i - 1) + m)
    BY <1>6 DEF LineOf, j
  <1>8. /\ SubSeq(data, i, (i - 1) + m) \in Seq(Byte)
        /\ Len(SubSeq(data, i, (i - 1) + m)) = m
        /\ \A k \in 1 .. m : SubSeq(data, i, (i - 1) + m)[k] = data[i + k - 1]
    <2> DEFINE z == (i - 1) + m
    <2>1. /\ i \in Int /\ z \in Int /\ i <= z /\ z - i + 1 = m
          /\ \A k \in i .. z : data[k] \in Byte
      BY <1>1, <1>5, <1>6
    <2> HIDE DEF z
    <2>2. /\ SubSeq(data, i, z) \in Seq(Byte) /\ Len(SubSeq(data, i, z)) = z - i + 1
          /\ \A k \in 1 .. z - i + 1 : SubSeq(data, i, z)[k] = data[i + k - 1]
      BY <2>1, SubSeqProperties
    <2> QED  BY <2>1, <2>2 DEF z
  <1>9. \A k \in 1 .. m : data[i + k - 1] = x[k]
    <2> SUFFICES ASSUME NEW k \in 1 .. m  PROVE data[i + k - 1] = x[k]
      OBVIOUS
    <2>1. i + k - 1 = (i - 1) + k
      BY <1>1
    <2> QED  BY <2>1 DEF m
  <1> QED  BY <1>7, <1>8, <1>9, SeqEqual DEF m, Str

Break == <<13, 10>>

\* A string with the end of a line.
LEMMA BreakFacts ==
  ASSUME NEW x \in Seq(Byte)
  PROVE  /\ x \o Break \in Seq(Byte) /\ Len(x) \in Nat /\ Len(x \o Break) = Len(x) + 2
         /\ \A j \in 1 .. Len(x) : (x \o Break)[j] = x[j]
         /\ (x \o Break)[Len(x) + 1] = 13 /\ (x \o Break)[Len(x) + 2] = 10
  <1> DEFINE m == Len(x)
             u == x \o Break
  <1>1. Break \in Seq(Byte) /\ Len(Break) = 2 /\ Break[1] = 13 /\ Break[2] = 10 /\ m \in Nat
    BY DEF Break, Byte
  <1>2. /\ u \in Seq(Byte) /\ Len(u) = m + 2
        /\ \A i \in 1 .. m + 2 : u[i] = IF i <= m THEN x[i] ELSE Break[i - m]
    <2> HIDE DEF u
    <2>1. /\ u \in Seq(Byte) /\ Len(u) = m + Len(Break)
          /\ \A i \in 1 .. m + Len(Break) : u[i] = IF i <= m THEN x[i] ELSE Break[i - m]
      BY <1>1, ConcatProperties, Zenon DEF u
    <2> HIDE DEF m
    <2> QED  BY <1>1, <2>1
  <1> HIDE DEF u, m
  <1>3. \A j \in 1 .. m : j \in 1 .. m + 2 /\ j <= m
    BY <1>1
  <1>4. /\ m + 1 \in 1 .. m + 2 /\ m + 2 \in 1 .. m + 2 /\ (m + 1) - m = 1 /\ (m + 2) - m = 2
        /\ ~(m + 1 <= m) /\ ~(m + 2 <= m)
    BY <1>1
  <1>5. u[m + 1] = Break[1] /\ u[m + 2] = Break[2]
    BY <1>2, <1>4
  <1> QED  BY <1>1, <1>2, <1>3, <1>5 DEF u, m

\* A list of one line.
LEMMA OneUri ==
  ASSUME NEW x \in Str, IsLine(x)
  PROVE  Len(Uris(x \o Break)) = 1 /\ Uris(x \o Break)[1] = x
  <1> DEFINE data == x \o Break
             m == Len(x)
  <1>1. /\ m \in Nat /\ m # 0 /\ data \in Str /\ Len(data) = m + 2
        /\ DOMAIN data = 1 .. m + 2
        /\ \A j \in 1 .. m : data[j] = x[j]
        /\ data[m + 1] = 13 /\ data[m + 2] = 10
    <2>1. x \in Seq(Byte) /\ m # 0
      BY DEF Str, IsLine
    <2>2. DOMAIN data = 1 .. Len(data)
      BY <2>1, BreakFacts
    <2> QED  BY <2>1, <2>2, BreakFacts DEF Str
  <1> HIDE DEF data, m
  <1>2. LineOf(data, 1) = x
    <2>1. \A j \in 1 .. m : (1 - 1) + j = j
      BY <1>1
    <2>2. 1 + m + 1 = m + 2 /\ 1 + m = m + 1
      BY <1>1
    <2>3. 1 + Len(x) + 1 <= Len(data) /\ data[1 + Len(x)] = 13 /\ data[1 + Len(x) + 1] = 10
      BY <1>1, <2>2 DEF m
    <2>4. \A j \in 1 .. Len(x) : data[(1 - 1) + j] = x[j]
      BY <1>1, <2>1 DEF m
    <2>5. 1 \in Nat \ {0}
      OBVIOUS
    <2> QED  BY <1>1, <2>3, <2>4, <2>5, LineFound
  <1>3. Lines(data) = {1}
    <2>1. 1 \in Lines(data)
      <3>1. 1 \in DOMAIN data /\ data[1] = x[1]
        BY <1>1
      <3> QED  BY <1>2, <3>1 DEF Lines, IsLine
    <2>2. ASSUME NEW i \in Lines(data), i # 1  PROVE FALSE
      <3>1. i \in 1 .. m + 2 /\ data[i - 1] = 10
        BY <1>1, <2>2 DEF Lines
      <3>2. i - 1 \in 1 .. m \/ i - 1 = m + 1
        BY <1>1, <2>2, <3>1
      <3> QED  BY <1>1, <3>1, <3>2 DEF IsLine, m
    <2> QED  BY <2>1, <2>2
  <1>4. Len(Uris(data)) = 1
    BY <1>1, <1>3, UrisFacts, FS_Singleton
  <1>5. Uris(data)[1] = x
    <2>1. 1 \in Lines(data) /\ \A j \in Lines(data) : 1 <= j
      BY <1>3
    <2> QED  BY <1>1, <1>2, <2>1, UrisFacts
  <1> QED  BY <1>4, <1>5 DEF data

\* A list of two.
LEMMA TwoUris ==
  ASSUME NEW x \in Str, IsLine(x), NEW y \in Str, IsLine(y)
  PROVE  /\ Len(Uris((x \o Break) \o (y \o Break))) = 2
         /\ Uris((x \o Break) \o (y \o Break))[1] = x
  <1> DEFINE data == (x \o Break) \o (y \o Break)
             m == Len(x)
             n == Len(y)
  <1>1. /\ m \in Nat /\ m # 0 /\ n \in Nat /\ n # 0
        /\ data \in Str /\ Len(data) = m + n + 4 /\ DOMAIN data = 1 .. m + n + 4
        /\ \A j \in 1 .. m : data[j] = x[j]
        /\ data[m + 1] = 13 /\ data[m + 2] = 10
        /\ \A j \in 1 .. n : data[m + 2 + j] = y[j]
        /\ data[m + n + 3] = 13 /\ data[m + n + 4] = 10
    <2> DEFINE u == x \o Break
               v == y \o Break
    <2>1. x \in Seq(Byte) /\ x # <<>> /\ y \in Seq(Byte) /\ y # <<>>
      BY DEF Str, IsLine
    <2>3. /\ u \in Seq(Byte) /\ Len(u) = m + 2 /\ u[m + 1] = 13 /\ u[m + 2] = 10
          /\ \A j \in 1 .. m : u[j] = x[j]
      BY <2>1, BreakFacts
    <2>4. /\ v \in Seq(Byte) /\ Len(v) = n + 2 /\ v[n + 1] = 13 /\ v[n + 2] = 10
          /\ \A j \in 1 .. n : v[j] = y[j]
      BY <2>1, BreakFacts
    <2>5. m \in Nat /\ m # 0 /\ n \in Nat /\ n # 0
      BY <2>1
    <2> HIDE DEF u, v, m, n
    <2>6. /\ u \o v \in Seq(Byte) /\ Len(u \o v) = m + n + 4 /\ DOMAIN (u \o v) = 1 .. m + n + 4
          /\ \A j \in 1 .. m + 2 : (u \o v)[j] = u[j]
          /\ \A j \in 1 .. n + 2 : (u \o v)[m + 2 + j] = v[j]
      <3>1. /\ u \o v \in Seq(Byte) /\ Len(u \o v) = (m + 2) + (n + 2)
            /\ \A j \in 1 .. (m + 2) + (n + 2) :
                 (u \o v)[j] = IF j <= m + 2 THEN u[j] ELSE v[j - (m + 2)]
        <4>1. Len(u) = m + 2 /\ Len(v) = n + 2
          BY <2>3, <2>4
        <4>2. /\ u \o v \in Seq(Byte) /\ Len(u \o v) = Len(u) + Len(v)
              /\ \A j \in 1 .. Len(u) + Len(v) :
                   (u \o v)[j] = IF j <= Len(u) THEN u[j] ELSE v[j - Len(u)]
          <5>1. u \in Seq(Byte) /\ v \in Seq(Byte)
            BY <2>3, <2>4
          <5> QED  BY <5>1, ConcatProperties
        <4> QED  BY <4>1, <4>2, Zenon
      <3>2. (m + 2) + (n + 2) = m + n + 4
        BY <2>5
      <3>3. DOMAIN (u \o v) = 1 .. m + n + 4
        BY <3>1, <3>2
      <3>4. \A j \in 1 .. m + 2 : j \in 1 .. m + n + 4 /\ j <= m + 2
        BY <2>5
      <3>5. \A j \in 1 .. n + 2 : /\ m + 2 + j \in 1 .. m + n + 4
                                 /\ ~(m + 2 + j <= m + 2) /\ (m + 2 + j) - (m + 2) = j
        BY <2>5
      <3> QED  BY <3>1, <3>2, <3>3, <3>4, <3>5
    <2>7. data = u \o v
      BY DEF u, v
    <2> HIDE DEF data
    <2>8. \A j \in 1 .. m : j \in 1 .. m + 2
      BY <2>5
    <2>9. m + 1 \in 1 .. m + 2 /\ m + 2 \in 1 .. m + 2
      BY <2>5
    <2>10. \A j \in 1 .. n : j \in 1 .. n + 2
      BY <2>5
    <2>11. /\ n + 1 \in 1 .. n + 2 /\ n + 2 \in 1 .. n + 2
           /\ m + 2 + (n + 1) = m + n + 3 /\ m + 2 + (n + 2) = m + n + 4
      BY <2>5
    <2>12. data[m + n + 3] = v[n + 1] /\ data[m + n + 4] = v[n + 2]
      BY <2>6, <2>7, <2>11
    <2> QED  BY <2>3, <2>4, <2>5, <2>6, <2>7, <2>8, <2>9, <2>10, <2>12 DEF Str
  <1> HIDE DEF data, m, n
  <1>2. LineOf(data, 1) = x
    <2>1. 1 + m + 1 = m + 2 /\ 1 + m = m + 1 /\ \A j \in 1 .. m : (1 - 1) + j = j
      BY <1>1
    <2>2. 1 + m + 1 <= Len(data) /\ data[1 + m] = 13 /\ data[1 + m + 1] = 10
      BY <1>1, <2>1
    <2>3. \A j \in 1 .. m : data[(1 - 1) + j] = x[j]
      BY <1>1, <2>1
    <2>4. 1 \in Nat \ {0}
      OBVIOUS
    <2> QED  BY <1>1, <2>2, <2>3, <2>4, LineFound DEF m
  <1>3. LineOf(data, m + 3) = y
    <2>1. /\ (m + 3) + n = m + n + 3 /\ (m + 3) + n + 1 = m + n + 4 /\ m + 3 \in Nat \ {0}
          /\ \A j \in 1 .. n : ((m + 3) - 1) + j = m + 2 + j
      BY <1>1
    <2>2. /\ (m + 3) + n + 1 <= Len(data)
          /\ data[(m + 3) + n] = 13 /\ data[(m + 3) + n + 1] = 10
      BY <1>1, <2>1
    <2>3. \A j \in 1 .. n : data[((m + 3) - 1) + j] = y[j]
      BY <1>1, <2>1
    <2> QED  BY <1>1, <2>1, <2>2, <2>3, LineFound DEF n
  <1>4. Lines(data) = {1, m + 3}
    <2>1. 1 \in Lines(data)
      <3>1. 1 \in DOMAIN data /\ data[1] = x[1]
        BY <1>1
      <3> QED  BY <1>2, <3>1 DEF Lines, IsLine
    <2>2. m + 3 \in Lines(data)
      <3>1. m + 3 \in DOMAIN data /\ (m + 3) - 1 = m + 2 /\ m + 2 + 1 = m + 3 /\ 1 \in 1 .. n
        BY <1>1
      <3>2. data[m + 3] = y[1]
        BY <1>1, <3>1
      <3> QED  BY <1>1, <1>3, <3>1, <3>2 DEF Lines, IsLine
    <2>3. ASSUME NEW i \in Lines(data), i # 1  PROVE i = m + 3
      <3>1. i \in 1 .. m + n + 4 /\ data[i - 1] = 10
        BY <1>1, <2>3 DEF Lines
      <3> DEFINE j == (i - 1) - (m + 2)
      <3>2. i - 1 \in 1 .. m \/ i - 1 = m + 1 \/ i = m + 3 \/ j \in 1 .. n \/ i - 1 = m + n + 3
        BY <1>1, <2>3, <3>1
      <3>3. i - 1 \notin 1 .. m
        <4>1. ASSUME i - 1 \in 1 .. m  PROVE x[i - 1] = 10
          BY <1>1, <3>1, <4>1
        <4>2. \A h \in 1 .. m : x[h] # 10
          BY DEF IsLine, m
        <4> QED  BY <4>1, <4>2
      <3>4. i - 1 # m + 1 /\ i - 1 # m + n + 3
        BY <1>1, <3>1
      <3>5. j \notin 1 .. n
        <4>1. m + 2 + j = i - 1
          BY <1>1, <3>1
        <4> HIDE DEF j
        <4>2. ASSUME j \in 1 .. n  PROVE y[j] = 10
          <5>1. data[m + 2 + j] = y[j]
            BY <1>1, <4>2
          <5> QED  BY <3>1, <4>1, <5>1
        <4>3. \A h \in 1 .. n : y[h] # 10
          BY DEF IsLine, n
        <4> QED  BY <4>2, <4>3
      <3> QED  BY <3>2, <3>3, <3>4, <3>5
    <2> QED  BY <2>1, <2>2, <2>3
  <1>5. Len(Uris(data)) = 2
    <2>1. m + 3 # 1
      BY <1>1
    <2>2. IsFiniteSet({1}) /\ Cardinality({1}) = 1 /\ {1} \cup {m + 3} = {1, m + 3}
      BY FS_Singleton
    <2>3. Cardinality({1} \cup {m + 3}) = 1 + 1
      BY <2>1, <2>2, FS_AddElement
    <2>4. Cardinality(Lines(data)) = 2
      BY <1>4, <2>2, <2>3
    <2> QED  BY <1>1, <2>4, UrisFacts
  <1>6. Uris(data)[1] = x
    <2>1. 1 \in Lines(data) /\ \A j \in Lines(data) : 1 <= j
      BY <1>1, <1>4
    <2> QED  BY <1>1, <1>2, <2>1, UrisFacts
  <1> QED  BY <1>5, <1>6 DEF data

\* The URI of a path is a line, and names the path.
UriLine(path) == Scheme \o FileUriPath(path)

\* An escaped path is ASCII, and one line.
LEMMA EscapedPlain ==
  ASSUME NEW path \in Str
  PROVE  FileUriPath(path) \in Seq(UriByte)
  <1> DEFINE c == [i \in DOMAIN path |-> Code(path[i])]
  <1>1. /\ Len(path) \in Nat /\ DOMAIN path = 1 .. Len(path)
        /\ \A i \in DOMAIN path : path[i] \in 0 .. 255
    BY StrFacts DEF Byte
  <1>2. ASSUME NEW b \in 0 .. 255  PROVE Code(b) \in Seq(UriByte)
    <2> DEFINE x == Code(b)
    <2>1. x \in Seq(Byte) /\ \A j \in 1 .. Len(x) : x[j] \in UriByte
      BY CodeTyped
    <2> HIDE DEF x
    <2>2. x \in Seq(UriByte)
      BY <2>1
    <2> QED  BY <2>2 DEF x
  <1>3. c \in Seq(Seq(UriByte))
    <2>1. \A i \in 1 .. Len(path) : Code(path[i]) \in Seq(UriByte)
      BY <1>1, <1>2
    <2>2. c = [i \in 1 .. Len(path) |-> Code(path[i])]
      BY <1>1
    <2> HIDE DEF c
    <2> QED  BY <1>1, <2>1, <2>2
  <1>4. FileUriPath(path) = FlattenSeq(c)
    BY DEF FileUriPath, Code
  <1> HIDE DEF c
  <1> QED  BY <1>3, <1>4, FlattenTyped

\* A string all of whose bytes are ASCII.
IsAscii(x) == \A j \in 1 .. Len(x) : x[j] < 128

\* The URI of a path is one line of ASCII, and is read back as the path.
LEMMA UriLineFacts ==
  ASSUME NEW path \in Str
  PROVE  /\ UriLine(path) \in Str /\ IsLine(UriLine(path)) /\ UriPath(UriLine(path)) = path
         /\ IsAscii(UriLine(path))
         /\ Uri(path) = UriLine(path) \o Break
  <1> DEFINE t == FileUriPath(path)
             u == Scheme \o t
  <1>1. /\ t \in Seq(Byte) /\ Len(t) \in Nat /\ PercentDecoded(t) = path
        /\ \A j \in 1 .. Len(t) : t[j] \in UriByte
    BY DecodesCode, EscapedPlain DEF Str
  <1>a. \A x \in UriByte : x < 128 /\ x \notin {10, 13, 58}
    BY DEF UriByte
  <1>2. Scheme \in Seq(Byte) /\ Len(Scheme) = 7
    BY DEF Scheme, Byte
  <1>3. /\ Scheme[1] = 102 /\ Scheme[5] = 58
        /\ \A j \in 1 .. 7 : Scheme[j] \notin {10, 13} /\ Scheme[j] < 128
    <2>1. \A j \in 1 .. 7 : j \in {1, 2, 3, 4, 5, 6, 7}
      OBVIOUS
    <2>2. /\ Scheme[1] = 102 /\ Scheme[2] = 105 /\ Scheme[3] = 108 /\ Scheme[4] = 101
          /\ Scheme[5] = 58 /\ Scheme[6] = 47 /\ Scheme[7] = 47
      BY DEF Scheme
    <2> QED  BY <2>1, <2>2
  <1> HIDE DEF t
  <1>4. /\ u \in Seq(Byte) /\ Len(u) = 7 + Len(t)
        /\ \A i \in 1 .. 7 + Len(t) : u[i] = IF i <= 7 THEN Scheme[i] ELSE t[i - 7]
    <2> HIDE DEF u
    <2>1. /\ u \in Seq(Byte) /\ Len(u) = Len(Scheme) + Len(t)
          /\ \A i \in 1 .. Len(Scheme) + Len(t) :
               u[i] = IF i <= Len(Scheme) THEN Scheme[i] ELSE t[i - Len(Scheme)]
      BY <1>1, <1>2, ConcatProperties, Zenon DEF u
    <2> QED  BY <1>2, <2>1
  <1> HIDE DEF u
  <1>5. IsLine(u) /\ IsAscii(u)
    <2>1. u # <<>>
      BY <1>1, <1>4
    <2>2. 1 \in 1 .. 7 + Len(t) /\ 1 <= 7
      BY <1>1
    <2>3. u[1] = 102
      BY <1>3, <1>4, <2>2
    <2>4. ASSUME NEW j \in 1 .. Len(u)  PROVE u[j] \notin {10, 13} /\ u[j] < 128
      <3>1. j \in 1 .. 7 + Len(t)
        BY <1>4
      <3>2. CASE j <= 7
        <4>1. u[j] = Scheme[j] /\ j \in 1 .. 7
          BY <1>1, <1>4, <3>1, <3>2
        <4> QED  BY <1>3, <4>1
      <3>3. CASE ~(j <= 7)
        <4>1. u[j] = t[j - 7] /\ j - 7 \in 1 .. Len(t)
          BY <1>1, <1>4, <3>1, <3>3
        <4> QED  BY <1>1, <1>a, <4>1
      <3> QED  BY <3>2, <3>3
    <2> QED  BY <2>1, <2>3, <2>4 DEF IsLine, IsAscii
  <1>6. IsPrefix(Scheme, u)
    <2>1. Len(Scheme) <= Len(u)
      BY <1>1, <1>2, <1>4
    <2>2. 1 \in 1 .. Len(Scheme) /\ Len(Scheme) \in 1 .. Len(Scheme)
      BY <1>2
    <2>3. SubSeq(u, 1, Len(Scheme)) = SubSeq(Scheme, 1, Len(Scheme))
      BY <1>1, <1>2, <2>2, SubSeqOfConcat1, Zenon DEF u
    <2> QED  BY <2>1, <2>3 DEF IsPrefix
  <1>7. SubSeq(u, 8, Len(u)) = t
    <2> DEFINE w == SubSeq(u, 8, Len(u))
               n == Len(u)
    <2>1. n \in Int /\ 8 \in Int /\ n = 7 + Len(t) /\ \A i \in 8 .. n : u[i] \in Byte
      BY <1>1, <1>4
    <2>2. /\ w \in Seq(Byte) /\ Len(w) = IF 8 <= n THEN n - 8 + 1 ELSE 0
          /\ \A i \in 1 .. n - 8 + 1 : w[i] = u[8 + i - 1]
      <3> HIDE DEF n
      <3>1. /\ SubSeq(u, 8, n) \in Seq(Byte) /\ Len(SubSeq(u, 8, n)) = IF 8 <= n THEN n - 8 + 1 ELSE 0
            /\ \A i \in 1 .. n - 8 + 1 : SubSeq(u, 8, n)[i] = u[8 + i - 1]
        BY <2>1, SubSeqProperties
      <3> QED  BY <3>1 DEF n
    <2> HIDE DEF w, n
    <2>3. Len(w) = Len(t) /\ n - 8 + 1 = Len(t)
      BY <1>1, <2>1, <2>2
    <2>4. ASSUME NEW i \in 1 .. Len(t)  PROVE w[i] = t[i]
      <3>1. 8 + i - 1 \in 1 .. 7 + Len(t) /\ ~(8 + i - 1 <= 7) /\ (8 + i - 1) - 7 = i
        BY <1>1
      <3>2. w[i] = u[8 + i - 1]
        BY <2>2, <2>3
      <3> QED  BY <1>4, <3>1, <3>2
    <2>5. w = t
      BY <1>1, <2>2, <2>3, <2>4, SeqEqual
    <2> QED  BY <2>5 DEF w
  <1>8. UriPath(u) = path
    <2>1. Behind(u, 0) = u /\ Behind(u, 1) = t
      <3>1. SubSeq(u, 1, Len(u)) = u
        BY <1>4, SubSeqFull
      <3>2. 7 * 0 + 1 = 1 /\ 7 * 1 + 1 = 8
        OBVIOUS
      <3> QED  BY <1>7, <3>1, <3>2 DEF Behind
    <2>2. ~IsPrefix(Scheme, t)
      <3> SUFFICES ASSUME IsPrefix(Scheme, t)  PROVE FALSE
        OBVIOUS
      <3>1. 7 <= Len(t) /\ SubSeq(t, 1, 7) = Scheme
        <4>1. 7 <= Len(t) /\ SubSeq(t, 1, 7) = SubSeq(Scheme, 1, 7)
          BY <1>2 DEF IsPrefix
        <4>2. SubSeq(Scheme, 1, 7) = Scheme
          BY <1>2, SubSeqFull
        <4> QED  BY <4>1, <4>2
      <3> DEFINE v == SubSeq(t, 1, 7)
      <3>2. \A i \in 1 .. 7 : i \in 1 .. Len(t) /\ t[i] \in UriByte
        BY <1>1, <3>1
      <3>3. \A i \in 1 .. 7 - 1 + 1 : v[i] = t[1 + i - 1]
        BY <3>2, SubSeqProperties
      <3> HIDE DEF v
      <3>4. 5 \in 1 .. 7 - 1 + 1 /\ 1 + 5 - 1 = 5 /\ 5 \in 1 .. 7
        OBVIOUS
      <3>5. v[5] = t[5] /\ v = Scheme
        BY <3>1, <3>3, <3>4 DEF v
      <3> QED  BY <1>3, <1>a, <3>2, <3>4, <3>5
    <2>3. Schemes(u, 1)
      <3>1. \A k \in 0 .. 1 - 1 : k = 0
        OBVIOUS
      <3> QED  BY <1>6, <2>1, <2>2, <3>1 DEF Schemes
    <2>4. 1 \in 0 .. Len(u)
      BY <1>1, <1>4
    <2>5. ASSUME NEW n \in 0 .. Len(u), Schemes(u, n)  PROVE n = 1
      <3>1. CASE n = 0
        BY <1>6, <2>1, <2>5, <3>1 DEF Schemes
      <3>2. CASE n > 1
        <4>1. 1 \in 0 .. n - 1
          BY <3>2
        <4> QED  BY <2>1, <2>2, <2>5, <4>1 DEF Schemes
      <3> QED  BY <3>1, <3>2
    <2>6. (CHOOSE n \in 0 .. Len(u) : Schemes(u, n)) = 1
      BY <2>3, <2>4, <2>5
    <2>7. Stripped(u) = Behind(u, CHOOSE n \in 0 .. Len(u) : Schemes(u, n))
      BY DEF Stripped, Behind, Schemes
    <2> QED  BY <1>1, <2>1, <2>6, <2>7 DEF UriPath
  <1>9. Uri(path) = u \o Break
    BY DEF Uri, u, t, Break
  <1> QED  BY <1>4, <1>5, <1>8, <1>9 DEF UriLine, u, t, Str

\* Strings of ASCII one after the other are ASCII.
LEMMA AsciiCat ==
  ASSUME NEW x \in Seq(Byte), NEW y \in Seq(Byte), IsAscii(x), IsAscii(y)
  PROVE  IsAscii(x \o y)
  <1> DEFINE z == x \o y
  <1>1. /\ Len(x) \in Nat /\ Len(y) \in Nat /\ Len(z) = Len(x) + Len(y)
        /\ \A i \in 1 .. Len(x) + Len(y) : z[i] = IF i <= Len(x) THEN x[i] ELSE y[i - Len(x)]
    BY ConcatProperties
  <1> HIDE DEF z
  <1>2. ASSUME NEW i \in 1 .. Len(z)  PROVE z[i] < 128
    <2>1. CASE i <= Len(x)
      BY <1>1, <2>1 DEF IsAscii
    <2>2. CASE ~(i <= Len(x))
      <3>1. i - Len(x) \in 1 .. Len(y) /\ z[i] = y[i - Len(x)]
        BY <1>1, <2>2
      <3> QED  BY <3>1 DEF IsAscii
    <2> QED  BY <2>1, <2>2
  <1> QED  BY <1>2 DEF IsAscii, z

\* The URI of a path is ASCII.
LEMMA UriAscii ==
  ASSUME NEW path \in Str
  PROVE  IsAscii(Uri(path)) /\ Lossy(Uri(path)) = Uri(path)
  <1>1. /\ UriLine(path) \in Seq(Byte) /\ IsAscii(UriLine(path)) /\ Uri(path) \in Str
        /\ Uri(path) = UriLine(path) \o Break
    BY UriLineFacts, UriTyped DEF Str
  <1>2. Break \in Seq(Byte) /\ IsAscii(Break)
    <2>1. \A j \in 1 .. 2 : j = 1 \/ j = 2
      OBVIOUS
    <2> QED  BY <2>1 DEF Break, Byte, IsAscii
  <1>3. IsAscii(Uri(path))
    BY <1>1, <1>2, AsciiCat
  <1> QED  BY <1>1, <1>3, LossyAscii DEF IsAscii

\* A sequence of two.
LEMMA PairOf ==
  ASSUME NEW S, NEW z \in Seq(S), Len(z) = 2
  PROVE  z = <<z[1], z[2]>>
  OBVIOUS

\* A sequence with one element more.
LEMMA AppendFacts ==
  ASSUME NEW S, NEW s \in Seq(S), NEW y \in S
  PROVE  /\ Append(s, y) \in Seq(S) /\ Len(Append(s, y)) = Len(s) + 1
         /\ \A i \in 1 .. Len(s) : Append(s, y)[i] = s[i]
         /\ Append(s, y)[Len(s) + 1] = y
  BY AppendProperties

\* A pair is one element and one more.
LEMMA PairIsAppend ==
  ASSUME NEW x, NEW y
  PROVE  Append(<<x>>, y) = <<x, y>>
  <1> DEFINE S == {x, y}
             s == <<x>>
             z == Append(s, y)
  <1>1. x \in S /\ y \in S
    OBVIOUS
  <1> HIDE DEF S
  <1>2. s \in Seq(S) /\ Len(s) = 1 /\ s[1] = x
    BY <1>1
  <1> HIDE DEF s, z
  <1>3. /\ z \in Seq(S) /\ Len(z) = Len(s) + 1
        /\ \A i \in 1 .. Len(s) : z[i] = s[i]
        /\ z[Len(s) + 1] = y
    <2>1. s \in Seq(S)
      BY <1>2
    <2> QED  BY <1>1, <2>1, AppendFacts, Zenon DEF z
  <1>4. z \in Seq(S) /\ Len(z) = 2 /\ z[1] = x /\ z[2] = y
    BY <1>2, <1>3
  <1>5. z = <<x, y>>
    BY <1>4, PairOf, Zenon
  <1> QED  BY <1>5 DEF z, s

\* The URI list of one path or of two.
FilesOf(p, q) == IF p = q THEN <<p>> ELSE <<p, q>>
ListOf(files) == FlattenSeq([i \in DOMAIN files |-> Uri(files[i])])

\* The URI list of one file or two is read back: as many, the first the same.
LEMMA ListFacts ==
  ASSUME NEW p \in Str, NEW q \in Str
  PROVE  /\ ListOf(FilesOf(p, q)) \in Str
         /\ Len(Uris(ListOf(FilesOf(p, q)))) = Len(FilesOf(p, q))
         /\ UriPath(Uris(ListOf(FilesOf(p, q)))[1]) = p
         /\ Lossy(ListOf(FilesOf(p, q))) = ListOf(FilesOf(p, q))
  <1>1. /\ UriLine(p) \in Str /\ IsLine(UriLine(p)) /\ UriPath(UriLine(p)) = p
        /\ UriLine(q) \in Str /\ IsLine(UriLine(q))
        /\ Uri(p) = UriLine(p) \o Break /\ Uri(q) = UriLine(q) \o Break
    BY UriLineFacts
  <1>2. Uri(p) \in Seq(Byte) /\ Uri(q) \in Seq(Byte)
    BY UriTyped DEF Str
  <1>3. <<>> \in Seq(Seq(Byte)) /\ Append(<<>>, Uri(p)) = <<Uri(p)>> /\ <<Uri(p)>> \in Seq(Seq(Byte))
    BY <1>2
  <1>4. FlattenSeq(<<Uri(p)>>) = Uri(p)
    <2>1. FlattenSeq(Append(<<>>, Uri(p))) = FlattenSeq(<<>>) \o Uri(p)
      BY <1>2, <1>3, FlattenAppend
    <2>2. <<>> \o Uri(p) = Uri(p)
      BY <1>2
    <2> QED  BY <1>3, <2>1, <2>2, FlattenNone
  <1>5. CASE p = q
    <2>1. FilesOf(p, q) = <<p>>
      BY <1>5 DEF FilesOf
    <2>2. [i \in DOMAIN <<p>> |-> Uri(<<p>>[i])] = <<Uri(p)>>
      OBVIOUS
    <2>3. ListOf(<<p>>) = Uri(p)
      BY <1>4, <2>2, Zenon DEF ListOf
    <2>4. ListOf(<<p>>) = UriLine(p) \o Break
      BY <1>1, <2>3, Zenon
    <2>5. Len(Uris(UriLine(p) \o Break)) = 1 /\ Uris(UriLine(p) \o Break)[1] = UriLine(p)
      BY <1>1, OneUri, Zenon
    <2>6. Len(<<p>>) = 1
      OBVIOUS
    <2> HIDE DEF Break
    <2>7. Len(Uris(ListOf(<<p>>))) = Len(<<p>>) /\ UriPath(Uris(ListOf(<<p>>))[1]) = p
      BY <1>1, <2>4, <2>5, <2>6, Zenon
    <2>8. ListOf(<<p>>) \in Str
      BY <1>2, <2>3 DEF Str
    <2>9. Lossy(ListOf(<<p>>)) = ListOf(<<p>>)
      BY <2>3, UriAscii, Zenon
    <2> QED  BY <2>1, <2>7, <2>8, <2>9, Zenon
  <1>6. CASE p # q
    <2>1. FilesOf(p, q) = <<p, q>>
      BY <1>6 DEF FilesOf
    <2>2. [i \in DOMAIN <<p, q>> |-> Uri(<<p, q>>[i])] = <<Uri(p), Uri(q)>>
      OBVIOUS
    <2>3. Append(<<Uri(p)>>, Uri(q)) = <<Uri(p), Uri(q)>>
      BY PairIsAppend, Zenon
    <2>4. FlattenSeq(Append(<<Uri(p)>>, Uri(q))) = FlattenSeq(<<Uri(p)>>) \o Uri(q)
      BY <1>2, <1>3, FlattenAppend
    <2>5. ListOf(<<p, q>>) = Uri(p) \o Uri(q)
      BY <1>4, <2>2, <2>3, <2>4, Zenon DEF ListOf
    <2>6. ListOf(<<p, q>>) = (UriLine(p) \o Break) \o (UriLine(q) \o Break)
      BY <1>1, <2>5, Zenon
    <2>7. /\ Len(Uris((UriLine(p) \o Break) \o (UriLine(q) \o Break))) = 2
          /\ Uris((UriLine(p) \o Break) \o (UriLine(q) \o Break))[1] = UriLine(p)
      BY <1>1, TwoUris, Zenon
    <2>8. Len(<<p, q>>) = 2
      OBVIOUS
    <2>9. Len(Uris(ListOf(<<p, q>>))) = Len(<<p, q>>) /\ UriPath(Uris(ListOf(<<p, q>>))[1]) = p
      BY <1>1, <2>6, <2>7, <2>8, Zenon
    <2>10. ListOf(<<p, q>>) \in Str
      <3>1. Uri(p) \o Uri(q) \in Seq(Byte)
        BY <1>2
      <3> QED  BY <2>5, <3>1 DEF Str
    <2>11. Lossy(ListOf(<<p, q>>)) = ListOf(<<p, q>>)
      <3>1. IsAscii(ListOf(<<p, q>>))
        <4>1. IsAscii(Uri(p) \o Uri(q))
          BY <1>2, UriAscii, AsciiCat
        <4> QED  BY <2>5, <4>1, Zenon
      <3> QED  BY <2>10, <3>1, LossyAscii DEF IsAscii
    <2> QED  BY <2>1, <2>9, <2>10, <2>11, Zenon
  <1> QED  BY <1>5, <1>6

\* What a file manager offers.
FilesOffer(mime, p, q) ==
  <<With(mime, ListOf(FilesOf(p, q))), With(UriList, ListOf(FilesOf(p, q))), With(Plain, p)>>

\* An offer of files has each MIME type once, and the URI list among them.
LEMMA FilesOfferFacts ==
  ASSUME NEW mime \in Special, NEW p \in Paths, NEW q \in Paths
  PROVE  /\ FilesOffer(mime, p, q) \in Seq(Payload)
         /\ mime \in {r.mime : r \in Range(FilesOffer(mime, p, q))}
         /\ With(UriList, ListOf(FilesOf(p, q))) \in Range(FilesOffer(mime, p, q))
         /\ \A r, t \in Range(FilesOffer(mime, p, q)) : r.mime = t.mime => r = t
  <1> DEFINE list == ListOf(FilesOf(p, q))
             a == With(mime, list)
             b == With(UriList, list)
             c == With(Plain, p)
  <1>1. p \in Str /\ q \in Str /\ mime \in Mime /\ UriList \in Mime /\ Plain \in Mime
    BY DataAssumption DEF Str, Mime, Text
  <1>2. list \in Str
    BY <1>1, ListFacts
  <1> HIDE DEF list
  <1>3. a \in Payload /\ b \in Payload /\ c \in Payload
    BY <1>1, <1>2, WithTyped
  <1>4. a.mime = mime /\ b.mime = UriList /\ c.mime = Plain
    BY DEF With
  <1>5. mime # UriList /\ mime # Plain /\ UriList # Plain
    BY MimesAssumption DEF Text
  <1> HIDE DEF a, b, c
  <1>6. <<a, b, c>> \in Seq(Payload) /\ Range(<<a, b, c>>) = {a, b, c}
    <2>1. DOMAIN <<a, b, c>> = {1, 2, 3}
      OBVIOUS
    <2> QED  BY <1>3, <2>1 DEF Range
  <1>7. FilesOffer(mime, p, q) = <<a, b, c>>
    BY DEF FilesOffer, a, b, c, list
  <1>8. \A r, t \in {a, b, c} : r.mime = t.mime => r = t
    BY <1>4, <1>5
  <1> QED  BY <1>4, <1>6, <1>7, <1>8 DEF b, list

\* How copied files are labelled, in whatever order the payloads are.
LEMMA FilesLabelled ==
  ASSUME NEW mime \in Special, NEW p \in Paths, NEW q \in Paths,
         NEW s \in Seq(Payload), Range(s) = Range(FilesOffer(mime, p, q))
  PROVE  /\ KindOf({r.mime : r \in Range(s)}) = "file"
         /\ LabelOf("file", s) = [text |-> FileName(Lossy(p)), more |-> Len(FilesOf(p, q)) - 1]
  <1> DEFINE list == ListOf(FilesOf(p, q))
             u == With(UriList, list)
             uris == IF \E r \in Range(s) : r.mime = UriList THEN Uris(Lossy(DataOf(UriList, s)))
                     ELSE <<>>
  <1>1. /\ mime \in {r.mime : r \in Range(s)} /\ u \in Range(s)
        /\ \A r, t \in Range(s) : r.mime = t.mime => r = t
    BY FilesOfferFacts
  <1>2. KindOf({r.mime : r \in Range(s)}) = "file"
    BY <1>1 DEF KindOf
  <1>3. u.mime = UriList /\ u.data = list
    BY DEF With
  <1> HIDE DEF u, list
  <1>4. DataOf(UriList, s) = list
    <2>1. PICK r \in Range(s) : r.mime = UriList /\ DataOf(UriList, s) = r.data
      BY <1>1, <1>3, DataOfFacts
    <2> QED  BY <1>1, <1>3, <2>1
  <1>5. p \in Str /\ q \in Str
    BY DataAssumption DEF Str
  <1>6. /\ Len(Uris(list)) = Len(FilesOf(p, q)) /\ FileOf(Uris(list)[1]) = Lossy(p)
        /\ Lossy(list) = list
    BY <1>5, ListFacts DEF list, FileOf
  <1>7. uris = Uris(list)
    BY <1>1, <1>3, <1>4, <1>6
  <1>8. Uris(list) # <<>>
    <2>1. Len(FilesOf(p, q)) # 0
      BY DEF FilesOf
    <2>2. Len(<<>>) = 0
      OBVIOUS
    <2> QED  BY <1>6, <2>1, <2>2
  <1>9. LabelOf("file", s) = FilesLabel(Uris(list))
    <2>1. LabelOf("file", s) =
            IF "file" \in {"file", "uri"} /\ uris # <<>> THEN FilesLabel(uris)
            ELSE IF "file" = "text" THEN [text |-> TextLabel(ShownText(s)), more |-> 0]
            ELSE [text |-> <<>>, more |-> 0]
      BY DEF LabelOf
    <2> HIDE DEF uris
    <2> QED  BY <1>7, <1>8, <2>1
  <1>10. FilesLabel(Uris(list)) = [text |-> FileName(Lossy(p)), more |-> Len(FilesOf(p, q)) - 1]
    BY <1>6 DEF FilesLabel
  <1> QED  BY <1>2, <1>9, <1>10

-----------------------------------------------------------------------------
(***************************************************************************)
(* What the labels and the offers of files name.                           *)
(***************************************************************************)

\* What is offered of a screenshot, and what of files, as long as it is selected.
Offered ==
  /\ from.who = "files" /\ selection # <<>> =>
       \E mime \in Special, p \in Paths, q \in Paths :
         from.paths = FilesOf(p, q) /\ selection = FilesOffer(mime, p, q)
  /\ ScreenshotUriNamesFile
  /\ FilesNamed

\* Any other selection says nothing about files and screenshots.
LEMMA OfferedSelect ==
  ASSUME Offered, NEW s, NEW w, NEW p, NEW h, Select(s, w, p, h),
         w \notin {"files", "screenshot"}
  PROVE  Offered'
  <1>1. from' = [who |-> w, paths |-> p, hash |-> h] /\ history' = history
    BY DEF Select
  <1>2. from'.who = w
    BY <1>1
  <1>3. ScreenshotUriNamesFile'
    BY <1>2 DEF ScreenshotUriNamesFile
  <1>4. FilesNamed'
    BY <1>1 DEF Offered, FilesNamed
  <1> QED  BY <1>2, <1>3, <1>4 DEF Offered

\* A screenshot is offered with the URI of its file.
ShotOffer(mime, path) ==
  <<With(mime, Picture), With(PlainUtf8, Lossy(path)), With(UriList, Uri(Lossy(path)))>>

\* A screenshot is offered with the URI and the path of one file.
LEMMA ScreenshotOffer ==
  ASSUME NEW mime \in Image, NEW path \in Paths
  PROVE  /\ Len(Uris(Lossy(DataOf(UriList, ShotOffer(mime, path))))) = 1
         /\ UriPath(Uris(Lossy(DataOf(UriList, ShotOffer(mime, path))))[1])
               = DataOf(PlainUtf8, ShotOffer(mime, path))
         /\ DataOf(PlainUtf8, ShotOffer(mime, path)) = Lossy(path)
  <1> DEFINE a == With(mime, Picture)
             text == Lossy(path)
             b == With(PlainUtf8, text)
             c == With(UriList, Uri(text))
             s == ShotOffer(mime, path)
  <1>1. /\ text \in Str /\ Picture \in Str /\ mime \in Mime /\ UriList \in Mime
        /\ PlainUtf8 \in Mime
    BY DataAssumption, CharsTyped DEF Str, Mime, Text
  <1>2. a \in Payload /\ b \in Payload /\ c \in Payload
    BY <1>1, UriTyped, WithTyped
  <1>3. a.mime = mime /\ b.mime = PlainUtf8 /\ c.mime = UriList /\ b.data = text /\ c.data = Uri(text)
    BY DEF With
  <1>4. mime # UriList /\ mime # PlainUtf8 /\ UriList # PlainUtf8
    BY MimesAssumption DEF Text
  <1>5. s = <<a, b, c>>
    BY DEF ShotOffer
  <1> HIDE DEF a, b, c, s, text
  <1>6. s \in Seq(Payload) /\ Range(s) = {a, b, c}
    <2>1. DOMAIN <<a, b, c>> = {1, 2, 3}
      OBVIOUS
    <2>2. <<a, b, c>> \in Seq(Payload) /\ Range(<<a, b, c>>) = {a, b, c}
      BY <1>2, <2>1 DEF Range
    <2> QED  BY <1>5, <2>2, Zenon
  <1>7. DataOf(UriList, s) = Uri(text)
    <2>1. c \in Range(s)
      BY <1>6
    <2>2. PICK r \in Range(s) : r.mime = c.mime /\ DataOf(c.mime, s) = r.data
      BY <1>6, <2>1, DataOfFacts
    <2> QED  BY <1>3, <1>4, <1>6, <2>2
  <1>8. DataOf(PlainUtf8, s) = text
    <2>1. b \in Range(s)
      BY <1>6
    <2>2. PICK r \in Range(s) : r.mime = b.mime /\ DataOf(b.mime, s) = r.data
      BY <1>6, <2>1, DataOfFacts
    <2> QED  BY <1>3, <1>4, <1>6, <2>2
  <1>9. Len(Uris(Uri(text))) = 1 /\ UriPath(Uris(Uri(text))[1]) = text
    <2>1. /\ UriLine(text) \in Str /\ IsLine(UriLine(text)) /\ UriPath(UriLine(text)) = text
          /\ Uri(text) = UriLine(text) \o Break
      BY <1>1, UriLineFacts
    <2>2. /\ Len(Uris(UriLine(text) \o Break)) = 1
          /\ Uris(UriLine(text) \o Break)[1] = UriLine(text)
      BY <2>1, OneUri, Zenon
    <2> QED  BY <2>1, <2>2, Zenon
  <1>10. Lossy(Uri(text)) = Uri(text)
    BY <1>1, UriAscii
  <1> QED  BY <1>7, <1>8, <1>9, <1>10 DEF s, text

\* Every step keeps what files and screenshots are offered with.
LEMMA OfferedStep == HeldInv /\ Offered /\ [Next]_vars => Offered'
  <1> SUFFICES ASSUME HeldInv, Offered, [Next]_vars  PROVE Offered'
    OBVIOUS
  <1>1. CASE Copy
    BY <1>1, OfferedSelect DEF Copy
  <1>2. CASE CopyFiles
    <2>1. PICK mime \in Special, p \in Paths, q \in Paths :
            Select(FilesOffer(mime, p, q), "files", FilesOf(p, q), <<>>)
      BY <1>2 DEF CopyFiles, FilesOffer, FilesOf, ListOf
    <2>2. /\ selection' = FilesOffer(mime, p, q) /\ history' = history
          /\ from' = [who |-> "files", paths |-> FilesOf(p, q), hash |-> <<>>]
      BY <2>1 DEF Select
    <2>3. ScreenshotUriNamesFile' /\ FilesNamed'
      BY <2>2 DEF Offered, ScreenshotUriNamesFile, FilesNamed
    <2> QED  BY <2>2, <2>3 DEF Offered
  <1>3. CASE OfferScreenshot
    <2>1. PICK mime \in Image, path \in Paths :
            Select(ShotOffer(mime, path), "screenshot", <<path>>, <<>>)
      BY <1>3 DEF OfferScreenshot, ShotOffer
    <2>2. /\ selection' = ShotOffer(mime, path)
          /\ history' = history
          /\ from' = [who |-> "screenshot", paths |-> <<path>>, hash |-> <<>>]
      BY <2>1 DEF Select
    <2>3. ScreenshotUriNamesFile'
      <3>1. from'.paths[1] = path
        BY <2>2
      <3> QED  BY <2>2, <3>1, ScreenshotOffer DEF ScreenshotUriNamesFile
    <2>4. FilesNamed'
      BY <2>2 DEF Offered, FilesNamed
    <2> QED  BY <2>2, <2>3, <2>4 DEF Offered
  <1>4. CASE Restore
    BY <1>4, OfferedSelect DEF Restore
  <1>5. CASE Start
    BY <1>5 DEF Start, Offered, ScreenshotUriNamesFile, FilesNamed
  <1>6. CASE Capture
    <2>1. selection' = selection /\ from' = from /\ selection # <<>>
      BY <1>6 DEF Capture, Ready
    <2>2. \A e \in history' : e \in history \/ e = Entry
      BY <1>6 DEF Capture
    <2>3. Entry.from = from /\ Entry.label = LabelOf(Kind, Payloads)
      BY DEF Entry
    <2>4. ASSUME from.who = "files"
          PROVE  Entry.label = [text |-> FileName(Lossy(from.paths[1])), more |-> Len(from.paths) - 1]
      <3>1. PICK mime \in Special, p \in Paths, q \in Paths :
              from.paths = FilesOf(p, q) /\ selection = FilesOffer(mime, p, q)
        BY <2>1, <2>4 DEF Offered
      <3>2. /\ selection \in Seq(Payload)
            /\ \A r, t \in Range(selection) : r.mime = t.mime => r = t
        BY <3>1, FilesOfferFacts
      <3>3. Payloads \in Seq(Payload) /\ Range(Payloads) = Range(selection)
        BY <3>2, NormalizedFacts, OnceIsEnough DEF Payloads
      <3>4. /\ Kind = "file"
            /\ LabelOf("file", Payloads)
                 = [text |-> FileName(Lossy(p)), more |-> Len(FilesOf(p, q)) - 1]
        BY <3>1, <3>3, FilesLabelled DEF Kind
      <3>5. from.paths[1] = p
        BY <3>1 DEF FilesOf
      <3> QED  BY <2>3, <3>1, <3>4, <3>5
    <2>5. FilesNamed'
      <3> SUFFICES ASSUME NEW e \in history', e.from.who = "files"
                   PROVE  e.label = [text |-> FileName(Lossy(e.from.paths[1])), more |-> Len(e.from.paths) - 1]
        BY DEF FilesNamed
      <3>1. CASE e \in history
        BY <3>1 DEF Offered, FilesNamed
      <3>2. CASE e = Entry
        BY <2>3, <2>4, <3>2
      <3> QED  BY <2>2, <3>1, <3>2
    <2>6. ScreenshotUriNamesFile'
      BY <2>1 DEF Offered, ScreenshotUriNamesFile
    <2> QED  BY <2>1, <2>5, <2>6 DEF Offered
  <1>7. CASE Panic
    <2>1. from' = from /\ history' = history /\ selection' \in {<<>>, selection}
      BY <1>7 DEF Panic
    <2> QED  BY <2>1 DEF Offered, ScreenshotUriNamesFile, FilesNamed
  <1>8. CASE UNCHANGED vars
    BY <1>8 DEF vars, Offered, ScreenshotUriNamesFile, FilesNamed
  <1> QED  BY <1>1, <1>2, <1>3, <1>4, <1>5, <1>6, <1>7, <1>8 DEF Next

\* Files and screenshots are offered with what names them, in every state.
LEMMA OfferedInvariant == Spec => []Offered
  <1>1. Init => Offered
    BY DEF Init, Offered, ScreenshotUriNamesFile, FilesNamed
  <1> QED  BY <1>1, OfferedStep, HeldInvariant, PTL DEF Spec

\* Files are shown by the name of the first, with U+FFFD for what of it is not UTF-8,
\* and how many more.
THEOREM FilesAreNamed == Spec => []FilesNamed
  <1>1. Offered => FilesNamed
    BY DEF Offered
  <1> QED  BY <1>1, OfferedInvariant, PTL

\* The URI of a screenshot is read back as the path it is offered with as text, which
\* is that of its file if that is UTF-8.
THEOREM ScreenshotsAreFound == Spec => []ScreenshotUriNamesFile
  <1>1. Offered => ScreenshotUriNamesFile
    BY DEF Offered
  <1> QED  BY <1>1, OfferedInvariant, PTL
=============================================================================
