------------------------ MODULE HistoryStore_proofs ------------------------
(***************************************************************************)
(* History evicts what has to go, and its statements together are the      *)
(* atomic requests of HistoryStore.                                        *)
(***************************************************************************)
EXTENDS History_proofs, Sums_proofs, FunctionTheorems

-----------------------------------------------------------------------------
(***************************************************************************)
(* Eviction.                                                               *)
(***************************************************************************)

FiniteInv == TypeInv /\ IsFiniteSet(entries)

\* Every step leaves finitely many rows.
LEMMA FiniteStep == FiniteInv /\ [Next]_vars => FiniteInv'
  <1> SUFFICES ASSUME TypeInv, IsFiniteSet(entries), [Next]_vars
               PROVE  IsFiniteSet(entries')
    BY TypeStep DEF FiniteInv
  <1>a. ASSUME NEW r, entries' \subseteq entries \cup {r}
        PROVE  IsFiniteSet(entries')
    <2>1. IsFiniteSet(entries \cup {r})
      BY FS_AddElement
    <2> QED  BY <1>a, <2>1, FS_Subset
  <1>1. CASE InsertKnown
    BY <1>1, <1>a DEF InsertKnown
  <1>2. CASE InsertEntry
    BY <1>2, <1>a DEF InsertEntry
  <1>3. CASE TrimCount
    BY <1>3, <1>a, MostRecentKeeps, DeletesOnly DEF TrimCount
  <1>4. CASE RestoreTouch
    BY <1>4, <1>a DEF RestoreTouch
  <1>5. CASE entries' \subseteq entries
    BY <1>5, <1>a
  <1> QED
    BY <1>1, <1>2, <1>3, <1>4, <1>5
    DEF Next, vars, Tick, TakeStamp, InsertPayload, TrimOldest, TrimDone, Delete,
        Clear, SaveConfig, ReloadConfig, StatementFails, InsertFails, Restart,
        KeepOnly

\* The count part of trim drops a row only if max_entries others are at least as
\* recent.
LEMMA CountEvicts ==
  ASSUME FiniteInv, NEW n \in Nat, NEW keep \in MostRecent(n),
         NEW gone \in entries \ keep
  PROVE  Cardinality({e \in entries : e.used >= gone.used}) > n
  <1> DEFINE recent == {e \in entries : e.used >= gone.used}
  <1>1. /\ keep \subseteq entries /\ Cardinality(keep) = n
        /\ \A kept \in keep : kept.used >= gone.used
    BY DEF MostRecent, kSubset
  <1>2. gone.used \in Nat
    BY TimeFacts DEF FiniteInv, TypeInv, TypeOK, EntryRow
  <1>3. keep \cup {gone} \subseteq recent
    BY <1>1, <1>2
  <1>4. IsFiniteSet(recent) /\ IsFiniteSet(keep)
    BY <1>1, FS_Subset DEF FiniteInv
  <1>5. Cardinality(keep \cup {gone}) = n + 1
    BY <1>1, <1>4, FS_AddElement
  <1>6. n + 1 <= Cardinality(recent) /\ Cardinality(recent) \in Nat
    BY <1>3, <1>4, <1>5, FS_Subset, FS_CardinalityType
  <1> QED  BY <1>6

\* For limits that are i64 values, a row dropped by trim does not fit together with
\* the rows at least as recently used, also where the request is cut short.
THEOREM EvictionIsNeeded ==
  ASSUME \A l \in LimitsSet : l.entries <= I64Max /\ l.size <= I64Max
  PROVE  Spec => NoNeedlessEviction
  <1> DEFINE Needed ==
        ~Free => \A gone \in entries \ entries' :
                     ~FitsLimits({e \in entries : e.used >= gone.used})
  <1>1. Init => FiniteInv
    BY TimeFacts, BoundsAssumption, FS_EmptySet
    DEF Init, FiniteInv, TypeInv, TypeOK, CopyPresent, NoCall, Idle
  <1>2. FiniteInv /\ [Next]_vars => FiniteInv'
    BY FiniteStep
  <1>3. ASSUME FiniteInv, [Next]_vars PROVE [Needed]_vars
    <2> SUFFICES ASSUME Next, ~Free, NEW gone \in entries \ entries'
                 PROVE  ~FitsLimits({e \in entries : e.used >= gone.used})
      BY <1>3
    <2>1. /\ AsI64(limits.entries) = limits.entries /\ limits.entries \in Nat
          /\ AsI64(limits.size) = limits.size
      BY <1>3, LimitsAssumption DEF FiniteInv, TypeInv, TypeOK, AsI64
    <2>2. CASE TrimCount
      <3>1. PICK keep \in MostRecent(limits.entries) : KeepOnly(keep)
        BY <2>1, <2>2 DEF TrimCount
      <3>2. gone \in entries \ keep
        BY <3>1 DEF KeepOnly
      <3>3. Cardinality({e \in entries : e.used >= gone.used}) > limits.entries
        BY <1>3, <2>1, <3>2, CountEvicts
      <3>4. Cardinality({e \in entries : e.used >= gone.used}) \in Nat
        BY <1>3, FS_Subset, FS_CardinalityType DEF FiniteInv
      <3> QED  BY <2>1, <3>3, <3>4 DEF FitsLimits
    <2>3. CASE TrimOldest
      <3>1. \A e \in entries \ {gone} : Older(gone, e)
        BY <2>3 DEF TrimOldest, KeepOnly
      <3>2. \A e \in entries : e.used \in Nat
        BY <1>3, TimeFacts DEF FiniteInv, TypeInv, TypeOK, EntryRow
      <3>3. {e \in entries : e.used >= gone.used} = entries
        BY <3>1, <3>2 DEF Older
      <3>4. ~(Total(entries) <= limits.size)
        BY <2>1, <2>3 DEF TrimOldest, WithinSize
      <3> QED  BY <3>3, <3>4 DEF FitsLimits
    <2> QED
      BY <2>2, <2>3
      DEF Next, Tick, TakeStamp, InsertKnown, InsertEntry, InsertPayload, TrimDone,
          RestoreTouch, Delete, Clear, SaveConfig, ReloadConfig, StatementFails,
          InsertFails, Restart
  <1> QED  BY <1>1, <1>2, <1>3, PTL DEF Spec, NoNeedlessEviction

-----------------------------------------------------------------------------
(***************************************************************************)
(* The refinement.  While a request runs, the rows are on their way from   *)
(* what the request began with to one of the sets that Trimmed allows.     *)
(***************************************************************************)

\* What a client sees of a row that has all its payloads.
Copied(e) == [hash |-> e.hash, created |-> e.created, used |-> e.used,
              mimes |-> MimesOf[e.hash]]
Copies(S) == {Copied(e) : e \in S}

\* The items after a copy, before anything is evicted.
Grown(I, h, t) ==
    IF {i \in I : i.hash = h} # {}
    THEN {IF i.hash = h THEN [i EXCEPT !.used = t] ELSE i : i \in I}
    ELSE I \cup {[hash |-> h, created |-> t, used |-> t, mimes |-> MimesOf[h]]}

\* What the request that runs has to trim.
Due == IF op.owner = "watcher" THEN Grown(op.items, call.hash, call.at) ELSE op.items

\* What trim has left so far: it has gone no further than it had to.
Evicted(K, S) ==
    /\ K \subseteq S
    /\ \A kept \in K, gone \in S \ K : kept.used >= gone.used
    /\ K # S => \E last \in S \ K :
                    /\ \A gone \in S \ K : last.used >= gone.used
                    /\ ~Promise!Fits(K \cup {last}, limits)

Progress ==
    ~Free =>
        /\ op.owner = "watcher" => call.hash # NoHash /\ op.limits = limits
        /\ op.pc \in {"payloads", "count"} => Copies(entries) = Due
        /\ op.pc = "size" => /\ Cardinality(entries) <= limits.entries
                             /\ Evicted(Copies(entries), Due)

StoreInv == CompleteInv /\ FiniteInv /\ Progress

SmallLimits == \A l \in LimitsSet : l.entries <= I64Max /\ l.size <= I64Max

-----------------------------------------------------------------------------
\* A copy has the fields of its row.
LEMMA CopiedFields ==
  ASSUME NEW e
  PROVE  /\ Copied(e).hash = e.hash /\ Copied(e).created = e.created
         /\ Copied(e).used = e.used /\ Copied(e).mimes = MimesOf[e.hash]
  BY DEF Copied

\* Two rows of different hashes have different copies.
LEMMA CopiedInjective ==
  ASSUME HashUnique, NEW e \in entries, NEW f \in entries, Copied(e) = Copied(f)
  PROVE  e = f
  BY CopiedFields DEF HashUnique

\* Outside the loop over the payloads a client sees complete rows only.
LEMMA ItemsAreCopies ==
  ASSUME CompleteOrCopying, op.pc # "payloads"
  PROVE  Items = Copies(entries)
  <1>1. ASSUME NEW e \in entries  PROVE ItemOf(e) = Copied(e)
    BY DEF CompleteOrCopying, MimesStored, ItemOf, Copied
  <1> QED  BY <1>1 DEF Items, Copies

\* The copies of the table without a row are those of the table without its copy.
LEMMA CopiesWithout ==
  ASSUME HashUnique, NEW e \in entries
  PROVE  Copies(entries \ {e}) = Copies(entries) \ {Copied(e)}
  BY CopiedInjective DEF Copies

\* Both totals are sums of the sizes behind the hashes.
Sizes(S) == [x \in S |-> SizeOf[x.hash]]
TotalsOf(S) ==
    CHOOSE f : f = [s \in SUBSET S |-> IF s = {} THEN 0
                                       ELSE SizeOf[Chosen(s).hash] + f[s \ {Chosen(s)}]]

\* Both modules add up the sizes in the order their CHOOSE gives.
LEMMA TotalsAre ==
  ASSUME NEW S
  PROVE  Total(S) = TotalsOf(S)[S] /\ Promise!Total(S) = TotalsOf(S)[S]
  <1>1. Total(S) = TotalsOf(S)[S]
    BY DEF Total, TotalsOf, MapThenSumSet, MapThenFoldSet, Chosen
  <1>2. Promise!Total(S) = TotalsOf(S)[S]
    BY DEF Promise!Total, TotalsOf, Promise!MapThenSumSet, Promise!MapThenFoldSet, Chosen
  <1> QED  BY <1>1, <1>2

\* The sum of the size column is the sum of the sizes of the rows.
LEMMA TotalsAreSums ==
  ASSUME NEW S, IsFiniteSet(S), \A x \in S : x.hash \in Hash
  PROVE  /\ Weights(Sizes(S), S)
         /\ Total(S) = SumOver(Sizes(S), S) /\ Promise!Total(S) = SumOver(Sizes(S), S)
  <1>1. Weights(Sizes(S), S)
    BY SizeAssumption DEF Weights, Sizes
  <1>2. ASSUME NEW g
        PROVE  IsSums(Sizes(S), S, g) <=>
                   g = [s \in SUBSET S |-> IF s = {} THEN 0
                                           ELSE SizeOf[Chosen(s).hash] + g[s \ {Chosen(s)}]]
    <2>1. \A s \in SUBSET S : s # {} => Sizes(S)[Chosen(s)] = SizeOf[Chosen(s).hash]
      BY ChosenIn DEF Sizes
    <2>2. [s \in SUBSET S |-> IF s = {} THEN 0 ELSE Sizes(S)[Chosen(s)] + g[s \ {Chosen(s)}]]
          = [s \in SUBSET S |-> IF s = {} THEN 0
                                ELSE SizeOf[Chosen(s).hash] + g[s \ {Chosen(s)}]]
      BY <2>1
    <2> QED  BY <2>2 DEF IsSums
  <1>3. IsSums(Sizes(S), S, SumsOf(Sizes(S), S))
    BY <1>1, SumsAre
  <1>4. IsSums(Sizes(S), S, TotalsOf(S))
    <2>1. \E g : g = [s \in SUBSET S |-> IF s = {} THEN 0
                                         ELSE SizeOf[Chosen(s).hash] + g[s \ {Chosen(s)}]]
      BY <1>2, <1>3
    <2>2. TotalsOf(S) = [s \in SUBSET S |->
                            IF s = {} THEN 0
                            ELSE SizeOf[Chosen(s).hash] + TotalsOf(S)[s \ {Chosen(s)}]]
      BY <2>1 DEF TotalsOf
    <2> QED  BY <1>2, <2>2
  <1> QED  BY <1>1, <1>4, SumsGiveSum, TotalsAre

\* The rows as a bijection to their copies: as many, and of the same size.
LEMMA CopiesWeigh ==
  ASSUME FiniteInv, HashUnique, NEW S \in SUBSET entries
  PROVE  /\ IsFiniteSet(Copies(S)) /\ Cardinality(Copies(S)) = Cardinality(S)
         /\ Promise!Total(Copies(S)) = Total(S) /\ Total(S) \in Nat
  <1>1. IsFiniteSet(S) /\ \A e \in S : e.hash \in Hash
    BY FS_Subset DEF FiniteInv, TypeInv, TypeOK, EntryRow
  <1> DEFINE h == [e \in S |-> Copied(e)]
  <1>2. \A a, b \in S : h[a] = h[b] => a = b
    BY CopiedInjective
  <1>3. Copies(S) = {h[e] : e \in S}
    BY DEF Copies
  <1>4. IsFiniteSet(Copies(S)) /\ Cardinality(Copies(S)) = Cardinality(S)
    <2>1. h \in [S -> Copies(S)] /\ \A t \in Copies(S) : \E s \in S : h[s] = t
      BY DEF Copies
    <2> HIDE DEF h
    <2>2. h \in Bijection(S, Copies(S))
      BY <1>2, <2>1, Fun_IsBij
    <2>3. ExistsBijection(S, Copies(S))
      BY <2>2, Fun_ExistsBij
    <2> QED  BY <1>1, <2>3, FS_Bijection
  <1>5. \A e \in S : h[e] \in Copies(S) /\ Sizes(Copies(S))[h[e]] = Sizes(S)[e]
    BY <1>3, CopiedFields DEF Sizes
  <1>6. \A i \in Copies(S) : i.hash \in Hash
    BY <1>1, CopiedFields DEF Copies
  <1>7. Weights(Sizes(S), S) /\ Total(S) = SumOver(Sizes(S), S)
    BY <1>1, TotalsAreSums
  <1>8. Promise!Total(Copies(S)) = SumOver(Sizes(Copies(S)), Copies(S))
    BY <1>4, <1>6, TotalsAreSums
  <1>9. SumOver(Sizes(Copies(S)), Copies(S)) = SumOver(Sizes(S), S)
    <2> DEFINE w == Sizes(S)
               v == Sizes(Copies(S))
    <2>1. \A e \in S : v[h[e]] = w[e]
      BY <1>5
    <2>2. IsFiniteSet(S) /\ Weights(w, S)
      BY <1>1, <1>7
    <2> HIDE DEF h, w, v
    <2>3. SumOver(v, {h[e] : e \in S}) = SumOver(w, S)
      BY <1>2, <2>1, <2>2, SumImage
    <2>4. SumOver(v, Copies(S)) = SumOver(w, S)
      BY <1>3, <2>3
    <2> QED  BY <2>4 DEF v, w
  <1> QED  BY <1>1, <1>4, <1>7, <1>8, <1>9, SumNat

\* The promised store counts as the database does.
LEMMA FitsIs ==
  ASSUME NEW S, NEW l
  PROVE  Promise!Fits(S, l) <=> Cardinality(S) <= l.entries /\ Promise!Total(S) <= l.size
  <1>1. Promise!Cardinality(S) = Cardinality(S)
    BY DEF Promise!Cardinality, Cardinality
  <1> QED  BY <1>1 DEF Promise!Fits

\* Of finitely many rows or items one is the most recently used.
LEMMA LatestOf ==
  ASSUME NEW S, IsFiniteSet(S), S # {}, \A x \in S : x.used \in Nat
  PROVE  \E last \in S : \A x \in S : last.used >= x.used
  <1> DEFINE P == {A \in SUBSET S :
                     A # {} => \E last \in A : \A x \in A : last.used >= x.used}
  <1>1. {} \in P
    OBVIOUS
  <1>2. ASSUME NEW A \in SUBSET S, A # {}, \A x \in A : A \ {x} \in P
        PROVE  A \in P
    <2>1. PICK x \in A : TRUE
      BY <1>2
    <2>2. CASE A = {x}
      BY <2>2
    <2>3. CASE A # {x}
      <3>1. PICK last \in A \ {x} : \A y \in A \ {x} : last.used >= y.used
        BY <1>2, <2>3
      <3>2. \A y \in A : y.used \in Nat
        OBVIOUS
      <3>3. CASE last.used >= x.used
        BY <3>1, <3>2, <3>3
      <3>4. CASE x.used >= last.used
        <4>1. \A y \in A : x.used >= y.used
          BY <3>1, <3>2, <3>4
        <4> QED  BY <4>1
      <3> QED  BY <3>1, <3>2, <3>3, <3>4
    <2> QED  BY <2>2, <2>3
  <1>3. SUBSET S \subseteq P
    <2> HIDE DEF P
    <2> QED  BY <1>1, <1>2, SetInduction
  <1>4. S \in P
    BY <1>3
  <1> QED  BY <1>4

\* An UPDATE of the recency of a row is one of its copy.
LEMMA RestampCopies ==
  ASSUME TypeOK, HashUnique, NEW e \in entries, NEW t \in Time,
         entries' = (entries \ {e}) \cup {[e EXCEPT !.used = t]}
  PROVE  Copies(entries') = (Copies(entries) \ {Copied(e)}) \cup {[Copied(e) EXCEPT !.used = t]}
  <1> DEFINE r == [e EXCEPT !.used = t]
  <1>1. r.hash = e.hash /\ r.created = e.created /\ r.used = t
    BY Restamped DEF TypeOK
  <1>2. Copied(r) = [Copied(e) EXCEPT !.used = t]
    BY <1>1 DEF Copied
  <1> HIDE DEF r
  <1>3. entries' = (entries \ {e}) \cup {r}
    BY DEF r
  <1>4. Copies(entries') = Copies(entries \ {e}) \cup {Copied(r)}
    BY <1>3 DEF Copies
  <1> QED  BY <1>2, <1>4, CopiesWithout

\* Store does the same to the item of a known hash.
LEMMA GrownKnown ==
  ASSUME NEW I, \A i, j \in I : i.hash = j.hash => i = j, NEW i \in I, NEW t
  PROVE  Grown(I, i.hash, t) = (I \ {i}) \cup {[i EXCEPT !.used = t]}
  BY DEF Grown

\* The copies of the table have one hash each.
LEMMA CopiesUnique ==
  ASSUME HashUnique
  PROVE  \A i, j \in Copies(entries) : i.hash = j.hash => i = j
  BY CopiedFields DEF Copies, HashUnique

-----------------------------------------------------------------------------
\* A request begins with what clients see, and goes on from there.
LEMMA BeginFields ==
  ASSUME NEW pc, NEW owner, NEW id, NEW todo
  PROVE  LET b == Begin(pc, owner, id, todo)
         IN  /\ b.pc = pc /\ b.owner = owner /\ b.items = Items /\ b.limits = limits
  BY DEF Begin

\* A copy with a known hash has yet to be trimmed.
LEMMA InsertKnownProgress ==
  ASSUME StoreInv, InsertKnown
  PROVE  Progress'
  <1>1. PICK e \in FindByHash(call.hash) :
           /\ entries' = (entries \ {e}) \cup {[e EXCEPT !.used = call.at]}
           /\ op' = Begin("count", "watcher", e.id, {})
    BY DEF InsertKnown
  <1>2. /\ e \in entries /\ e.hash = call.hash /\ call.at \in Time /\ TypeOK /\ HashUnique
        /\ call' = call /\ limits' = limits /\ call.hash # NoHash
    BY <1>1 DEF FindByHash, InsertKnown, StoreInv, CompleteInv, RowInv, TypeInv, TypeOK, Tables
  <1>3. /\ op'.pc = "count" /\ op'.owner = "watcher"
        /\ op'.items = Items /\ op'.limits = limits
    BY <1>1, BeginFields
  <1>4. Items = Copies(entries)
    BY ItemsAreCopies DEF StoreInv, CompleteInv, InsertKnown, Free
  <1>5. Copies(entries') = (Items \ {Copied(e)}) \cup {[Copied(e) EXCEPT !.used = call.at]}
    BY <1>1, <1>2, <1>4, RestampCopies
  <1>6. Copied(e) \in Items /\ Copied(e).hash = call.hash
    BY <1>2, <1>4, CopiedFields DEF Copies
  <1>7. Grown(Items, call.hash, call.at) =
            (Items \ {Copied(e)}) \cup {[Copied(e) EXCEPT !.used = call.at]}
    BY <1>2, <1>4, <1>6, GrownKnown, CopiesUnique
  <1>8. Due' = Grown(Items, call.hash, call.at)
    BY <1>2, <1>3 DEF Due
  <1> QED  BY <1>2, <1>3, <1>5, <1>7, <1>8 DEF Progress, Copies

\* So has a new one; it counts with all its payloads from the start.
LEMMA InsertEntryProgress ==
  ASSUME StoreInv, InsertEntry
  PROVE  Progress'
  <1>1. /\ entries' = entries \cup {NewRow} /\ call' = call /\ limits' = limits
        /\ call.hash # NoHash /\ FindByHash(call.hash) = {}
        /\ op' = Begin("payloads", "watcher", NextId, MimesOf[call.hash])
    BY DEF InsertEntry
  <1>2. /\ op'.pc = "payloads" /\ op'.owner = "watcher"
        /\ op'.items = Items /\ op'.limits = limits
    BY <1>1, BeginFields
  <1>3. Items = Copies(entries)
    BY ItemsAreCopies DEF StoreInv, CompleteInv, InsertEntry, Free
  <1> DEFINE new == [hash |-> call.hash, created |-> call.at, used |-> call.at,
                     mimes |-> MimesOf[call.hash]]
  <1>4. Copied(NewRow) = new
    BY NewRowFields DEF Copied
  <1>5. Copies(entries') = Items \cup {new}
    BY <1>1, <1>3, <1>4 DEF Copies
  <1>6. {i \in Items : i.hash = call.hash} = {}
    BY <1>1, <1>3, CopiedFields DEF Copies, FindByHash
  <1>7. Due' = Items \cup {new}
    BY <1>1, <1>2, <1>6 DEF Due, Grown
  <1> QED  BY <1>1, <1>2, <1>5, <1>7 DEF Progress, Copies

\* Counting evicts what does not fit, and leaves as many rows as do.
LEMMA TrimCountProgress ==
  ASSUME SmallLimits, StoreInv, TrimCount
  PROVE  Progress'
  <1>1. /\ AsI64(limits.entries) = limits.entries /\ limits.entries \in Nat
        /\ HashUnique /\ FiniteInv /\ TypeOK
    BY LimitsAssumption
    DEF SmallLimits, StoreInv, CompleteInv, RowInv, TypeInv, Tables, TypeOK, AsI64
  <1>2. PICK keep \in MostRecent(limits.entries) : KeepOnly(keep)
    BY <1>1 DEF TrimCount
  <1>3. entries' = keep /\ keep \subseteq entries
    BY <1>2, MostRecentKeeps DEF KeepOnly
  <1>4. op' = [op EXCEPT !.pc = "size"] /\ call' = call /\ limits' = limits /\ op.pc = "count"
    BY DEF TrimCount
  <1>5. /\ op'.pc = "size" /\ op'.owner = op.owner
        /\ op'.items = op.items /\ op'.limits = op.limits
    BY <1>1, <1>4, ActiveOp DEF Active
  <1>6. Due' = Copies(entries) /\ Due' = Due
    BY <1>4, <1>5 DEF Due, StoreInv, Progress, Free
  <1> DEFINE K == Copies(keep)
             T == Copies(entries)
  <1>7. Cardinality(keep) <= limits.entries /\ Evicted(K, T)
    <2>a. IsFiniteSet(entries) /\ Cardinality(entries) \in Nat
      BY FS_CardinalityType DEF StoreInv, FiniteInv
    <2>1. CASE Cardinality(entries) <= limits.entries
      <3>1. keep = entries
        BY <1>1, <2>1 DEF MostRecent
      <3> QED  BY <2>1, <3>1 DEF Evicted
    <2>2. CASE ~(Cardinality(entries) <= limits.entries)
      <3>1. /\ Cardinality(keep) = limits.entries
            /\ \A kept \in keep, gone \in entries \ keep : kept.used >= gone.used
        BY <1>1, <2>2 DEF MostRecent, kSubset
      <3>2. K \subseteq T
        BY <1>3 DEF Copies
      <3>3. ASSUME NEW i \in K, NEW j \in T \ K  PROVE i.used >= j.used
        <4>1. PICK a \in keep, b \in entries \ keep : i = Copied(a) /\ j = Copied(b)
          BY DEF Copies
        <4> QED  BY <3>1, <4>1, CopiedFields
      <3>4. IsFiniteSet(T) /\ IsFiniteSet(K) /\ Cardinality(K) = limits.entries
        BY <1>1, <1>3, <3>1, CopiesWeigh
      <3>5. ASSUME K # T
            PROVE  \E last \in T \ K : /\ \A gone \in T \ K : last.used >= gone.used
                                       /\ ~Promise!Fits(K \cup {last}, limits)
        <4>1. T \ K # {} /\ IsFiniteSet(T \ K)
          BY <3>2, <3>4, <3>5, FS_Subset
        <4>2. \A i \in T \ K : i.used \in Nat
          <5>1. \A e \in entries : e.used \in Nat
            BY <1>1, TimeFacts DEF TypeOK, EntryRow
          <5>2. \A i \in T : \E e \in entries : i.used = e.used
            BY CopiedFields DEF Copies
          <5> QED  BY <5>1, <5>2
        <4> HIDE DEF K, T
        <4>3. PICK last \in T \ K : \A gone \in T \ K : last.used >= gone.used
          BY <4>1, <4>2, LatestOf
        <4>4. Cardinality(K \cup {last}) = limits.entries + 1
          BY <3>4, <4>3, FS_AddElement
        <4>5. ~Promise!Fits(K \cup {last}, limits)
          BY <1>1, <4>4, FitsIs
        <4> QED  BY <4>3, <4>5
      <3> HIDE DEF K, T
      <3>6. limits.entries <= limits.entries
        BY <1>1
      <3> QED  BY <3>1, <3>2, <3>3, <3>5, <3>6 DEF Evicted
    <2> QED  BY <2>1, <2>2
  <1> HIDE DEF K, T
  <1>8. op'.owner = "watcher" => call.hash # NoHash /\ op'.limits = limits
    BY <1>4, <1>5 DEF StoreInv, Progress, Free
  <1>9. Evicted(Copies(entries), Due)'
    BY <1>3, <1>4, <1>6, <1>7 DEF Evicted, K, T
  <1> QED  BY <1>3, <1>4, <1>5, <1>7, <1>8, <1>9 DEF Progress

\* Deleting the oldest row, which does not fit, evicts no more than has to go.
LEMMA TrimOldestProgress ==
  ASSUME SmallLimits, StoreInv, TrimOldest
  PROVE  Progress'
  <1>1. /\ AsI64(limits.size) = limits.size /\ limits.size \in Nat /\ limits.entries \in Nat
        /\ HashUnique /\ FiniteInv /\ TypeOK
    BY LimitsAssumption
    DEF SmallLimits, StoreInv, CompleteInv, RowInv, TypeInv, Tables, TypeOK, AsI64
  <1>2. PICK e \in entries : /\ \A f \in entries \ {e} : Older(e, f)
                             /\ KeepOnly(entries \ {e})
    BY DEF TrimOldest
  <1>3. /\ entries' = entries \ {e} /\ op' = op /\ call' = call /\ limits' = limits
        /\ op.pc = "size" /\ ~(Total(entries) <= limits.size)
    BY <1>1, <1>2 DEF TrimOldest, KeepOnly, WithinSize
  <1>4. /\ Cardinality(entries) <= limits.entries
        /\ Evicted(Copies(entries), Due)
        /\ op.owner = "watcher" => call.hash # NoHash /\ op.limits = limits
    BY <1>3 DEF StoreInv, Progress, Free
  <1>5. Cardinality(entries') <= limits.entries
    <2>1. Cardinality(entries) = Cardinality(entries \ {e}) + 1
          /\ Cardinality(entries \ {e}) \in Nat
      BY <1>1, Without DEF FiniteInv
    <2> QED  BY <1>1, <1>3, <1>4, <2>1
  <1>6. \A f \in entries : f.used \in Nat /\ e.used <= f.used
    <2>1. \A f \in entries : f.used \in Nat
      BY <1>1, TimeFacts DEF TypeOK, EntryRow
    <2>2. \A f \in entries \ {e} : e.used < f.used \/ e.used = f.used
      BY <1>2 DEF Older
    <2> QED  BY <2>1, <2>2
  <1> DEFINE K == Copies(entries)
             i == Copied(e)
  <1>7. i \in K /\ i.used = e.used /\ Copies(entries') = K \ {i}
    BY <1>1, <1>3, CopiesWithout, CopiedFields DEF Copies
  <1>8. \A j \in K : j.used \in Nat /\ i.used <= j.used
    BY <1>6, <1>7, CopiedFields DEF Copies
  <1>9. ~Promise!Fits(K, limits)
    <2>1. Promise!Total(K) = Total(entries)
      BY <1>1, CopiesWeigh
    <2> QED  BY <1>3, <2>1, FitsIs
  <1>10. Evicted(K \ {i}, Due)
    <2>1. /\ K \subseteq Due
          /\ \A kept \in K, gone \in Due \ K : kept.used >= gone.used
      BY <1>4 DEF Evicted
    <2>2. \A gone \in Due \ (K \ {i}) : gone = i \/ gone \in Due \ K
      OBVIOUS
    <2> HIDE DEF K, i
    <2>3. \A kept \in K \ {i}, gone \in Due \ (K \ {i}) : kept.used >= gone.used
      BY <1>7, <1>8, <2>1, <2>2
    <2>4. \A gone \in Due \ (K \ {i}) : i.used >= gone.used
      BY <1>7, <1>8, <2>1, <2>2
    <2>5. (K \ {i}) \cup {i} = K
      BY <1>7
    <2>6. i \in Due \ (K \ {i}) /\ ~Promise!Fits((K \ {i}) \cup {i}, limits)
      BY <1>7, <1>9, <2>1, <2>5
    <2> QED  BY <2>1, <2>3, <2>4, <2>6 DEF Evicted
  <1>11. Due' = Due
    BY <1>3 DEF Due
  <1>12. Evicted(Copies(entries), Due)'
    BY <1>3, <1>7, <1>10, <1>11 DEF Evicted
  <1> QED  BY <1>3, <1>4, <1>5, <1>12 DEF Progress, Free

\* A client that has the configuration reloaded trims what it found.
LEMMA ReloadProgress ==
  ASSUME StoreInv, ReloadConfig
  PROVE  Progress'
  <1>1. op' = Begin("count", "client", 0, {}) /\ entries' = entries
    BY DEF ReloadConfig
  <1>2. op'.pc = "count" /\ op'.owner = "client" /\ op'.items = Items
    BY <1>1, BeginFields
  <1>3. Items = Copies(entries)
    BY ItemsAreCopies DEF StoreInv, CompleteInv, ReloadConfig, Free
  <1> QED  BY <1>1, <1>2, <1>3 DEF Progress, Due, Copies

\* A payload row more changes neither the rows nor what is to be trimmed.
LEMMA InsertPayloadProgress ==
  ASSUME StoreInv, InsertPayload
  PROVE  Progress'
  <1>1. PICK m \in op.todo : op' = [op EXCEPT !.todo = @ \ {m}, !.pc = AfterPayload(m)]
    BY DEF InsertPayload
  <1>2. op \in Active
    BY ActiveOp DEF StoreInv, CompleteInv, RowInv, TypeInv, InsertPayload
  <1>3. /\ op'.owner = op.owner /\ op'.items = op.items /\ op'.limits = op.limits
        /\ op'.pc \in {"payloads", "count"}
    BY <1>1, <1>2 DEF Active, AfterPayload
  <1>4. op.pc = "payloads" /\ UNCHANGED <<entries, limits, call>>
    BY DEF InsertPayload
  <1> QED  BY <1>3, <1>4 DEF StoreInv, Progress, Due, Free, Copies

\* Every step keeps the request on its way.
LEMMA StoreStep ==
  ASSUME ~Faults, SmallLimits
  PROVE  StoreInv /\ [Next]_vars => StoreInv'
  <1> SUFFICES ASSUME StoreInv, [Next]_vars
               PROVE  Progress'
    BY CompleteStep, FiniteStep DEF StoreInv
  <1>a. ASSUME Free'  PROVE Progress'
    BY <1>a DEF Progress
  <1>b. ASSUME UNCHANGED <<entries, limits, op>>,
               call' = call \/ call.hash = NoHash
        PROVE  Progress'
    BY <1>b DEF StoreInv, Progress, Due, Free, Copies, Evicted
  <1>1. CASE InsertKnown
    BY <1>1, InsertKnownProgress
  <1>2. CASE InsertEntry
    BY <1>2, InsertEntryProgress
  <1>3. CASE InsertPayload
    BY <1>3, InsertPayloadProgress
  <1>4. CASE TrimCount
    BY <1>4, TrimCountProgress
  <1>5. CASE TrimOldest
    BY <1>5, TrimOldestProgress
  <1>6. CASE ReloadConfig
    BY <1>6, ReloadProgress
  <1>7. CASE Tick \/ SaveConfig \/ (\E h \in Hash : TakeStamp(h)) \/ UNCHANGED vars
    BY <1>7, <1>b DEF Tick, SaveConfig, TakeStamp, vars
  <1>8. CASE TrimDone \/ Restart \/ StatementFails \/ InsertFails
    BY <1>8, <1>a DEF TrimDone, Restart, StatementFails, InsertFails, Finish, Idle, Free
  <1>9. CASE RestoreTouch \/ Delete \/ Clear
    BY <1>9, <1>a DEF RestoreTouch, Delete, Clear, Free
  <1> QED
    BY <1>1, <1>2, <1>3, <1>4, <1>5, <1>6, <1>7, <1>8, <1>9 DEF Next

-----------------------------------------------------------------------------
(***************************************************************************)
(* Each step is one of the promised store, or none.                        *)
(***************************************************************************)

\* What the promised store holds.
Shown == IF Free THEN Items ELSE op.items
InForce == IF Free THEN limits ELSE op.limits

\* Between requests that is what the rows say.
Seen == IF Free THEN Copies(entries) ELSE op.items

\* What a client finds is the rows when the mutex is free, and the items before the
\* request when it is not.
LEMMA ShownIsSeen == (StoreInv => Shown = Seen) /\ (StoreInv' => Shown' = Seen')
  <1>1. StoreInv => Shown = Seen
    BY ItemsAreCopies DEF StoreInv, CompleteInv, Shown, Seen, Free
  <1>2. (StoreInv => Shown = Seen)'
    BY <1>1, PTL
  <1> QED  BY <1>1, <1>2

\* The operations of the promised store, of what is shown.
LEMMA PromisedTouch ==
  ASSUME NEW i \in Shown, NEW t \in Time,
         Shown' = (Shown \ {i}) \cup {[i EXCEPT !.used = t]}, InForce' = InForce
  PROVE  Promise!Next
  <1>1. Promise!Touch(i, t)
    BY DEF Promise!Touch, Shown, InForce
  <1> QED  BY <1>1 DEF Promise!Next, Shown

\* A history that loses one entry has taken a delete.
LEMMA PromisedDelete ==
  ASSUME NEW i \in Shown, Shown' = Shown \ {i}, InForce' = InForce
  PROVE  Promise!Next
  <1>1. Promise!Delete(i)
    BY DEF Promise!Delete, Shown, InForce
  <1> QED  BY <1>1 DEF Promise!Next, Shown

\* A history that is empty has taken a clear.
LEMMA PromisedClear ==
  ASSUME Shown' = {}, InForce' = InForce
  PROVE  Promise!Next
  BY DEF Promise!Next, Promise!Clear, Shown, InForce

\* A history with a copy added or used, and trimmed, has taken a store.
LEMMA PromisedStore ==
  ASSUME NEW h \in Hash, NEW t \in Time,
         Shown' \in Promise!Trimmed(Grown(Shown, h, t), InForce), InForce' = InForce
  PROVE  Promise!Next
  <1>1. Promise!Store(h, t)
    BY DEF Promise!Store, Promise!Holding, Grown, Shown, InForce
  <1> QED  BY <1>1 DEF Promise!Next

\* A history trimmed to new limits has taken a change of the configuration.
LEMMA PromisedConfigure ==
  ASSUME NEW l \in LimitsSet, InForce' = l, Shown' \in Promise!Trimmed(Shown, l)
  PROVE  Promise!Next
  <1>1. Promise!Configure(l)
    BY DEF Promise!Configure, Shown, InForce
  <1> QED  BY <1>1 DEF Promise!Next

\* A history that stays, under the limits of the file, has been opened again.
LEMMA PromisedReopen ==
  ASSUME NEW l \in LimitsSet, InForce' = l, Shown' = Shown
  PROVE  Promise!Next
  <1>1. Promise!Reopen(l)
    BY DEF Promise!Reopen, Shown, InForce
  <1> QED  BY <1>1 DEF Promise!Next

\* When trim is done, one of the sets it may leave is left.
LEMMA TrimmedAtLast ==
  ASSUME SmallLimits, StoreInv, op.pc = "size", WithinSize \/ entries = {}
  PROVE  Copies(entries) \in Promise!Trimmed(Due, limits)
  <1>1. /\ Cardinality(entries) <= limits.entries /\ Evicted(Copies(entries), Due)
        /\ HashUnique /\ FiniteInv
    BY DEF StoreInv, Progress, Free, CompleteInv, RowInv, Tables
  <1>2. limits.size \in Nat /\ AsI64(limits.size) = limits.size
    BY LimitsAssumption
    DEF SmallLimits, StoreInv, CompleteInv, RowInv, TypeInv, TypeOK, AsI64
  <1>3. /\ Cardinality(Copies(entries)) = Cardinality(entries)
        /\ Promise!Total(Copies(entries)) = Total(entries)
    BY <1>1, CopiesWeigh
  <1>4. Total(entries) <= limits.size
    <2>1. CASE WithinSize
      BY <1>2, <2>1 DEF WithinSize
    <2>2. CASE entries = {}
      <3>1. Total({}) = 0
        BY TotalsAreSums, SumEmpty, FS_EmptySet
      <3> QED  BY <1>2, <2>2, <3>1
    <2> QED  BY <2>1, <2>2
  <1>5. Promise!Fits(Copies(entries), limits)
    BY <1>1, <1>3, <1>4, FitsIs
  <1> QED  BY <1>1, <1>5 DEF Evicted, Promise!Trimmed

\* The end of a request is the whole request.
LEMMA DoneIsPromised ==
  ASSUME SmallLimits, StoreInv, StoreInv', TrimDone
  PROVE  Promise!Next
  <1>1. /\ op.pc = "size" /\ op' = Idle /\ entries' = entries /\ limits' = limits
        /\ WithinSize \/ entries = {}
    BY DEF TrimDone, Finish
  <1>2. Copies(entries) \in Promise!Trimmed(Due, limits)
    BY <1>1, TrimmedAtLast
  <1>3. Free' /\ ~Free
    BY <1>1 DEF Free, Idle
  <1>4. Shown' = Copies(entries) /\ InForce' = limits
    BY <1>1, <1>3, ShownIsSeen DEF Seen, InForce, Copies
  <1>5. Shown = op.items /\ InForce = op.limits
    BY <1>3 DEF Shown, InForce
  <1>6. TypeOK /\ op \in Active
    BY <1>1, ActiveOp DEF StoreInv, CompleteInv, RowInv, TypeInv
  <1>7. CASE op.owner = "watcher"
    <2>1. call.hash \in Hash /\ call.at \in Time /\ op.limits = limits
      BY <1>3, <1>6, <1>7 DEF TypeOK, StoreInv, Progress
    <2>2. Due = Grown(op.items, call.hash, call.at)
      BY <1>7 DEF Due
    <2> QED  BY <1>2, <1>4, <1>5, <2>1, <2>2, PromisedStore
  <1>8. CASE op.owner = "client"
    <2>1. Due = op.items /\ limits \in LimitsSet
      BY <1>6, <1>8 DEF Due, TypeOK
    <2> QED  BY <1>2, <1>4, <1>5, <2>1, PromisedConfigure
  <1> QED  BY <1>6, <1>7, <1>8 DEF Active

\* A step that shows nothing new.
LEMMA StepsUnseen ==
  ASSUME StoreInv, StoreInv',
         \/ Free /\ Free' /\ UNCHANGED <<entries, limits>>
         \/ Free /\ ~Free' /\ op'.items = Items /\ op'.limits = limits
         \/ ~Free /\ ~Free' /\ op'.items = op.items /\ op'.limits = op.limits
  PROVE  UNCHANGED <<Shown, InForce>>
  <1>1. CASE Free /\ Free' /\ UNCHANGED <<entries, limits>>
    BY <1>1, ShownIsSeen DEF Seen, InForce, Copies
  <1>2. CASE Free /\ ~Free' /\ op'.items = Items /\ op'.limits = limits
    BY <1>2 DEF Shown, InForce
  <1>3. CASE ~Free /\ ~Free' /\ op'.items = op.items /\ op'.limits = op.limits
    BY <1>3 DEF Shown, InForce
  <1> QED  BY <1>1, <1>2, <1>3

\* The statement that ends a request is the request of the store; every other changes
\* nothing a client finds.
LEMMA StoreSimulation ==
  ASSUME ~Faults, SmallLimits, StoreInv, StoreInv', [Next]_vars
  PROVE  Promise!Next \/ UNCHANGED <<Shown, InForce>>
  <1>i. TypeOK /\ HashUnique
    BY DEF StoreInv, CompleteInv, RowInv, TypeInv, Tables
  <1>s. Free => Shown = Copies(entries) /\ InForce = limits
    BY ShownIsSeen DEF Seen, InForce
  <1>t. Free' => Shown' = Copies(entries') /\ InForce' = limits'
    BY ShownIsSeen DEF Seen, InForce, Copies
  <1>1. CASE Tick \/ SaveConfig \/ (\E h \in Hash : TakeStamp(h)) \/ UNCHANGED vars
    <2>1. UNCHANGED <<entries, limits, op>>
      BY <1>1 DEF Tick, SaveConfig, TakeStamp, vars
    <2>2. Free' = Free
      BY <2>1 DEF Free
    <2> QED  BY <2>1, <2>2, StepsUnseen
  <1>2. CASE InsertKnown \/ InsertEntry \/ ReloadConfig
    <2>1. Free
      BY <1>2 DEF InsertKnown, InsertEntry, ReloadConfig
    <2>2. PICK pc, owner, id, todo :
              pc \in {"payloads", "count"} /\ op' = Begin(pc, owner, id, todo)
      BY <1>2 DEF InsertKnown, InsertEntry, ReloadConfig
    <2>3. CASE ~ReloadConfig
      <3>1. limits' = limits
        BY <1>2, <2>3 DEF InsertKnown, InsertEntry
      <3>2. ~Free' /\ op'.items = Items /\ op'.limits = limits
        BY <2>2, BeginFields DEF Free
      <3> QED  BY <2>1, <3>2, StepsUnseen
    <2>4. CASE ReloadConfig
      <3>2. ~Free' /\ op'.items = Items /\ op'.limits = limits
        BY <2>2, BeginFields DEF Free
      <3> QED  BY <2>1, <3>2, StepsUnseen
    <2> QED  BY <2>3, <2>4
  <1>3. CASE InsertPayload
    <2>1. PICK m \in op.todo : op' = [op EXCEPT !.todo = @ \ {m}, !.pc = AfterPayload(m)]
      BY <1>3 DEF InsertPayload
    <2>2. op \in Active /\ op.pc = "payloads"
      BY <1>3, <1>i, ActiveOp DEF InsertPayload
    <2>3. /\ op'.items = op.items /\ op'.limits = op.limits
          /\ op'.pc \in {"payloads", "count"}
      BY <2>1, <2>2 DEF Active, AfterPayload
    <2> QED  BY <2>2, <2>3, StepsUnseen DEF Free
  <1>4. CASE TrimCount
    <2>1. op.pc = "count" /\ op' = [op EXCEPT !.pc = "size"]
      BY <1>4 DEF TrimCount
    <2>2. op'.items = op.items /\ op'.limits = op.limits /\ op'.pc = "size"
      BY <1>i, <2>1, ActiveOp DEF Active
    <2> QED  BY <2>1, <2>2, StepsUnseen DEF Free
  <1>5. CASE TrimOldest
    <2>1. op.pc = "size" /\ op' = op
      BY <1>5 DEF TrimOldest
    <2> QED  BY <2>1, StepsUnseen DEF Free
  <1>6. CASE TrimDone
    BY <1>6, DoneIsPromised
  <1>7. CASE RestoreTouch
    <2>1. PICK e \in entries :
             entries' = (entries \ {e}) \cup {[e EXCEPT !.used = clock]}
      BY <1>7 DEF RestoreTouch
    <2>2. Free /\ op' = op /\ limits' = limits /\ clock \in Time
      BY <1>7, <1>i DEF RestoreTouch, TypeOK
    <2>3. Free'
      BY <2>2 DEF Free
    <2>4. Copies(entries')
              = (Copies(entries) \ {Copied(e)}) \cup {[Copied(e) EXCEPT !.used = clock]}
      BY <1>i, <2>1, <2>2, RestampCopies
    <2>5. Copied(e) \in Shown
      BY <1>s, <2>1, <2>2 DEF Copies
    <2> QED  BY <1>s, <1>t, <2>2, <2>3, <2>4, <2>5, PromisedTouch
  <1>8. CASE Delete
    <2>1. PICK e \in entries : entries' = entries \ {e}
      BY <1>8 DEF Delete, KeepOnly
    <2>2. Free /\ op' = op /\ limits' = limits
      BY <1>8 DEF Delete
    <2>3. Free'
      BY <2>2 DEF Free
    <2>4. Shown' = Shown \ {Copied(e)} /\ Copied(e) \in Shown
      BY <1>i, <1>s, <1>t, <2>1, <2>2, <2>3, CopiesWithout DEF Copies
    <2> QED  BY <1>s, <1>t, <2>2, <2>3, <2>4, PromisedDelete
  <1>9. CASE Clear
    <2>1. Free /\ Free' /\ limits' = limits /\ entries' = {}
      BY <1>9 DEF Clear, KeepOnly, Free
    <2>2. Shown' = {}
      BY <1>t, <2>1 DEF Copies
    <2> QED  BY <1>s, <1>t, <2>1, <2>2, PromisedClear
  <1>10. CASE Restart
    <2>1. Free /\ entries' = entries /\ limits' = saved /\ op' = Idle /\ saved \in LimitsSet
      BY <1>10, <1>i DEF Restart, TypeOK
    <2>2. Free'
      BY <2>1 DEF Free, Idle
    <2> QED  BY <1>s, <1>t, <2>1, <2>2, PromisedReopen
  <1>11. CASE InsertFails
    <2>1. UNCHANGED <<entries, limits, op>>
      BY <1>11 DEF InsertFails
    <2>2. Free' = Free
      BY <2>1 DEF Free
    <2> QED  BY <2>1, <2>2, StepsUnseen
  <1> QED
    BY <1>1, <1>2, <1>3, <1>4, <1>5, <1>6, <1>7, <1>8, <1>9, <1>10, <1>11
    DEF Next, StatementFails

\* The database starts empty, with the limits of the file.
LEMMA StoreStart == Init => StoreInv /\ Promise!Init
  <1> SUFFICES ASSUME Init  PROVE StoreInv /\ Promise!Init
    OBVIOUS
  <1>1. RowInv
    BY TimeFacts, BoundsAssumption
    DEF Init, RowInv, TypeInv, TypeOK, CopyPresent, NoCall, Idle, Tables, CopyRow,
        IdsUnique, IdsGiven, HashUnique, PayloadsMatchHash
  <1>2. entries = {} /\ Free /\ limits \in LimitsSet
    BY DEF Init, Idle, Free
  <1>3. StoreInv
    BY <1>1, <1>2, FS_EmptySet
    DEF StoreInv, CompleteInv, RowInv, CompleteOrCopying, FiniteInv, Progress
  <1> QED  BY <1>2, <1>3 DEF Promise!Init, Items

\* As long as no fault cuts a request short, the statement-by-statement database is
\* the store whose requests are atomic: a client that takes the mutex finds every copy
\* whole, and of a history over its limits the most recently used part that fits.
THEOREM StatementsAreAtomic ==
  ASSUME ~Faults, SmallLimits
  PROVE  Spec => ImplementsPromise
  <1>1. Init => StoreInv /\ Promise!Init
    BY StoreStart
  <1>2. StoreInv /\ [Next]_vars => StoreInv'
    BY StoreStep
  <1>3. StoreInv /\ StoreInv' /\ [Next]_vars => [Promise!Next]_Promise!vars
    BY StoreSimulation DEF Promise!vars, Shown, InForce
  <1> QED  BY <1>1, <1>2, <1>3, PTL DEF Spec, ImplementsPromise, Promise!Spec
=============================================================================
