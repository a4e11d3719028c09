------------------------- MODULE PayloadPipes_proofs -------------------------
(***************************************************************************)
(* Theorems about PayloadPipes for every set of MIME types, every amount   *)
(* of data and all sizes of pipes, chunks and payloads, checked by TLAPS.  *)
(***************************************************************************)
EXTENDS PayloadPipes, Sums_proofs

\* What each place in process_ready knows of the pipes.
Places ==
    /\ pc \in {"receive", "flush"} => done = {} /\ polled = {} /\ closed = {}
    /\ pc = "receive" => lost = {}
    /\ pc # "end" => result = {}
    /\ pc = "poll" => polled = {}
    /\ Transferring => held = {}
    /\ outcome \in {"payloads", "nothing"} =>
           /\ pc = "end" /\ done = pipes
           /\ result = WithData
           /\ outcome = "nothing" <=> result = {}

\* No pipe gives more than was written into it, and none takes more than there is.
Flow == \A m \in Mime : taken[m] <= written[m] /\ written[m] <= size[m]

\* A pipe whose write end is closed by a source that lives has all its data; a MIME
\* type that has not failed has a pipe, and that pipe has given all it got when it is
\* done.
Ends ==
    /\ ~died => \A m \in closed : written[m] = size[m]
    /\ \A m \in done \ lost : m \in closed /\ taken[m] = written[m]
    /\ pc # "receive" => Mime \ lost \subseteq pipes

Inv == TypeOK /\ Places /\ Flow /\ Ends /\ ReadsNeverBlock

-----------------------------------------------------------------------------
\* What a read takes is there, and does not exceed what the limit leaves.
LEMMA CountFits ==
  ASSUME TypeOK, Flow, NEW m \in Mime, ~Finished(m)
  PROVE  /\ Count(m) \in Nat /\ 0 < Count(m)
         /\ taken[m] + Count(m) <= written[m]
         /\ ~Exceeds(m) => total + Count(m) \in 0 .. MaxPayload
  BY UnitsAssumption DEF TypeOK, Flow, Finished, Count, Exceeds, Buffered

\* Every step of the watcher and of the source keeps the invariant.
LEMMA InvStep == Inv /\ [Next]_vars => Inv'
  <1> SUFFICES ASSUME Inv, [Next]_vars  PROVE Inv'
    OBVIOUS
  <1> USE UnitsAssumption DEF Inv, WithData, watcher, source
  <1>1. CASE Receive
    BY <1>1
    DEF Receive, TypeOK, Places, Flow, Ends, ReadsNeverBlock, Transferring
  <1>2. CASE Flush
    BY <1>2
    DEF Flush, TypeOK, Places, Flow, Ends, ReadsNeverBlock, Transferring
  <1>3. CASE FlushFails \/ TimeOut \/ PollFails
    BY <1>3
    DEF FlushFails, TimeOut, PollFails, End, TypeOK, Places, Flow, Ends,
        ReadsNeverBlock, Transferring
  <1>3a. CASE Complete
    BY <1>3a
    DEF Complete, End, TypeOK, Places, Flow, Ends, ReadsNeverBlock,
        Transferring
  <1>4. CASE Poll
    BY <1>4
    DEF Poll, Ready, TypeOK, Places, Flow, Ends, ReadsNeverBlock, Transferring,
        Readable, Buffered, AtEnd
  <1>5. ASSUME NEW m \in Mime, ReadEnd(m)  PROVE Inv'
    <2>1. m \in closed /\ taken[m] = written[m]
      BY <1>5
      DEF ReadEnd, Finished, ReadsNeverBlock, Readable, AtEnd, Buffered, TypeOK
    <2>2. TypeOK' /\ Places'
      BY <1>5 DEF ReadEnd, Advance, TypeOK, Places, Transferring
    <2>3. Flow' /\ Ends'
      BY <1>5, <2>1 DEF ReadEnd, Advance, Flow, Ends
    <2>4. ReadsNeverBlock'
      BY <1>5 DEF ReadEnd, Advance, ReadsNeverBlock, Readable, AtEnd, Buffered
    <2> QED  BY <2>2, <2>3, <2>4
  <1>6. ASSUME NEW m \in Mime, ReadChunk(m)  PROVE Inv'
    <2>1. /\ taken' = [taken EXCEPT ![m] = @ + Count(m)] /\ Count(m) \in Nat
          /\ taken[m] + Count(m) <= written[m]
          /\ total' \in 0 .. MaxPayload
          /\ UNCHANGED <<pipes, held, done, outcome, result, lost, size, written, closed, died>>
          /\ polled' = polled \ {m} /\ pc' \in {"poll", "read"}
          /\ pc' = "poll" => polled' = {}
          /\ pc = "read" /\ m \in polled
      BY <1>6, CountFits DEF ReadChunk, Advance
    <2> HIDE DEF Count
    <2>2. TypeOK' /\ Places'
      BY <2>1 DEF TypeOK, Places, Transferring
    <2>3. Flow' /\ Ends'
      BY <2>1 DEF Flow, Ends, TypeOK
    <2>4. ReadsNeverBlock'
      BY <2>1 DEF ReadsNeverBlock, Readable, AtEnd, Buffered, TypeOK
    <2> QED  BY <2>2, <2>3, <2>4
  <1>7. ASSUME NEW m \in Mime, ReadTooLarge(m)  PROVE Inv'
    BY <1>7
    DEF ReadTooLarge, End, TypeOK, Places, Flow, Ends, ReadsNeverBlock, Transferring
  <1>8. ASSUME NEW m \in Mime, ReadFails(m)  PROVE Inv'
    <2>1. TypeOK' /\ Places'
      BY <1>8 DEF ReadFails, Advance, TypeOK, Places, Transferring
    <2>2. Flow' /\ Ends'
      BY <1>8 DEF ReadFails, Advance, Flow, Ends
    <2>3. ReadsNeverBlock'
      BY <1>8 DEF ReadFails, Advance, ReadsNeverBlock, Readable, AtEnd, Buffered
    <2> QED  BY <2>1, <2>2, <2>3
  <1>9. CASE NextOffer
    <2>1. /\ taken' \in [Mime -> Nat] /\ written' \in [Mime -> Nat]
          /\ \A m \in Mime : taken'[m] = 0 /\ written'[m] = 0
      BY <1>9 DEF NextOffer, Nothing
    <2>2. /\ pc' = "receive" /\ outcome' = "none" /\ total' = 0
          /\ pipes' = {} /\ held' = {} /\ polled' = {} /\ done' = {} /\ closed' = {}
          /\ result' = {} /\ lost' = {} /\ died' = FALSE /\ size' \in [Mime -> 0 .. MaxSize]
      BY <1>9 DEF NextOffer
    <2>a. died' \in BOOLEAN
      BY <2>2, Zenon
    <2>b. total' \in 0 .. MaxPayload
      BY <2>2
    <2>3. TypeOK' /\ Places'
      BY <2>1, <2>2, <2>a, <2>b DEF TypeOK, Places, Transferring
    <2>4. \A m \in Mime : size'[m] \in Nat
      BY <2>2
    <2>5. Flow'
      BY <2>1, <2>4 DEF Flow
    <2>6. Ends' /\ ReadsNeverBlock'
      BY <2>2 DEF Ends, ReadsNeverBlock
    <2> QED  BY <2>3, <2>5, <2>6
  <1>10. ASSUME NEW m \in Mime, Write(m)  PROVE Inv'
    <2>1. TypeOK' /\ Places'
      BY <1>10 DEF Write, TypeOK, Places, Transferring
    <2>2. Flow'
      BY <1>10 DEF Write, Writing, Flow, TypeOK
    <2>3. Ends'
      BY <1>10 DEF Write, Writing, Ends, TypeOK
    <2>4. ReadsNeverBlock'
      BY <1>10
      DEF Write, ReadsNeverBlock, Readable, AtEnd, Buffered, TypeOK
    <2> QED  BY <2>1, <2>2, <2>3, <2>4
  <1>11. ASSUME NEW m \in Mime, Close(m)  PROVE Inv'
    BY <1>11
    DEF Close, TypeOK, Places, Flow, Ends, ReadsNeverBlock, Transferring, Readable,
        AtEnd, Buffered
  <1>12. CASE Die
    BY <1>12
    DEF Die, TypeOK, Places, Flow, Ends, ReadsNeverBlock, Transferring, Readable,
        AtEnd, Buffered
  <1>13. CASE UNCHANGED vars
    BY <1>13
    DEF vars, TypeOK, Places, Flow, Ends, ReadsNeverBlock, Transferring, Readable,
        AtEnd, Buffered
  <1> HIDE DEF Inv
  <1> QED
    BY <1>1, <1>2, <1>3, <1>3a, <1>4, <1>5, <1>6, <1>7, <1>8, <1>9, <1>10, <1>11,
       <1>12, <1>13
    DEF Next, Transfer

\* The invariant holds in every state.
LEMMA InvAlways == Spec => []Inv
  <1>1. Init => Inv
    <2> SUFFICES ASSUME Init  PROVE Inv
      OBVIOUS
    <2>1. /\ taken \in [Mime -> Nat] /\ written \in [Mime -> Nat]
          /\ \A m \in Mime : taken[m] = 0 /\ written[m] = 0
      BY DEF Init, Nothing
    <2>2. \A m \in Mime : size[m] \in Nat
      BY DEF Init
    <2>a. died \in BOOLEAN
      BY Zenon DEF Init
    <2>b. total \in 0 .. MaxPayload
      BY UnitsAssumption DEF Init
    <2>3. TypeOK /\ Places
      BY <2>1, <2>a, <2>b DEF Init, TypeOK, Places, Transferring
    <2>4. Flow
      BY <2>1, <2>2 DEF Flow
    <2>5. Ends /\ ReadsNeverBlock
      BY DEF Init, Ends, ReadsNeverBlock
    <2> QED  BY <2>3, <2>4, <2>5 DEF Inv
  <1> QED  BY <1>1, InvStep, PTL DEF Spec

-----------------------------------------------------------------------------
\* Types, for any offer and any source.
THEOREM PipesTypeCorrect == Spec => []TypeOK
  <1>1. Inv => TypeOK
    BY DEF Inv
  <1> QED  BY <1>1, InvAlways, PTL

\* The watcher never reads a pipe that has nothing to give.
THEOREM NoBlockingRead == Spec => []ReadsNeverBlock
  <1>1. Inv => ReadsNeverBlock
    BY DEF Inv
  <1> QED  BY <1>1, InvAlways, PTL

\* What a transfer returns is what the source wrote: every MIME type with data that
\* has not failed, whole, and none without data.
THEOREM OfferIsWhole == Spec => []WholeOffer
  <1>1. Inv => WholeOffer
    <2> SUFFICES ASSUME Inv, outcome \in {"payloads", "nothing"}
                 PROVE  /\ \A m \in Mime \ lost :
                               /\ m \in result <=> written[m] > 0
                               /\ taken[m] = written[m]
                               /\ died \/ written[m] = size[m]
                        /\ \A m \in result : 0 < taken[m] /\ taken[m] <= written[m]
                        /\ outcome = "nothing" <=> result = {}
      BY DEF WholeOffer
    <2>1. /\ pc = "end" /\ done = pipes /\ result = WithData
          /\ outcome = "nothing" <=> result = {}
      BY DEF Inv, Places
    <2>2. ASSUME NEW m \in Mime \ lost
          PROVE  /\ m \in result <=> written[m] > 0
                 /\ taken[m] = written[m]
                 /\ died \/ written[m] = size[m]
      <3>1. m \in pipes /\ m \in done
        BY <2>1 DEF Inv, Ends
      <3>2. m \in closed /\ taken[m] = written[m]
        BY <3>1 DEF Inv, Ends
      <3> QED  BY <2>1, <3>1, <3>2 DEF Inv, Ends, WithData
    <2>3. \A m \in result : 0 < taken[m] /\ taken[m] <= written[m]
      BY <2>1 DEF Inv, Flow, WithData, TypeOK
    <2> QED  BY <2>1, <2>2, <2>3
  <1> QED  BY <1>1, InvAlways, PTL

\* A source that waits for room, or has finished, is not timed out: all pipes that
\* are not done are polled together, and a pipe that is done is closed or has failed.
THEOREM NoDeadlockWithSource == Spec => TimesOutIdleOnly
  <1>1. ASSUME Inv, TimeOut
        PROVE  closed # pipes /\ \A m \in Mime \ lost : ~Blocked(m)
    <2>1. /\ done \ lost \subseteq closed /\ done \subseteq pipes /\ done # pipes
          /\ held = {}
          /\ \A m \in pipes \ done : ~Readable(m)
      BY <1>1 DEF Inv, TypeOK, Ends, Places, Transferring, TimeOut, Ready
    <2>2. closed # pipes
      BY <2>1 DEF Readable, AtEnd
    <2>3. ASSUME NEW m \in Mime \ lost, Blocked(m)  PROVE FALSE
      <3>1. m \in pipes \ done
        BY <2>1, <2>3 DEF Blocked, Writing
      <3>2. Buffered(m) > 0
        BY <2>3, UnitsAssumption DEF Blocked
      <3> QED  BY <2>1, <3>1, <3>2 DEF Readable
    <2> QED  BY <2>2, <2>3
  <1>2. Inv /\ [Next]_vars =>
            [TimeOut => closed # pipes /\ \A m \in Mime \ lost : ~Blocked(m)]_vars
    BY <1>1
  <1> QED  BY <1>2, InvAlways, PTL DEF Spec, TimesOutIdleOnly

-----------------------------------------------------------------------------
(***************************************************************************)
(* The limit of a transfer.  In total the watcher counts what it takes     *)
(* from all pipes together, and it compares before it takes more.          *)
(***************************************************************************)

\* total is what has been taken; what is refused would not have fitted.
Counted ==
    /\ total = Sum(taken)
    /\ outcome = "too_large" => pc = "end" /\ Sum(size) > MaxPayload

\* The fold of the model is the sum over all MIME types.
LEMMA SumIsSum ==
  ASSUME NEW f \in [Mime -> Nat]
  PROVE  Sum(f) = SumOver(f, Mime) /\ Weights(f, Mime) /\ Sum(f) \in Nat
  <1>1. Sum(f) = SumsOf(f, DOMAIN f)[DOMAIN f]
    BY DEF Sum, FoldFunction, FoldFunctionOnSet, MapThenFoldSet, SumsOf, IsSums, Chosen
  <1>2. DOMAIN f = Mime /\ Weights(f, Mime)
    BY DEF Weights
  <1> QED  BY <1>1, <1>2, MimeAssumption, SumNat DEF SumOver

\* Nothing taken is 0.
LEMMA SumOfNothing == Sum(Nothing) = 0
  <1>1. Nothing \in [Mime -> Nat]
    BY DEF Nothing
  <1>2. SumOver(Nothing, Mime) = 0
    <2> DEFINE P == {A \in SUBSET Mime : SumOver(Nothing, A) = 0}
    <2>1. {} \in P
      BY SumEmpty
    <2>2. ASSUME NEW A \in SUBSET Mime, A # {}, \A x \in A : A \ {x} \in P
          PROVE  A \in P
      <3>1. PICK x \in A : TRUE
        BY <2>2
      <3>2. IsFiniteSet(A) /\ Weights(Nothing, A)
        BY MimeAssumption, FS_Subset DEF Weights, Nothing
      <3>3. SumOver(Nothing, A) = Nothing[x] + SumOver(Nothing, A \ {x})
        BY <3>2, SumOne
      <3>4. Nothing[x] = 0 /\ SumOver(Nothing, A \ {x}) = 0
        BY <2>2 DEF Nothing
      <3> QED  BY <3>3, <3>4
    <2>3. SUBSET Mime \subseteq P
      <3> HIDE DEF P
      <3> QED  BY <2>1, <2>2, MimeAssumption, SetInduction
    <2>4. Mime \in P
      BY <2>3
    <2> QED  BY <2>4
  <1> QED  BY <1>1, <1>2, SumIsSum

\* Every step counts.
LEMMA CountedStep == Inv /\ Counted /\ [Next]_vars => Counted'
  <1> SUFFICES ASSUME Inv, Counted, [Next]_vars  PROVE Counted'
    OBVIOUS
  <1>t. /\ taken \in [Mime -> Nat] /\ size \in [Mime -> Nat]
        /\ total \in Nat /\ total <= MaxPayload
        /\ \A m \in Mime : size[m] \in Nat /\ taken[m] \in Nat
    BY UnitsAssumption DEF Inv, TypeOK
  <1>s. size' \in [Mime -> Nat]
    BY InvStep, UnitsAssumption DEF Inv, TypeOK
  <1>a. ASSUME UNCHANGED <<taken, total, size>>, outcome' = "too_large" =>
                   outcome = "too_large" /\ pc' = pc
        PROVE  Counted'
    BY <1>a DEF Counted
  <1>1. ASSUME NEW m \in Mime, ReadChunk(m)  PROVE Counted'
    <2>1. /\ Count(m) \in Nat /\ total' = total + Count(m)
          /\ taken' = [taken EXCEPT ![m] = @ + Count(m)]
          /\ outcome' = outcome /\ size' = size /\ pc # "end"
      BY <1>1, CountFits DEF Inv, ReadChunk, Advance, source
    <2> DEFINE n == Count(m)
    <2> HIDE DEF n
    <2>n. n \in Nat /\ total' = total + n
      BY <2>1 DEF n
    <2>2. taken' = [taken EXCEPT ![m] = @ + n]
      BY <2>1 DEF n
    <2>3. /\ taken' \in [Mime -> Nat] /\ taken'[m] = taken[m] + n
          /\ \A x \in Mime \ {m} : taken'[x] = taken[x]
      BY <1>t, <2>n, <2>2
    <2>w. Weights(taken, Mime)
      BY <1>t, SumIsSum
    <2>4. SumOver(taken', Mime) = SumOver(taken, Mime) + n
      BY <2>n, <2>3, <2>w, MimeAssumption, SumGrows
    <2>5. Sum(taken') = Sum(taken) + n
      BY <1>t, <2>3, <2>4, SumIsSum
    <2> QED  BY <2>1, <2>n, <2>5 DEF Counted
  <1>2. ASSUME NEW m \in Mime, ReadTooLarge(m)  PROVE Counted'
    <2> DEFINE n == Count(m)
               more == [taken EXCEPT ![m] = @ + n]
    <2>1. /\ n \in Nat /\ taken[m] + n <= written[m] /\ n > MaxPayload - total
          /\ written[m] <= size[m]
          /\ UNCHANGED <<taken, total, size>> /\ pc' = "end"
      BY <1>2, CountFits DEF Inv, Flow, ReadTooLarge, End, Exceeds, source
    <2>2. written[m] \in Nat
      BY DEF Inv, TypeOK
    <2> HIDE DEF n
    <2>3. /\ more \in [Mime -> Nat] /\ more[m] = taken[m] + n
          /\ \A x \in Mime \ {m} : more[x] = taken[x]
      BY <1>t, <2>1
    <2>4. \A x \in Mime : more[x] <= size[x]
      BY <1>t, <2>1, <2>2, <2>3 DEF Inv, Flow, TypeOK
    <2> HIDE DEF more
    <2>5. SumOver(more, Mime) = SumOver(taken, Mime) + n
      BY <1>t, <2>1, <2>3, MimeAssumption, SumGrows, SumIsSum
    <2>6. SumOver(more, Mime) <= SumOver(size, Mime)
      BY <1>t, <2>3, <2>4, MimeAssumption, SumOrder, SumIsSum
    <2>7. Sum(taken) + n <= Sum(size) /\ Sum(taken) = total
      BY <1>t, <2>3, <2>5, <2>6, SumIsSum DEF Counted
    <2>8. Sum(size) > MaxPayload
      <3>1. Sum(size) \in Nat
        BY <1>t, SumIsSum
      <3> QED  BY <1>t, <2>1, <2>7, <3>1, UnitsAssumption
    <2> QED  BY <2>1, <2>7, <2>8 DEF Counted
  <1>3. CASE NextOffer
    BY <1>3, SumOfNothing DEF NextOffer, Counted
  <1>4. CASE Receive \/ Flush \/ FlushFails \/ Poll \/ TimeOut \/ PollFails \/ Complete
    <2>1. UNCHANGED <<taken, total, size>>
      BY <1>4 DEF Receive, Flush, FlushFails, Poll, TimeOut, PollFails, Complete, source
    <2>2. pc # "end" /\ outcome' \in {outcome, "failed", "timed_out", "payloads", "nothing"}
      BY <1>4 DEF Receive, Flush, FlushFails, Poll, TimeOut, PollFails, Complete, End
    <2> QED  BY <2>1, <2>2 DEF Counted
  <1>5. ASSUME NEW m \in Mime, ReadEnd(m) \/ ReadFails(m)  PROVE Counted'
    BY <1>5 DEF ReadEnd, ReadFails, Advance, Counted, source
  <1>6. CASE UNCHANGED vars \/ Die \/ \E m \in Mime : Write(m) \/ Close(m)
    BY <1>6, <1>a DEF vars, watcher, source, Die, Write, Close
  <1> QED
    BY <1>1, <1>2, <1>3, <1>4, <1>5, <1>6 DEF Next, Transfer

\* A transfer is refused as too large only if the data of the offer is, in all its MIME
\* types together, and what is taken never exceeds the limit.
THEOREM LimitIsExact == Spec => []LimitExact
  <1>1. Init => Counted
    BY SumOfNothing DEF Init, Counted
  <1>2. Inv /\ Counted => LimitExact
    BY UnitsAssumption DEF Inv, TypeOK, Counted, LimitExact
  <1> QED  BY <1>1, <1>2, CountedStep, InvAlways, PTL DEF Spec
=============================================================================
