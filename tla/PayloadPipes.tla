---------------------------- MODULE PayloadPipes ----------------------------
(***************************************************************************)
(* One transfer of a selection in watcher.rs: process_ready creates a pipe *)
(* per MIME type, and read_payload_pipes polls them and takes a chunk from *)
(* each that is ready.  The source is external and as the code fears it:   *)
(* it writes one MIME type at a time, in any order, blocks on a full pipe, *)
(* and closes what it has written when it likes.  Data is counted in units:*)
(* a pipe is first in, first out, so the units taken from it are a prefix  *)
(* of the units written.                                                   *)
(***************************************************************************)
EXTENDS Integers, FiniteSets, Functions

CONSTANTS
    Mime,       \* the MIME types of the offer
    MaxSize,    \* bound of the model: units a source has for one MIME type
    Capacity,   \* units a pipe holds
    Chunk,      \* READ_CHUNK_BYTES
    MaxPayload  \* MAX_PAYLOAD_BYTES

ASSUME MimeAssumption == IsFiniteSet(Mime)
ASSUME UnitsAssumption ==
    /\ MaxSize \in Nat /\ MaxPayload \in Nat
    /\ Capacity \in Nat \ {0} /\ Chunk \in Nat \ {0}

VARIABLES
    pc,         \* where process_ready is
    pipes,      \* the MIME types that have a pipe
    held,       \* pipes whose write end the watcher still has
    polled,     \* pipes found ready by poll and not yet read
    done,       \* PayloadPipe.done
    taken,      \* the length of PayloadPipe.data
    total,      \* total_size
    outcome,    \* what read_payload_pipes or the flush came to
    result,     \* the MIME types it returns, each with the data taken from it
    lost,       \* for the properties: MIME types whose pipe() or read has failed
    size,       \* source: the units it has for each MIME type
    written,    \* source: the units it has written
    closed,     \* source: the write ends it has closed
    died        \* source: it has gone away before it was finished

watcher == <<pc, pipes, held, polled, done, taken, total, outcome, result, lost>>
source == <<size, written, closed, died>>
vars == <<watcher, source>>

TypeOK ==
    /\ pc \in {"receive", "flush", "poll", "read", "end"}
    /\ pipes \subseteq Mime
    /\ held \subseteq pipes
    /\ done \subseteq pipes
    /\ polled \subseteq pipes \ done
    /\ taken \in [Mime -> Nat]
    /\ total \in 0 .. MaxPayload
    /\ outcome \in {"none", "payloads", "nothing", "too_large", "timed_out",
                    "failed"}
    /\ result \subseteq pipes
    /\ lost \subseteq Mime
    /\ size \in [Mime -> 0 .. MaxSize]
    /\ written \in [Mime -> Nat]
    /\ closed \subseteq pipes
    /\ died \in BOOLEAN

Nothing == [m \in Mime |-> 0]
Sum(f) == FoldFunction(LAMBDA n, sum : n + sum, 0, f)

Init ==
    /\ pc = "receive"
    /\ pipes = {} /\ held = {} /\ polled = {} /\ done = {}
    /\ taken = Nothing
    /\ total = 0
    /\ outcome = "none" /\ result = {} /\ lost = {}
    /\ size \in [Mime -> 0 .. MaxSize]
    /\ written = Nothing
    /\ closed = {}
    /\ died = FALSE

Transferring == pc \in {"poll", "read"}
Buffered(m) == written[m] - taken[m]
AtEnd(m) == m \in closed /\ m \notin held

\* poll reports data or a hang-up.
Readable(m) == Buffered(m) > 0 \/ AtEnd(m)

End(how) == pc' = "end" /\ outcome' = how

-----------------------------------------------------------------------------
(***************************************************************************)
(* process_ready and read_payload_pipes.                                   *)
(***************************************************************************)

\* A pipe and a receive request for each MIME type; a failed pipe() is skipped.
Receive ==
    /\ pc = "receive"
    /\ pipes' \in SUBSET Mime
    /\ lost' = Mime \ pipes'
    /\ held' = pipes'
    /\ pc' = "flush"
    /\ UNCHANGED <<polled, done, taken, total, outcome, result, source>>

\* The requests are sent and the watcher drops its write ends.
Flush ==
    /\ pc = "flush"
    /\ held' = {}
    /\ pc' = "poll"
    /\ UNCHANGED <<pipes, polled, done, taken, total, outcome, result, lost, source>>

FlushFails ==
    /\ pc = "flush"
    /\ End("failed")
    /\ UNCHANGED <<pipes, held, polled, done, taken, total, result, lost, source>>

\* Mutants: only the first pipe that is not done is polled; poll's answer is not
\* looked at.
Ready_First ==
    IF done = pipes THEN {}
    ELSE {m \in {CHOOSE m \in pipes \ done : TRUE} : Readable(m)}
Ready_All == pipes \ done

\* The pipes poll answers with, among those that are not done.
Ready == {m \in pipes \ done : Readable(m)}

Poll ==
    /\ pc = "poll" /\ done # pipes
    /\ Ready # {}
    /\ polled' = Ready
    /\ pc' = "read"
    /\ UNCHANGED <<pipes, held, done, taken, total, outcome, result, lost, source>>

\* Nothing for the idle timeout.
TimeOut ==
    /\ pc = "poll" /\ done # pipes
    /\ Ready = {}
    /\ End("timed_out")
    /\ UNCHANGED <<pipes, held, polled, done, taken, total, result, lost, source>>

PollFails ==
    /\ pc = "poll" /\ done # pipes
    /\ End("failed")
    /\ UNCHANGED <<pipes, held, polled, done, taken, total, result, lost, source>>

\* Mutants: the end of a pipe is taken for an empty read; a short read is taken for
\* the end.
Finished_Never(m) == FALSE
Finished_Short(m) == Buffered(m) < Chunk

\* read() answers 0.
Finished(m) == Buffered(m) = 0

Count(m) == IF Buffered(m) < Chunk THEN Buffered(m) ELSE Chunk

\* Mutants: each pipe has the whole limit to itself; one unit more is let in.
Exceeds_OwnPipe(m) == taken[m] + Count(m) > MaxPayload
Exceeds_ByOne(m) == Count(m) > MaxPayload - total + 1

Exceeds(m) == Count(m) > MaxPayload - total

\* The next of the pipes found ready has been dealt with.
Advance(m) ==
    /\ polled' = polled \ {m}
    /\ pc' = IF polled = {m} THEN "poll" ELSE "read"
    /\ UNCHANGED <<pipes, held, outcome, result, source>>

\* The code reads the ready pipes by index; here any order will do.
ReadEnd(m) ==
    /\ pc = "read" /\ m \in polled
    /\ Finished(m)
    /\ done' = done \cup {m}
    /\ Advance(m)
    /\ UNCHANGED <<taken, total, lost>>

ReadChunk(m) ==
    /\ pc = "read" /\ m \in polled
    /\ ~Finished(m) /\ ~Exceeds(m)
    /\ taken' = [taken EXCEPT ![m] = @ + Count(m)]
    /\ total' = total + Count(m)
    /\ Advance(m)
    /\ UNCHANGED <<done, lost>>

ReadTooLarge(m) ==
    /\ pc = "read" /\ m \in polled
    /\ ~Finished(m) /\ Exceeds(m)
    /\ End("too_large")
    /\ UNCHANGED <<pipes, held, polled, done, taken, total, result, lost, source>>

\* POLLNVAL or an error of read(): the pipe counts as done, with what it gave.
ReadFails(m) ==
    /\ pc = "read" /\ m \in polled
    /\ done' = done \cup {m}
    /\ lost' = lost \cup {m}
    /\ Advance(m)
    /\ UNCHANGED <<taken, total>>

\* A pipe that gave nothing is left out of what is returned.
WithData == {m \in pipes : taken[m] > 0}

\* When no pipe gave anything there is nothing to store, and process_ready returns.
Complete ==
    /\ pc = "poll" /\ done = pipes
    /\ result' = WithData
    /\ End(IF WithData = {} THEN "nothing" ELSE "payloads")
    /\ UNCHANGED <<pipes, held, polled, done, taken, total, lost, source>>

\* process_ready returns; the next offer is another one.
NextOffer ==
    /\ pc = "end" /\ pc' = "receive"
    /\ pipes' = {} /\ held' = {} /\ polled' = {} /\ done' = {}
    /\ taken' = Nothing
    /\ total' = 0
    /\ outcome' = "none" /\ result' = {} /\ lost' = {}
    /\ size' \in [Mime -> 0 .. MaxSize]
    /\ written' = Nothing
    /\ closed' = {}
    /\ died' = FALSE

-----------------------------------------------------------------------------
(***************************************************************************)
(* The source.                                                             *)
(***************************************************************************)

\* The MIME type it is in the middle of.
Begun == {m \in pipes \ closed : 0 < written[m] /\ written[m] < size[m]}

\* It would write to m next, whether or not the pipe has room.
Writing(m) ==
    /\ Transferring /\ m \in pipes \ closed
    /\ written[m] < size[m]
    /\ Begun \subseteq {m}

Write(m) ==
    /\ Writing(m)
    /\ Buffered(m) < Capacity
    /\ written' = [written EXCEPT ![m] = @ + 1]
    /\ UNCHANGED <<watcher, size, closed, died>>

Close(m) ==
    /\ Transferring /\ m \in pipes \ closed
    /\ written[m] = size[m]
    /\ closed' = closed \cup {m}
    /\ UNCHANGED <<watcher, size, written, died>>

\* It goes away, or is replaced by another selection: what is open is closed.
Die ==
    /\ Transferring /\ closed # pipes
    /\ closed' = pipes
    /\ died' = TRUE
    /\ UNCHANGED <<watcher, size, written>>

Transfer ==
    \/ Receive
    \/ Flush
    \/ FlushFails
    \/ Poll
    \/ TimeOut
    \/ PollFails
    \/ \E m \in Mime : ReadEnd(m) \/ ReadChunk(m) \/ ReadTooLarge(m) \/ ReadFails(m)
    \/ Complete

Next ==
    \/ Transfer
    \/ NextOffer
    \/ \E m \in Mime : Write(m) \/ Close(m)
    \/ Die

\* The watcher runs; nothing is asked of the source.
Spec == Init /\ [][Next]_vars /\ WF_vars(Transfer)
-----------------------------------------------------------------------------
\* The source waits for room in the pipe of m.
Blocked(m) == Writing(m) /\ Buffered(m) = Capacity

\* The watcher gives up on an idle source only, never on one that has finished or
\* waits for the watcher, in whatever order it writes and however long it keeps
\* pipes open: the comment of read_payload_pipes "Reading one pipe to EOF before
\* touching the others can therefore deadlock both processes".  A pipe that failed
\* and is not read any more may keep a source waiting, the others may not.
TimesOutIdleOnly ==
    [][TimeOut => closed # pipes /\ \A m \in Mime \ lost : ~Blocked(m)]_vars

\* Pipes are read in blocking mode, outside the timeout: a pipe that was ready
\* when poll answered still is when its turn comes.
ReadsNeverBlock == pc = "read" => \A m \in polled : Readable(m)

\* A transfer that ends well returns what the source wrote and nothing else: each
\* MIME type with data, whole, and none without; what a source that lives wrote is
\* all it had.  Only a pipe that failed may have given less, and it takes nothing
\* from the others.  An empty MIME type is never returned, so never stored, which
\* README "stores every MIME type offered" does not say.
WholeOffer ==
    outcome \in {"payloads", "nothing"} =>
        /\ \A m \in Mime \ lost :
               /\ m \in result <=> written[m] > 0
               /\ taken[m] = written[m]
               /\ died \/ written[m] = size[m]
        /\ \A m \in result : 0 < taken[m] /\ taken[m] <= written[m]
        /\ outcome = "nothing" <=> result = {}

\* A transfer is refused as too large only if the data is, and what is kept is
\* within the limit: README "Entries over 64 MiB are skipped".
LimitExact ==
    /\ Sum(taken) <= MaxPayload
    /\ outcome = "too_large" => Sum(size) > MaxPayload

\* Every transfer ends, whatever the source does: process_ready runs on the thread
\* that dispatches the clipboard's events.
TransferEnds == (pc = "receive") ~> (pc = "end")
=============================================================================
