------------------------------ MODULE History ------------------------------
(***************************************************************************)
(* src/common/db.rs, one SQL statement per step.  The daemon has one       *)
(* connection behind a mutex; each statement commits on its own, so a      *)
(* stop or an error between two statements leaves the ones before it.      *)
(* The watcher thread stores copies, the client threads touch, delete,     *)
(* clear and reload the configuration.  The data of a payload is           *)
(* represented by the hash of the copy it was read from, a timestamp by a  *)
(* natural number (the text form sorts as the time does).                  *)
(***************************************************************************)
EXTENDS Integers, FiniteSets, FiniteSetsExt

CONSTANTS
    Hash,       \* the payload hashes that can be copied
    NoHash,     \* no copy under way
    Mime,       \* MIME type names
    MimesOf,    \* the MIME types behind each hash
    SizeOf,     \* the payload bytes behind each hash
    LimitsSet,  \* the limits the configuration can hold
    I64Max,     \* largest i64: SQLite's integers, and what limits are cast to
    Cascade,    \* payloads reference entries ON DELETE CASCADE
    Faults,     \* the process may stop, or a statement fail, inside a request
    ClockMayStepBack,   \* the wall clock may be set back
    MaxClock,   \* bound of the model: readings of the clock
    MaxId       \* bound of the model: rows ever inserted

ASSUME NoHashAssumption == NoHash \notin Hash
ASSUME MimesAssumption == MimesOf \in [Hash -> (SUBSET Mime) \ {{}}]
ASSUME SizeAssumption == SizeOf \in [Hash -> Nat \ {0}]
ASSUME LimitsAssumption ==
    /\ LimitsSet # {}
    /\ LimitsSet \subseteq [entries : Nat \ {0}, size : Nat]
ASSUME BoundsAssumption == MaxClock \in Nat /\ MaxId \in Nat /\ I64Max \in Nat
ASSUME FlagsAssumption == {Cascade, Faults, ClockMayStepBack} \subseteq BOOLEAN

VARIABLES
    entries,    \* rows of the table entries
    payloads,   \* rows of the table payloads
    seq,        \* AUTOINCREMENT counter of entries
    limits,     \* Database.max_entries and max_history_size
    saved,      \* the limits in config.toml
    clock,      \* Utc::now()
    call,       \* the NewEntry the watcher has built: its hash and created_at
    op          \* the request that holds the database mutex

vars == <<entries, payloads, seq, limits, saved, clock, call, op>>

Time == 0 .. MaxClock
Id == 1 .. MaxId

EntryRow == [id : Id, hash : Hash, created : Time, used : Time]
PayloadRow == [entry : Id, mime : Mime, data : Hash]

\* entry and mime name a payload row: the loop of insert binds each MIME type once.
RowsOf(e) == {p \in payloads : p.entry = e.id}

\* What list and get_payloads show of a row.
ItemOf(e) == [hash |-> e.hash, created |-> e.created, used |-> e.used,
              mimes |-> {p.mime : p \in RowsOf(e)}]
Items == {ItemOf(e) : e \in entries}

NoCall == [hash |-> NoHash, at |-> 0]
Idle == [pc |-> "idle"]

(***************************************************************************)
(* A request of more than one statement: where it is, which thread runs    *)
(* it, the row it inserts, the payloads still to be inserted, and (for the *)
(* properties only) the history and the limits as they were when it        *)
(* started.                                                                *)
(***************************************************************************)
Begin(pc, owner, id, todo) ==
    [pc |-> pc, owner |-> owner, id |-> id, todo |-> todo,
     items |-> Items, limits |-> limits]

Active ==
    [pc : {"payloads", "count", "size"}, owner : {"watcher", "client"},
     id : 0 .. MaxId, todo : SUBSET Mime,
     items : SUBSET [hash : Hash, created : Time, used : Time, mimes : SUBSET Mime],
     limits : LimitsSet]

TypeOK ==
    /\ entries \subseteq EntryRow
    /\ payloads \subseteq PayloadRow
    /\ seq \in 0 .. MaxId
    /\ limits \in LimitsSet
    /\ saved \in LimitsSet
    /\ clock \in Time
    /\ call \in [hash : Hash \cup {NoHash}, at : Time]
    /\ op \in {Idle} \cup Active

Free == op.pc = "idle"

\* u64 and usize `as i64`
AsI64(u) == IF u <= I64Max THEN u ELSE u - 2 * (I64Max + 1)

Total(S) == MapThenSumSet(LAMBDA e : SizeOf[e.hash], S)

\* Mutant: the foreign key is declared without ON DELETE CASCADE.
KeepOnly_NoCascade(keep) == entries' = keep /\ payloads' = payloads

\* DELETE FROM entries, leaving keep; payloads go along only with the foreign key.
KeepOnly(keep) ==
    /\ entries' = keep
    /\ payloads' = IF Cascade
                   THEN {p \in payloads : p.entry \in {e.id : e \in keep}}
                   ELSE payloads

\* The mutex is released; the watcher goes back to its event queue.
Finish ==
    /\ op' = Idle
    /\ call' = IF op.owner = "watcher" THEN NoCall ELSE call

Init ==
    /\ entries = {}
    /\ payloads = {}
    /\ seq = 0
    /\ saved \in LimitsSet
    /\ limits = saved
    /\ clock = 0
    /\ call = NoCall
    /\ op = Idle

Tick ==
    /\ \/ clock < MaxClock /\ clock' = clock + 1
       \/ ClockMayStepBack /\ clock > 0 /\ clock' = clock - 1
    /\ UNCHANGED <<entries, payloads, seq, limits, saved, call, op>>

(***************************************************************************)
(* Database::insert, called by the watcher.                                *)
(***************************************************************************)

\* `let now = Utc::now()` comes before db.lock(): other requests may run between.
TakeStamp(h) ==
    /\ call.hash = NoHash
    /\ call' = [hash |-> h, at |-> clock]
    /\ UNCHANGED <<entries, payloads, seq, limits, saved, clock, op>>

FindByHash(h) == {e \in entries : e.hash = h}

\* Mutants: ids count from zero; a plain INTEGER PRIMARY KEY, whose next id is one
\* more than the largest in the table.
NextId_FromZero == seq
NextId_Reused ==
    CHOOSE i \in 1 .. seq + 1 :
        /\ \A e \in entries : e.id < i
        /\ i = 1 \/ \E e \in entries : e.id = i - 1

\* AUTOINCREMENT: one more than any id ever given.
NextId == seq + 1

\* Mutant: the creation time is read when the row is written.
NewRow_ReadsClock == [id |-> NextId, hash |-> call.hash, created |-> clock, used |-> call.at]

NewRow == [id |-> NextId, hash |-> call.hash, created |-> call.at, used |-> call.at]

\* Mutant: the loop over the payloads ends with its first turn.
AfterPayload_First(m) == "count"

AfterPayload(m) == IF op.todo = {m} THEN "count" ELSE "payloads"

\* A known hash: recency is set to the caller's time, then trim.
InsertKnown ==
    /\ Free /\ call.hash # NoHash
    /\ \E e \in FindByHash(call.hash) :
        /\ entries' = (entries \ {e}) \cup {[e EXCEPT !.used = call.at]}
        /\ op' = Begin("count", "watcher", e.id, {})
    /\ UNCHANGED <<payloads, seq, limits, saved, clock, call>>

\* The column hash is UNIQUE: a second row with one hash is an error.
HashTaken(h) == \E e \in entries : e.hash = h

\* The row of a new hash; its payloads follow one statement each.
InsertEntry ==
    /\ Free /\ call.hash # NoHash
    /\ FindByHash(call.hash) = {} /\ ~HashTaken(call.hash)
    /\ seq < MaxId
    /\ seq' = seq + 1
    /\ entries' = entries \cup {NewRow}
    /\ op' = Begin("payloads", "watcher", NextId, MimesOf[call.hash])
    /\ UNCHANGED <<payloads, limits, saved, clock, call>>

\* One turn of the loop over the payloads; the last one leads to trim.
InsertPayload ==
    /\ op.pc = "payloads"
    /\ \E m \in op.todo :
        /\ payloads' = payloads \cup {[entry |-> op.id, mime |-> m, data |-> call.hash]}
        /\ op' = [op EXCEPT !.todo = @ \ {m}, !.pc = AfterPayload(m)]
    /\ UNCHANGED <<entries, seq, limits, saved, clock, call>>

(***************************************************************************)
(* Database::trim                                                          *)
(***************************************************************************)

\* ORDER BY last_used_at DESC LIMIT n: the order among equals is SQLite's
\* choice, and a negative LIMIT is none.
MostRecent(n) ==
    IF n < 0 \/ Cardinality(entries) <= n
    THEN {entries}
    ELSE {K \in kSubset(n, entries) :
              \A kept \in K, gone \in entries \ K : kept.used >= gone.used}

TrimCount ==
    /\ op.pc = "count"
    /\ \E keep \in MostRecent(AsI64(limits.entries)) : KeepOnly(keep)
    /\ op' = [op EXCEPT !.pc = "size"]
    /\ UNCHANGED <<seq, limits, saved, clock, call>>

\* Mutant: an exact fit is trimmed.
WithinSize_Strict == Total(entries) < AsI64(limits.size)

WithinSize == Total(entries) <= AsI64(limits.size)

\* Mutant: ORDER BY last_used_at DESC.
Older_Newest(e, f) == e.used > f.used \/ (e.used = f.used /\ e.id > f.id)

Older(e, f) == e.used < f.used \/ (e.used = f.used /\ e.id < f.id)

\* One turn of the loop that deletes the oldest row until the rest fits.
TrimOldest ==
    /\ op.pc = "size" /\ ~WithinSize
    /\ \E e \in entries :
        /\ \A f \in entries \ {e} : Older(e, f)
        /\ KeepOnly(entries \ {e})
    /\ UNCHANGED <<seq, limits, saved, clock, call, op>>

TrimDone ==
    /\ op.pc = "size"
    /\ WithinSize \/ entries = {}
    /\ Finish
    /\ UNCHANGED <<entries, payloads, seq, limits, saved, clock>>

(***************************************************************************)
(* The requests of client threads, each under the mutex.                   *)
(***************************************************************************)

\* The database part of Request::Restore: reads, then touch_last_used.
RestoreTouch ==
    /\ Free
    /\ \E e \in entries :
        entries' = (entries \ {e}) \cup {[e EXCEPT !.used = clock]}
    /\ UNCHANGED <<payloads, seq, limits, saved, clock, call, op>>

Delete ==
    /\ Free
    /\ \E e \in entries : KeepOnly(entries \ {e})
    /\ UNCHANGED <<seq, limits, saved, clock, call, op>>

\* The compaction that follows changes no row, whether or not it succeeds.
Clear ==
    /\ Free
    /\ KeepOnly({})
    /\ UNCHANGED <<seq, limits, saved, clock, call, op>>

\* `mimeclip config set` writes the file, and only then asks for a reload.
SaveConfig ==
    /\ saved' \in LimitsSet
    /\ UNCHANGED <<entries, payloads, seq, limits, clock, call, op>>

ReloadConfig ==
    /\ Free
    /\ limits' = saved
    /\ op' = Begin("count", "client", 0, {})
    /\ UNCHANGED <<entries, payloads, seq, saved, clock, call>>

(***************************************************************************)
(* Stops and failures.                                                     *)
(***************************************************************************)

\* A statement returns an error: `?` leaves the request with what it has done.
StatementFails ==
    /\ Faults /\ ~Free
    /\ Finish
    /\ UNCHANGED <<entries, payloads, seq, limits, saved, clock>>

\* The first statement of insert fails, or the INSERT meets the hash it did not
\* find, which the mutex rules out: the watcher logs the error and goes on.
InsertFails ==
    /\ Free /\ call.hash # NoHash
    /\ Faults \/ (FindByHash(call.hash) = {} /\ HashTaken(call.hash))
    /\ call' = NoCall
    /\ UNCHANGED <<entries, payloads, seq, limits, saved, clock, op>>

\* exit(0) on a signal, a panic or a crash, and the next Database::open, which
\* reads the limits of the file and does not trim.
Restart ==
    /\ Free \/ Faults
    /\ op' = Idle
    /\ call' = NoCall
    /\ limits' = saved
    /\ UNCHANGED <<entries, payloads, seq, saved, clock>>

Next ==
    \/ Tick
    \/ \E h \in Hash : TakeStamp(h)
    \/ InsertKnown
    \/ InsertEntry
    \/ InsertPayload
    \/ TrimCount
    \/ TrimOldest
    \/ TrimDone
    \/ RestoreTouch
    \/ Delete
    \/ Clear
    \/ SaveConfig
    \/ ReloadConfig
    \/ StatementFails
    \/ InsertFails
    \/ Restart

Spec == Init /\ [][Next]_vars
-----------------------------------------------------------------------------
(***************************************************************************)
(* The statements of one request are one step of the promised store: until *)
(* the mutex is free again nobody can see past its beginning.              *)
(***************************************************************************)
Promise == INSTANCE HistoryStore
           WITH items <- IF Free THEN Items ELSE op.items,
                limits <- IF Free THEN limits ELSE op.limits

\* Without a fault inside a request, insert, trim, touch_last_used, delete, clear
\* and set_limits are the atomic operations of HistoryStore, and trim evicts the
\* least recently used entries, no more of them than the limits ask for.
ImplementsPromise == Promise!Spec

\* A payload row that carries the id of a stored entry was read from that
\* entry's copy, whatever was deleted, cleared or torn before: ids are never
\* given again (AUTOINCREMENT), even where rows of deleted entries remain.
PayloadsMatchHash ==
    \A e \in entries : \A p \in RowsOf(e) :
        p.data = e.hash /\ p.mime \in MimesOf[e.hash]

\* No payload row outlives its entry: delete, clear and trim rely on the cascade.
NoOrphans == \A p \in payloads : \E e \in entries : e.id = p.entry

\* While no request runs, every entry has all the MIME types of its copy:
\* README "stores every MIME type offered per clipboard event and restores them
\* all simultaneously".
EntriesComplete ==
    Free => \A e \in entries : {p.mime : p \in RowsOf(e)} = MimesOf[e.hash]

\* An entry that does not have exactly the MIME types of its copy.
Torn(e) == {p.mime : p \in RowsOf(e)} # MimesOf[e.hash]

\* An entry is torn only by its own insert, cut off between two payloads: no other
\* request, failure, restart or left-over payload row makes a whole entry torn, and
\* no insert that gets as far as trim leaves one.
TornByOwnInsertOnly ==
    [][\A e \in entries' : Torn(e)' =>
           \/ op'.pc = "payloads" /\ op'.id = e.id
           \/ op.pc = "payloads" /\ op.id = e.id /\ Free'
           \/ /\ ~(op.pc = "payloads" /\ op.id = e.id)
              /\ \E f \in entries : f.id = e.id /\ Torn(f)]_vars

\* With a clock that only moves forward no entry is used before it was created,
\* although the watcher takes its timestamp before it has the mutex.
CreatedBeforeUsed == \A e \in entries : e.created <= e.used

FitsLimits(S) ==
    Cardinality(S) <= limits.entries /\ Total(S) <= limits.size

\* Inside a request trim deletes a row only when it does not fit together with
\* the rows at least as recently used; stopping trim half way loses nothing more:
\* README "When a limit is exceeded, the least recently used entries are removed".
NoNeedlessEviction ==
    [][~Free => \A gone \in entries \ entries' :
           ~FitsLimits({e \in entries : e.used >= gone.used})]_vars
=============================================================================
