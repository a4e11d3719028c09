------------------------------ MODULE Startup ------------------------------
(***************************************************************************)
(* How a daemon starts (daemon/main.rs): Database::open with the limits of *)
(* the configuration and the creation or migration of the schema (db.rs),  *)
(* then bind_listener (server.rs), and only then the watcher and the       *)
(* server.  Several processes may start on   *)
(* one database file and one socket path; each statement commits on its    *)
(* own, and a process may stop anywhere.  The file system and SQLite's     *)
(* ALTER TABLE are external.  Times are readings of a clock that may be    *)
(* anything; deletion of rows, which touches no date, is left out.         *)
(***************************************************************************)
EXTENDS FiniteSets

CONSTANTS
    Daemon,     \* mimeclipd processes
    Id,         \* bound of the model: ids of rows
    Time,       \* timestamps
    None        \* NULL

ASSUME NoneAssumption == None \notin Time
ASSUME DaemonAssumption == Daemon \cap {"absent", "file", "stale"} = {}

VARIABLES
    columns,    \* the date columns of the table entries, {} without the table
    rows,       \* the table: the dates of each row
    path,       \* what is at the IPC path: nothing, some file, a socket
    config,     \* config.toml and the environment give valid limits
    pc,         \* where each process is
    seen,       \* the columns migrate_entries_schema has found
    legacy,     \* Database.has_legacy_timestamp
    overlapped  \* for the properties: two starts have been under way at once

database == <<columns, rows>>
locals == <<seen, legacy>>
vars == <<database, path, config, pc, locals, overlapped>>

Column == {"created_at", "last_used_at", "timestamp"}
Current == {"created_at", "last_used_at"}
Row == [timestamp : Time \cup {None}, created : Time \cup {None},
        used : Time \cup {None}]

Opening == {"load", "create", "look_created", "look_used", "look_timestamp",
            "add_created", "add_used", "date_created", "date_used", "flag"}
Binding == {"bind", "inspect", "connect", "remove", "rebind", "listen"}
Starting(d) == pc[d] \in Opening \cup Binding
Serving(d) == pc[d] = "serve"

\* The processes that have a socket of their own.
Bound == {d \in Daemon : pc[d] \in {"listen", "serve"}}

TypeOK ==
    /\ columns \subseteq Column
    /\ DOMAIN rows \subseteq Id /\ rows \in [DOMAIN rows -> Row]
    /\ pc \in [Daemon -> Opening \cup Binding \cup {"off", "serve"}]
    /\ path \in {"absent", "file", "stale"} \cup Bound
    /\ config \in BOOLEAN
    /\ seen \in [Daemon -> SUBSET Column]
    /\ legacy \in [Daemon -> BOOLEAN]
    /\ overlapped \in BOOLEAN

\* No database yet, one of an earlier version with rows, or a current one; and
\* whatever an earlier process, or something else, has left at the path.
Init ==
    /\ \/ columns \in {{}, Current} /\ rows = [i \in {} |-> None]
       \/ /\ columns = {"timestamp"}
          /\ \E S \in SUBSET Id : \E at \in [S -> Time] :
                rows = [i \in S |-> [timestamp |-> at[i], created |-> None, used |-> None]]
    /\ path \in {"absent", "file", "stale"}
    /\ config \in BOOLEAN
    /\ pc = [d \in Daemon |-> "off"]
    /\ seen = [d \in Daemon |-> {}]
    /\ legacy = [d \in Daemon |-> FALSE]
    /\ overlapped = FALSE

\* The statement after the one that has just succeeded; no step of a start writes
\* the configuration.
Step(d, from, to) ==
    /\ pc[d] = from
    /\ pc' = [pc EXCEPT ![d] = to]
    /\ UNCHANGED config

-----------------------------------------------------------------------------
(***************************************************************************)
(* A process ends: by an error of main, a signal, a panic or a kill.  The  *)
(* path is never unlinked on the way out.                                  *)
(***************************************************************************)

\* Mutant: the dead process still answers at the path.
Vacated_Never(d) == path

Vacated(d) == IF path = d THEN "stale" ELSE path

Exit(d) ==
    /\ path' = Vacated(d)
    /\ pc' = [pc EXCEPT ![d] = "off"]
    /\ seen' = [seen EXCEPT ![d] = {}]
    /\ legacy' = [legacy EXCEPT ![d] = FALSE]
    /\ UNCHANGED <<database, config, overlapped>>

Stop(d) == pc[d] # "off" /\ Exit(d)

Start(d) ==
    /\ Step(d, "off", "load")
    /\ overlapped' = (overlapped \/ \E e \in Daemon : Starting(e))
    /\ UNCHANGED <<database, path, locals>>

-----------------------------------------------------------------------------
(***************************************************************************)
(* Database::open                                                          *)
(***************************************************************************)

\* Config::load()?.limits()?, before any statement
LoadLimits(d) ==
    /\ config
    /\ Step(d, "load", "create")
    /\ UNCHANGED <<database, path, locals, overlapped>>

LoadFails(d) ==
    /\ pc[d] = "load" /\ ~config
    /\ Exit(d)

\* CREATE TABLE IF NOT EXISTS
CreateTable(d) ==
    /\ Step(d, "create", "look_created")
    /\ columns' = IF columns = {} THEN Current ELSE columns
    /\ UNCHANGED <<rows, path, locals, overlapped>>

\* entries_column_exists
Look(d, column, from, to) ==
    /\ Step(d, from, to)
    /\ seen' = [seen EXCEPT ![d] = @ \cup ({column} \cap columns)]
    /\ UNCHANGED <<database, path, legacy, overlapped>>

LookAtColumns(d) ==
    \/ Look(d, "created_at", "look_created", "look_used")
    \/ Look(d, "last_used_at", "look_used", "look_timestamp")
    \/ Look(d, "timestamp", "look_timestamp", "add_created")

\* Mutant: the columns are added whether or not they exist.
Missing_Always(d, column) == TRUE

Missing(d, column) == column \notin seen[d]

\* ALTER TABLE entries ADD COLUMN, whose rows read NULL.
Add(d, column, from, to) ==
    /\ Step(d, from, to)
    /\ Missing(d, column) => column \notin columns
    /\ columns' = IF Missing(d, column) THEN columns \cup {column} ELSE columns
    /\ UNCHANGED <<rows, path, locals, overlapped>>

AddColumns(d) ==
    \/ Add(d, "created_at", "add_created", "add_used")
    \/ Add(d, "last_used_at", "add_used", "date_created")

\* Another process has added the column since: duplicate column name.
AddFails(d) ==
    /\ \E at \in {<<"add_created", "created_at">>, <<"add_used", "last_used_at">>} :
        pc[d] = at[1] /\ Missing(d, at[2]) /\ at[2] \in columns
    /\ Exit(d)

Coalesce(a, b) == IF a = None THEN b ELSE a

\* Mutant: only the process that adds the column takes the old date.
Stamp_IfAdded(d, r) ==
    IF "timestamp" \in seen[d] /\ "created_at" \notin seen[d] THEN r.timestamp ELSE None

\* The legacy date of a row, if the statement of this process asks for it.
Stamp(d, r) == IF "timestamp" \in seen[d] THEN r.timestamp ELSE None

\* Mutant: only a process that has added the column fills it.
DateCreated_IfAdded(d) ==
    /\ Step(d, "date_created", "date_used")
    /\ \E now \in Time :
        rows' = [i \in DOMAIN rows |->
                    IF "created_at" \in seen[d] THEN rows[i]
                    ELSE [rows[i] EXCEPT !.created =
                            Coalesce(@, Coalesce(Stamp(d, rows[i]), now))]]
    /\ UNCHANGED <<columns, path, locals, overlapped>>

\* UPDATE entries SET created_at = COALESCE(created_at, timestamp, now)
DateCreated(d) ==
    /\ Step(d, "date_created", "date_used")
    /\ \E now \in Time :
        rows' = [i \in DOMAIN rows |-> [rows[i] EXCEPT !.created =
                    Coalesce(@, Coalesce(Stamp(d, rows[i]), now))]]
    /\ UNCHANGED <<columns, path, locals, overlapped>>

\* Mutant: the order of COALESCE puts the old timestamp first.
UsedDate_StampFirst(d, r, now) ==
    Coalesce(Stamp(d, r), Coalesce(r.used, Coalesce(r.created, now)))

UsedDate(d, r, now) ==
    Coalesce(r.used, Coalesce(Stamp(d, r), Coalesce(r.created, now)))

DateUsed(d) ==
    /\ Step(d, "date_used", "flag")
    /\ \E now \in Time :
        rows' = [i \in DOMAIN rows |->
                    [rows[i] EXCEPT !.used = UsedDate(d, rows[i], now)]]
    /\ UNCHANGED <<columns, path, locals, overlapped>>

\* The index is rebuilt, and has_legacy_timestamp is read once for all inserts.
ReadLegacy(d) ==
    /\ Step(d, "flag", "bind")
    /\ legacy' = [legacy EXCEPT ![d] = "timestamp" \in columns]
    /\ UNCHANGED <<database, path, seen, overlapped>>

-----------------------------------------------------------------------------
(***************************************************************************)
(* bind_listener.  UnixListener::bind is bind(2), then listen(2).          *)
(***************************************************************************)

\* Mutant: whoever cannot be asked is taken for dead.
Refused_Any == TRUE

\* connect(2) is refused, or finds nothing.
Refused == ~\E d \in Daemon : path = d /\ Serving(d)

Bind(d) ==
    /\ path = "absent"
    /\ Step(d, "bind", "listen") \/ Step(d, "rebind", "listen")
    /\ path' = d
    /\ UNCHANGED <<database, locals, overlapped>>

AddrInUse(d) ==
    /\ path # "absent"
    /\ Step(d, "bind", "inspect")
    /\ UNCHANGED <<database, path, locals, overlapped>>

\* symlink_metadata: it is a socket.
Inspect(d) ==
    /\ path \notin {"absent", "file"}
    /\ Step(d, "inspect", "connect")
    /\ UNCHANGED <<database, path, locals, overlapped>>

Connect(d) ==
    /\ Refused
    /\ Step(d, "connect", "remove")
    /\ UNCHANGED <<database, path, locals, overlapped>>

\* remove_file takes whatever is at the path by now.
Remove(d) ==
    /\ path # "absent"
    /\ Step(d, "remove", "rebind")
    /\ path' = "absent"
    /\ UNCHANGED <<database, locals, overlapped>>

\* From here on clients get through, and the watcher runs.
Listen(d) ==
    /\ Step(d, "listen", "serve")
    /\ UNCHANGED <<database, path, locals, overlapped>>

\* Nothing there or no socket, a live daemon, the stale socket gone already, the
\* path taken again.
BindFails(d) ==
    /\ \/ pc[d] = "inspect" /\ path \in {"absent", "file"}
       \/ pc[d] = "connect" /\ ~Refused
       \/ pc[d] = "remove" /\ path = "absent"
       \/ pc[d] = "rebind" /\ path # "absent"
    /\ Exit(d)

-----------------------------------------------------------------------------
(***************************************************************************)
(* What a running daemon does with the dates.                              *)
(***************************************************************************)

\* Database::insert of a new hash; a column of the old schema is NOT NULL.
Insert(d, i, t) ==
    /\ Serving(d)
    /\ i \notin DOMAIN rows
    /\ "timestamp" \in columns => legacy[d]
    /\ rows' = [j \in DOMAIN rows \cup {i} |->
                    IF j = i THEN [timestamp |-> IF legacy[d] THEN t ELSE None,
                                   created |-> t, used |-> t]
                    ELSE rows[j]]
    /\ UNCHANGED <<columns, path, config, pc, locals, overlapped>>

\* touch_last_used, or an insert of a known hash
Touch(d, i, t) ==
    /\ Serving(d)
    /\ i \in DOMAIN rows
    /\ rows' = [rows EXCEPT ![i].used = t]
    /\ UNCHANGED <<columns, path, config, pc, locals, overlapped>>

Open(d) ==
    \/ LoadLimits(d) \/ CreateTable(d) \/ LookAtColumns(d)
    \/ AddColumns(d) \/ DateCreated(d) \/ DateUsed(d) \/ ReadLegacy(d)

BindListener(d) ==
    \/ Bind(d) \/ AddrInUse(d) \/ Inspect(d) \/ Connect(d) \/ Remove(d) \/ Listen(d)

StartFails(d) == LoadFails(d) \/ AddFails(d) \/ BindFails(d)

Use(d) == \E i \in Id, t \in Time : Insert(d, i, t) \/ Touch(d, i, t)

\* The user edits config.toml by hand, or the environment of the service.
EditConfig ==
    /\ config' = ~config
    /\ UNCHANGED <<database, path, pc, locals, overlapped>>

Next ==
    \/ \E d \in Daemon :
        Start(d) \/ Open(d) \/ BindListener(d) \/ StartFails(d) \/ Stop(d) \/ Use(d)
    \/ EditConfig

Spec == Init /\ [][Next]_vars
-----------------------------------------------------------------------------
\* A daemon that serves has a complete schema, every row dated (list fails on a
\* NULL), and knows whether inserts must fill the old column, wherever earlier or
\* concurrent migrations were cut off: db.rs migrate_entries_schema is the only
\* place that dates rows, once per start.
ServingReady ==
    \A d \in Daemon : Serving(d) =>
        /\ Current \subseteq columns
        /\ \A i \in DOMAIN rows : rows[i].created # None /\ rows[i].used # None
        /\ legacy[d] = ("timestamp" \in columns)

\* A row of an earlier version keeps its date as the time of creation, also when the
\* process that added the column is not the one that fills it: test
\* opening_legacy_database_backfills_created_and_last_used_timestamps.
LegacyDateKept ==
    \A i \in DOMAIN rows :
        rows[i].timestamp # None /\ rows[i].created # None
            => rows[i].created = rows[i].timestamp

\* No start, of whichever process and however often repeated, changes a date that is
\* set: the order of recency survives restarts.
StartsKeepDates ==
    [][(\E d \in Daemon : pc'[d] # pc[d]) =>
        \A i \in DOMAIN rows :
            /\ rows[i].created # None => rows'[i].created = rows[i].created
            /\ rows[i].used # None => rows'[i].used = rows[i].used]_vars

\* While no two starts overlap, whoever watches the clipboard owns the socket clients
\* reach, across stops at any point and stale sockets.
SerialStartsOwnEndpoint ==
    ~overlapped => \A d \in Daemon : Serving(d) => path = d

\* While no two starts overlap, a start fails only over a configuration that is not
\* valid, and then before it has touched the database, or because another daemon
\* serves or something that is not a socket is in the way: no stop, however placed,
\* leaves a database or a path on which the next start fails.
FailsForAReason ==
    [][\A d \in Daemon : StartFails(d) =>
        \/ overlapped
        \/ ~config /\ pc[d] = "load"
        \/ path = "file"
        \/ \E e \in Daemon \ {d} : Serving(e)]_vars

\* Whoever watches the clipboard owns the socket: main.rs "A second daemon must fail
\* as a whole, never keep watching the clipboard without owning the IPC endpoint".
WatcherOwnsEndpoint == \A d \in Daemon : Serving(d) => path = d
=============================================================================
