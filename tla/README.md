# Verification of mimeclip

mimeclip keeps a history of the Wayland clipboard. A daemon, `mimeclipd`, watches
the selection, stores every representation of every copy in SQLite and puts old
entries back on the clipboard; `mimeclip` is the client that asks it to. This
directory models the daemon in TLA+, checks the models with TLC on small instances
and proves theorems about them, for every value of the constants, with TLAPS.

Paths below are relative to the repository; `db.rs`, `config.rs`, `types.rs` and
`ipc.rs` are in `src/common`, the other files in `src/daemon`, `cli/main.rs` apart.

## The system

| Component | State it keeps | Operations | Speaks with |
|---|---|---|---|
| History database (`db.rs`) | tables `entries`, `payloads`, the AUTOINCREMENT counter, limits | insert, trim, touch, delete, clear, set_limits, open with migration | watcher and client threads, through one mutex |
| Suppressed hash (`suppress.rs`) | one pending hash and its expiry | arm, should_suppress | restore requests arm it, the watcher checks it, through a mutex of its own |
| Watcher (`watcher.rs`) | pending offers, the ready offer, its Wayland connection | dispatch, request and drain pipes, normalize, hash, suppress, store | compositor, database, suppressed hash |
| Restore (`restore.rs`) | a thread with its own connection and data source | set the selection, serve data, end when cancelled | compositor, paste targets |
| IPC server (`server.rs`) | the listening socket, one thread per client | dispatch of eight requests | database, suppressed hash, restore |
| Main loop (`daemon/main.rs`) | none | start, retry the watcher, exit on a signal | all of the above |
| Configuration (`config.rs`) | `config.toml` | load, save, parse and format sizes | client writes, daemon reads |
| Client (`cli/main.rs`) | none | one request per run; `config set` | server, configuration |
| Kinds and labels (`types.rs`) | none | classify_kind, build_label, percent_decode | watcher |
| Messages and paths (`ipc.rs`), installation | none | none | |

What is hard here: the watcher, the client threads and the restore threads share the
database and the suppressed hash and release one mutex before taking the other; SQL
statements commit one by one, so a stop or an error tears a request; the compositor
reports selections later than they happen, several at a time, and reports back what a
restore has just set; connections break and the daemon restarts. `PROJECT.json` lists
each such hazard with its line.

What makes the components correct:

- database: one row per content, each with all its MIME types and no other payloads;
  the limits evict the least recently used entries and no more than they ask for; a
  fault in the middle of a request loses nothing else;
- suppressed hash and watcher: a restore does not come back as a new copy, a user's
  copy is never dropped for another reason, a selection that stays is captured, and an
  offer marked as a password is never read;
- start: a daemon that serves has a migrated database and owns the socket clients
  reach, and no stop leaves a state in which the next start fails;
- configuration: the file is always a whole configuration, keeps every setting, and
  is what the daemon works with once a client was answered;
- capture: one entry per content, however it is offered, with a label that names it;
- main loop: a daemon survives the loss of the compositor.

## Modules

| Module | What it is |
|---|---|
| `HistoryStore` | What the database promises: every request one atomic step on complete items; the sets that may remain after trimming. |
| `History` | `db.rs`, one SQL statement per step. Implements `HistoryStore`. |
| `Suppress` | `suppress.rs` as operators on the pending hash. |
| `MimeClip` | The daemon: watcher, restore requests and their threads, the suppressed hash, the compositor as an external party. The history is a set of hashes, each request one step, as `History` justifies. |
| `PayloadPipes` | One transfer: `process_ready` up to the payloads, and `read_payload_pipes`, against a source that blocks on full pipes. `MimeClip` sees it as `ReadPayloads` or `ReadFails`. |
| `Capture` | What becomes of the payloads: `normalize_payloads`, `payload_hash`, `classify_kind`, `build_label`, `percent_decode`, the payloads of a screenshot, and the crash of the daemon over a label. `MimeClip` sees it as the hash of an offer. |
| `Startup` | Processes that start: `Database::open` with the configuration and the migration, `bind_listener`, and every way to fail or stop in between. |
| `ConfigFile` | `mimeclip config` in several processes, the steps of `save_to_path`, and the daemon that reloads. |
| `MCHistory`, `MCMimeClip`, `MCCapture`, `MCStartup`, `MCConfig` | Instances for TLC (`PayloadPipes` needs none). |
| `Sums_proofs` | Induction over numbers and finite sets, and what holds of sums; the proofs that follow use it. |
| `History_proofs` | Types, payloads that match their entry, no orphans, completeness, what tears an entry, recency. |
| `HistoryStore_proofs` | Eviction, and that `History` implements `HistoryStore`. |
| `MimeClip_proofs` | Types, sensitive offers, what the watcher may drop. |
| `PayloadPipes_proofs` | Types, blocking reads, what a transfer returns, no deadlock with the source, the limit. |
| `Capture_proofs` | Types, one entry per content, restores recognized, copies kept, the names of files and screenshots. |
| `Startup_proofs` | Types, the migrated database, the owner of the socket, why starts fail. |
| `ConfigFile_proofs` | Types, the round trip of sizes, atomic saves, kept settings, reloads. |

How they compose: `History` implements `HistoryStore`, whose requests `MimeClip` uses as
single steps; `MimeClip` uses `Suppress`, `PayloadPipes` for one transfer and `Capture`
for the hash of what was transferred. `Startup` ends where the others begin, with a
daemon that serves, and `ConfigFile` supplies the limits that `History` calls `saved`.

### History and the code

`entries`, `payloads` and `seq` are the tables and the AUTOINCREMENT counter; `limits`
are the fields of `Database`, `saved` the limits in `config.toml`. `call` is the
`NewEntry` the watcher has built and not yet handed over: its timestamp is taken
before the mutex is. `op` is the request that holds the mutex and where it is; while
`op` is idle the mutex is free.

| Action | Code |
|---|---|
| `TakeStamp` | `process_ready` up to `let now = Utc::now()` |
| `InsertKnown`, `InsertEntry`, `InsertPayload` | the two branches of `Database::insert` and its loop |
| `TrimCount`, `TrimOldest`, `TrimDone` | `Database::trim`: the count statement, each turn of the size loop, its end |
| `RestoreTouch`, `Delete`, `Clear` | the requests of one statement |
| `SaveConfig`, `ReloadConfig` | `config set` writing the file, `reload_config` |
| `StatementFails`, `InsertFails`, `Restart` | an error return after some statements, one before any, a stop and the next `Database::open` |

The data of a payload is represented by the hash of the copy it was read from, its
size by `SizeOf` of that hash (the `size` column is the sum over the payloads). A
timestamp is a number: `to_rfc3339` in UTC sorts as text the way the times do (`+` is
below `.` and the digits). Only timestamps that the migration writes end in `Z` and
may sort differently within one millisecond.
A hash here stands for one content; when that holds is the business of `Capture`. The
column is UNIQUE: an insert that finds no row and then meets one would fail
(`HashTaken` in `InsertEntry` and `InsertFails`); the mutex rules that out.

The mutex is modelled by the guard `Free` on every request. That gives the grain of
interleaving the code has: the watcher's timestamp against whole requests, and
faults against statements. Kind, label, preview and permissions are left out.

### MimeClip and the code

The watcher is `watcher.pc`: `connect` (the start of `run`), `dispatch`
(`blocking_dispatch` and the check of `ready`), `read`, `check` and `store` (inside
`process_ready`). `queue` holds the Wayland events sent to the watcher and not yet
dispatched, in order. `StartRead` may come after any of them, because a call of
`blocking_dispatch` returns after those it found: that is how several selections
coalesce. A restore request is `idle`, `arm` (the database mutex released, the suppress
mutex not yet taken), `offer` (its thread runs) or `serve` (it owns the selection). A
request in `Shots` offers a screenshot instead: it takes no mutex and arms nothing,
since its selection is to be stored. An offer is its number in the order of selections;
it gives no data once it is replaced. `Sensitive` and `Filtered` stand for offers with
the password-manager hint and offers of which no MIME type is kept.

The compositor is external and modelled by how the code uses it: it announces a
selection by a `data_offer` and a `selection` event to a connected watcher with a
valid device, the selection in force on a new connection, and `finished` when the
seat of the device goes. Two history variables serve the properties only: `handled`,
the offers the watcher has read or, knowing them, ignored (a selection whose offer is
not in its map is not handled by being passed over), and `credit`, the time left of the
last restore of each hash. The panic of `build_label` between the check and the insert
is a `Restart` here and an action of its own in `Capture`.

### PayloadPipes and the code

`pc` follows `process_ready`: `receive` (a pipe and a request per MIME type), `flush`
(after which the watcher drops its write ends, `held`), `poll` and `read` (the outer and
the inner loop of `read_payload_pipes`), `end`. `polled` are the pipes the last `poll`
reported and the inner loop has not read yet; `done`, `taken` and `total` are the
fields of the code, with data counted in units. The code reads the reported pipes by
index, the model in any order. The source writes one MIME type at a time, in any
order, waits when its pipe is full, and closes each write end when it has written all,
at once or much later; it may stop for ever or go away. That is the source the comment
of `read_payload_pipes` describes, and also the restore thread of the daemon itself.
A pipe that gave nothing is left out of the `result` (`WithData`), and an offer of which
all pipes gave nothing is dropped by `process_ready` (outcome `nothing`). `lost` records
for the properties of which MIME types a `pipe()` or a read has failed.

### Capture and the code

Strings and data are sequences of bytes, a hash is the byte string that SHA-256 is fed
(a collision of the function itself is left out). `Normalized`, `HashOf`, `KindOf` and
`LabelOf` are the functions of the code on a list of payloads; the data a MIME type has
in several variants, the order of the offer, escapes and character boundaries are all
there. `Chars` is `from_utf8_lossy`, and `to_string_lossy`, byte for byte: which bytes
begin a character, which may follow, and how many of them one U+FFFD replaces; `Lossy`
is the string that results, so that a path need not be UTF-8 and a label shows what is
left of it. `Space` is the white space of Unicode. `Uris` takes the lines that `lines()`
finds, at `\n` and `\r\n`; `Stripped` takes off every `file://` that
`trim_start_matches` does; `High` and `Value` read what `from_str_radix` reads, which
includes a plus sign before one digit and digits of either case. Left out: the size in
the label of an image, and `..` as the last part of a path. `Capture` (the action) is
`process_ready` from the end of the transfer, `Panic` the slice of `build_label` outside
a character boundary: the main thread ends, systemd starts the daemon
(`Restart=on-failure`), and the compositor announces the same selection to it. The
history of this module may lose any entries to the limits, because which ones is
`History`'s question.

### Startup and the code

`columns` and `rows` are the table `entries` as far as the migration cares: which date
columns it has, and the three dates of each row. `seen` are the answers of
`entries_column_exists` at the start of the migration; they may be out of date when the
columns are added or filled. `config` says whether the configuration loads; that is the
first thing `Database::open` asks (`LoadLimits`, `LoadFails`), before any statement of
the schema, and the user may change the answer at any time (`EditConfig`). Each SQL
statement is a step, and `Stop` may end a process between any two: by a signal, a kill,
a panic or an error of `main`.
`path` is what lies at the IPC path; a socket is the name of the process that bound it, or
`stale` once that process is gone. `UnixListener::bind` is two system calls, `Bind` and
`Listen`, and `remove_file` takes whatever is at the path when it runs. `overlapped`
serves the properties only. A database starts empty, current, or in the version with
one `timestamp` column; deletes, which touch no date, are left out.

### ConfigFile and the code

A client goes through `load`, `change`, `open` (truncate the temporary file), `write`,
`restrict` (`set_permissions`), `rename`, `connect` and the wait for the answer; it may
be killed or fail at each (`Quit`). `fd` is where the file that a client has open is by
now: another client may have renamed it over `config.toml`. Texts are whole
configurations, `Empty` (read as the defaults), or `Broken` (two configurations written
over each other). A size is a number with a unit; `Bytes`, `Parses` and `Format` are
`parse_size` and `format_size` on those. `Env` are the settings each process has in its
environment, which override the file, and which a client therefore saves. `thread` is
the daemon's thread for a client: `LoadLimits` and `SetLimits` are apart, under one
mutex (`Free`). `want`, `asked`, `missed`, `overlapped` and `raced` serve the properties
only.

## Runs

| Run | Question | Outcome |
|---|---|---|
| `history` | Does the database implement the atomic store, without faults? | holds: types, no orphan payloads, complete entries, recency after creation, refinement of `HistoryStore` |
| `history_faults` | What survives faults, a clock set back and a legacy payload table? | holds: payloads match their entry, an entry is torn by its own insert only, no needless eviction |
| `torn_entry` | Is every entry complete, with faults? | violated: statements commit singly, a later copy does not repair the entry |
| `mimeclip` | Does the daemon as a whole keep its promises? | holds: types, sensitive offers never read, only echoes dropped, selections handled |
| `payload_pipes` | Does every transfer end, and with the whole offer? | holds: no blocking read, every MIME type with data whole and none without, also beside pipes that fail, an exact limit, no timeout of a source that waits for the watcher, and an end in every case |
| `startup` | Do starts keep the dates, and end with one daemon that owns the path? | holds, whatever stops and whatever version of the database; the ownership and the reasons to fail as long as no two starts overlap |
| `daemons_race` | Does whoever watches own the socket, in every case? | violated: a start that asks the other between its bind and its listen takes its path away, and both serve |
| `config` | Is the file whole, with every setting, and applied? | holds as long as two clients do not overlap; the order of reloads does not matter |
| `capture` | Does an entry follow from its content alone, and can it be restored and told by its label? | holds: a hash per content, one entry however offered, file names, screenshot URIs, ASCII copies always stored |
| `label_panic` | Is every copy stored? | violated: a label cut inside a character crashes each daemon that captures the copy |
| `echo_stored` | Is a restored selection never stored again? | violated with one slot for two restores, or a copy of the same content in between |
| `seat_reset` | Are selections handled after a seat reset? | violated: `Finished` is only logged |

Bounds. `history`: three contents (one with two MIME types and twice the size), limits
of which one binds by count and one by size, three rows, three readings of the clock:
enough for a tie, for a stale timestamp and for an eviction of each kind, and for a
content that returns after deletion under a new id. `history_faults`: two contents and
three rows, so that a torn content is deleted and returns beside orphans; two readings
of a clock that may go back. `I64Max` is 7, above every size in the passing runs.
`mimeclip`: two ordinary contents and a sensitive one, a restore request that may be
made again, a screenshot, two selections and one lost connection or restart; the slot
lives for one step of the clock. One restore follows another before the first comes
back, which is how restores share the slot; two at once are in `echo_stored` and
`seat_reset`, and any number in the theorems. `echo_stored` gives the slot five steps
and three selections, none lost, so that the counterexample does not depend on expiry.
`payload_pipes`: two MIME types of up to four units, pipes of three, chunks of two and a
limit of five, so that pipes fill, reads come up short, and offers fall below, at and
above the limit. `startup`: two processes, two rows and two dates, enough for a
migration cut off at each statement and taken up by another process, and for a third
start over what two have left, since a process may start again. `config`: two clients,
one of which and the daemon have a size in the environment; the factor 1024 is 2 and
`u64` has four bits. The user gives one of two sizes: 6 B, which `Format` turns into
3 KiB because MiB would leave a remainder, and 2 GiB, which is above the largest `u64`
and refused. The other cases of `Format` are not in the run; `BytesOfFormat` proves all
of them. `capture`: a label shows four bytes instead of 120; the offers have each MIME
kind, one content in two orders, a type with two variants in two orders, contents that
differ only in where a separator falls, a NUL, characters of two and three bytes at and
across the cut, the beginning of one of four, white space of two bytes; the file names
have a percent sign before digits, an accent and a byte that is not UTF-8. The proofs
below have none of these bounds.

Deadlock is checked in every run but `config`: there, after two clients have raced, the
file may be one that no client can load and the daemon cannot start with, and everything
waits for a user to repair it. Everywhere else a client or the clock can always act.

## Fairness

`MimeClip` assumes weak fairness of the watcher's steps and of `StartRead`. The watcher
is a loop on the main thread; the check of `ready` follows every return of
`blocking_dispatch`; reading ends because the pipes end or because the idle timeout
expires; `main` reconnects two seconds after an error. That a transfer ends is what
`TransferEnds` checks in `PayloadPipes`, where only the watcher's own steps are fair: a
source that sends nothing is timed out, one that sends for ever reaches the limit.
`EverySelectionHandled` leaves out three things. A device the compositor has finished is
excepted in the property; `seat_reset` shows what that hides. Connections are lost and
the process restarts finitely often (`MaxDrops`): with no end to it, no selection need
ever be read. The crash loop over a label is such a case, and is left to `Capture`,
where `label_panic` shows it. `Capture` assumes that a daemon that is off is started
again. The shipped unit does that (`Restart=on-failure`, `RestartSec=2` in
`systemd/mimeclipd.service`; that systemd's limit of starts is not reached is assumed
too), but the repository's README makes systemd optional (README.md:34-36, 74-79): a
daemon started by other means stays off after a panic, and `AsciiCopiesStored` is not
promised for it. That the main thread takes up what it is told is written `[]<>~Ready`,
which is weak fairness of the two actions that take it up. `History`, `Startup` and
`ConfigFile` have no fairness: they promise safety only.

## Proofs

Every invariant and action property that a passing run checks is also a theorem, and so
is the refinement of `HistoryStore`. The theorems hold for every value of the constants
that meets the named assumptions: `NoHash` is not a hash, every hash has MIME types and
a positive size, limits are positive, bounds are natural numbers, a missing value is not
a value, the defaults are a valid configuration; in `Capture`, a MIME type is a string
without NUL (they are C strings of the Wayland protocol) and of one class, what a
transfer returns of an offer is payloads with data, paths and pictures are byte strings,
none of them empty, and a history holds at least one entry. Theorems that need more
state it: no faults inside a request, limits within an i64, a clock that does not step
back, the foreign key.

- `Sums_proofs`. An induction here is over a set of numbers, or of subsets of a finite
  set, that is closed under the step; it follows from the well-foundedness of the natural
  numbers. `SumOver` adds the weights of a finite set in an order chosen by `CHOOSE`;
  the lemmas show that the order does not matter, what an element more or less changes,
  and that the folds by which the models add are this sum.
- `History_proofs`. `TypeCorrect` needs that a copy whose payloads are being inserted
  has a hash and its row an id. `PayloadsBelong` needs more: ids and payload rows never
  exceed `seq`, ids are unique, and while a copy is being inserted its row, if it
  exists, carries the hash of the copy; it holds with faults and without the cascade,
  because an id is never given again. `NoPayloadOutlivesItsEntry` (with the foreign key)
  needs that the row under way still exists while its payloads are inserted.
  `EveryMimeTypeStored` (no faults) adds that the row under way has exactly the payloads
  that are no longer to be done. `OnlyOwnInsertTears` keeps that clause alone
  (`Copying`), which faults do not disturb: an insert that gets as far as trim has left
  its row whole, every other request, failure and restart leaves the payloads of the
  rows it keeps, and a new row has an id that no left-over payload has.
  `UseFollowsCreation` (the clock does not step back) rests on the invariant that no
  timestamp, stored or taken by the watcher, is ahead of the clock, and on the order of
  creation and use on each row: the stale timestamp is written to both columns of a new
  row, and a row that exists was created by the same watcher earlier.
- `HistoryStore_proofs`. `EvictionIsNeeded` (limits within an i64) follows from the count
  statement and the loop separately. `StatementsAreAtomic` (no faults, limits within an
  i64) is the refinement: a client finds `Shown`, the items as they were when the request
  that holds the mutex began, so that each statement is a stutter but the last. The
  invariant `StoreInv` says what a request has done so far: the rows are those before it
  with the copy added or used (`Due`) until trimming starts, and from then on a part of
  them in which no kept row is older than one that is gone and of which the row evicted
  last did not fit (`Evicted`). At the end that is one of the trimmed sets
  `HistoryStore` allows, which are described there by sums and without an order.
- `MimeClip_proofs`. The invariant is `Inv`: types, restores on their way know their
  hash, the credit of the pending hash is what is left of the slot, and no
  sensitive offer is ready, being read or stored. `PasswordsStayOut` needs that offers
  once made do not change; `OnlyEchoesDropped` follows from the credit.
- `PayloadPipes_proofs`. The invariant says what each place knows (`Places`), that no
  pipe gives more than was written (`Flow`), and that a pipe that is done is closed and
  empty unless that pipe has failed (`Ends`), from which `OfferIsWhole` follows.
  `NoDeadlockWithSource` follows: a pipe the source waits for is not closed, so not
  done, so polled, and it is full, so `poll` reports it. `LimitIsExact` adds that
  `total` is the sum of what each pipe gave, and that a refusal comes with a chunk that
  exceeds the limit: no pipe gives more than the size of its data.
- `Capture_proofs`. The invariant `HeldInv` says that every entry holds what some offer
  was normalized to, with its hash (`Faithful`), that no two have one hash, and that a
  copy taken up has its hash in the history. `ContentIsOneEntry` and `EchoIsRecognized`
  follow from lemmas on the code's functions: the order of payloads is total and strict,
  sorting permutes, normalizing depends on the set of payloads alone
  (`NormalizedOfRange`), and changes nothing the second time (`NormalizedTwice`).
  `CopiesAreKept` needs that the bytes the hash is fed can be read back from the end
  (`ReadBack`), which is true without a NUL in the data only.
  `CaptureTypeCorrect` treats the recursive readers of `from_utf8_lossy` and
  `percent_decode` as scans that go on by at least one byte (`ScanExists`, `ScanTyped`),
  so that they return a string for every input. `FilesAreNamed` and `ScreenshotsAreFound`
  rest on `DecodesCode` (what `file_uri_path` escapes, the bytes that `percent_decode`
  collects give back), on lines that an escaped path never breaks and that are ASCII, so
  that `from_utf8_lossy` leaves them alone, and on the invariant `Offered`, which says
  what files and screenshots are offered with. A path that is not UTF-8 is shown, and
  offered as a screenshot, as `Lossy` of it; the theorems say so and promise no more.
- `Startup_proofs`. `DaemonsReady` and `LegacyDatesSurvive` rest on an invariant with
  one clause per place of a process: what it has seen is still true of the table
  (columns are only added), which columns it has made sure of, and which dates are
  filled from there on. Columns and dates only ever get filled, so the clauses survive
  the steps of other processes, in any order. `SerialStartsSafe` and
  `StartsFailForAReason` add that a configuration is only looked at in `load`, and that,
  while no two starts have overlapped, a process that binds is alone in starting, so
  that what it saw at the path is still there.
- `ConfigFile_proofs`. `BytesOfFormat` is the arithmetic: `Format` loses no byte.
  `SavesAreAtomic` needs that, without a race, a temporary file that is renamed holds
  just what its writer wrote. `SavesKeepSettings` carries what the users asked for
  through load, change and rename of the one client that is between them. `ReloadsApply`
  needs that a thread that has loaded limits holds the mutex until it has set them, and
  that every rename is followed by a reload that is still to come or to load.

What the proofs corrected: `Value` left the digit of a byte that has none to `CHOOSE`,
which could pick it as one; digits in lower case and the plus sign were not read; and a
URI list was split at `\r\n` only. The types of `Capture` were not provable until these
followed the code. `Sorted` is written by places instead of `SortSeq`, whose order is an
operator argument that the prover cannot reason about.

Only model-checked: `EverySelectionHandled`, `TransferEnds` and `AsciiCopiesStored`.
They are liveness properties under fairness, which this prover cannot reason about
(`ENABLED`). The violated properties are refuted by TLC, not by a proof. Outside the
theorems, what SHA-256 does with the bytes it is fed remains an assumption of the models.

## Deviations

The runs that expect a violation are listed under `findings` in `PROJECT.json`. The
models also show the following, which the properties above exclude by an assumption or a
condition:

- A copy stamped before another request touches an entry is stored as the older of the
  two, and its own trim may evict it (`TakeStamp` against `RestoreTouch` in `History`).
- A payload table from before the foreign key has no cascade: delete, clear and trim leave
  payload rows behind (`Cascade = FALSE`; `NoOrphans` assumes the contrary).
- A size limit of 2^63 bytes or more is negative in `trim` (`AsI64`), and every entry
  goes; `NoNeedlessEviction` is proved for limits within an i64.
- Two clients that overlap lose an update; the truncation by the second may be what the
  first renames, which reads as the defaults; and a write that comes after the rename of
  the other goes into `config.toml` itself (`overlapped` and `raced` in `ConfigFile`).
- The settings in the environment of a client become part of the file it saves.
- A MIME type offered without data is not stored, and an offer of only such types is not
  an entry (watcher.rs:385-388, 464), although README.md:7 has every MIME type stored
  (`WithData`; `WholeOffer` speaks of types with data).
- The label of a file whose name is not UTF-8 has U+FFFD in it, and the text and the URI
  of a screenshot whose path is not UTF-8 are those of a path that need not exist
  (`to_string_lossy`, server.rs:78; `Lossy` in `FilesNamed` and `ScreenshotUriNamesFile`).
- Two contents of which one contains a NUL may have one hash (`NulFree` in `CopiesKept`).

## Not modelled

- Serving a restored selection to other applications: the restore thread is the source of
  `PayloadPipes` for the daemon's own watcher; a target that does not read holds the
  thread, its other targets and its end.
- Which Wayland errors are retried: any error may be, or may end the process.
- The commands of the client other than `config`: one request, one answer. `List`,
  `Decode` and `Ping` change nothing.
- The size in the labels of images, permissions, paths, argument parsing, printing,
  logging, the installation.

## Plan

1. An inductive invariant for the part of `EchoNotStored` that does hold: one restore at
   a time, no copy of the same content, no expiry.
2. The restore thread with several targets, one of which does not read.
