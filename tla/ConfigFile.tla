----------------------------- MODULE ConfigFile -----------------------------
(***************************************************************************)
(* config.toml, the clients that change it and the daemon that applies it. *)
(* `mimeclip config` loads the file, changes settings, writes a temporary  *)
(* file, renames it over config.toml (config.rs) and asks the daemon to    *)
(* reload (cli/main.rs, server.rs, db.rs).  Clients are processes of their *)
(* own that take no lock and may be killed anywhere.  The file system is   *)
(* external: open, write, chmod and rename each take effect at once.       *)
(* What a write leaves is a configuration, or text that no reader accepts; *)
(* the directory and a symlink, resolved first, are left out.              *)
(***************************************************************************)
EXTENDS Integers

CONSTANTS
    Client,     \* processes of mimeclip config
    Daemon,     \* mimeclipd
    None,       \* a setting not given
    Entries, Sizes, \* what users give for the settings
    Env,        \* the settings in the environment of each process
    Default,    \* Config::default()
    Length(_),  \* the bytes of a configuration written as TOML
    Absent,     \* no file
    Empty, Broken, \* text: none, that of two configurations
    K,          \* 1024
    U64Max      \* largest u64

Unit == {"GiB", "MiB", "KiB", "B"}
SizeText == [number : Nat, unit : Unit]
Config == [entries : Nat, size : SizeText]
Given == [entries : Nat \cup {None}, size : SizeText \cup {None}]

ASSUME SizesAssumption == K \in Nat \ {0} /\ U64Max \in Nat
ASSUME DaemonAssumption == Daemon \notin Client
ASSUME NoneAssumption == None \notin Nat \cup SizeText
ASSUME GivenAssumption ==
    /\ Entries \subseteq Nat
    /\ Sizes \subseteq SizeText
    /\ Env \in [Client \cup {Daemon} -> Given]
    /\ Default \in Config
ASSUME TextAssumption ==
    /\ {Absent, Empty, Broken} \cap Config = {}
    /\ Absent \notin {Empty, Broken} /\ Empty # Broken

VARIABLES
    file,       \* config.toml
    temp,       \* config.toml.tmp
    pc,         \* where each client is
    fd,         \* where the file that a client has open is by now
    config,     \* what each client is about to save
    thread,     \* the daemon's thread for the connection of each client
    got,        \* the limits that thread has loaded
    up,         \* the daemon runs
    limits,     \* Database.max_entries and max_history_size
    want,       \* for the properties: the settings each client is given,
    asked,      \* those the last saves were given,
    missed,     \* whether the daemon was not told of a save, or could not load it,
    overlapped, \* two clients have been between load and rename at once,
    raced       \* two clients have been at the temporary file at once

files == <<file, temp, fd>>
client == <<pc, config>>
daemon == <<thread, got, up, limits>>
ghosts == <<want, asked, missed, overlapped, raced>>
vars == <<files, client, daemon, ghosts>>

Factor == [GiB |-> K * K * K, MiB |-> K * K, KiB |-> K, B |-> 1]

\* parse_size, where it succeeds
Bytes(size) == size.number * Factor[size.unit]
Parses(size) == Bytes(size) > 0 /\ Bytes(size) <= U64Max

\* Mutant: the remainder is ignored.
Format_Down(bytes) ==
    LET Fits(u) == bytes >= Factor[u]
        unit == IF Fits("GiB") THEN "GiB" ELSE IF Fits("MiB") THEN "MiB"
                ELSE IF Fits("KiB") THEN "KiB" ELSE "B"
    IN [number |-> bytes \div Factor[unit], unit |-> unit]

\* format_size
Format(bytes) ==
    LET Fits(u) == bytes >= Factor[u] /\ bytes % Factor[u] = 0
        unit == IF Fits("GiB") THEN "GiB" ELSE IF Fits("MiB") THEN "MiB"
                ELSE IF Fits("KiB") THEN "KiB" ELSE "B"
    IN [number |-> bytes \div Factor[unit], unit |-> unit]

\* Mutant: no entries are allowed.
Valid_Zero(c) == Parses(c.size)

\* Config::limits succeeds.
Valid(c) == c.entries >= 1 /\ Parses(c.size)
Limits(c) == [entries |-> c.entries, size |-> Bytes(c.size)]

ASSUME DefaultAssumption == Valid(Default)

Over(given, c) ==
    [entries |-> IF given.entries = None THEN c.entries ELSE given.entries,
     size |-> IF given.size = None THEN c.size ELSE given.size]

\* For the properties: a setting by its value, its text aside.
Unset == [entries |-> None, size |-> None]
Meant(given) == [given EXCEPT !.size = IF @ = None THEN None ELSE Bytes(@)]

\* Config::load by process p: no file and no text read as the defaults.
Read(text) == IF text \in Config THEN text ELSE Default
Loaded(p) == Over(Env[p], Read(file))
Loads(p) == file \in {Absent, Empty} \cup Config /\ Valid(Loaded(p))

Content == {Absent, Empty, Broken} \cup Config
Writing == {"write", "restrict", "rename"}
Editing == {"change", "open"} \cup Writing
Telling == {"connect", "wait"}
Setting == [entries : Nat \cup {None}, size : Nat \cup {None}]
AppliedLimits == [entries : Nat \ {0}, size : 1 .. U64Max]

TypeOK ==
    /\ file \in Content /\ temp \in Content
    /\ pc \in [Client -> {"off"} \cup Editing \cup Telling]
    /\ fd \in [Client -> {"temp", "file", "gone"}]
    /\ config \in [Client -> Config]
    /\ thread \in [Client -> {"idle", "asked", "loaded"}]
    /\ got \in [Client -> AppliedLimits \cup {None}]
    /\ \A c \in Client : thread[c] = "loaded" => got[c] \in AppliedLimits
    /\ up \in BOOLEAN /\ limits \in AppliedLimits \cup {None}
    /\ up => limits \in AppliedLimits
    /\ want \in [Client -> Setting] /\ asked \in Setting
    /\ {missed, overlapped, raced} \subseteq BOOLEAN

\* No file yet, or one saved earlier; a temporary file that a client has left.
Init ==
    /\ file \in {Absent, Default}
    /\ temp \in {Absent, Empty}
    /\ pc = [c \in Client |-> "off"]
    /\ fd = [c \in Client |-> "gone"]
    /\ config = [c \in Client |-> Default]
    /\ thread = [c \in Client |-> "idle"]
    /\ got = [c \in Client |-> None]
    /\ up = FALSE
    /\ limits = None
    /\ want = [c \in Client |-> Unset]
    /\ asked = Unset
    /\ missed = FALSE
    /\ overlapped = FALSE
    /\ raced = FALSE

\* What a client was about to save ends with it; nothing after the save reads it.
Forget(c) ==
    /\ config' = [config EXCEPT ![c] = Default]
    /\ want' = [want EXCEPT ![c] = Unset]

Step(c, from, to) == pc[c] = from /\ pc' = [pc EXCEPT ![c] = to]

-----------------------------------------------------------------------------
(***************************************************************************)
(* handle_config, interactive_config and save_to_path                      *)
(***************************************************************************)
Load(c) ==
    /\ Step(c, "off", "change")
    /\ thread[c] = "idle"
    /\ Loads(c)
    /\ config' = [config EXCEPT ![c] = Loaded(c)]
    /\ want' = [want EXCEPT ![c] = Meant(Env[c])]
    /\ overlapped' = (overlapped \/ \E e \in Client : pc[e] \in Editing)
    /\ UNCHANGED <<files, daemon, asked, missed, raced>>

Canonical(given) ==
    [given EXCEPT !.size = IF @ = None THEN None ELSE Format(Bytes(@))]

\* The settings that are given are taken over, a size in its canonical form; the
\* result must be valid before anything is written.
Change(c) ==
    /\ Step(c, "change", "open")
    /\ \E given \in [entries : Entries \cup {None}, size : Sizes \cup {None}] :
        /\ given.size # None => Parses(given.size)
        /\ config' = [config EXCEPT ![c] = Over(Canonical(given), @)]
        /\ want' = [want EXCEPT ![c] = Over(Meant(given), @)]
    /\ Valid(config'[c])
    /\ UNCHANGED <<files, daemon, asked, missed, overlapped, raced>>

\* Mutant: config.toml is written in place.
Open_InPlace(c) ==
    /\ Step(c, "open", "write")
    /\ file' = Empty
    /\ fd' = [fd EXCEPT ![c] = "file"]
    /\ raced' = (raced \/ \E e \in Client : pc[e] \in Writing)
    /\ UNCHANGED <<temp, config, daemon, want, asked, missed, overlapped>>

\* fs::write: open with O_CREAT and O_TRUNC, whoever else has the file open ...
Open(c) ==
    /\ Step(c, "open", "write")
    /\ temp' = Empty
    /\ fd' = [fd EXCEPT ![c] = "temp"]
    /\ raced' = (raced \/ \E e \in Client : pc[e] \in Writing)
    /\ UNCHANGED <<file, config, daemon, want, asked, missed, overlapped>>

\* What a file holds after c is written over its first bytes; of a longer text one
\* byte more is its last newline.
Overwritten(text, c) ==
    IF text = Broken \/ (text \in Config /\ Length(text) > Length(c) + 1)
    THEN Broken ELSE c

\* ... and write, into a file that may have become config.toml or nothing since.
Write(c) ==
    /\ Step(c, "write", "restrict")
    /\ temp' = IF fd[c] = "temp" THEN Overwritten(temp, config[c]) ELSE temp
    /\ file' = IF fd[c] = "file" THEN Overwritten(file, config[c]) ELSE file
    /\ fd' = [fd EXCEPT ![c] = "gone"]
    /\ UNCHANGED <<config, daemon, ghosts>>

\* set_permissions, by name
Restrict(c) ==
    /\ temp # Absent
    /\ Step(c, "restrict", "rename")
    /\ UNCHANGED <<files, config, daemon, ghosts>>

\* The settings c took from its environment are saved as well.
Rename(c) ==
    /\ temp # Absent
    /\ Step(c, "rename", "connect")
    /\ file' = temp
    /\ temp' = Absent
    /\ fd' = [e \in Client |-> IF fd[e] = "temp" THEN "file" ELSE "gone"]
    /\ asked' = Over(want[c], asked)
    /\ Forget(c)
    /\ UNCHANGED <<daemon, missed, overlapped, raced>>

\* send_request(ReloadConfig), at the latest of its attempts to connect
Connect(c) ==
    /\ up
    /\ Step(c, "connect", "wait")
    /\ thread' = [thread EXCEPT ![c] = "asked"]
    /\ UNCHANGED <<files, config, got, up, limits, ghosts>>

\* An error of a call above, no daemon after the last attempt, an answer that does
\* not come, or a kill; the temporary file stays.
Quit(c) ==
    /\ pc[c] # "off"
    /\ pc' = [pc EXCEPT ![c] = "off"]
    /\ fd' = [fd EXCEPT ![c] = "gone"]
    /\ missed' = (missed \/ pc[c] = "connect")
    /\ Forget(c)
    /\ UNCHANGED <<file, temp, daemon, asked, overlapped, raced>>

-----------------------------------------------------------------------------
(***************************************************************************)
(* The daemon: Database::open, and dispatch with Database::reload_config.  *)
(***************************************************************************)

\* Mutant: the mutex is only taken to apply the limits.
Free_Always == TRUE

\* The mutex of the database is free.
Free == \A c \in Client : thread[c] # "loaded"

Answered(c) == [pc EXCEPT ![c] = IF @ = "wait" THEN "off" ELSE @]

Start ==
    /\ ~up
    /\ Loads(Daemon)
    /\ up' = TRUE
    /\ limits' = Limits(Loaded(Daemon))
    /\ missed' = FALSE
    /\ UNCHANGED <<files, client, thread, got, want, asked, overlapped, raced>>

\* Config::load()?.limits()?
LoadLimits(c) ==
    /\ Free
    /\ thread[c] = "asked"
    /\ Loads(Daemon)
    /\ thread' = [thread EXCEPT ![c] = "loaded"]
    /\ got' = [got EXCEPT ![c] = Limits(Loaded(Daemon))]
    /\ missed' = FALSE
    /\ UNCHANGED <<files, client, up, limits, want, asked, overlapped, raced>>

\* The limits stay as they are.
ReloadFails(c) ==
    /\ Free
    /\ thread[c] = "asked"
    /\ ~Loads(Daemon)
    /\ thread' = [thread EXCEPT ![c] = "idle"]
    /\ pc' = Answered(c)
    /\ missed' = TRUE
    /\ UNCHANGED <<files, config, got, up, limits, want, asked, overlapped, raced>>

\* set_limits; trim is History's.
SetLimits(c) ==
    /\ thread[c] = "loaded"
    /\ thread' = [thread EXCEPT ![c] = "idle"]
    /\ got' = [got EXCEPT ![c] = None]
    /\ limits' = got[c]
    /\ pc' = Answered(c)
    /\ UNCHANGED <<files, config, up, ghosts>>

Stop ==
    /\ up
    /\ up' = FALSE
    /\ limits' = None
    /\ thread' = [c \in Client |-> "idle"]
    /\ got' = [c \in Client |-> None]
    /\ UNCHANGED <<files, client, ghosts>>

Set(c) ==
    \/ Load(c) \/ Change(c) \/ Open(c) \/ Write(c) \/ Restrict(c) \/ Rename(c)
    \/ Connect(c) \/ Quit(c)

Reload(c) == LoadLimits(c) \/ ReloadFails(c) \/ SetLimits(c)

Next == Start \/ Stop \/ \E c \in Client : Set(c) \/ Reload(c)

Spec == Init /\ [][Next]_vars
-----------------------------------------------------------------------------
\* Unless two clients are at the temporary file at once, config.toml never holds
\* a part of a configuration, no text, or limits the daemon would not start with,
\* wherever clients are cut off: save_to_path renames a finished file over it.
FileWhole ==
    ~raced => file = Absent \/ (file \in Config /\ Valid(file))

\* Unless two clients are between their load and their rename at once, each setting
\* has the value it was last given, down to the byte, and no save undoes another's.
SettingsKept ==
    ~overlapped =>
        /\ asked.entries # None => file \in Config /\ file.entries = asked.entries
        /\ asked.size # None => file \in Config /\ Bytes(file.size) = asked.size

\* Once every client that has replaced config.toml was answered, the daemon works
\* with the limits that config.toml holds, in whatever order their reloads came;
\* but for clients at the temporary file at once, or cut off before they ask.
Applied ==
    up /\ ~raced /\ ~missed /\ (\A c \in Client : pc[c] # "connect" /\ thread[c] = "idle")
        => Loads(Daemon) /\ limits = Limits(Loaded(Daemon))
=============================================================================
