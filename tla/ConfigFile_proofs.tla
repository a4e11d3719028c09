------------------------- MODULE ConfigFile_proofs -------------------------
(***************************************************************************)
(* Proofs about ConfigFile: the sizes, the types, what the temporary file  *)
(* holds for the one client that writes it, what the settings agree with   *)
(* while saves do not overlap, and what the daemon's threads know of the   *)
(* file.                                                                   *)
(***************************************************************************)
EXTENDS ConfigFile, TLAPS

\* One client at a time is at the temporary file, and it finds its own text there.
Writers ==
    /\ \A c \in Client : pc[c] \in {"open"} \cup Writing => Valid(config[c])
    /\ ~raced =>
        /\ file = Absent \/ (file \in Config /\ Valid(file))
        /\ \A c, e \in Client : pc[c] \in Writing /\ pc[e] \in Writing => c = e
        /\ \A c \in Client :
            /\ pc[c] = "write" => temp = Empty /\ fd[c] = "temp"
            /\ pc[c] \in {"restrict", "rename"} => temp = config[c]

\* A configuration has the settings s asks for.
Agrees(c, s) ==
    /\ s.entries # None => c \in Config /\ c.entries = s.entries
    /\ s.size # None => c \in Config /\ Bytes(c.size) = s.size

\* While saves do not overlap: one client edits, and what it is about to save is what
\* was asked for before, but for what it has been given.
Kept ==
    ~overlapped =>
        /\ ~raced
        /\ \A c, e \in Client : pc[c] \in Editing /\ pc[e] \in Editing => c = e
        /\ Agrees(file, asked)
        /\ \A c \in Client : pc[c] \in Editing => Agrees(config[c], Over(want[c], asked))

\* Limits that config.toml holds.
Fresh(l) == Loads(Daemon) /\ l = Limits(Loaded(Daemon))

\* Between a save and the load it asks for a client waits to ask or has asked; the
\* thread that has loaded holds the mutex alone.
Told ==
    /\ \A c, e \in Client : thread[c] = "loaded" /\ thread[e] = "loaded" => c = e
    /\ ~up => \A c \in Client : thread[c] = "idle"
    /\ up /\ ~raced /\ ~missed /\ (\A c \in Client : pc[c] # "connect" /\ thread[c] # "asked")
        => /\ \A c \in Client : thread[c] = "loaded" => Fresh(got[c])
           /\ (\A c \in Client : thread[c] = "idle") => Fresh(limits)

Inv == TypeOK /\ Writers /\ Kept /\ Told

USE DEF Step, Writing, Editing, Telling

-----------------------------------------------------------------------------
\* Factors are positive.
LEMMA FactorType == \A u \in Unit : Factor[u] \in Nat \ {0}
<1>1. K \in Nat /\ K >= 1
    BY SizesAssumption
<1>2. K * K \in Nat /\ K * K >= 1
    BY <1>1
<1>3. K * K * K \in Nat /\ K * K * K >= 1
    BY <1>1, <1>2
<1> QED
    BY <1>1, <1>2, <1>3 DEF Factor, Unit

\* format_size loses nothing: parse_size reads the same number of bytes back.
LEMMA BytesOfFormat ==
    ASSUME NEW b \in Nat, b > 0
    PROVE  Format(b) \in SizeText /\ Bytes(Format(b)) = b
<1> DEFINE Fits(u) == b >= Factor[u] /\ b % Factor[u] = 0
           unit == IF Fits("GiB") THEN "GiB" ELSE IF Fits("MiB") THEN "MiB"
                   ELSE IF Fits("KiB") THEN "KiB" ELSE "B"
<1>1. unit \in Unit /\ (unit = "B" \/ Fits(unit))
    BY DEF Unit
<1>2. Factor["B"] = 1
    BY DEF Factor
<1>3. Fits("B")
    BY <1>2
<1> HIDE DEF unit
<1>4. PICK d \in Nat \ {0} : d = Factor[unit] /\ b % d = 0
    BY <1>1, <1>3, FactorType DEF Unit
<1>5. b \div d \in Nat /\ b = d * (b \div d) + (b % d)
    BY <1>4
<1>6. (b \div d) * d = b
    BY <1>4, <1>5
<1>7. Format(b) = [number |-> b \div d, unit |-> unit]
    BY <1>4 DEF Format, unit
<1> QED
    BY <1>1, <1>4, <1>5, <1>6, <1>7 DEF SizeText, Bytes

LEMMA BytesType == \A s \in SizeText : Bytes(s) \in Nat
    BY FactorType DEF Bytes, SizeText

\* Limits of a valid configuration are limits the daemon may have.
LEMMA LimitsType ==
    ASSUME NEW c \in Config, Valid(c) PROVE Limits(c) \in AppliedLimits
    BY BytesType, SizesAssumption DEF Config, Valid, Parses, Limits, AppliedLimits

LEMMA OverType ==
    ASSUME NEW g \in Given, NEW c \in Config PROVE Over(g, c) \in Config
    BY DEF Over, Given, Config

LEMMA OverSetting ==
    ASSUME NEW s \in Setting, NEW t \in Setting PROVE Over(s, t) \in Setting
    BY DEF Over, Setting

LEMMA MeantType == ASSUME NEW g \in Given PROVE Meant(g) \in Setting
    BY BytesType DEF Meant, Given, Setting

\* What users give is parsed and put in its canonical form.
LEMMA CanonicalType ==
    ASSUME NEW g \in [entries : Entries \cup {None}, size : Sizes \cup {None}],
           g.size # None => Parses(g.size)
    PROVE  /\ g \in Given
           /\ Canonical(g) \in Given
           /\ Canonical(g).entries = g.entries
           /\ g.size = None => Canonical(g).size = None
           /\ g.size # None => /\ Canonical(g).size # None
                               /\ Bytes(Canonical(g).size) = Bytes(g.size)
<1>1. g \in Given
    BY GivenAssumption DEF Given
<1>2. CASE g.size = None
    BY <1>1, <1>2 DEF Canonical, Given
<1>3. CASE g.size # None
  <2>1. Bytes(g.size) \in Nat /\ Bytes(g.size) > 0
    BY <1>1, <1>3, BytesType DEF Given, Parses
  <2>2. Format(Bytes(g.size)) \in SizeText /\ Bytes(Format(Bytes(g.size))) = Bytes(g.size)
    BY <2>1, BytesOfFormat
  <2> QED
    BY <1>1, <1>3, <2>2, NoneAssumption DEF Canonical, Given
<1> QED
    BY <1>1, <1>2, <1>3

LEMMA LoadedType ==
    ASSUME NEW p \in Client \cup {Daemon} PROVE Loaded(p) \in Config
    BY OverType, GivenAssumption DEF Loaded, Read

LEMMA InitInv == Init => Inv
<1> SUFFICES ASSUME Init PROVE Inv
    OBVIOUS
<1> USE TextAssumption, NoneAssumption, GivenAssumption, DefaultAssumption
<1>1. TypeOK
    BY DEF Init, TypeOK, Content, Unset, Setting
<1>2. Writers
    BY DEF Init, Writers
<1>3. Kept
    BY DEF Init, Kept, Agrees, Unset
<1>4. Told
    BY DEF Init, Told
<1> QED
    BY <1>1, <1>2, <1>3, <1>4 DEF Inv

\* Every state is well typed.
LEMMA TypeStep == TypeOK /\ [Next]_vars => TypeOK'
<1> SUFFICES ASSUME TypeOK, [Next]_vars PROVE TypeOK'
    OBVIOUS
<1>a. CASE UNCHANGED vars
    BY <1>a DEF TypeOK, vars, files, client, daemon, ghosts
<1>b. CASE Start
    BY <1>b, LoadedType, LimitsType
    DEF Start, Loads, TypeOK, files, client, daemon, ghosts
<1>c. CASE Stop
    BY <1>c
    DEF Stop, TypeOK, files, client, daemon, ghosts
<1>1. ASSUME NEW c \in Client, Load(c) PROVE TypeOK'
    BY <1>1, LoadedType, MeantType, GivenAssumption
    DEF Load, TypeOK, files, client, daemon, ghosts
<1>2. ASSUME NEW c \in Client, Change(c) PROVE TypeOK'
  <2>1. PICK g \in [entries : Entries \cup {None}, size : Sizes \cup {None}] :
            /\ g.size # None => Parses(g.size)
            /\ config' = [config EXCEPT ![c] = Over(Canonical(g), @)]
            /\ want' = [want EXCEPT ![c] = Over(Meant(g), @)]
    BY <1>2 DEF Change
  <2>2. config' \in [Client -> Config] /\ want' \in [Client -> Setting]
    BY <2>1, CanonicalType, OverType, MeantType, OverSetting DEF TypeOK
  <2> QED
    BY <1>2, <2>2 DEF Change, TypeOK, files, daemon
<1>3. ASSUME NEW c \in Client, Open(c) PROVE TypeOK'
    BY <1>3
    DEF Open, TypeOK, Content, files, client, daemon, ghosts
<1>4. ASSUME NEW c \in Client, Write(c) PROVE TypeOK'
    BY <1>4
    DEF Write, Overwritten, TypeOK, Content, files, client, daemon, ghosts
<1>5. ASSUME NEW c \in Client, Restrict(c) PROVE TypeOK'
    BY <1>5
    DEF Restrict, TypeOK, files, client, daemon, ghosts
<1>6. ASSUME NEW c \in Client, Rename(c) PROVE TypeOK'
  <2>1. asked' \in Setting
    BY <1>6, OverSetting DEF Rename, TypeOK
  <2>2. want' \in [Client -> Setting] /\ config' \in [Client -> Config]
    BY <1>6, GivenAssumption DEF Rename, Forget, Unset, Setting, TypeOK
  <2> QED
    BY <1>6, <2>1, <2>2 DEF Rename, TypeOK, Content, files, daemon
<1>7. ASSUME NEW c \in Client, Connect(c) PROVE TypeOK'
    BY <1>7
    DEF Connect, TypeOK, files, client, daemon, ghosts
<1>8. ASSUME NEW c \in Client, Quit(c) PROVE TypeOK'
    BY <1>8, GivenAssumption
    DEF Quit, Forget, Unset, Setting, TypeOK, files, client, daemon, ghosts
<1>9. ASSUME NEW c \in Client, LoadLimits(c) PROVE TypeOK'
    BY <1>9, LoadedType, LimitsType
    DEF LoadLimits, Loads, TypeOK, files, client, daemon, ghosts
<1>10. ASSUME NEW c \in Client, ReloadFails(c) PROVE TypeOK'
    BY <1>10
    DEF ReloadFails, Answered, TypeOK, files, client, daemon, ghosts
<1>11. ASSUME NEW c \in Client, SetLimits(c) PROVE TypeOK'
    BY <1>11, NoneAssumption
    DEF SetLimits, Answered, TypeOK, files, client, daemon, ghosts
<1> QED
    BY <1>a, <1>b, <1>c, <1>1, <1>2, <1>3, <1>4, <1>5, <1>6, <1>7, <1>8, <1>9, <1>10, <1>11
    DEF Next, Set, Reload

\* A client finds its own text in the temporary file, unless another has opened it.
LEMMA WritersStep == Inv /\ [Next]_vars => Writers'
<1> SUFFICES ASSUME Inv, [Next]_vars PROVE Writers'
    OBVIOUS
<1>a. CASE UNCHANGED vars
    BY <1>a DEF Inv, Writers, vars, files, client, daemon, ghosts
<1>b. CASE Start
    BY <1>b
    DEF Start, Inv, TypeOK, Writers, files, client, daemon, ghosts
<1>c. CASE Stop
    BY <1>c
    DEF Stop, Inv, TypeOK, Writers, files, client, daemon, ghosts
<1>1. ASSUME NEW c \in Client, Load(c) PROVE Writers'
    BY <1>1
    DEF Load, Inv, TypeOK, Writers, files, client, daemon, ghosts
<1>2. ASSUME NEW c \in Client, Change(c) PROVE Writers'
    BY <1>2
    DEF Change, Inv, TypeOK, Writers, files, client, daemon, ghosts
<1>3. ASSUME NEW c \in Client, Open(c) PROVE Writers'
    BY <1>3
    DEF Open, Inv, TypeOK, Writers, files, client, daemon, ghosts
<1>4. ASSUME NEW c \in Client, Write(c) PROVE Writers'
    BY <1>4, TextAssumption
    DEF Write, Overwritten, Inv, TypeOK, Writers, files, client, daemon, ghosts
<1>5. ASSUME NEW c \in Client, Restrict(c) PROVE Writers'
    BY <1>5
    DEF Restrict, Inv, TypeOK, Writers, files, client, daemon, ghosts
<1>6. ASSUME NEW c \in Client, Rename(c) PROVE Writers'
    BY <1>6
    DEF Rename, Forget, Inv, TypeOK, Writers, files, client, daemon, ghosts
<1>7. ASSUME NEW c \in Client, Connect(c) PROVE Writers'
    BY <1>7
    DEF Connect, Inv, TypeOK, Writers, files, client, daemon, ghosts
<1>8. ASSUME NEW c \in Client, Quit(c) PROVE Writers'
    BY <1>8
    DEF Quit, Forget, Inv, TypeOK, Writers, files, client, daemon, ghosts
<1>9. ASSUME NEW c \in Client, LoadLimits(c) PROVE Writers'
    BY <1>9
    DEF LoadLimits, Inv, TypeOK, Writers, files, client, daemon, ghosts
<1>10. ASSUME NEW c \in Client, ReloadFails(c) PROVE Writers'
    BY <1>10
    DEF ReloadFails, Answered, Inv, TypeOK, Writers, files, client, daemon, ghosts
<1>11. ASSUME NEW c \in Client, SetLimits(c) PROVE Writers'
    BY <1>11
    DEF SetLimits, Answered, Inv, TypeOK, Writers, files, client, daemon, ghosts
<1> QED
    BY <1>a, <1>b, <1>c, <1>1, <1>2, <1>3, <1>4, <1>5, <1>6, <1>7, <1>8, <1>9, <1>10, <1>11
    DEF Next, Set, Reload

\* Each save that does not overlap another starts from what was asked for so far.
LEMMA KeptStep == Inv /\ [Next]_vars => Kept'
<1> SUFFICES ASSUME Inv, [Next]_vars PROVE Kept'
    OBVIOUS
<1>a. CASE UNCHANGED vars
    BY <1>a DEF Inv, Kept, vars, files, client, daemon, ghosts
<1>b. CASE Start
    BY <1>b
    DEF Start, Inv, TypeOK, Kept, files, client, daemon, ghosts
<1>c. CASE Stop
    BY <1>c
    DEF Stop, Inv, TypeOK, Kept, files, client, daemon, ghosts
<1>1. ASSUME NEW c \in Client, Load(c) PROVE Kept'
  <2>1. ASSUME ~overlapped' PROVE Agrees(config'[c], Over(want'[c], asked))
    <3>1. Agrees(Read(file), asked) /\ Read(file) \in Config
      BY <1>1, <2>1, GivenAssumption DEF Load, Read, Agrees, Inv, Kept
    <3>2. config'[c] = Over(Env[c], Read(file)) /\ want'[c] = Meant(Env[c])
      BY <1>1 DEF Load, Loaded, Inv, TypeOK
    <3>3. Env[c] \in Given
      BY GivenAssumption
    <3>4. config'[c] \in Config
      BY <3>1, <3>2, <3>3, OverType
    <3>5. want'[c].entries = Env[c].entries /\ (want'[c].size = None <=> Env[c].size = None)
          /\ (Env[c].size # None => want'[c].size = Bytes(Env[c].size))
      BY <3>2, <3>3, BytesType, NoneAssumption DEF Meant, Given
    <3> QED
      BY <3>1, <3>2, <3>3, <3>4, <3>5 DEF Over, Agrees
  <2> QED
    BY <1>1, <2>1 DEF Load, Inv, TypeOK, Kept, files
<1>2. ASSUME NEW c \in Client, Change(c) PROVE Kept'
  <2>1. PICK g \in [entries : Entries \cup {None}, size : Sizes \cup {None}] :
            /\ g.size # None => Parses(g.size)
            /\ config' = [config EXCEPT ![c] = Over(Canonical(g), @)]
            /\ want' = [want EXCEPT ![c] = Over(Meant(g), @)]
    BY <1>2 DEF Change
  <2>2. ASSUME ~overlapped PROVE Agrees(config'[c], Over(want'[c], asked))
    <3>1. config[c] \in Config /\ Agrees(config[c], Over(want[c], asked))
      BY <1>2, <2>2 DEF Change, Inv, TypeOK, Kept
    <3>2. config'[c] = Over(Canonical(g), config[c]) /\ want'[c] = Over(Meant(g), want[c])
      BY <2>1 DEF Inv, TypeOK
    <3>3. config'[c] \in Config
      BY <2>1, <3>1, <3>2, CanonicalType, OverType
    <3>4. ASSUME Over(want'[c], asked).entries # None
          PROVE  config'[c].entries = Over(want'[c], asked).entries
      BY <2>1, <3>1, <3>2, <3>4, CanonicalType DEF Over, Meant, Agrees
    <3>5. ASSUME Over(want'[c], asked).size # None
          PROVE  Bytes(config'[c].size) = Over(want'[c], asked).size
      <4>1. CASE g.size = None
        BY <2>1, <3>1, <3>2, <3>5, <4>1, CanonicalType DEF Over, Meant, Agrees
      <4>2. CASE g.size # None
        <5>1. Bytes(g.size) # None
          BY <2>1, <4>2, CanonicalType, BytesType, NoneAssumption DEF Given
        <5> QED
          BY <2>1, <3>2, <4>2, <5>1, CanonicalType DEF Over, Meant
      <4> QED
        BY <4>1, <4>2
    <3> QED
      BY <3>3, <3>4, <3>5 DEF Agrees
  <2> QED
    BY <1>2, <2>2 DEF Change, Inv, TypeOK, Kept, files
<1>3. ASSUME NEW c \in Client, Open(c) PROVE Kept'
    BY <1>3
    DEF Open, Inv, TypeOK, Kept, files, client, daemon, ghosts
<1>4. ASSUME NEW c \in Client, Write(c) PROVE Kept'
  <2>1. ~raced => file' = file
    BY <1>4 DEF Write, Inv, Writers
  <2> QED
    BY <1>4, <2>1 DEF Write, Inv, TypeOK, Kept, daemon, ghosts
<1>5. ASSUME NEW c \in Client, Restrict(c) PROVE Kept'
    BY <1>5
    DEF Restrict, Inv, TypeOK, Kept, files, client, daemon, ghosts
<1>6. ASSUME NEW c \in Client, Rename(c) PROVE Kept'
  <2>1. ASSUME ~overlapped PROVE Agrees(file', asked')
    BY <1>6, <2>1 DEF Rename, Inv, Writers, Kept
  <2> QED
    BY <1>6, <2>1 DEF Rename, Forget, Inv, TypeOK, Kept
<1>7. ASSUME NEW c \in Client, Connect(c) PROVE Kept'
    BY <1>7
    DEF Connect, Inv, TypeOK, Kept, files, client, daemon, ghosts
<1>8. ASSUME NEW c \in Client, Quit(c) PROVE Kept'
    BY <1>8
    DEF Quit, Forget, Inv, TypeOK, Kept, files, client, daemon, ghosts
<1>9. ASSUME NEW c \in Client, LoadLimits(c) PROVE Kept'
    BY <1>9
    DEF LoadLimits, Inv, TypeOK, Kept, files, client, daemon, ghosts
<1>10. ASSUME NEW c \in Client, ReloadFails(c) PROVE Kept'
    BY <1>10
    DEF ReloadFails, Answered, Inv, TypeOK, Kept, files, client, daemon, ghosts
<1>11. ASSUME NEW c \in Client, SetLimits(c) PROVE Kept'
    BY <1>11
    DEF SetLimits, Answered, Inv, TypeOK, Kept, files, client, daemon, ghosts
<1> QED
    BY <1>a, <1>b, <1>c, <1>1, <1>2, <1>3, <1>4, <1>5, <1>6, <1>7, <1>8, <1>9, <1>10, <1>11
    DEF Next, Set, Reload

\* A load under the mutex is the last until it is applied.
LEMMA ToldStep == Inv /\ [Next]_vars => Told'
<1> SUFFICES ASSUME Inv, [Next]_vars PROVE Told'
    OBVIOUS
<1>a. CASE UNCHANGED vars
    BY <1>a DEF Inv, Told, Fresh, Loads, Loaded, vars, files, client, daemon, ghosts
<1>b. CASE Start
    BY <1>b
    DEF Start, Inv, TypeOK, Told, Fresh, Loads, Loaded, files, client, daemon, ghosts
<1>c. CASE Stop
    BY <1>c
    DEF Stop, Inv, TypeOK, Told, Fresh, Loads, Loaded, files, client, daemon, ghosts
<1>1. ASSUME NEW c \in Client, Load(c) PROVE Told'
    BY <1>1
    DEF Load, Inv, TypeOK, Told, Fresh, Loads, Loaded, files, client, daemon, ghosts
<1>2. ASSUME NEW c \in Client, Change(c) PROVE Told'
    BY <1>2
    DEF Change, Inv, TypeOK, Told, Fresh, Loads, Loaded, files, client, daemon, ghosts
<1>3. ASSUME NEW c \in Client, Open(c) PROVE Told'
    BY <1>3
    DEF Open, Inv, TypeOK, Told, Fresh, Loads, Loaded, files, client, daemon, ghosts
<1>4. ASSUME NEW c \in Client, Write(c) PROVE Told'
  <2>1. ~raced => file' = file
    BY <1>4 DEF Write, Inv, Writers
  <2> QED
    BY <1>4, <2>1 DEF Write, Inv, TypeOK, Told, Fresh, Loads, Loaded, daemon, ghosts
<1>5. ASSUME NEW c \in Client, Restrict(c) PROVE Told'
    BY <1>5
    DEF Restrict, Inv, TypeOK, Told, Fresh, Loads, Loaded, files, client, daemon, ghosts
<1>6. ASSUME NEW c \in Client, Rename(c) PROVE Told'
    BY <1>6
    DEF Rename, Forget, Inv, TypeOK, Told, Fresh, Loads, Loaded, files, client, daemon, ghosts
<1>7. ASSUME NEW c \in Client, Connect(c) PROVE Told'
    BY <1>7
    DEF Connect, Inv, TypeOK, Told, Fresh, Loads, Loaded, files, client, daemon, ghosts
<1>8. ASSUME NEW c \in Client, Quit(c) PROVE Told'
    BY <1>8
    DEF Quit, Forget, Inv, TypeOK, Told, Fresh, Loads, Loaded, files, client, daemon, ghosts
<1>9. ASSUME NEW c \in Client, LoadLimits(c) PROVE Told'
    BY <1>9
    DEF LoadLimits, Free, Inv, TypeOK, Told, Fresh, Loads, Loaded, files, client
<1>10. ASSUME NEW c \in Client, ReloadFails(c) PROVE Told'
    BY <1>10
    DEF ReloadFails, Answered, Inv, TypeOK, Told, Fresh, Loads, Loaded, files, client, daemon, ghosts
<1>11. ASSUME NEW c \in Client, SetLimits(c) PROVE Told'
    BY <1>11
    DEF SetLimits, Answered, Inv, TypeOK, Told, Fresh, Loads, Loaded, files, client, daemon, ghosts
<1> QED
    BY <1>a, <1>b, <1>c, <1>1, <1>2, <1>3, <1>4, <1>5, <1>6, <1>7, <1>8, <1>9, <1>10, <1>11
    DEF Next, Set, Reload

LEMMA Invariance == Spec => []Inv
<1>1. Inv /\ [Next]_vars => Inv'
    BY TypeStep, WritersStep, KeptStep, ToldStep DEF Inv
<1> QED
    BY InitInv, <1>1, PTL DEF Spec

-----------------------------------------------------------------------------
\* Every reachable state is well typed; a daemon never works with a limit of zero or
\* one that does not fit.
THEOREM ConfigTypeCorrect == Spec => []TypeOK
<1>1. Inv => TypeOK
    BY DEF Inv
<1> QED
    BY Invariance, <1>1, PTL

\* config.toml holds a whole and valid configuration wherever clients are cut off,
\* while no two are at the temporary file.
THEOREM SavesAreAtomic == Spec => []FileWhole
<1>1. Inv => FileWhole
    BY DEF Inv, Writers, FileWhole
<1> QED
    BY Invariance, <1>1, PTL

\* Saves that do not overlap keep each other's settings, to the byte.
THEOREM SavesKeepSettings == Spec => []SettingsKept
<1>1. Inv => SettingsKept
    BY DEF Inv, Kept, Agrees, SettingsKept
<1> QED
    BY Invariance, <1>1, PTL

\* Reloads leave the daemon with what config.toml holds, in whatever order they come.
THEOREM ReloadsApply == Spec => []Applied
<1>1. Inv => Applied
    BY DEF Inv, Told, Fresh, Applied
<1> QED
    BY Invariance, <1>1, PTL
=============================================================================
