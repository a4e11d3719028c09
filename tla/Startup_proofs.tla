--------------------------- MODULE Startup_proofs ---------------------------
(***************************************************************************)
(* Proofs about Startup: what a process knows and what the table holds at  *)
(* each place of a start, and who owns the path while starts do not        *)
(* overlap.                                                                *)
(***************************************************************************)
EXTENDS Startup, TLAPS

\* The places after each step of a start.
Opened == Binding \cup {"serve"}
PastDates == {"flag"} \cup Opened
PastCreated == {"date_used"} \cup PastDates
PastAddUsed == {"date_created"} \cup PastCreated
PastAddCreated == {"add_used"} \cup PastAddUsed
PastLook == {"add_created"} \cup PastAddCreated

\* What each process knows of the schema, and what it has made of it.
Knows ==
    \A d \in Daemon :
        /\ seen[d] \subseteq columns
        /\ pc[d] \in PastLook => ("timestamp" \in seen[d] <=> "timestamp" \in columns)
        /\ pc[d] \in PastAddCreated => "created_at" \in columns
        /\ pc[d] \in PastAddUsed => "last_used_at" \in columns
        /\ pc[d] \in Opened => legacy[d] = ("timestamp" \in columns)

\* The dates of the rows.
Dates ==
    /\ \A i \in DOMAIN rows :
        /\ "timestamp" \notin columns => rows[i].timestamp = None
        /\ rows[i].timestamp # None /\ rows[i].created # None
            => rows[i].created = rows[i].timestamp
    /\ \A d \in Daemon, i \in DOMAIN rows :
        /\ pc[d] \in PastCreated => rows[i].created # None
        /\ pc[d] \in PastDates => rows[i].used # None

\* While starts do not overlap: one process starts, it has read the schema as it
\* is, and the path is what its place in bind_listener says.
Serial ==
    ~overlapped =>
        /\ \A d, e \in Daemon : Starting(d) /\ Starting(e) => d = e
        /\ \A d \in Daemon :
            /\ pc[d] \in {"look_used", "look_timestamp", "add_created"} =>
                    ("created_at" \in columns => "created_at" \in seen[d])
            /\ pc[d] \in {"look_timestamp", "add_created", "add_used"} =>
                    ("last_used_at" \in columns => "last_used_at" \in seen[d])
            /\ pc[d] \in {"listen", "serve"} => path = d
            /\ pc[d] = "inspect" => path # "absent"
            /\ pc[d] = "connect" => path \notin {"absent", "file"}
            /\ pc[d] = "remove" => path = "stale"
            /\ pc[d] = "rebind" => path = "absent"

Inv == TypeOK /\ Knows /\ Dates /\ Serial

USE DEF Opening, Binding, Column, Current, Row, Step

-----------------------------------------------------------------------------
LEMMA InitInv == Init => Inv
<1> SUFFICES ASSUME Init PROVE Inv
    OBVIOUS
<1>1. TypeOK
  <2>1. DOMAIN rows \subseteq Id /\ rows \in [DOMAIN rows -> Row]
    <3>1. CASE rows = [i \in {} |-> None]
        BY <3>1
    <3>2. CASE \E S \in SUBSET Id : \E at \in [S -> Time] :
                rows = [i \in S |-> [timestamp |-> at[i], created |-> None, used |-> None]]
        BY <3>2
    <3> QED
        BY <3>1, <3>2 DEF Init
  <2> QED
    BY <2>1 DEF Init, TypeOK
<1>2. Knows
    BY DEF Init, Knows, PastLook, PastAddCreated, PastAddUsed, PastCreated, PastDates, Opened
<1>3. Dates
    BY DEF Init, Dates, PastCreated, PastDates, Opened
<1>4. Serial
    BY DEF Init, Serial, Starting
<1> QED
    BY <1>1, <1>2, <1>3, <1>4 DEF Inv

\* Every state is well typed; the path names a socket only while its process lives.
LEMMA TypeStep == TypeOK /\ [Next]_vars => TypeOK'
<1> SUFFICES ASSUME TypeOK, [Next]_vars PROVE TypeOK'
    OBVIOUS
<1> USE NoneAssumption, DaemonAssumption
<1>0. CASE UNCHANGED vars \/ EditConfig
    BY <1>0 DEF EditConfig, TypeOK, vars, database, locals, Bound
<1> SUFFICES ASSUME NEW d \in Daemon,
                    \/ Start(d) \/ Open(d) \/ BindListener(d)
                    \/ StartFails(d) \/ Stop(d) \/ Use(d)
             PROVE  TypeOK'
    BY <1>0 DEF Next
<1>1. CASE Exit(d)
    BY <1>1 DEF Exit, Vacated, TypeOK, Bound, database
<1>2. CASE Start(d)
    BY <1>2 DEF Start, TypeOK, Bound, database, locals
<1>3. CASE LoadLimits(d) \/ CreateTable(d)
    BY <1>3 DEF LoadLimits, CreateTable, database, TypeOK, Bound, locals
<1>4. CASE LookAtColumns(d)
    BY <1>4 DEF LookAtColumns, Look, TypeOK, Bound, database
<1>5. CASE AddColumns(d)
    BY <1>5 DEF AddColumns, Add, TypeOK, Bound, locals
<1>6. CASE DateCreated(d)
  <2>1. DOMAIN rows' \subseteq Id /\ rows' \in [DOMAIN rows' -> Row]
    <3>1. PICK now \in Time : rows' = [i \in DOMAIN rows |-> [rows[i] EXCEPT !.created =
                    Coalesce(@, Coalesce(Stamp(d, rows[i]), now))]]
        BY <1>6 DEF DateCreated
    <3>2. \A r \in Row : Coalesce(r.created, Coalesce(Stamp(d, r), now)) \in Time \cup {None}
        BY DEF Coalesce, Stamp
    <3>3. ASSUME NEW i \in DOMAIN rows PROVE rows'[i] \in Row
      <4>1. rows[i] \in Row
        BY DEF TypeOK
      <4>2. rows'[i] = [rows[i] EXCEPT !.created =
                    Coalesce(rows[i].created, Coalesce(Stamp(d, rows[i]), now))]
        BY <3>1
      <4> QED
        BY <3>2, <4>1, <4>2
    <3> QED
        BY <3>1, <3>3 DEF TypeOK
  <2> QED
    BY <1>6, <2>1 DEF DateCreated, TypeOK, Bound, locals
<1>7. CASE DateUsed(d)
  <2>1. DOMAIN rows' \subseteq Id /\ rows' \in [DOMAIN rows' -> Row]
    <3>1. PICK now \in Time : rows' = [i \in DOMAIN rows |->
                    [rows[i] EXCEPT !.used = UsedDate(d, rows[i], now)]]
        BY <1>7 DEF DateUsed
    <3>2. \A r \in Row : UsedDate(d, r, now) \in Time \cup {None}
        BY DEF UsedDate, Coalesce, Stamp
    <3>3. ASSUME NEW i \in DOMAIN rows PROVE rows'[i] \in Row
      <4>1. rows[i] \in Row
        BY DEF TypeOK
      <4>2. rows'[i] = [rows[i] EXCEPT !.used = UsedDate(d, rows[i], now)]
        BY <3>1
      <4> QED
        BY <3>2, <4>1, <4>2
    <3> QED
        BY <3>1, <3>3 DEF TypeOK
  <2> QED
    BY <1>7, <2>1 DEF DateUsed, TypeOK, Bound, locals
<1>8. CASE ReadLegacy(d)
    BY <1>8 DEF ReadLegacy, TypeOK, Bound, database
<1>9. CASE BindListener(d)
    BY <1>9 DEF BindListener, Bind, AddrInUse, Inspect, Connect, Remove, Listen,
                TypeOK, Bound, database, locals
<1>10. CASE Use(d)
    BY <1>10 DEF Use, Insert, Touch, Serving, TypeOK, Bound, locals
<1> QED
    BY <1>1, <1>2, <1>3, <1>4, <1>5, <1>6, <1>7, <1>8, <1>9, <1>10
    DEF Open, StartFails, LoadFails, AddFails, BindFails, Stop

\* What a process has seen stays true, since columns are only ever added, and the
\* old timestamp column neither comes nor goes.
LEMMA KnowsStep == Inv /\ [Next]_vars => Knows'
<1> SUFFICES ASSUME Inv, [Next]_vars PROVE Knows'
    OBVIOUS
<1> USE DEF PastLook, PastAddCreated, PastAddUsed, PastCreated, PastDates, Opened
<1>0. CASE UNCHANGED vars \/ EditConfig
    BY <1>0 DEF EditConfig, Inv, Knows, vars, database, locals
<1> SUFFICES ASSUME NEW d \in Daemon,
                    \/ Start(d) \/ Open(d) \/ BindListener(d)
                    \/ StartFails(d) \/ Stop(d) \/ Use(d)
             PROVE  Knows'
    BY <1>0 DEF Next
<1>1. CASE Exit(d)
    BY <1>1 DEF Exit, Inv, TypeOK, Knows, database
<1>2. CASE Start(d)
    BY <1>2 DEF Start, Inv, TypeOK, Knows, database, locals
<1>3. CASE LoadLimits(d) \/ CreateTable(d)
    BY <1>3 DEF LoadLimits, CreateTable, database, Inv, TypeOK, Knows, locals
<1>4. CASE LookAtColumns(d)
  <2>1. CASE Look(d, "created_at", "look_created", "look_used")
    BY <2>1 DEF Look, Inv, TypeOK, Knows, database
  <2>2. CASE Look(d, "last_used_at", "look_used", "look_timestamp")
    BY <2>2 DEF Look, Inv, TypeOK, Knows, database
  <2>3. CASE Look(d, "timestamp", "look_timestamp", "add_created")
    BY <2>3 DEF Look, Inv, TypeOK, Knows, database
  <2> QED
    BY <1>4, <2>1, <2>2, <2>3 DEF LookAtColumns
<1>5. CASE AddColumns(d)
  <2>1. CASE Add(d, "created_at", "add_created", "add_used")
    BY <2>1 DEF Add, Missing, Inv, TypeOK, Knows, locals
  <2>2. CASE Add(d, "last_used_at", "add_used", "date_created")
    BY <2>2 DEF Add, Missing, Inv, TypeOK, Knows, locals
  <2> QED
    BY <1>5, <2>1, <2>2 DEF AddColumns
<1>6. CASE DateCreated(d)
    BY <1>6 DEF DateCreated, Inv, TypeOK, Knows, locals
<1>7. CASE DateUsed(d)
    BY <1>7 DEF DateUsed, Inv, TypeOK, Knows, locals
<1>8. CASE ReadLegacy(d)
    BY <1>8 DEF ReadLegacy, Inv, TypeOK, Knows, database
<1>9. CASE BindListener(d)
    BY <1>9 DEF BindListener, Bind, AddrInUse, Inspect, Connect, Remove, Listen,
                Inv, TypeOK, Knows, database, locals
<1>10. CASE Use(d)
    BY <1>10 DEF Use, Insert, Touch, Inv, Knows, locals
<1> QED
    BY <1>1, <1>2, <1>3, <1>4, <1>5, <1>6, <1>7, <1>8, <1>9, <1>10
    DEF Open, StartFails, LoadFails, AddFails, BindFails, Stop

\* Rows are dated from their old date first, and no date is taken away.
LEMMA DatesStep == Inv /\ [Next]_vars => Dates'
<1> SUFFICES ASSUME Inv, [Next]_vars PROVE Dates'
    OBVIOUS
<1> USE DEF PastCreated, PastDates, Opened
<1>0. CASE UNCHANGED vars \/ EditConfig
    BY <1>0 DEF EditConfig, Inv, Dates, vars, database
<1> SUFFICES ASSUME NEW d \in Daemon,
                    \/ Start(d) \/ Open(d) \/ BindListener(d)
                    \/ StartFails(d) \/ Stop(d) \/ Use(d)
             PROVE  Dates'
    BY <1>0 DEF Next
<1>1. CASE Exit(d)
    BY <1>1 DEF Exit, Inv, TypeOK, Dates, database
<1>2. CASE Start(d)
    BY <1>2 DEF Start, Inv, TypeOK, Dates, database
<1>3. CASE LoadLimits(d) \/ CreateTable(d)
    BY <1>3 DEF LoadLimits, CreateTable, database, Inv, TypeOK, Dates
<1>4. CASE LookAtColumns(d)
    BY <1>4 DEF LookAtColumns, Look, Inv, TypeOK, Dates, database
<1>5. CASE AddColumns(d)
    BY <1>5 DEF AddColumns, Add, Inv, TypeOK, Dates
<1>6. CASE DateCreated(d)
  <2>1. PICK now \in Time : rows' = [i \in DOMAIN rows |-> [rows[i] EXCEPT !.created =
                    Coalesce(@, Coalesce(Stamp(d, rows[i]), now))]]
    BY <1>6 DEF DateCreated
  <2>2. ASSUME NEW i \in DOMAIN rows
        PROVE  /\ rows'[i].timestamp = rows[i].timestamp
               /\ rows'[i].used = rows[i].used
               /\ rows'[i].created
                    = Coalesce(rows[i].created, Coalesce(Stamp(d, rows[i]), now))
    BY <2>1 DEF Inv, TypeOK
  <2>3. "timestamp" \in seen[d] <=> "timestamp" \in columns
    BY <1>6 DEF DateCreated, Inv, Knows, PastLook, PastAddCreated, PastAddUsed
  <2>4. DOMAIN rows' = DOMAIN rows
    BY <2>1
  <2>5. ASSUME NEW i \in DOMAIN rows
        PROVE  /\ rows'[i].created # None
               /\ rows[i].timestamp # None => rows'[i].created = rows[i].timestamp
    BY <2>2, <2>3, NoneAssumption DEF Coalesce, Stamp, Inv, Dates
  <2>6. /\ UNCHANGED columns
        /\ \A e \in Daemon : pc'[e] = IF e = d THEN "date_used" ELSE pc[e]
    BY <1>6 DEF DateCreated, Inv, TypeOK
  <2>7. \A i \in DOMAIN rows' :
            /\ "timestamp" \notin columns' => rows'[i].timestamp = None
            /\ rows'[i].timestamp # None /\ rows'[i].created # None
                => rows'[i].created = rows'[i].timestamp
    BY <2>2, <2>4, <2>5, <2>6 DEF Inv, Dates
  <2>8. \A e \in Daemon, i \in DOMAIN rows' :
            /\ pc'[e] \in PastCreated => rows'[i].created # None
            /\ pc'[e] \in PastDates => rows'[i].used # None
    BY <2>2, <2>4, <2>5, <2>6 DEF Inv, Dates
  <2> QED
    BY <2>7, <2>8 DEF Dates
<1>7. CASE DateUsed(d)
  <2>1. PICK now \in Time : rows' = [i \in DOMAIN rows |->
                    [rows[i] EXCEPT !.used = UsedDate(d, rows[i], now)]]
    BY <1>7 DEF DateUsed
  <2>2. ASSUME NEW i \in DOMAIN rows
        PROVE  /\ rows'[i].timestamp = rows[i].timestamp
               /\ rows'[i].created = rows[i].created
               /\ rows'[i].used = UsedDate(d, rows[i], now)
    BY <2>1 DEF Inv, TypeOK
  <2>3. DOMAIN rows' = DOMAIN rows
    BY <2>1
  <2>4. ASSUME NEW i \in DOMAIN rows PROVE rows'[i].used # None
    BY <2>2, NoneAssumption DEF UsedDate, Coalesce
  <2> QED
    BY <1>7, <2>2, <2>3, <2>4 DEF DateUsed, Inv, TypeOK, Dates
<1>8. CASE ReadLegacy(d)
    BY <1>8 DEF ReadLegacy, Inv, TypeOK, Dates, database
<1>9. CASE BindListener(d)
    BY <1>9 DEF BindListener, Bind, AddrInUse, Inspect, Connect, Remove, Listen,
                Inv, TypeOK, Dates, database
<1>10. CASE Use(d)
  <2>1. ASSUME NEW i \in Id, NEW t \in Time, Insert(d, i, t) PROVE Dates'
    BY <2>1, NoneAssumption DEF Insert, Serving, Inv, TypeOK, Knows, Dates
  <2>2. ASSUME NEW i \in Id, NEW t \in Time, Touch(d, i, t) PROVE Dates'
    BY <2>2, NoneAssumption DEF Touch, Inv, TypeOK, Dates
  <2> QED
    BY <1>10, <2>1, <2>2 DEF Use
<1> QED
    BY <1>1, <1>2, <1>3, <1>4, <1>5, <1>6, <1>7, <1>8, <1>9, <1>10
    DEF Open, StartFails, LoadFails, AddFails, BindFails, Stop

\* While starts do not overlap only the one process that starts touches the path or
\* the columns; what it has checked there still holds when it acts on it.
LEMMA SerialStep == Inv /\ [Next]_vars => Serial'
<1> SUFFICES ASSUME Inv, [Next]_vars, ~overlapped' PROVE Serial'
    BY DEF Serial
<1> USE DaemonAssumption DEF Starting
<1>0. CASE UNCHANGED vars \/ EditConfig
    BY <1>0 DEF EditConfig, Inv, Serial, vars, database, locals
<1> SUFFICES ASSUME NEW d \in Daemon,
                    \/ Start(d) \/ Open(d) \/ BindListener(d)
                    \/ StartFails(d) \/ Stop(d) \/ Use(d)
             PROVE  Serial'
    BY <1>0 DEF Next
<1>1. CASE Exit(d)
    BY <1>1 DEF Exit, Vacated, Inv, TypeOK, Bound, Serial, database
<1>2. CASE Start(d)
  <2>1. /\ ~overlapped /\ UNCHANGED <<columns, path, seen>>
        /\ \A e \in Daemon : ~Starting(e)
    BY <1>2 DEF Start, Inv, TypeOK, database, locals
  <2>2. \A e \in Daemon : pc'[e] = IF e = d THEN "load" ELSE pc[e]
    BY <1>2 DEF Start, Inv, TypeOK
  <2>3. \A e \in Daemon : Starting(e)' => e = d
    BY <2>1, <2>2
  <2> QED
    BY <2>1, <2>2, <2>3 DEF Inv, Serial
<1>3. CASE LoadLimits(d) \/ CreateTable(d)
    BY <1>3 DEF LoadLimits, CreateTable, database, Inv, TypeOK, Serial, locals
<1>4. CASE LookAtColumns(d)
  <2>1. CASE Look(d, "created_at", "look_created", "look_used")
    BY <2>1 DEF Look, Inv, TypeOK, Serial, database
  <2>2. CASE Look(d, "last_used_at", "look_used", "look_timestamp")
    BY <2>2 DEF Look, Inv, TypeOK, Serial, database
  <2>3. CASE Look(d, "timestamp", "look_timestamp", "add_created")
    BY <2>3 DEF Look, Inv, TypeOK, Serial, database
  <2> QED
    BY <1>4, <2>1, <2>2, <2>3 DEF LookAtColumns
<1>5. CASE AddColumns(d)
  <2>1. CASE Add(d, "created_at", "add_created", "add_used")
    BY <2>1 DEF Add, Missing, Inv, TypeOK, Serial, locals
  <2>2. CASE Add(d, "last_used_at", "add_used", "date_created")
    BY <2>2 DEF Add, Missing, Inv, TypeOK, Serial, locals
  <2> QED
    BY <1>5, <2>1, <2>2 DEF AddColumns
<1>6. CASE DateCreated(d)
    BY <1>6 DEF DateCreated, Inv, TypeOK, Serial, locals
<1>7. CASE DateUsed(d)
    BY <1>7 DEF DateUsed, Inv, TypeOK, Serial, locals
<1>8. CASE ReadLegacy(d)
    BY <1>8 DEF ReadLegacy, Inv, TypeOK, Serial, database
<1>9. CASE BindListener(d)
  <2>1. CASE Bind(d)
    BY <2>1 DEF Bind, Inv, TypeOK, Bound, Serial, database, locals
  <2>2. CASE AddrInUse(d)
    BY <2>2 DEF AddrInUse, Inv, TypeOK, Bound, Serial, database, locals
  <2>3. CASE Inspect(d)
    BY <2>3 DEF Inspect, Inv, TypeOK, Bound, Serial, database, locals
  <2>4. CASE Connect(d)
    BY <2>4 DEF Connect, Refused, Serving, Inv, TypeOK, Bound, Serial, database, locals
  <2>5. CASE Remove(d)
    BY <2>5 DEF Remove, Inv, TypeOK, Bound, Serial, database, locals
  <2>6. CASE Listen(d)
    BY <2>6 DEF Listen, Inv, TypeOK, Bound, Serial, database, locals
  <2> QED
    BY <1>9, <2>1, <2>2, <2>3, <2>4, <2>5, <2>6 DEF BindListener
<1>10. CASE Use(d)
    BY <1>10 DEF Use, Insert, Touch, Inv, Serial, locals
<1> QED
    BY <1>1, <1>2, <1>3, <1>4, <1>5, <1>6, <1>7, <1>8, <1>9, <1>10
    DEF Open, StartFails, LoadFails, AddFails, BindFails, Stop

LEMMA Invariance == Spec => []Inv
<1>1. Inv /\ [Next]_vars => Inv'
    BY TypeStep, KnowsStep, DatesStep, SerialStep DEF Inv
<1> QED
    BY InitInv, <1>1, PTL DEF Spec

-----------------------------------------------------------------------------
\* Every reachable state is well typed; a path names a process only while that
\* process holds a socket.
THEOREM StartupTypeCorrect == Spec => []TypeOK
<1>1. Inv => TypeOK
    BY DEF Inv
<1> QED
    BY Invariance, <1>1, PTL

\* Whatever starts stopped where, a daemon that serves has a complete schema and
\* every row dated, and knows which columns its inserts must fill.
THEOREM DaemonsReady == Spec => []ServingReady
<1>1. Inv => ServingReady
    BY DEF Inv, Knows, Dates, ServingReady, Serving, PastLook, PastAddCreated,
           PastAddUsed, PastCreated, PastDates, Opened
<1> QED
    BY Invariance, <1>1, PTL

\* Rows of an earlier version keep their date, whichever process migrates them.
THEOREM LegacyDatesSurvive == Spec => []LegacyDateKept
<1>1. Inv => LegacyDateKept
    BY DEF Inv, Dates, LegacyDateKept
<1> QED
    BY Invariance, <1>1, PTL

\* Starts that do not overlap leave the path to whoever serves.
THEOREM SerialStartsSafe == Spec => []SerialStartsOwnEndpoint
<1>1. Inv => SerialStartsOwnEndpoint
    BY DEF Inv, Serial, SerialStartsOwnEndpoint, Serving
<1> QED
    BY Invariance, <1>1, PTL

\* No step of a start changes a date that is set.
LEMMA KeepsDates ==
    ASSUME Inv, [Next]_vars, \E d \in Daemon : pc'[d] # pc[d], NEW i \in DOMAIN rows
    PROVE  /\ rows[i].created # None => rows'[i].created = rows[i].created
           /\ rows[i].used # None => rows'[i].used = rows[i].used
<1>0. ~UNCHANGED vars /\ ~EditConfig
    BY DEF vars, EditConfig
<1>1. PICK d \in Daemon : \/ Start(d) \/ Open(d) \/ BindListener(d)
                         \/ StartFails(d) \/ Stop(d) \/ Use(d)
    BY <1>0 DEF Next
<1>2. rows[i] \in Row
    BY DEF Inv, TypeOK
<1>3. CASE DateCreated(d)
  <2>1. PICK now \in Time : rows' = [j \in DOMAIN rows |-> [rows[j] EXCEPT !.created =
                    Coalesce(@, Coalesce(Stamp(d, rows[j]), now))]]
    BY <1>3 DEF DateCreated
  <2> QED
    BY <1>2, <2>1 DEF Coalesce
<1>4. CASE DateUsed(d)
  <2>1. PICK now \in Time : rows' = [j \in DOMAIN rows |->
                    [rows[j] EXCEPT !.used = UsedDate(d, rows[j], now)]]
    BY <1>4 DEF DateUsed
  <2> QED
    BY <1>2, <2>1 DEF UsedDate, Coalesce
<1>5. ~Use(d)
    BY DEF Use, Insert, Touch
<1> QED
    BY <1>1, <1>3, <1>4, <1>5
    DEF Open, BindListener, StartFails, LoadFails, AddFails, BindFails, Stop, Exit, Start,
        LoadLimits, CreateTable,
        LookAtColumns, Look, AddColumns, Add, ReadLegacy, Bind, AddrInUse, Inspect,
        Connect, Remove, Listen, database

\* No start, of whichever process, changes a date that is set.
THEOREM RestartsKeepDates == Spec => StartsKeepDates
<1>1. Inv /\ [Next]_vars =>
        [(\E d \in Daemon : pc'[d] # pc[d]) =>
            \A i \in DOMAIN rows :
                /\ rows[i].created # None => rows'[i].created = rows[i].created
                /\ rows[i].used # None => rows'[i].used = rows[i].used]_vars
    BY KeepsDates
<1> QED
    BY Invariance, <1>1, PTL DEF Spec, StartsKeepDates

\* Without overlap a start fails only for an invalid configuration, before it touches
\* the database, for a live daemon or for something at the path that is not a socket.
THEOREM StartsFailForAReason == Spec => FailsForAReason
<1>1. ASSUME Inv, NEW d \in Daemon, StartFails(d), ~overlapped, path # "file",
             config \/ pc[d] # "load"
      PROVE  \E e \in Daemon \ {d} : Serving(e)
  <2>1. ~AddFails(d) /\ ~LoadFails(d)
    BY <1>1 DEF LoadFails, AddFails, Missing, Inv, Serial
  <2>2. pc[d] = "connect" /\ ~Refused
    BY <1>1, <2>1 DEF StartFails, BindFails, Inv, Serial
  <2> QED
    BY <2>2 DEF Refused, Serving
<1>2. Inv /\ [Next]_vars =>
        [\A d \in Daemon : StartFails(d) =>
            \/ overlapped
            \/ ~config /\ pc[d] = "load"
            \/ path = "file"
            \/ \E e \in Daemon \ {d} : Serving(e)]_vars
    BY <1>1
<1> QED
    BY Invariance, <1>2, PTL DEF Spec, FailsForAReason
=============================================================================
