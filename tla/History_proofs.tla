--------------------------- MODULE History_proofs ---------------------------
(***************************************************************************)
(* Theorems about History for every set of hashes and MIME types, every    *)
(* configuration and every bound, checked by TLAPS.                        *)
(***************************************************************************)
EXTENDS History, TLAPS

ItemType == [hash : Hash, created : Time, used : Time, mimes : SUBSET Mime]

-----------------------------------------------------------------------------
(***************************************************************************)
(* Facts about the operators the actions are built from.                   *)
(***************************************************************************)

\* 0 is a reading of the clock, so NoCall is a possible value of call.
LEMMA TimeFacts == 0 \in Time /\ Time \subseteq Nat /\ Id \subseteq Nat
  BY BoundsAssumption DEF Time, Id

\* The two UPDATE statements change the recency of a row and nothing else.
LEMMA Restamped ==
  ASSUME NEW e \in EntryRow, NEW t \in Time
  PROVE  LET r == [e EXCEPT !.used = t]
         IN  /\ r \in EntryRow
             /\ r.id = e.id /\ r.hash = e.hash /\ r.created = e.created
             /\ r.used = t
  BY DEF EntryRow

\* What a client can see of well-typed tables is well typed.
LEMMA ItemsTyped ==
  ASSUME entries \subseteq EntryRow, payloads \subseteq PayloadRow
  PROVE  Items \subseteq ItemType
  <1>1. ASSUME NEW e \in entries PROVE ItemOf(e) \in ItemType
    <2>1. {p.mime : p \in RowsOf(e)} \subseteq Mime
      BY DEF RowsOf, PayloadRow
    <2> QED  BY <2>1 DEF ItemOf, ItemType, EntryRow
  <1> QED  BY <1>1 DEF Items

\* A request that has just begun is a possible value of op.
LEMMA BeginTyped ==
  ASSUME TypeOK,
         NEW pc \in {"payloads", "count", "size"},
         NEW owner \in {"watcher", "client"},
         NEW id \in 0 .. MaxId, NEW todo \in SUBSET Mime
  PROVE  Begin(pc, owner, id, todo) \in Active
  BY ItemsTyped DEF TypeOK, Begin, Active, ItemType

\* The statement that counts rows keeps a part of the table.
LEMMA MostRecentKeeps ==
  ASSUME NEW n, NEW keep \in MostRecent(n)
  PROVE  keep \subseteq entries
  BY DEF MostRecent, kSubset

\* Every DELETE removes rows of both tables and adds none.
LEMMA DeletesOnly ==
  ASSUME NEW keep \in SUBSET entries, KeepOnly(keep)
  PROVE  entries' \subseteq entries /\ payloads' \subseteq payloads
  BY DEF KeepOnly

\* The row of a new copy, and the request that goes on to insert its payloads.
LEMMA NewRowFields ==
  /\ NewRow.id = seq + 1 /\ NewRow.hash = call.hash
  /\ NewRow.created = call.at /\ NewRow.used = call.at
  BY DEF NewRow, NextId

LEMMA InsertEntryStep ==
  ASSUME InsertEntry
  PROVE  /\ entries' = entries \cup {NewRow} /\ seq' = seq + 1
         /\ op'.pc = "payloads" /\ op'.id = seq + 1
         /\ op'.todo = MimesOf[call.hash]
         /\ UNCHANGED <<payloads, clock, call>>
  BY DEF InsertEntry, Begin, NextId

\* A request of several statements holds a record of Active.
LEMMA ActiveOp ==
  ASSUME TypeOK, op.pc # "idle"
  PROVE  op \in Active
  BY DEF TypeOK, Idle

-----------------------------------------------------------------------------
(***************************************************************************)
(* Type correctness.                                                       *)
(***************************************************************************)

\* While payload rows are being inserted the watcher's copy is there, and the
\* row they belong to has an id: without it TypeOK is not inductive.
CopyPresent == op.pc = "payloads" => call.hash \in Hash /\ op.id \in Id

TypeInv == TypeOK /\ CopyPresent

\* Every step keeps the types.
LEMMA TypeStep == TypeInv /\ [Next]_vars => TypeInv'
  <1> SUFFICES ASSUME TypeOK, CopyPresent, [Next]_vars
               PROVE  TypeOK' /\ CopyPresent'
    BY DEF TypeInv
  <1> USE DEF TypeOK
  <1>1. CASE Tick
    BY <1>1, BoundsAssumption DEF Tick, Time, CopyPresent
  <1>2. ASSUME NEW h \in Hash, TakeStamp(h) PROVE TypeOK' /\ CopyPresent'
    BY <1>2 DEF TakeStamp, CopyPresent
  <1>3. CASE InsertKnown
    <2>1. PICK e \in FindByHash(call.hash) :
             /\ entries' = (entries \ {e}) \cup {[e EXCEPT !.used = call.at]}
             /\ op' = Begin("count", "watcher", e.id, {})
      BY <1>3 DEF InsertKnown
    <2>2. e \in entries /\ e \in EntryRow
      BY <2>1 DEF FindByHash
    <2>3. entries' \subseteq EntryRow
      BY <2>1, <2>2, Restamped
    <2>4. op' \in Active
      BY <2>1, <2>2, BeginTyped DEF EntryRow, Id
    <2>5. op'.pc # "payloads"
      BY <2>1 DEF Begin
    <2> QED  BY <1>3, <2>3, <2>4, <2>5 DEF InsertKnown, CopyPresent
  <1>4. CASE InsertEntry
    <2>1. call.hash \in Hash
      BY <1>4 DEF InsertEntry
    <2>2. seq + 1 \in Id /\ seq' \in 0 .. MaxId
      BY <1>4, BoundsAssumption DEF InsertEntry, Id
    <2>3. entries' \subseteq EntryRow
      BY <1>4, <2>1, <2>2 DEF InsertEntry, NewRow, NextId, EntryRow
    <2>4. MimesOf[call.hash] \in SUBSET Mime
      BY <2>1, MimesAssumption
    <2>5. op' \in Active
      BY <1>4, <2>2, <2>4, BeginTyped DEF InsertEntry, NextId, Id
    <2>6. op'.id = seq + 1
      BY <1>4, InsertEntryStep
    <2> QED  BY <1>4, <2>1, <2>2, <2>3, <2>5, <2>6 DEF InsertEntry, CopyPresent
  <1>5. CASE InsertPayload
    <2>1. PICK m \in op.todo :
             /\ payloads' = payloads \cup {[entry |-> op.id, mime |-> m,
                                            data |-> call.hash]}
             /\ op' = [op EXCEPT !.todo = @ \ {m}, !.pc = AfterPayload(m)]
      BY <1>5 DEF InsertPayload
    <2>2. op \in Active
      BY <1>5, ActiveOp DEF InsertPayload
    <2>3. op' \in Active /\ op'.id = op.id
      BY <2>1, <2>2 DEF Active, AfterPayload
    <2>4. payloads' \subseteq PayloadRow
      BY <1>5, <2>1, <2>2 DEF InsertPayload, CopyPresent, Active, PayloadRow
    <2> QED  BY <1>5, <2>3, <2>4 DEF InsertPayload, CopyPresent
  <1>6. CASE TrimCount
    <2>1. op \in Active
      BY <1>6, ActiveOp DEF TrimCount
    <2>2. op' \in Active /\ op'.pc = "size"
      BY <1>6, <2>1 DEF TrimCount, Active
    <2>3. entries' \subseteq entries /\ payloads' \subseteq payloads
      BY <1>6, MostRecentKeeps, DeletesOnly DEF TrimCount
    <2> QED  BY <1>6, <2>2, <2>3 DEF TrimCount, CopyPresent
  <1>7. CASE TrimOldest
    <2>1. PICK e \in entries : KeepOnly(entries \ {e})
      BY <1>7 DEF TrimOldest
    <2>2. entries' \subseteq entries /\ payloads' \subseteq payloads
      BY <2>1, DeletesOnly
    <2> QED  BY <1>7, <2>2 DEF TrimOldest, CopyPresent
  <1>8. CASE TrimDone
    BY <1>8, TimeFacts DEF TrimDone, Finish, NoCall, Idle, CopyPresent
  <1>9. CASE RestoreTouch
    BY <1>9, Restamped DEF RestoreTouch, CopyPresent
  <1>10. CASE Delete
    <2>1. PICK e \in entries : KeepOnly(entries \ {e})
      BY <1>10 DEF Delete
    <2>2. entries' \subseteq entries /\ payloads' \subseteq payloads
      BY <2>1, DeletesOnly
    <2> QED  BY <1>10, <2>2 DEF Delete, CopyPresent
  <1>11. CASE Clear
    <2>1. entries' \subseteq entries /\ payloads' \subseteq payloads
      BY <1>11, DeletesOnly DEF Clear
    <2> QED  BY <1>11, <2>1 DEF Clear, CopyPresent
  <1>12. CASE SaveConfig
    BY <1>12 DEF SaveConfig, CopyPresent
  <1>13. CASE ReloadConfig
    <2>1. op' \in Active
      BY <1>13, BeginTyped, BoundsAssumption DEF ReloadConfig
    <2>2. op'.pc # "payloads"
      BY <1>13 DEF ReloadConfig, Begin
    <2> QED  BY <1>13, <2>1, <2>2 DEF ReloadConfig, CopyPresent
  <1>14. CASE StatementFails
    BY <1>14, TimeFacts DEF StatementFails, Finish, NoCall, Idle, CopyPresent
  <1>15. CASE InsertFails
    BY <1>15, TimeFacts DEF InsertFails, NoCall, Free, CopyPresent
  <1>16. CASE Restart
    BY <1>16, TimeFacts DEF Restart, NoCall, Idle, CopyPresent
  <1>17. CASE UNCHANGED vars
    BY <1>17 DEF vars, CopyPresent
  <1> QED
    BY <1>1, <1>2, <1>3, <1>4, <1>5, <1>6, <1>7, <1>8, <1>9, <1>10, <1>11,
       <1>12, <1>13, <1>14, <1>15, <1>16, <1>17 DEF Next

\* The types and the copy hold throughout.
LEMMA TypeInvariant == Spec => []TypeInv
  <1>1. Init => TypeInv
    BY TimeFacts, BoundsAssumption
    DEF Init, TypeInv, TypeOK, CopyPresent, NoCall, Idle
  <1> QED  BY <1>1, TypeStep, PTL DEF Spec

\* Every reachable state has the types TypeOK gives: the counter of ids and
\* every id and timestamp stay within their bounds, and each row inserted for a
\* copy carries the hash of that copy.
THEOREM TypeCorrect == Spec => []TypeOK
  <1>1. TypeInv => TypeOK
    BY DEF TypeInv
  <1> QED  BY <1>1, TypeInvariant, PTL

-----------------------------------------------------------------------------
(***************************************************************************)
(* The two tables belong together.  The argument is about ids: AUTOINCREMENT*)
(* gives none above seq before its time, so a new entry finds no payload    *)
(* row of an older one, whatever faults and missing cascades left behind.   *)
(***************************************************************************)

\* The UNIQUE column: insert looks the hash up under the same mutex.
HashUnique == \A e, f \in entries : e.hash = f.hash => e = f

IdsUnique == \A e, f \in entries : e.id = f.id => e = f

IdsGiven ==
    /\ \A e \in entries : e.id <= seq
    /\ \A p \in payloads : p.entry <= seq

Tables == IdsUnique /\ IdsGiven /\ HashUnique /\ PayloadsMatchHash

\* The row the payloads are inserted for, if it is there, is the watcher's copy.
CopyRow ==
    op.pc = "payloads" =>
        /\ op.id <= seq
        /\ op.todo \subseteq MimesOf[call.hash]
        /\ \A e \in entries : e.id = op.id => e.hash = call.hash

RowInv == TypeInv /\ Tables /\ CopyRow

\* An UPDATE of the recency keeps the tables together.
LEMMA RestampTables ==
  ASSUME TypeOK, Tables, NEW e \in entries, NEW t \in Time,
         entries' = (entries \ {e}) \cup {[e EXCEPT !.used = t]},
         payloads' = payloads, seq' = seq
  PROVE  Tables'
  <1> DEFINE r == [e EXCEPT !.used = t]
  <1>1. r.id = e.id /\ r.hash = e.hash
    BY Restamped DEF TypeOK
  <1> HIDE DEF r
  <1>2. entries' = (entries \ {e}) \cup {r}
    BY DEF r
  <1>3. IdsUnique'
    BY <1>1, <1>2 DEF Tables, IdsUnique
  <1>4. IdsGiven'
    BY <1>1, <1>2 DEF Tables, IdsGiven
  <1>5. HashUnique'
    BY <1>1, <1>2 DEF Tables, HashUnique
  <1>6. PayloadsMatchHash'
    BY <1>1, <1>2 DEF Tables, PayloadsMatchHash, RowsOf
  <1> QED  BY <1>3, <1>4, <1>5, <1>6 DEF Tables

\* Deleting rows keeps the tables together.
LEMMA DeleteTables ==
  ASSUME Tables, entries' \subseteq entries, payloads' \subseteq payloads, seq' = seq
  PROVE  Tables'
  BY DEF Tables, IdsUnique, IdsGiven, HashUnique, PayloadsMatchHash, RowsOf

\* A new entry keeps the tables together: its id has no payload rows yet.
LEMMA InsertEntryTables ==
  ASSUME TypeOK, Tables, InsertEntry
  PROVE  Tables'
  <1> DEFINE r == NewRow
  <1>1. r.id = seq + 1 /\ r.hash = call.hash
    BY NewRowFields
  <1>2. entries' = entries \cup {r} /\ payloads' = payloads /\ seq' = seq + 1
    BY InsertEntryStep
  <1> HIDE DEF r
  <1>3. /\ seq \in Nat
        /\ \A e \in entries : e.id \in Nat
        /\ \A p \in payloads : p.entry \in Nat
    BY BoundsAssumption DEF TypeOK, EntryRow, PayloadRow, Id
  <1>4. \A e \in entries : e.id # r.id /\ e.hash # r.hash
    BY <1>1, <1>3 DEF InsertEntry, FindByHash, Tables, IdsGiven
  <1>5. \A p \in payloads : p.entry # r.id
    BY <1>1, <1>3 DEF Tables, IdsGiven
  <1>6. IdsUnique' /\ HashUnique'
    BY <1>2, <1>4 DEF Tables, IdsUnique, HashUnique
  <1>7. IdsGiven'
    BY <1>1, <1>2, <1>3 DEF Tables, IdsGiven
  <1>8. PayloadsMatchHash'
    BY <1>2, <1>5 DEF Tables, PayloadsMatchHash, RowsOf
  <1> QED  BY <1>6, <1>7, <1>8 DEF Tables

\* A payload row goes to the entry of the copy it was read from.
LEMMA InsertPayloadTables ==
  ASSUME TypeInv, Tables, CopyRow, InsertPayload
  PROVE  Tables' /\ CopyRow'
  <1>1. PICK m \in op.todo :
           /\ payloads' = payloads \cup {[entry |-> op.id, mime |-> m,
                                          data |-> call.hash]}
           /\ op' = [op EXCEPT !.todo = @ \ {m}, !.pc = AfterPayload(m)]
    BY DEF InsertPayload
  <1>2. UNCHANGED <<entries, seq, call>>
    BY DEF InsertPayload
  <1>3. op \in Active
    BY ActiveOp DEF InsertPayload, TypeInv
  <1>4. op'.id = op.id /\ op'.todo \subseteq op.todo
    BY <1>1, <1>3 DEF Active
  <1>5. op.pc = "payloads"
    BY DEF InsertPayload
  <1>6. IdsUnique' /\ HashUnique'
    BY <1>2 DEF Tables, IdsUnique, HashUnique
  <1>7. IdsGiven'
    BY <1>1, <1>2, <1>5 DEF Tables, IdsGiven, CopyRow
  <1>8. PayloadsMatchHash'
    BY <1>1, <1>2, <1>5 DEF Tables, PayloadsMatchHash, RowsOf, CopyRow
  <1>9. CopyRow'
    BY <1>2, <1>4, <1>5 DEF CopyRow
  <1> QED  BY <1>6, <1>7, <1>8, <1>9 DEF Tables

\* Every step keeps the tables together.
LEMMA RowStep == RowInv /\ [Next]_vars => RowInv'
  <1> SUFFICES ASSUME TypeInv, Tables, CopyRow, [Next]_vars
               PROVE  Tables' /\ CopyRow'
    BY TypeStep DEF RowInv
  <1> USE DEF TypeInv
  <1>a. ASSUME UNCHANGED <<entries, payloads, seq>> PROVE Tables'
    BY <1>a DEF Tables, IdsUnique, IdsGiven, HashUnique, PayloadsMatchHash, RowsOf
  <1>1. CASE Tick
    BY <1>1, <1>a DEF Tick, CopyRow
  <1>2. ASSUME NEW h \in Hash, TakeStamp(h) PROVE Tables' /\ CopyRow'
    <2>1. op.pc # "payloads"
      BY <1>2, NoHashAssumption DEF TakeStamp, CopyPresent
    <2> QED  BY <1>2, <2>1, <1>a DEF TakeStamp, CopyRow
  <1>3. CASE InsertKnown
    <2>1. PICK e \in FindByHash(call.hash) :
             /\ entries' = (entries \ {e}) \cup {[e EXCEPT !.used = call.at]}
             /\ op' = Begin("count", "watcher", e.id, {})
      BY <1>3 DEF InsertKnown
    <2>2. e \in entries /\ call.at \in Time
      BY <2>1 DEF FindByHash, TypeOK
    <2>3. Tables'
      BY <1>3, <2>1, <2>2, RestampTables DEF InsertKnown
    <2>4. op'.pc # "payloads"
      BY <2>1 DEF Begin
    <2> QED  BY <2>3, <2>4 DEF CopyRow
  <1>4. CASE InsertEntry
    <2>1. Tables'
      BY <1>4, InsertEntryTables
    <2>2. /\ op'.id = seq + 1 /\ op'.todo = MimesOf[call.hash]
          /\ seq' = seq + 1 /\ call' = call /\ seq \in Nat
      BY <1>4, InsertEntryStep, BoundsAssumption DEF TypeOK
    <2>3. PICK r \in entries' : r.id = seq + 1 /\ r.hash = call.hash
      BY <1>4, NewRowFields, InsertEntryStep
    <2>4. \A e \in entries' : e.id = seq + 1 => e.hash = call.hash
      BY <2>1, <2>3 DEF Tables, IdsUnique
    <2> QED  BY <2>1, <2>2, <2>4 DEF CopyRow
  <1>5. CASE InsertPayload
    BY <1>5, InsertPayloadTables
  <1>6. CASE TrimCount
    <2>1. entries' \subseteq entries /\ payloads' \subseteq payloads
      BY <1>6, MostRecentKeeps, DeletesOnly DEF TrimCount
    <2>2. op'.pc # "payloads"
      BY <1>6, ActiveOp DEF TrimCount, Active
    <2> QED  BY <1>6, <2>1, <2>2, DeleteTables DEF TrimCount, CopyRow
  <1>7. CASE TrimOldest
    <2>1. PICK e \in entries : KeepOnly(entries \ {e})
      BY <1>7 DEF TrimOldest
    <2> QED  BY <1>7, <2>1, DeletesOnly, DeleteTables DEF TrimOldest, CopyRow
  <1>8. CASE TrimDone
    BY <1>8, <1>a DEF TrimDone, Finish, Idle, CopyRow
  <1>9. CASE RestoreTouch
    <2>1. PICK e \in entries :
             entries' = (entries \ {e}) \cup {[e EXCEPT !.used = clock]}
      BY <1>9 DEF RestoreTouch
    <2>2. Tables'
      BY <1>9, <2>1, RestampTables DEF RestoreTouch, TypeOK
    <2> QED  BY <1>9, <2>2 DEF RestoreTouch, Free, CopyRow
  <1>10. CASE Delete
    <2>1. PICK e \in entries : KeepOnly(entries \ {e})
      BY <1>10 DEF Delete
    <2> QED  BY <1>10, <2>1, DeletesOnly, DeleteTables DEF Delete, Free, CopyRow
  <1>11. CASE Clear
    BY <1>11, DeletesOnly, DeleteTables DEF Clear, Free, CopyRow
  <1>12. CASE SaveConfig
    BY <1>12, <1>a DEF SaveConfig, CopyRow
  <1>13. CASE ReloadConfig
    BY <1>13, <1>a DEF ReloadConfig, Begin, CopyRow
  <1>14. CASE StatementFails
    BY <1>14, <1>a DEF StatementFails, Finish, Idle, CopyRow
  <1>15. CASE InsertFails
    BY <1>15, <1>a DEF InsertFails, Free, CopyRow
  <1>16. CASE Restart
    BY <1>16, <1>a DEF Restart, Idle, CopyRow
  <1>17. CASE UNCHANGED vars
    BY <1>17, <1>a DEF vars, CopyRow
  <1> QED
    BY <1>1, <1>2, <1>3, <1>4, <1>5, <1>6, <1>7, <1>8, <1>9, <1>10, <1>11,
       <1>12, <1>13, <1>14, <1>15, <1>16, <1>17 DEF Next

\* The tables belong together in every reachable state.
LEMMA RowInvariant == Spec => []RowInv
  <1>1. Init => RowInv
    BY TimeFacts, BoundsAssumption
    DEF Init, RowInv, TypeInv, TypeOK, CopyPresent, NoCall, Idle, Tables, CopyRow,
        IdsUnique, IdsGiven, HashUnique, PayloadsMatchHash
  <1> QED  BY <1>1, RowStep, PTL DEF Spec

\* No entry ever shows the payloads of another one: not after a delete or a clear,
\* not after a stop in the middle of an insert, and not in a database whose
\* payload table has no foreign key (Cascade is not assumed).
THEOREM PayloadsBelong == Spec => []PayloadsMatchHash
  <1>1. RowInv => PayloadsMatchHash
    BY DEF RowInv, Tables
  <1> QED  BY <1>1, RowInvariant, PTL

-----------------------------------------------------------------------------
(***************************************************************************)
(* Completeness of entries, when no request is interrupted.                *)
(***************************************************************************)

MimesStored(e) == {p.mime : p \in RowsOf(e)}

\* Every entry has the payloads of its copy, except the one being inserted,
\* whose missing payloads are the ones still to be inserted.
CompleteOrCopying ==
    \A e \in entries :
        IF op.pc = "payloads" /\ e.id = op.id
        THEN MimesStored(e) \cup op.todo = MimesOf[e.hash]
        ELSE MimesStored(e) = MimesOf[e.hash]

CompleteInv == RowInv /\ CompleteOrCopying

\* A DELETE leaves the payloads of the rows it keeps, with or without the cascade.
LEMMA KeptRowsKeepPayloads ==
  ASSUME NEW keep \in SUBSET entries, KeepOnly(keep)
  PROVE  entries' = keep /\ \A e \in keep : MimesStored(e)' = MimesStored(e)
  BY DEF KeepOnly, MimesStored, RowsOf

\* An UPDATE of the recency keeps every entry complete.
LEMMA RestampComplete ==
  ASSUME TypeOK, CompleteOrCopying, NEW e \in entries, NEW t \in Time,
         entries' = (entries \ {e}) \cup {[e EXCEPT !.used = t]},
         payloads' = payloads, op.pc # "payloads", op'.pc # "payloads"
  PROVE  CompleteOrCopying'
  <1> DEFINE r == [e EXCEPT !.used = t]
  <1>1. r.id = e.id /\ r.hash = e.hash
    BY Restamped DEF TypeOK
  <1> HIDE DEF r
  <1>2. entries' = (entries \ {e}) \cup {r}
    BY DEF r
  <1>3. MimesStored(r) = MimesStored(e)
    BY <1>1 DEF MimesStored, RowsOf
  <1>4. \A f : MimesStored(f)' = MimesStored(f)
    BY DEF MimesStored, RowsOf
  <1>5. \A f \in entries' : MimesStored(f) = MimesOf[f.hash]
    BY <1>1, <1>2, <1>3 DEF CompleteOrCopying
  <1> QED  BY <1>4, <1>5 DEF CompleteOrCopying

\* Deletes keep the other entries complete.
LEMMA DeleteComplete ==
  ASSUME CompleteOrCopying, NEW keep \in SUBSET entries, KeepOnly(keep),
         op.pc # "payloads", op'.pc # "payloads"
  PROVE  CompleteOrCopying'
  BY KeptRowsKeepPayloads DEF CompleteOrCopying

\* The row of a new copy has an id no row has had, and so no payloads.
LEMMA NewEntryEmpty ==
  ASSUME RowInv, InsertEntry
  PROVE  \E r : /\ r.id = seq + 1 /\ r.hash = call.hash
                /\ entries' = entries \cup {r}
                /\ MimesStored(r) = {}
                /\ \A e \in entries : e.id # r.id
  <1>1. PICK r : r.id = seq + 1 /\ r.hash = call.hash /\ entries' = entries \cup {r}
    BY NewRowFields, InsertEntryStep
  <1>2. /\ seq \in Nat
        /\ \A e \in entries : e.id \in Nat /\ e.id # seq + 1
        /\ \A p \in payloads : p.entry \in Nat /\ p.entry # seq + 1
    BY BoundsAssumption
    DEF RowInv, TypeInv, TypeOK, Tables, IdsGiven, EntryRow, PayloadRow, Id
  <1>3. MimesStored(r) = {}
    BY <1>1, <1>2 DEF MimesStored, RowsOf
  <1> QED  BY <1>1, <1>2, <1>3

\* A payload row adds its MIME type to the entry it is inserted for.
LEMMA PayloadAdded ==
  ASSUME NEW e, NEW m,
         payloads' = payloads \cup {[entry |-> op.id, mime |-> m, data |-> call.hash]}
  PROVE  /\ e.id = op.id => MimesStored(e)' = MimesStored(e) \cup {m}
         /\ e.id # op.id => MimesStored(e)' = MimesStored(e)
  <1>1. CASE e.id = op.id
    <2> DEFINE q == [entry |-> op.id, mime |-> m, data |-> call.hash]
    <2>1. q.entry = e.id /\ q.mime = m
      BY <1>1
    <2>2. payloads' = payloads \cup {q}
      OBVIOUS
    <2> HIDE DEF q
    <2>3. RowsOf(e)' = RowsOf(e) \cup {q}
      BY <2>1, <2>2 DEF RowsOf
    <2> QED  BY <1>1, <2>1, <2>3 DEF MimesStored
  <1>2. CASE e.id # op.id
    BY <1>2 DEF MimesStored, RowsOf
  <1> QED  BY <1>1, <1>2

\* The row of a new copy has no payloads yet, and all of them to come.
LEMMA InsertEntryComplete ==
  ASSUME RowInv, CompleteOrCopying, InsertEntry
  PROVE  CompleteOrCopying'
  <1>1. PICK r : /\ r.id = seq + 1 /\ r.hash = call.hash
                 /\ entries' = entries \cup {r}
                 /\ MimesStored(r) = {}
                 /\ \A e \in entries : e.id # r.id
    BY NewEntryEmpty
  <1>2. op'.id = seq + 1 /\ op'.todo = MimesOf[call.hash] /\ op'.pc = "payloads"
    BY InsertEntryStep
  <1>3. \A f : MimesStored(f)' = MimesStored(f)
    BY InsertEntryStep DEF MimesStored, RowsOf
  <1>4. op.pc # "payloads"
    BY DEF InsertEntry, Free
  <1> QED  BY <1>1, <1>2, <1>3, <1>4 DEF CompleteOrCopying

\* Each payload row takes its MIME type off the list, and the list is left when
\* it is empty.
LEMMA InsertPayloadComplete ==
  ASSUME RowInv, CompleteOrCopying, InsertPayload
  PROVE  CompleteOrCopying'
  <1>1. PICK m \in op.todo :
           /\ payloads' = payloads \cup {[entry |-> op.id, mime |-> m,
                                          data |-> call.hash]}
           /\ op' = [op EXCEPT !.todo = @ \ {m}, !.pc = AfterPayload(m)]
    BY DEF InsertPayload
  <1>2. entries' = entries /\ op.pc = "payloads"
    BY DEF InsertPayload
  <1>3. op \in Active
    BY ActiveOp DEF InsertPayload, RowInv, TypeInv
  <1>4. /\ op'.id = op.id /\ op'.todo = op.todo \ {m}
        /\ op'.pc = IF op.todo = {m} THEN "count" ELSE "payloads"
    BY <1>1, <1>3 DEF Active, AfterPayload
  <1>5. SUFFICES ASSUME NEW e \in entries
                 PROVE  IF op'.pc = "payloads" /\ e.id = op'.id
                        THEN MimesStored(e)' \cup op'.todo = MimesOf[e.hash]
                        ELSE MimesStored(e)' = MimesOf[e.hash]
    BY <1>2 DEF CompleteOrCopying
  <1>6. CASE e.id = op.id
    <2>1. MimesStored(e)' = MimesStored(e) \cup {m}
      BY <1>1, <1>6, PayloadAdded
    <2>2. MimesStored(e) \cup op.todo = MimesOf[e.hash]
      BY <1>2, <1>6 DEF CompleteOrCopying
    <2> QED  BY <1>1, <1>4, <1>6, <2>1, <2>2
  <1>7. CASE e.id # op.id
    <2>1. MimesStored(e)' = MimesStored(e)
      BY <1>1, <1>7, PayloadAdded
    <2>2. MimesStored(e) = MimesOf[e.hash]
      BY <1>7 DEF CompleteOrCopying
    <2> QED  BY <1>4, <1>7, <2>1, <2>2
  <1> QED  BY <1>6, <1>7

\* Every step that does not interrupt a request keeps the entries complete.
LEMMA CompleteStep ==
  ASSUME ~Faults
  PROVE  CompleteInv /\ [Next]_vars => CompleteInv'
  <1> SUFFICES ASSUME RowInv, CompleteOrCopying, [Next]_vars
               PROVE  CompleteOrCopying'
    BY RowStep DEF CompleteInv
  <1>t. TypeOK
    BY DEF RowInv, TypeInv
  <1>a. ASSUME UNCHANGED <<entries, payloads>>,
               op.pc # "payloads", op'.pc # "payloads"
        PROVE  CompleteOrCopying'
    BY <1>a DEF CompleteOrCopying, MimesStored, RowsOf
  <1>b. ASSUME UNCHANGED <<entries, payloads, op>> PROVE CompleteOrCopying'
    BY <1>b DEF CompleteOrCopying, MimesStored, RowsOf
  <1>1. CASE Tick
    BY <1>1, <1>b DEF Tick
  <1>2. ASSUME NEW h \in Hash, TakeStamp(h) PROVE CompleteOrCopying'
    BY <1>2, <1>b DEF TakeStamp
  <1>3. CASE InsertKnown
    <2>1. PICK e \in FindByHash(call.hash) :
             /\ entries' = (entries \ {e}) \cup {[e EXCEPT !.used = call.at]}
             /\ op' = Begin("count", "watcher", e.id, {})
      BY <1>3 DEF InsertKnown
    <2>2. e \in entries /\ call.at \in Time
      BY <2>1, <1>t DEF FindByHash, TypeOK
    <2>3. op.pc # "payloads" /\ op'.pc # "payloads" /\ payloads' = payloads
      BY <1>3, <2>1 DEF InsertKnown, Begin, Free
    <2> QED  BY <1>t, <2>1, <2>2, <2>3, RestampComplete
  <1>4. CASE InsertEntry
    BY <1>4, InsertEntryComplete
  <1>5. CASE InsertPayload
    BY <1>5, InsertPayloadComplete
  <1>6. CASE TrimCount
    <2>1. PICK keep \in MostRecent(AsI64(limits.entries)) : KeepOnly(keep)
      BY <1>6 DEF TrimCount
    <2>2. op.pc # "payloads" /\ op'.pc # "payloads"
      BY <1>6, <1>t, ActiveOp DEF TrimCount, Active
    <2> QED  BY <2>1, <2>2, MostRecentKeeps, DeleteComplete
  <1>7. CASE TrimOldest
    <2>1. PICK e \in entries : KeepOnly(entries \ {e})
      BY <1>7 DEF TrimOldest
    <2>2. op.pc # "payloads" /\ op'.pc # "payloads"
      BY <1>7 DEF TrimOldest
    <2> QED  BY <2>1, <2>2, DeleteComplete
  <1>8. CASE TrimDone
    BY <1>8, <1>a DEF TrimDone, Finish, Idle
  <1>9. CASE RestoreTouch
    <2>1. PICK e \in entries :
             entries' = (entries \ {e}) \cup {[e EXCEPT !.used = clock]}
      BY <1>9 DEF RestoreTouch
    <2>2. /\ clock \in Time /\ payloads' = payloads
          /\ op.pc # "payloads" /\ op'.pc # "payloads"
      BY <1>9, <1>t DEF RestoreTouch, TypeOK, Free
    <2> QED  BY <1>t, <2>1, <2>2, RestampComplete
  <1>10. CASE Delete
    <2>1. PICK e \in entries : KeepOnly(entries \ {e})
      BY <1>10 DEF Delete
    <2>2. op.pc # "payloads" /\ op'.pc # "payloads"
      BY <1>10 DEF Delete, Free
    <2> QED  BY <2>1, <2>2, DeleteComplete
  <1>11. CASE Clear
    <2>1. op.pc # "payloads" /\ op'.pc # "payloads"
      BY <1>11 DEF Clear, Free
    <2> QED  BY <1>11, <2>1, DeleteComplete DEF Clear
  <1>12. CASE SaveConfig
    BY <1>12, <1>b DEF SaveConfig
  <1>13. CASE ReloadConfig
    BY <1>13, <1>a DEF ReloadConfig, Begin, Free
  <1>14. CASE StatementFails
    BY <1>14 DEF StatementFails
  <1>15. CASE InsertFails
    BY <1>15, <1>b DEF InsertFails
  <1>16. CASE Restart
    BY <1>16, <1>a DEF Restart, Idle, Free
  <1>17. CASE UNCHANGED vars
    BY <1>17, <1>b DEF vars
  <1> QED
    BY <1>1, <1>2, <1>3, <1>4, <1>5, <1>6, <1>7, <1>8, <1>9, <1>10, <1>11,
       <1>12, <1>13, <1>14, <1>15, <1>16, <1>17 DEF Next

\* If no statement fails and the process stops only between requests, every entry
\* a client can see has every MIME type of its copy.
THEOREM EveryMimeTypeStored ==
  ASSUME ~Faults
  PROVE  Spec => []EntriesComplete
  <1>1. Init => CompleteInv
    <2>1. Init => RowInv
      BY TimeFacts, BoundsAssumption
      DEF Init, RowInv, TypeInv, TypeOK, CopyPresent, NoCall, Idle, Tables, CopyRow,
          IdsUnique, IdsGiven, HashUnique, PayloadsMatchHash
    <2> QED  BY <2>1 DEF Init, CompleteInv, CompleteOrCopying
  <1>2. CompleteInv /\ [Next]_vars => CompleteInv'
    BY CompleteStep
  <1>3. CompleteInv => EntriesComplete
    BY DEF CompleteInv, CompleteOrCopying, EntriesComplete, Free, MimesStored
  <1> QED  BY <1>1, <1>2, <1>3, PTL DEF Spec

-----------------------------------------------------------------------------
(***************************************************************************)
(* Torn entries, when requests are interrupted at any statement and the    *)
(* payload table need not have the foreign key.                            *)
(***************************************************************************)

\* The row being inserted has the payloads that are not to be inserted any more.
Copying ==
    op.pc = "payloads" =>
        \A e \in entries : e.id = op.id => MimesStored(e) \cup op.todo = MimesOf[e.hash]

TearInv == RowInv /\ Copying

\* What TornByOwnInsertOnly says of one step.
Tears ==
    \A e \in entries' : Torn(e)' =>
        \/ op'.pc = "payloads" /\ op'.id = e.id
        \/ op.pc = "payloads" /\ op.id = e.id /\ Free'
        \/ /\ ~(op.pc = "payloads" /\ op.id = e.id)
           /\ \E f \in entries : f.id = e.id /\ Torn(f)

\* A step that adds no row, and no payload of a row that it leaves, tears nothing.
LEMMA RowsKept ==
  ASSUME \A e \in entries' : /\ \E f \in entries : f.id = e.id /\ f.hash = e.hash
                             /\ MimesStored(e)' = MimesStored(e),
         op.pc # "payloads" \/ op' = op \/ Free'
  PROVE  Tears
  <1> SUFFICES ASSUME NEW e \in entries', Torn(e)',
                      ~(op'.pc = "payloads" /\ op'.id = e.id),
                      ~(op.pc = "payloads" /\ op.id = e.id /\ Free')
               PROVE  /\ ~(op.pc = "payloads" /\ op.id = e.id)
                      /\ \E f \in entries : f.id = e.id /\ Torn(f)
    BY DEF Tears
  <1>1. PICK f \in entries : f.id = e.id /\ f.hash = e.hash
    OBVIOUS
  <1>2. MimesStored(f) = MimesStored(e)'
    BY <1>1 DEF MimesStored, RowsOf
  <1>3. Torn(f)
    BY <1>1, <1>2 DEF Torn, MimesStored
  <1> QED  BY <1>1, <1>3

\* An UPDATE of the recency tears nothing.
LEMMA RestampTears ==
  ASSUME TypeOK, NEW e \in entries, NEW t \in Time,
         entries' = (entries \ {e}) \cup {[e EXCEPT !.used = t]},
         payloads' = payloads, op.pc # "payloads"
  PROVE  Tears
  <1> DEFINE r == [e EXCEPT !.used = t]
  <1>1. r.id = e.id /\ r.hash = e.hash
    BY Restamped DEF TypeOK
  <1> HIDE DEF r
  <1>2. entries' = (entries \ {e}) \cup {r}
    BY DEF r
  <1>3. \A f : MimesStored(f)' = MimesStored(f)
    BY DEF MimesStored, RowsOf
  <1> QED  BY <1>1, <1>2, <1>3, RowsKept

\* A DELETE tears nothing: the rows it keeps keep their payloads.
LEMMA DeleteTears ==
  ASSUME NEW keep \in SUBSET entries, KeepOnly(keep), op.pc # "payloads"
  PROVE  Tears
  BY KeptRowsKeepPayloads, RowsKept

\* The row of a new copy is torn until the request has gone through its payloads.
LEMMA InsertEntryTears ==
  ASSUME RowInv, InsertEntry
  PROVE  Tears /\ Copying'
  <1>1. PICK r : /\ r.id = seq + 1 /\ r.hash = call.hash
                 /\ entries' = entries \cup {r}
                 /\ MimesStored(r) = {}
                 /\ \A e \in entries : e.id # r.id
    BY NewEntryEmpty
  <1>2. op'.id = seq + 1 /\ op'.todo = MimesOf[call.hash] /\ op'.pc = "payloads"
    BY InsertEntryStep
  <1>3. \A f : MimesStored(f)' = MimesStored(f)
    BY InsertEntryStep DEF MimesStored, RowsOf
  <1>4. \A e \in entries : Torn(e)' = Torn(e)
    BY <1>3 DEF Torn, MimesStored
  <1>5. op.pc # "payloads"
    BY DEF InsertEntry, Free
  <1>6. Tears
    BY <1>1, <1>2, <1>4, <1>5 DEF Tears
  <1>7. Copying'
    BY <1>1, <1>2, <1>3 DEF Copying
  <1> QED  BY <1>6, <1>7

\* The last payload makes the row whole, any other one leaves it being inserted.
LEMMA InsertPayloadTears ==
  ASSUME RowInv, Copying, InsertPayload
  PROVE  Tears /\ Copying'
  <1>1. PICK m \in op.todo :
           /\ payloads' = payloads \cup {[entry |-> op.id, mime |-> m,
                                          data |-> call.hash]}
           /\ op' = [op EXCEPT !.todo = @ \ {m}, !.pc = AfterPayload(m)]
    BY DEF InsertPayload
  <1>2. entries' = entries /\ op.pc = "payloads"
    BY DEF InsertPayload
  <1>3. op \in Active
    BY ActiveOp DEF InsertPayload, RowInv, TypeInv
  <1>4. /\ op'.id = op.id /\ op'.todo = op.todo \ {m}
        /\ op'.pc = IF op.todo = {m} THEN "count" ELSE "payloads"
    BY <1>1, <1>3 DEF Active, AfterPayload
  <1>5. ASSUME NEW e \in entries, e.id = op.id
        PROVE  MimesStored(e)' \cup (op.todo \ {m}) = MimesOf[e.hash]
    <2>1. MimesStored(e)' = MimesStored(e) \cup {m}
      BY <1>1, <1>5, PayloadAdded
    <2>2. MimesStored(e) \cup op.todo = MimesOf[e.hash]
      BY <1>2, <1>5 DEF Copying
    <2> QED  BY <1>1, <2>1, <2>2
  <1>6. ASSUME NEW e \in entries, e.id = op.id, op'.pc # "payloads"
        PROVE  ~Torn(e)'
    BY <1>4, <1>5, <1>6 DEF Torn, MimesStored
  <1>7. ASSUME NEW e \in entries, e.id # op.id, Torn(e)'
        PROVE  Torn(e)
    BY <1>1, <1>7, PayloadAdded DEF Torn, MimesStored
  <1>8. Tears
    BY <1>2, <1>4, <1>6, <1>7 DEF Tears
  <1>9. Copying'
    BY <1>2, <1>4, <1>5 DEF Copying
  <1> QED  BY <1>8, <1>9

\* No step tears an entry but the one that cuts its own insert off.
LEMMA TearStep == TearInv /\ [Next]_vars => Tears /\ Copying'
  <1> SUFFICES ASSUME RowInv, Copying, [Next]_vars
               PROVE  Tears /\ Copying'
    BY DEF TearInv
  <1>t. TypeOK
    BY DEF RowInv, TypeInv
  <1>a. ASSUME UNCHANGED <<entries, payloads>>,
               op' = op \/ Free' \/ op.pc # "payloads"
        PROVE  Tears
    <2>1. \A e : MimesStored(e)' = MimesStored(e)
      BY <1>a DEF MimesStored, RowsOf
    <2> QED  BY <1>a, <2>1, RowsKept
  <1>b. ASSUME UNCHANGED <<entries, payloads, op>>
        PROVE  Tears /\ Copying'
    BY <1>a, <1>b DEF Copying, MimesStored, RowsOf
  <1>c. ASSUME op'.pc # "payloads"  PROVE Copying'
    BY <1>c DEF Copying
  <1>1. CASE UNCHANGED vars \/ Tick \/ SaveConfig \/ \E h \in Hash : TakeStamp(h)
    BY <1>1, <1>b DEF vars, Tick, SaveConfig, TakeStamp
  <1>2. CASE InsertKnown
    <2>1. PICK e \in FindByHash(call.hash) :
             /\ entries' = (entries \ {e}) \cup {[e EXCEPT !.used = call.at]}
             /\ op' = Begin("count", "watcher", e.id, {})
      BY <1>2 DEF InsertKnown
    <2>2. e \in entries /\ call.at \in Time /\ payloads' = payloads
      BY <1>2, <1>t, <2>1 DEF InsertKnown, FindByHash, TypeOK
    <2>3. op.pc # "payloads" /\ op'.pc # "payloads"
      BY <1>2, <2>1 DEF InsertKnown, Free, Begin
    <2> QED  BY <1>c, <1>t, <2>1, <2>2, <2>3, RestampTears
  <1>3. CASE InsertEntry
    BY <1>3, InsertEntryTears
  <1>4. CASE InsertPayload
    BY <1>4, InsertPayloadTears
  <1>5. CASE TrimCount
    <2>1. PICK keep \in MostRecent(AsI64(limits.entries)) : KeepOnly(keep)
      BY <1>5 DEF TrimCount
    <2>2. op.pc # "payloads" /\ op'.pc # "payloads"
      BY <1>5, <1>t, ActiveOp DEF TrimCount, Active
    <2> QED  BY <1>c, <2>1, <2>2, MostRecentKeeps, DeleteTears
  <1>6. CASE TrimOldest
    <2>1. PICK e \in entries : KeepOnly(entries \ {e})
      BY <1>6 DEF TrimOldest
    <2>2. op.pc # "payloads" /\ op'.pc # "payloads"
      BY <1>6 DEF TrimOldest
    <2> QED  BY <1>c, <2>1, <2>2, DeleteTears
  <1>7. CASE RestoreTouch
    <2>1. PICK e \in entries :
             entries' = (entries \ {e}) \cup {[e EXCEPT !.used = clock]}
      BY <1>7 DEF RestoreTouch
    <2>2. /\ clock \in Time /\ payloads' = payloads
          /\ op.pc # "payloads" /\ op'.pc # "payloads"
      BY <1>7, <1>t DEF RestoreTouch, TypeOK, Free
    <2> QED  BY <1>c, <1>t, <2>1, <2>2, RestampTears
  <1>8. CASE Delete
    <2>1. PICK e \in entries : KeepOnly(entries \ {e})
      BY <1>8 DEF Delete
    <2>2. op.pc # "payloads" /\ op'.pc # "payloads"
      BY <1>8 DEF Delete, Free
    <2> QED  BY <1>c, <2>1, <2>2, DeleteTears
  <1>9. CASE Clear
    <2>1. op.pc # "payloads" /\ op'.pc # "payloads"
      BY <1>9 DEF Clear, Free
    <2> QED  BY <1>9, <1>c, <2>1, DeleteTears DEF Clear
  <1>10. CASE ReloadConfig
    <2>1. op.pc # "payloads" /\ op'.pc # "payloads"
      BY <1>10 DEF ReloadConfig, Free, Begin
    <2> QED  BY <1>10, <1>a, <1>c, <2>1 DEF ReloadConfig
  <1>11. CASE TrimDone \/ StatementFails \/ Restart
    BY <1>11, <1>a, <1>c DEF TrimDone, StatementFails, Restart, Finish, Idle, Free
  <1>12. CASE InsertFails
    BY <1>12, <1>b DEF InsertFails
  <1> QED
    BY <1>1, <1>2, <1>3, <1>4, <1>5, <1>6, <1>7, <1>8, <1>9, <1>10, <1>11, <1>12 DEF Next

\* Whatever fails or stops, and whatever payload rows deleted entries have left, an
\* entry that a client sees torn was torn by its own insert: all others are whole.
THEOREM OnlyOwnInsertTears == Spec => TornByOwnInsertOnly
  <1>1. Init => Copying
    BY DEF Init, Copying, Idle
  <1>2. TearInv /\ [Next]_vars => TearInv'
    BY TearStep, RowStep DEF TearInv
  <1>3. TearInv /\ [Next]_vars => [Tears]_vars
    BY TearStep
  <1>4. Spec => []TearInv
    BY <1>1, <1>2, RowInvariant, PTL DEF Spec, TearInv
  <1>5. Spec => [][Tears]_vars
    BY <1>3, <1>4, PTL DEF Spec
  <1> QED  BY <1>5 DEF TornByOwnInsertOnly, Tears

-----------------------------------------------------------------------------
(***************************************************************************)
(* With the foreign key no payload outlives its entry, whatever fails: the *)
(* row a payload is inserted for is still there, because the watcher holds *)
(* the mutex from the one statement to the other.                          *)
(***************************************************************************)

CopyRowPresent == op.pc = "payloads" => \E e \in entries : e.id = op.id

OwnerInv == TypeInv /\ NoOrphans /\ CopyRowPresent

\* An UPDATE of the recency changes no id.
LEMMA RestampOwners ==
  ASSUME TypeOK, NoOrphans, NEW e \in entries, NEW t \in Time,
         entries' = (entries \ {e}) \cup {[e EXCEPT !.used = t]},
         payloads' = payloads
  PROVE  NoOrphans'
  <1> DEFINE r == [e EXCEPT !.used = t]
  <1>1. r.id = e.id
    BY Restamped DEF TypeOK
  <1>2. entries' = (entries \ {e}) \cup {r}
    OBVIOUS
  <1> HIDE DEF r
  <1> QED  BY <1>1, <1>2 DEF NoOrphans

\* The cascade takes the payloads of every row that goes.
LEMMA DeleteOwners ==
  ASSUME Cascade, NoOrphans, NEW keep \in SUBSET entries, KeepOnly(keep)
  PROVE  NoOrphans'
  BY DEF NoOrphans, KeepOnly

\* Every step leaves each payload its entry.
LEMMA OwnerStep ==
  ASSUME Cascade
  PROVE  OwnerInv /\ [Next]_vars => OwnerInv'
  <1> SUFFICES ASSUME TypeInv, NoOrphans, CopyRowPresent, [Next]_vars
               PROVE  NoOrphans' /\ CopyRowPresent'
    BY TypeStep DEF OwnerInv
  <1>t. TypeOK
    BY DEF TypeInv
  <1>a. ASSUME UNCHANGED <<entries, payloads>>, op'.pc # "payloads" \/ op' = op
        PROVE  NoOrphans' /\ CopyRowPresent'
    BY <1>a DEF NoOrphans, CopyRowPresent
  <1>b. ASSUME NEW keep \in SUBSET entries, KeepOnly(keep), op'.pc # "payloads"
        PROVE  NoOrphans' /\ CopyRowPresent'
    BY <1>b, DeleteOwners DEF CopyRowPresent
  <1>1. CASE UNCHANGED vars \/ Tick \/ SaveConfig \/ \E h \in Hash : TakeStamp(h)
    BY <1>1, <1>a DEF vars, Tick, SaveConfig, TakeStamp
  <1>2. CASE InsertKnown
    <2>1. PICK e \in FindByHash(call.hash) :
             /\ entries' = (entries \ {e}) \cup {[e EXCEPT !.used = call.at]}
             /\ op' = Begin("count", "watcher", e.id, {})
      BY <1>2 DEF InsertKnown
    <2>2. e \in entries /\ call.at \in Time /\ payloads' = payloads
      BY <1>2, <1>t, <2>1 DEF InsertKnown, FindByHash, TypeOK
    <2>3. op'.pc # "payloads"
      BY <2>1 DEF Begin
    <2> QED  BY <1>t, <2>1, <2>2, <2>3, RestampOwners DEF CopyRowPresent
  <1>3. CASE InsertEntry
    <2>1. PICK r : r.id = seq + 1 /\ entries' = entries \cup {r}
      BY <1>3, NewRowFields, InsertEntryStep
    <2>2. op'.id = seq + 1 /\ payloads' = payloads
      BY <1>3, InsertEntryStep
    <2> QED  BY <2>1, <2>2 DEF NoOrphans, CopyRowPresent
  <1>4. CASE InsertPayload
    <2>1. PICK m \in op.todo :
             /\ payloads' = payloads \cup {[entry |-> op.id, mime |-> m,
                                            data |-> call.hash]}
             /\ op' = [op EXCEPT !.todo = @ \ {m}, !.pc = AfterPayload(m)]
      BY <1>4 DEF InsertPayload
    <2>2. entries' = entries /\ op.pc = "payloads"
      BY <1>4 DEF InsertPayload
    <2>3. op \in Active
      BY <1>t, <2>2, ActiveOp
    <2>4. op'.id = op.id
      BY <2>1, <2>3 DEF Active
    <2>5. NoOrphans'
      BY <2>1, <2>2 DEF NoOrphans, CopyRowPresent
    <2> QED  BY <2>2, <2>4, <2>5 DEF CopyRowPresent
  <1>5. CASE TrimCount
    <2>1. PICK keep \in MostRecent(AsI64(limits.entries)) : KeepOnly(keep)
      BY <1>5 DEF TrimCount
    <2>2. op'.pc # "payloads"
      BY <1>5, <1>t, ActiveOp DEF TrimCount, Active
    <2> QED  BY <1>b, <2>1, <2>2, MostRecentKeeps
  <1>6. CASE TrimOldest
    <2>1. PICK e \in entries : KeepOnly(entries \ {e})
      BY <1>6 DEF TrimOldest
    <2> QED  BY <1>6, <1>b, <2>1 DEF TrimOldest
  <1>7. CASE RestoreTouch
    <2>1. PICK e \in entries :
             entries' = (entries \ {e}) \cup {[e EXCEPT !.used = clock]}
      BY <1>7 DEF RestoreTouch
    <2>2. clock \in Time /\ payloads' = payloads /\ op'.pc # "payloads"
      BY <1>7, <1>t DEF RestoreTouch, TypeOK, Free
    <2> QED  BY <1>t, <2>1, <2>2, RestampOwners DEF CopyRowPresent
  <1>8. CASE Delete
    <2>1. PICK e \in entries : KeepOnly(entries \ {e})
      BY <1>8 DEF Delete
    <2> QED  BY <1>8, <1>b, <2>1 DEF Delete, Free
  <1>9. CASE Clear
    BY <1>9, <1>b DEF Clear, Free
  <1>10. CASE TrimDone \/ ReloadConfig \/ StatementFails \/ InsertFails \/ Restart
    BY <1>10, <1>a
    DEF TrimDone, ReloadConfig, StatementFails, InsertFails, Restart, Finish, Idle,
        Begin
  <1> QED
    BY <1>1, <1>2, <1>3, <1>4, <1>5, <1>6, <1>7, <1>8, <1>9, <1>10 DEF Next

\* In a database created with the foreign key, no payload stays behind when its
\* entry goes, through every fault and restart: what delete, clear and trim remove
\* can be reclaimed.
THEOREM NoPayloadOutlivesItsEntry ==
  ASSUME Cascade
  PROVE  Spec => []NoOrphans
  <1>1. Init => OwnerInv
    BY TimeFacts, BoundsAssumption
    DEF Init, OwnerInv, TypeInv, TypeOK, CopyPresent, NoCall, Idle, NoOrphans,
        CopyRowPresent
  <1>2. OwnerInv /\ [Next]_vars => OwnerInv'
    BY OwnerStep
  <1>3. OwnerInv => NoOrphans
    BY DEF OwnerInv
  <1> QED  BY <1>1, <1>2, <1>3, PTL DEF Spec

-----------------------------------------------------------------------------
(***************************************************************************)
(* Timestamps.  The watcher takes created_at before it has the mutex, so   *)
(* rows may be younger than its stamp; but it is the only thread that      *)
(* creates rows, so none was created after the stamp it holds.             *)
(***************************************************************************)

StampsInOrder ==
    /\ \A e \in entries : e.created <= e.used /\ e.used <= clock
    /\ call.hash # NoHash =>
           call.at <= clock /\ \A e \in entries : e.created <= call.at

StampInv == TypeInv /\ StampsInOrder

\* An UPDATE of the recency with a time between creation and now keeps the order.
LEMMA RestampInOrder ==
  ASSUME TypeInv, StampsInOrder, NEW e \in entries, NEW t \in Time,
         e.created <= t, t <= clock,
         entries' = (entries \ {e}) \cup {[e EXCEPT !.used = t]},
         clock' = clock, call' = call
  PROVE  StampsInOrder'
  <1> DEFINE r == [e EXCEPT !.used = t]
  <1>1. r.created = e.created /\ r.used = t
    BY Restamped DEF TypeInv, TypeOK
  <1> HIDE DEF r
  <1>2. entries' = (entries \ {e}) \cup {r}
    BY DEF r
  <1> QED  BY <1>1, <1>2 DEF StampsInOrder

\* With a clock that does not step back every step keeps the order.
LEMMA StampStep ==
  ASSUME ~ClockMayStepBack
  PROVE  StampInv /\ [Next]_vars => StampInv'
  <1> SUFFICES ASSUME TypeInv, StampsInOrder, [Next]_vars
               PROVE  StampsInOrder'
    BY TypeStep DEF StampInv
  <1>t. /\ clock \in Nat /\ call.at \in Nat
        /\ \A e \in entries : e.created \in Nat /\ e.used \in Nat
    BY TimeFacts DEF TypeInv, TypeOK, EntryRow
  <1>a. ASSUME entries' \subseteq entries, clock' = clock, call' \in {call, NoCall}
        PROVE  StampsInOrder'
    BY <1>a DEF StampsInOrder, NoCall
  <1>1. CASE Tick
    BY <1>1, <1>t DEF Tick, StampsInOrder
  <1>2. ASSUME NEW h \in Hash, TakeStamp(h) PROVE StampsInOrder'
    BY <1>2, <1>t DEF TakeStamp, StampsInOrder
  <1>3. CASE InsertKnown
    <2>1. PICK e \in FindByHash(call.hash) :
             entries' = (entries \ {e}) \cup {[e EXCEPT !.used = call.at]}
      BY <1>3 DEF InsertKnown
    <2>2. e \in entries /\ call.at \in Time /\ e.created <= call.at /\ call.at <= clock
      BY <1>3, <2>1 DEF InsertKnown, FindByHash, TypeInv, TypeOK, StampsInOrder
    <2> QED  BY <1>3, <2>1, <2>2, RestampInOrder DEF InsertKnown
  <1>4. CASE InsertEntry
    <2> DEFINE r == NewRow
    <2>1. r.created = call.at /\ r.used = call.at
      BY NewRowFields
    <2>2. /\ entries' = entries \cup {r}
          /\ clock' = clock /\ call' = call /\ call.hash # NoHash
      BY <1>4, InsertEntryStep DEF InsertEntry
    <2> HIDE DEF r
    <2> QED  BY <1>t, <2>1, <2>2 DEF StampsInOrder
  <1>5. CASE InsertPayload
    BY <1>5, <1>a DEF InsertPayload
  <1>6. CASE TrimCount
    BY <1>6, <1>a, MostRecentKeeps, DeletesOnly DEF TrimCount
  <1>7. CASE TrimOldest
    BY <1>7, <1>a DEF TrimOldest, KeepOnly
  <1>8. CASE TrimDone
    BY <1>8, <1>a DEF TrimDone, Finish
  <1>9. CASE RestoreTouch
    <2>1. PICK e \in entries :
             entries' = (entries \ {e}) \cup {[e EXCEPT !.used = clock]}
      BY <1>9 DEF RestoreTouch
    <2>2. clock \in Time /\ e.created <= clock
      BY <1>t, <2>1 DEF TypeInv, TypeOK, StampsInOrder
    <2> QED  BY <1>9, <1>t, <2>1, <2>2, RestampInOrder DEF RestoreTouch
  <1>10. CASE Delete
    BY <1>10, <1>a DEF Delete, KeepOnly
  <1>11. CASE Clear
    BY <1>11, <1>a DEF Clear, KeepOnly
  <1>12. CASE SaveConfig
    BY <1>12, <1>a DEF SaveConfig
  <1>13. CASE ReloadConfig
    BY <1>13, <1>a DEF ReloadConfig
  <1>14. CASE StatementFails
    BY <1>14, <1>a DEF StatementFails, Finish
  <1>15. CASE InsertFails
    BY <1>15, <1>a DEF InsertFails
  <1>16. CASE Restart
    BY <1>16, <1>a DEF Restart
  <1>17. CASE UNCHANGED vars
    BY <1>17, <1>a DEF vars
  <1> QED
    BY <1>1, <1>2, <1>3, <1>4, <1>5, <1>6, <1>7, <1>8, <1>9, <1>10, <1>11,
       <1>12, <1>13, <1>14, <1>15, <1>16, <1>17 DEF Next

\* With a clock that does not step back no entry is used before its creation,
\* whatever requests run between the watcher's stamp and its insert.
THEOREM UseFollowsCreation ==
  ASSUME ~ClockMayStepBack
  PROVE  Spec => []CreatedBeforeUsed
  <1>1. Init => StampInv
    BY TimeFacts, BoundsAssumption
    DEF Init, StampInv, StampsInOrder, TypeInv, TypeOK, CopyPresent, NoCall, Idle
  <1>2. StampInv /\ [Next]_vars => StampInv'
    BY StampStep
  <1>3. StampInv => CreatedBeforeUsed
    BY DEF StampInv, StampsInOrder, CreatedBeforeUsed
  <1> QED  BY <1>1, <1>2, <1>3, PTL DEF Spec
=============================================================================
