--------------------------- MODULE MimeClip_proofs ---------------------------
(***************************************************************************)
(* Theorems about MimeClip for every set of hashes and requests and every  *)
(* bound, checked by TLAPS.                                                *)
(***************************************************************************)
EXTENDS MimeClip, TLAPS

\* A restore on its way to the clipboard knows its hash.
RequestsKnown ==
    \A r \in Request : request[r].pc \in {"arm", "offer"} => request[r].hash \in Hash

\* While the slot counts down, so does the credit of its hash.
SlotCredited ==
    suppress.left >= 0 =>
        suppress.hash \in Hash /\ credit[suppress.hash] = suppress.left

Inv == TypeOK /\ RequestsKnown /\ SlotCredited /\ SensitiveNeverRead

-----------------------------------------------------------------------------
(***************************************************************************)
(* Facts about the events and about the offers they name.                  *)
(***************************************************************************)

\* Two events in a row.
LEMMA PairTyped ==
  ASSUME NEW E, NEW a \in E, NEW b \in E
  PROVE  <<a>> \o <<b>> \in Seq(E)
  OBVIOUS

\* Announcing an offer that has been made gives events of the right type.
LEMMA AnnounceTyped ==
  ASSUME NEW id \in Made \cup {0}
  PROVE  Announce(id) \in Seq(Event)
  <1> DEFINE o == [type |-> "offer", id |-> id]
             s == [type |-> "selection", id |-> id]
  <1>1. s \in Event /\ (id # 0 => o \in Event)
    BY DEF Event
  <1>2. Announce(id) = (IF id = 0 THEN <<>> ELSE <<o>>) \o <<s>>
    BY DEF Announce
  <1> HIDE DEF o, s
  <1> QED  BY <1>1, <1>2

\* Notify keeps the queue typed.
LEMMA NotifyTyped ==
  ASSUME queue \in Seq(Event), NEW events \in Seq(Event)
  PROVE  Notify(events) \in Seq(Event)
  BY DEF Notify

\* Taking an event leaves a typed queue and gives a typed event.
LEMMA TakeEvent ==
  ASSUME queue \in Seq(Event), queue # <<>>
  PROVE  Head(queue) \in Event /\ Tail(queue) \in Seq(Event)
  OBVIOUS

\* What the compositor and the watcher's connection hold, well typed.
ConnectionOK ==
    /\ offers \in Seq(Offer) /\ Len(offers) <= MaxOffers
    /\ current \in Made \cup {0}
    /\ device \in BOOLEAN
    /\ queue \in Seq(Event)
    /\ pending \subseteq Made
    /\ ready \in Made \cup {0}
    /\ watcher \in [pc : {"connect", "dispatch"}, id : {0}]
              \cup [pc : {"read", "check", "store"}, id : Made]
    /\ handled \subseteq Made

\* The hash of an offer that has been made is a hash.
LEMMA HashOfOffer ==
  ASSUME ConnectionOK, NEW id \in Made
  PROVE  offers[id] \in Offer /\ offers[id].hash \in Hash
  <1>1. offers \in Seq(Offer) /\ id \in 1 .. Len(offers)
    BY DEF ConnectionOK, Made
  <1>2. offers[id] \in Offer
    BY <1>1
  <1> QED  BY <1>2 DEF Offer

\* A new selection adds an offer and changes none.
LEMMA SelectKeeps ==
  ASSUME ConnectionOK, NEW h \in Hash, NEW from \in Request \cup {"app"},
         Select(h, from), UNCHANGED <<watcher, handled>>
  PROVE  /\ ConnectionOK'
         /\ \A id \in Made : offers'[id] = offers[id]
  <1> USE DEF ConnectionOK
  <1>1. [hash |-> h, from |-> from] \in Offer
    BY DEF Offer
  <1>2. /\ offers' \in Seq(Offer) /\ Len(offers') = Len(offers) + 1
        /\ Len(offers') <= MaxOffers
        /\ \A id \in Made : offers'[id] = offers[id]
    BY <1>1, OffersAssumption DEF Select, Made
  <1>3. Made \subseteq Made' /\ Len(offers) + 1 \in Made' /\ Len(offers) \in Nat
    BY <1>2 DEF Made
  <1>4. Event \subseteq Event'
    BY <1>3 DEF Event
  <1>5. queue \in Seq(Event')
    BY <1>4
  <1>6. Announce(Len(offers) + 1) \in Seq(Event')
    <2> DEFINE o == [type |-> "offer", id |-> Len(offers) + 1]
               s == [type |-> "selection", id |-> Len(offers) + 1]
    <2>1. s \in Event' /\ o \in Event'
      BY <1>3 DEF Event
    <2>2. Announce(Len(offers) + 1) = <<o>> \o <<s>>
      BY <1>3 DEF Announce
    <2>3. \A E : o \in E /\ s \in E => <<o>> \o <<s>> \in Seq(E)
      <3> HIDE DEF o, s
      <3> QED  BY PairTyped
    <2> HIDE DEF o, s
    <2> QED  BY <2>1, <2>2, <2>3, Zenon
  <1>7. queue' \in Seq(Event')
    BY <1>5, <1>6 DEF Select, Notify
  <1> QED  BY <1>2, <1>3, <1>7 DEF Select

\* While no offer is added, the events and the offers they name are the same.
LEMMA EventsKept ==
  ASSUME UNCHANGED offers
  PROVE  Made' = Made /\ Event' = Event
  BY DEF Made, Event

\* Every step keeps the offers made and a well-typed connection.
LEMMA ConnectionStep ==
  ASSUME ConnectionOK, RequestsKnown, [Next]_vars
  PROVE  /\ ConnectionOK'
         /\ \A id \in Made : offers'[id] = offers[id]
  <1> DEFINE Goal == ConnectionOK' /\ \A id \in Made : offers'[id] = offers[id]
  <1> SUFFICES Goal  OBVIOUS
  <1> USE DEF compositor, connection, ghosts
  <1>1. ASSUME NEW h \in Hash, Copy(h)  PROVE Goal
    BY <1>1, SelectKeeps DEF Copy
  <1>2. ASSUME NEW r \in Request, OfferRestored(r)  PROVE Goal
    <2>1. request[r].hash \in Hash
      BY <1>2 DEF RequestsKnown, OfferRestored
    <2> QED  BY <1>2, <2>1, SelectKeeps DEF OfferRestored
  <1>3. ASSUME UNCHANGED <<compositor, connection, watcher, handled>>  PROVE Goal
    BY <1>3, EventsKept DEF ConnectionOK
  <1>4. CASE Unselect
    <2>1. Announce(0) \in Seq(Event)
      BY AnnounceTyped
    <2>2. queue' \in Seq(Event)
      BY <1>4, <2>1, NotifyTyped DEF Unselect, ConnectionOK
    <2> QED  BY <1>4, <2>2, EventsKept DEF Unselect, ConnectionOK
  <1>5. CASE SeatReset
    <2>1. [type |-> "finished", id |-> 0] \in Event
      BY DEF Event
    <2>2. queue' \in Seq(Event)
      BY <1>5, <2>1 DEF SeatReset, ConnectionOK
    <2> QED  BY <1>5, <2>2, EventsKept DEF SeatReset, ConnectionOK
  <1>6. CASE Connect
    <2>1. Announce(current) \in Seq(Event)
      BY AnnounceTyped DEF ConnectionOK
    <2>2. queue' \in Seq(Event)
      BY <1>6, <2>1 DEF Connect
    <2> QED  BY <1>6, <2>2, EventsKept DEF Connect, ConnectionOK, Waiting, At
  <1>7. ASSUME NEW type, Dispatch(type)
        PROVE  /\ Head(queue) \in Event /\ queue' \in Seq(Event)
               /\ UNCHANGED <<offers, current, device, watcher>>
    BY <1>7, TakeEvent DEF Dispatch, ConnectionOK
  <1>8. CASE HandleOffer
    <2>1. Head(queue).type = "offer"
      BY <1>8 DEF HandleOffer, Dispatch
    <2>2. Head(queue).id \in Made
      BY <1>7, <1>8, <2>1 DEF HandleOffer, Event
    <2> QED  BY <1>7, <1>8, <2>2, EventsKept DEF HandleOffer, ConnectionOK
  <1>9. CASE HandleSelection
    <2>1. Head(queue).id \in Made \cup {0}
      BY <1>7, <1>9 DEF HandleSelection, Event
    <2> QED  BY <1>7, <1>9, <2>1, EventsKept DEF HandleSelection, ConnectionOK
  <1>10. CASE HandleFinished
    BY <1>7, <1>10, EventsKept DEF HandleFinished, ConnectionOK
  <1>11. CASE StartRead
    BY <1>11, EventsKept DEF StartRead, ConnectionOK, At
  <1>12. CASE ReadPayloads \/ PassCopy
    <2>1. watcher' \in [pc : {"read", "check", "store"}, id : Made]
      BY <1>12 DEF ReadPayloads, PassCopy, ConnectionOK
    <2> QED  BY <1>12, <2>1, EventsKept DEF ReadPayloads, PassCopy, ConnectionOK
  <1>13. CASE ReadFails \/ SuppressCopy \/ StoreCopy \/ StoreFails
    <2>1. watcher' = Waiting /\ handled' \subseteq Made
      BY <1>13 DEF ReadFails, SuppressCopy, StoreCopy, StoreFails, Return, ConnectionOK
    <2> QED
      BY <1>13, <2>1, EventsKept
      DEF ReadFails, SuppressCopy, StoreCopy, StoreFails, Waiting, At, ConnectionOK
  <1>14. CASE Disconnect \/ Restart
    <2>1. /\ UNCHANGED <<offers, device, handled>>
          /\ current' \in {current, 0}
          /\ queue' = <<>> /\ pending' = {} /\ ready' = 0
          /\ watcher' = [pc |-> "connect", id |-> 0]
      BY <1>14 DEF Disconnect, Restart, At
    <2>2. queue' \in Seq(Event)
      BY <2>1
    <2> QED  BY <2>1, <2>2, EventsKept DEF ConnectionOK
  <1>15. CASE UNCHANGED vars \/ Tick \/ Clear \/ \E h \in Hash : Delete(h)
    BY <1>3, <1>15 DEF vars, Tick, Clear, Delete
  <1>16. ASSUME NEW r \in Request,
                Restore(r) \/ OfferScreenshot(r) \/ Arm(r) \/ RestoreFails(r)
                    \/ Cancelled(r)
         PROVE  Goal
    BY <1>3, <1>16 DEF Restore, OfferScreenshot, Arm, RestoreFails, Cancelled
  <1> HIDE DEF Goal
  <1> QED
    BY <1>1, <1>2, <1>4, <1>5, <1>6, <1>8, <1>9, <1>10, <1>11, <1>12, <1>13,
       <1>14, <1>15, <1>16
    DEF Next, Watching

-----------------------------------------------------------------------------
(***************************************************************************)
(* The suppressed hash, the requests and the history.                      *)
(***************************************************************************)

\* What is kept apart from the connection.
SharedOK ==
    /\ history \subseteq Hash
    /\ suppress \in Pending
    /\ request \in [Request -> [pc : {"idle", "arm", "offer", "serve"},
                                hash : Hash \cup {NoHash}]]
    /\ drops \in 0 .. MaxDrops
    /\ credit \in [Hash -> -1 .. TTL]

\* The type invariant has two halves.
LEMMA TypeSplit ==
  TypeOK <=> ConnectionOK /\ SharedOK
  BY DEF TypeOK, ConnectionOK, SharedOK

\* Arming, ageing and checking keep the slot well typed.
LEMMA SlotTyped ==
  /\ Nothing \in Pending
  /\ \A h \in Hash : Armed(h) \in Pending
  /\ \A s \in Pending : Aged(s) \in Pending
  /\ \A s \in Pending, h \in Hash : AfterCheck(s, h) \in {s, Nothing}
  BY TTLAssumption DEF Pending, Nothing, Armed, Aged, AfterCheck, Expired

\* What a capture is made from.
LEMMA CapturedTyped ==
  ASSUME ConnectionOK, watcher.pc \in {"read", "check", "store"}
  PROVE  watcher.id \in Made /\ Captured \in Hash
  BY HashOfOffer DEF ConnectionOK, Captured

\* Every step keeps the slot in step with the credit of its hash.
LEMMA SharedStep ==
  ASSUME ConnectionOK, SharedOK, RequestsKnown, SlotCredited, [Next]_vars
  PROVE  SharedOK' /\ RequestsKnown' /\ SlotCredited'
  <1> DEFINE Goal == SharedOK' /\ RequestsKnown' /\ SlotCredited'
  <1> SUFFICES Goal  OBVIOUS
  <1> USE DEF ghosts
  <1>1. ASSUME UNCHANGED <<history, suppress, request, drops, credit>>  PROVE Goal
    BY <1>1 DEF SharedOK, RequestsKnown, SlotCredited
  <1>2. CASE Tick
    <2>1. suppress' = Aged(suppress) /\ suppress' \in Pending
      BY <1>2, SlotTyped DEF Tick, SharedOK
    <2>2. credit' \in [Hash -> -1 .. TTL]
      BY <1>2, TTLAssumption DEF Tick, SharedOK
    <2>3. SlotCredited'
      BY <1>2, <2>1, <2>2, NoHashAssumption
      DEF Tick, SharedOK, SlotCredited, Aged, Expired, Pending
    <2> QED  BY <1>2, <2>1, <2>2, <2>3 DEF Tick, SharedOK, RequestsKnown
  <1>3. CASE SuppressCopy
    <2>1. Captured \in Hash
      BY <1>3, CapturedTyped DEF SuppressCopy
    <2>2. suppress' = Nothing
      BY <1>3 DEF SuppressCopy, AfterCheck, Suppresses
    <2>3. SlotCredited'
      BY <2>2 DEF SlotCredited, Nothing
    <2>4. credit' \in [Hash -> -1 .. TTL]
      BY <1>3, <2>1, TTLAssumption DEF SuppressCopy, SharedOK
    <2> QED
      BY <1>3, <2>2, <2>3, <2>4, SlotTyped DEF SuppressCopy, SharedOK, RequestsKnown
  <1>4. CASE PassCopy
    <2>1. suppress' \in {suppress, Nothing}
      BY <1>4, CapturedTyped, SlotTyped DEF PassCopy, SharedOK
    <2>2. SlotCredited'
      BY <1>4, <2>1 DEF PassCopy, SlotCredited, Nothing
    <2> QED
      BY <1>4, <2>1, <2>2, SlotTyped DEF PassCopy, SharedOK, RequestsKnown
  <1>5. CASE StoreCopy
    <2>1. history' \subseteq Hash
      BY <1>5, CapturedTyped DEF StoreCopy, SharedOK
    <2> QED  BY <1>5, <2>1 DEF StoreCopy, SharedOK, RequestsKnown, SlotCredited
  <1>6. CASE Clear \/ \E h \in Hash : Delete(h)
    BY <1>6 DEF Clear, Delete, SharedOK, RequestsKnown, SlotCredited
  <1>7. CASE Disconnect
    BY <1>7, OffersAssumption DEF Disconnect, SharedOK, RequestsKnown, SlotCredited
  <1>8. CASE Restart
    <2>1. SlotCredited' /\ suppress' \in Pending
      BY <1>8, SlotTyped DEF Restart, SlotCredited, Nothing
    <2> QED
      BY <1>8, <2>1, OffersAssumption DEF Restart, SharedOK, RequestsKnown, NoRequest
  <1>9. ASSUME NEW r \in Request, Restore(r) \/ OfferScreenshot(r)  PROVE Goal
    BY <1>9 DEF Restore, OfferScreenshot, SharedOK, RequestsKnown, SlotCredited
  <1>10. ASSUME NEW r \in Request, Arm(r)  PROVE Goal
    <2> DEFINE h == request[r].hash
    <2>1. h \in Hash
      BY <1>10 DEF Arm, RequestsKnown
    <2>2. credit' \in [Hash -> -1 .. TTL] /\ credit'[h] = TTL
      BY <1>10, <2>1, TTLAssumption DEF Arm, SharedOK
    <2>3. SlotCredited' /\ suppress' \in Pending
      BY <1>10, <2>1, <2>2, SlotTyped DEF Arm, SlotCredited, Armed
    <2> QED  BY <1>10, <2>2, <2>3 DEF Arm, SharedOK, RequestsKnown
  <1>11. ASSUME NEW r \in Request,
                OfferRestored(r) \/ RestoreFails(r) \/ Cancelled(r)
         PROVE  Goal
    BY <1>11
    DEF OfferRestored, RestoreFails, Cancelled, NoRequest, SharedOK,
        RequestsKnown, SlotCredited
  <1>12. CASE \E h \in Hash : Copy(h)
    BY <1>1, <1>12 DEF Copy
  <1>13. CASE UNCHANGED vars \/ Unselect \/ SeatReset \/ Connect \/ HandleOffer
              \/ HandleSelection \/ HandleFinished \/ StartRead \/ ReadPayloads
              \/ ReadFails \/ StoreFails
    BY <1>1, <1>13
    DEF vars, Unselect, SeatReset, Connect, HandleOffer, HandleSelection,
        HandleFinished, Dispatch, StartRead, ReadPayloads, ReadFails, StoreFails
  <1> HIDE DEF Goal
  <1> QED
    BY <1>2, <1>3, <1>4, <1>5, <1>6, <1>7, <1>8, <1>9, <1>10, <1>11, <1>12, <1>13
    DEF Next, Watching

-----------------------------------------------------------------------------
(***************************************************************************)
(* Sensitive offers.                                                       *)
(***************************************************************************)

\* Offer id may be read: its hash is not sensitive.
Readable(id) == id # 0 => offers[id].hash \notin Sensitive

\* SensitiveNeverRead in terms of the offers held.
LEMMA SensitiveSplit ==
  SensitiveNeverRead <=>
      history \cap Sensitive = {} /\ Readable(watcher.id) /\ Readable(ready)
  BY DEF SensitiveNeverRead, Readable, Captured

\* The hint is looked for where an offer becomes ready, and nothing that follows
\* replaces the offer by another.
LEMMA SensitiveStep ==
  ASSUME ConnectionOK, RequestsKnown, SensitiveNeverRead, [Next]_vars
  PROVE  SensitiveNeverRead'
  <1> DEFINE Goal == SensitiveNeverRead'
  <1> SUFFICES Goal  OBVIOUS
  <1>1. /\ history \cap Sensitive = {}
        /\ Readable(watcher.id) /\ Readable(ready)
    BY SensitiveSplit
  <1>2. \A id \in Made : Readable(id) => Readable(id)'
    BY ConnectionStep DEF Readable
  <1>3. Readable(0)'
    BY DEF Readable
  <1>4. watcher.id \in Made \cup {0} /\ ready \in Made \cup {0}
    BY DEF ConnectionOK
  <1>5. ASSUME history' \subseteq history,
               watcher'.id \in {watcher.id, ready, 0},
               ready' \in {ready, 0}
        PROVE  Goal
    <2>1. Readable(watcher.id)' /\ Readable(ready)'
      BY <1>1, <1>2, <1>3, <1>4, <1>5 DEF Readable
    <2> QED  BY <1>1, <1>5, <2>1 DEF SensitiveNeverRead, Readable, Captured
  <1>6. CASE HandleSelection
    <2> DEFINE id == Head(queue).id
    <2>1. /\ history' = history /\ watcher' = watcher /\ offers' = offers
          /\ ready' = ready \/ (ready' = id /\ id \in pending /\ ~Ignored(id))
      BY <1>6 DEF HandleSelection, Dispatch, compositor
    <2>2. Readable(ready)'
      BY <1>1, <2>1 DEF Readable, Ignored
    <2> QED  BY <1>1, <2>1, <2>2 DEF SensitiveNeverRead, Readable, Captured
  <1>7. CASE StoreCopy
    <2>1. watcher.id # 0
      BY <1>7, CapturedTyped DEF StoreCopy, Made
    <2>2. Captured \notin Sensitive
      BY <1>1, <2>1 DEF Readable, Captured
    <2>3. /\ history' = history \cup {Captured}
          /\ offers' = offers /\ ready' = ready
          /\ watcher' = [pc |-> "dispatch", id |-> 0]
      BY <1>7 DEF StoreCopy, Return, Waiting, At, compositor, connection
    <2> QED  BY <1>1, <2>2, <2>3 DEF SensitiveNeverRead, Readable, Captured
  <1>8. CASE UNCHANGED vars \/ Unselect \/ SeatReset \/ Tick \/ Connect
             \/ HandleOffer \/ HandleFinished \/ StartRead
    BY <1>5, <1>8
    DEF vars, Unselect, SeatReset, Tick, Connect, HandleOffer, HandleFinished,
        Dispatch, StartRead, compositor, connection, Waiting, At
  <1>9. CASE ReadPayloads \/ ReadFails \/ SuppressCopy \/ PassCopy \/ StoreFails
    <2>1. watcher'.id \in {watcher.id, 0}
      BY <1>9
      DEF ConnectionOK, ReadPayloads, ReadFails, SuppressCopy, PassCopy, StoreFails,
          Return, Waiting, At
    <2> QED
      BY <1>5, <1>9, <2>1
      DEF ReadPayloads, ReadFails, SuppressCopy, PassCopy, StoreFails, connection
  <1>10. CASE Disconnect \/ Restart
    <2>1. /\ history' = history
          /\ watcher' = [pc |-> "connect", id |-> 0]
          /\ ready' = 0
      BY <1>10 DEF Disconnect, Restart, At
    <2> QED  BY <1>5, <2>1
  <1>11. ASSUME NEW r \in Request,
                Restore(r) \/ OfferScreenshot(r) \/ Arm(r) \/ OfferRestored(r)
                    \/ RestoreFails(r) \/ Cancelled(r)
         PROVE  Goal
    BY <1>5, <1>11
    DEF Restore, OfferScreenshot, Arm, OfferRestored, Select, RestoreFails,
        Cancelled, connection
  <1>12. CASE Clear \/ (\E h \in Hash : Copy(h)) \/ (\E h \in Hash : Delete(h))
    BY <1>5, <1>12 DEF Clear, Copy, Delete, Select, connection
  <1> HIDE DEF Goal
  <1> QED
    BY <1>6, <1>7, <1>8, <1>9, <1>10, <1>11, <1>12 DEF Next, Watching

-----------------------------------------------------------------------------
(***************************************************************************)
(* The theorems.                                                           *)
(***************************************************************************)

\* Inv holds at the start and every step keeps it.
LEMMA InvInductive == Spec => []Inv
  <1>1. Init => Inv
    <2> SUFFICES ASSUME Init  PROVE Inv
      OBVIOUS
    <2>1. ConnectionOK
      BY OffersAssumption DEF Init, ConnectionOK, At
    <2>2. SharedOK
      BY SlotTyped, TTLAssumption, OffersAssumption DEF Init, SharedOK, NoRequest
    <2>3. RequestsKnown /\ SlotCredited /\ SensitiveNeverRead
      BY DEF Init, RequestsKnown, SlotCredited, SensitiveNeverRead, NoRequest,
             Nothing, At
    <2> QED  BY <2>1, <2>2, <2>3, TypeSplit DEF Inv
  <1>2. Inv /\ [Next]_vars => Inv'
    <2> SUFFICES ASSUME Inv, [Next]_vars  PROVE Inv'
      OBVIOUS
    <2>1. ConnectionOK /\ SharedOK
      BY TypeSplit DEF Inv
    <2>2. ConnectionOK' /\ SharedOK' /\ RequestsKnown' /\ SlotCredited'
      BY <2>1, ConnectionStep, SharedStep DEF Inv
    <2>3. SensitiveNeverRead'
      BY <2>1, SensitiveStep DEF Inv
    <2> QED  BY <2>2, <2>3 DEF Inv, TypeOK, ConnectionOK, SharedOK
  <1> QED  BY <1>1, <1>2, PTL DEF Spec

\* Type correctness of the daemon with the compositor, for any number of requests
\* and any bounds.
THEOREM MimeClipTypeCorrect == Spec => []TypeOK
  <1>1. Inv => TypeOK
    BY DEF Inv
  <1> QED  BY <1>1, InvInductive, PTL

\* No payload of an offer with the password-manager hint is read or stored.
THEOREM PasswordsStayOut == Spec => []SensitiveNeverRead
  <1>1. Inv => SensitiveNeverRead
    BY DEF Inv
  <1> QED  BY <1>1, InvInductive, PTL

\* The watcher drops a capture only while a restore of the same hash is recent and
\* has not been used up: the slot, when it counts down, is the credit of its hash.
THEOREM OnlyEchoesDropped == Spec => DropsOnlyRestored
  <1>1. Inv /\ [Next]_vars => [SuppressCopy => credit[Captured] >= 0]_vars
    <2> SUFFICES ASSUME Inv, SuppressCopy  PROVE credit[Captured] >= 0
      OBVIOUS
    <2>1. suppress.hash = Captured /\ suppress.left >= 0
      BY DEF SuppressCopy, Suppresses, Expired, Inv, TypeOK, Pending
    <2> QED  BY <2>1 DEF Inv, SlotCredited
  <1> QED  BY <1>1, InvInductive, PTL DEF Spec, DropsOnlyRestored
=============================================================================
