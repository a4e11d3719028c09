------------------------------ MODULE MimeClip ------------------------------
(***************************************************************************)
(* mimeclipd at work: the watcher thread (watcher.rs), the requests that   *)
(* restore an entry or offer a screenshot with the threads they spawn      *)
(* (server.rs, restore.rs), the suppressed hash, and the history.  The     *)
(* history is the set of hashes stored; its requests are the atomic steps  *)
(* History.tla implements, with limits that do not bind.  The compositor   *)
(* is external: it announces each selection to the watcher, in order, and  *)
(* an offer gives no data once another selection has replaced it.          *)
(***************************************************************************)
EXTENDS Sequences, FiniteSets, Suppress

CONSTANTS
    Request,    \* requests to restore an entry or offer a screenshot, and their threads
    Shots,      \* those of them that offer a screenshot
    Sensitive,  \* hashes of offers that carry the password-manager hint
    Filtered,   \* hashes of offers whose MIME types are all skipped
    MaxOffers,  \* bound of the model: selections ever made
    MaxDrops    \* bound of the model: connections ever lost

ASSUME KindsAssumption == Sensitive \cup Filtered \subseteq Hash
ASSUME ShotsAssumption == Shots \subseteq Request
ASSUME OffersAssumption == MaxOffers \in Nat /\ MaxDrops \in Nat

VARIABLES
    history,    \* the hashes stored
    suppress,   \* SuppressState
    request,    \* where each request or its thread is, and its hash
    offers,     \* compositor: every selection made, oldest first
    current,    \* compositor: the selection in force, 0 for none
    device,     \* compositor: the watcher's data control device is valid
    queue,      \* Wayland events sent to the watcher and not yet dispatched
    pending,    \* WatchState.pending_offers
    ready,      \* WatchState.ready, 0 for None
    watcher,    \* where the watcher thread is, and the offer it processes
    drops,      \* connections lost so far
    handled,    \* for the properties: the offers the watcher is done with
    credit      \* for the properties: per hash, what is left of the last restore

compositor == <<offers, current, device>>
connection == <<queue, pending, ready>>
ghosts == <<handled, credit>>
vars == <<history, suppress, request, compositor, connection, watcher, drops, ghosts>>

OfferId == 1 .. MaxOffers
Offer == [hash : Hash, from : Request \cup {"app"}]

\* The offers made so far, and the events that can name them.
Made == 1 .. Len(offers)
Event == [type : {"offer"}, id : Made]
    \cup [type : {"selection"}, id : Made \cup {0}]
    \cup [type : {"finished"}, id : {0}]

TypeOK ==
    /\ history \subseteq Hash
    /\ suppress \in Pending
    /\ request \in [Request -> [pc : {"idle", "arm", "offer", "serve"},
                                hash : Hash \cup {NoHash}]]
    /\ offers \in Seq(Offer) /\ Len(offers) <= MaxOffers
    /\ current \in Made \cup {0}
    /\ device \in BOOLEAN
    /\ queue \in Seq(Event)
    /\ pending \subseteq Made
    /\ ready \in Made \cup {0}
    /\ watcher \in [pc : {"connect", "dispatch"}, id : {0}]
              \cup [pc : {"read", "check", "store"}, id : Made]
    /\ drops \in 0 .. MaxDrops
    /\ handled \subseteq Made
    /\ credit \in [Hash -> -1 .. TTL]

At(pc, id) == [pc |-> pc, id |-> id]
Waiting == At("dispatch", 0)
NoRequest == [pc |-> "idle", hash |-> NoHash]

\* The events that make offer id the selection; id 0 clears it.
Announce(id) ==
    (IF id = 0 THEN <<>> ELSE <<[type |-> "offer", id |-> id]>>)
        \o <<[type |-> "selection", id |-> id]>>

\* What the compositor sends to a watcher that is connected and has a device.
Notify(events) ==
    IF watcher.pc # "connect" /\ device THEN queue \o events ELSE queue

Init ==
    /\ history = {}
    /\ suppress = Nothing
    /\ request = [r \in Request |-> NoRequest]
    /\ offers = <<>>
    /\ current = 0
    /\ device = TRUE
    /\ queue = <<>>
    /\ pending = {}
    /\ ready = 0
    /\ watcher = At("connect", 0)
    /\ drops = 0
    /\ handled = {}
    /\ credit = [h \in Hash |-> -1]

-----------------------------------------------------------------------------
(***************************************************************************)
(* The compositor and the other applications.                              *)
(***************************************************************************)

\* Who serves the selection in force.
Owner == IF current = 0 THEN "nobody" ELSE offers[current].from

Select(h, from) ==
    /\ Len(offers) < MaxOffers
    /\ offers' = Append(offers, [hash |-> h, from |-> from])
    /\ current' = Len(offers) + 1
    /\ queue' = Notify(Announce(Len(offers) + 1))
    /\ UNCHANGED <<device, pending, ready>>

\* An application copies.
Copy(h) ==
    /\ Select(h, "app")
    /\ UNCHANGED <<history, suppress, request, watcher, drops, ghosts>>

\* The application that owns the selection goes away, or the connection of the
\* restore thread that does breaks.
Unselect ==
    /\ current # 0
    /\ current' = 0
    /\ queue' = Notify(Announce(0))
    /\ UNCHANGED <<history, suppress, request, offers, device, pending, ready,
                   watcher, drops, ghosts>>

\* The seat is destroyed with its selection, and another takes its place: the
\* device is told it is finished.
SeatReset ==
    /\ device /\ watcher.pc # "connect"
    /\ device' = FALSE
    /\ current' = 0
    /\ queue' = Append(queue, [type |-> "finished", id |-> 0])
    /\ UNCHANGED <<history, suppress, request, offers, pending, ready,
                   watcher, drops, ghosts>>

\* Time passes for the suppressed hash.
Tick ==
    /\ suppress' = Aged(suppress)
    /\ credit' = [h \in Hash |-> IF credit[h] < 0 THEN -1 ELSE credit[h] - 1]
    /\ UNCHANGED <<history, request, compositor, connection, watcher, drops, handled>>

-----------------------------------------------------------------------------
(***************************************************************************)
(* The watcher: run, the device's event handler, process_ready.            *)
(***************************************************************************)

\* Mutant: the selection in force at the connection is not asked for.
Connect_OnlyNew ==
    /\ watcher.pc = "connect"
    /\ watcher' = Waiting
    /\ device' = TRUE
    /\ UNCHANGED <<history, suppress, request, offers, current, connection,
                   drops, ghosts>>

\* A new connection: the roundtrips of run bring the selection in force.
Connect ==
    /\ watcher.pc = "connect"
    /\ watcher' = Waiting
    /\ device' = TRUE
    /\ queue' = Announce(current)
    /\ UNCHANGED <<history, suppress, request, offers, current, pending, ready,
                   drops, ghosts>>

Dispatch(type) ==
    /\ watcher.pc = "dispatch"
    /\ queue # <<>> /\ Head(queue).type = type
    /\ queue' = Tail(queue)
    /\ UNCHANGED <<history, suppress, request, compositor, watcher, drops, credit>>

\* DataOffer, with the Offer events that list its MIME types.
HandleOffer ==
    /\ Dispatch("offer")
    /\ pending' = pending \cup {Head(queue).id}
    /\ UNCHANGED <<ready, handled>>

\* Mutant: the password-manager hint is not looked for.
Ignored_Filtered(id) == offers[id].hash \in Filtered

Ignored(id) == offers[id].hash \in Sensitive \cup Filtered

\* Selection: a sensitive or empty offer is destroyed, the last other one wins, and
\* one that is not in the map is passed over without being handled.
HandleSelection ==
    /\ Dispatch("selection")
    /\ pending' = {}
    /\ LET id == Head(queue).id IN
        IF id \in pending /\ ~Ignored(id)
        THEN ready' = id /\ handled' = handled
        ELSE ready' = ready /\ handled' = handled \cup ({id} \cap pending)

\* Finished is only logged.
HandleFinished ==
    /\ Dispatch("finished")
    /\ UNCHANGED <<pending, ready, handled>>

\* blocking_dispatch returns after any events it found: the ready offer is
\* taken and its payloads are requested.  One that has been replaced gives none.
StartRead ==
    /\ watcher.pc = "dispatch" /\ ready # 0
    /\ ready' = 0
    /\ watcher' = At(IF ready = current THEN "read" ELSE "dispatch",
                     IF ready = current THEN ready ELSE 0)
    /\ UNCHANGED <<history, suppress, request, compositor, queue, pending, drops, ghosts>>

Return ==
    /\ watcher' = Waiting
    /\ handled' = handled \cup {watcher.id}

\* All pipes reach their end: the payloads are normalized and hashed.
ReadPayloads ==
    /\ watcher.pc = "read"
    /\ watcher' = [watcher EXCEPT !.pc = "check"]
    /\ UNCHANGED <<history, suppress, request, compositor, connection, drops, ghosts>>

\* Too large, idle for too long, a failed flush or nothing read: not stored.
ReadFails ==
    /\ watcher.pc = "read"
    /\ Return
    /\ UNCHANGED <<history, suppress, request, compositor, connection, drops, credit>>

Captured == offers[watcher.id].hash

\* The capture is the one a restore has announced: it is dropped.
SuppressCopy ==
    /\ watcher.pc = "check"
    /\ Suppresses(suppress, Captured)
    /\ suppress' = AfterCheck(suppress, Captured)
    /\ credit' = [credit EXCEPT ![Captured] = -1]
    /\ Return
    /\ UNCHANGED <<history, request, compositor, connection, drops>>

\* Any other is to be stored.  The panic of build_label (Capture.tla) that may come
\* before is a Restart here.
PassCopy ==
    /\ watcher.pc = "check"
    /\ ~Suppresses(suppress, Captured)
    /\ suppress' = AfterCheck(suppress, Captured)
    /\ watcher' = [watcher EXCEPT !.pc = "store"]
    /\ UNCHANGED <<history, request, compositor, connection, drops, ghosts>>

\* Database::insert, as one step of HistoryStore ...
StoreCopy ==
    /\ watcher.pc = "store"
    /\ history' = history \cup {Captured}
    /\ Return
    /\ UNCHANGED <<suppress, request, compositor, connection, drops, credit>>

\* ... or its error, which is only logged.
StoreFails ==
    /\ watcher.pc = "store"
    /\ Return
    /\ UNCHANGED <<history, suppress, request, compositor, connection, drops, credit>>

\* The watcher's connection breaks: run returns an error and main calls it again.
\* An error that should_retry_watcher_error does not accept ends the process, which
\* is a Restart.  A compositor that has been restarted has no selection.
Disconnect ==
    /\ watcher.pc = "dispatch" /\ drops < MaxDrops
    /\ drops' = drops + 1
    /\ current' \in {current, 0}
    /\ watcher' = At("connect", 0)
    /\ queue' = <<>> /\ pending' = {} /\ ready' = 0
    /\ UNCHANGED <<history, suppress, request, offers, device, ghosts>>

-----------------------------------------------------------------------------
(***************************************************************************)
(* Client requests.  Restore takes the database mutex, releases it, takes  *)
(* the suppress mutex, and leaves the rest to a thread of its own.         *)
(***************************************************************************)

\* get_hash, get_raw_payloads and touch_last_used under the database mutex.
Restore(r) ==
    /\ r \notin Shots
    /\ request[r].pc = "idle"
    /\ \E h \in history :
        request' = [request EXCEPT ![r] = [pc |-> "arm", hash |-> h]]
    /\ UNCHANGED <<history, suppress, compositor, connection, watcher, drops, ghosts>>

\* OfferScreenshot reads an image file; it takes no mutex and announces no hash.
OfferScreenshot(r) ==
    /\ r \in Shots
    /\ request[r].pc = "idle"
    /\ \E h \in Hash \ (Sensitive \cup Filtered) :
        request' = [request EXCEPT ![r] = [pc |-> "offer", hash |-> h]]
    /\ UNCHANGED <<history, suppress, compositor, connection, watcher, drops, ghosts>>

Arm(r) ==
    /\ request[r].pc = "arm"
    /\ suppress' = Armed(request[r].hash)
    /\ credit' = [credit EXCEPT ![request[r].hash] = TTL]
    /\ request' = [request EXCEPT ![r].pc = "offer"]
    /\ UNCHANGED <<history, compositor, connection, watcher, drops, handled>>

\* The restore thread sets the selection.
OfferRestored(r) ==
    /\ request[r].pc = "offer"
    /\ Select(request[r].hash, r)
    /\ request' = [request EXCEPT ![r].pc = "serve"]
    /\ UNCHANGED <<history, suppress, watcher, drops, ghosts>>

\* It cannot connect, the compositor lacks the manager or a seat, or the entry has
\* no payloads.
RestoreFails(r) ==
    /\ request[r].pc = "offer"
    /\ request' = [request EXCEPT ![r] = NoRequest]
    /\ UNCHANGED <<history, suppress, compositor, connection, watcher, drops, ghosts>>

\* Another selection cancels the source: the thread ends.
Cancelled(r) ==
    /\ request[r].pc = "serve"
    /\ Owner # r
    /\ request' = [request EXCEPT ![r] = NoRequest]
    /\ UNCHANGED <<history, suppress, compositor, connection, watcher, drops, ghosts>>

Delete(h) ==
    /\ h \in history
    /\ history' = history \ {h}
    /\ UNCHANGED <<suppress, request, compositor, connection, watcher, drops, ghosts>>

Clear ==
    /\ history' = {}
    /\ UNCHANGED <<suppress, request, compositor, connection, watcher, drops, ghosts>>

\* The process stops and is started again: the history stays, the threads and
\* the selections they serve are gone.
Restart ==
    /\ drops < MaxDrops
    /\ drops' = drops + 1
    /\ suppress' = Nothing
    /\ request' = [r \in Request |-> NoRequest]
    /\ current' = IF Owner = "app" THEN current ELSE 0
    /\ watcher' = At("connect", 0)
    /\ queue' = <<>> /\ pending' = {} /\ ready' = 0
    /\ UNCHANGED <<history, offers, device, ghosts>>

-----------------------------------------------------------------------------
Watching ==
    \/ Connect
    \/ HandleOffer
    \/ HandleSelection
    \/ HandleFinished
    \/ StartRead
    \/ ReadPayloads
    \/ ReadFails
    \/ SuppressCopy
    \/ PassCopy
    \/ StoreCopy
    \/ StoreFails

Next ==
    \/ \E h \in Hash : Copy(h)
    \/ Unselect
    \/ SeatReset
    \/ Tick
    \/ Watching
    \/ Disconnect
    \/ \E r \in Request :
        \/ Restore(r) \/ OfferScreenshot(r) \/ Arm(r)
        \/ OfferRestored(r) \/ RestoreFails(r) \/ Cancelled(r)
    \/ \E h \in Hash : Delete(h)
    \/ Clear
    \/ Restart

\* The watcher is a loop on the main thread: it dispatches what arrives, takes
\* the ready offer before it waits again, and every read ends, at the latest by
\* the idle timeout; main reconnects it after two seconds.
Spec == Init /\ [][Next]_vars /\ WF_vars(Watching) /\ WF_vars(StartRead)
-----------------------------------------------------------------------------
\* No payload of an offer with the password-manager hint is requested or stored,
\* however its events fall into dispatch batches, connections and restarts:
\* README "discarded before mimeclip requests or stores any payload".
SensitiveNeverRead ==
    /\ history \cap Sensitive = {}
    /\ watcher.id # 0 => Captured \notin Sensitive
    /\ ready # 0 => offers[ready].hash \notin Sensitive

\* The watcher drops a capture only on account of a restore of the same hash, at
\* most one capture for each, and not after the time of the restore is over,
\* although all restores share one slot.
DropsOnlyRestored ==
    [][SuppressCopy => credit[Captured] >= 0]_vars

\* A selection that stays is eventually stored, suppressed or skipped, across
\* coalesced events, lost connections and restarts, as long as the watcher's device
\* is valid: README "On every clipboard change, enumerate all offered MIME types".
EverySelectionHandled ==
    \A id \in OfferId : current = id ~> (id \in handled \/ current # id \/ ~device)

\* The same without the condition: main.rs "Reconnects automatically if the Wayland
\* connection drops (e.g. compositor restart, seat reset, broken pipe)".
HandledAfterSeatReset ==
    \A id \in OfferId : current = id ~> (id \in handled \/ current # id)

\* What a restore puts on the clipboard is not stored again: main.rs "suppress
\* re-storing entries that we just restored".
EchoNotStored ==
    watcher.pc = "store" => offers[watcher.id].from \in Shots \cup {"app"}
=============================================================================
