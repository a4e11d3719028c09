---------------------------- MODULE HistoryStore ----------------------------
(***************************************************************************)
(* What the history database promises the threads that share it: every     *)
(* request is one atomic step on a set of complete items, and whatever a   *)
(* store or a change of limits evicts is the least recently used part.     *)
(* History.tla is the statement-by-statement database that implements it.  *)
(***************************************************************************)
EXTENDS Integers, FiniteSets, FiniteSetsExt

CONSTANTS
    Hash,       \* the payload hashes that can be copied
    Mime,       \* MIME type names
    MimesOf,    \* the MIME types behind each hash
    SizeOf,     \* the payload bytes behind each hash
    LimitsSet,  \* the limits the configuration can hold
    Time        \* the readings of the wall clock

VARIABLES
    items,      \* the history: one item per hash
    limits      \* the limits in force

vars == <<items, limits>>

Item == [hash : Hash, created : Time, used : Time, mimes : SUBSET Mime]

TypeOK ==
    /\ items \subseteq Item
    /\ limits \in LimitsSet

Total(S) == MapThenSumSet(LAMBDA i : SizeOf[i.hash], S)

Fits(S, l) == Cardinality(S) <= l.entries /\ Total(S) <= l.size

(***************************************************************************)
(* The sets that may remain after trimming S: closed towards the more      *)
(* recently used, within both limits, and with nothing dropped that could  *)
(* have stayed: the last item dropped would not have fitted.               *)
(***************************************************************************)
Trimmed(S, l) ==
    {K \in SUBSET S :
        /\ Fits(K, l)
        /\ \A kept \in K, gone \in S \ K : kept.used >= gone.used
        /\ K # S => \E last \in S \ K :
                        /\ \A gone \in S \ K : last.used >= gone.used
                        /\ ~Fits(K \cup {last}, l)}

Holding(h) == {i \in items : i.hash = h}

Init == items = {} /\ limits \in LimitsSet

\* A copy: a known hash keeps its creation time, a new one comes with every
\* MIME type it offers.
Store(h, t) ==
    /\ items' \in Trimmed(
            IF Holding(h) # {}
            THEN {IF i.hash = h THEN [i EXCEPT !.used = t] ELSE i : i \in items}
            ELSE items \cup {[hash |-> h, created |-> t, used |-> t,
                              mimes |-> MimesOf[h]]},
            limits)
    /\ UNCHANGED limits

Touch(item, t) ==
    /\ items' = (items \ {item}) \cup {[item EXCEPT !.used = t]}
    /\ UNCHANGED limits

Delete(item) == items' = items \ {item} /\ UNCHANGED limits

Clear == items' = {} /\ UNCHANGED limits

Configure(l) == limits' = l /\ items' \in Trimmed(items, l)

\* A start of the daemon takes the limits of the file and trims nothing.
Reopen(l) == limits' = l /\ UNCHANGED items

Next ==
    \/ \E h \in Hash, t \in Time : Store(h, t)
    \/ \E item \in items, t \in Time : Touch(item, t)
    \/ \E item \in items : Delete(item)
    \/ Clear
    \/ \E l \in LimitsSet : Configure(l)
    \/ \E l \in LimitsSet : Reopen(l)

Spec == Init /\ [][Next]_vars
=============================================================================
