------------------------------ MODULE Suppress ------------------------------
(***************************************************************************)
(* src/daemon/suppress.rs: the one hash whose next capture the watcher     *)
(* drops, because a restore is about to put it on the clipboard.  Time is  *)
(* counted down: left is the time until expires_at, and -1 after it.       *)
(***************************************************************************)
EXTENDS Integers

CONSTANTS
    Hash,       \* payload hashes
    NoHash,     \* SuppressState.pending = None
    TTL         \* SUPPRESS_TTL, in steps of the clock

ASSUME NoHashAssumption == NoHash \notin Hash
ASSUME TTLAssumption == TTL \in Nat \ {0}

Pending == [hash : Hash \cup {NoHash}, left : -1 .. TTL]

Nothing == [hash |-> NoHash, left |-> -1]

\* Mutant: the time is one step too long.
Armed_Longer(h) == [hash |-> h, left |-> TTL + 1]

\* arm_at overwrites whatever was pending.
Armed(h) == [hash |-> h, left |-> TTL]

Expired(s) == s.left < 0

\* should_suppress_at: what it answers ...
Suppresses(s, h) == s.hash = h /\ ~Expired(s)

\* Mutant: a match is not taken out.
AfterCheck_Kept(s, h) == IF Expired(s) THEN Nothing ELSE s

\* ... and what it leaves pending: a mismatch that has not expired stays.
AfterCheck(s, h) == IF Expired(s) \/ s.hash = h THEN Nothing ELSE s

\* The clock moves on.
Aged(s) == IF s.hash = NoHash \/ Expired(s) THEN s ELSE [s EXCEPT !.left = @ - 1]
=============================================================================
