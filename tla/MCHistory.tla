----------------------------- MODULE MCHistory -----------------------------
\* Small instances of History for TLC.
EXTENDS History, TLC

CONSTANTS h1, h2, h3, m1, m2

\* a file copy with two MIME types, and two text copies with one
MCMimesOf == (h1 :> {m1, m2}) @@ (h2 :> {m1}) @@ (h3 :> {m2})
MCSizeOf == (h1 :> 2) @@ (h2 :> 1) @@ (h3 :> 1)

\* one configuration where the count binds and one where the size does
MCLimits == {[entries |-> 1, size |-> 3], [entries |-> 3, size |-> 2]}

MCTwoMimesOf == (h1 :> {m1, m2}) @@ (h2 :> {m1})
MCTwoSizeOf == (h1 :> 2) @@ (h2 :> 1)
=============================================================================
