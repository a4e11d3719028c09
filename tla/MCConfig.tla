------------------------------ MODULE MCConfig ------------------------------
\* Small instances of ConfigFile for TLC: sizes with 2 for 1024 and 4 bits.
EXTENDS ConfigFile

CONSTANTS c1, c2

Size(number, unit) == [number |-> number, unit |-> unit]

MCEntries == {0, 1}
MCSizes == {Size(6, "B"), Size(2, "GiB")}
MCDefault == [entries |-> 2, size |-> Size(1, "MiB")]

\* The daemon and one of the clients have a size in their environment.
MCEnv == [p \in {c1, c2, Daemon} |->
            [entries |-> None,
             size |-> IF p = c1 THEN Size(4, "B") ELSE IF p = Daemon THEN Size(5, "B")
                      ELSE None]]

\* Of the size with its unit; every max_entries has one digit.
MCLength(c) == IF c.size.unit = "B" THEN 3 ELSE 5
=============================================================================
