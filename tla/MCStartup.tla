----------------------------- MODULE MCStartup -----------------------------
\* Small instances of Startup for TLC.
EXTENDS Startup

CONSTANTS d1, d2, i1, i2
=============================================================================
