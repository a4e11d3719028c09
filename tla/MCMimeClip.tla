----------------------------- MODULE MCMimeClip -----------------------------
\* Small instances of MimeClip for TLC.
EXTENDS MimeClip, TLC

CONSTANTS h1, h2, pw, r1, r2, s1
=============================================================================
