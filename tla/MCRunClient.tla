----------------------------- MODULE MCRunClient -----------------------------
EXTENDS RunClient

CONSTANTS f1, f2
=============================================================================
