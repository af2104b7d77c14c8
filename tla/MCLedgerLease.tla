---------------------------- MODULE MCLedgerLease -----------------------------
(* The instances of LedgerLease that TLC checks: three starts, of which    *)
(* any may be killed, one may fail to write, two may fail to open the      *)
(* database, and two may be given the same process ID one after the other; *)
(* an unrelated process may take one.                                      *)
EXTENDS LedgerLease
=============================================================================
