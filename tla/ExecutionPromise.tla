--------------------------- MODULE ExecutionPromise ---------------------------
(***************************************************************************)
(* What the gRPC runner promises the coordinators about an operation ID,   *)
(* with no mention of how it keeps the promise: an entry of the ledger is  *)
(* accepted once for one request, settles once, and whatever a caller has  *)
(* been told about it stays true.                                          *)
(***************************************************************************)
CONSTANTS Operations,    \* operation IDs chosen by the coordinators
          Fingerprints   \* identities of execution requests

VARIABLES entry,         \* operation -> its entry in the ledger
          told           \* operation -> the verdicts callers were given

promiseVars == <<entry, told>>
-----------------------------------------------------------------------------
(* From one entry to the next: accepted (and perhaps settled at once),     *)
(* settled with an outcome, or interrupted; never anything after that.     *)
Evolves(before, after) ==
  \/ after = before
  \/ /\ before.state = "ABSENT"
     /\ after.state \in {"RUNNING", "COMPLETED"}
     /\ after.fingerprint \in Fingerprints
  \/ /\ before.state = "RUNNING"
     /\ after.state \in {"COMPLETED", "INTERRUPTED"}
     /\ after.fingerprint = before.fingerprint

(* A verdict is kept true by the entry it was given about: a completion    *)
(* names the outcome the entry holds, and an abort (the caller is told to  *)
(* use a new operation ID) rules a later completion out.                   *)
Upheld(verdict, e) ==
  /\ verdict.kind = "completed" => /\ e.state = "COMPLETED"
                                   /\ e.outcome = verdict.outcome
                                   /\ e.fingerprint = verdict.fingerprint
  /\ verdict.kind = "aborted"   => e.state \in {"RUNNING", "INTERRUPTED"}
  /\ verdict.kind = "conflict"  => /\ e.state # "ABSENT"
                                   /\ e.fingerprint # verdict.fingerprint

Init == /\ \A op \in Operations : entry[op].state = "ABSENT"
        /\ told = [op \in Operations |-> {}]

Next == \A op \in Operations :
           /\ Evolves(entry[op], entry'[op])
           /\ told[op] \subseteq told'[op]
           /\ \A v \in told'[op] : Upheld(v, entry'[op])

Spec == Init /\ [][Next]_promiseVars
=============================================================================
