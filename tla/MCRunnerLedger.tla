---------------------------- MODULE MCRunnerLedger ----------------------------
(* The instance of RunnerLedger that TLC checks.  The requests: slow work  *)
(* in two spellings and with another payload, fast work that fails         *)
(* downstream, and one the schema refuses.                                 *)
EXTENDS RunnerLedger

MCRequests ==
  {[behavior |-> "slow",        payload |-> "p", spelling |-> "a"],
   [behavior |-> "slow",        payload |-> "p", spelling |-> "b"],
   [behavior |-> "slow",        payload |-> "q", spelling |-> "a"],
   [behavior |-> "unavailable", payload |-> "p", spelling |-> "a"],
   [behavior |-> "healthy", payload |-> "not an object", spelling |-> "a"]}
=============================================================================
