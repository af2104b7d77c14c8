----------------------------- MODULE MCMySqlStore -----------------------------
EXTENDS MySqlStore, TLC

CONSTANTS c1, c2, w1, w2, x1, g1

MCAdditions == <<"idempotency_key", "idx_experiment_runs_key">>

MCBy == w1 :> c1 @@ g1 :> c1 @@ w2 :> c2 @@ x1 :> c1

MCOp == w1 :> "run" @@ g1 :> "details" @@ w2 :> "run" @@ x1 :> "delete"
=============================================================================
