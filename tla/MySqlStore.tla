------------------------------- MODULE MySqlStore -------------------------------
(***************************************************************************)
(* The MySQL store of the TypeScript coordinator (createMySqlDatabase and  *)
(* buildMySqlPoolOptions in server/src/database.ts), one of it in every    *)
(* coordinator process that shares the server.                             *)
(*                                                                         *)
(* Starting up, a coordinator applies the schema and looks for each column *)
(* and index before it adds it, one statement at a time, while another     *)
(* does the same; every request awaits the outcome.  A request then takes  *)
(* a connection of a bounded pool, or waits in its bounded queue; a write  *)
(* and its read-back share a transaction, reads are single statements.     *)
(* Statements fail, connections break and processes die at any point, also *)
(* between what a statement does and its acknowledgement; a ROLLBACK that  *)
(* is refused leaves its transaction to whoever uses the session next.     *)
(*                                                                         *)
(* There is one experiment and its runs; the other inserts have the form   *)
(* of createRun, the other reads that of the statements of getExperiment.  *)
(***************************************************************************)
EXTENDS Naturals, Sequences

CONSTANTS Coordinators,
          Additions,       \* the columns and indexes a schema older than the
                           \* file may lack, in the order they are added
          Requests,
          By,              \* request -> the coordinator that serves it
          Op,              \* request -> what it asks of the store
          ConnectionLimit, \* MAX_DATABASE_CONNECTIONS (5)
          QueueLimit,      \* queueLimit (20)
          MaxRestarts,     \* bound on the deaths of coordinators
          None

Ops == {"run", "delete", "details"}

ASSUME StoreConstants == /\ Additions \in Seq(STRING)
                         /\ By \in [Requests -> Coordinators]
                         /\ Op \in [Requests -> Ops]
                         /\ ConnectionLimit \in Nat \ {0}
                         /\ QueueLimit \in Nat
                         /\ MaxRestarts \in Nat
                         /\ None \notin Requests

VARIABLES schema,   \* what the server has of the schema
          start,    \* coordinator -> the state of its promise "initialized"
          step,     \* coordinator -> which addition it is at
          missing,  \* coordinator -> it looked, and the addition was missing
          restarts, \* deaths so far
          holder,   \* connection -> the request that holds it, or None
          queue,    \* coordinator -> requests that wait for a connection
          open,     \* connection -> what its session has not committed
          tx,       \* connections whose session is inside a transaction
          saved,    \* writes that are committed
          gone,     \* was the experiment deleted?
          at,       \* request -> where it stands
          stage,    \* request -> what it does with a connection
          answer,   \* request -> how it ended
          unsure,   \* history: requests that took effect unacknowledged
          adrift,   \* history: requests whose ROLLBACK was refused, or that
                    \* spoke to a session such a request had left
          expected, \* history: runs answered as saved before the request came
          seen      \* request -> the runs it read

pool   == <<holder, queue, open, tx>>
boot   == <<schema, start, step, missing, restarts>>
data   == <<saved, gone, unsure, adrift>>
client == <<at, stage, answer, expected, seen>>
vars   == <<boot, pool, data, client>>
-----------------------------------------------------------------------------
Parts == {"tables"} \cup {Additions[i] : i \in DOMAIN Additions}

Connections == Coordinators \X (1..ConnectionLimit)

Of(c) == {s \in Connections : s[1] = c}

Runs == {r \in Requests : Op[r] = "run"}

Deletes == {r \in Requests : Op[r] = "delete"}

Stages == {"begin", "write", "readback", "commit", "committed", "rollback",
           "first", "second", "delete", "deleted"}

(* What a request does first with a connection.                            *)
First(r) == CASE Op[r] = "run"     -> "begin"
              [] Op[r] = "details" -> "first"
              [] Op[r] = "delete"  -> "delete"

TypeOK ==
  /\ schema \subseteq Parts
  /\ start \in [Coordinators -> {"starting", "ready", "failed"}]
  /\ step \in [Coordinators -> 0..Len(Additions)]
  /\ missing \in [Coordinators -> BOOLEAN]
  /\ restarts \in 0..MaxRestarts
  /\ holder \in [Connections -> Requests \cup {None}]
  /\ queue \in [Coordinators -> Seq(Requests)]
  /\ open \in [Connections -> SUBSET (Runs \cup Deletes)]
  /\ tx \subseteq Connections
  /\ saved \subseteq Runs
  /\ gone \in BOOLEAN
  /\ at \in [Requests -> {"idle", "awaiting", "again", "queued", "held",
                          "done"}]
  /\ stage \in [Requests -> Stages]
  /\ answer \in [Requests -> {"none", "ok", "refused", "failed", "lost"}]
  /\ unsure \subseteq Requests
  /\ adrift \subseteq Requests
  /\ expected \in [Requests -> SUBSET Runs]
  /\ seen \in [Requests -> SUBSET Runs]

(* A new server, or a schema from before the additions.                    *)
Init ==
  /\ schema \in {{}, {"tables"}}
  /\ start = [c \in Coordinators |-> "starting"]
  /\ step = [c \in Coordinators |-> 0]
  /\ missing = [c \in Coordinators |-> FALSE]
  /\ restarts = 0
  /\ holder = [s \in Connections |-> None]
  /\ queue = [c \in Coordinators |-> <<>>]
  /\ open = [s \in Connections |-> {}]
  /\ tx = {}
  /\ saved = {}
  /\ gone = FALSE
  /\ at = [r \in Requests |-> "idle"]
  /\ stage = [r \in Requests |-> First(r)]
  /\ answer = [r \in Requests |-> "none"]
  /\ unsure = {}
  /\ adrift = {}
  /\ expected = [r \in Requests |-> {}]
  /\ seen = [r \in Requests |-> {}]
-----------------------------------------------------------------------------
(* The promise "initialized".                                              *)

Proceed(c) ==
  /\ missing' = [missing EXCEPT ![c] = FALSE]
  /\ IF step[c] = Len(Additions)
       THEN start' = [start EXCEPT ![c] = "ready"] /\ UNCHANGED step
       ELSE step' = [step EXCEPT ![c] = @ + 1] /\ UNCHANGED start

Fail(c) == /\ start' = [start EXCEPT ![c] = "failed"]
           /\ UNCHANGED <<step, missing>>

(* CREATE TABLE IF NOT EXISTS: new tables have everything, old ones stay.  *)
ApplySchema(c) ==
  /\ start[c] = "starting" /\ step[c] = 0
  /\ schema' = IF "tables" \in schema THEN schema ELSE Parts
  /\ Proceed(c)
  /\ UNCHANGED <<restarts, pool, data, client>>

LookFor(c) ==
  /\ start[c] = "starting" /\ step[c] > 0 /\ ~missing[c]
  /\ IF Additions[step[c]] \in schema
       THEN Proceed(c)
       ELSE /\ missing' = [missing EXCEPT ![c] = TRUE]
            /\ UNCHANGED <<start, step>>
  /\ UNCHANGED <<schema, restarts, pool, data, client>>

(* ALTER TABLE or CREATE INDEX: refused if another was faster.             *)
Add(c) ==
  /\ start[c] = "starting" /\ missing[c]
  /\ IF Additions[step[c]] \in schema
       THEN Fail(c) /\ UNCHANGED schema
       ELSE /\ schema' = schema \cup {Additions[step[c]]}
            /\ Proceed(c)
  /\ UNCHANGED <<restarts, pool, data, client>>

(* The server sleeps, or the credentials are wrong: never tried again.     *)
StartFault(c) ==
  /\ start[c] = "starting"
  /\ Fail(c)
  /\ UNCHANGED <<schema, restarts, pool, data, client>>
-----------------------------------------------------------------------------
(* The pool.                                                               *)

(* A free connection, a place in the queue, or a refusal.                  *)
Acquire(r) ==
  LET c == By[r]
      free == {s \in Of(c) : holder[s] = None}
  IN  /\ \/ /\ \E s \in free : holder' = [holder EXCEPT ![s] = r]
            /\ at' = [at EXCEPT ![r] = "held"]
            /\ UNCHANGED <<queue, answer>>
         \/ /\ free = {} /\ Len(queue[c]) < QueueLimit
            /\ queue' = [queue EXCEPT ![c] = Append(@, r)]
            /\ at' = [at EXCEPT ![r] = "queued"]
            /\ UNCHANGED <<holder, answer>>
         \/ /\ free = {} /\ Len(queue[c]) >= QueueLimit
            /\ at' = [at EXCEPT ![r] = "done"]
            /\ answer' = [answer EXCEPT ![r] = "failed"]
            /\ UNCHANGED <<holder, queue>>
      /\ UNCHANGED <<open, tx>>

Holds(r, s) == at[r] = "held" /\ holder[s] = r

(* The first in the queue takes over.                                      *)
Release(r, s, place) ==
  LET c == By[r] IN
  IF queue[c] = <<>>
    THEN /\ holder' = [holder EXCEPT ![s] = None]
         /\ at' = [at EXCEPT ![r] = place]
         /\ UNCHANGED queue
    ELSE /\ holder' = [holder EXCEPT ![s] = Head(queue[c])]
         /\ queue' = [queue EXCEPT ![c] = Tail(@)]
         /\ at' = [at EXCEPT ![r] = place, ![Head(queue[c])] = "held"]

End(r, s, how) == /\ Release(r, s, "done")
                  /\ answer' = [answer EXCEPT ![r] = how]

MoveTo(r, next) == stage' = [stage EXCEPT ![r] = next]
-----------------------------------------------------------------------------
(* Requests.                                                               *)

Arrive(r) ==
  /\ at[r] = "idle"
  /\ at' = [at EXCEPT ![r] = "awaiting"]
  /\ expected' = [expected EXCEPT ![r] = {w \in Runs : answer[w] = "ok"}]
  /\ UNCHANGED <<boot, pool, data, stage, answer, seen>>

(* Mutant: the promise whose failure is handled is awaited, not the one    *)
(* that fails.                                                             *)
AdmitSettled(r) ==
  /\ at[r] = "awaiting" /\ start[By[r]] # "starting"
  /\ Acquire(r)
  /\ UNCHANGED <<boot, data, stage, expected, seen>>

(* await initialized.                                                      *)
Admit(r) ==
  /\ at[r] = "awaiting"
  /\ \/ start[By[r]] = "ready" /\ Acquire(r)
     \/ /\ start[By[r]] = "failed"
        /\ at' = [at EXCEPT ![r] = "done"]
        /\ answer' = [answer EXCEPT ![r] = "failed"]
        /\ UNCHANGED pool
  /\ UNCHANGED <<boot, data, stage, expected, seen>>

(* What a session has not committed becomes part of the database.          *)
Publish(W) == IF W \cap Deletes = {}
                THEN saved' = saved \cup W /\ UNCHANGED gone
                ELSE saved' = {} /\ gone' = TRUE

(* The end of a session's transaction, or of the session.                  *)
Clear(s) == /\ open' = [open EXCEPT ![s] = {}]
            /\ tx' = tx \ {s}

(* A statement inside a transaction that somebody else left open.          *)
MarkAdrift(r, s) == adrift' = IF s \in tx THEN adrift \cup {r} ELSE adrift

(* The foreign key locks the experiment: an INSERT waits for another       *)
(* session's DELETE, and a DELETE for both.                                *)
Blocked(r, s) == \E t \in Connections \ {s} :
                   \/ stage[r] = "write" /\ open[t] \cap Deletes # {}
                   \/ stage[r] = "delete" /\ open[t] # {}

(* beginTransaction: commits what the session had left open.               *)
Begin(r, s) ==
  /\ Holds(r, s) /\ stage[r] = "begin"
  /\ Publish(open[s])
  /\ open' = [open EXCEPT ![s] = {}]
  /\ tx' = tx \cup {s}
  /\ MoveTo(r, "write")
  /\ UNCHANGED <<boot, holder, queue, unsure, adrift, at, answer, expected, seen>>

(* INSERT: the foreign key refuses a run of a deleted experiment.          *)
Write(r, s) ==
  /\ Holds(r, s) /\ stage[r] = "write"
  /\ ~Blocked(r, s)
  /\ IF gone THEN MoveTo(r, "rollback") /\ UNCHANGED open
             ELSE /\ open' = [open EXCEPT ![s] = @ \cup {r}]
                  /\ MoveTo(r, "readback")
  /\ UNCHANGED <<boot, holder, queue, tx, data, at, answer, expected, seen>>

(* Mutant: the read-back takes a connection of its own from the pool.      *)
ReadBackOnPool(r, s) ==
  /\ Holds(r, s) /\ stage[r] = "readback"
  /\ \E t \in Of(By[r]) : holder[t] = None
  /\ MoveTo(r, "commit")
  /\ UNCHANGED <<boot, pool, data, at, answer, expected, seen>>

ReadBack(r, s) ==
  /\ Holds(r, s) /\ stage[r] = "readback"
  /\ MoveTo(r, "commit")
  /\ UNCHANGED <<boot, pool, data, at, answer, expected, seen>>

(* Mutant: the answer does not await the commit.                           *)
CommitUnawaited(r, s) ==
  /\ Holds(r, s) /\ stage[r] = "commit"
  /\ End(r, s, "ok")
  /\ UNCHANGED <<boot, open, tx, data, stage, expected, seen>>

Commit(r, s) ==
  /\ Holds(r, s) /\ stage[r] = "commit"
  /\ Publish(open[s])
  /\ Clear(s)
  /\ MoveTo(r, "committed")
  /\ UNCHANGED <<boot, holder, queue, unsure, adrift, at, answer, expected, seen>>

(* The server's OK to a COMMIT or a DELETE arrives.                        *)
Acknowledge(r, s) ==
  /\ Holds(r, s) /\ stage[r] \in {"committed", "deleted"}
  /\ End(r, s, "ok")
  /\ UNCHANGED <<boot, open, tx, data, stage, expected, seen>>

(* Mutant: the failed transaction is not rolled back.                      *)
ReleaseOnly(r, s) ==
  /\ Holds(r, s) /\ stage[r] = "rollback"
  /\ End(r, s, "failed")
  /\ UNCHANGED <<boot, open, tx, data, stage, expected, seen>>

(* catch: rollback; finally: release.                                      *)
Rollback(r, s) ==
  /\ Holds(r, s) /\ stage[r] = "rollback"
  /\ Clear(s)
  /\ End(r, s, "failed")
  /\ UNCHANGED <<boot, data, stage, expected, seen>>

(* The same, with the failure of the rollback ignored: the connection goes *)
(* back to the pool inside its transaction, if it still is in one.         *)
RefuseRollback(r, s) ==
  /\ Holds(r, s) /\ stage[r] = "rollback"
  /\ MarkAdrift(r, s)
  /\ End(r, s, "failed")
  /\ UNCHANGED <<boot, open, tx, saved, gone, unsure, stage, expected, seen>>

(* getExperiment: two statements, each with a connection of its own; only  *)
(* committed rows are read, but a transaction left open has its own writes *)
(* and the view of the database that it first took.                        *)
ReadExperiment(r, s) ==
  /\ Holds(r, s) /\ stage[r] = "first"
  /\ \/ /\ gone \/ open[s] \cap Deletes # {}
        /\ End(r, s, "refused")
        /\ UNCHANGED stage
     \/ /\ ~gone \/ s \in tx
        /\ Release(r, s, "again")
        /\ MoveTo(r, "second")
        /\ UNCHANGED answer
  /\ MarkAdrift(r, s)
  /\ UNCHANGED <<boot, open, tx, saved, gone, unsure, expected, seen>>

Again(r) == /\ at[r] = "again"
            /\ Acquire(r)
            /\ UNCHANGED <<boot, data, stage, expected, seen>>

ReadRuns(r, s) ==
  /\ Holds(r, s) /\ stage[r] = "second"
  /\ \E S \in SUBSET Runs : /\ s \in tx \/ S = saved
                            /\ seen' = [seen EXCEPT ![r] = S]
  /\ MarkAdrift(r, s)
  /\ End(r, s, "ok")
  /\ UNCHANGED <<boot, open, tx, saved, gone, unsure, stage, expected>>

Uncommitted == UNION {open[s] : s \in Connections}

(* DELETE: the runs go with their experiment.  It commits itself, unless   *)
(* it has come into a transaction left open.                               *)
Delete(r, s) ==
  /\ Holds(r, s) /\ stage[r] = "delete"
  /\ ~Blocked(r, s)
  /\ IF gone \/ open[s] \cap Deletes # {}
       THEN /\ End(r, s, "refused")
            /\ UNCHANGED <<open, saved, gone, stage>>
       ELSE /\ IF s \in tx THEN /\ open' = [open EXCEPT ![s] = @ \cup {r}]
                                /\ UNCHANGED <<saved, gone>>
                           ELSE Publish({r}) /\ UNCHANGED open
            /\ MoveTo(r, "deleted")
            /\ UNCHANGED <<holder, queue, at, answer>>
  /\ MarkAdrift(r, s)
  /\ UNCHANGED <<boot, tx, unsure, expected, seen>>
-----------------------------------------------------------------------------
(* Faults.                                                                 *)

Effective == {"committed", "deleted"}

(* A statement is refused.                                                 *)
StatementFault(r, s) ==
  /\ Holds(r, s) /\ stage[r] \notin Effective \cup {"rollback"}
  /\ IF r \in Runs
       THEN MoveTo(r, "rollback") /\ UNCHANGED <<holder, queue, at, answer>>
       ELSE End(r, s, "failed") /\ UNCHANGED stage
  /\ UNCHANGED <<boot, open, tx, data, expected, seen>>

(* innodb_lock_wait_timeout.                                               *)
TimeOutOnLock(r, s) == Blocked(r, s) /\ StatementFault(r, s)

(* The connection breaks: the server drops the transaction, if it was not  *)
(* told to commit; the pool replaces the connection.                       *)
Break(r, s) ==
  /\ Holds(r, s)
  /\ Clear(s)
  /\ unsure' = IF stage[r] \in Effective THEN unsure \cup {r} ELSE unsure
  /\ IF r \in Runs
       THEN MoveTo(r, "rollback") /\ UNCHANGED <<holder, queue, at, answer>>
       ELSE End(r, s, "failed") /\ UNCHANGED stage
  /\ UNCHANGED <<boot, saved, gone, adrift, expected, seen>>

(* A coordinator dies and is started again: "initialized" begins anew.     *)
Restart(c) ==
  LET cut == {r \in Requests : By[r] = c /\ at[r] \notin {"idle", "done"}} IN
  /\ restarts < MaxRestarts
  /\ restarts' = restarts + 1
  /\ start' = [start EXCEPT ![c] = "starting"]
  /\ step' = [step EXCEPT ![c] = 0]
  /\ missing' = [missing EXCEPT ![c] = FALSE]
  /\ holder' = [s \in Connections |-> IF s \in Of(c) THEN None ELSE holder[s]]
  /\ open' = [s \in Connections |-> IF s \in Of(c) THEN {} ELSE open[s]]
  /\ tx' = tx \ Of(c)
  /\ queue' = [queue EXCEPT ![c] = <<>>]
  /\ at' = [r \in Requests |-> IF r \in cut THEN "done" ELSE at[r]]
  /\ answer' = [r \in Requests |-> IF r \in cut THEN "lost" ELSE answer[r]]
  /\ unsure' = unsure \cup {r \in cut : stage[r] \in Effective}
  /\ UNCHANGED <<schema, saved, gone, adrift, stage, expected, seen>>
-----------------------------------------------------------------------------
Initialize(c) == ApplySchema(c) \/ LookFor(c) \/ Add(c)

Query(r, s) == \/ Begin(r, s) \/ Write(r, s) \/ ReadBack(r, s) \/ Commit(r, s)
               \/ Acknowledge(r, s) \/ Rollback(r, s) \/ ReadExperiment(r, s)
               \/ ReadRuns(r, s) \/ Delete(r, s) \/ TimeOutOnLock(r, s)

Serve(r) == Admit(r) \/ Again(r) \/ \E s \in Connections : Query(r, s)

Stopped == /\ UNCHANGED vars
           /\ \A r \in Requests : at[r] = "done"

Next == \/ \E c \in Coordinators : Initialize(c) \/ StartFault(c) \/ Restart(c)
        \/ \E r \in Requests : Arrive(r) \/ Serve(r)
        \/ \E r \in Requests, s \in Connections :
             StatementFault(r, s) \/ RefuseRollback(r, s) \/ Break(r, s)
        \/ Stopped

Spec == Init /\ [][Next]_vars

Progress == (\E c \in Coordinators : Initialize(c))
            \/ (\E r \in Requests : Serve(r))

(* The event loops and the server run: something that can go on does, and  *)
(* a wait for a lock times out.  No order is assumed; locks and            *)
(* connections are granted as they come back.                              *)
FairSpec == Spec /\ WF_vars(Progress)
-----------------------------------------------------------------------------
(* No statement of a request runs before the schema has every column and   *)
(* index the statements name, whoever added them and in whatever order two *)
(* starts interleave (await initialized in createMySqlDatabase).           *)
ServesMigrated == \A r \in Requests : at[r] = "held" => schema = Parts

(* A write whose request was answered with a failure, or lost with its     *)
(* coordinator, is not in the database, nor left in a session where a      *)
(* later transaction on the same connection would commit it.  Two          *)
(* exceptions, and no other: the COMMIT was carried out and its            *)
(* acknowledgement never arrived, or the ROLLBACK was refused and the      *)
(* session released inside its transaction (inTransaction).                *)
FailureLeavesNothing ==
  \A r \in Runs :
    answer[r] \in {"failed", "refused", "lost"} /\ r \notin unsure \cup adrift =>
      r \notin saved \cup Uncommitted

(* What getExperiment returns has every run that was answered as saved     *)
(* before it was asked, or, if the experiment was deleted between its two  *)
(* statements, no run at all; and no run in it was answered with a failure *)
(* but for the two exceptions.  A reader that came into a transaction left *)
(* open by a refused ROLLBACK is told of another time.                     *)
DetailsComplete ==
  \A r \in Requests : Op[r] = "details" /\ answer[r] = "ok" /\ r \notin adrift =>
    /\ expected[r] \subseteq seen[r] \/ (gone /\ seen[r] = {})
    /\ \A w \in seen[r] : answer[w] \in {"failed", "lost"} =>
                             w \in unsure \cup adrift

(* Every request is answered, so that again and again none is under way:   *)
(* no request waits for a connection while it holds one, and every         *)
(* connection that is taken comes back (finally in inTransaction).         *)
EveryRequestEnds ==
  []<>(\A r \in Requests : at[r] \in {"idle", "done"})
=============================================================================
