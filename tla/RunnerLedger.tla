----------------------------- MODULE RunnerLedger -----------------------------
(***************************************************************************)
(* The gRPC runner (runner/src/app.ts and the execution table of           *)
(* runner/src/store.ts): a durable ledger with one row per operation ID,   *)
(* a map of executions in progress that lives only in the process, a       *)
(* closing flag, and the calls of the coordinators.  The ledger survives   *)
(* a crash; the map does not.                                              *)
(*                                                                         *)
(* Node runs one callback at a time, so a handler is one step up to its    *)
(* first await.  Only "slow" work awaits a timer; every other behavior     *)
(* inserts and completes its row in the same callback, where only a crash  *)
(* of the process can come between the two transactions.                   *)
(***************************************************************************)
EXTENDS Naturals

CONSTANTS Operations,      \* operation IDs
          Payloads,        \* JSON objects, up to the order of their keys
          Spellings,       \* the ways to write a payload down
          Requests,        \* execution requests that may arrive
          Calls,           \* gRPC calls, each of them made at most once
          FaultyOperations,\* operations whose database calls may fail
          MaxStarts        \* bound: how often the runner process is started

Behaviors == {"healthy", "slow", "unavailable", "malformed"}

Outcomes == {"success", "downstream_error", "invalid_response"}

(* A wire request; "invalid" stands for every field the schema refuses.    *)
WireRequest == [behavior : Behaviors \cup {"invalid"},
                payload  : Payloads \cup {"not an object"},
                spelling : Spellings]

ASSUME ConstantsOK == /\ Requests \subseteq WireRequest
                      /\ Requests # {}
                      /\ Operations # {}
                      /\ FaultyOperations \subseteq Operations
                      /\ MaxStarts \in Nat

VARIABLES ledger,    \* operation -> row of the executions table
          pending,   \* operations with an execution in progress (the Map)
          runner,    \* the process: "down", "up" or "closing"
          draining,  \* executions that close() waits for
          asked,     \* call -> what it asks for
          phase,     \* call -> "unused", "sent", "waiting" or "answered"
          reply,     \* call -> gRPC status and the row it carried
          expired,   \* calls whose deadline has passed at the caller
          runs,      \* history: how often work was begun for an operation
          starts     \* how often the process was started (bounded)

durable == <<ledger, runs>>
process == <<pending, runner, draining, starts>>
vars    == <<ledger, pending, runner, draining, asked, phase, reply, expired,
             runs, starts>>
-----------------------------------------------------------------------------
(* Data.                                                                   *)

(* The row that is not there: find returns undefined.                      *)
NoRow == [state |-> "ABSENT", fingerprint |-> "", outcome |-> ""]

(* Mutant: hashes the payload as it was spelled.                           *)
FingerprintOfSpelling(r) == <<r.behavior, r.payload, r.spelling>>

(* canonical() sorts the keys of every object, so the fingerprint forgets  *)
(* how the payload was spelled; it covers the behavior and the reference.  *)
Fingerprint(r) == <<r.behavior, r.payload>>

Fingerprints == {Fingerprint(r) : r \in Requests}

Row == [state : {"RUNNING", "COMPLETED", "INTERRUPTED"},
        fingerprint : Fingerprints, outcome : Outcomes \cup {""}]

Statuses == {"OK", "INVALID_ARGUMENT", "ALREADY_EXISTS", "ABORTED",
             "NOT_FOUND", "INTERNAL", "UNAVAILABLE"}

Question == [kind : {"execute", "get"}, op : Operations, request : Requests]

NoQuestion == CHOOSE q \in Question : TRUE

Reply == [status : Statuses \cup {"none"}, row : Row \cup {NoRow}]

NoReply == [status |-> "none", row |-> NoRow]

Valid(r) == /\ r.behavior \in Behaviors
            /\ r.payload \in Payloads

Outcome(behavior) ==
  CASE behavior = "unavailable" -> "downstream_error"
    [] behavior = "malformed"   -> "invalid_response"
    [] OTHER                    -> "success"

(* INSERT ... 'RUNNING', and UPDATE ... WHERE state = 'RUNNING'.           *)
Started(r) ==
  [state |-> "RUNNING", fingerprint |-> Fingerprint(r), outcome |-> ""]

Completed(row) ==
  IF row.state = "RUNNING"
    THEN [row EXCEPT !.state = "COMPLETED", !.outcome = Outcome(row.fingerprint[1])]
    ELSE row

(* Mutants of the recovery: it is left out; it deletes the unfinished row; *)
(* it also rewrites settled rows.                                          *)
NoRecovery(row) == row
RecoveryForgets(row) == IF row.state = "RUNNING" THEN NoRow ELSE row
RecoveryRewrites(row) ==
  IF row.state # "ABSENT" THEN [row EXCEPT !.state = "INTERRUPTED"] ELSE row

(* Startup recovery: UPDATE ... 'INTERRUPTED' WHERE state = 'RUNNING'.     *)
Recovered(row) ==
  IF row.state = "RUNNING" THEN [row EXCEPT !.state = "INTERRUPTED"] ELSE row
-----------------------------------------------------------------------------
TypeOK == /\ ledger \in [Operations -> Row \cup {NoRow}]
          /\ pending \subseteq Operations
          /\ runner \in {"down", "up", "closing"}
          /\ draining \subseteq Operations
          /\ asked \in [Calls -> Question]
          /\ phase \in [Calls -> {"unused", "sent", "waiting", "answered"}]
          /\ reply \in [Calls -> Reply]
          /\ expired \subseteq Calls
          /\ runs \in [Operations -> Nat]
          /\ starts \in 0..MaxStarts

Init == /\ ledger = [op \in Operations |-> NoRow]
        /\ pending = {}
        /\ runner = "down"
        /\ draining = {}
        /\ asked = [c \in Calls |-> NoQuestion]
        /\ phase = [c \in Calls |-> "unused"]
        /\ reply = [c \in Calls |-> NoReply]
        /\ expired = {}
        /\ runs = [op \in Operations |-> 0]
        /\ starts = 0
-----------------------------------------------------------------------------
(* Callers.                                                                *)

(* A call is sent; what request a GetExecution carries is immaterial.      *)
Send(c, q) ==
  /\ phase[c] = "unused"
  /\ q.kind = "get" => q.request = NoQuestion.request
  /\ phase' = [phase EXCEPT ![c] = "sent"]
  /\ asked' = [asked EXCEPT ![c] = q]
  /\ UNCHANGED <<durable, process, reply, expired>>

(* The deadline passes: the caller stops waiting, the runner does not.  (A *)
(* call that expires in transit is to the runner like one that expires as  *)
(* soon as it waits.)                                                      *)
Expire(c) ==
  /\ phase[c] = "waiting"
  /\ c \notin expired
  /\ expired' = expired \cup {c}
  /\ UNCHANGED <<durable, process, asked, phase, reply>>

(* The transport finds no runner to deliver the call to.                   *)
Unreachable(c) ==
  /\ runner = "down"
  /\ phase[c] = "sent"
  /\ phase' = [phase EXCEPT ![c] = "answered"]
  /\ reply' = [reply EXCEPT ![c] = [status |-> "UNAVAILABLE", row |-> NoRow]]
  /\ UNCHANGED <<durable, process, asked, expired>>
-----------------------------------------------------------------------------
(* Handlers.                                                               *)

Answer(c, status, row) ==
  /\ phase' = [phase EXCEPT ![c] = "answered"]
  /\ reply' = [reply EXCEPT ![c] = [status |-> status, row |-> row]]

Handles(c, kind) == runner = "up" /\ phase[c] = "sent" /\ asked[c].kind = kind

(* Both handlers answer UNAVAILABLE once close() has begun.                *)
RefuseWhileClosing(c) ==
  /\ runner = "closing"
  /\ phase[c] = "sent"
  /\ Answer(c, "UNAVAILABLE", NoRow)
  /\ UNCHANGED <<durable, process, asked, expired>>

GetExecution(c) ==
  /\ Handles(c, "get")
  /\ LET op == asked[c].op IN
     \/ /\ ledger[op] # NoRow
        /\ Answer(c, "OK", ledger[op])
     \/ /\ ledger[op] = NoRow
        /\ Answer(c, "NOT_FOUND", NoRow)
     \/ /\ op \in FaultyOperations
        /\ Answer(c, "INTERNAL", NoRow)
  /\ UNCHANGED <<durable, process, asked, expired>>

RefuseInvalid(c) ==
  /\ Handles(c, "execute")
  /\ ~Valid(asked[c].request)
  /\ Answer(c, "INVALID_ARGUMENT", NoRow)
  /\ UNCHANGED <<durable, process, asked, expired>>

(* pending.get: the execution goes on in this process.                     *)
InProgress(op) == op \in pending

(* The row exists: the answer depends on its fingerprint and its state,    *)
(* and a caller joins the execution in progress if there is one.           *)
FindExisting(c) ==
  /\ Handles(c, "execute")
  /\ LET op  == asked[c].op
         r   == asked[c].request
         row == ledger[op]
     IN /\ Valid(r)
        /\ row # NoRow
        /\ \/ /\ row.fingerprint # Fingerprint(r)
              /\ Answer(c, "ALREADY_EXISTS", NoRow)
           \/ /\ row.fingerprint = Fingerprint(r)
              /\ row.state = "INTERRUPTED"
              /\ Answer(c, "ABORTED", NoRow)
           \/ /\ row.fingerprint = Fingerprint(r)
              /\ row.state # "INTERRUPTED"
              /\ InProgress(op)
              /\ phase' = [phase EXCEPT ![c] = "waiting"]
              /\ UNCHANGED reply
           \/ /\ row.fingerprint = Fingerprint(r)
              /\ row.state = "COMPLETED"
              /\ ~InProgress(op)
              /\ Answer(c, "OK", row)
           \/ /\ row.fingerprint = Fingerprint(r)
              /\ row.state = "RUNNING"
              /\ ~InProgress(op)
              /\ Answer(c, "ABORTED", NoRow)
  /\ UNCHANGED <<durable, process, asked, expired>>

(* A call that may begin an execution: valid, and find returned nothing.   *)
MayBegin(c) == /\ Handles(c, "execute")
               /\ Valid(asked[c].request)
               /\ ledger[asked[c].op] = NoRow

Begin(op, row) ==
  /\ ledger' = [ledger EXCEPT ![op] = row]
  /\ runs'   = [runs EXCEPT ![op] = @ + 1]

(* Slow work: the row is durable before the wait, the caller waits.        *)
BeginSlow(c) ==
  /\ MayBegin(c)
  /\ asked[c].request.behavior = "slow"
  /\ Begin(asked[c].op, Started(asked[c].request))
  /\ pending' = pending \cup {asked[c].op}
  /\ phase' = [phase EXCEPT ![c] = "waiting"]
  /\ UNCHANGED <<runner, draining, starts, asked, reply, expired>>

(* Any other behavior: inserted, completed and answered in one callback.   *)
BeginFast(c) ==
  /\ MayBegin(c)
  /\ asked[c].request.behavior # "slow"
  /\ LET row == Completed(Started(asked[c].request))
     IN /\ Begin(asked[c].op, row)
        /\ Answer(c, "OK", row)
  /\ UNCHANGED <<process, asked, expired>>

(* A database call of executeRun fails: find or the INSERT (no row), the   *)
(* read back after the INSERT (a row that nothing works on), the UPDATE    *)
(* (the same row, after the work), or the read back after the UPDATE.      *)
ExecuteFault(c) ==
  /\ Handles(c, "execute")
  /\ Valid(asked[c].request)
  /\ asked[c].op \in FaultyOperations
  /\ Answer(c, "INTERNAL", NoRow)
  /\ LET op == asked[c].op
         r  == asked[c].request
     IN \/ UNCHANGED durable
        \/ /\ ledger[op] = NoRow
           /\ ledger' = [ledger EXCEPT ![op] = Started(r)]
           /\ UNCHANGED runs
        \/ /\ ledger[op] = NoRow
           /\ r.behavior # "slow"
           /\ \E row \in {Started(r), Completed(Started(r))} : Begin(op, row)
  /\ UNCHANGED <<process, asked, expired>>

(* The process is gone, its memory with it; the calls in C lose their      *)
(* connection.                                                             *)
LoseProcess(C) ==
  /\ runner' = "down"
  /\ pending' = {}
  /\ draining' = {}
  /\ phase' = [c \in Calls |-> IF c \in C THEN "answered" ELSE phase[c]]
  /\ reply' = [c \in Calls |-> IF c \in C
                                 THEN [status |-> "UNAVAILABLE", row |-> NoRow]
                                 ELSE reply[c]]
  /\ UNCHANGED <<asked, expired, starts>>

OpenCalls == {c \in Calls : phase[c] = "waiting"}

(* The process dies between the INSERT and the UPDATE of fast work.        *)
CrashMidway(c) ==
  /\ MayBegin(c)
  /\ asked[c].request.behavior # "slow"
  /\ Begin(asked[c].op, Started(asked[c].request))
  /\ LoseProcess(OpenCalls \cup {c})
-----------------------------------------------------------------------------
(* Work in progress.                                                       *)

(* Mutant: one caller is answered, those who joined it are forgotten.      *)
WaitingOnlyOne(op) ==
  LET all == {c \in Calls : phase[c] = "waiting" /\ asked[c].op = op}
  IN IF all = {} THEN {} ELSE {CHOOSE c \in all : TRUE}

(* The callers that await the execution of op.                             *)
Waiting(op) == {c \in Calls : phase[c] = "waiting" /\ asked[c].op = op}

(* The promise of the execution settles: everyone who awaits it gets the   *)
(* same answer and the entry leaves the map.                               *)
Settle(op, status, row) ==
  /\ pending' = pending \ {op}
  /\ phase' = [c \in Calls |-> IF c \in Waiting(op) THEN "answered" ELSE phase[c]]
  /\ reply' = [c \in Calls |-> IF c \in Waiting(op)
                                 THEN [status |-> status, row |-> row]
                                 ELSE reply[c]]

(* The timer of slow work fires and store.complete commits; or one of its  *)
(* two database calls fails and every waiting caller hears INTERNAL.       *)
Finish(op) ==
  /\ op \in pending
  /\ \/ /\ ledger' = [ledger EXCEPT ![op] = Completed(@)]
        /\ Settle(op, "OK", Completed(ledger[op]))
     \/ /\ op \in FaultyOperations
        /\ ledger' = [ledger EXCEPT ![op] = Completed(@)]
        /\ Settle(op, "INTERNAL", NoRow)
     \/ /\ op \in FaultyOperations
        /\ Settle(op, "INTERNAL", NoRow)
        /\ UNCHANGED ledger
  /\ UNCHANGED <<runner, draining, starts, asked, expired, runs>>
-----------------------------------------------------------------------------
(* The process.                                                            *)

(* openExecutionStore recovers the rows before the server binds.  The      *)
(* ownership lease that makes this safe is the subject of LedgerLease.     *)
Start ==
  /\ runner = "down"
  /\ starts < MaxStarts
  /\ starts' = starts + 1
  /\ runner' = "up"
  /\ ledger' = [op \in Operations |-> Recovered(ledger[op])]
  /\ UNCHANGED <<pending, draining, asked, phase, reply, expired, runs>>

(* The process is killed at any moment.                                    *)
Crash ==
  /\ runner # "down"
  /\ LoseProcess(OpenCalls)
  /\ UNCHANGED durable

(* Mutant: close() does not wait for the executions in the map.            *)
CloseWithoutDraining ==
  /\ runner = "up"
  /\ runner' = "closing"
  /\ draining' = {}
  /\ UNCHANGED <<durable, pending, asked, phase, reply, expired, starts>>

(* close(): refuse new calls, and wait for the executions in the map now.  *)
Close ==
  /\ runner = "up"
  /\ runner' = "closing"
  /\ draining' = pending
  /\ UNCHANGED <<durable, pending, asked, phase, reply, expired, starts>>

(* ... then for the calls that are still open (tryShutdown), and close the *)
(* database.  A call whose caller gave up holds nothing open.              *)
Shutdown ==
  /\ runner = "closing"
  /\ draining \cap pending = {}
  /\ OpenCalls \subseteq expired
  /\ LoseProcess(OpenCalls)
  /\ UNCHANGED durable
-----------------------------------------------------------------------------
ExecuteRun(c) == \/ RefuseInvalid(c) \/ FindExisting(c)
                 \/ BeginSlow(c)     \/ BeginFast(c)

Respond(c) == \/ RefuseWhileClosing(c) \/ Unreachable(c)
              \/ GetExecution(c)       \/ ExecuteRun(c)

Next == \/ \E c \in Calls : \/ \E q \in Question : Send(c, q)
                            \/ Expire(c) \/ Respond(c)
                            \/ ExecuteFault(c) \/ CrashMidway(c)
        \/ \E op \in Operations : Finish(op)
        \/ Start \/ Crash \/ Close \/ Shutdown

Spec == Init /\ [][Next]_vars

(* The event loop serves every request that has arrived, timers fire, and  *)
(* a close that has begun goes on.  Nothing makes a caller call, and the   *)
(* supervisors never restart a runner.                                     *)
Fairness == /\ \A c \in Calls : WF_vars(Respond(c))
            /\ \A op \in Operations : WF_vars(Finish(op))
            /\ WF_vars(Shutdown)

FairSpec == Spec /\ Fairness
-----------------------------------------------------------------------------
(* Properties.                                                             *)

(* Work is begun at most once for an operation ID, whatever retries,       *)
(* crashes, restarts and database failures come (store.ts:76-77: "do not   *)
(* silently repeat work with uncertain side effects").                     *)
AtMostOneExecution == \A op \in Operations : runs[op] <= 1

(* A live runner has an execution in its map exactly for the rows that say *)
(* RUNNING, except where the database failed: no row claims work that      *)
(* nobody does, and no work goes on without a row.                         *)
RunningMeansWorking ==
  runner # "down" =>
     \A op \in Operations \ FaultyOperations :
        ledger[op].state = "RUNNING" <=> op \in pending

(* An executeRun success names the completed row of that very request, and *)
(* a GetExecution reply is the row, or the RUNNING row it once was.        *)
SuccessAgrees(c) ==
  LET row == ledger[asked[c].op] IN
  reply[c].status = "OK" =>
    /\ row.fingerprint = reply[c].row.fingerprint
    /\ row = reply[c].row \/ reply[c].row.state = "RUNNING"
    /\ asked[c].kind = "execute" =>
         /\ reply[c].row.state = "COMPLETED"
         /\ row.fingerprint = Fingerprint(asked[c].request)

(* A caller told ABORTED is told to start over under a new operation ID;   *)
(* the old operation never completes behind its back.                      *)
AbortIsFinal(c) ==
  reply[c].status = "ABORTED" =>
    ledger[asked[c].op].state \in {"RUNNING", "INTERRUPTED"}

(* ALREADY_EXISTS is answered only to a request that means something else  *)
(* than the recorded one: another spelling of the same payload never       *)
(* conflicts (GRPC_RUNNER.md, canonical payloads).                         *)
ConflictMeansDifferent(c) ==
  LET row == ledger[asked[c].op] IN
  reply[c].status = "ALREADY_EXISTS" =>
    /\ row # NoRow
    /\ \/ row.fingerprint[1] # asked[c].request.behavior
       \/ row.fingerprint[2] # asked[c].request.payload

(* The replies already given agree with the ledger now, after any number   *)
(* of other calls, crashes, restarts and database failures.                *)
RepliesAgree ==
  \A c \in Calls : SuccessAgrees(c) /\ AbortIsFinal(c) /\ ConflictMeansDifferent(c)

(* A graceful stop leaves no accepted job half done: when close() lets go  *)
(* of the database every row is settled, unless a database call failed.    *)
GracefulStopStrandsNothing ==
  [][Shutdown => \A op \in Operations \ FaultyOperations :
                    ledger'[op].state # "RUNNING"]_vars

(* Every call is answered in the end, even if the runner crashes or        *)
(* closes.                                                                 *)
EveryCallAnswered == \A c \in Calls : phase[c] = "sent" ~> phase[c] = "answered"
-----------------------------------------------------------------------------
(* The runner keeps the promise of ExecutionPromise.                       *)

Verdict(c) ==
  CASE reply[c].status = "OK" ->
         [kind |-> "completed", outcome |-> reply[c].row.outcome,
          fingerprint |-> reply[c].row.fingerprint]
    [] reply[c].status = "ABORTED" -> [kind |-> "aborted"]
    [] reply[c].status = "ALREADY_EXISTS" ->
         [kind |-> "conflict", fingerprint |-> Fingerprint(asked[c].request)]

Told(op) == {Verdict(c) : c \in {d \in Calls :
               /\ asked[d].op = op /\ asked[d].kind = "execute"
               /\ reply[d].status \in {"OK", "ABORTED", "ALREADY_EXISTS"}}}

Promise == INSTANCE ExecutionPromise
             WITH entry <- ledger, told <- [op \in Operations |-> Told(op)]

(* Every step of the runner is a step of the abstract ledger.              *)
KeepsPromise == Promise!Spec
=============================================================================
