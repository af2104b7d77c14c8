------------------------------ MODULE RunAttempts ------------------------------
(***************************************************************************)
(* A coordinator that runs experiments through the gRPC runner             *)
(* (server/src/app.ts, runner-client.ts and database.ts; the .NET          *)
(* coordinator's ExperimentService, RunnerGateway and repositories do the  *)
(* same).  A request to run an experiment reads the experiment, looks for  *)
(* an earlier receipt under its idempotency key, calls the runner, and     *)
(* saves what it observed as an immutable receipt: four awaits, between    *)
(* which other requests run, experiments are deleted, runs are submitted   *)
(* for review, and the coordinator may die.                                *)
(*                                                                         *)
(* The runner is here only what ExecutionPromise says of it, which the     *)
(* ledger of RunnerLedger is shown to keep.                                *)
(***************************************************************************)
EXTENDS Naturals

CONSTANTS Experiments,  \* experiment IDs, never used twice (AUTOINCREMENT)
          Keys,         \* Idempotency-Key headers callers send
          Ids,          \* correlation IDs: a fresh UUID or the X-Request-Id a
                        \* caller chose, which may be another's, or a key
          Handlers,     \* requests to run an experiment
          LostAcks,     \* may a commit succeed although its reply is lost?
          NoKey         \* the header is missing

ASSUME AttemptsConstants == /\ NoKey \notin Keys
                            /\ LostAcks \in BOOLEAN

VARIABLES experiment, \* experiment -> "none", "stored" or "deleted"
          runs,       \* rows of experiment_runs
          lastRun,    \* the last row ID given out
          reviewed,   \* IDs of the runs submitted for review
          entry,      \* operation -> its entry in the runner's ledger
          told,       \* operation -> what the runner told the coordinator
          executed,   \* history: experiment and key -> executions begun for them
          sent,       \* handlers whose call may still reach the runner
          at,         \* handler -> where it stands
          ask,        \* handler -> the experiment, key and ID it was given
          observed,   \* handler -> gRPC status and outcome of its call
          answer      \* handler -> HTTP status and the run it carried

store  == <<experiment, runs, lastRun, reviewed>>
runner == <<entry, told, executed, sent>>
vars   == <<store, runner, at, ask, observed, answer>>
-----------------------------------------------------------------------------
(* Mutant: the key is left out of the identity.                            *)
OperationOfCorrelation(e, k, i) == <<e, i>>

(* namespace:experiment:key, or the correlation ID where there is no key.  *)
Operation(e, k, i) == <<e, IF k = NoKey THEN i ELSE k>>

Operations == Experiments \X (Keys \cup Ids)

NoEntry == [state |-> "ABSENT", fingerprint |-> "", outcome |-> ""]

(* An experiment never changes, so its ID stands for the request.          *)
Entry == [state : {"RUNNING", "INTERRUPTED"},
          fingerprint : Experiments, outcome : {""}]
         \cup [state : {"COMPLETED"}, fingerprint : Experiments,
               outcome : {"success", "downstream_error", "invalid_response"}]

Promise == INSTANCE ExecutionPromise WITH Fingerprints <- Experiments

Verdict == [kind : {"completed"}, fingerprint : Experiments,
            outcome : {"success", "downstream_error", "invalid_response"}]
           \cup [kind : {"aborted", "conflict"}, fingerprint : Experiments]

Outcomes == {"success", "downstream_error", "timeout", "invalid_response",
             "unreachable"}

Codes == {"OK", "DEADLINE_EXCEEDED", "UNAVAILABLE", "ABORTED",
          "ALREADY_EXISTS", "INTERNAL"}

Observation == [code : Codes, outcome : Outcomes]

Run == [id : Nat, experiment : Experiments, key : Keys \cup {NoKey},
        op : Operations, code : Codes, outcome : Outcomes]

NoRun == [id |-> 0]

Ask == [experiment : Experiments, key : Keys \cup {NoKey}, id : Ids]

NoObservation == [code |-> "OK", outcome |-> "timeout"]

NoAnswer == [status |-> 0, run |-> NoRun]

Places == {"idle", "looking", "calling", "saving", "answered", "lost"}

Settled(run) == run.outcome \notin {"timeout", "unreachable"}

(* The operation a handler's call is about.                                *)
Of(h) == Operation(ask[h].experiment, ask[h].key, ask[h].id)
-----------------------------------------------------------------------------
TypeOK == /\ experiment \in [Experiments -> {"none", "stored", "deleted"}]
          /\ runs \subseteq Run
          /\ lastRun \in Nat
          /\ reviewed \subseteq Nat
          /\ entry \in [Operations -> Entry \cup {NoEntry}]
          /\ told \in [Operations -> SUBSET Verdict]
          /\ executed \in [Experiments \X Keys -> Nat]
          /\ sent \subseteq Handlers
          /\ at \in [Handlers -> Places]
          /\ ask \in [Handlers -> Ask]
          /\ observed \in [Handlers -> Observation]
          /\ answer \in [Handlers -> [status : {0, 200, 201, 404, 409, 503},
                                      run : Run \cup {NoRun}]]

Init == /\ experiment = [e \in Experiments |-> "none"]
        /\ runs = {}
        /\ lastRun = 0
        /\ reviewed = {}
        /\ entry = [op \in Operations |-> NoEntry]
        /\ told = [op \in Operations |-> {}]
        /\ executed = [x \in Experiments \X Keys |-> 0]
        /\ sent = {}
        /\ at = [h \in Handlers |-> "idle"]
        /\ ask \in [Handlers -> Ask]
        /\ observed = [h \in Handlers |-> NoObservation]
        /\ answer = [h \in Handlers |-> NoAnswer]
-----------------------------------------------------------------------------
(* Other routes.                                                           *)

CreateExperiment(e) ==
  /\ experiment[e] = "none"
  /\ experiment' = [experiment EXCEPT ![e] = "stored"]
  /\ UNCHANGED <<runs, lastRun, reviewed, runner, at, ask, observed, answer>>

RunsOf(e) == {r \in runs : r.experiment = e}

(* Mutant: the review's foreign key cascades like the run's.               *)
DeleteCascades(e) ==
  /\ experiment[e] = "stored"
  /\ experiment' = [experiment EXCEPT ![e] = "deleted"]
  /\ runs' = runs \ RunsOf(e)
  /\ reviewed' = reviewed \ {r.id : r \in RunsOf(e)}
  /\ UNCHANGED <<lastRun, runner, at, ask, observed, answer>>

(* The runs go with their experiment, unless the review of one of them     *)
(* restricts the delete (409).                                             *)
DeleteExperiment(e) ==
  /\ experiment[e] = "stored"
  /\ \A r \in RunsOf(e) : r.id \notin reviewed
  /\ experiment' = [experiment EXCEPT ![e] = "deleted"]
  /\ runs' = runs \ RunsOf(e)
  /\ UNCHANGED <<lastRun, reviewed, runner, at, ask, observed, answer>>

(* createReview: one review to a run.                                      *)
Submit(r) ==
  /\ r.id \notin reviewed
  /\ reviewed' = reviewed \cup {r.id}
  /\ UNCHANGED <<experiment, runs, lastRun, runner, at, ask, observed, answer>>
-----------------------------------------------------------------------------
(* The handler of POST /api/experiments/:experimentId/runs.                *)

Reply(h, status, run) ==
  /\ at' = [at EXCEPT ![h] = "answered"]
  /\ answer' = [answer EXCEPT ![h] = [status |-> status, run |-> run]]

Call(h) == /\ at' = [at EXCEPT ![h] = "calling"]
           /\ sent' = sent \cup {h}

(* getExperiment: 404, or on to the receipts; a request without a key goes *)
(* on to the runner.                                                       *)
Load(h) ==
  /\ at[h] = "idle"
  /\ \/ /\ experiment[ask[h].experiment] # "stored"
        /\ Reply(h, 404, NoRun)
        /\ UNCHANGED sent
     \/ /\ experiment[ask[h].experiment] = "stored"
        /\ ask[h].key # NoKey
        /\ at' = [at EXCEPT ![h] = "looking"]
        /\ UNCHANGED <<sent, answer>>
     \/ /\ experiment[ask[h].experiment] = "stored"
        /\ ask[h].key = NoKey
        /\ Call(h)
        /\ UNCHANGED answer
  /\ UNCHANGED <<store, entry, told, executed, ask, observed>>

(* Mutant: the receipts are looked up by their key alone.                  *)
UnderKeyAlone(a) == {r \in runs : r.key = a.key}

UnderKey(a) == {r \in runs : r.experiment = a.experiment /\ r.key = a.key}

(* ... ORDER BY id DESC LIMIT 1, if it is settled.                         *)
Replayed(R) == {r \in R : Settled(r) /\ \A s \in R : s.id <= r.id}

(* findRunByKey: a settled receipt is replayed, anything else goes on to   *)
(* the runner.                                                             *)
LookUp(h) ==
  /\ at[h] = "looking"
  /\ \/ \E r \in Replayed(UnderKey(ask[h])) : /\ Reply(h, 200, r)
                                            /\ UNCHANGED sent
     \/ /\ Replayed(UnderKey(ask[h])) = {}
        /\ Call(h)
        /\ UNCHANGED answer
  /\ UNCHANGED <<store, entry, told, executed, ask, observed>>

(* Mutant: a call that was answered is a success, whatever it says.        *)
ClassifyByStatus(code, outcome) ==
  CASE code = "OK"                -> "success"
    [] code = "DEADLINE_EXCEEDED" -> "timeout"
    [] code = "UNAVAILABLE"       -> "unreachable"
    [] OTHER                      -> "downstream_error"

(* execute() of the runner client: what it makes of status and outcome.    *)
Classify(code, outcome) ==
  CASE code = "OK"                -> outcome
    [] code = "DEADLINE_EXCEEDED" -> "timeout"
    [] code = "UNAVAILABLE"       -> "unreachable"
    [] OTHER                      -> "downstream_error"

Observe(h, code, outcome) ==
  /\ at[h] = "calling"
  /\ at' = [at EXCEPT ![h] = "saving"]
  /\ observed' = [observed EXCEPT ![h] =
                    [code |-> code, outcome |-> Classify(code, outcome)]]
  /\ UNCHANGED <<store, entry, executed, ask, answer>>

(* Mutant: the call has no deadline.                                       *)
NeverExpires(h) == /\ FALSE
                   /\ Observe(h, "DEADLINE_EXCEEDED", "")
                   /\ UNCHANGED <<told, sent>>

(* The deadline passes; the call may yet reach the runner.                 *)
Expire(h) == /\ Observe(h, "DEADLINE_EXCEEDED", "")
             /\ UNCHANGED <<told, sent>>

(* The runner cannot be reached, or dies before it answers.                *)
LoseRunner(h) == /\ Observe(h, "UNAVAILABLE", "")
                 /\ sent' = sent \ {h}
                 /\ UNCHANGED told

(* createRun inserts and reads back in one transaction.  An experiment     *)
(* deleted in the meantime fails the foreign key (409).                    *)
RowOf(h) == [id |-> lastRun + 1, experiment |-> ask[h].experiment,
             key |-> ask[h].key, op |-> Of(h),
             code |-> observed[h].code, outcome |-> observed[h].outcome]

Insert(h) == /\ lastRun' = lastRun + 1
             /\ runs' = runs \cup {RowOf(h)}
             /\ UNCHANGED <<experiment, reviewed>>

Save(h) ==
  /\ at[h] = "saving"
  /\ IF experiment[ask[h].experiment] = "stored"
       THEN Insert(h) /\ Reply(h, 201, RowOf(h))
       ELSE UNCHANGED store /\ Reply(h, 409, NoRun)
  /\ UNCHANGED <<runner, ask, observed>>

(* A database call fails: 503.  The transaction is rolled back, unless the *)
(* connection is lost while the commit is being acknowledged.              *)
DatabaseFault(h) ==
  /\ at[h] \in {"idle", "looking", "saving"}
  /\ Reply(h, 503, NoRun)
  /\ \/ UNCHANGED store
     \/ /\ LostAcks
        /\ at[h] = "saving"
        /\ experiment[ask[h].experiment] = "stored"
        /\ Insert(h)
  /\ UNCHANGED <<runner, ask, observed>>

(* The coordinator dies: its requests are lost, their calls may arrive.    *)
Crash ==
  /\ \E h \in Handlers : at[h] \in {"looking", "calling", "saving"}
  /\ at' = [h \in Handlers |->
              IF at[h] \in {"looking", "calling", "saving"} THEN "lost" ELSE at[h]]
  /\ UNCHANGED <<store, runner, ask, observed, answer>>
-----------------------------------------------------------------------------
(* The runner.                                                             *)

(* What the execution of an experiment comes to, by its behavior.          *)
Results == {"success", "downstream_error", "invalid_response"}

MovesTo(op, e) ==
  /\ e # entry[op]
  /\ Promise!Evolves(entry[op], e)
  /\ \A v \in told[op] : Promise!Upheld(v, e)
  /\ entry' = [entry EXCEPT ![op] = e]

(* A call reaches the runner and finds no entry: it becomes one, for work  *)
(* that takes time or that is done at once.                                *)
Accept(h) ==
  /\ h \in sent
  /\ entry[Of(h)] = NoEntry
  /\ \E e \in Entry : /\ e.fingerprint = ask[h].experiment
                      /\ MovesTo(Of(h), e)
  /\ executed' = [x \in DOMAIN executed |->
                    IF x = <<ask[h].experiment, ask[h].key>>
                      THEN executed[x] + 1 ELSE executed[x]]
  /\ UNCHANGED <<store, told, sent, at, ask, observed, answer>>

(* Work ends, or a restart interrupts it.                                  *)
Progress(op) ==
  /\ entry[op].state = "RUNNING"
  /\ \E e \in Entry : MovesTo(op, e)
  /\ UNCHANGED <<store, told, executed, sent, at, ask, observed, answer>>

Tell(h, verdict) ==
  /\ Promise!Upheld(verdict, entry[Of(h)])
  /\ told' = [told EXCEPT ![Of(h)] = @ \cup {verdict}]
  /\ sent' = sent \ {h}

(* The runner answers a call: with the completed execution, with ABORTED   *)
(* for one that nothing works on, with ALREADY_EXISTS for one of another   *)
(* request, or with INTERNAL.                                              *)
Respond(h) ==
  LET own == entry[Of(h)].fingerprint = ask[h].experiment IN
  /\ h \in sent
  /\ \/ \E o \in Results :
          /\ own
          /\ Observe(h, "OK", o)
          /\ Tell(h, [kind |-> "completed", outcome |-> o,
                      fingerprint |-> ask[h].experiment])
     \/ \E refusal \in {"aborted", "conflict"} :
          /\ refusal = "aborted" => own
          /\ Observe(h, IF own THEN "ABORTED" ELSE "ALREADY_EXISTS", "")
          /\ Tell(h, [kind |-> refusal, fingerprint |-> ask[h].experiment])
     \/ /\ Observe(h, "INTERNAL", "")
        /\ sent' = sent \ {h}
        /\ UNCHANGED told
-----------------------------------------------------------------------------
Step(h) == \/ Load(h) \/ LookUp(h) \/ Save(h) \/ DatabaseFault(h)

Next == \/ \E e \in Experiments : CreateExperiment(e) \/ DeleteExperiment(e)
        \/ \E r \in runs : Submit(r)
        \/ \E h \in Handlers : \/ Step(h) \/ Expire(h) \/ LoseRunner(h)
                              \/ Accept(h) \/ Respond(h)
        \/ \E op \in Operations : Progress(op)
        \/ Crash

Spec == Init /\ [][Next]_vars

(* The database answers every call, well or badly, and deadlines pass.     *)
(* Nothing is asked of the runner.                                         *)
Fairness == \A h \in Handlers : /\ WF_vars(Step(h))
                                /\ WF_vars(Expire(h))

FairSpec == Spec /\ Fairness
-----------------------------------------------------------------------------
(* Receipts speak of the operation of their own experiment and key: a      *)
(* completion names the outcome the runner's ledger holds for it, and an   *)
(* operation that a receipt calls aborted is completed for no one.  What a *)
(* receipt says stays true while retries, restarts of the runner and late  *)
(* completions go on (runner-client.ts execute).                           *)
ReceiptsMatchLedger ==
  \A r \in runs :
    LET e == entry[r.op] IN
    /\ r.code = "OK" => /\ e.state = "COMPLETED"
                        /\ e.fingerprint = r.experiment
                        /\ e.outcome = r.outcome
    /\ r.code = "ABORTED" => e.state \in {"RUNNING", "INTERRUPTED"}

(* However often a key is sent, by concurrent callers, after timeouts and  *)
(* after crashes of the coordinator, at most one execution is begun for it *)
(* and its experiment, whatever operation IDs the calls carry; and all the *)
(* receipts under it tell one story: one result, and none where one of     *)
(* them says that the execution was aborted (app.ts POST runs).            *)
KeyRunsOnce ==
  /\ \A x \in Experiments \X Keys : executed[x] <= 1
  /\ \A r, s \in runs :
       /\ r.key # NoKey
       /\ r.key = s.key
       /\ r.experiment = s.experiment
       /\ r.code = "OK"
       /\ s.code \in {"OK", "ABORTED"}
       => s.code = "OK" /\ s.outcome = r.outcome

(* The coordinator never asks for two different things under one operation *)
(* ID, so the runner never answers ALREADY_EXISTS.                         *)
NoConflicts ==
  \A op \in Operations : \A v \in told[op] : v.kind # "conflict"

(* Every run belongs to a stored experiment and every review to a run,     *)
(* whatever deletes, submissions and late results come in between.         *)
NoOrphans == /\ \A r \in runs : experiment[r.experiment] = "stored"
             /\ reviewed \subseteq {r.id : r \in runs}

(* A submitted run is never lost or rewritten, and no run is without its   *)
(* experiment being deleted; a result that comes back to an experiment     *)
(* that is gone leaves no run behind (createRun, deleteExperiment).        *)
EvidenceKept ==
  [][/\ \A r \in runs : \/ r \in runs'
                        \/ /\ r.id \notin reviewed
                           /\ experiment'[r.experiment] = "deleted"
     /\ \A r \in runs' : experiment'[r.experiment] = "stored"]_vars

(* A run that an answer carried is stored, until its experiment is deleted *)
(* (the handler of POST /runs answers after createRun).                    *)
AnswerStands(h) ==
  answer[h].status \in {200, 201} => \/ answer[h].run \in runs
                                     \/ experiment[ask[h].experiment] = "deleted"

(* A replayed receipt is settled, and of the caller's own experiment and   *)
(* key: another experiment may use the same key.                           *)
ReplayIsOwn(h) ==
  answer[h].status = 200 => /\ Settled(answer[h].run)
                            /\ answer[h].run.experiment = ask[h].experiment
                            /\ answer[h].run.key = ask[h].key

(* What a caller was answered stays so, through every later delete, retry, *)
(* crash and lost acknowledgement.                                         *)
AnswersHold == \A h \in Handlers : AnswerStands(h) /\ ReplayIsOwn(h)

(* What README.md and GRPC_RUNNER.md say: a key with a settled receipt is  *)
(* replayed, and the runner is not called again.                           *)
SettledReceiptReplayed ==
  [][\A h \in Handlers :
       (at[h] = "looking" /\ at'[h] = "calling") =>
          \A r \in UnderKey(ask[h]) : ~Settled(r)]_vars

(* Every request is answered while the coordinator lives, whatever the     *)
(* runner does.                                                            *)
EveryRequestAnswered ==
  \A h \in Handlers : <>(at[h] \in {"answered", "lost"})
=============================================================================
