----------------------------- MODULE DownstreamRpc -----------------------------
(***************************************************************************)
(* The direct path of the TypeScript coordinator (server/src/app.ts and    *)
(* downstream-rpc.ts, without a gRPC runner): a request to run an          *)
(* experiment becomes one JSON-RPC exchange with the downstream service    *)
(* (downstream/src/app.ts and server.ts) under a deadline, and what was    *)
(* observed is saved as a receipt.  A caller may repeat a request under    *)
(* its Idempotency-Key; the downstream keeps the promise of every keyed    *)
(* execution in memory, so a repetition joins the work that is under way.  *)
(*                                                                         *)
(* The downstream may stop, die and start again; the answer to another     *)
(* call, or a contradictory one, may arrive in place of the right one.     *)
(***************************************************************************)
EXTENDS Naturals

CONSTANTS Experiments, \* experiment IDs, never used twice
          Keys,        \* Idempotency-Key headers callers send
          Handlers,    \* requests to run an experiment, and their fresh UUIDs
          NoKey,       \* the header is missing
          Behavior,    \* experiment -> what the downstream is to do with it
          MaxLives     \* bound on the starts of the downstream process

(* "slow" is "healthy" with a longer wait before Finish.                   *)
Behaviors == {"healthy", "unavailable", "malformed"}

ASSUME DownstreamConstants == /\ NoKey \notin Keys
                              /\ Behavior \in [Experiments -> Behaviors]
                              /\ MaxLives \in Nat \ {0}

VARIABLES stored,     \* the experiments that are not deleted
          runs,       \* rows of experiment_runs
          lastRun,    \* the ID of the latest row
          downstream, \* "up", "closing" or "down"
          life,       \* which start of the downstream process this is
          replies,    \* <<experiment, key>> -> the promise in the map
          executions, \* history: what the downstream began to execute
          call,       \* handler -> where its exchange is
          body,       \* handler -> the reply it was given
          at,         \* handler -> where the coordinator stands
          ask,        \* handler -> the experiment and the key it was given
          observed,   \* handler -> what it will save
          status      \* handler -> HTTP status of its answer, 0 before it

store       == <<stored, runs, lastRun>>
coordinator == <<store, at, ask, observed, status>>
service     == <<downstream, life, replies, executions>>
vars        == <<coordinator, service, call, body>>
-----------------------------------------------------------------------------
Scopes == Experiments \X Keys

NoWork == [by |-> NoKey, life |-> 0]

Work == [by : Handlers, life : 1..MaxLives]

(* The two members a JSON-RPC reply is judged by, the envelope's ID, and   *)
(* for an accepted result whose it is.                                     *)
Reply == [result : {"none", "accepted", "other"}, error : BOOLEAN,
          experiment : Experiments, work : Work]

Absent  == [result |-> "absent"]
Pending == [result |-> "pending"]


Outcomes == {"success", "downstream_error", "timeout", "invalid_response",
             "unreachable"}

(* "faulty" is history: what was heard is not what the downstream said.    *)
Receipt == [outcome : Outcomes, work : Work \cup {NoWork}, faulty : BOOLEAN]

NoReceipt == [outcome |-> "timeout", work |-> NoWork, faulty |-> FALSE]

Run == [id : Nat, experiment : Experiments, key : Keys \cup {NoKey},
        outcome : Outcomes, work : Work \cup {NoWork}, faulty : BOOLEAN]

Settled(r) == r.outcome \notin {"timeout", "unreachable"}

(* execute: what the simulated dependency answers.                         *)
ReplyTo(e, work) ==
  [result |-> CASE Behavior[e] = "unavailable" -> "none"
                [] Behavior[e] = "malformed"   -> "other"
                [] Behavior[e] = "healthy"     -> "accepted",
   error |-> Behavior[e] = "unavailable", experiment |-> e, work |-> work]

(* classifyDownstreamRpcResponse: never both members, the right envelope,  *)
(* and for a result the right experiment.                                  *)
Classify(b, id, expected, e) ==
  CASE /\ b.result = "accepted" /\ ~b.error
       /\ id = expected /\ b.experiment = e -> "success"
    [] b.result = "none" /\ b.error /\ id = expected -> "downstream_error"
    [] OTHER -> "invalid_response"

(* Mutant: the key alone is the scope of a cached reply.                   *)
ScopeOfKey(h) == <<CHOOSE e \in Experiments : TRUE, ask[h].key>>

Scope(h) == <<ask[h].experiment, ask[h].key>>

Keyed(h) == ask[h].key # NoKey
-----------------------------------------------------------------------------
TypeOK ==
  /\ stored \subseteq Experiments
  /\ runs \subseteq Run
  /\ lastRun \in Nat
  /\ downstream \in {"up", "closing", "down"}
  /\ life \in 1..MaxLives
  /\ replies \in [Scopes -> Reply \cup {Absent, Pending}]
  /\ executions \subseteq [work : Work, experiment : Experiments,
                           key : Keys \cup {NoKey}]
  /\ call \in [Handlers -> {"none", "sent", "working", "waiting", "answered",
                            "lost"}]
  /\ body \in [Handlers -> Reply \cup {Absent}]
  /\ at \in [Handlers -> {"idle", "looking", "calling", "saving", "done"}]
  /\ ask \in [Handlers -> [experiment : Experiments, key : Keys \cup {NoKey}]]
  /\ observed \in [Handlers -> Receipt]
  /\ status \in [Handlers -> {0, 200, 201, 404, 409, 503}]

Init ==
  /\ stored = Experiments
  /\ runs = {}
  /\ lastRun = 0
  /\ downstream = "up"
  /\ life = 1
  /\ replies = [s \in Scopes |-> Absent]
  /\ executions = {}
  /\ call = [h \in Handlers |-> "none"]
  /\ body = [h \in Handlers |-> Absent]
  /\ at = [h \in Handlers |-> "idle"]
  /\ ask \in [Handlers -> [experiment : Experiments, key : Keys \cup {NoKey}]]
  /\ observed = [h \in Handlers |-> NoReceipt]
  /\ status = [h \in Handlers |-> 0]
-----------------------------------------------------------------------------
(* The coordinator.                                                        *)

Answer(h, code) == /\ at' = [at EXCEPT ![h] = "done"]
                   /\ status' = [status EXCEPT ![h] = code]
                   /\ observed' = [observed EXCEPT ![h] = NoReceipt]

(* The exchange is begun; the deadline runs from here.                     *)
Dial(h) == /\ at' = [at EXCEPT ![h] = "calling"]
           /\ call' = [call EXCEPT ![h] = "sent"]

(* The experiment is read; without a key the exchange follows at once.     *)
Load(h) ==
  /\ at[h] = "idle"
  /\ \/ /\ ask[h].experiment \notin stored
        /\ Answer(h, 404)
        /\ UNCHANGED call
     \/ /\ ask[h].experiment \in stored
        /\ Keyed(h)
        /\ at' = [at EXCEPT ![h] = "looking"]
        /\ UNCHANGED <<call, status, observed>>
     \/ /\ ask[h].experiment \in stored
        /\ ~Keyed(h)
        /\ Dial(h)
        /\ UNCHANGED <<status, observed>>
  /\ UNCHANGED <<store, ask, service, body>>

(* findRunByKey: the latest receipt under the key.                         *)
Earlier(h) == {r \in runs : /\ r.experiment = ask[h].experiment
                            /\ r.key = ask[h].key}

Latest(h) == {r \in Earlier(h) : \A s \in Earlier(h) : s.id <= r.id}

(* A settled receipt is replayed, an unsettled one is tried again.         *)
LookUp(h) ==
  /\ at[h] = "looking"
  /\ IF \E r \in Latest(h) : Settled(r)
       THEN Answer(h, 200) /\ UNCHANGED call
       ELSE Dial(h) /\ UNCHANGED <<status, observed>>
  /\ UNCHANGED <<store, ask, service, body>>

Observe(h, outcome, work, faulty) ==
  /\ at[h] = "calling"
  /\ at' = [at EXCEPT ![h] = "saving"]
  /\ observed' = [observed EXCEPT ![h] =
                    [outcome |-> outcome, work |-> work, faulty |-> faulty]]
  /\ UNCHANGED <<store, ask, status, service, call, body>>

(* A body arrived, carrying the ID of the exchange it answers.  An error   *)
(* with the right ID counts whatever the HTTP status was; nothing else     *)
(* survives a status that is not ok.                                       *)
Judge(h, b, id, ok, faulty) ==
  LET verdict == Classify(b, id, h, ask[h].experiment)
      outcome == IF verdict = "downstream_error" \/ ok
                   THEN verdict ELSE "downstream_error"
      work == IF outcome = "success" THEN b.work ELSE NoWork
  IN  Observe(h, outcome, work, faulty)

Hear(h) == call[h] = "answered" /\ Judge(h, body[h], h, TRUE, FALSE)

(* A faulty intermediary: the answer to another exchange, an answer that   *)
(* carries both members, or a right body with a failed HTTP status.        *)
Mishear(h) ==
  \/ \E g \in Handlers \ {h} :
       call[g] = "answered" /\ Judge(h, body[g], g, TRUE, TRUE)
  \/ /\ call[h] = "answered"
     /\ Judge(h, [body[h] EXCEPT !.result = "accepted", !.error = TRUE], h,
              TRUE, TRUE)
  \/ call[h] = "answered" /\ Judge(h, body[h], h, FALSE, TRUE)

(* fetch, or the reading of the body, rejects: nobody listens, or the      *)
(* connection broke before, during or after the work, of which the service *)
(* need not notice anything.                                               *)
Lose(h) == Observe(h, "unreachable", NoWork, FALSE)

(* AbortSignal.timeout: whatever the exchange was doing.                   *)
Expire(h) == Observe(h, "timeout", NoWork, FALSE)

RowOf(h) == [id |-> lastRun + 1, experiment |-> ask[h].experiment,
             key |-> ask[h].key, outcome |-> observed[h].outcome,
             work |-> observed[h].work, faulty |-> observed[h].faulty]

(* createRun: the foreign key refuses a receipt of a deleted experiment.   *)
Save(h) ==
  /\ at[h] = "saving"
  /\ IF ask[h].experiment \in stored
       THEN /\ runs' = runs \cup {RowOf(h)}
            /\ lastRun' = lastRun + 1
            /\ Answer(h, 201)
       ELSE Answer(h, 409) /\ UNCHANGED <<runs, lastRun>>
  /\ UNCHANGED <<stored, ask, service, call, body>>

(* A statement fails: never reclassified as a failure of the dependency.   *)
DatabaseFault(h) ==
  /\ at[h] \in {"idle", "looking", "saving"}
  /\ Answer(h, 503)
  /\ UNCHANGED <<store, ask, service, call, body>>

DeleteExperiment(e) ==
  /\ e \in stored
  /\ stored' = stored \ {e}
  /\ runs' = {r \in runs : r.experiment # e}
  /\ UNCHANGED <<lastRun, at, ask, observed, status, service, call, body>>
-----------------------------------------------------------------------------
(* The downstream service.                                                 *)

Begin(h) == executions' = executions \cup
  {[work |-> [by |-> h, life |-> life], experiment |-> ask[h].experiment,
    key |-> ask[h].key]}

(* Mutant: the map is written when the work is done, not when it begins.   *)
ReceiveUnregistered(h) ==
  /\ call[h] = "sent"
  /\ downstream # "down"
  /\ IF Keyed(h) /\ replies[Scope(h)] # Absent
       THEN /\ call' = [call EXCEPT ![h] = "waiting"]
            /\ UNCHANGED executions
       ELSE /\ call' = [call EXCEPT ![h] = "working"]
            /\ Begin(h)
  /\ UNCHANGED <<coordinator, downstream, life, replies, body>>

(* POST /rpc up to its first await: a known key joins the promise, a new   *)
(* one is registered in the same turn of the event loop that begins the    *)
(* work.  (The coordinator's envelope always passes the checks before.)    *)
Receive(h) ==
  /\ call[h] = "sent"
  /\ downstream # "down"
  /\ IF Keyed(h) /\ replies[Scope(h)] # Absent
       THEN /\ call' = [call EXCEPT ![h] = "waiting"]
            /\ UNCHANGED <<replies, executions>>
       ELSE /\ call' = [call EXCEPT ![h] = "working"]
            /\ replies' = IF Keyed(h)
                            THEN [replies EXCEPT ![Scope(h)] = Pending]
                            ELSE replies
            /\ Begin(h)
  /\ UNCHANGED <<coordinator, downstream, life, body>>

Respond(h, reply) == /\ call' = [call EXCEPT ![h] = "answered"]
                     /\ body' = [body EXCEPT ![h] = reply]

(* The work is done, an error included, whether or not the caller still    *)
(* listens: the promise keeps its value.                                   *)
Finish(h) ==
  LET reply == ReplyTo(ask[h].experiment, [by |-> h, life |-> life]) IN
  /\ call[h] = "working"
  /\ Respond(h, reply)
  /\ replies' = IF Keyed(h) THEN [replies EXCEPT ![Scope(h)] = reply]
                            ELSE replies
  /\ UNCHANGED <<coordinator, downstream, life, executions>>

(* await known: the same value, in an envelope with the ID of this call.   *)
Join(h) ==
  /\ call[h] = "waiting"
  /\ replies[Scope(h)] \in Reply
  /\ Respond(h, replies[Scope(h)])
  /\ UNCHANGED <<coordinator, service>>

(* Nobody listens any more.                                                *)
Refuse(h) == /\ call[h] = "sent"
             /\ downstream # "up"
             /\ call' = [call EXCEPT ![h] = "lost"]
             /\ UNCHANGED <<coordinator, service, body>>

InService == {h \in Handlers : call[h] \in {"working", "waiting"}}

(* shutdown: no new connections; the process exits when the last is done.  *)
Shutdown == /\ downstream = "up"
            /\ downstream' = "closing"
            /\ UNCHANGED <<coordinator, life, replies, executions, call, body>>

(* The process is gone, its connections and its map with it.               *)
Vanish == /\ downstream' = "down"
          /\ replies' = [s \in Scopes |-> Absent]
          /\ call' = [h \in Handlers |-> IF h \in InService THEN "lost"
                                                            ELSE call[h]]
          /\ UNCHANGED <<coordinator, life, executions, body>>

Exit == downstream = "closing" /\ InService = {} /\ Vanish

Die == downstream # "down" /\ Vanish

Start == /\ downstream = "down"
         /\ life < MaxLives
         /\ downstream' = "up"
         /\ life' = life + 1
         /\ UNCHANGED <<coordinator, replies, executions, call, body>>
-----------------------------------------------------------------------------
Serve(h) == Receive(h) \/ Finish(h) \/ Join(h)

Handle(h) == Load(h) \/ LookUp(h) \/ Hear(h) \/ Lose(h) \/ Save(h)

Stopped == /\ UNCHANGED vars
           /\ \A h \in Handlers : at[h] = "done"

Next == \/ \E h \in Handlers : Handle(h) \/ Expire(h) \/ Mishear(h)
                               \/ DatabaseFault(h) \/ Serve(h) \/ Refuse(h)
        \/ \E e \in Experiments : DeleteExperiment(e)
        \/ Shutdown \/ Exit \/ Die \/ Start
        \/ Stopped

Spec == Init /\ [][Next]_vars
-----------------------------------------------------------------------------
(* One process of the downstream service executes a keyed request at most  *)
(* once, however many callers repeat it, also when they repeat it while    *)
(* the first is still running and its caller has given up (the Map of      *)
(* promises in downstream/src/app.ts).                                     *)
OncePerLife ==
  \A x, y \in executions :
    /\ x.key # NoKey /\ x.key = y.key /\ x.experiment = y.experiment
    /\ x.work.life = y.work.life
    => x = y

(* A receipt of success carries the result of work the downstream did for  *)
(* that experiment and, when there is a key, under that key, even if the   *)
(* caller of that work timed out, the answer came with another's envelope  *)
(* or the service was started again; and what the downstream itself said   *)
(* is recorded as what the experiment asks of it, never as an answer to a  *)
(* caller of another experiment with the same key                          *)
(* (classifyDownstreamRpcResponse and the scope of the map).               *)
SuccessIsOwn(r) ==
  /\ Behavior[r.experiment] = "healthy"
  /\ \E x \in executions : /\ x.work = r.work
                           /\ x.experiment = r.experiment
                           /\ x.key = r.key

Due(e) == CASE Behavior[e] = "healthy"     -> "success"
            [] Behavior[e] = "unavailable" -> "downstream_error"
            [] Behavior[e] = "malformed"   -> "invalid_response"

ReceiptsFit ==
  \A r \in runs :
    /\ r.outcome = "success" => SuccessIsOwn(r)
    /\ ~r.faulty /\ Settled(r) => r.outcome = Due(r.experiment)
=============================================================================
