-------------------------- MODULE DownstreamRpcProofs --------------------------
(***************************************************************************)
(* What is proved of DownstreamRpc for every set of experiments, keys and  *)
(* requests and any number of lives of the downstream: types, that a       *)
(* process executes a keyed request at most once, and that the receipts    *)
(* fit what was executed.                                                  *)
(***************************************************************************)
EXTENDS DownstreamRpc, TLAPS

LEMMA AskType ==
  ASSUME TypeOK, NEW h \in Handlers
  PROVE  /\ ask[h] \in [experiment : Experiments, key : Keys \cup {NoKey}]
         /\ ask[h].experiment \in Experiments
         /\ ask[h].key \in Keys \cup {NoKey}
         /\ Keyed(h) => Scope(h) \in Scopes
<1>1. ask[h] \in [experiment : Experiments, key : Keys \cup {NoKey}]
  BY DEF TypeOK
<1> QED BY <1>1 DEF Keyed, Scope, Scopes

LEMMA WorkType ==
  ASSUME TypeOK, NEW h \in Handlers
  PROVE  [by |-> h, life |-> life] \in Work
BY DEF TypeOK, Work

LEMMA ReplyType ==
  ASSUME NEW e \in Experiments, NEW w \in Work
  PROVE  /\ ReplyTo(e, w) \in Reply
         /\ ReplyTo(e, w).work = w
         /\ ReplyTo(e, w).experiment = e
<1>1. Behavior[e] \in Behaviors BY DownstreamConstants
<1> QED BY <1>1 DEF ReplyTo, Reply, Behaviors

LEMMA NotReplies ==
  /\ Absent \notin Reply /\ Pending \notin Reply /\ Absent # Pending
<1>1. Absent.result = "absent" /\ Pending.result = "pending"
  BY DEF Absent, Pending
<1>2. \A r \in Reply : r.result \in {"none", "accepted", "other"} BY DEF Reply
<1> QED BY <1>1, <1>2

LEMMA ClassifyType ==
  ASSUME NEW b, NEW id, NEW x, NEW e
  PROVE  Classify(b, id, x, e) \in {"success", "downstream_error",
                                    "invalid_response"}
BY DEF Classify

LEMMA AnswerType ==
  ASSUME TypeOK, NEW h \in Handlers, NEW code \in {200, 201, 404, 409, 503},
         Answer(h, code)
  PROVE  /\ at' \in [Handlers -> {"idle", "looking", "calling", "saving",
                                  "done"}]
         /\ observed' \in [Handlers -> Receipt]
         /\ status' \in [Handlers -> {0, 200, 201, 404, 409, 503}]
<1>1. NoReceipt \in Receipt BY DEF NoReceipt, Receipt, Outcomes
<1> QED BY <1>1 DEF Answer, TypeOK

LEMMA ObserveType ==
  ASSUME TypeOK, NEW h \in Handlers, NEW outcome \in Outcomes,
         NEW work \in Work \cup {NoWork}, NEW faulty \in BOOLEAN,
         Observe(h, outcome, work, faulty)
  PROVE  TypeOK'
<1>1. [outcome |-> outcome, work |-> work, faulty |-> faulty] \in Receipt
  BY DEF Receipt
<1>2. /\ at' \in [Handlers -> {"idle", "looking", "calling", "saving", "done"}]
      /\ observed' \in [Handlers -> Receipt]
  BY <1>1 DEF Observe, TypeOK
<1> QED BY <1>2 DEF Observe, TypeOK, store, service

LEMMA JudgeType ==
  ASSUME TypeOK, NEW h \in Handlers, NEW b \in Reply, NEW id,
         NEW ok \in BOOLEAN, NEW faulty \in BOOLEAN, Judge(h, b, id, ok, faulty)
  PROVE  TypeOK'
<1> DEFINE verdict == Classify(b, id, h, ask[h].experiment)
           outcome == IF verdict = "downstream_error" \/ ok
                        THEN verdict ELSE "downstream_error"
           work == IF outcome = "success" THEN b.work ELSE NoWork
<1>1. outcome \in Outcomes BY ClassifyType DEF Outcomes
<1>2. work \in Work \cup {NoWork} BY DEF Reply
<1>3. Observe(h, outcome, work, faulty) BY DEF Judge
<1> HIDE DEF outcome, work
<1> QED BY <1>1, <1>2, <1>3, ObserveType

(* An answered exchange has a body.                                        *)
Bodies == \A h \in Handlers : call[h] = "answered" => body[h] \in Reply
-----------------------------------------------------------------------------
(* The types, one action at a time.                                        *)
LEMMA LoadType == ASSUME TypeOK, NEW h \in Handlers, Load(h) PROVE TypeOK'
<1>1. CASE Answer(h, 404) /\ UNCHANGED call
  BY <1>1, AnswerType DEF Load, TypeOK, store, service
<1>2. CASE at' = [at EXCEPT ![h] = "looking"] /\ UNCHANGED <<call, status, observed>>
  BY <1>2 DEF Load, TypeOK, store, service
<1>3. CASE Dial(h) /\ UNCHANGED <<status, observed>>
  BY <1>3 DEF Load, TypeOK, store, service, Dial
<1> QED BY <1>1, <1>2, <1>3 DEF Load

LEMMA LookUpType == ASSUME TypeOK, NEW h \in Handlers, LookUp(h) PROVE TypeOK'
<1>1. CASE Answer(h, 200) /\ UNCHANGED call
  BY <1>1, AnswerType DEF LookUp, TypeOK, store, service
<1>2. CASE Dial(h) /\ UNCHANGED <<status, observed>>
  BY <1>2 DEF LookUp, TypeOK, store, service, Dial
<1> QED BY <1>1, <1>2 DEF LookUp

LEMMA RowType ==
  ASSUME TypeOK, NEW h \in Handlers
  PROVE  RowOf(h) \in Run
<1>1. observed[h] \in Receipt BY DEF TypeOK
<1>2. /\ observed[h].outcome \in Outcomes
      /\ observed[h].work \in Work \cup {NoWork}
      /\ observed[h].faulty \in BOOLEAN
  BY <1>1 DEF Receipt
<1>3. lastRun + 1 \in Nat BY DEF TypeOK
<1> QED BY <1>2, <1>3, AskType DEF RowOf, Run

LEMMA SaveType == ASSUME TypeOK, NEW h \in Handlers, Save(h) PROVE TypeOK'
<1>1. CASE /\ runs' = runs \cup {RowOf(h)}
           /\ lastRun' = lastRun + 1
           /\ Answer(h, 201)
  <2>1. runs' \subseteq Run BY <1>1, RowType DEF TypeOK
  <2>2. lastRun' \in Nat BY <1>1 DEF TypeOK
  <2>3. UNCHANGED <<stored, ask, service, call, body>> BY DEF Save
  <2> QED BY <1>1, <2>1, <2>2, <2>3, AnswerType DEF TypeOK, service
<1>2. CASE Answer(h, 409) /\ UNCHANGED <<runs, lastRun>>
  BY <1>2, AnswerType DEF Save, TypeOK, service
<1> QED BY <1>1, <1>2 DEF Save

LEMMA HearType ==
  ASSUME TypeOK, Bodies, NEW h \in Handlers, Hear(h) \/ Mishear(h)
  PROVE  TypeOK'
<1>1. CASE Hear(h) BY <1>1, JudgeType DEF Hear, Bodies
<1>2. ASSUME NEW g \in Handlers, call[g] = "answered", Judge(h, body[g], g, TRUE, TRUE)
      PROVE  TypeOK'
  BY <1>2, JudgeType DEF Bodies
<1>3. ASSUME call[h] = "answered",
             Judge(h, [body[h] EXCEPT !.result = "accepted", !.error = TRUE], h,
                   TRUE, TRUE)
      PROVE  TypeOK'
  <2>1. body[h] \in Reply BY <1>3 DEF Bodies
  <2>2. [body[h] EXCEPT !.result = "accepted", !.error = TRUE] \in Reply
    BY <2>1 DEF Reply
  <2> QED BY <1>3, <2>2, JudgeType
<1>4. CASE call[h] = "answered" /\ Judge(h, body[h], h, FALSE, TRUE)
  BY <1>4, JudgeType DEF Bodies
<1> QED BY <1>1, <1>2, <1>3, <1>4 DEF Mishear

LEMMA LoseType ==
  ASSUME TypeOK, NEW h \in Handlers, Lose(h) \/ Expire(h)
  PROVE  TypeOK'
BY ObserveType DEF Lose, Expire, Outcomes

LEMMA FaultType ==
  ASSUME TypeOK, NEW h \in Handlers, DatabaseFault(h) PROVE TypeOK'
BY AnswerType DEF DatabaseFault, TypeOK, store, service

LEMMA ReceiveType == ASSUME TypeOK, NEW h \in Handlers, Receive(h) PROVE TypeOK'
<1>1. UNCHANGED <<coordinator, downstream, life, body>> BY DEF Receive
<1>2. call' \in [Handlers -> {"none", "sent", "working", "waiting", "answered",
                              "lost"}]
  BY DEF Receive, TypeOK
<1>3. CASE UNCHANGED <<replies, executions>>
  BY <1>1, <1>2, <1>3 DEF TypeOK, coordinator, store
<1>4. ASSUME Begin(h), replies' = IF Keyed(h)
                                    THEN [replies EXCEPT ![Scope(h)] = Pending]
                                    ELSE replies
      PROVE  TypeOK'
  <2>1. replies' \in [Scopes -> Reply \cup {Absent, Pending}]
    BY <1>4 DEF TypeOK
  <2>2. executions' \subseteq [work : Work, experiment : Experiments,
                               key : Keys \cup {NoKey}]
    BY <1>4, AskType, WorkType DEF TypeOK, Begin
  <2> QED BY <1>1, <1>2, <2>1, <2>2 DEF TypeOK, coordinator, store
<1> QED BY <1>3, <1>4 DEF Receive

LEMMA FinishType == ASSUME TypeOK, NEW h \in Handlers, Finish(h) PROVE TypeOK'
<1> DEFINE reply == ReplyTo(ask[h].experiment, [by |-> h, life |-> life])
<1>1. reply \in Reply BY AskType, WorkType, ReplyType
<1>2. /\ Respond(h, reply)
      /\ replies' = IF Keyed(h) THEN [replies EXCEPT ![Scope(h)] = reply]
                                ELSE replies
      /\ UNCHANGED <<coordinator, downstream, life, executions>>
  BY DEF Finish
<1> HIDE DEF reply
<1> QED BY <1>1, <1>2 DEF TypeOK, Respond, coordinator, store

LEMMA JoinType == ASSUME TypeOK, NEW h \in Handlers, Join(h) PROVE TypeOK'
BY DEF Join, Respond, TypeOK, coordinator, store, service

LEMMA OthersType ==
  ASSUME TypeOK,
         \/ \E h \in Handlers : Refuse(h)
         \/ \E e \in Experiments : DeleteExperiment(e)
         \/ Shutdown \/ Exit \/ Die \/ Start
  PROVE  TypeOK'
<1>1. ASSUME NEW h \in Handlers, Refuse(h) PROVE TypeOK'
  BY <1>1 DEF Refuse, TypeOK, coordinator, store, service
<1>2. ASSUME NEW e \in Experiments, DeleteExperiment(e) PROVE TypeOK'
  BY <1>2 DEF DeleteExperiment, TypeOK, service
<1>3. CASE Shutdown BY <1>3 DEF Shutdown, TypeOK, coordinator, store
<1>4. CASE Vanish BY <1>4 DEF Vanish, TypeOK, coordinator, store
<1>5. CASE Start
  BY <1>5, DownstreamConstants DEF Start, TypeOK, coordinator, store
<1> QED BY <1>1, <1>2, <1>3, <1>4, <1>5 DEF Exit, Die

LEMMA BodiesStep == ASSUME TypeOK, Bodies, [Next]_vars PROVE Bodies'
<1>1. CASE UNCHANGED <<call, body>> BY <1>1 DEF Bodies
<1>2. ASSUME NEW h \in Handlers, Dial(h), UNCHANGED body PROVE Bodies'
  BY <1>2 DEF Dial, Bodies, TypeOK
<1>3. ASSUME NEW h \in Handlers, NEW reply \in Reply, Respond(h, reply)
      PROVE  Bodies'
  BY <1>3 DEF Respond, Bodies, TypeOK
<1>4. ASSUME NEW h \in Handlers, Load(h) \/ LookUp(h) PROVE Bodies'
  BY <1>1, <1>2, <1>4 DEF Load, LookUp
<1>5. ASSUME NEW h \in Handlers,
             \/ Hear(h) \/ Mishear(h) \/ Lose(h) \/ Expire(h) \/ Save(h)
             \/ DatabaseFault(h)
      PROVE  Bodies'
  BY <1>1, <1>5 DEF Hear, Mishear, Judge, Lose, Expire, Observe, Save, DatabaseFault
<1>6. ASSUME NEW h \in Handlers, Receive(h) PROVE Bodies'
  BY <1>6 DEF Receive, Bodies, TypeOK
<1>7. ASSUME NEW h \in Handlers, Finish(h) PROVE Bodies'
  BY <1>3, <1>7, AskType, WorkType, ReplyType DEF Finish
<1>8. ASSUME NEW h \in Handlers, Join(h) PROVE Bodies'
  BY <1>3, <1>8 DEF Join
<1>9. ASSUME NEW h \in Handlers, Refuse(h) PROVE Bodies'
  BY <1>9 DEF Refuse, Bodies, TypeOK
<1>10. CASE Vanish BY <1>10 DEF Vanish, Bodies, TypeOK
<1>11. ASSUME \/ \E e \in Experiments : DeleteExperiment(e)
              \/ Shutdown \/ Start \/ UNCHANGED vars
       PROVE  Bodies'
  BY <1>1, <1>11 DEF DeleteExperiment, Shutdown, Start, vars
<1> QED BY <1>4, <1>5, <1>6, <1>7, <1>8, <1>9, <1>10, <1>11
        DEF Next, Handle, Serve, Exit, Die, Stopped

LEMMA TypeStep == ASSUME TypeOK, Bodies, [Next]_vars PROVE TypeOK' /\ Bodies'
<1>1. ASSUME UNCHANGED vars PROVE TypeOK'
  BY <1>1 DEF vars, coordinator, store, service, TypeOK
<1>2. ASSUME NEW h \in Handlers, Handle(h) \/ Serve(h) PROVE TypeOK'
  BY <1>2, LoadType, LookUpType, HearType, LoseType, SaveType, ReceiveType,
     FinishType, JoinType
  DEF Handle, Serve
<1>3. ASSUME NEW h \in Handlers,
             Expire(h) \/ Mishear(h) \/ DatabaseFault(h) \/ Refuse(h)
      PROVE  TypeOK'
  BY <1>3, LoseType, HearType, FaultType, OthersType
<1>4. ASSUME \/ \E e \in Experiments : DeleteExperiment(e)
             \/ Shutdown \/ Exit \/ Die \/ Start
      PROVE  TypeOK'
  BY <1>4, OthersType
<1>5. TypeOK' BY <1>1, <1>2, <1>3, <1>4 DEF Next, Stopped
<1> QED BY <1>5, BodiesStep

(* Every variable keeps its type: receipts, outcomes and HTTP statuses of  *)
(* the direct path (createRun in server/src/app.ts and the verdicts of     *)
(* downstream-rpc.ts).                                                     *)
THEOREM DownstreamTypeCorrect == Spec => []TypeOK
<1>1. Init => TypeOK /\ Bodies
  BY DownstreamConstants
  DEF Init, TypeOK, Bodies, NoReceipt, Receipt, Outcomes
<1>2. TypeOK /\ Bodies /\ [Next]_vars => (TypeOK /\ Bodies)'
  BY TypeStep
<1> QED BY <1>1, <1>2, PTL DEF Spec
-----------------------------------------------------------------------------
(* At most once in a life: what this process has begun under a key is in   *)
(* its map.                                                                *)
Mapped ==
  /\ \A x \in executions : x.work.life <= life
  /\ downstream # "down" =>
       \A x \in executions : x.key # NoKey /\ x.work.life = life =>
         replies[<<x.experiment, x.key>>] # Absent

LEMMA ReceiveOnce ==
  ASSUME TypeOK, Mapped, OncePerLife, NEW h \in Handlers, Receive(h)
  PROVE  Mapped' /\ OncePerLife'
<1> DEFINE new == [work |-> [by |-> h, life |-> life],
                   experiment |-> ask[h].experiment, key |-> ask[h].key]
<1>1. downstream # "down" /\ UNCHANGED <<downstream, life>> BY DEF Receive
<1>2. CASE UNCHANGED <<replies, executions>>
  BY <1>1, <1>2 DEF Mapped, OncePerLife
<1>3. ASSUME executions' = executions \cup {new},
             ~(Keyed(h) /\ replies[Scope(h)] # Absent),
             replies' = IF Keyed(h) THEN [replies EXCEPT ![Scope(h)] = Pending]
                                    ELSE replies
      PROVE  Mapped' /\ OncePerLife'
  <2>1. life \in Nat /\ new.work.life = life BY DEF TypeOK
  <2>2. \A x \in executions : x.key # NoKey => <<x.experiment, x.key>> \in Scopes
    BY DEF TypeOK, Scopes
  <2>3. \A s \in Scopes : replies[s] # Absent => replies'[s] # Absent
    BY <1>3, NotReplies DEF TypeOK
  <2>4. new.key # NoKey => replies'[<<new.experiment, new.key>>] # Absent
    BY <1>3, NotReplies, AskType DEF TypeOK, Keyed, Scope
  <2>5. Mapped'
    BY <1>1, <1>3, <2>1, <2>2, <2>3, <2>4 DEF Mapped
  <2>6. \A x \in executions : x.key # NoKey /\ x.key = new.key
                              /\ x.experiment = new.experiment
                              => x.work.life # new.work.life
    BY <1>1, <1>3, <2>1 DEF Mapped, Keyed, Scope
  <2> HIDE DEF new
  <2>7. OncePerLife' BY <1>3, <2>6 DEF OncePerLife
  <2> QED BY <2>5, <2>7
<1> QED BY <1>1, <1>2, <1>3 DEF Receive, Begin

LEMMA FinishOnce ==
  ASSUME TypeOK, Mapped, NEW h \in Handlers, Finish(h)
  PROVE  Mapped'
<1> DEFINE reply == ReplyTo(ask[h].experiment, [by |-> h, life |-> life])
<1>1. reply # Absent BY AskType, WorkType, ReplyType, NotReplies
<1>2. /\ replies' = IF Keyed(h) THEN [replies EXCEPT ![Scope(h)] = reply]
                                ELSE replies
      /\ UNCHANGED <<downstream, life, executions>>
  BY DEF Finish
<1> HIDE DEF reply
<1>3. \A s \in Scopes : replies[s] # Absent => replies'[s] # Absent
  BY <1>1, <1>2 DEF TypeOK
<1>4. \A x \in executions : x.key # NoKey => <<x.experiment, x.key>> \in Scopes
  BY DEF TypeOK, Scopes
<1> QED BY <1>2, <1>3, <1>4 DEF Mapped

LEMMA OnceStep ==
  ASSUME TypeOK, Mapped, OncePerLife, [Next]_vars
  PROVE  Mapped' /\ OncePerLife'
<1>1. CASE UNCHANGED service BY <1>1 DEF service, Mapped, OncePerLife
<1>2. ASSUME NEW h \in Handlers,
             \/ Handle(h) \/ Expire(h) \/ Mishear(h) \/ DatabaseFault(h)
             \/ Join(h) \/ Refuse(h)
      PROVE  UNCHANGED service
  BY <1>2 DEF Handle, Load, LookUp, Hear, Lose, Save, Expire, Mishear, Judge,
              Observe, DatabaseFault, Join, Refuse
<1>3. ASSUME NEW e \in Experiments, DeleteExperiment(e) PROVE UNCHANGED service
  BY <1>3 DEF DeleteExperiment
<1>4. ASSUME NEW h \in Handlers, Finish(h) PROVE Mapped' /\ OncePerLife'
  BY <1>4, FinishOnce DEF Finish, OncePerLife
<1>5. CASE Shutdown BY <1>5 DEF Shutdown, Mapped, OncePerLife
<1>6. CASE Vanish BY <1>6 DEF Vanish, Mapped, OncePerLife
<1>7. CASE Start
  <2>1. \A x \in executions : x.work.life \in Nat /\ x.work.life < life'
    BY <1>7 DEF Start, Mapped, TypeOK, Work
  <2> QED BY <1>7, <2>1 DEF Start, Mapped, OncePerLife
<1>8. CASE UNCHANGED vars BY <1>1, <1>8 DEF vars
<1> QED BY <1>1, <1>2, <1>3, <1>4, <1>5, <1>6, <1>7, <1>8, ReceiveOnce
        DEF Next, Serve, Exit, Die, Stopped

(* One process of the downstream service executes a keyed request at most  *)
(* once, whoever repeats it and whenever (downstream/src/app.ts).          *)
THEOREM ExecutedOncePerLife == Spec => []OncePerLife
<1>1. Init => TypeOK /\ Bodies
  BY DownstreamConstants
  DEF Init, TypeOK, Bodies, NoReceipt, Receipt, Outcomes
<1>2. Init => Mapped /\ OncePerLife BY DEF Init, Mapped, OncePerLife
<1>3. TypeOK /\ Bodies /\ Mapped /\ OncePerLife /\ [Next]_vars
        => (TypeOK /\ Bodies /\ Mapped /\ OncePerLife)'
  BY TypeStep, OnceStep
<1> QED BY <1>1, <1>2, <1>3, PTL DEF Spec
-----------------------------------------------------------------------------
(* The receipts: every reply under way is what the experiment asks for,    *)
(* and was made by an execution of it.                                     *)
Executed(e, k, w) ==
  \E x \in executions : x.work = w /\ x.experiment = e /\ x.key = k

IsReply(e, k, b) == \E w \in Work : b = ReplyTo(e, w) /\ Executed(e, k, w)

RepliesOwn == \A s \in Scopes : replies[s] \in Reply => IsReply(s[1], s[2], replies[s])

WorkBegun ==
  \A h \in Handlers : call[h] = "working" =>
    /\ downstream # "down"
    /\ Executed(ask[h].experiment, ask[h].key, [by |-> h, life |-> life])

WaitersKeyed == \A h \in Handlers : call[h] = "waiting" => Keyed(h)

BodiesOwn ==
  \A h \in Handlers : call[h] = "answered" =>
    IsReply(ask[h].experiment, ask[h].key, body[h])

Fits(e, k, o) ==
  /\ o.outcome = "success" => Behavior[e] = "healthy" /\ Executed(e, k, o.work)
  /\ ~o.faulty /\ Settled(o) => o.outcome = Due(e)

ObservedFit ==
  \A h \in Handlers : at[h] = "saving" =>
    Fits(ask[h].experiment, ask[h].key, observed[h])

ReceiptsInv == /\ TypeOK /\ Bodies
               /\ RepliesOwn /\ WorkBegun /\ WaitersKeyed /\ BodiesOwn
               /\ ObservedFit /\ ReceiptsFit

LEMMA History ==
  ASSUME [Next]_vars
  PROVE  executions \subseteq executions' /\ ask' = ask
<1>1. ASSUME NEW h \in Handlers,
             \/ Handle(h) \/ Expire(h) \/ Mishear(h) \/ DatabaseFault(h)
             \/ Join(h) \/ Refuse(h)
      PROVE  executions' = executions /\ ask' = ask
  BY <1>1 DEF Handle, Load, LookUp, Hear, Lose, Save, Expire, Mishear, Judge,
              Observe, DatabaseFault, Join, Refuse, service, coordinator
<1>2. ASSUME NEW h \in Handlers, Receive(h) \/ Finish(h)
      PROVE  executions \subseteq executions' /\ ask' = ask
  BY <1>2 DEF Receive, Finish, Begin, coordinator
<1>3. ASSUME NEW e \in Experiments, DeleteExperiment(e)
      PROVE  executions' = executions /\ ask' = ask
  BY <1>3 DEF DeleteExperiment, service
<1>4. ASSUME Shutdown \/ Vanish \/ Start \/ UNCHANGED vars
      PROVE  executions' = executions /\ ask' = ask
  BY <1>4 DEF Shutdown, Vanish, Start, vars, coordinator, service
<1> QED BY <1>1, <1>2, <1>3, <1>4 DEF Next, Serve, Exit, Die, Stopped

LEMMA Lasting ==
  ASSUME executions \subseteq executions', NEW e, NEW k
  PROVE  /\ \A w : Executed(e, k, w) => Executed(e, k, w)'
         /\ \A b : IsReply(e, k, b) => IsReply(e, k, b)'
         /\ \A o : Fits(e, k, o) => Fits(e, k, o)'
<1>1. \A w : Executed(e, k, w) => Executed(e, k, w)' BY DEF Executed
<1> QED BY <1>1 DEF IsReply, Fits, Settled

LEMMA VerdictFits ==
  ASSUME NEW e \in Experiments, NEW k, NEW b, IsReply(e, k, b), NEW h
  PROVE  /\ Classify(b, h, h, e) = Due(e)
         /\ Due(e) = "success" => Behavior[e] = "healthy" /\ Executed(e, k, b.work)
         /\ Due(e) \in {"success", "downstream_error", "invalid_response"}
<1>1. PICK w \in Work : b = ReplyTo(e, w) /\ Executed(e, k, w) BY DEF IsReply
<1>2. b.work = w /\ b.experiment = e /\ b.error = (Behavior[e] = "unavailable")
  BY <1>1 DEF ReplyTo
<1>3. CASE Behavior[e] = "healthy"
  <2>1. b.result = "accepted" BY <1>1, <1>3 DEF ReplyTo
  <2> QED BY <1>1, <1>2, <1>3, <2>1 DEF Classify, Due
<1>4. CASE Behavior[e] = "unavailable"
  <2>1. b.result = "none" BY <1>1, <1>4 DEF ReplyTo
  <2> QED BY <1>1, <1>2, <1>4, <2>1 DEF Classify, Due
<1>5. CASE Behavior[e] = "malformed"
  <2>1. b.result = "other" BY <1>1, <1>5 DEF ReplyTo
  <2> QED BY <1>1, <1>2, <1>5, <2>1 DEF Classify, Due
<1> QED BY <1>3, <1>4, <1>5, DownstreamConstants DEF Behaviors

LEMMA BothMembers ==
  ASSUME NEW b, NEW id, NEW x, NEW e, b.result = "accepted", b.error
  PROVE  Classify(b, id, x, e) = "invalid_response"
<1>1. b.result # "none" /\ b.error OBVIOUS
<1> QED BY <1>1 DEF Classify

LEMMA ObserveFits ==
  ASSUME TypeOK, ObservedFit, NEW h \in Handlers, NEW outcome, NEW work,
         NEW faulty, Observe(h, outcome, work, faulty),
         Fits(ask[h].experiment, ask[h].key,
              [outcome |-> outcome, work |-> work, faulty |-> faulty])
  PROVE  ObservedFit'
<1> DEFINE o == [outcome |-> outcome, work |-> work, faulty |-> faulty]
<1>1. /\ at' = [at EXCEPT ![h] = "saving"]
      /\ observed' = [observed EXCEPT ![h] = o]
      /\ UNCHANGED <<ask, executions>>
  BY DEF Observe, service
<1>2. \A e, k, x : Fits(e, k, x)' = Fits(e, k, x)
  BY <1>1 DEF Fits, Executed, Settled
<1> HIDE DEF o
<1> SUFFICES ASSUME NEW g \in Handlers, at'[g] = "saving"
             PROVE  Fits(ask[g].experiment, ask[g].key, observed'[g])
  BY <1>1, <1>2 DEF ObservedFit
<1>3. CASE g = h BY <1>1, <1>3 DEF TypeOK, o
<1>4. CASE g # h BY <1>1, <1>4 DEF TypeOK, ObservedFit
<1> QED BY <1>3, <1>4

LEMMA HearFits ==
  ASSUME ReceiptsInv, NEW h \in Handlers, Hear(h) \/ Mishear(h)
  PROVE  ObservedFit'
<1> USE DEF ReceiptsInv
<1> DEFINE e == ask[h].experiment
           k == ask[h].key
<1>1. e \in Experiments BY AskType
<1>2. CASE Hear(h)
  <2>1. IsReply(e, k, body[h]) BY <1>2 DEF Hear, BodiesOwn
  <2>2. Classify(body[h], h, h, e) = Due(e) BY <1>1, <2>1, VerdictFits
  <2>3. Observe(h, Due(e),
                IF Due(e) = "success" THEN body[h].work ELSE NoWork, FALSE)
    BY <1>2, <2>2 DEF Hear, Judge
  <2>4. Fits(e, k, [outcome |-> Due(e),
                    work |-> IF Due(e) = "success" THEN body[h].work ELSE NoWork,
                    faulty |-> FALSE])
    BY <1>1, <2>1, VerdictFits DEF Fits
  <2> QED BY <2>3, <2>4, ObserveFits
<1>3. ASSUME NEW o, o # "success", Observe(h, o, NoWork, TRUE)
      PROVE  ObservedFit'
  <2>1. Fits(e, k, [outcome |-> o, work |-> NoWork, faulty |-> TRUE])
    BY <1>3 DEF Fits
  <2> QED BY <1>3, <2>1, ObserveFits
<1>4. ASSUME NEW g \in Handlers \ {h}, Judge(h, body[g], g, TRUE, TRUE)
      PROVE  ObservedFit'
  <2>1. Classify(body[g], g, h, e) = "invalid_response" BY DEF Classify
  <2>2. Observe(h, "invalid_response", NoWork, TRUE) BY <1>4, <2>1 DEF Judge
  <2> QED BY <1>3, <2>2
<1>5. ASSUME call[h] = "answered",
             Judge(h, [body[h] EXCEPT !.result = "accepted", !.error = TRUE], h,
                   TRUE, TRUE)
      PROVE  ObservedFit'
  <2> DEFINE b == [body[h] EXCEPT !.result = "accepted", !.error = TRUE]
  <2>1. body[h] \in Reply BY <1>5 DEF Bodies
  <2>2. b.result = "accepted" /\ b.error BY <2>1 DEF Reply
  <2>3. Judge(h, b, h, TRUE, TRUE) BY <1>5
  <2> HIDE DEF b
  <2>4. Classify(b, h, h, e) = "invalid_response" BY <2>2, BothMembers
  <2>5. Observe(h, "invalid_response", NoWork, TRUE) BY <2>3, <2>4 DEF Judge
  <2> QED BY <1>3, <2>5
<1>6. CASE Judge(h, body[h], h, FALSE, TRUE)
  <2>1. Observe(h, "downstream_error", NoWork, TRUE) BY <1>6 DEF Judge
  <2> QED BY <1>3, <2>1
<1> QED BY <1>2, <1>4, <1>5, <1>6 DEF Mishear

LEMMA ObservedStep ==
  ASSUME ReceiptsInv, [Next]_vars
  PROVE  ObservedFit'
<1> USE DEF ReceiptsInv
<1>1. executions \subseteq executions' /\ ask' = ask BY History
<1>2. ASSUME \A h \in Handlers : at'[h] = "saving" =>
               at[h] = "saving" /\ observed'[h] = observed[h]
      PROVE  ObservedFit'
  <2> SUFFICES ASSUME NEW h \in Handlers, at'[h] = "saving"
               PROVE  Fits(ask[h].experiment, ask[h].key, observed[h])'
    BY DEF ObservedFit
  <2>1. Fits(ask[h].experiment, ask[h].key, observed[h])
    BY <1>2 DEF ObservedFit
  <2>2. Fits(ask'[h].experiment, ask'[h].key, observed'[h])
    BY <1>1, <1>2, <2>1
  <2> QED BY <1>1, <2>2, Lasting DEF Fits, Executed, Settled
<1>3. CASE UNCHANGED <<at, observed>> BY <1>2, <1>3
<1>4. ASSUME NEW h \in Handlers, Load(h) \/ LookUp(h) \/ Save(h) \/ DatabaseFault(h)
      PROVE  ObservedFit'
  <2>1. \/ \E code \in {200, 201, 404, 409, 503} : Answer(h, code)
        \/ Dial(h) /\ UNCHANGED observed
        \/ at' = [at EXCEPT ![h] = "looking"] /\ UNCHANGED observed
    BY <1>4 DEF Load, LookUp, Save, DatabaseFault
  <2> QED BY <1>2, <2>1 DEF Answer, Dial, TypeOK
<1>5. ASSUME NEW h \in Handlers, Lose(h) \/ Expire(h) PROVE ObservedFit'
  <2>1. PICK o \in {"unreachable", "timeout"} : Observe(h, o, NoWork, FALSE)
    BY <1>5 DEF Lose, Expire
  <2>2. Fits(ask[h].experiment, ask[h].key,
             [outcome |-> o, work |-> NoWork, faulty |-> FALSE])
    BY DEF Fits, Settled
  <2> QED BY <2>1, <2>2, ObserveFits
<1>6. ASSUME NEW h \in Handlers, Serve(h) \/ Refuse(h)
      PROVE  UNCHANGED <<at, observed>>
  BY <1>6 DEF Serve, Receive, Finish, Join, Refuse, coordinator
<1>7. ASSUME NEW e \in Experiments, DeleteExperiment(e)
      PROVE  UNCHANGED <<at, observed>>
  BY <1>7 DEF DeleteExperiment
<1>8. ASSUME Shutdown \/ Vanish \/ Start \/ UNCHANGED vars
      PROVE  UNCHANGED <<at, observed>>
  BY <1>8 DEF Shutdown, Vanish, Start, vars, coordinator
<1>9. ASSUME NEW h \in Handlers, Handle(h) PROVE ObservedFit'
  BY <1>4, <1>5, <1>9, HearFits DEF Handle
<1>10. ASSUME NEW h \in Handlers, Expire(h) \/ Mishear(h) \/ DatabaseFault(h)
       PROVE  ObservedFit'
  BY <1>4, <1>5, <1>10, HearFits
<1> QED BY <1>3, <1>6, <1>7, <1>8, <1>9, <1>10 DEF Next, Exit, Die, Stopped

LEMMA RowsStep ==
  ASSUME ReceiptsInv, [Next]_vars
  PROVE  ReceiptsFit'
<1> USE DEF ReceiptsInv
<1>1. executions \subseteq executions' BY History
<1>2. \A r \in runs : Fits(r.experiment, r.key, r)
  BY DEF ReceiptsFit, Fits, SuccessIsOwn, Executed
<1>3. ASSUME \A r \in runs' : r \in runs \/ Fits(r.experiment, r.key, r)
      PROVE  ReceiptsFit'
  <2>1. \A r \in runs' : Fits(r.experiment, r.key, r) BY <1>2, <1>3
  <2>2. \A r \in runs' : Fits(r.experiment, r.key, r)' BY <1>1, <2>1, Lasting
  <2> QED BY <2>2 DEF ReceiptsFit, Fits, SuccessIsOwn, Executed, Settled, Due
<1>4. ASSUME NEW h \in Handlers, Save(h) PROVE ReceiptsFit'
  <2>1. Fits(ask[h].experiment, ask[h].key, observed[h])
    BY <1>4 DEF Save, ObservedFit
  <2>2. Fits(RowOf(h).experiment, RowOf(h).key, RowOf(h))
    BY <2>1 DEF Fits, RowOf, Settled
  <2>3. runs' = runs \/ runs' = runs \cup {RowOf(h)} BY <1>4 DEF Save
  <2> QED BY <1>3, <2>2, <2>3
<1>5. ASSUME NEW e \in Experiments, DeleteExperiment(e) PROVE ReceiptsFit'
  BY <1>3, <1>5 DEF DeleteExperiment
<1>6. ASSUME NEW h \in Handlers,
             \/ Load(h) \/ LookUp(h) \/ Hear(h) \/ Lose(h) \/ Expire(h)
             \/ Mishear(h) \/ DatabaseFault(h) \/ Serve(h) \/ Refuse(h)
      PROVE  runs' = runs
  BY <1>6 DEF Load, LookUp, Hear, Lose, Expire, Mishear, Judge, Observe,
              DatabaseFault, Serve, Receive, Finish, Join, Refuse, coordinator,
              store
<1>7. ASSUME Shutdown \/ Vanish \/ Start \/ UNCHANGED vars PROVE runs' = runs
  BY <1>7 DEF Shutdown, Vanish, Start, vars, coordinator, store
<1>8. CASE runs' = runs BY <1>3, <1>8
<1> QED BY <1>4, <1>5, <1>6, <1>7, <1>8 DEF Next, Handle, Exit, Die, Stopped

LEMMA ExchangesStep ==
  ASSUME ReceiptsInv, [Next]_vars
  PROVE  RepliesOwn' /\ WorkBegun' /\ BodiesOwn'
<1> USE DEF ReceiptsInv
<1> DEFINE Goal == RepliesOwn' /\ WorkBegun' /\ BodiesOwn'
           mine(h) == [by |-> h, life |-> life]
           reply(h) == ReplyTo(ask[h].experiment, mine(h))
<1>1. /\ executions \subseteq executions' /\ ask' = ask
      /\ \A e, k, w : Executed(e, k, w) => Executed(e, k, w)'
      /\ \A e, k, b : IsReply(e, k, b) => IsReply(e, k, b)'
  BY History, Lasting
<1>2. ASSUME replies' = replies PROVE RepliesOwn'
  BY <1>1, <1>2 DEF RepliesOwn
<1>3. ASSUME life' = life, downstream # "down" => downstream' # "down",
             \A h \in Handlers : call'[h] = "working" =>
               \/ call[h] = "working"
               \/ /\ downstream # "down"
                  /\ Executed(ask[h].experiment, ask[h].key, mine(h))'
      PROVE  WorkBegun'
  BY <1>1, <1>3 DEF WorkBegun
<1>4. ASSUME \A h \in Handlers : call'[h] = "answered" =>
               \/ call[h] = "answered" /\ body'[h] = body[h]
               \/ IsReply(ask[h].experiment, ask[h].key, body'[h])
      PROVE  BodiesOwn'
  BY <1>1, <1>4 DEF BodiesOwn
<1>5. CASE UNCHANGED <<service, call, body>>
  BY <1>2, <1>3, <1>4, <1>5 DEF service
<1>6. ASSUME NEW h \in Handlers, UNCHANGED <<service, body>>,
             \/ call' = [call EXCEPT ![h] = "sent"]
             \/ call' = [call EXCEPT ![h] = "lost"]
      PROVE  Goal
  BY <1>2, <1>3, <1>4, <1>6 DEF service, TypeOK
<1>7. ASSUME NEW h \in Handlers, Load(h) \/ LookUp(h) \/ Refuse(h) PROVE Goal
  BY <1>5, <1>6, <1>7 DEF Load, LookUp, Refuse, Dial
<1>8. ASSUME NEW h \in Handlers,
             \/ Hear(h) \/ Lose(h) \/ Expire(h) \/ Mishear(h) \/ Save(h)
             \/ DatabaseFault(h)
      PROVE  Goal
  BY <1>5, <1>8 DEF Hear, Lose, Expire, Mishear, Judge, Observe, Save,
                    DatabaseFault
<1>9. ASSUME NEW h \in Handlers, Receive(h) PROVE Goal
  <2>1. downstream # "down" /\ UNCHANGED <<downstream, life, body>>
    BY <1>9 DEF Receive
  <2>2. \/ call' = [call EXCEPT ![h] = "waiting"]
        \/ /\ call' = [call EXCEPT ![h] = "working"]
           /\ Executed(ask[h].experiment, ask[h].key, mine(h))'
    <3>1. CASE call' = [call EXCEPT ![h] = "waiting"] BY <3>1
    <3>2. CASE call' = [call EXCEPT ![h] = "working"] /\ Begin(h)
      <4> DEFINE x == [work |-> mine(h), experiment |-> ask[h].experiment,
                       key |-> ask[h].key]
      <4>1. x \in executions' BY <3>2 DEF Begin
      <4>2. ask' = ask /\ mine(h)' = mine(h) BY <1>1, <2>1
      <4> QED BY <3>2, <4>1, <4>2 DEF Executed
    <3> QED BY <1>9, <3>1, <3>2 DEF Receive
  <2>3. WorkBegun' BY <1>3, <2>1, <2>2 DEF TypeOK
  <2>4. BodiesOwn' BY <1>4, <2>1, <2>2 DEF TypeOK
  <2>5. replies' = replies \/ replies' = [replies EXCEPT ![Scope(h)] = Pending]
    BY <1>9 DEF Receive
  <2>6. \A s \in Scopes : replies'[s] \in Reply => replies'[s] = replies[s]
    BY <2>5, NotReplies DEF TypeOK
  <2>7. RepliesOwn' BY <1>1, <2>6 DEF RepliesOwn
  <2> QED BY <2>3, <2>4, <2>7
<1>10. ASSUME NEW h \in Handlers, Finish(h) PROVE Goal
  <2>1. /\ call' = [call EXCEPT ![h] = "answered"]
        /\ body' = [body EXCEPT ![h] = reply(h)]
        /\ replies' = IF Keyed(h) THEN [replies EXCEPT ![Scope(h)] = reply(h)]
                                  ELSE replies
        /\ UNCHANGED <<downstream, life>>
        /\ call[h] = "working"
    BY <1>10 DEF Finish, Respond
  <2>2. IsReply(ask[h].experiment, ask[h].key, reply(h))
    BY <2>1, WorkType DEF IsReply, WorkBegun
  <2> HIDE DEF reply
  <2>3. WorkBegun' BY <1>3, <2>1 DEF TypeOK
  <2>4. BodiesOwn' BY <1>4, <2>1, <2>2 DEF TypeOK
  <2>5. \A s \in Scopes : \/ replies'[s] = replies[s]
                          \/ s = Scope(h) /\ replies'[s] = reply(h)
    BY <2>1 DEF TypeOK
  <2>6. RepliesOwn' BY <1>1, <2>2, <2>5 DEF RepliesOwn, Scope
  <2> QED BY <2>3, <2>4, <2>6
<1>11. ASSUME NEW h \in Handlers, Join(h) PROVE Goal
  <2>1. /\ call[h] = "waiting" /\ replies[Scope(h)] \in Reply
        /\ call' = [call EXCEPT ![h] = "answered"]
        /\ body' = [body EXCEPT ![h] = replies[Scope(h)]]
        /\ UNCHANGED <<downstream, life, replies>>
    BY <1>11 DEF Join, Respond, service
  <2>2. WorkBegun' BY <1>3, <2>1 DEF TypeOK
  <2>3. ASSUME Scope(h) \in Scopes
        PROVE  IsReply(ask[h].experiment, ask[h].key, replies[Scope(h)])
    BY <2>1, <2>3 DEF RepliesOwn, Scope
  <2>4. Scope(h) \in Scopes BY <2>1, AskType DEF WaitersKeyed
  <2>5. BodiesOwn' BY <1>4, <2>1, <2>3, <2>4 DEF TypeOK
  <2> QED BY <1>2, <2>1, <2>2, <2>5
<1>12. CASE Vanish
  <2>1. /\ replies' = [s \in Scopes |-> Absent]
        /\ body' = body
        /\ \A h \in Handlers : call'[h] = call[h] \/ call'[h] = "lost"
        /\ \A h \in Handlers : call'[h] # "working"
    BY <1>12 DEF Vanish, InService
  <2>2. RepliesOwn' BY <2>1, NotReplies DEF RepliesOwn
  <2>3. WorkBegun' BY <2>1 DEF WorkBegun
  <2>4. BodiesOwn' BY <1>4, <2>1
  <2> QED BY <2>2, <2>3, <2>4
<1>13. CASE Start
  <2>1. downstream = "down" /\ UNCHANGED <<replies, call, body>>
    BY <1>13 DEF Start
  <2>2. WorkBegun' BY <2>1 DEF WorkBegun
  <2> QED BY <1>2, <1>4, <2>1, <2>2
<1>14. ASSUME \/ \E e \in Experiments : DeleteExperiment(e)
              \/ Shutdown \/ UNCHANGED vars
       PROVE  Goal
  BY <1>2, <1>3, <1>4, <1>14 DEF DeleteExperiment, Shutdown, vars, service
<1> QED BY <1>7, <1>8, <1>9, <1>10, <1>11, <1>12, <1>13, <1>14
        DEF Next, Handle, Serve, Exit, Die, Stopped

LEMMA WaitersStep ==
  ASSUME TypeOK, WaitersKeyed, [Next]_vars
  PROVE  WaitersKeyed'
<1>1. ask' = ask BY History
<1>2. ASSUME \A h \in Handlers : call'[h] = "waiting" =>
                                  call[h] = "waiting" \/ Keyed(h)
      PROVE  WaitersKeyed'
  BY <1>1, <1>2 DEF WaitersKeyed, Keyed
<1>3. CASE call' = call BY <1>2, <1>3
<1>4. ASSUME NEW h \in Handlers,
             \/ Load(h) \/ LookUp(h) \/ Hear(h) \/ Lose(h) \/ Expire(h)
             \/ Mishear(h) \/ DatabaseFault(h) \/ Save(h) \/ Finish(h)
             \/ Join(h) \/ Refuse(h)
      PROVE  \/ call' = call
             \/ \E c \in {"sent", "answered", "lost"} :
                  call' = [call EXCEPT ![h] = c]
  BY <1>4 DEF Load, LookUp, Dial, Hear, Lose, Expire, Mishear, Judge, Observe,
              DatabaseFault, Save, Finish, Join, Respond, Refuse
<1>5. ASSUME NEW h \in Handlers, NEW c \in {"sent", "answered", "lost"},
             call' = [call EXCEPT ![h] = c]
      PROVE  WaitersKeyed'
  BY <1>2, <1>5 DEF TypeOK
<1>6. ASSUME NEW h \in Handlers, Receive(h) PROVE WaitersKeyed'
  BY <1>2, <1>6 DEF Receive, TypeOK
<1>7. CASE Vanish BY <1>2, <1>7 DEF Vanish
<1>8. ASSUME \/ \E e \in Experiments : DeleteExperiment(e)
             \/ Shutdown \/ Start \/ UNCHANGED vars
      PROVE  call' = call
  BY <1>8 DEF DeleteExperiment, Shutdown, Start, vars
<1>9. ASSUME NEW h \in Handlers,
             \/ Handle(h) \/ Expire(h) \/ Mishear(h) \/ DatabaseFault(h)
             \/ Serve(h) \/ Refuse(h)
      PROVE  WaitersKeyed'
  BY <1>3, <1>4, <1>5, <1>6, <1>9 DEF Handle, Serve
<1> QED BY <1>3, <1>7, <1>8, <1>9 DEF Next, Exit, Die, Stopped

(* The receipts of the direct path fit what the downstream executed        *)
(* (classifyDownstreamRpcResponse, the Map of downstream/src/app.ts).      *)
THEOREM ReceiptsAreFitting == Spec => []ReceiptsFit
<1>1. Init => ReceiptsInv
  <2> SUFFICES ASSUME Init PROVE ReceiptsInv OBVIOUS
  <2>1. TypeOK /\ Bodies
    BY DownstreamConstants
    DEF Init, TypeOK, Bodies, NoReceipt, Receipt, Outcomes
  <2>2. RepliesOwn BY NotReplies DEF Init, RepliesOwn
  <2>3. WorkBegun /\ WaitersKeyed /\ BodiesOwn /\ ObservedFit /\ ReceiptsFit
    BY DEF Init, WorkBegun, WaitersKeyed, BodiesOwn, ObservedFit, ReceiptsFit
  <2> QED BY <2>1, <2>2, <2>3 DEF ReceiptsInv
<1>2. ReceiptsInv /\ [Next]_vars => ReceiptsInv'
  BY TypeStep, ExchangesStep, WaitersStep, ObservedStep, RowsStep
  DEF ReceiptsInv
<1> QED BY <1>1, <1>2, PTL DEF Spec, ReceiptsInv
=============================================================================
