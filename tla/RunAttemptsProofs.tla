--------------------------- MODULE RunAttemptsProofs ---------------------------
(***************************************************************************)
(* What is proved of RunAttempts for every set of experiments, keys and    *)
(* requests: types, that no receipt or review is orphaned and no submitted *)
(* receipt lost, that a key is executed once and never conflicts, and that *)
(* the receipts stay true of the runner's ledger.                          *)
(***************************************************************************)
EXTENDS RunAttempts, TLAPS

LEMMA OperationType ==
  ASSUME NEW e \in Experiments, NEW k \in Keys \cup {NoKey}, NEW i \in Ids
  PROVE  Operation(e, k, i) \in Operations
BY DEF Operation, Operations

LEMMA OfType ==
  ASSUME TypeOK, NEW h \in Handlers
  PROVE  /\ Of(h) \in Operations
         /\ ask[h] \in Ask
         /\ ask[h].experiment \in Experiments
         /\ ask[h].key \in Keys \cup {NoKey}
<1>1. /\ ask[h] \in Ask
      /\ ask[h].experiment \in Experiments
      /\ ask[h].key \in Keys \cup {NoKey}
      /\ ask[h].id \in Ids
  BY DEF TypeOK, Ask
<1> QED BY <1>1, OperationType DEF Of

LEMMA ClassifyType ==
  ASSUME NEW code \in Codes, NEW o, code = "OK" => o \in Results
  PROVE  [code |-> code, outcome |-> Classify(code, o)] \in Observation
BY DEF Codes, Classify, Observation, Outcomes, Results

LEMMA RowType ==
  ASSUME TypeOK, NEW h \in Handlers
  PROVE  RowOf(h) \in Run
<1>1. observed[h] \in Observation BY DEF TypeOK
<1>2. observed[h].code \in Codes /\ observed[h].outcome \in Outcomes
  BY <1>1 DEF Observation
<1>3. lastRun + 1 \in Nat BY DEF TypeOK
<1> QED BY <1>2, <1>3, OfType DEF RowOf, Run

LEMMA InsertType ==
  ASSUME TypeOK, NEW h \in Handlers, Insert(h)
  PROVE  /\ runs' \subseteq Run
         /\ lastRun' \in Nat
         /\ experiment' = experiment
         /\ reviewed' = reviewed
         /\ runs' = runs \cup {RowOf(h)}
<1>1. RowOf(h) \in Run BY RowType
<1> QED BY <1>1 DEF Insert, TypeOK

LEMMA ReplyType ==
  ASSUME TypeOK, NEW h \in Handlers, NEW run \in Run \cup {NoRun},
         NEW status \in {200, 201, 404, 409, 503}, Reply(h, status, run)
  PROVE  /\ at' \in [Handlers -> Places]
         /\ answer' \in [Handlers -> [status : {0, 200, 201, 404, 409, 503},
                                      run : Run \cup {NoRun}]]
<1>1. [status |-> status, run |-> run] \in
         [status : {0, 200, 201, 404, 409, 503}, run : Run \cup {NoRun}]
  OBVIOUS
<1> QED BY <1>1 DEF Reply, TypeOK, Places

LEMMA ObserveType ==
  ASSUME TypeOK, NEW h \in Handlers, NEW code \in Codes, NEW o,
         code = "OK" => o \in Results, Observe(h, code, o)
  PROVE  /\ at' \in [Handlers -> Places]
         /\ observed' \in [Handlers -> Observation]
<1>1. [code |-> code, outcome |-> Classify(code, o)] \in Observation
  BY ClassifyType
<1> QED BY <1>1 DEF Observe, TypeOK, Places

LEMMA TellType ==
  ASSUME TypeOK, NEW h \in Handlers, NEW v \in Verdict, Tell(h, v)
  PROVE  /\ told' \in [Operations -> SUBSET Verdict]
         /\ sent' \subseteq Handlers
BY OfType DEF Tell, TypeOK

LEMMA MovesType ==
  ASSUME TypeOK, NEW op \in Operations, NEW e \in Entry, MovesTo(op, e)
  PROVE  entry' \in [Operations -> Entry \cup {NoEntry}]
BY DEF MovesTo, TypeOK

-----------------------------------------------------------------------------
(* The types, one action at a time.                                        *)
LEMMA LoadType == ASSUME TypeOK, NEW h \in Handlers, Load(h) PROVE TypeOK'
<1>1. CASE Reply(h, 404, NoRun) /\ UNCHANGED sent
  BY <1>1, ReplyType DEF Load, TypeOK, store
<1>2. CASE at' = [at EXCEPT ![h] = "looking"] /\ UNCHANGED <<sent, answer>>
  BY <1>2 DEF Load, TypeOK, store, Places
<1>3. CASE Call(h) /\ UNCHANGED answer
  BY <1>3 DEF Load, TypeOK, store, Places, Call
<1> QED BY <1>1, <1>2, <1>3 DEF Load

LEMMA LookUpType == ASSUME TypeOK, NEW h \in Handlers, LookUp(h) PROVE TypeOK'
<1>1. ASSUME NEW r \in Replayed(UnderKey(ask[h])), Reply(h, 200, r), UNCHANGED sent
      PROVE  TypeOK'
  <2>1. r \in Run BY <1>1 DEF Replayed, UnderKey, TypeOK
  <2> QED BY <1>1, <2>1, ReplyType DEF LookUp, TypeOK, store
<1>2. CASE Call(h) /\ UNCHANGED answer
  BY <1>2 DEF LookUp, TypeOK, store, Places, Call
<1> QED BY <1>1, <1>2 DEF LookUp

LEMMA SaveType == ASSUME TypeOK, NEW h \in Handlers, Save(h) PROVE TypeOK'
<1>1. CASE Insert(h) /\ Reply(h, 201, RowOf(h))
  <2>1. RowOf(h) \in Run BY RowType
  <2>2. /\ at' \in [Handlers -> Places]
        /\ answer' \in [Handlers -> [status : {0, 200, 201, 404, 409, 503},
                                     run : Run \cup {NoRun}]]
    BY <1>1, <2>1, ReplyType
  <2>3. /\ runs' \subseteq Run
        /\ lastRun' \in Nat
        /\ experiment' = experiment
        /\ reviewed' = reviewed
    BY <1>1, InsertType
  <2>4. UNCHANGED <<entry, told, executed, sent, ask, observed>>
    BY DEF Save, runner
  <2> QED BY <2>2, <2>3, <2>4 DEF TypeOK
<1>2. CASE UNCHANGED store /\ Reply(h, 409, NoRun)
  BY <1>2, ReplyType DEF Save, TypeOK, runner, store
<1> QED BY <1>1, <1>2 DEF Save

LEMMA FaultType ==
  ASSUME TypeOK, NEW h \in Handlers, DatabaseFault(h) PROVE TypeOK'
<1>1. CASE UNCHANGED store
  BY <1>1, ReplyType DEF DatabaseFault, TypeOK, runner, store
<1>2. CASE Insert(h)
  <2>1. Reply(h, 503, NoRun) BY DEF DatabaseFault
  <2>2. /\ at' \in [Handlers -> Places]
        /\ answer' \in [Handlers -> [status : {0, 200, 201, 404, 409, 503},
                                     run : Run \cup {NoRun}]]
    BY <2>1, ReplyType
  <2>3. /\ runs' \subseteq Run
        /\ lastRun' \in Nat
        /\ experiment' = experiment
        /\ reviewed' = reviewed
    BY <1>2, InsertType
  <2>4. UNCHANGED <<entry, told, executed, sent, ask, observed>>
    BY DEF DatabaseFault, runner
  <2> QED BY <2>2, <2>3, <2>4 DEF TypeOK
<1> QED BY <1>1, <1>2 DEF DatabaseFault

LEMMA ExpireType == ASSUME TypeOK, NEW h \in Handlers, Expire(h) PROVE TypeOK'
BY ObserveType DEF Expire, Observe, Codes, TypeOK, store

LEMMA LoseRunnerType ==
  ASSUME TypeOK, NEW h \in Handlers, LoseRunner(h) PROVE TypeOK'
BY ObserveType DEF LoseRunner, Observe, Codes, TypeOK, store

LEMMA AcceptType == ASSUME TypeOK, NEW h \in Handlers, Accept(h) PROVE TypeOK'
<1>1. executed' \in [Experiments \X Keys -> Nat]
  BY DEF Accept, TypeOK
<1>2. entry' \in [Operations -> Entry \cup {NoEntry}]
  BY MovesType, OfType DEF Accept
<1> QED BY <1>1, <1>2 DEF Accept, TypeOK, store

LEMMA ProgressType ==
  ASSUME TypeOK, NEW op \in Operations, Progress(op) PROVE TypeOK'
<1>1. entry' \in [Operations -> Entry \cup {NoEntry}] BY MovesType DEF Progress
<1> QED BY <1>1 DEF Progress, TypeOK, store

LEMMA RespondType == ASSUME TypeOK, NEW h \in Handlers, Respond(h) PROVE TypeOK'
<1>1. UNCHANGED <<store, entry, executed, ask, answer>> BY DEF Respond, Observe
<1>2. ASSUME NEW o \in Results, Observe(h, "OK", o),
             Tell(h, [kind |-> "completed", outcome |-> o,
                      fingerprint |-> ask[h].experiment])
      PROVE  TypeOK'
  <2>1. [kind |-> "completed", outcome |-> o, fingerprint |-> ask[h].experiment]
          \in Verdict
    BY OfType DEF Verdict, Results
  <2> QED BY <1>1, <1>2, <2>1, TellType, ObserveType DEF TypeOK, store, Codes
<1>3. ASSUME NEW k \in {"aborted", "conflict"}, NEW code \in {"ABORTED", "ALREADY_EXISTS"},
             Observe(h, code, ""),
             Tell(h, [kind |-> k, fingerprint |-> ask[h].experiment])
      PROVE  TypeOK'
  <2>1. [kind |-> k, fingerprint |-> ask[h].experiment] \in Verdict
    BY OfType DEF Verdict
  <2>2. told' \in [Operations -> SUBSET Verdict] /\ sent' \subseteq Handlers
    BY <1>3, <2>1, TellType
  <2>3. code \in Codes /\ code # "OK" BY DEF Codes
  <2>4. at' \in [Handlers -> Places] /\ observed' \in [Handlers -> Observation]
    BY <1>3, <2>3, ObserveType
  <2> QED BY <1>1, <2>2, <2>4 DEF TypeOK, store
<1>4. CASE Observe(h, "INTERNAL", "") /\ sent' = sent \ {h} /\ UNCHANGED told
  BY <1>1, <1>4, ObserveType DEF TypeOK, store, Codes
<1> QED BY <1>2, <1>3, <1>4 DEF Respond

LEMMA OthersType ==
  ASSUME TypeOK,
         \/ \E e \in Experiments : CreateExperiment(e) \/ DeleteExperiment(e)
         \/ \E r \in runs : Submit(r)
         \/ Crash
  PROVE  TypeOK'
<1>1. ASSUME NEW e \in Experiments, CreateExperiment(e) PROVE TypeOK'
  BY <1>1 DEF CreateExperiment, TypeOK, runner
<1>2. ASSUME NEW e \in Experiments, DeleteExperiment(e) PROVE TypeOK'
  BY <1>2 DEF DeleteExperiment, TypeOK, runner
<1>3. ASSUME NEW r \in runs, Submit(r) PROVE TypeOK'
  <2>1. r \in Run BY DEF TypeOK
  <2>2. r.id \in Nat BY <2>1 DEF Run
  <2>5. reviewed' = reviewed \cup {r.id} /\ reviewed \subseteq Nat
    BY <1>3 DEF Submit, TypeOK
  <2>3. reviewed' \subseteq Nat BY <2>2, <2>5
  <2>4. UNCHANGED <<experiment, runs, lastRun, entry, told, executed, sent, at,
                    ask, observed, answer>>
    BY <1>3 DEF Submit, runner
  <2> QED BY <2>3, <2>4 DEF TypeOK
<1>4. ASSUME Crash PROVE TypeOK'
  BY <1>4 DEF Crash, TypeOK, runner, store, Places
<1> QED BY <1>1, <1>2, <1>3, <1>4

LEMMA TypeStep == TypeOK /\ [Next]_vars => TypeOK'
<1> SUFFICES ASSUME TypeOK, [Next]_vars PROVE TypeOK' OBVIOUS
<1>1. CASE UNCHANGED vars BY <1>1 DEF vars, store, runner, TypeOK
<1>2. ASSUME NEW h \in Handlers, Step(h) PROVE TypeOK'
  BY <1>2, LoadType, LookUpType, SaveType, FaultType DEF Step
<1> QED BY <1>1, <1>2, OthersType, ExpireType, LoseRunnerType, AcceptType,
           RespondType, ProgressType DEF Next

(* Every variable keeps its type (the columns and their CHECK constraints  *)
(* in database/schema.sqlite.sql, the outcomes of runner-client.ts).       *)
THEOREM AttemptsTypeCorrect == Spec => []TypeOK
<1>1. Init => TypeOK
  BY DEF Init, TypeOK, NoAnswer, NoObservation, Observation, Codes, Outcomes, Places
<1> QED BY <1>1, TypeStep, PTL DEF Spec
-----------------------------------------------------------------------------
(* The invariant.                                                          *)

(* What the coordinator was told, it was told in truth.                    *)
TruthTold == \A op \in Operations : \A v \in told[op] : Promise!Upheld(v, entry[op])

(* An operation is about the experiment it names.                          *)
OwnEntries == /\ \A op \in Operations :
                   entry[op] # NoEntry => entry[op].fingerprint = op[1]
              /\ \A op \in Operations : \A v \in told[op] : v.fingerprint = op[1]

(* What was executed for a key is the entry of the key's operation, which  *)
(* is never absent again.                                                  *)
KeysCounted ==
  \A x \in Experiments \X Keys : /\ executed[x] <= 1
                                 /\ executed[x] = 1 => entry[x] # NoEntry

(* A run names the operation of its key.                                   *)
RunsNamed == \A r \in runs : r.key # NoKey => r.op = <<r.experiment, r.key>>

(* What a handler observed, or a run says, the runner has told.            *)
Heard(op, e, code, outcome) ==
  /\ code = "OK" => [kind |-> "completed", outcome |-> outcome,
                     fingerprint |-> e] \in told[op]
  /\ code = "ABORTED" => [kind |-> "aborted", fingerprint |-> e] \in told[op]

ObservationsHeard ==
  \A h \in Handlers : at[h] = "saving" =>
     Heard(Of(h), ask[h].experiment, observed[h].code, observed[h].outcome)

RunsHeard ==
  \A r \in runs : Heard(r.op, r.experiment, r.code, r.outcome)

AttemptsInv == /\ TypeOK
        /\ NoOrphans
        /\ TruthTold
        /\ OwnEntries
        /\ KeysCounted
        /\ RunsNamed
        /\ ObservationsHeard
        /\ RunsHeard

LEMMA OfNames ==
  ASSUME TypeOK, NEW h \in Handlers
  PROVE  Of(h)[1] = ask[h].experiment
BY DEF Of, Operation

(* The store: NoOrphans.                                                   *)
LEMMA OrphansStep ==
  ASSUME TypeOK, NoOrphans, [Next]_vars
  PROVE  NoOrphans'
<1>1. CASE UNCHANGED store BY <1>1 DEF store, NoOrphans
<1>2. ASSUME NEW h \in Handlers, Insert(h), experiment[ask[h].experiment] = "stored"
      PROVE  NoOrphans'
  <2>1. RowOf(h).experiment = ask[h].experiment BY DEF RowOf
  <2>2. /\ runs' = runs \cup {RowOf(h)}
        /\ UNCHANGED <<experiment, reviewed>>
    BY <1>2 DEF Insert
  <2> QED BY <1>2, <2>1, <2>2 DEF NoOrphans
<1>3. ASSUME NEW e \in Experiments, CreateExperiment(e) PROVE NoOrphans'
  <2>1. \A r \in runs : r.experiment \in Experiments BY DEF TypeOK, Run
  <2>2. \A r \in runs : experiment'[r.experiment] = "stored"
    BY <1>3, <2>1 DEF CreateExperiment, NoOrphans, TypeOK
  <2> QED BY <1>3, <2>2 DEF CreateExperiment, NoOrphans
<1>4. ASSUME NEW e \in Experiments, DeleteExperiment(e) PROVE NoOrphans'
  <2>1. \A r \in runs : r.experiment \in Experiments BY DEF TypeOK, Run
  <2>2. /\ runs' = runs \ RunsOf(e)
        /\ reviewed' = reviewed
        /\ experiment' = [experiment EXCEPT ![e] = "deleted"]
        /\ \A r \in RunsOf(e) : r.id \notin reviewed
    BY <1>4 DEF DeleteExperiment
  <2>3. \A r \in runs' : r \in runs /\ r.experiment # e BY <2>2 DEF RunsOf
  <2>4. \A r \in runs' : experiment'[r.experiment] = "stored"
    BY <2>1, <2>2, <2>3 DEF NoOrphans, TypeOK
  <2>5. ASSUME NEW i \in reviewed PROVE i \in {r.id : r \in runs'}
    <3>1. PICK r \in runs : r.id = i BY DEF NoOrphans
    <3>2. r \notin RunsOf(e) BY <2>2, <3>1
    <3> QED BY <2>2, <3>1, <3>2
  <2> QED BY <2>2, <2>4, <2>5 DEF NoOrphans
<1>5. ASSUME NEW r \in runs, Submit(r) PROVE NoOrphans'
  BY <1>5 DEF Submit, NoOrphans
<1>6. ASSUME NEW h \in Handlers, Step(h) PROVE NoOrphans'
  <2>1. \/ UNCHANGED store
        \/ Insert(h) /\ experiment[ask[h].experiment] = "stored"
    BY <1>6 DEF Step, Load, LookUp, Save, DatabaseFault
  <2> QED BY <1>1, <1>2, <2>1
<1>7. ASSUME NEW h \in Handlers,
             Expire(h) \/ LoseRunner(h) \/ Accept(h) \/ Respond(h)
      PROVE  UNCHANGED store
  BY <1>7 DEF Expire, LoseRunner, Accept, Respond, Observe
<1>8. ASSUME NEW op \in Operations, Progress(op) PROVE UNCHANGED store
  BY <1>8 DEF Progress
<1>9. ASSUME Crash PROVE UNCHANGED store BY <1>9 DEF Crash
<1>10. CASE UNCHANGED vars BY <1>1, <1>10 DEF vars
<1> QED BY <1>1, <1>3, <1>4, <1>5, <1>6, <1>7, <1>8, <1>9, <1>10 DEF Next

(* The runner: what is told stays true, because the ledger moves only as   *)
(* its promise allows.                                                     *)
LEMMA TruthStep ==
  ASSUME TypeOK, TruthTold, [Next]_vars
  PROVE  TruthTold'
<1>1. ASSUME NEW op \in Operations, NEW e, MovesTo(op, e), told' = told
      PROVE  TruthTold'
  <2> SUFFICES ASSUME NEW o \in Operations, NEW v \in told'[o]
               PROVE  Promise!Upheld(v, entry'[o])
    BY DEF TruthTold
  <2>1. CASE o = op
    <3>1. entry'[o] = e BY <1>1, <2>1 DEF MovesTo, TypeOK
    <3>2. Promise!Upheld(v, e) BY <1>1, <2>1 DEF MovesTo
    <3> QED BY <3>1, <3>2
  <2>2. CASE o # op
    <3>1. entry'[o] = entry[o] BY <1>1, <2>2 DEF MovesTo, TypeOK
    <3>2. Promise!Upheld(v, entry[o]) BY <1>1 DEF TruthTold
    <3> QED BY <3>1, <3>2
  <2> QED BY <2>1, <2>2
<1>2. ASSUME NEW h \in Handlers, NEW w, Tell(h, w), entry' = entry
      PROVE  TruthTold'
  <2> SUFFICES ASSUME NEW o \in Operations, NEW v \in told'[o]
               PROVE  Promise!Upheld(v, entry[o])
    BY <1>2 DEF TruthTold
  <2>1. told' = [told EXCEPT ![Of(h)] = @ \cup {w}] BY <1>2 DEF Tell
  <2>2. CASE v \in told[o] BY <2>2 DEF TruthTold
  <2>3. CASE v \notin told[o]
    <3>1. o = Of(h) /\ v = w BY <2>1, <2>3 DEF TypeOK
    <3> QED BY <1>2, <3>1 DEF Tell
  <2> QED BY <2>2, <2>3
<1>3. CASE UNCHANGED <<entry, told>> BY <1>3 DEF TruthTold
<1>4. ASSUME NEW h \in Handlers, Step(h) \/ Expire(h) \/ LoseRunner(h)
      PROVE  UNCHANGED <<entry, told>>
  BY <1>4 DEF Step, Load, LookUp, Save, DatabaseFault, Expire, LoseRunner,
              Observe, runner
<1>5. ASSUME NEW h \in Handlers, Accept(h) PROVE TruthTold'
  BY <1>1, <1>5, OfType DEF Accept
<1>6. ASSUME NEW op \in Operations, Progress(op) PROVE TruthTold'
  BY <1>1, <1>6 DEF Progress
<1>7. ASSUME NEW h \in Handlers, Respond(h) PROVE TruthTold'
  <2>1. entry' = entry BY <1>7 DEF Respond, Observe
  <2>2. (\E w : Tell(h, w)) \/ told' = told BY <1>7 DEF Respond
  <2> QED BY <1>2, <1>3, <2>1, <2>2
<1>8. CASE UNCHANGED vars BY <1>3, <1>8 DEF vars, runner
<1>9. ASSUME \/ \E e \in Experiments : CreateExperiment(e) \/ DeleteExperiment(e)
             \/ \E r \in runs : Submit(r)
             \/ Crash
      PROVE  UNCHANGED <<entry, told>>
  BY <1>9 DEF CreateExperiment, DeleteExperiment, Submit, Crash, runner
<1> QED BY <1>3, <1>4, <1>5, <1>6, <1>7, <1>8, <1>9 DEF Next

LEMMA OwnStep ==
  ASSUME TypeOK, OwnEntries, [Next]_vars
  PROVE  OwnEntries'
<1>1. ASSUME NEW op \in Operations, NEW e \in Entry, MovesTo(op, e), told' = told,
             e.fingerprint = op[1]
      PROVE  OwnEntries'
  <2>1. entry' = [entry EXCEPT ![op] = e] BY <1>1 DEF MovesTo
  <2>2. \A o \in Operations : entry'[o] # NoEntry => entry'[o].fingerprint = o[1]
    BY <1>1, <2>1 DEF OwnEntries, TypeOK
  <2> QED BY <1>1, <2>2 DEF OwnEntries
<1>2. ASSUME NEW h \in Handlers, NEW w, Tell(h, w), entry' = entry,
             w.fingerprint = ask[h].experiment
      PROVE  OwnEntries'
  <2> SUFFICES ASSUME NEW o \in Operations, NEW v \in told'[o]
               PROVE  v.fingerprint = o[1]
    BY <1>2 DEF OwnEntries
  <2>1. told' = [told EXCEPT ![Of(h)] = @ \cup {w}] BY <1>2 DEF Tell
  <2>2. CASE v \in told[o] BY <2>2 DEF OwnEntries
  <2>3. CASE v \notin told[o]
    <3>1. o = Of(h) /\ v = w BY <2>1, <2>3 DEF TypeOK
    <3> QED BY <1>2, <3>1, OfNames
  <2> QED BY <2>2, <2>3
<1>3. CASE UNCHANGED <<entry, told>> BY <1>3 DEF OwnEntries
<1>4. ASSUME NEW h \in Handlers, Step(h) \/ Expire(h) \/ LoseRunner(h)
      PROVE  UNCHANGED <<entry, told>>
  BY <1>4 DEF Step, Load, LookUp, Save, DatabaseFault, Expire, LoseRunner,
              Observe, runner
<1>5. ASSUME NEW h \in Handlers, Accept(h) PROVE OwnEntries'
  <2>1. PICK e \in Entry : e.fingerprint = ask[h].experiment /\ MovesTo(Of(h), e)
    BY <1>5 DEF Accept
  <2>2. told' = told BY <1>5 DEF Accept
  <2> QED BY <1>1, <2>1, <2>2, OfType, OfNames
<1>6. ASSUME NEW op \in Operations, Progress(op) PROVE OwnEntries'
  <2>1. PICK e \in Entry : MovesTo(op, e) BY <1>6 DEF Progress
  <2>2. entry[op].state = "RUNNING" /\ told' = told BY <1>6 DEF Progress
  <2>6. NoEntry.state = "ABSENT" BY DEF NoEntry
  <2>3. entry[op] # NoEntry BY <2>2, <2>6
  <2>4. e.fingerprint = entry[op].fingerprint
    BY <2>1, <2>2 DEF MovesTo, Promise!Evolves
  <2>5. entry[op].fingerprint = op[1] BY <2>3 DEF OwnEntries
  <2> QED BY <1>1, <2>1, <2>2, <2>4, <2>5
<1>7. ASSUME NEW h \in Handlers, Respond(h) PROVE OwnEntries'
  <2>1. entry' = entry BY <1>7 DEF Respond, Observe
  <2>2. ASSUME NEW o, Tell(h, [kind |-> "completed", outcome |-> o,
                               fingerprint |-> ask[h].experiment])
        PROVE  OwnEntries'
    <3>1. [kind |-> "completed", outcome |-> o,
           fingerprint |-> ask[h].experiment].fingerprint = ask[h].experiment
      OBVIOUS
    <3> QED BY <1>2, <2>1, <2>2, <3>1
  <2>3. ASSUME NEW k, Tell(h, [kind |-> k, fingerprint |-> ask[h].experiment])
        PROVE  OwnEntries'
    <3>1. [kind |-> k, fingerprint |-> ask[h].experiment].fingerprint
            = ask[h].experiment
      OBVIOUS
    <3> QED BY <1>2, <2>1, <2>3, <3>1
  <2> QED BY <1>3, <1>7, <2>1, <2>2, <2>3 DEF Respond
<1>8. CASE UNCHANGED vars BY <1>3, <1>8 DEF vars, runner
<1>9. ASSUME \/ \E e \in Experiments : CreateExperiment(e) \/ DeleteExperiment(e)
             \/ \E r \in runs : Submit(r)
             \/ Crash
      PROVE  UNCHANGED <<entry, told>>
  BY <1>9 DEF CreateExperiment, DeleteExperiment, Submit, Crash, runner
<1> QED BY <1>3, <1>4, <1>5, <1>6, <1>7, <1>8, <1>9 DEF Next

LEMMA EntryPresent == ASSUME NEW e \in Entry PROVE e # NoEntry
<1>1. e.state # "ABSENT" BY DEF Entry
<1>2. NoEntry.state = "ABSENT" BY DEF NoEntry
<1> QED BY <1>1, <1>2

LEMMA CountedStep ==
  ASSUME TypeOK, KeysCounted, [Next]_vars
  PROVE  KeysCounted'
<1>1. ASSUME NEW op \in Operations, NEW e \in Entry, MovesTo(op, e)
      PROVE  \A o \in Operations : entry[o] # NoEntry => entry'[o] # NoEntry
  <2>1. e # NoEntry BY EntryPresent
  <2>2. entry' = [entry EXCEPT ![op] = e] BY <1>1 DEF MovesTo
  <2> QED BY <2>1, <2>2 DEF TypeOK
<1>2. \A x \in Experiments \X Keys : x \in Operations BY DEF Operations
<1>3. CASE UNCHANGED <<entry, executed>> BY <1>3 DEF KeysCounted
<1>4. ASSUME NEW h \in Handlers, Accept(h) PROVE KeysCounted'
  <2> SUFFICES ASSUME NEW x \in Experiments \X Keys
               PROVE  /\ executed'[x] <= 1
                      /\ executed'[x] = 1 => entry'[x] # NoEntry
    BY DEF KeysCounted
  <2>1. PICK e \in Entry : MovesTo(Of(h), e) BY <1>4 DEF Accept
  <2>2. executed[x] \in Nat /\ x \in Operations BY <1>2 DEF TypeOK
  <2>3. CASE x = <<ask[h].experiment, ask[h].key>>
    <3>1. ask[h].key \in Keys BY <2>3
    <3>2. Of(h) = x BY <2>3, <3>1, AttemptsConstants DEF Of, Operation
    <3>3. entry[x] = NoEntry BY <1>4, <3>2 DEF Accept
    <3>4. executed[x] = 0 BY <2>2, <3>3 DEF KeysCounted
    <3>5. executed'[x] = 1 BY <1>4, <2>3, <3>4 DEF Accept, TypeOK
    <3>6. entry' = [entry EXCEPT ![x] = e] BY <2>1, <3>2 DEF MovesTo
    <3>7. entry'[x] = e BY <2>2, <3>6 DEF TypeOK
    <3>8. e # NoEntry BY EntryPresent
    <3> QED BY <3>5, <3>7, <3>8
  <2>4. CASE x # <<ask[h].experiment, ask[h].key>>
    <3>1. executed'[x] = executed[x] BY <1>4, <2>4 DEF Accept, TypeOK
    <3>2. entry[x] # NoEntry => entry'[x] # NoEntry BY <1>1, <2>1, <2>2, OfType
    <3> QED BY <3>1, <3>2 DEF KeysCounted
  <2> QED BY <2>3, <2>4
<1>5. ASSUME NEW op \in Operations, Progress(op) PROVE KeysCounted'
  <2>1. PICK e \in Entry : MovesTo(op, e) BY <1>5 DEF Progress
  <2>2. executed' = executed BY <1>5 DEF Progress
  <2> QED BY <1>1, <1>2, <2>1, <2>2 DEF KeysCounted
<1>6. ASSUME NEW h \in Handlers,
             Step(h) \/ Expire(h) \/ LoseRunner(h) \/ Respond(h)
      PROVE  UNCHANGED <<entry, executed>>
  BY <1>6 DEF Step, Load, LookUp, Save, DatabaseFault, Expire, LoseRunner,
              Respond, Observe, runner
<1>7. ASSUME \/ \E e \in Experiments : CreateExperiment(e) \/ DeleteExperiment(e)
             \/ \E r \in runs : Submit(r)
             \/ Crash
             \/ UNCHANGED vars
      PROVE  UNCHANGED <<entry, executed>>
  BY <1>7 DEF CreateExperiment, DeleteExperiment, Submit, Crash, runner, vars
<1> QED BY <1>3, <1>4, <1>5, <1>6, <1>7 DEF Next

LEMMA NamedStep ==
  ASSUME TypeOK, RunsNamed, [Next]_vars
  PROVE  RunsNamed'
<1>1. ASSUME NEW h \in Handlers, Step(h)
      PROVE  runs' \subseteq runs \cup {RowOf(h)}
  BY <1>1 DEF Step, Load, LookUp, Save, DatabaseFault, Insert, store
<1>2. ASSUME NEW h \in Handlers
      PROVE  RowOf(h).key # NoKey => RowOf(h).op = <<RowOf(h).experiment, RowOf(h).key>>
  BY DEF RowOf, Of, Operation
<1>3. ASSUME NEW h \in Handlers,
             Expire(h) \/ LoseRunner(h) \/ Accept(h) \/ Respond(h)
      PROVE  runs' = runs
  BY <1>3 DEF Expire, LoseRunner, Accept, Respond, Observe, store
<1>4. ASSUME \/ \E e \in Experiments : CreateExperiment(e) \/ DeleteExperiment(e)
             \/ \E r \in runs : Submit(r)
             \/ \E op \in Operations : Progress(op)
             \/ Crash
             \/ UNCHANGED vars
      PROVE  runs' \subseteq runs
  BY <1>4 DEF CreateExperiment, DeleteExperiment, Submit, Crash, Progress,
              store, vars
<1> QED BY <1>1, <1>2, <1>3, <1>4 DEF Next, RunsNamed

(* The receipts: a handler saves what the runner told it.                  *)
LEMMA ToldGrows ==
  ASSUME TypeOK, [Next]_vars
  PROVE  /\ ask' = ask
         /\ \A op \in Operations : told[op] \subseteq told'[op]
<1>1. ASSUME NEW h \in Handlers, NEW w, Tell(h, w)
      PROVE  \A op \in Operations : told[op] \subseteq told'[op]
  BY <1>1, OfType DEF Tell, TypeOK
<1>2. ASSUME NEW h \in Handlers, Respond(h)
      PROVE  ask' = ask /\ \A op \in Operations : told[op] \subseteq told'[op]
  <2>1. ask' = ask BY <1>2 DEF Respond, Observe
  <2>2. (\E w : Tell(h, w)) \/ told' = told BY <1>2 DEF Respond
  <2> QED BY <1>1, <2>1, <2>2
<1>3. ASSUME NEW h \in Handlers,
             Step(h) \/ Expire(h) \/ LoseRunner(h) \/ Accept(h)
      PROVE  UNCHANGED <<ask, told>>
  BY <1>3 DEF Step, Load, LookUp, Save, DatabaseFault, Expire, LoseRunner,
              Accept, Observe, runner
<1>4. ASSUME \/ \E e \in Experiments : CreateExperiment(e) \/ DeleteExperiment(e)
             \/ \E r \in runs : Submit(r)
             \/ \E op \in Operations : Progress(op)
             \/ Crash
             \/ UNCHANGED vars
      PROVE  UNCHANGED <<ask, told>>
  BY <1>4 DEF CreateExperiment, DeleteExperiment, Submit, Crash, Progress,
              runner, vars
<1> QED BY <1>2, <1>3, <1>4 DEF Next

LEMMA SavingStep ==
  ASSUME TypeOK, [Next]_vars, NEW h \in Handlers, at'[h] = "saving"
  PROVE  \/ at[h] = "saving" /\ observed'[h] = observed[h]
         \/ Expire(h) \/ LoseRunner(h) \/ Respond(h)
<1>1. ASSUME NEW g \in Handlers, Step(g)
      PROVE  at[h] = "saving" /\ observed'[h] = observed[h]
  BY <1>1 DEF Step, Load, LookUp, Save, DatabaseFault, Reply, Call, TypeOK
<1>2. ASSUME NEW g \in Handlers, Expire(g) \/ LoseRunner(g) \/ Respond(g), g # h
      PROVE  at[h] = "saving" /\ observed'[h] = observed[h]
  <2>1. PICK code, o : Observe(g, code, o)
    BY <1>2 DEF Expire, LoseRunner, Respond
  <2> QED BY <1>2, <2>1 DEF Observe, TypeOK
<1>3. ASSUME \/ \E g \in Handlers : Accept(g)
             \/ \E e \in Experiments : CreateExperiment(e) \/ DeleteExperiment(e)
             \/ \E r \in runs : Submit(r)
             \/ \E op \in Operations : Progress(op)
             \/ UNCHANGED vars
      PROVE  at[h] = "saving" /\ observed'[h] = observed[h]
  BY <1>3 DEF Accept, CreateExperiment, DeleteExperiment, Submit, Progress, vars
<1>4. ASSUME Crash PROVE at[h] = "saving" /\ observed'[h] = observed[h]
  BY <1>4 DEF Crash, TypeOK
<1> QED BY <1>1, <1>2, <1>3, <1>4 DEF Next

LEMMA ObservationsStep ==
  ASSUME TypeOK, ObservationsHeard, [Next]_vars
  PROVE  ObservationsHeard'
<1> SUFFICES ASSUME NEW h \in Handlers, at'[h] = "saving"
             PROVE  Heard(Of(h), ask[h].experiment, observed[h].code,
                          observed[h].outcome)'
  BY DEF ObservationsHeard
<1>1. /\ ask' = ask
      /\ Of(h)' = Of(h)
      /\ Of(h) \in Operations
      /\ told[Of(h)] \subseteq told'[Of(h)]
  BY ToldGrows, OfType DEF Of, Operation
<1>2. CASE at[h] = "saving" /\ observed'[h] = observed[h]
  BY <1>1, <1>2 DEF ObservationsHeard, Heard
<1>3. ASSUME NEW code, NEW o, Observe(h, code, o)
      PROVE  /\ observed'[h].code = code
             /\ observed'[h].outcome = Classify(code, o)
  BY <1>3 DEF Observe, TypeOK
<1>4. CASE Expire(h) \/ LoseRunner(h)
  <2>1. CASE Observe(h, "DEADLINE_EXCEEDED", "")
    <3>1. observed'[h].code = "DEADLINE_EXCEEDED" BY <1>3, <2>1
    <3> QED BY <3>1 DEF Heard
  <2>2. CASE Observe(h, "UNAVAILABLE", "")
    <3>1. observed'[h].code = "UNAVAILABLE" BY <1>3, <2>2
    <3> QED BY <3>1 DEF Heard
  <2> QED BY <1>4, <2>1, <2>2 DEF Expire, LoseRunner
<1>5. CASE Respond(h)
  <2>1. ASSUME NEW w, Tell(h, w) PROVE w \in told'[Of(h)]
    BY <1>1, <2>1 DEF Tell, TypeOK
  <2>2. ASSUME NEW o, Observe(h, "OK", o),
               Tell(h, [kind |-> "completed", outcome |-> o,
                        fingerprint |-> ask[h].experiment])
        PROVE  Heard(Of(h), ask[h].experiment, observed[h].code,
                     observed[h].outcome)'
    <3>1. Classify("OK", o) = o BY DEF Classify
    <3>2. observed'[h].code = "OK" /\ observed'[h].outcome = o
      BY <1>3, <2>2, <3>1
    <3> QED BY <1>1, <2>1, <2>2, <3>2 DEF Heard
  <2>3. ASSUME NEW k \in {"aborted", "conflict"},
               Observe(h, IF entry[Of(h)].fingerprint = ask[h].experiment
                            THEN "ABORTED" ELSE "ALREADY_EXISTS", ""),
               Tell(h, [kind |-> k, fingerprint |-> ask[h].experiment])
        PROVE  Heard(Of(h), ask[h].experiment, observed[h].code,
                     observed[h].outcome)'
    <3>1. CASE entry[Of(h)].fingerprint = ask[h].experiment
      <4>1. k = "aborted"
        <5> SUFFICES ASSUME k = "conflict" PROVE FALSE OBVIOUS
        <5>1. Promise!Upheld([kind |-> "conflict", fingerprint |-> ask[h].experiment],
                             entry[Of(h)])
          BY <2>3 DEF Tell
        <5> QED BY <3>1, <5>1 DEF Promise!Upheld
      <4>2. observed'[h].code = "ABORTED" BY <1>3, <2>3, <3>1
      <4> QED BY <1>1, <2>1, <2>3, <4>1, <4>2 DEF Heard
    <3>2. CASE entry[Of(h)].fingerprint # ask[h].experiment
      <4>1. observed'[h].code = "ALREADY_EXISTS" BY <1>3, <2>3, <3>2
      <4> QED BY <4>1 DEF Heard
    <3> QED BY <3>1, <3>2
  <2>4. ASSUME Observe(h, "INTERNAL", "")
        PROVE  Heard(Of(h), ask[h].experiment, observed[h].code,
                     observed[h].outcome)'
    <3>1. observed'[h].code = "INTERNAL" BY <1>3, <2>4
    <3> QED BY <3>1 DEF Heard
  <2> QED BY <1>5, <2>2, <2>3, <2>4 DEF Respond
<1> QED BY <1>2, <1>4, <1>5, SavingStep

LEMMA RunsStep ==
  ASSUME TypeOK, ObservationsHeard, RunsHeard, [Next]_vars
  PROVE  RunsHeard'
<1>1. ASSUME NEW r \in runs
      PROVE  Heard(r.op, r.experiment, r.code, r.outcome)'
  <2>1. r \in Run BY DEF TypeOK
  <2>2. r.op \in Operations
    BY <2>1 DEF Run
  <2>3. told[r.op] \subseteq told'[r.op] BY <2>2, ToldGrows
  <2>4. Heard(r.op, r.experiment, r.code, r.outcome) BY DEF RunsHeard
  <2> QED BY <2>3, <2>4 DEF Heard
<1>2. ASSUME NEW h \in Handlers, at[h] = "saving"
      PROVE  Heard(RowOf(h).op, RowOf(h).experiment, RowOf(h).code,
                   RowOf(h).outcome)
  <2>1. Heard(Of(h), ask[h].experiment, observed[h].code, observed[h].outcome)
    BY <1>2 DEF ObservationsHeard
  <2>2. /\ RowOf(h).experiment = ask[h].experiment
        /\ RowOf(h).op = Of(h)
        /\ RowOf(h).code = observed[h].code
        /\ RowOf(h).outcome = observed[h].outcome
    BY DEF RowOf
  <2> QED BY <2>1, <2>2
<1>3. CASE runs' \subseteq runs BY <1>1, <1>3 DEF RunsHeard
<1>4. ASSUME NEW h \in Handlers, Insert(h), at[h] = "saving", told' = told
      PROVE  RunsHeard'
  <2>1. runs' = runs \cup {RowOf(h)} BY <1>4 DEF Insert
  <2>2. ASSUME NEW r \in runs'
        PROVE  Heard(r.op, r.experiment, r.code, r.outcome)
    <3>1. CASE r \in runs BY <3>1 DEF RunsHeard
    <3>2. CASE r = RowOf(h) BY <1>2, <1>4, <3>2
    <3> QED BY <2>1, <3>1, <3>2
  <2> QED BY <1>4, <2>2 DEF RunsHeard, Heard
<1>5. ASSUME NEW h \in Handlers, Step(h) PROVE RunsHeard'
  <2>1. told' = told
    BY <1>5 DEF Step, Load, LookUp, Save, DatabaseFault, runner
  <2>2. \/ runs' \subseteq runs
        \/ Insert(h) /\ at[h] = "saving"
    BY <1>5 DEF Step, Load, LookUp, Save, DatabaseFault, store
  <2> QED BY <1>3, <1>4, <1>5, <2>1, <2>2
<1>6. ASSUME NEW h \in Handlers,
             Expire(h) \/ LoseRunner(h) \/ Accept(h) \/ Respond(h)
      PROVE  runs' = runs
  BY <1>6 DEF Expire, LoseRunner, Accept, Respond, Observe, store
<1>7. ASSUME \/ \E e \in Experiments : CreateExperiment(e) \/ DeleteExperiment(e)
             \/ \E r \in runs : Submit(r)
             \/ \E op \in Operations : Progress(op)
             \/ Crash
             \/ UNCHANGED vars
      PROVE  runs' \subseteq runs
  BY <1>7 DEF CreateExperiment, DeleteExperiment, Submit, Crash, Progress,
              store, vars
<1> QED BY <1>3, <1>5, <1>6, <1>7 DEF Next
-----------------------------------------------------------------------------
THEOREM AttemptsInvariant == Spec => []AttemptsInv
<1>1. Init => AttemptsInv
  <2> SUFFICES ASSUME Init PROVE AttemptsInv OBVIOUS
  <2>1. TypeOK
    BY DEF Init, TypeOK, NoAnswer, NoObservation, Observation, Codes, Outcomes,
           Places
  <2>2. NoOrphans /\ KeysCounted /\ RunsNamed /\ RunsHeard
    BY DEF Init, NoOrphans, KeysCounted, RunsNamed, RunsHeard
  <2>3. TruthTold /\ OwnEntries BY DEF Init, TruthTold, OwnEntries
  <2>4. ObservationsHeard BY DEF Init, ObservationsHeard
  <2> QED BY <2>1, <2>2, <2>3, <2>4 DEF AttemptsInv
<1>2. AttemptsInv /\ [Next]_vars => AttemptsInv'
  BY TypeStep, OrphansStep, TruthStep, OwnStep, CountedStep, NamedStep,
     ObservationsStep, RunsStep DEF AttemptsInv
<1> QED BY <1>1, <1>2, PTL DEF Spec

(* Every run keeps its experiment and every review its run, for all        *)
(* interleavings of deletes, submissions and late results.                 *)
THEOREM NothingOrphaned == Spec => []NoOrphans
<1>1. AttemptsInv => NoOrphans BY DEF AttemptsInv
<1> QED BY <1>1, AttemptsInvariant, PTL

(* The coordinator gives the runner no cause to answer ALREADY_EXISTS.     *)
THEOREM NeverConflicts == Spec => []NoConflicts
<1>1. AttemptsInv => NoConflicts
  <2> SUFFICES ASSUME AttemptsInv, NEW op \in Operations, NEW v \in told[op],
                      v.kind = "conflict"
               PROVE  FALSE
    BY DEF NoConflicts
  <2>1. Promise!Upheld(v, entry[op]) BY DEF AttemptsInv, TruthTold
  <2>2. entry[op].state # "ABSENT" /\ entry[op].fingerprint # v.fingerprint
    BY <2>1 DEF Promise!Upheld
  <2>3. NoEntry.state = "ABSENT" BY DEF NoEntry
  <2>4. entry[op] # NoEntry BY <2>2, <2>3
  <2> QED BY <2>2, <2>4 DEF AttemptsInv, OwnEntries
<1> QED BY <1>1, AttemptsInvariant, PTL

(* What the ledger holds of the operation a receipt names.                 *)
LEMMA ReceiptUpheld ==
  ASSUME AttemptsInv, NEW r \in runs
  PROVE  /\ r.code = "OK" => /\ entry[r.op].state = "COMPLETED"
                             /\ entry[r.op].fingerprint = r.experiment
                             /\ entry[r.op].outcome = r.outcome
         /\ r.code = "ABORTED" => entry[r.op].state \in {"RUNNING", "INTERRUPTED"}
<1>1. r.op \in Operations
  <2>1. r \in Run BY DEF AttemptsInv, TypeOK
  <2> QED BY <2>1 DEF Run
<1>2. Heard(r.op, r.experiment, r.code, r.outcome) BY DEF AttemptsInv, RunsHeard
<1>3. \A v \in told[r.op] : Promise!Upheld(v, entry[r.op])
  BY <1>1 DEF AttemptsInv, TruthTold
<1>4. ASSUME r.code = "OK"
      PROVE  /\ entry[r.op].state = "COMPLETED"
             /\ entry[r.op].fingerprint = r.experiment
             /\ entry[r.op].outcome = r.outcome
  <2>1. Promise!Upheld([kind |-> "completed", outcome |-> r.outcome,
                        fingerprint |-> r.experiment], entry[r.op])
    BY <1>2, <1>3, <1>4 DEF Heard
  <2> QED BY <2>1 DEF Promise!Upheld
<1>5. ASSUME r.code = "ABORTED"
      PROVE  entry[r.op].state \in {"RUNNING", "INTERRUPTED"}
  <2>1. Promise!Upheld([kind |-> "aborted", fingerprint |-> r.experiment],
                       entry[r.op])
    BY <1>2, <1>3, <1>5 DEF Heard
  <2> QED BY <2>1 DEF Promise!Upheld
<1> QED BY <1>4, <1>5

(* What a receipt says of an execution stays true of the runner's ledger.  *)
THEOREM ReceiptsStayTrue == Spec => []ReceiptsMatchLedger
<1>1. AttemptsInv => ReceiptsMatchLedger
  BY ReceiptUpheld DEF ReceiptsMatchLedger
<1> QED BY <1>1, AttemptsInvariant, PTL

(* At most one execution is begun for a key and its experiment, and the    *)
(* receipts under the key agree on what it came to, whoever sends the key, *)
(* however often, and whatever correlation IDs come with it.               *)
THEOREM KeysRunOnce == Spec => []KeyRunsOnce
<1>1. AttemptsInv => KeyRunsOnce
  <2> SUFFICES ASSUME AttemptsInv PROVE KeyRunsOnce OBVIOUS
  <2>1. \A x \in Experiments \X Keys : executed[x] <= 1
    BY DEF AttemptsInv, KeysCounted
  <2>2. ASSUME NEW r \in runs, NEW s \in runs,
               r.key # NoKey, r.key = s.key, r.experiment = s.experiment,
               r.code = "OK", s.code \in {"OK", "ABORTED"}
        PROVE  s.code = "OK" /\ s.outcome = r.outcome
    <3>1. r.op = s.op BY <2>2 DEF AttemptsInv, RunsNamed
    <3>2. entry[r.op].state = "COMPLETED" /\ entry[r.op].outcome = r.outcome
      BY <2>2, ReceiptUpheld
    <3>3. s.code = "ABORTED" => entry[s.op].state \in {"RUNNING", "INTERRUPTED"}
      BY <2>2, ReceiptUpheld
    <3>4. s.code = "OK" => entry[s.op].outcome = s.outcome
      BY <2>2, ReceiptUpheld
    <3> QED BY <2>2, <3>1, <3>2, <3>3, <3>4
  <2> QED BY <2>1, <2>2 DEF KeyRunsOnce
<1> QED BY <1>1, AttemptsInvariant, PTL

(* A submitted run is never lost or rewritten: the delete is restricted by *)
(* the review, and nothing updates a run.                                  *)
THEOREM SubmittedEvidenceKept == Spec => EvidenceKept
<1>1. TypeOK /\ NoOrphans' /\ [Next]_vars =>
        [/\ \A r \in runs : \/ r \in runs'
                            \/ /\ r.id \notin reviewed
                               /\ experiment'[r.experiment] = "deleted"
         /\ \A r \in runs' : experiment'[r.experiment] = "stored"]_vars
  <2> SUFFICES ASSUME TypeOK, Next, NEW r \in runs, r \notin runs'
               PROVE  r.id \notin reviewed /\ experiment'[r.experiment] = "deleted"
    BY DEF NoOrphans
  <2>1. PICK e \in Experiments : DeleteExperiment(e)
    <3>1. ASSUME NEW h \in Handlers,
                 \/ Step(h) \/ Expire(h) \/ LoseRunner(h)
                 \/ Accept(h) \/ Respond(h)
          PROVE  FALSE
      BY <3>1 DEF Step, Load, LookUp, Save, DatabaseFault, Insert, Expire,
                  LoseRunner, Accept, Respond, Observe, store
    <3>2. ASSUME \/ \E e \in Experiments : CreateExperiment(e)
                 \/ \E s \in runs : Submit(s)
                 \/ \E op \in Operations : Progress(op)
                 \/ Crash
          PROVE  FALSE
      BY <3>2 DEF CreateExperiment, Submit, Progress, Crash, store
    <3> QED BY <3>1, <3>2 DEF Next
  <2>2. r \in RunsOf(e) /\ r.experiment = e
    BY <2>1 DEF DeleteExperiment, RunsOf
  <2> QED BY <2>1, <2>2 DEF DeleteExperiment, TypeOK
<1>2. AttemptsInv => TypeOK /\ NoOrphans BY DEF AttemptsInv
<1> QED BY <1>1, <1>2, AttemptsInvariant, PTL DEF Spec, EvidenceKept
-----------------------------------------------------------------------------
(* The answers.                                                            *)

(* An answer with a run is about the caller's own experiment, and stands.  *)
AnswerInv(h) ==
  /\ answer[h].status \in {200, 201} =>
       /\ answer[h].run.experiment = ask[h].experiment
       /\ answer[h].run \in runs \/ experiment[ask[h].experiment] = "deleted"
  /\ answer[h].status = 200 => Settled(answer[h].run) /\ answer[h].run.key = ask[h].key

(* A run leaves the table with its experiment only, which stays deleted.   *)
LEMMA RunsGoWithExperiment ==
  ASSUME TypeOK, [Next]_vars
  PROVE  /\ \A r \in runs : r \in runs' \/ experiment'[r.experiment] = "deleted"
         /\ \A e \in Experiments : experiment[e] = "deleted" => experiment'[e] = "deleted"
<1>1. ASSUME NEW h \in Handlers,
             Step(h) \/ Expire(h) \/ LoseRunner(h) \/ Accept(h) \/ Respond(h)
      PROVE  runs \subseteq runs' /\ experiment' = experiment
  BY <1>1 DEF Step, Load, LookUp, Save, DatabaseFault, Insert, Expire, LoseRunner,
              Accept, Respond, Observe, store
<1>2. ASSUME NEW e \in Experiments, CreateExperiment(e)
      PROVE  /\ runs' = runs
             /\ \A x \in Experiments : experiment[x] = "deleted" =>
                                       experiment'[x] = "deleted"
  BY <1>2 DEF CreateExperiment, TypeOK
<1>3. ASSUME NEW e \in Experiments, DeleteExperiment(e)
      PROVE  /\ \A r \in runs : r \in runs' \/ experiment'[r.experiment] = "deleted"
             /\ \A x \in Experiments : experiment[x] = "deleted" =>
                                       experiment'[x] = "deleted"
  BY <1>3 DEF DeleteExperiment, RunsOf, TypeOK
<1>4. ASSUME \/ \E r \in runs : Submit(r)
             \/ \E op \in Operations : Progress(op)
             \/ Crash \/ UNCHANGED vars
      PROVE  runs' = runs /\ experiment' = experiment
  BY <1>4 DEF Submit, Progress, Crash, store, vars
<1>. QED
  BY <1>1, <1>2, <1>3, <1>4 DEF Next

(* A step leaves the answer of h alone, or is the answer to h.             *)
AnswerMoves(h) ==
  /\ ask' = ask
  /\ \/ answer'[h] = answer[h]
     \/ answer'[h].status \notin {200, 201}
     \/ /\ answer'[h].status = 200
        /\ answer'[h].run \in Replayed(UnderKey(ask[h]))
        /\ runs' = runs
     \/ /\ answer'[h] = [status |-> 201, run |-> RowOf(h)]
        /\ RowOf(h) \in runs'

LEMMA AnswerStep ==
  ASSUME TypeOK, [Next]_vars, NEW h \in Handlers
  PROVE  AnswerMoves(h)
<1>1. ASSUME NEW g \in Handlers, Load(g)
      PROVE  AnswerMoves(h)
  <2>1. ask' = ask /\ (Reply(g, 404, NoRun) \/ answer' = answer)
    BY <1>1 DEF Load
  <2>. QED
    BY <2>1 DEF AnswerMoves, Reply, TypeOK
<1>2. ASSUME NEW g \in Handlers, LookUp(g)
      PROVE  AnswerMoves(h)
  <2>1. /\ ask' = ask /\ runs' = runs
        /\ \/ \E r \in Replayed(UnderKey(ask[g])) : Reply(g, 200, r)
           \/ answer' = answer
    BY <1>2 DEF LookUp, store
  <2>. QED
    BY <2>1 DEF AnswerMoves, Reply, TypeOK
<1>3. ASSUME NEW g \in Handlers, Save(g)
      PROVE  AnswerMoves(h)
  <2>1. /\ ask' = ask
        /\ \/ Reply(g, 201, RowOf(g)) /\ RowOf(g) \in runs'
           \/ Reply(g, 409, NoRun)
    BY <1>3 DEF Save, Insert
  <2>. QED
    BY <2>1 DEF AnswerMoves, Reply, TypeOK
<1>4. ASSUME NEW g \in Handlers, DatabaseFault(g)
      PROVE  AnswerMoves(h)
  <2>1. ask' = ask /\ Reply(g, 503, NoRun)
    BY <1>4 DEF DatabaseFault
  <2>. QED
    BY <2>1 DEF AnswerMoves, Reply, TypeOK
<1>5. ASSUME NEW g \in Handlers, Expire(g) \/ LoseRunner(g) \/ Accept(g) \/ Respond(g)
      PROVE  AnswerMoves(h)
  BY <1>5 DEF AnswerMoves, Expire, LoseRunner, Accept, Respond, Observe
<1>6. ASSUME \/ \E e \in Experiments : CreateExperiment(e) \/ DeleteExperiment(e)
             \/ \E r \in runs : Submit(r)
             \/ \E op \in Operations : Progress(op)
             \/ Crash \/ UNCHANGED vars
      PROVE  AnswerMoves(h)
  BY <1>6 DEF AnswerMoves, CreateExperiment, DeleteExperiment, Submit, Progress, Crash, vars
<1>. QED
  BY <1>1, <1>2, <1>3, <1>4, <1>5, <1>6 DEF Next, Step

LEMMA AnswerInvStep ==
  TypeOK /\ (\A h \in Handlers : AnswerInv(h)) /\ [Next]_vars
    => (\A h \in Handlers : AnswerInv(h))'
<1> SUFFICES ASSUME TypeOK, [Next]_vars, NEW h \in Handlers, AnswerInv(h)
             PROVE  AnswerInv(h)'
  OBVIOUS
<1>0. ask' = ask /\ ask[h].experiment \in Experiments
  BY AnswerStep DEF AnswerMoves, TypeOK, Ask
<1>1. CASE answer'[h] = answer[h]
  BY <1>0, <1>1, RunsGoWithExperiment DEF AnswerInv, Settled
<1>2. CASE answer'[h].status \notin {200, 201}
  BY <1>2 DEF AnswerInv
<1>3. CASE /\ answer'[h].status = 200
           /\ answer'[h].run \in Replayed(UnderKey(ask[h]))
           /\ runs' = runs
  <2>1. /\ answer'[h].run \in runs /\ Settled(answer'[h].run)
        /\ answer'[h].run.experiment = ask[h].experiment
        /\ answer'[h].run.key = ask[h].key
    BY <1>3 DEF Replayed, UnderKey
  <2>. QED
    BY <1>0, <1>3, <2>1 DEF AnswerInv, Settled
<1>4. CASE answer'[h] = [status |-> 201, run |-> RowOf(h)] /\ RowOf(h) \in runs'
  <2>1. RowOf(h).experiment = ask[h].experiment
    BY DEF RowOf
  <2>. QED
    BY <1>0, <1>4, <2>1 DEF AnswerInv
<1>. QED
  BY <1>1, <1>2, <1>3, <1>4, AnswerStep DEF AnswerMoves

(* The run a caller was answered stays stored until its experiment is      *)
(* deleted, and a replay is settled and the caller's own.                  *)
THEOREM AnswersStayTrue == Spec => []AnswersHold
<1>1. Init => \A h \in Handlers : AnswerInv(h)
  BY DEF Init, NoAnswer, AnswerInv
<1>2. (\A h \in Handlers : AnswerInv(h)) => AnswersHold
  BY DEF AnswerInv, AnswersHold, AnswerStands, ReplayIsOwn
<1>. QED
  BY <1>1, <1>2, AnswerInvStep, AttemptsTypeCorrect, PTL DEF Spec
=============================================================================
