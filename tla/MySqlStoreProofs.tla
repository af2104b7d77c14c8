---------------------------- MODULE MySqlStoreProofs ----------------------------
(***************************************************************************)
(* What is proved of MySqlStore for every number of coordinators, requests *)
(* and connections: types, that no statement runs before the schema is     *)
(* complete, that a failed write leaves nothing behind but in two cases    *)
(* that are named, that a read of two statements misses nothing, and that  *)
(* requests never wait in a circle.                                        *)
(***************************************************************************)
EXTENDS MySqlStore, TLAPS

Places == {"idle", "awaiting", "again", "queued", "held", "done"}

Answers == {"none", "ok", "refused", "failed", "lost"}

LEMMA RequestFacts ==
  ASSUME NEW r \in Requests
  PROVE  /\ By[r] \in Coordinators
         /\ Op[r] \in Ops
         /\ First(r) \in {"begin", "first", "delete"}
         /\ r # None
BY StoreConstants DEF Ops, First

LEMMA AdditionFacts ==
  /\ Len(Additions) \in Nat
  /\ \A i \in 1..Len(Additions) : Additions[i] \in Parts
  /\ "tables" \in Parts
  /\ \A p \in Parts : p = "tables" \/ \E i \in 1..Len(Additions) : p = Additions[i]
BY StoreConstants DEF Parts

LEMMA AcquireType ==
  ASSUME TypeOK, NEW r \in Requests, Acquire(r)
  PROVE  /\ holder' \in [Connections -> Requests \cup {None}]
         /\ queue' \in [Coordinators -> Seq(Requests)]
         /\ UNCHANGED <<open, tx>>
         /\ at' \in [Requests -> Places]
         /\ answer' \in [Requests -> Answers]
<1> DEFINE c == By[r]
<1>1. c \in Coordinators BY RequestFacts
<1>2. UNCHANGED <<open, tx>> BY DEF Acquire
<1>3. ASSUME NEW s \in Connections, holder' = [holder EXCEPT ![s] = r],
             at' = [at EXCEPT ![r] = "held"], UNCHANGED <<queue, answer>>
      PROVE  /\ holder' \in [Connections -> Requests \cup {None}]
             /\ queue' \in [Coordinators -> Seq(Requests)]
             /\ at' \in [Requests -> Places]
             /\ answer' \in [Requests -> Answers]
  BY <1>3 DEF TypeOK, Places, Answers
<1>4. ASSUME queue' = [queue EXCEPT ![c] = Append(@, r)],
             at' = [at EXCEPT ![r] = "queued"], UNCHANGED <<holder, answer>>
      PROVE  /\ holder' \in [Connections -> Requests \cup {None}]
             /\ queue' \in [Coordinators -> Seq(Requests)]
             /\ at' \in [Requests -> Places]
             /\ answer' \in [Requests -> Answers]
  BY <1>1, <1>4 DEF TypeOK, Places, Answers
<1>5. ASSUME at' = [at EXCEPT ![r] = "done"],
             answer' = [answer EXCEPT ![r] = "failed"],
             UNCHANGED <<holder, queue>>
      PROVE  /\ holder' \in [Connections -> Requests \cup {None}]
             /\ queue' \in [Coordinators -> Seq(Requests)]
             /\ at' \in [Requests -> Places]
             /\ answer' \in [Requests -> Answers]
  BY <1>5 DEF TypeOK, Places, Answers
<1> QED BY <1>2, <1>3, <1>4, <1>5 DEF Acquire, Of

LEMMA ReleaseType ==
  ASSUME TypeOK, NEW r \in Requests, NEW s \in Connections,
         NEW place \in {"done", "again"}, Release(r, s, place)
  PROVE  /\ holder' \in [Connections -> Requests \cup {None}]
         /\ queue' \in [Coordinators -> Seq(Requests)]
         /\ at' \in [Requests -> Places]
<1> DEFINE c == By[r]
<1>1. c \in Coordinators BY RequestFacts
<1>2. queue[c] \in Seq(Requests) BY <1>1 DEF TypeOK
<1>3. CASE queue[c] = <<>>
  <2>1. /\ holder' = [holder EXCEPT ![s] = None]
        /\ at' = [at EXCEPT ![r] = place]
        /\ UNCHANGED queue
    BY <1>3 DEF Release
  <2>2. holder' \in [Connections -> Requests \cup {None}]
    BY <2>1 DEF TypeOK
  <2>3. at' \in [Requests -> Places] BY <2>1 DEF TypeOK, Places
  <2> QED BY <2>1, <2>2, <2>3 DEF TypeOK
<1>4. CASE queue[c] # <<>>
  <2>1. Head(queue[c]) \in Requests /\ Tail(queue[c]) \in Seq(Requests)
    BY <1>2, <1>4
  <2>2. /\ holder' = [holder EXCEPT ![s] = Head(queue[c])]
        /\ queue' = [queue EXCEPT ![c] = Tail(@)]
        /\ at' = [at EXCEPT ![r] = place, ![Head(queue[c])] = "held"]
    BY <1>4 DEF Release
  <2>3. holder' \in [Connections -> Requests \cup {None}]
    BY <2>1, <2>2 DEF TypeOK
  <2>4. queue' \in [Coordinators -> Seq(Requests)]
    BY <1>1, <2>1, <2>2 DEF TypeOK
  <2>5. at' \in [Requests -> Places]
    BY <2>1, <2>2 DEF TypeOK, Places
  <2> QED BY <2>3, <2>4, <2>5
<1> QED BY <1>3, <1>4

LEMMA EndType ==
  ASSUME TypeOK, NEW r \in Requests, NEW s \in Connections, NEW how \in Answers,
         End(r, s, how)
  PROVE  /\ holder' \in [Connections -> Requests \cup {None}]
         /\ queue' \in [Coordinators -> Seq(Requests)]
         /\ at' \in [Requests -> Places]
         /\ answer' \in [Requests -> Answers]
BY ReleaseType DEF End, TypeOK, Answers

LEMMA MoveType ==
  ASSUME TypeOK, NEW r \in Requests, NEW next \in Stages, MoveTo(r, next)
  PROVE  stage' \in [Requests -> Stages]
BY DEF MoveTo, TypeOK
-----------------------------------------------------------------------------
(* The types, one action at a time.                                        *)
LEMMA ProceedType ==
  ASSUME TypeOK, NEW c \in Coordinators, Proceed(c) \/ Fail(c)
  PROVE  /\ start' \in [Coordinators -> {"starting", "ready", "failed"}]
         /\ step' \in [Coordinators -> 0..Len(Additions)]
         /\ missing' \in [Coordinators -> BOOLEAN]
<1>1. step[c] # Len(Additions) => step[c] + 1 \in 0..Len(Additions)
  BY AdditionFacts DEF TypeOK
<1> QED BY <1>1 DEF Proceed, Fail, TypeOK

(* An addition that is missing is one the coordinator has come to.         *)
LookedFor == \A c \in Coordinators : missing[c] => step[c] > 0

LEMMA InitializeType ==
  ASSUME TypeOK, LookedFor, NEW c \in Coordinators, Initialize(c) \/ StartFault(c)
  PROVE  TypeOK'
<1>1. UNCHANGED <<restarts, pool, data, client>>
  BY DEF Initialize, ApplySchema, LookFor, Add, StartFault
<1>2. schema' \subseteq Parts
  <2>1. CASE ApplySchema(c) BY <2>1 DEF ApplySchema, TypeOK
  <2>2. CASE LookFor(c) \/ StartFault(c) BY <2>2 DEF LookFor, StartFault, TypeOK
  <2>3. CASE Add(c)
    <3>1. CASE UNCHANGED schema BY <3>1 DEF TypeOK
    <3>2. CASE schema' = schema \cup {Additions[step[c]]} /\ Proceed(c)
      <4>1. step[c] \in 1..Len(Additions)
        BY <2>3, AdditionFacts DEF Add, LookedFor, TypeOK
      <4> QED BY <3>2, <4>1, AdditionFacts DEF TypeOK
    <3> QED BY <2>3, <3>1, <3>2 DEF Add
  <2> QED BY <2>1, <2>2, <2>3 DEF Initialize
<1>3. /\ start' \in [Coordinators -> {"starting", "ready", "failed"}]
      /\ step' \in [Coordinators -> 0..Len(Additions)]
      /\ missing' \in [Coordinators -> BOOLEAN]
  <2>1. CASE Proceed(c) \/ Fail(c) BY <2>1, ProceedType
  <2>2. CASE missing' = [missing EXCEPT ![c] = TRUE] /\ UNCHANGED <<start, step>>
    BY <2>2 DEF TypeOK
  <2> QED BY <2>1, <2>2 DEF Initialize, ApplySchema, LookFor, Add, StartFault
<1> QED BY <1>1, <1>2, <1>3 DEF TypeOK, pool, data, client

(* Which requests come to which stages.                                    *)
RunStages == {"begin", "write", "readback", "commit", "committed", "rollback"}

StagesFit == \A r \in Requests : /\ stage[r] \in RunStages <=> r \in Runs
                                 /\ stage[r] \in {"delete", "deleted"} <=> r \in Deletes

LEMMA AdmitType ==
  ASSUME TypeOK, NEW r \in Requests, Admit(r) \/ Again(r)
  PROVE  TypeOK'
<1>1. UNCHANGED <<boot, data, stage, expected, seen>> BY DEF Admit, Again
<1>2. CASE Acquire(r)
  <2>1. /\ holder' \in [Connections -> Requests \cup {None}]
        /\ queue' \in [Coordinators -> Seq(Requests)]
        /\ UNCHANGED <<open, tx>>
        /\ at' \in [Requests -> Places]
        /\ answer' \in [Requests -> Answers]
    BY <1>2, AcquireType
  <2> QED BY <1>1, <2>1 DEF TypeOK, boot, data, Places, Answers
<1>3. CASE /\ at' = [at EXCEPT ![r] = "done"]
           /\ answer' = [answer EXCEPT ![r] = "failed"]
           /\ UNCHANGED pool
  BY <1>1, <1>3 DEF TypeOK, boot, data, pool
<1> QED BY <1>2, <1>3 DEF Admit, Again

LEMMA ArriveType == ASSUME TypeOK, NEW r \in Requests, Arrive(r) PROVE TypeOK'
<1>1. expected' \in [Requests -> SUBSET Runs] BY DEF Arrive, TypeOK
<1>2. at' \in [Requests -> Places] BY DEF Arrive, TypeOK, Places
<1> QED BY <1>1, <1>2 DEF Arrive, TypeOK, boot, pool, data, Places

(* A step of a request that holds a connection.                            *)
Act(r, s) ==
  Query(r, s) \/ StatementFault(r, s) \/ RefuseRollback(r, s) \/ Break(r, s)

LEMMA ActCases ==
  ASSUME NEW r \in Requests, NEW s \in Connections, Act(r, s)
  PROVE  \/ Begin(r, s) \/ Write(r, s) \/ ReadBack(r, s) \/ Commit(r, s)
         \/ Acknowledge(r, s) \/ Rollback(r, s) \/ RefuseRollback(r, s)
         \/ ReadExperiment(r, s) \/ ReadRuns(r, s) \/ Delete(r, s)
         \/ StatementFault(r, s) \/ Break(r, s)
BY DEF Act, Query, TimeOutOnLock

(* It stays, or gives its connection back; nobody else's request moves.    *)
LEMMA ActFacts ==
  ASSUME NEW r \in Requests, NEW s \in Connections, Act(r, s)
  PROVE  /\ Holds(r, s)
         /\ UNCHANGED <<boot, expected>>
         /\ \/ UNCHANGED <<holder, queue, at, answer>>
            \/ Release(r, s, "again") /\ UNCHANGED answer
            \/ \E how \in Answers \ {"none"} : End(r, s, how)
         /\ UNCHANGED stage \/ \E next \in Stages : MoveTo(r, next)
<1>1. Holds(r, s) /\ UNCHANGED <<boot, expected>>
  BY ActCases DEF Begin, Write, ReadBack, Commit, Acknowledge, Rollback,
     RefuseRollback, ReadExperiment, ReadRuns, Delete, StatementFault, Break
<1>2. \/ UNCHANGED <<holder, queue, at, answer>>
      \/ Release(r, s, "again") /\ UNCHANGED answer
      \/ \E how \in Answers \ {"none"} : End(r, s, how)
  <2>1. CASE Begin(r, s) \/ Write(r, s) \/ ReadBack(r, s) \/ Commit(r, s)
    BY <2>1 DEF Begin, Write, ReadBack, Commit, pool
  <2>2. CASE \/ Acknowledge(r, s) \/ Rollback(r, s) \/ RefuseRollback(r, s)
             \/ ReadExperiment(r, s) \/ ReadRuns(r, s) \/ Delete(r, s)
    BY <2>2 DEF Acknowledge, Rollback, RefuseRollback, ReadExperiment, ReadRuns,
                Delete, Answers
  <2>3. CASE StatementFault(r, s) \/ Break(r, s)
    BY <2>3 DEF StatementFault, Break, Answers
  <2> QED BY <2>1, <2>2, <2>3, ActCases
<1>3. UNCHANGED stage \/ \E next \in Stages : MoveTo(r, next)
  BY ActCases DEF Begin, Write, ReadBack, Commit, Acknowledge, Rollback,
     RefuseRollback, ReadExperiment, ReadRuns, Delete, StatementFault, Break, Stages
<1> QED BY <1>1, <1>2, <1>3

LEMMA PublishFacts ==
  ASSUME TypeOK, NEW W, W \subseteq Runs \cup Deletes, Publish(W)
  PROVE  /\ saved' \subseteq Runs /\ gone' \in BOOLEAN
         /\ saved' \subseteq saved \cup W
         /\ gone => gone'
         /\ saved \cup W \subseteq saved' \/ (gone' /\ saved' = {})
         /\ gone' => gone \/ W \cap Deletes # {}
BY DEF Publish, TypeOK

(* What happens to the sessions and the tables: only its own session is    *)
(* touched, and nothing is forgotten but by a deletion.                    *)
LEMMA ActData ==
  ASSUME TypeOK, StagesFit, NEW r \in Requests, NEW s \in Connections, Act(r, s)
  PROVE  /\ open' \in [Connections -> SUBSET (Runs \cup Deletes)]
         /\ \A u \in Connections : u # s => open'[u] = open[u]
         /\ tx' \subseteq Connections
         /\ \A u \in Connections : u # s => (u \in tx' <=> u \in tx)
         /\ saved' \subseteq Runs /\ gone' \in BOOLEAN
         /\ gone => gone'
         /\ saved \subseteq saved' \/ gone'
         /\ unsure' \in {unsure, unsure \cup {r}}
         /\ adrift' \in {adrift, adrift \cup {r}}
         /\ seen' \in [Requests -> SUBSET Runs]
         /\ \A q \in Requests : q # r => seen'[q] = seen[q]
<1>1. open[s] \subseteq Runs \cup Deletes BY DEF TypeOK
<1>2. /\ open' \in [Connections -> SUBSET (Runs \cup Deletes)]
      /\ \A u \in Connections : u # s => open'[u] = open[u]
  <2>1. CASE UNCHANGED open BY <2>1 DEF TypeOK
  <2>2. CASE open' = [open EXCEPT ![s] = {}] BY <2>2 DEF TypeOK
  <2>3. CASE open' = [open EXCEPT ![s] = @ \cup {r}] /\ r \in Runs \cup Deletes
    <3>1. open[s] \cup {r} \subseteq Runs \cup Deletes BY <1>1, <2>3
    <3> QED BY <2>3, <3>1 DEF TypeOK
  <2>4. stage[r] \in {"write", "delete"} => r \in Runs \cup Deletes
    BY DEF StagesFit, RunStages
  <2> QED BY <2>1, <2>2, <2>3, <2>4, ActCases
          DEF Begin, Write, ReadBack, Commit, Acknowledge, Rollback, RefuseRollback,
              ReadExperiment, ReadRuns, Delete, StatementFault, Break, Clear, pool
<1>3. /\ tx' \subseteq Connections
      /\ \A u \in Connections : u # s => (u \in tx' <=> u \in tx)
  <2>1. tx' \in {tx, tx \cup {s}, tx \ {s}}
    BY ActCases
       DEF Begin, Write, ReadBack, Commit, Acknowledge, Rollback, RefuseRollback,
           ReadExperiment, ReadRuns, Delete, StatementFault, Break, Clear, pool
  <2> QED BY <2>1 DEF TypeOK
<1>4. /\ saved' \subseteq Runs /\ gone' \in BOOLEAN
      /\ gone => gone'
      /\ saved \subseteq saved' \/ gone'
  <2>1. CASE UNCHANGED <<saved, gone>> BY <2>1 DEF TypeOK
  <2>2. CASE Publish(open[s]) BY <1>1, <2>2, PublishFacts
  <2>3. CASE Publish({r}) /\ stage[r] = "delete"
    <3>1. {r} \subseteq Runs \cup Deletes BY <2>3 DEF StagesFit
    <3> QED BY <2>3, <3>1, PublishFacts
  <2> QED BY <2>1, <2>2, <2>3, ActCases
          DEF Begin, Write, ReadBack, Commit, Acknowledge, Rollback, RefuseRollback,
              ReadExperiment, ReadRuns, Delete, StatementFault, Break, data
<1>5. /\ unsure' \in {unsure, unsure \cup {r}}
      /\ adrift' \in {adrift, adrift \cup {r}}
  BY ActCases
     DEF Begin, Write, ReadBack, Commit, Acknowledge, Rollback, RefuseRollback,
         ReadExperiment, ReadRuns, Delete, StatementFault, Break, MarkAdrift, data
<1>6. /\ seen' \in [Requests -> SUBSET Runs]
      /\ \A q \in Requests : q # r => seen'[q] = seen[q]
  <2>1. seen' = seen \/ \E S \in SUBSET Runs : seen' = [seen EXCEPT ![r] = S]
    BY ActCases
       DEF Begin, Write, ReadBack, Commit, Acknowledge, Rollback, RefuseRollback,
           ReadExperiment, ReadRuns, Delete, StatementFault, Break
  <2> QED BY <2>1 DEF TypeOK
<1> QED BY <1>2, <1>3, <1>4, <1>5, <1>6

LEMMA ActType ==
  ASSUME TypeOK, StagesFit, NEW r \in Requests, NEW s \in Connections, Act(r, s)
  PROVE  TypeOK'
<1>1. /\ holder' \in [Connections -> Requests \cup {None}]
      /\ queue' \in [Coordinators -> Seq(Requests)]
      /\ at' \in [Requests -> Places]
      /\ answer' \in [Requests -> Answers]
  <2>1. CASE UNCHANGED <<holder, queue, at, answer>>
    BY <2>1 DEF TypeOK, Places, Answers
  <2>2. CASE Release(r, s, "again") /\ UNCHANGED answer
    BY <2>2, ReleaseType DEF TypeOK, Answers
  <2>3. ASSUME NEW how \in Answers, End(r, s, how)
        PROVE  /\ holder' \in [Connections -> Requests \cup {None}]
               /\ queue' \in [Coordinators -> Seq(Requests)]
               /\ at' \in [Requests -> Places]
               /\ answer' \in [Requests -> Answers]
    BY <2>3, EndType
  <2> QED BY <2>1, <2>2, <2>3, ActFacts
<1>2. stage' \in [Requests -> Stages] BY ActFacts, MoveType DEF TypeOK
<1>3. UNCHANGED <<boot, expected>> BY ActFacts
<1>4. unsure' \subseteq Requests /\ adrift' \subseteq Requests
  <2>1. /\ unsure' \in {unsure, unsure \cup {r}}
        /\ adrift' \in {adrift, adrift \cup {r}}
    BY ActData
  <2>2. unsure \subseteq Requests /\ adrift \subseteq Requests BY DEF TypeOK
  <2> QED BY <2>1, <2>2
<1> QED BY <1>1, <1>2, <1>3, <1>4, ActData DEF TypeOK, boot, Places, Answers

LEMMA RestartType ==
  ASSUME TypeOK, NEW c \in Coordinators, Restart(c) PROVE TypeOK'
<1>1. /\ restarts' \in 0..MaxRestarts
      /\ start' \in [Coordinators -> {"starting", "ready", "failed"}]
      /\ step' \in [Coordinators -> 0..Len(Additions)]
      /\ missing' \in [Coordinators -> BOOLEAN]
  BY StoreConstants, AdditionFacts DEF Restart, TypeOK
<1>2. /\ holder' \in [Connections -> Requests \cup {None}]
      /\ open' \in [Connections -> SUBSET (Runs \cup Deletes)]
      /\ queue' \in [Coordinators -> Seq(Requests)]
      /\ tx' \subseteq Connections
      /\ unsure' \subseteq Requests
  BY DEF Restart, TypeOK
<1>3. at' \in [Requests -> Places] /\ answer' \in [Requests -> Answers]
  BY DEF Restart, TypeOK, Places, Answers
<1>4. UNCHANGED <<schema, saved, gone, adrift, stage, expected, seen>> BY DEF Restart
<1> QED BY <1>1, <1>2, <1>3, <1>4 DEF TypeOK, Places, Answers

LEMMA LookedForStep ==
  ASSUME TypeOK, LookedFor, [Next]_vars PROVE LookedFor'
<1>1. CASE UNCHANGED boot BY <1>1 DEF boot, LookedFor
<1>2. ASSUME NEW c \in Coordinators, Proceed(c) PROVE LookedFor'
  <2>1. missing' = [missing EXCEPT ![c] = FALSE]
        /\ (step' = step \/ step' = [step EXCEPT ![c] = @ + 1])
    BY <1>2 DEF Proceed
  <2> QED BY <2>1 DEF LookedFor, TypeOK
<1>3. ASSUME NEW c \in Coordinators, Fail(c) PROVE LookedFor'
  BY <1>3 DEF Fail, LookedFor
<1>4. ASSUME NEW c \in Coordinators, Initialize(c) \/ StartFault(c)
      PROVE  LookedFor'
  <2>1. CASE /\ step[c] > 0
             /\ missing' = [missing EXCEPT ![c] = TRUE]
             /\ UNCHANGED <<start, step>>
    BY <2>1 DEF LookedFor, TypeOK
  <2> QED BY <1>2, <1>3, <1>4, <2>1
          DEF Initialize, ApplySchema, LookFor, Add, StartFault
<1>5. ASSUME NEW c \in Coordinators, Restart(c) PROVE LookedFor'
  BY <1>5 DEF Restart, LookedFor, TypeOK
<1>6. ASSUME NEW r \in Requests, Arrive(r) \/ Admit(r) \/ Again(r)
      PROVE  UNCHANGED boot
  BY <1>6 DEF Arrive, Admit, Again
<1>7. ASSUME NEW r \in Requests, NEW s \in Connections, Act(r, s)
      PROVE  UNCHANGED boot
  BY <1>7, ActFacts
<1>8. CASE UNCHANGED vars BY <1>1, <1>8 DEF vars
<1> QED BY <1>1, <1>4, <1>5, <1>6, <1>7, <1>8 DEF Next, Serve, Stopped, Act

LEMMA StagesStep ==
  ASSUME TypeOK, StagesFit, [Next]_vars PROVE StagesFit'
<1>1. CASE UNCHANGED stage BY <1>1 DEF StagesFit
<1>2. ASSUME NEW r \in Requests, NEW next \in Stages, MoveTo(r, next),
             stage[r] \in RunStages <=> next \in RunStages,
             stage[r] \in {"delete", "deleted"} <=> next \in {"delete", "deleted"}
      PROVE  StagesFit'
  BY <1>2 DEF StagesFit, MoveTo, TypeOK
<1>3. ASSUME NEW r \in Requests, NEW s \in Connections, Act(r, s)
      PROVE  StagesFit'
  <2>1. CASE Begin(r, s) \/ Write(r, s) \/ ReadBack(r, s) \/ Commit(r, s)
    BY <1>2, <2>1 DEF Begin, Write, ReadBack, Commit, Stages, RunStages
  <2>2. CASE \/ Acknowledge(r, s) \/ Rollback(r, s) \/ RefuseRollback(r, s)
             \/ ReadExperiment(r, s) \/ ReadRuns(r, s) \/ Delete(r, s)
    BY <1>1, <1>2, <2>2 DEF Acknowledge, Rollback, RefuseRollback, ReadExperiment,
                            ReadRuns, Delete, Stages, RunStages
  <2>3. CASE StatementFault(r, s) \/ Break(r, s)
    <3>1. CASE UNCHANGED stage BY <1>1, <3>1
    <3>2. CASE r \in Runs /\ MoveTo(r, "rollback")
      <4>1. stage[r] \in RunStages BY <3>2 DEF StagesFit
      <4> QED BY <1>2, <3>2, <4>1 DEF RunStages, Stages
    <3> QED BY <2>3, <3>1, <3>2 DEF StatementFault, Break
  <2> QED BY <1>3, <2>1, <2>2, <2>3, ActCases
<1>4. ASSUME NEW c \in Coordinators, Initialize(c) \/ StartFault(c) \/ Restart(c)
      PROVE  UNCHANGED stage
  BY <1>4 DEF Initialize, ApplySchema, LookFor, Add, StartFault, Restart, client
<1>5. ASSUME NEW r \in Requests, Arrive(r) \/ Admit(r) \/ Again(r)
      PROVE  UNCHANGED stage
  BY <1>5 DEF Arrive, Admit, Again
<1>6. CASE UNCHANGED vars BY <1>1, <1>6 DEF vars, client
<1> QED BY <1>1, <1>3, <1>4, <1>5, <1>6 DEF Next, Serve, Stopped, Act

StoreTypes == TypeOK /\ LookedFor /\ StagesFit

LEMMA TypeInit == Init => StoreTypes
<1> SUFFICES ASSUME Init PROVE StoreTypes OBVIOUS
<1>1. stage \in [Requests -> Stages] /\ StagesFit
  <2>1. \A r \in Requests : First(r) \in Stages BY RequestFacts DEF Stages
  <2>2. \A r \in Requests :
          /\ First(r) \in RunStages <=> Op[r] = "run"
          /\ First(r) \in {"delete", "deleted"} <=> Op[r] = "delete"
    BY StoreConstants DEF First, Ops, RunStages
  <2> QED BY <2>1, <2>2 DEF Init, StagesFit, Runs, Deletes
<1>2. schema \subseteq Parts BY AdditionFacts DEF Init
<1>3. /\ step \in [Coordinators -> 0..Len(Additions)]
      /\ restarts \in 0..MaxRestarts
  BY AdditionFacts, StoreConstants DEF Init
<1>4. /\ queue \in [Coordinators -> Seq(Requests)]
      /\ holder \in [Connections -> Requests \cup {None}]
      /\ open \in [Connections -> SUBSET (Runs \cup Deletes)]
  BY DEF Init
<1>5. /\ expected \in [Requests -> SUBSET Runs]
      /\ seen \in [Requests -> SUBSET Runs]
  BY DEF Init
<1>6. TypeOK BY <1>1, <1>2, <1>3, <1>4, <1>5 DEF Init, TypeOK
<1> QED BY <1>1, <1>6 DEF StoreTypes, Init, LookedFor

LEMMA TypeStep == StoreTypes /\ [Next]_vars => StoreTypes'
<1> SUFFICES ASSUME StoreTypes, [Next]_vars PROVE StoreTypes' OBVIOUS
<1> USE DEF StoreTypes
<1>1. ASSUME UNCHANGED vars PROVE TypeOK'
  BY <1>1 DEF vars, boot, pool, data, client, TypeOK
<1>2. ASSUME NEW c \in Coordinators, Initialize(c) \/ StartFault(c) \/ Restart(c)
      PROVE  TypeOK'
  BY <1>2, InitializeType, RestartType
<1>3. ASSUME NEW r \in Requests, Arrive(r) \/ Admit(r) \/ Again(r) PROVE TypeOK'
  BY <1>3, ArriveType, AdmitType
<1>4. ASSUME NEW r \in Requests, NEW s \in Connections, Act(r, s)
      PROVE  TypeOK'
  BY <1>4, ActType
<1>5. TypeOK' BY <1>1, <1>2, <1>3, <1>4 DEF Next, Serve, Stopped, Act
<1> QED BY <1>5, LookedForStep, StagesStep

(* Every variable keeps its type (the pool's connections and queue, the    *)
(* stages of a transaction in inTransaction).                              *)
THEOREM StoreTypeCorrect == Spec => []TypeOK
BY TypeInit, TypeStep, PTL DEF Spec, StoreTypes
-----------------------------------------------------------------------------
(* A request gets a connection from a start that has finished, and a start *)
(* has finished when everything before it is there.                        *)
Applied ==
  /\ \A c \in Coordinators : start[c] = "starting" /\ step[c] > 0 =>
       /\ "tables" \in schema
       /\ \A i \in 1..Len(Additions) : i < step[c] => Additions[i] \in schema
  /\ \A c \in Coordinators : start[c] = "ready" => schema = Parts
  /\ \A r \in Requests : at[r] \in {"again", "queued", "held"} => schema = Parts

LEMMA ProceedApplied ==
  ASSUME TypeOK, Applied, NEW c \in Coordinators, Proceed(c),
         start[c] = "starting", UNCHANGED at,
         schema \subseteq schema', schema' \subseteq Parts, "tables" \in schema',
         step[c] > 0 => Additions[step[c]] \in schema'
  PROVE  Applied'
<1>1. \A p \in Parts : p \in schema => p \in schema' OBVIOUS
<1>2. schema = Parts => schema' = Parts OBVIOUS
<1>3. step[c] \in 0..Len(Additions) BY DEF TypeOK
<1>4. \A i \in 1..Len(Additions) : i <= step[c] => Additions[i] \in schema'
  BY <1>3, AdditionFacts DEF Applied
<1>5. CASE step[c] = Len(Additions)
  <2>1. start' = [start EXCEPT ![c] = "ready"] /\ UNCHANGED step
    BY <1>5 DEF Proceed
  <2>2. \A i \in 1..Len(Additions) : Additions[i] \in schema' BY <1>4, <1>5
  <2>3. Parts \subseteq schema' BY <2>2, AdditionFacts
  <2>4. schema' = Parts BY <2>3
  <2> QED BY <2>1, <2>4, AdditionFacts DEF Applied, TypeOK
<1>6. CASE step[c] # Len(Additions)
  <2>1. step' = [step EXCEPT ![c] = @ + 1] /\ UNCHANGED start
    BY <1>6 DEF Proceed
  <2>2. ASSUME NEW d \in Coordinators, start'[d] = "starting", step'[d] > 0
        PROVE  /\ "tables" \in schema'
               /\ \A i \in 1..Len(Additions) :
                    i < step'[d] => Additions[i] \in schema'
    <3>1. CASE d = c BY <1>3, <1>4, <2>1, <3>1 DEF TypeOK
    <3>2. CASE d # c BY <2>1, <2>2, <3>2 DEF Applied, TypeOK
    <3> QED BY <3>1, <3>2
  <2> QED BY <1>2, <2>1, <2>2 DEF Applied
<1> QED BY <1>5, <1>6

LEMMA AppliedStep ==
  ASSUME TypeOK, LookedFor, Applied, [Next]_vars PROVE Applied'
<1>1. ASSUME UNCHANGED boot,
             \A r \in Requests : at'[r] \in {"again", "queued", "held"} =>
               at[r] \in {"again", "queued", "held"} \/ schema = Parts
      PROVE  Applied'
  BY <1>1 DEF Applied, boot
<1>2. ASSUME NEW c \in Coordinators, Fail(c), UNCHANGED <<schema, at>>
      PROVE  Applied'
  BY <1>2 DEF Fail, Applied, TypeOK
<1>3. ASSUME NEW c \in Coordinators, ApplySchema(c) PROVE Applied'
  <2>1. /\ Proceed(c) /\ start[c] = "starting" /\ step[c] = 0 /\ UNCHANGED at
        /\ schema' = IF "tables" \in schema THEN schema ELSE Parts
    BY <1>3 DEF ApplySchema, client
  <2>2. schema \subseteq Parts BY DEF TypeOK
  <2>3. /\ schema \subseteq schema' /\ schema' \subseteq Parts
        /\ "tables" \in schema'
    BY <2>1, <2>2, AdditionFacts
  <2> QED BY <2>1, <2>3, ProceedApplied
<1>4. ASSUME NEW c \in Coordinators, LookFor(c) PROVE Applied'
  <2>1. CASE Additions[step[c]] \in schema
    BY <1>4, <2>1, ProceedApplied DEF LookFor, client, Applied, TypeOK
  <2>2. CASE UNCHANGED <<start, step>>
    BY <1>4, <2>2 DEF LookFor, client, Applied
  <2> QED BY <1>4, <2>1, <2>2 DEF LookFor
<1>5. ASSUME NEW c \in Coordinators, Add(c) PROVE Applied'
  <2>1. step[c] \in 1..Len(Additions)
    BY <1>5, AdditionFacts DEF Add, LookedFor, TypeOK
  <2>2. CASE Fail(c) /\ UNCHANGED schema
    BY <1>2, <1>5, <2>2 DEF Add, client
  <2>3. CASE /\ schema' = schema \cup {Additions[step[c]]}
             /\ Proceed(c)
    <3>1. "tables" \in schema BY <1>5, <2>1 DEF Add, Applied
    <3>2. schema' \subseteq Parts BY <2>1, <2>3, AdditionFacts DEF TypeOK
    <3> QED BY <1>5, <2>3, <3>1, <3>2, ProceedApplied DEF Add, client
  <2> QED BY <1>5, <2>2, <2>3 DEF Add
<1>6. ASSUME NEW c \in Coordinators, StartFault(c) PROVE Applied'
  BY <1>2, <1>6 DEF StartFault, client
<1>7. ASSUME NEW c \in Coordinators, Restart(c) PROVE Applied'
  BY <1>7 DEF Restart, Applied, TypeOK
<1>8. ASSUME NEW r \in Requests, Arrive(r) PROVE Applied'
  BY <1>1, <1>8 DEF Arrive, TypeOK
<1>9. ASSUME NEW r \in Requests, Admit(r) \/ Again(r) PROVE Applied'
  <2>1. CASE start[By[r]] = "ready" \/ at[r] = "again"
    <3>1. schema = Parts BY <2>1, RequestFacts DEF Applied
    <3> QED BY <1>1, <1>9, <3>1 DEF Admit, Again
  <2>2. CASE at' = [at EXCEPT ![r] = "done"]
    BY <1>1, <1>9, <2>2 DEF Admit, Again, TypeOK
  <2> QED BY <1>9, <2>1, <2>2 DEF Admit, Again
<1>10. ASSUME NEW r \in Requests, NEW s \in Connections, Act(r, s)
       PROVE  Applied'
  <2>1. at[r] = "held" /\ UNCHANGED boot BY <1>10, ActFacts DEF Holds
  <2>2. schema = Parts BY <2>1 DEF Applied
  <2> QED BY <1>1, <2>1, <2>2
<1>11. CASE UNCHANGED vars BY <1>1, <1>11 DEF vars, client
<1> QED BY <1>3, <1>4, <1>5, <1>6, <1>7, <1>8, <1>9, <1>10, <1>11
        DEF Next, Initialize, Serve, Stopped, Act

(* No statement of a request runs before the schema is complete, however   *)
(* the starts of the coordinators interleave (await initialized).          *)
THEOREM StatementsFindTheSchema == Spec => []ServesMigrated
<1>1. Init => Applied BY DEF Init, Applied
<1>2. StoreTypes /\ Applied /\ [Next]_vars => (StoreTypes /\ Applied)'
  BY TypeStep, AppliedStep DEF StoreTypes
<1>3. Applied => ServesMigrated BY DEF Applied, ServesMigrated
<1> QED BY <1>1, <1>2, <1>3, TypeInit, PTL DEF Spec
-----------------------------------------------------------------------------
(* A connection belongs to one request, which holds no other; the queue    *)
(* has those that wait, each once.                                         *)
Holding ==
  /\ \A s \in Connections : holder[s] # None =>
       at[holder[s]] = "held" /\ By[holder[s]] = s[1]
  /\ \A s, u \in Connections : holder[s] = holder[u] /\ holder[s] # None => s = u

Queueing ==
  \A c \in Coordinators : \A i \in 1..Len(queue[c]) :
    /\ at[queue[c][i]] = "queued"
    /\ By[queue[c][i]] = c
    /\ \A j \in 1..Len(queue[c]) : queue[c][i] = queue[c][j] => i = j

PoolInv == Holding /\ Queueing

LEMMA AcquirePool ==
  ASSUME TypeOK, PoolInv, NEW r \in Requests, Acquire(r),
         at[r] \in {"awaiting", "again"}
  PROVE  PoolInv'
<1> DEFINE c == By[r]
<1>1. c \in Coordinators /\ r # None BY RequestFacts
<1>2. \A s \in Connections : holder[s] # r BY <1>1 DEF PoolInv, Holding
<1>3. \A d \in Coordinators : \A i \in 1..Len(queue[d]) : queue[d][i] # r
  BY DEF PoolInv, Queueing
<1>4. ASSUME NEW s \in Of(c), holder[s] = None,
             holder' = [holder EXCEPT ![s] = r],
             at' = [at EXCEPT ![r] = "held"], UNCHANGED <<queue, answer>>
      PROVE  PoolInv'
  <2>1. s \in Connections /\ s[1] = c BY DEF Of
  <2>2. \A u \in Connections : u # s => holder'[u] = holder[u]
    BY <1>4, <2>1 DEF TypeOK
  <2>3. holder'[s] = r /\ at'[r] = "held" BY <1>4, <2>1 DEF TypeOK
  <2>4. \A q \in Requests : q # r => at'[q] = at[q] BY <1>4 DEF TypeOK
  <2>5. \A u \in Connections : holder[u] \in Requests \cup {None} BY DEF TypeOK
  <2>6. Holding'
    BY <1>2, <2>1, <2>2, <2>3, <2>4, <2>5 DEF PoolInv, Holding
  <2>7. \A d \in Coordinators : \A i \in 1..Len(queue[d]) : queue[d][i] \in Requests
    BY DEF TypeOK
  <2>8. Queueing' BY <1>3, <1>4, <2>4, <2>7 DEF PoolInv, Queueing
  <2> QED BY <2>6, <2>8 DEF PoolInv
<1>5. ASSUME queue' = [queue EXCEPT ![c] = Append(@, r)],
             at' = [at EXCEPT ![r] = "queued"], UNCHANGED holder
      PROVE  PoolInv'
  <2>1. \A q \in Requests : q # r => at'[q] = at[q] BY <1>5 DEF TypeOK
  <2>2. at'[r] = "queued" BY <1>5 DEF TypeOK
  <2>3. \A u \in Connections : holder[u] \in Requests \cup {None} BY DEF TypeOK
  <2>4. Holding' BY <1>2, <1>5, <2>1, <2>3 DEF PoolInv, Holding
  <2>5. \A d \in Coordinators : queue[d] \in Seq(Requests) BY DEF TypeOK
  <2>6. \A d \in Coordinators : d # c => queue'[d] = queue[d]
    BY <1>5 DEF TypeOK
  <2>7. queue'[c] = Append(queue[c], r) BY <1>1, <1>5 DEF TypeOK
  <2>8. ASSUME NEW d \in Coordinators, NEW i \in 1..Len(queue'[d])
        PROVE  /\ at'[queue'[d][i]] = "queued"
               /\ By[queue'[d][i]] = d
               /\ \A j \in 1..Len(queue'[d]) : queue'[d][i] = queue'[d][j] => i = j
    <3>1. CASE d # c
      <4>1. queue'[d] = queue[d] BY <2>6, <3>1
      <4>2. queue[d][i] \in Requests BY <2>5, <4>1
      <4> QED BY <1>3, <2>1, <4>1, <4>2 DEF PoolInv, Queueing
    <3>2. CASE d = c
      <4>1. /\ Len(queue'[d]) = Len(queue[d]) + 1
            /\ queue'[d][Len(queue[d]) + 1] = r
            /\ \A j \in 1..Len(queue[d]) : queue'[d][j] = queue[d][j]
        BY <2>5, <2>7, <3>2
      <4>2. \A j \in 1..Len(queue[d]) : queue[d][j] \in Requests BY <2>5
      <4>3. Len(queue[d]) \in Nat BY <2>5
      <4>4. CASE i = Len(queue[d]) + 1
        BY <1>3, <2>2, <3>2, <4>1, <4>3, <4>4
      <4>5. CASE i \in 1..Len(queue[d])
        <5>1. queue'[d][i] = queue[d][i] /\ queue[d][i] # r
          BY <1>3, <4>1, <4>5
        <5>2. at'[queue'[d][i]] = "queued" /\ By[queue'[d][i]] = d
          BY <2>1, <4>2, <4>5, <5>1 DEF PoolInv, Queueing
        <5>3. ASSUME NEW j \in 1..Len(queue'[d]), queue'[d][i] = queue'[d][j]
              PROVE  i = j
          <6>1. j \in 1..Len(queue[d]) \/ j = Len(queue[d]) + 1
            BY <4>1, <4>3
          <6> QED BY <4>1, <4>5, <5>1, <5>3, <6>1 DEF PoolInv, Queueing
        <5> QED BY <5>2, <5>3
      <4> QED BY <4>1, <4>3, <4>4, <4>5
    <3> QED BY <3>1, <3>2
  <2>9. Queueing' BY <2>8 DEF Queueing
  <2> QED BY <2>4, <2>9 DEF PoolInv
<1>6. ASSUME at' = [at EXCEPT ![r] = "done"], UNCHANGED <<holder, queue>>
      PROVE  PoolInv'
  BY <1>2, <1>3, <1>6 DEF PoolInv, Holding, Queueing, TypeOK
<1> QED BY <1>4, <1>5, <1>6 DEF Acquire

LEMMA ReleasePool ==
  ASSUME TypeOK, PoolInv, NEW r \in Requests, NEW s \in Connections,
         NEW place \in {"done", "again"}, Holds(r, s), Release(r, s, place)
  PROVE  /\ PoolInv'
         /\ \A u \in Connections : u # s => holder'[u] = holder[u]
         /\ holder'[s] = None \/ (holder'[s] \in Requests /\ at[holder'[s]] = "queued")
         /\ at'[r] = place
         /\ \A q \in Requests : q # r =>
              \/ at'[q] = at[q]
              \/ at[q] = "queued" /\ at'[q] = "held"
<1> DEFINE c == By[r]
<1>1. c \in Coordinators /\ r # None BY RequestFacts
<1>2. at[r] = "held" /\ holder[s] = r /\ s[1] = c
  BY <1>1 DEF Holds, PoolInv, Holding
<1>3. \A u \in Connections : holder[u] \in Requests \cup {None} BY DEF TypeOK
<1>4. \A d \in Coordinators : queue[d] \in Seq(Requests) BY DEF TypeOK
<1>5. \A u \in Connections : u # s => holder[u] # r
  BY <1>1, <1>2 DEF PoolInv, Holding
<1>6. \A d \in Coordinators : \A i \in 1..Len(queue[d]) :
        queue[d][i] # r /\ queue[d][i] \in Requests
  BY <1>2, <1>4 DEF PoolInv, Queueing
<1>7. CASE queue[c] = <<>>
  <2>1. /\ holder' = [holder EXCEPT ![s] = None]
        /\ at' = [at EXCEPT ![r] = place]
        /\ UNCHANGED queue
    BY <1>7 DEF Release
  <2>2. /\ \A u \in Connections : u # s => holder'[u] = holder[u]
        /\ holder'[s] = None
        /\ at'[r] = place
        /\ \A q \in Requests : q # r => at'[q] = at[q]
    BY <2>1 DEF TypeOK
  <2>3. Holding' BY <1>3, <1>5, <2>2 DEF PoolInv, Holding
  <2>4. Queueing' BY <1>6, <2>1, <2>2 DEF PoolInv, Queueing
  <2> QED BY <2>2, <2>3, <2>4 DEF PoolInv
<1>8. CASE queue[c] # <<>>
  <2> DEFINE q0 == Head(queue[c])
  <2>1. /\ holder' = [holder EXCEPT ![s] = q0]
        /\ queue' = [queue EXCEPT ![c] = Tail(@)]
        /\ at' = [at EXCEPT ![r] = place, ![q0] = "held"]
    BY <1>8 DEF Release
  <2>2. /\ 1 \in 1..Len(queue[c]) /\ q0 = queue[c][1]
        /\ Len(Tail(queue[c])) = Len(queue[c]) - 1
        /\ \A i \in 1..Len(Tail(queue[c])) : Tail(queue[c])[i] = queue[c][i + 1]
        /\ Len(queue[c]) \in Nat
    BY <1>1, <1>4, <1>8
  <2>3. q0 \in Requests /\ q0 # r /\ at[q0] = "queued" /\ By[q0] = c /\ q0 # None
    BY <1>1, <1>6, <2>2, RequestFacts DEF PoolInv, Queueing
  <2> HIDE DEF q0
  <2>4. /\ \A u \in Connections : u # s => holder'[u] = holder[u]
        /\ holder'[s] = q0
        /\ at'[r] = place /\ at'[q0] = "held"
        /\ \A q \in Requests : q # r /\ q # q0 => at'[q] = at[q]
    BY <2>1, <2>3 DEF TypeOK
  <2>5. \A u \in Connections : holder[u] # q0
    BY <2>3 DEF PoolInv, Holding
  <2>6. Holding'
    BY <1>2, <1>3, <1>5, <2>3, <2>4, <2>5 DEF PoolInv, Holding
  <2>7. ASSUME NEW d \in Coordinators, NEW i \in 1..Len(queue'[d])
        PROVE  /\ at'[queue'[d][i]] = "queued"
               /\ By[queue'[d][i]] = d
               /\ \A j \in 1..Len(queue'[d]) : queue'[d][i] = queue'[d][j] => i = j
    <3>1. CASE d # c
      <4>1. queue'[d] = queue[d] BY <2>1, <3>1 DEF TypeOK
      <4>2. queue[d][i] # q0
        BY <2>3, <3>1, <4>1 DEF PoolInv, Queueing
      <4> QED BY <1>6, <2>4, <4>1, <4>2 DEF PoolInv, Queueing
    <3>2. CASE d = c
      <4>1. queue'[d] = Tail(queue[c]) BY <1>1, <2>1, <3>2 DEF TypeOK
      <4>2. i + 1 \in 1..Len(queue[c]) /\ i + 1 # 1 /\ queue'[d][i] = queue[c][i + 1]
        BY <2>2, <4>1
      <4>3. queue[c][i + 1] # q0
        BY <1>1, <2>2, <4>2 DEF PoolInv, Queueing
      <4>4. at'[queue'[d][i]] = "queued" /\ By[queue'[d][i]] = d
        BY <1>1, <1>6, <2>4, <3>2, <4>2, <4>3 DEF PoolInv, Queueing
      <4>5. ASSUME NEW j \in 1..Len(queue'[d]), queue'[d][i] = queue'[d][j]
            PROVE  i = j
        <5>1. j + 1 \in 1..Len(queue[c]) /\ queue'[d][j] = queue[c][j + 1]
          BY <2>2, <4>1
        <5>2. queue[c][i + 1] = queue[c][j + 1] BY <4>2, <4>5, <5>1
        <5>3. \A k, l \in 1..Len(queue[c]) : queue[c][k] = queue[c][l] => k = l
          BY <1>1 DEF PoolInv, Queueing
        <5>4. i + 1 = j + 1 BY <4>2, <5>1, <5>2, <5>3
        <5> QED BY <4>1, <5>4, <2>2
      <4> QED BY <4>4, <4>5
    <3> QED BY <3>1, <3>2
  <2>8. Queueing' BY <2>7 DEF Queueing
  <2> QED BY <2>3, <2>4, <2>6, <2>8 DEF PoolInv
<1> QED BY <1>7, <1>8

LEMMA RestartPool ==
  ASSUME TypeOK, PoolInv, NEW c \in Coordinators, Restart(c) PROVE PoolInv'
<1> DEFINE cut == {r \in Requests : By[r] = c /\ at[r] \notin {"idle", "done"}}
<1>1. /\ holder' = [s \in Connections |-> IF s \in Of(c) THEN None ELSE holder[s]]
      /\ queue' = [queue EXCEPT ![c] = <<>>]
      /\ at' = [r \in Requests |-> IF r \in cut THEN "done" ELSE at[r]]
  BY DEF Restart
<1>2. \A u \in Connections : holder[u] \in Requests \cup {None} BY DEF TypeOK
<1>3. \A s \in Connections : s \in Of(c) <=> s[1] = c BY DEF Of
<1>4. \A r \in Requests : By[r] # c => at'[r] = at[r] BY <1>1
<1>5. Holding' BY <1>1, <1>2, <1>3, <1>4 DEF PoolInv, Holding
<1>6. \A d \in Coordinators : queue[d] \in Seq(Requests) BY DEF TypeOK
<1>7. Queueing'
  <2>1. queue'[c] = <<>> /\ \A d \in Coordinators : d # c => queue'[d] = queue[d]
    BY <1>1 DEF TypeOK
  <2>2. \A d \in Coordinators : \A i \in 1..Len(queue[d]) : queue[d][i] \in Requests
    BY <1>6
  <2> QED BY <1>4, <2>1, <2>2 DEF PoolInv, Queueing
<1> QED BY <1>5, <1>7 DEF PoolInv

LEMMA PoolStep == ASSUME TypeOK, PoolInv, [Next]_vars PROVE PoolInv'
<1>1. CASE UNCHANGED <<holder, queue, at>>
  BY <1>1 DEF PoolInv, Holding, Queueing
<1>2. ASSUME NEW r \in Requests, Arrive(r) PROVE PoolInv'
  <2>1. \A u \in Connections : holder[u] \in Requests \cup {None} BY DEF TypeOK
  <2>2. \A d \in Coordinators : \A i \in 1..Len(queue[d]) : queue[d][i] \in Requests
    BY DEF TypeOK
  <2>3. \A q \in Requests : at[q] # "idle" => at'[q] = at[q]
    BY <1>2 DEF Arrive, TypeOK
  <2>4. UNCHANGED <<holder, queue>> BY <1>2 DEF Arrive, pool
  <2>5. Holding' BY <2>1, <2>3, <2>4 DEF PoolInv, Holding
  <2>6. Queueing' BY <2>2, <2>3, <2>4 DEF PoolInv, Queueing
  <2> QED BY <2>5, <2>6 DEF PoolInv
<1>3. ASSUME NEW r \in Requests, Admit(r) \/ Again(r) PROVE PoolInv'
  <2>1. CASE at[r] \in {"awaiting", "again"} /\ Acquire(r) BY <2>1, AcquirePool
  <2>2. CASE /\ at[r] = "awaiting"
             /\ at' = [at EXCEPT ![r] = "done"]
             /\ UNCHANGED pool
    <3>1. \A u \in Connections : holder[u] \in Requests \cup {None}
      BY DEF TypeOK
    <3>2. \A d \in Coordinators : \A i \in 1..Len(queue[d]) :
            queue[d][i] \in Requests
      BY DEF TypeOK
    <3>3. \A q \in Requests : at[q] # "awaiting" => at'[q] = at[q]
      BY <2>2 DEF TypeOK
    <3>4. UNCHANGED <<holder, queue>> BY <2>2 DEF pool
    <3>5. Holding' BY <3>1, <3>3, <3>4 DEF PoolInv, Holding
    <3>6. Queueing' BY <3>2, <3>3, <3>4 DEF PoolInv, Queueing
    <3> QED BY <3>5, <3>6 DEF PoolInv
  <2> QED BY <1>3, <2>1, <2>2 DEF Admit, Again
<1>4. ASSUME NEW r \in Requests, NEW s \in Connections, Act(r, s)
      PROVE  PoolInv'
  <2>1. Holds(r, s) BY <1>4, ActFacts
  <2>2. \/ UNCHANGED <<holder, queue, at>>
        \/ \E place \in {"done", "again"} : Release(r, s, place)
    BY <1>4, ActFacts DEF End
  <2> QED BY <1>1, <2>1, <2>2, ReleasePool
<1>5. ASSUME NEW c \in Coordinators, Initialize(c) \/ StartFault(c)
      PROVE  PoolInv'
  BY <1>1, <1>5 DEF Initialize, ApplySchema, LookFor, Add, StartFault, pool, client
<1>6. CASE UNCHANGED vars BY <1>1, <1>6 DEF vars, pool, client
<1> QED BY <1>2, <1>3, <1>4, <1>5, <1>6, RestartPool
        DEF Next, Serve, Stopped, Act
-----------------------------------------------------------------------------
(* What a session has not committed is its holder's, or of a request that  *)
(* went adrift; what is committed was answered as saved, or its answer is  *)
(* on its way, or one of the two exceptions applies.                       *)
Midway == {"write", "readback", "commit", "committed", "rollback", "deleted"}

OpenIsHeld ==
  \A s \in Connections : \A w \in open[s] :
    \/ w \in adrift
    \/ w = holder[s] /\ stage[w] \in {"readback", "commit", "rollback"}

InTransaction ==
  /\ \A s \in Connections : open[s] # {} => s \in tx
  /\ \A s \in Connections :
       holder[s] # None /\ stage[holder[s]] \in {"write", "readback", "commit"} =>
         s \in tx
  /\ \A r \in Requests : at[r] \notin {"held", "done"} => stage[r] \notin Midway

Committed(w) == at[w] = "held" /\ stage[w] = "committed"

Accounted(w) == answer[w] = "ok" \/ w \in unsure \cup adrift \/ Committed(w)

SavedIsAccounted == \A w \in saved : Accounted(w)

AnsweredIsDone == \A r \in Requests : answer[r] # "none" => at[r] = "done"

WriteInv == OpenIsHeld /\ InTransaction /\ SavedIsAccounted /\ AnsweredIsDone

(* Who has moved after a step of r, which held s.                          *)
LEMMA ActMoves ==
  ASSUME TypeOK, PoolInv, WriteInv, NEW r \in Requests, NEW s \in Connections, Act(r, s)
  PROVE  /\ r # None /\ holder[s] = r /\ at[r] = "held" /\ answer[r] = "none"
         /\ \A u \in Connections : u # s => holder'[u] = holder[u] /\ holder[u] # r
         /\ \/ holder'[s] = r /\ at'[r] = "held" /\ answer'[r] = "none"
            \/ /\ at'[r] = "done" \/ (at'[r] = "again" /\ answer'[r] = "none")
               /\ \/ holder'[s] = None
                  \/ holder'[s] \in Requests \ {r} /\ at[holder'[s]] = "queued"
         /\ \A q \in Requests : q # r =>
              /\ stage'[q] = stage[q] /\ answer'[q] = answer[q]
              /\ at'[q] = at[q] \/ (at[q] = "queued" /\ at'[q] = "held")
<1>1. Holds(r, s) /\ r # None BY ActFacts, RequestFacts
<1>2. holder[s] = r /\ at[r] = "held" /\ answer[r] = "none"
  BY <1>1 DEF Holds, WriteInv, AnsweredIsDone
<1>3. \A u \in Connections : u # s => holder[u] # r
  BY <1>1, <1>2 DEF PoolInv, Holding
<1>4. \A q \in Requests : q # r => stage'[q] = stage[q]
  BY ActFacts DEF MoveTo, TypeOK
<1>5. CASE UNCHANGED <<holder, queue, at, answer>> BY <1>1, <1>2, <1>3, <1>4, <1>5
<1>6. CASE Release(r, s, "again") /\ UNCHANGED answer
  <2>1. /\ \A u \in Connections : u # s => holder'[u] = holder[u]
        /\ holder'[s] = None \/ (holder'[s] \in Requests /\ at[holder'[s]] = "queued")
        /\ at'[r] = "again"
        /\ \A q \in Requests : q # r =>
             at'[q] = at[q] \/ (at[q] = "queued" /\ at'[q] = "held")
    BY <1>1, <1>6, ReleasePool
  <2> QED BY <1>1, <1>2, <1>3, <1>4, <1>6, <2>1
<1>7. ASSUME NEW how \in Answers, End(r, s, how)
      PROVE  /\ \A u \in Connections : u # s => holder'[u] = holder[u]
             /\ holder'[s] = None \/ (holder'[s] \in Requests /\ at[holder'[s]] = "queued")
             /\ at'[r] = "done"
             /\ \A q \in Requests : q # r =>
                  /\ answer'[q] = answer[q]
                  /\ at'[q] = at[q] \/ (at[q] = "queued" /\ at'[q] = "held")
  <2>1. Release(r, s, "done") /\ answer' = [answer EXCEPT ![r] = how]
    BY <1>7 DEF End
  <2>2. \A q \in Requests : q # r => answer'[q] = answer[q] BY <2>1 DEF TypeOK
  <2> QED BY <1>1, <2>1, <2>2, ReleasePool
<1>8. CASE \E how \in Answers \ {"none"} : End(r, s, how)
  BY <1>1, <1>2, <1>3, <1>4, <1>7, <1>8
<1> QED BY <1>5, <1>6, <1>8, ActFacts

(* What a request finds in its session when it is at none of these stages. *)
LEMMA FoundAdrift ==
  ASSUME WriteInv, NEW r \in Requests, NEW s \in Connections, Holds(r, s),
         stage[r] \notin {"readback", "commit", "rollback"}
  PROVE  open[s] \subseteq adrift
BY DEF Holds, WriteInv, OpenIsHeld

LEMMA ActOpen ==
  ASSUME TypeOK, StagesFit, PoolInv, WriteInv,
         NEW r \in Requests, NEW s \in Connections, Act(r, s)
  PROVE  OpenIsHeld'
<1> DEFINE Fine == \A w \in open'[s] :
                     \/ w \in adrift'
                     \/ w = holder'[s] /\ stage'[w] \in {"readback", "commit", "rollback"}
<1>1. Holds(r, s) BY ActFacts
<1>2. adrift \subseteq adrift' BY ActData
<1>3. ASSUME NEW u \in Connections, u # s, NEW w \in open'[u]
       PROVE  \/ w \in adrift'
              \/ w = holder'[u] /\ stage'[w] \in {"readback", "commit", "rollback"}
  <2>1. open'[u] = open[u] BY <1>3, ActData
  <2>2. holder'[u] = holder[u] /\ holder[u] # r BY <1>3, ActMoves
  <2>3. w \in Requests BY <2>1 DEF TypeOK, Runs, Deletes
  <2>4. w # r => stage'[w] = stage[w] BY <2>3, ActMoves
  <2> QED BY <1>2, <2>1, <2>2, <2>4 DEF WriteInv, OpenIsHeld
<1> SUFFICES Fine BY <1>3 DEF OpenIsHeld
<1>4. \A w \in open[s] : w \in adrift \/ w = r
  BY <1>1 DEF Holds, WriteInv, OpenIsHeld
<1>5. CASE Begin(r, s) \/ Commit(r, s) \/ Rollback(r, s) \/ Break(r, s)
  <2>1. open'[s] = {} BY <1>5 DEF Begin, Commit, Rollback, Break, Clear, TypeOK
  <2> QED BY <2>1
<1>6. CASE Acknowledge(r, s) \/ ReadExperiment(r, s) \/ ReadRuns(r, s)
  <2>1. open' = open /\ stage[r] \notin {"readback", "commit", "rollback"}
    BY <1>6 DEF Acknowledge, ReadExperiment, ReadRuns
  <2> QED BY <1>1, <1>2, <2>1, FoundAdrift
<1>7. CASE Write(r, s)
  <2>1. open[s] \subseteq adrift BY <1>1, <1>7, FoundAdrift DEF Write
  <2>2. CASE UNCHANGED open BY <1>2, <2>1, <2>2
  <2>3. CASE open' = [open EXCEPT ![s] = @ \cup {r}] /\ MoveTo(r, "readback")
    <3>1. open'[s] = open[s] \cup {r} /\ stage'[r] = "readback"
      BY <2>3 DEF MoveTo, TypeOK
    <3>2. holder'[s] = r BY <1>1, <1>7 DEF Write, Holds
    <3> QED BY <1>2, <2>1, <3>1, <3>2
  <2> QED BY <1>7, <2>2, <2>3 DEF Write
<1>8. CASE ReadBack(r, s)
  <2>1. UNCHANGED <<open, holder>> /\ stage'[r] = "commit"
    BY <1>8 DEF ReadBack, MoveTo, TypeOK, pool
  <2> QED BY <1>1, <1>2, <1>4, <2>1 DEF Holds
<1>9. CASE RefuseRollback(r, s)
  <2>1. open' = open BY <1>9 DEF RefuseRollback
  <2>2. open[s] # {} => r \in adrift'
    BY <1>9 DEF RefuseRollback, MarkAdrift, WriteInv, InTransaction
  <2> QED BY <1>2, <1>4, <2>1, <2>2
<1>10. CASE Delete(r, s)
  <2>1. open[s] \subseteq adrift BY <1>1, <1>10, FoundAdrift DEF Delete
  <2>2. UNCHANGED open \/ (s \in tx /\ open' = [open EXCEPT ![s] = @ \cup {r}])
    BY <1>10 DEF Delete
  <2>3. s \in tx => r \in adrift' BY <1>10 DEF Delete, MarkAdrift
  <2>4. open'[s] \subseteq open[s] \cup adrift' BY <2>2, <2>3 DEF TypeOK
  <2> QED BY <1>2, <2>1, <2>4
<1>11. CASE StatementFault(r, s)
  <2>1. open' = open BY <1>11 DEF StatementFault
  <2>2. CASE r \in Runs
    <3>1. UNCHANGED holder /\ stage'[r] = "rollback"
      BY <1>11, <2>2 DEF StatementFault, MoveTo, TypeOK
    <3> QED BY <1>1, <1>2, <1>4, <2>1, <3>1 DEF Holds
  <2>3. CASE r \notin Runs
    <3>1. stage[r] \notin {"readback", "commit", "rollback"}
      BY <2>3 DEF StagesFit, RunStages
    <3> QED BY <1>1, <1>2, <2>1, <3>1, FoundAdrift
  <2> QED BY <2>2, <2>3
<1> QED BY <1>5, <1>6, <1>7, <1>8, <1>9, <1>10, <1>11, ActCases

LEMMA ActInTransaction ==
  ASSUME TypeOK, StagesFit, PoolInv, WriteInv,
         NEW r \in Requests, NEW s \in Connections, Act(r, s)
  PROVE  InTransaction'
<1>1. Holds(r, s) BY ActFacts
<1>2. stage[r] \in {"write", "readback", "commit"} => s \in tx
  BY <1>1, RequestFacts DEF Holds, WriteInv, InTransaction
<1>3. open[s] # {} => s \in tx BY DEF WriteInv, InTransaction
<1>4. open'[s] # {} => s \in tx'
  <2>1. CASE open' = [open EXCEPT ![s] = {}] BY <2>1 DEF TypeOK
  <2>2. CASE UNCHANGED <<open, tx>> BY <1>3, <2>2
  <2>3. CASE s \in tx /\ UNCHANGED tx BY <2>3
  <2>4. CASE Write(r, s) BY <1>2, <2>4 DEF Write
  <2> QED BY <2>1, <2>2, <2>3, <2>4, ActCases
          DEF Begin, ReadBack, Commit, Acknowledge, Rollback, RefuseRollback,
              ReadExperiment, ReadRuns, Delete, StatementFault, Break, Clear, pool
<1>5. stage'[r] \in {"write", "readback", "commit"} /\ holder'[s] = r => s \in tx'
  <2>1. CASE Begin(r, s) BY <2>1 DEF Begin
  <2>2. CASE Write(r, s) \/ ReadBack(r, s)
    BY <1>2, <2>2 DEF Write, ReadBack, pool
  <2>3. CASE Commit(r, s) BY <2>3 DEF Commit, MoveTo, TypeOK
  <2>4. CASE \/ Acknowledge(r, s) \/ Rollback(r, s) \/ RefuseRollback(r, s)
             \/ ReadExperiment(r, s) \/ ReadRuns(r, s) \/ Delete(r, s)
    BY <2>4 DEF Acknowledge, Rollback, RefuseRollback, ReadExperiment, ReadRuns,
                Delete, MoveTo, TypeOK
  <2>5. CASE StatementFault(r, s) \/ Break(r, s)
    <3>1. CASE r \in Runs
      BY <2>5, <3>1 DEF StatementFault, Break, MoveTo, TypeOK
    <3>2. CASE r \notin Runs
      <4>1. UNCHANGED stage BY <2>5, <3>2 DEF StatementFault, Break
      <4> QED BY <3>2, <4>1 DEF StagesFit, RunStages
    <3> QED BY <3>1, <3>2
  <2> QED BY <2>1, <2>2, <2>3, <2>4, <2>5, ActCases
<1>6. at'[r] = "again" => stage'[r] = "second"
  <2>1. CASE ReadExperiment(r, s)
    <3>1. CASE MoveTo(r, "second") BY <3>1 DEF MoveTo, TypeOK
    <3>2. CASE End(r, s, "refused")
      <4>1. at'[r] = "done" BY <1>1, <3>2, ReleasePool DEF End
      <4> QED BY <4>1
    <3> QED BY <2>1, <3>1, <3>2 DEF ReadExperiment
  <2>2. CASE UNCHANGED at BY <1>1, <2>2 DEF Holds
  <2>3. ASSUME NEW how \in Answers, End(r, s, how) PROVE at'[r] = "done"
    BY <1>1, <2>3, ReleasePool DEF End
  <2>4. CASE Begin(r, s) \/ Write(r, s) \/ ReadBack(r, s) \/ Commit(r, s)
    BY <2>2, <2>4 DEF Begin, Write, ReadBack, Commit
  <2>5. CASE \/ Acknowledge(r, s) \/ Rollback(r, s) \/ RefuseRollback(r, s)
             \/ ReadRuns(r, s) \/ Delete(r, s) \/ StatementFault(r, s) \/ Break(r, s)
    BY <2>2, <2>3, <2>5 DEF Acknowledge, Rollback, RefuseRollback, ReadRuns, Delete,
                            StatementFault, Break, Answers
  <2> QED BY <2>1, <2>4, <2>5, ActCases
<1>7. \A u \in Connections : open'[u] # {} => u \in tx'
  BY <1>4, ActData DEF WriteInv, InTransaction
<1>8. ASSUME NEW u \in Connections, holder'[u] # None,
             stage'[holder'[u]] \in {"write", "readback", "commit"}
      PROVE  u \in tx'
  <2>1. CASE u # s
    <3>1. holder'[u] = holder[u] /\ holder[u] # r BY <2>1, ActMoves
    <3>2. holder[u] \in Requests BY <1>8, <3>1 DEF TypeOK
    <3>3. stage'[holder[u]] = stage[holder[u]] BY <3>1, <3>2, ActMoves
    <3> QED BY <1>8, <2>1, <3>1, <3>3, ActData DEF WriteInv, InTransaction
  <2>2. CASE u = s /\ holder'[s] = r BY <1>5, <1>8, <2>2
  <2>3. CASE u = s /\ holder'[s] # r
    <3>1. holder'[s] \in Requests \ {r} /\ at[holder'[s]] = "queued"
      BY <1>8, <2>3, ActMoves
    <3>2. stage'[holder'[s]] = stage[holder'[s]] BY <3>1, ActMoves
    <3> QED BY <1>8, <2>3, <3>1, <3>2 DEF WriteInv, InTransaction, Midway
  <2> QED BY <2>1, <2>2, <2>3
<1>9. ASSUME NEW q \in Requests, at'[q] \notin {"held", "done"}
      PROVE  stage'[q] \notin Midway
  <2>1. CASE q = r BY <1>6, <1>9, <2>1, ActMoves DEF Midway
  <2>2. CASE q # r
    <3>1. at'[q] = at[q] /\ stage'[q] = stage[q] BY <1>9, <2>2, ActMoves
    <3> QED BY <1>9, <3>1 DEF WriteInv, InTransaction
  <2> QED BY <2>1, <2>2
<1> QED BY <1>7, <1>8, <1>9 DEF InTransaction

(* An account of a run is not lost: an answer under way is given, or the   *)
(* run is one of the exceptions.                                           *)
LEMMA ActAccounts ==
  ASSUME TypeOK, StagesFit, PoolInv, WriteInv,
         NEW r \in Requests, NEW s \in Connections, Act(r, s),
         NEW w \in Requests, Accounted(w)
  PROVE  Accounted(w)'
<1>1. unsure \subseteq unsure' /\ adrift \subseteq adrift' BY ActData
<1>2. Holds(r, s) BY ActFacts
<1>3. CASE w # r BY <1>1, <1>3, ActMoves DEF Accounted, Committed
<1>4. CASE w = r /\ Committed(r)
  <2>1. Acknowledge(r, s) \/ Break(r, s)
    BY <1>4, ActCases
       DEF Committed, Begin, Write, ReadBack, Commit, Rollback, RefuseRollback,
           ReadExperiment, ReadRuns, Delete, StatementFault, Effective
  <2>2. CASE Acknowledge(r, s)
    BY <1>4, <2>2 DEF Acknowledge, End, Accounted, TypeOK
  <2>3. CASE Break(r, s)
    BY <1>4, <2>3 DEF Break, Effective, Committed, Accounted
  <2> QED BY <2>1, <2>2, <2>3
<1>5. CASE w = r /\ r \in unsure \cup adrift BY <1>1, <1>5 DEF Accounted
<1> QED BY <1>3, <1>4, <1>5, ActMoves DEF Accounted

LEMMA ActSaves ==
  ASSUME TypeOK, StagesFit, PoolInv, WriteInv,
         NEW r \in Requests, NEW s \in Connections, Act(r, s)
  PROVE  SavedIsAccounted'
<1> SUFFICES ASSUME NEW w \in saved' PROVE Accounted(w)'
  BY DEF SavedIsAccounted
<1>1. Holds(r, s) BY ActFacts
<1>2. saved' \subseteq Runs BY ActData
<1>3. w \in Requests BY <1>2 DEF Runs
<1>4. CASE w \in saved
  BY <1>3, <1>4, ActAccounts DEF WriteInv, SavedIsAccounted
<1>5. open[s] \subseteq Runs \cup Deletes BY DEF TypeOK
<1>6. adrift \subseteq adrift' BY ActData
<1>7. CASE w \notin saved /\ Begin(r, s)
  <2>1. w \in open[s] BY <1>5, <1>7, PublishFacts DEF Begin
  <2>2. w \in adrift BY <1>1, <1>7, <2>1, FoundAdrift DEF Begin
  <2> QED BY <1>6, <2>2 DEF Accounted
<1>8. CASE w \notin saved /\ Commit(r, s)
  <2>1. w \in open[s] BY <1>5, <1>8, PublishFacts DEF Commit
  <2>2. w \in adrift \/ w = r BY <1>1, <2>1 DEF Holds, WriteInv, OpenIsHeld
  <2>3. Committed(r)'
    BY <1>1, <1>8 DEF Commit, Holds, Committed, MoveTo, TypeOK
  <2> QED BY <1>6, <2>2, <2>3 DEF Accounted
<1>9. CASE w \notin saved /\ Delete(r, s)
  <2>1. r \in Deletes BY <1>9 DEF Delete, StagesFit
  <2>2. Publish({r}) => saved' = {} BY <2>1 DEF Publish
  <2> QED BY <1>9, <2>2 DEF Delete
<1>10. CASE ~(Begin(r, s) \/ Commit(r, s) \/ Delete(r, s))
  <2>1. saved' = saved
    BY <1>10, ActCases
       DEF Write, ReadBack, Acknowledge, Rollback, RefuseRollback, ReadExperiment,
           ReadRuns, StatementFault, Break, data
  <2> QED BY <1>4, <2>1
<1> QED BY <1>4, <1>7, <1>8, <1>9, <1>10

LEMMA ActWrites ==
  ASSUME TypeOK, StagesFit, PoolInv, WriteInv,
         NEW r \in Requests, NEW s \in Connections, Act(r, s)
  PROVE  WriteInv'
<1>1. ASSUME NEW q \in Requests, answer'[q] # "none" PROVE at'[q] = "done"
  <2>1. CASE q = r BY <1>1, <2>1, ActMoves
  <2>2. CASE q # r
    <3>1. answer[q] # "none" BY <1>1, <2>2, ActMoves
    <3>2. at[q] = "done" BY <3>1 DEF WriteInv, AnsweredIsDone
    <3> QED BY <2>2, <3>2, ActMoves
  <2> QED BY <2>1, <2>2
<1>2. AnsweredIsDone' BY <1>1 DEF AnsweredIsDone
<1> QED BY <1>2, ActOpen, ActInTransaction, ActSaves DEF WriteInv

LEMMA AcquireWrites ==
  ASSUME TypeOK, PoolInv, WriteInv, NEW r \in Requests, Admit(r) \/ Again(r)
  PROVE  WriteInv'
<1>1. at[r] \in {"awaiting", "again"} /\ UNCHANGED <<data, stage>>
  BY DEF Admit, Again
<1>2. UNCHANGED <<open, tx>> BY DEF Admit, Again, Acquire, pool
<1>3. answer[r] = "none" BY <1>1 DEF WriteInv, AnsweredIsDone
<1>4. \A s \in Connections : \/ holder'[s] = holder[s]
                             \/ holder[s] = None /\ holder'[s] = r
  BY DEF Admit, Again, Acquire, pool, Of, TypeOK
<1>5. stage[r] \notin Midway BY <1>1 DEF WriteInv, InTransaction
<1>6. OpenIsHeld'
  <2>1. \A s \in Connections : \A w \in open[s] : w # None
    BY RequestFacts DEF TypeOK, Runs, Deletes
  <2> QED BY <1>1, <1>2, <1>4, <2>1 DEF WriteInv, OpenIsHeld, data
<1>7. \/ answer' = answer
      \/ answer' = [answer EXCEPT ![r] = "failed"] /\ at' = [at EXCEPT ![r] = "done"]
  BY DEF Admit, Again, Acquire
<1>8. \A q \in Requests : q # r => at'[q] = at[q]
  BY DEF Admit, Again, Acquire, TypeOK
<1>9. InTransaction'
  <2>1. \A s \in Connections : open'[s] # {} => s \in tx'
    BY <1>2 DEF WriteInv, InTransaction
  <2>2. \A s \in Connections :
          holder'[s] # None /\ stage'[holder'[s]] \in {"write", "readback", "commit"}
            => s \in tx'
    BY <1>1, <1>2, <1>4, <1>5 DEF WriteInv, InTransaction, Midway
  <2>3. \A q \in Requests : at'[q] \notin {"held", "done"} => stage'[q] \notin Midway
    BY <1>1, <1>5, <1>8 DEF WriteInv, InTransaction
  <2> QED BY <2>1, <2>2, <2>3 DEF InTransaction
<1>10. AnsweredIsDone' BY <1>3, <1>7, <1>8 DEF WriteInv, AnsweredIsDone, TypeOK
<1>11. \A w \in Requests : Accounted(w) => Accounted(w)'
  BY <1>1, <1>3, <1>5, <1>7, <1>8 DEF Accounted, Committed, Midway, data, TypeOK
<1>12. SavedIsAccounted'
  BY <1>1, <1>11 DEF WriteInv, SavedIsAccounted, data, TypeOK, Runs
<1> QED BY <1>6, <1>9, <1>10, <1>12 DEF WriteInv

(* A coordinator that dies takes its sessions with it; what it had         *)
(* committed and not yet acknowledged is unsure.                           *)
LEMMA RestartWrites ==
  ASSUME TypeOK, PoolInv, WriteInv, NEW c \in Coordinators, Restart(c)
  PROVE  /\ WriteInv'
         /\ \A w \in Requests : Accounted(w) => Accounted(w)'
<1>1. /\ \A s \in Connections : \/ open'[s] = {} /\ holder'[s] = None
                                \/ /\ open'[s] = open[s] /\ holder'[s] = holder[s]
                                   /\ s \in tx' <=> s \in tx
      /\ UNCHANGED <<saved, adrift, stage>>
  BY DEF Restart, TypeOK
<1>2. OpenIsHeld' BY <1>1 DEF WriteInv, OpenIsHeld
<1>3. \A r \in Requests : \/ at'[r] = at[r] /\ answer'[r] = answer[r]
                          \/ /\ at[r] \notin {"idle", "done"} /\ at'[r] = "done"
                             /\ stage[r] \in Effective => r \in unsure'
  BY DEF Restart, TypeOK
<1>4. unsure \subseteq unsure' BY DEF Restart
<1>5. AnsweredIsDone' BY <1>3 DEF WriteInv, AnsweredIsDone
<1>6. InTransaction' BY <1>1, <1>3 DEF WriteInv, InTransaction
<1>7. \A w \in Requests : Accounted(w) => Accounted(w)'
  BY <1>1, <1>3, <1>4 DEF WriteInv, AnsweredIsDone, Accounted, Committed, Effective
<1>8. SavedIsAccounted'
  BY <1>1, <1>7 DEF WriteInv, SavedIsAccounted, TypeOK, Runs
<1> QED BY <1>2, <1>5, <1>6, <1>7, <1>8 DEF WriteInv

LEMMA WriteStep ==
  ASSUME TypeOK, StagesFit, PoolInv, WriteInv, [Next]_vars PROVE WriteInv'
<1>1. ASSUME UNCHANGED <<holder, open, tx, stage, data, answer>>,
             \A r \in Requests : \/ at'[r] = at[r]
                                 \/ at[r] = "idle" /\ at'[r] = "awaiting"
      PROVE  WriteInv'
  <2>1. OpenIsHeld' BY <1>1 DEF WriteInv, OpenIsHeld, data
  <2>2. InTransaction' BY <1>1 DEF WriteInv, InTransaction
  <2>3. SavedIsAccounted'
    BY <1>1 DEF WriteInv, SavedIsAccounted, Accounted, Committed, data, TypeOK, Runs
  <2>4. AnsweredIsDone' BY <1>1 DEF WriteInv, AnsweredIsDone
  <2> QED BY <2>1, <2>2, <2>3, <2>4 DEF WriteInv
<1>2. ASSUME NEW r \in Requests, Arrive(r) PROVE WriteInv'
  BY <1>1, <1>2 DEF Arrive, pool, TypeOK
<1>3. ASSUME NEW c \in Coordinators, Initialize(c) \/ StartFault(c)
      PROVE  WriteInv'
  BY <1>1, <1>3 DEF Initialize, ApplySchema, LookFor, Add, StartFault, pool, client
<1>4. ASSUME NEW r \in Requests, NEW s \in Connections, Act(r, s) PROVE WriteInv'
  BY <1>4, ActWrites
<1>5. CASE UNCHANGED vars BY <1>1, <1>5 DEF vars, pool, client
<1> QED BY <1>2, <1>3, <1>4, <1>5, AcquireWrites, RestartWrites
        DEF Next, Serve, Stopped, Act

LEMMA WriteInit == Init => PoolInv /\ WriteInv
<1> SUFFICES ASSUME Init PROVE PoolInv /\ WriteInv OBVIOUS
<1>1. \A r \in Requests : First(r) \notin Midway BY RequestFacts DEF Midway
<1> QED BY <1>1 DEF Init, PoolInv, Holding, Queueing, WriteInv, OpenIsHeld,
                    InTransaction, SavedIsAccounted, AnsweredIsDone

(* A write whose request failed, or died with its coordinator, is neither  *)
(* committed nor left in a session (inTransaction), unless its COMMIT was  *)
(* carried out and not acknowledged or its ROLLBACK was refused.           *)
THEOREM FailedWritesAreGone == Spec => []FailureLeavesNothing
<1>1. StoreTypes /\ PoolInv /\ WriteInv /\ [Next]_vars
        => (StoreTypes /\ PoolInv /\ WriteInv)'
  BY TypeStep, PoolStep, WriteStep DEF StoreTypes
<1>2. TypeOK /\ PoolInv /\ WriteInv => FailureLeavesNothing
  <2> SUFFICES ASSUME TypeOK, PoolInv, WriteInv, NEW r \in Runs,
                      answer[r] \in {"failed", "refused", "lost"},
                      r \notin unsure \cup adrift
               PROVE  r \notin saved \cup Uncommitted
    BY DEF FailureLeavesNothing
  <2>1. r \in Requests /\ r # None BY RequestFacts DEF Runs
  <2>2. at[r] = "done" BY <2>1 DEF WriteInv, AnsweredIsDone
  <2>3. r \notin saved
    BY <2>2 DEF WriteInv, SavedIsAccounted, Accounted, Committed
  <2>4. ASSUME NEW s \in Connections PROVE r \notin open[s]
    BY <2>1, <2>2 DEF WriteInv, OpenIsHeld, PoolInv, Holding
  <2> QED BY <2>3, <2>4 DEF Uncommitted
<1> QED BY <1>1, <1>2, TypeInit, WriteInit, PTL DEF Spec, StoreTypes
-----------------------------------------------------------------------------
(* What a reader gets: every run that was answered as saved before the     *)
(* reader came is still there when it reads, or all of them are gone.      *)

(* A transaction that is past its INSERT has the run in it.                *)
Written ==
  \A s \in Connections :
    holder[s] # None /\ stage[holder[s]] \in {"readback", "commit"} =>
      holder[s] \in open[s]

(* A DELETE that is not committed keeps every other session from writing,  *)
(* and after one that is committed there is nothing to commit.             *)
Vacant ==
  /\ gone => saved = {} /\ \A s \in Connections : open[s] = {}
  /\ \A s \in Connections : open[s] \cap Deletes # {} =>
       \A u \in Connections : u # s => open[u] = {}

LEMMA ActWritten ==
  ASSUME TypeOK, StagesFit, PoolInv, WriteInv, Written,
         NEW r \in Requests, NEW s \in Connections, Act(r, s)
  PROVE  Written'
<1>1. Holds(r, s) BY ActFacts
<1>2. ASSUME NEW u \in Connections, holder'[u] # None,
             stage'[holder'[u]] \in {"readback", "commit"}
      PROVE  holder'[u] \in open'[u]
  <2>1. CASE u # s
    <3>1. /\ holder'[u] = holder[u] /\ holder[u] # r /\ open'[u] = open[u]
      BY <2>1, ActMoves, ActData
    <3>2. holder[u] \in Requests BY <1>2, <3>1 DEF TypeOK
    <3>3. stage'[holder[u]] = stage[holder[u]] BY <3>1, <3>2, ActMoves
    <3> QED BY <1>2, <3>1, <3>3 DEF Written
  <2>2. CASE u = s /\ holder'[s] = r
    <3>1. CASE Write(r, s)
      <4>1. CASE MoveTo(r, "rollback") BY <1>2, <2>2, <4>1 DEF MoveTo, TypeOK
      <4>2. CASE open' = [open EXCEPT ![s] = @ \cup {r}]
        BY <2>2, <4>2 DEF TypeOK
      <4> QED BY <3>1, <4>1, <4>2 DEF Write
    <3>2. CASE ReadBack(r, s)
      BY <1>1, <2>2, <3>2, RequestFacts DEF ReadBack, Holds, Written, pool
    <3>3. stage'[r] \in {"readback", "commit"} BY <1>2, <2>2
    <3>4. CASE Begin(r, s) \/ Commit(r, s)
      BY <3>3, <3>4 DEF Begin, Commit, MoveTo, TypeOK
    <3>5. CASE \/ Acknowledge(r, s) \/ Rollback(r, s) \/ RefuseRollback(r, s)
               \/ ReadExperiment(r, s) \/ ReadRuns(r, s) \/ Delete(r, s)
      BY <3>3, <3>5 DEF Acknowledge, Rollback, RefuseRollback, ReadExperiment,
                        ReadRuns, Delete, MoveTo, TypeOK
    <3>6. CASE StatementFault(r, s) \/ Break(r, s)
      <4>1. CASE r \in Runs
        BY <3>3, <3>6, <4>1 DEF StatementFault, Break, MoveTo, TypeOK
      <4>2. CASE r \notin Runs
        <5>1. UNCHANGED stage BY <3>6, <4>2 DEF StatementFault, Break
        <5> QED BY <3>3, <4>2, <5>1 DEF StagesFit, RunStages
      <4> QED BY <4>1, <4>2
    <3> QED BY <3>1, <3>2, <3>4, <3>5, <3>6, ActCases
  <2>3. CASE u = s /\ holder'[s] # r
    <3>1. holder'[s] \in Requests \ {r} /\ at[holder'[s]] = "queued"
      BY <1>2, <2>3, ActMoves
    <3>2. stage'[holder'[s]] = stage[holder'[s]] BY <3>1, ActMoves
    <3> QED BY <1>2, <2>3, <3>1, <3>2 DEF WriteInv, InTransaction, Midway
  <2> QED BY <2>1, <2>2, <2>3
<1> QED BY <1>2 DEF Written

LEMMA ActVacant ==
  ASSUME TypeOK, StagesFit, PoolInv, WriteInv, Written, Vacant,
         NEW r \in Requests, NEW s \in Connections, Act(r, s)
  PROVE  Vacant'
<1>1. open[s] \subseteq Runs \cup Deletes BY DEF TypeOK
<1>2. \A u \in Connections : u # s => open'[u] = open[u] BY ActData
<1>3. CASE UNCHANGED <<saved, gone>> /\ open'[s] \in {open[s], {}}
  BY <1>2, <1>3 DEF Vacant
<1>4. CASE Publish(open[s]) /\ open'[s] = {}
  <2>1. CASE open[s] \cap Deletes = {}
    <3>1. saved' = saved \cup open[s] /\ gone' = gone BY <1>4, <2>1 DEF Publish
    <3> QED BY <1>2, <1>4, <3>1 DEF Vacant
  <2>2. CASE open[s] \cap Deletes # {}
    <3>1. saved' = {} BY <1>4, <2>2 DEF Publish
    <3>2. \A u \in Connections : open'[u] = {} BY <1>2, <1>4, <2>2 DEF Vacant
    <3> QED BY <3>1, <3>2 DEF Vacant
  <2> QED BY <2>1, <2>2
<1>5. CASE Write(r, s)
  <2>1. UNCHANGED <<saved, gone>> BY <1>5 DEF Write, data
  <2>2. CASE UNCHANGED open BY <1>3, <2>1, <2>2
  <2>3. CASE ~gone /\ open' = [open EXCEPT ![s] = @ \cup {r}]
    <3>1. \A u \in Connections : u # s => open[u] \cap Deletes = {}
      BY <1>5 DEF Write, Blocked
    <3>2. r \in Runs /\ r \notin Deletes
      BY <1>5 DEF Write, StagesFit, RunStages, Runs, Deletes
    <3>3. open'[s] = open[s] \cup {r} BY <2>3 DEF TypeOK
    <3>4. open'[s] \cap Deletes = open[s] \cap Deletes BY <3>2, <3>3
    <3> QED BY <1>2, <2>1, <2>3, <3>1, <3>4 DEF Vacant
  <2> QED BY <1>5, <2>2, <2>3 DEF Write
<1>6. CASE Delete(r, s)
  <2>1. \A u \in Connections : u # s => open[u] = {} BY <1>6 DEF Delete, Blocked
  <2>2. CASE UNCHANGED <<open, saved, gone>> BY <1>3, <2>2
  <2>3. CASE ~gone /\ s \in tx /\ UNCHANGED <<saved, gone>>
    BY <1>2, <2>1, <2>3 DEF Vacant
  <2>4. CASE s \notin tx /\ Publish({r}) /\ UNCHANGED open
    <3>1. r \in Deletes BY <1>6 DEF Delete, StagesFit
    <3>2. saved' = {} BY <2>4, <3>1 DEF Publish
    <3>3. open[s] = {} BY <2>4 DEF WriteInv, InTransaction
    <3> QED BY <2>1, <2>4, <3>2, <3>3 DEF Vacant
  <2> QED BY <1>6, <2>2, <2>3, <2>4 DEF Delete
<1>7. CASE Begin(r, s) \/ Commit(r, s)
  BY <1>4, <1>7 DEF Begin, Commit, Clear, TypeOK
<1>8. CASE \/ ReadBack(r, s) \/ Acknowledge(r, s) \/ Rollback(r, s)
           \/ RefuseRollback(r, s) \/ ReadExperiment(r, s) \/ ReadRuns(r, s)
           \/ StatementFault(r, s) \/ Break(r, s)
  BY <1>3, <1>8 DEF ReadBack, Acknowledge, Rollback, RefuseRollback, ReadExperiment,
                    ReadRuns, StatementFault, Break, Clear, data, pool, TypeOK
<1> QED BY <1>5, <1>6, <1>7, <1>8, ActCases

LEMMA SessionStep ==
  ASSUME TypeOK, StagesFit, PoolInv, WriteInv, Written, Vacant, [Next]_vars
  PROVE  Written' /\ Vacant'
<1>1. ASSUME UNCHANGED <<holder, open, stage, saved, gone>> PROVE Written' /\ Vacant'
  BY <1>1 DEF Written, Vacant
<1>2. ASSUME NEW c \in Coordinators, Initialize(c) \/ StartFault(c)
      PROVE  Written' /\ Vacant'
  BY <1>1, <1>2 DEF Initialize, ApplySchema, LookFor, Add, StartFault, pool, data,
                    client
<1>3. ASSUME NEW r \in Requests, Arrive(r) PROVE Written' /\ Vacant'
  BY <1>1, <1>3 DEF Arrive, pool, data
<1>4. ASSUME NEW r \in Requests, Admit(r) \/ Again(r) PROVE Written' /\ Vacant'
  <2>1. UNCHANGED <<open, stage, saved, gone>>
    BY <1>4 DEF Admit, Again, Acquire, pool, data
  <2>2. \A s \in Connections : \/ holder'[s] = holder[s]
                               \/ holder[s] = None /\ holder'[s] = r
    BY <1>4 DEF Admit, Again, Acquire, pool, Of, TypeOK
  <2>3. stage[r] \notin Midway
    BY <1>4 DEF Admit, Again, WriteInv, InTransaction
  <2> QED BY <2>1, <2>2, <2>3 DEF Written, Vacant, Midway
<1>5. ASSUME NEW r \in Requests, NEW s \in Connections, Act(r, s)
      PROVE  Written' /\ Vacant'
  BY <1>5, ActWritten, ActVacant
<1>6. ASSUME NEW c \in Coordinators, Restart(c) PROVE Written' /\ Vacant'
  <2>1. /\ \A s \in Connections : \/ open'[s] = {} /\ holder'[s] = None
                                  \/ open'[s] = open[s] /\ holder'[s] = holder[s]
        /\ UNCHANGED <<saved, gone, stage>>
    BY <1>6 DEF Restart, TypeOK
  <2> QED BY <2>1 DEF Written, Vacant
<1>7. CASE UNCHANGED vars BY <1>1, <1>7 DEF vars, pool, data, client
<1> QED BY <1>2, <1>3, <1>4, <1>5, <1>6, <1>7 DEF Next, Serve, Stopped, Act

DetailsInv ==
  /\ \A w \in Runs : answer[w] = "ok" \/ Committed(w) => w \in saved \/ gone
  /\ \A r \in Requests : \A w \in expected[r] : w \in Runs /\ answer[w] = "ok"
  /\ \A r \in Requests : r \notin adrift => \A w \in seen[r] : Accounted(w)
  /\ \A r \in Requests : Op[r] = "details" /\ answer[r] = "ok" /\ r \notin adrift =>
       expected[r] \subseteq seen[r] \/ (gone /\ seen[r] = {})

(* How one step may change what DetailsInv is about, for a request q.      *)
Answers1(q) == answer[q] # "none" => answer'[q] = answer[q]

Commits(q) ==
  q \in Runs /\ (answer'[q] = "ok" \/ Committed(q)') =>
    answer[q] = "ok" \/ Committed(q) \/ q \in saved' \/ gone'

Confirms(q) ==
  Op[q] = "details" /\ answer'[q] = "ok" /\ answer[q] = "none" /\ q \notin adrift' =>
    expected'[q] = expected[q] /\ seen'[q] = saved /\ UNCHANGED <<saved, gone>>

Reads(q) ==
  /\ \/ expected'[q] = expected[q]
     \/ at[q] = "idle" /\ expected'[q] = {w \in Runs : answer[w] = "ok"}
  /\ \/ seen'[q] = seen[q]
     \/ at[q] = "held" /\ (seen'[q] = saved \/ q \in adrift')

Persists == /\ gone => gone'
            /\ saved \subseteq saved' \/ gone'
            /\ adrift \subseteq adrift'
            /\ \A w \in Requests : Accounted(w) => Accounted(w)'

Facts == Persists /\ \A q \in Requests : Answers1(q) /\ Commits(q) /\ Confirms(q) /\ Reads(q)

LEMMA DetailsFromFacts ==
  ASSUME TypeOK, WriteInv, Vacant, DetailsInv, Facts
  PROVE  DetailsInv'
<1> USE DEF Facts
<1>1. \A w \in Runs : answer'[w] = "ok" \/ Committed(w)' => w \in saved' \/ gone'
  <2> SUFFICES ASSUME NEW w \in Runs, answer'[w] = "ok" \/ Committed(w)'
               PROVE  w \in saved' \/ gone'
    OBVIOUS
  <2>1. w \in Requests BY DEF Runs
  <2> QED BY <2>1 DEF Commits, DetailsInv, Persists
<1>2. \A w \in Requests : answer[w] = "ok" => answer'[w] = "ok" BY DEF Answers1
<1>3. \A r \in Requests : \A w \in expected'[r] : w \in Runs /\ answer'[w] = "ok"
  <2> SUFFICES ASSUME NEW r \in Requests, NEW w \in expected'[r]
               PROVE  w \in Runs /\ answer'[w] = "ok"
    OBVIOUS
  <2>1. w \in Runs /\ answer[w] = "ok" BY DEF Reads, DetailsInv
  <2> QED BY <1>2, <2>1 DEF Runs
<1>4. ASSUME NEW r \in Requests, r \notin adrift', NEW w \in seen'[r]
      PROVE  Accounted(w)'
  <2>1. w \in seen[r] \/ w \in saved BY <1>4 DEF Reads
  <2>2. w \in Requests BY <2>1 DEF TypeOK, Runs
  <2>3. r \notin adrift BY <1>4 DEF Persists
  <2>4. Accounted(w)
    BY <2>1, <2>3 DEF DetailsInv, WriteInv, SavedIsAccounted
  <2> QED BY <2>2, <2>4 DEF Persists
<1>5. ASSUME NEW r \in Requests, Op[r] = "details", answer'[r] = "ok", r \notin adrift'
      PROVE  expected'[r] \subseteq seen'[r] \/ (gone' /\ seen'[r] = {})
  <2>1. CASE answer[r] = "none"
    <3>1. expected'[r] = expected[r] /\ seen'[r] = saved /\ gone' = gone
      BY <1>5, <2>1 DEF Confirms
    <3>2. ~gone => expected[r] \subseteq saved BY DEF DetailsInv
    <3> QED BY <3>1, <3>2 DEF Vacant
  <2>2. CASE answer[r] # "none"
    <3>1. at[r] = "done" BY <2>2 DEF WriteInv, AnsweredIsDone
    <3>2. expected'[r] = expected[r] /\ seen'[r] = seen[r] BY <3>1 DEF Reads
    <3>3. answer[r] = "ok" BY <1>5, <2>2 DEF Answers1
    <3>4. r \notin adrift BY <1>5 DEF Persists
    <3> QED BY <1>5, <3>2, <3>3, <3>4 DEF DetailsInv, Persists
  <2> QED BY <2>1, <2>2
<1> QED BY <1>1, <1>3, <1>4, <1>5 DEF DetailsInv

LEMMA ActDetails ==
  ASSUME TypeOK, StagesFit, PoolInv, WriteInv, Written, Vacant, DetailsInv,
         NEW r \in Requests, NEW s \in Connections, Act(r, s)
  PROVE  DetailsInv'
<1>1. Holds(r, s) /\ UNCHANGED expected BY ActFacts
<1>2. answer[r] = "none" /\ at[r] = "held" BY ActMoves
<1>3. Persists
  <2>1. \A w \in Requests : Accounted(w) => Accounted(w)' BY ActAccounts
  <2>2. adrift \subseteq adrift' BY ActData
  <2> QED BY <2>1, <2>2, ActData DEF Persists
<1>4. \A q \in Requests : Answers1(q) BY <1>2, ActMoves DEF Answers1
<1>5. ReadRuns(r, s) => /\ \E S \in SUBSET Runs : /\ s \in tx \/ S = saved
                                                  /\ seen' = [seen EXCEPT ![r] = S]
                        /\ s \in tx => r \in adrift'
                        /\ UNCHANGED <<saved, gone>>
  BY DEF ReadRuns, MarkAdrift
<1>6. ReadRuns(r, s) => seen'[r] = saved \/ r \in adrift'
  <2> SUFFICES ASSUME ReadRuns(r, s), s \notin tx PROVE seen'[r] = saved BY <1>5
  <2> QED BY <1>5 DEF TypeOK
<1>7. ~ReadRuns(r, s) => seen' = seen
  BY ActCases DEF Begin, Write, ReadBack, Commit, Acknowledge, Rollback,
     RefuseRollback, ReadExperiment, Delete, StatementFault, Break
<1>8. \A q \in Requests : Reads(q)
  <2> SUFFICES ASSUME NEW q \in Requests PROVE Reads(q) OBVIOUS
  <2>1. CASE q = r BY <1>1, <1>2, <1>6, <1>7, <2>1 DEF Reads
  <2>2. CASE q # r BY <1>1, <2>2, ActData DEF Reads
  <2> QED BY <2>1, <2>2
<1>9. \A q \in Requests : q # r => Confirms(q) /\ Commits(q)
  <2> SUFFICES ASSUME NEW q \in Requests, q # r PROVE Confirms(q) /\ Commits(q)
    OBVIOUS
  <2>1. answer'[q] = answer[q] /\ stage'[q] = stage[q] BY ActMoves
  <2>2. at'[q] = at[q] \/ at[q] = "queued" BY ActMoves
  <2>3. at[q] = "queued" => stage[q] # "committed"
    BY DEF WriteInv, InTransaction, Midway
  <2> QED BY <2>1, <2>2, <2>3 DEF Confirms, Commits, Committed
<1>10. Commits(r)
  <2> SUFFICES ASSUME r \in Runs, answer'[r] = "ok" \/ Committed(r)', ~Committed(r)
               PROVE  r \in saved' \/ gone'
    BY DEF Commits
  <2>1. CASE Commit(r, s)
    <3>1. open[s] \subseteq Runs \cup Deletes BY DEF TypeOK
    <3>2. r \in open[s] BY <1>1, <2>1, RequestFacts DEF Commit, Holds, Written
    <3> QED BY <2>1, <3>1, <3>2, PublishFacts DEF Commit
  <2>2. stage[r] \in RunStages BY DEF StagesFit
  <2>3. stage[r] # "committed" BY <1>2 DEF Committed
  <2>4. CASE Begin(r, s) \/ Write(r, s) \/ ReadBack(r, s)
    BY <1>2, <2>4 DEF Begin, Write, ReadBack, MoveTo, Committed, TypeOK
  <2>5. CASE Acknowledge(r, s) \/ ReadExperiment(r, s) \/ ReadRuns(r, s) \/ Delete(r, s)
    BY <2>2, <2>3, <2>5 DEF Acknowledge, ReadExperiment, ReadRuns, Delete, RunStages
  <2>6. CASE Rollback(r, s) \/ RefuseRollback(r, s)
    BY <2>3, <2>6 DEF Rollback, RefuseRollback, End, Committed, TypeOK
  <2>7. CASE StatementFault(r, s) \/ Break(r, s)
    BY <1>2, <2>7 DEF StatementFault, Break, MoveTo, Committed, TypeOK
  <2> QED BY <2>1, <2>4, <2>5, <2>6, <2>7, ActCases
<1>11. Confirms(r)
  <2> SUFFICES ASSUME Op[r] = "details", answer'[r] = "ok", r \notin adrift'
               PROVE  /\ expected'[r] = expected[r] /\ seen'[r] = saved
                      /\ UNCHANGED <<saved, gone>>
    BY DEF Confirms
  <2>1. stage[r] \notin RunStages \cup {"delete", "deleted"}
    BY DEF StagesFit, Runs, Deletes
  <2>2. ReadRuns(r, s)
    <3>1. ~(Begin(r, s) \/ Write(r, s) \/ ReadBack(r, s) \/ Commit(r, s)
            \/ Acknowledge(r, s) \/ Rollback(r, s) \/ RefuseRollback(r, s)
            \/ Delete(r, s))
      BY <2>1 DEF RunStages, Begin, Write, ReadBack, Commit, Acknowledge, Rollback,
                  RefuseRollback, Delete
    <3>2. ~ReadExperiment(r, s)
      BY <1>2 DEF ReadExperiment, End, TypeOK
    <3>3. ~(StatementFault(r, s) \/ Break(r, s))
      BY <1>2 DEF StatementFault, Break, End, TypeOK
    <3> QED BY <3>1, <3>2, <3>3, ActCases
  <2> QED BY <1>1, <1>5, <1>6, <2>2
<1>12. Facts BY <1>3, <1>4, <1>8, <1>9, <1>10, <1>11 DEF Facts
<1> QED BY <1>12, DetailsFromFacts

LEMMA OtherDetails ==
  ASSUME TypeOK, PoolInv, WriteInv, Vacant, DetailsInv,
         \/ \E c \in Coordinators : Initialize(c) \/ StartFault(c) \/ Restart(c)
         \/ \E r \in Requests : Arrive(r) \/ Admit(r) \/ Again(r)
         \/ UNCHANGED vars
  PROVE  DetailsInv'
<1>1. CASE UNCHANGED <<data, client>>
  <2>1. \A w \in Requests : Accounted(w)' = Accounted(w)
    BY <1>1 DEF data, client, Accounted, Committed
  <2>2. Persists BY <1>1, <2>1 DEF data, Persists
  <2>3. \A q \in Requests : Committed(q)' = Committed(q)
    BY <1>1 DEF client, Committed
  <2>4. \A q \in Requests : Answers1(q) /\ Commits(q) /\ Confirms(q) /\ Reads(q)
    BY <1>1, <2>3 DEF client, Answers1, Commits, Confirms, Reads
  <2> QED BY <2>2, <2>4, DetailsFromFacts DEF Facts
<1>2. ASSUME NEW c \in Coordinators, Restart(c) PROVE DetailsInv'
  <2>1. UNCHANGED <<saved, gone, adrift, expected, seen, stage>> BY <1>2 DEF Restart
  <2>2. \A q \in Requests : \/ answer'[q] = answer[q] /\ at'[q] = at[q]
                            \/ /\ at[q] # "done" /\ answer'[q] = "lost"
                               /\ at'[q] = "done"
    BY <1>2 DEF Restart
  <2>3. \A q \in Requests : Answers1(q) /\ Commits(q) /\ Confirms(q) /\ Reads(q)
    BY <2>1, <2>2 DEF WriteInv, AnsweredIsDone, Answers1, Commits, Confirms, Reads,
                      Committed
  <2>4. Persists BY <1>2, <2>1, RestartWrites DEF Persists
  <2> QED BY <2>3, <2>4, DetailsFromFacts DEF Facts
<1>3. ASSUME NEW r \in Requests, Arrive(r) PROVE DetailsInv'
  <2>1. UNCHANGED <<data, answer, seen, stage>> BY <1>3 DEF Arrive
  <2>2. \A q \in Requests : \/ at'[q] = at[q]
                            \/ at[q] = "idle" /\ at'[q] = "awaiting"
    BY <1>3 DEF Arrive, TypeOK
  <2>3. \A q \in Requests : Reads(q) BY <1>3, <2>1 DEF Arrive, Reads, TypeOK
  <2>4. \A q \in Requests : Committed(q)' = Committed(q)
    BY <2>1, <2>2 DEF Committed
  <2>5. \A q \in Requests : Answers1(q) /\ Commits(q) /\ Confirms(q)
    BY <2>1, <2>4 DEF Answers1, Commits, Confirms
  <2>6. Persists BY <2>1, <2>4 DEF Persists, Accounted, data
  <2> QED BY <2>3, <2>5, <2>6, DetailsFromFacts DEF Facts
<1>4. ASSUME NEW r \in Requests, Admit(r) \/ Again(r) PROVE DetailsInv'
  <2>1. UNCHANGED <<data, stage, expected, seen>> /\ at[r] \in {"awaiting", "again"}
    BY <1>4 DEF Admit, Again
  <2>2. answer[r] = "none" BY <2>1 DEF WriteInv, AnsweredIsDone
  <2>3. answer' = answer \/ answer' = [answer EXCEPT ![r] = "failed"]
    BY <1>4 DEF Admit, Again, Acquire
  <2>4. \A q \in Requests : q # r => at'[q] = at[q]
    BY <1>4 DEF Admit, Again, Acquire, TypeOK
  <2>5. stage[r] # "committed" BY <2>1 DEF WriteInv, InTransaction, Midway
  <2>6. \A q \in Requests : Committed(q)' = Committed(q)
    BY <2>1, <2>4, <2>5 DEF Committed
  <2>7. \A q \in Requests : Answers1(q) /\ Commits(q) /\ Confirms(q) /\ Reads(q)
    BY <2>1, <2>2, <2>3, <2>6 DEF Answers1, Commits, Confirms, Reads, TypeOK
  <2>8. Persists
    BY <2>1, <2>2, <2>3, <2>6 DEF Persists, Accounted, data, TypeOK
  <2> QED BY <2>7, <2>8, DetailsFromFacts DEF Facts
<1>5. ASSUME NEW c \in Coordinators, Initialize(c) \/ StartFault(c) PROVE DetailsInv'
  BY <1>1, <1>5 DEF Initialize, ApplySchema, LookFor, Add, StartFault
<1>6. CASE UNCHANGED vars BY <1>1, <1>6 DEF vars
<1> QED BY <1>2, <1>3, <1>4, <1>5, <1>6

(* A reader's two statements miss no run that was acknowledged before it   *)
(* came, unless they miss all of them because the experiment was deleted   *)
(* in between, and show none whose failure is certain (getExperiment       *)
(* against inTransaction), for any number of coordinators and connections. *)
THEOREM ReadersMissNothing == Spec => []DetailsComplete
<1> DEFINE I == /\ StoreTypes /\ PoolInv /\ WriteInv
                /\ Written /\ Vacant /\ DetailsInv
<1>1. Init => I
  <2> SUFFICES ASSUME Init PROVE I OBVIOUS
  <2>1. PoolInv /\ WriteInv BY WriteInit
  <2>2. Written /\ Vacant BY DEF Init, Written, Vacant
  <2>3. DetailsInv BY DEF Init, DetailsInv, Committed, Runs
  <2> QED BY <2>1, <2>2, <2>3, TypeInit
<1>2. I /\ [Next]_vars => I'
  <2> SUFFICES ASSUME I, [Next]_vars PROVE I' OBVIOUS
  <2>1. StoreTypes' /\ PoolInv' /\ WriteInv' /\ Written' /\ Vacant'
    BY TypeStep, PoolStep, WriteStep, SessionStep DEF StoreTypes
  <2>2. DetailsInv'
    BY ActDetails, OtherDetails DEF StoreTypes, Next, Serve, Stopped, Act
  <2> QED BY <2>1, <2>2
<1>3. I => DetailsComplete
  <2> SUFFICES ASSUME I, NEW r \in Requests, Op[r] = "details", answer[r] = "ok",
                      r \notin adrift
               PROVE  /\ expected[r] \subseteq seen[r] \/ (gone /\ seen[r] = {})
                      /\ \A w \in seen[r] : answer[w] \in {"failed", "lost"} =>
                                              w \in unsure \cup adrift
    BY DEF DetailsComplete
  <2>1. ASSUME NEW w \in seen[r], answer[w] \in {"failed", "lost"}
        PROVE  w \in unsure \cup adrift
    <3>1. Accounted(w) BY <2>1 DEF DetailsInv
    <3>2. w \in Requests BY <2>1 DEF StoreTypes, TypeOK, Runs
    <3>3. at[w] = "done" BY <2>1, <3>2 DEF WriteInv, AnsweredIsDone
    <3> QED BY <2>1, <3>1, <3>3 DEF Accounted, Committed
  <2> QED BY <2>1 DEF DetailsInv
<1> QED BY <1>1, <1>2, <1>3, PTL DEF Spec
-----------------------------------------------------------------------------
(* Nobody is forgotten: a connection that comes back goes to whoever       *)
(* waits, so there is a queue only while every connection is taken; what   *)
(* is counted as held or queued is so.                                     *)
QueueWaits == \A c \in Coordinators : queue[c] # <<>> => \A s \in Of(c) : holder[s] # None

QueueBounded == \A c \in Coordinators : Len(queue[c]) <= QueueLimit

HeldHold == \A r \in Requests : at[r] = "held" => \E s \in Connections : holder[s] = r

QueuedQueue == \A r \in Requests : at[r] = "queued" =>
                 \E i \in 1..Len(queue[By[r]]) : queue[By[r]][i] = r

WaitInv == QueueWaits /\ QueueBounded /\ HeldHold /\ QueuedQueue

(* A request that nothing keeps from its next step: it asks for a          *)
(* connection, or is at a statement that the locks of others do not stop.  *)
CanGoOn(r) == \/ at[r] \in {"awaiting", "again"}
              \/ \E s \in Connections : Holds(r, s) /\ ~Blocked(r, s)

(* A transaction left open by a refused ROLLBACK may keep its locks while  *)
(* nobody has its session; only there is it for the time limit of the lock *)
(* to let its victim go on.                                                *)
SomebodyGoesOn ==
  (\E r \in Requests : at[r] \notin {"idle", "done"}) /\ Uncommitted \cap adrift = {}
    => \E r \in Requests : CanGoOn(r)

LEMMA AcquireWaits ==
  ASSUME TypeOK, PoolInv, WaitInv, NEW r \in Requests, Acquire(r),
         at[r] \in {"awaiting", "again"}
  PROVE  WaitInv'
<1> DEFINE c == By[r]
<1>1. c \in Coordinators /\ r # None BY RequestFacts
<1>2. \A d \in Coordinators : queue[d] \in Seq(Requests) BY DEF TypeOK
<1>3. \A q \in Requests : By[q] \in Coordinators BY RequestFacts
<1>4. ASSUME NEW s \in Of(c), holder[s] = None,
             holder' = [holder EXCEPT ![s] = r],
             at' = [at EXCEPT ![r] = "held"], UNCHANGED queue
      PROVE  WaitInv'
  <2>1. s \in Connections BY DEF Of
  <2>2. holder'[s] = r /\ \A u \in Connections : u # s => holder'[u] = holder[u]
    BY <1>4, <2>1 DEF TypeOK
  <2>3. \A q \in Requests : q # r => at'[q] = at[q] BY <1>4 DEF TypeOK
  <2>4. at'[r] = "held" BY <1>4 DEF TypeOK
  <2>5. QueueWaits' BY <1>1, <1>4, <2>1, <2>2 DEF WaitInv, QueueWaits, Of
  <2>6. HeldHold' BY <1>1, <1>4, <2>1, <2>2, <2>3, RequestFacts DEF WaitInv, HeldHold
  <2>7. QueuedQueue' BY <1>4, <2>3, <2>4 DEF WaitInv, QueuedQueue
  <2> QED BY <1>4, <2>5, <2>6, <2>7 DEF WaitInv, QueueBounded
<1>5. ASSUME \A s \in Of(c) : holder[s] # None, Len(queue[c]) < QueueLimit,
             queue' = [queue EXCEPT ![c] = Append(@, r)],
             at' = [at EXCEPT ![r] = "queued"], UNCHANGED holder
      PROVE  WaitInv'
  <2>1. /\ queue'[c] = Append(queue[c], r)
        /\ \A d \in Coordinators : d # c => queue'[d] = queue[d]
    BY <1>1, <1>5 DEF TypeOK
  <2>2. /\ Len(queue'[c]) = Len(queue[c]) + 1 /\ Len(queue[c]) \in Nat
        /\ queue'[c][Len(queue[c]) + 1] = r
        /\ \A i \in 1..Len(queue[c]) : queue'[c][i] = queue[c][i]
    BY <1>1, <1>2, <2>1
  <2>3. \A q \in Requests : q # r => at'[q] = at[q] BY <1>5 DEF TypeOK
  <2>4. at'[r] = "queued" BY <1>5 DEF TypeOK
  <2>5. QueueWaits' BY <1>5, <2>1 DEF WaitInv, QueueWaits, Of
  <2>6. QueueBounded' BY <1>5, <2>1, <2>2, StoreConstants DEF WaitInv, QueueBounded
  <2>7. HeldHold' BY <1>5, <2>3, <2>4 DEF WaitInv, HeldHold
  <2>8. ASSUME NEW q \in Requests, at'[q] = "queued"
        PROVE  \E i \in 1..Len(queue'[By[q]]) : queue'[By[q]][i] = q
    <3>1. CASE q = r BY <2>2, <3>1
    <3>2. CASE q # r
      <4>1. PICK i \in 1..Len(queue[By[q]]) : queue[By[q]][i] = q
        BY <2>3, <2>8, <3>2 DEF WaitInv, QueuedQueue
      <4>2. i \in 1..Len(queue'[By[q]]) /\ queue'[By[q]][i] = q
        BY <1>3, <2>1, <2>2, <4>1
      <4> QED BY <4>2
    <3> QED BY <3>1, <3>2
  <2>9. QueuedQueue' BY <2>8 DEF QueuedQueue
  <2> QED BY <2>5, <2>6, <2>7, <2>9 DEF WaitInv
<1>6. ASSUME at' = [at EXCEPT ![r] = "done"], UNCHANGED <<holder, queue>>
      PROVE  WaitInv'
  BY <1>6 DEF WaitInv, QueueWaits, QueueBounded, HeldHold, QueuedQueue, TypeOK, Of
<1> QED BY <1>4, <1>5, <1>6 DEF Acquire

LEMMA ReleaseWaits ==
  ASSUME TypeOK, PoolInv, WaitInv, NEW r \in Requests, NEW s \in Connections,
         NEW place \in {"done", "again"}, Holds(r, s), Release(r, s, place)
  PROVE  WaitInv'
<1> DEFINE c == By[r]
<1>1. c \in Coordinators /\ r # None BY RequestFacts
<1>2. at[r] = "held" /\ holder[s] = r /\ s[1] = c /\ s \in Of(c)
  BY <1>1 DEF Holds, PoolInv, Holding, Of
<1>3. \A d \in Coordinators : queue[d] \in Seq(Requests) BY DEF TypeOK
<1>4. \A q \in Requests : By[q] \in Coordinators BY RequestFacts
<1>5. CASE queue[c] = <<>>
  <2>1. /\ holder' = [holder EXCEPT ![s] = None]
        /\ at' = [at EXCEPT ![r] = place]
        /\ UNCHANGED queue
    BY <1>5 DEF Release
  <2>2. /\ \A u \in Connections : u # s => holder'[u] = holder[u]
        /\ at'[r] = place
        /\ \A q \in Requests : q # r => at'[q] = at[q]
    BY <2>1 DEF TypeOK
  <2>3. QueueWaits' BY <1>2, <1>5, <2>1, <2>2 DEF WaitInv, QueueWaits, Of
  <2>4. HeldHold' BY <1>2, <2>2 DEF WaitInv, HeldHold
  <2>5. QueuedQueue' BY <2>1, <2>2 DEF WaitInv, QueuedQueue
  <2> QED BY <2>1, <2>3, <2>4, <2>5 DEF WaitInv, QueueBounded
<1>6. CASE queue[c] # <<>>
  <2> DEFINE q0 == Head(queue[c])
  <2>1. /\ holder' = [holder EXCEPT ![s] = q0]
        /\ queue' = [queue EXCEPT ![c] = Tail(@)]
        /\ at' = [at EXCEPT ![r] = place, ![q0] = "held"]
    BY <1>6 DEF Release
  <2>2. /\ 1 \in 1..Len(queue[c]) /\ q0 = queue[c][1] /\ q0 \in Requests
        /\ Len(Tail(queue[c])) = Len(queue[c]) - 1
        /\ \A i \in 1..Len(Tail(queue[c])) : Tail(queue[c])[i] = queue[c][i + 1]
        /\ Len(queue[c]) \in Nat
    BY <1>1, <1>3, <1>6
  <2>3. q0 # r /\ q0 # None /\ By[q0] = c
    BY <1>1, <1>2, <2>2, RequestFacts DEF PoolInv, Queueing
  <2> HIDE DEF q0
  <2>4. /\ holder'[s] = q0
        /\ \A u \in Connections : u # s => holder'[u] = holder[u]
        /\ at'[r] = place /\ at'[q0] = "held"
        /\ \A q \in Requests : q # r /\ q # q0 => at'[q] = at[q]
    BY <2>1, <2>2, <2>3 DEF TypeOK
  <2>5. /\ queue'[c] = Tail(queue[c])
        /\ \A d \in Coordinators : d # c => queue'[d] = queue[d]
    BY <1>1, <2>1 DEF TypeOK
  <2>6. QueueWaits'
    BY <1>2, <1>6, <2>3, <2>4, <2>5 DEF WaitInv, QueueWaits, Of
  <2>7. QueueBounded'
    <3>1. Len(queue'[c]) <= QueueLimit
      <4>1. Len(queue[c]) <= QueueLimit BY <1>1 DEF WaitInv, QueueBounded
      <4>2. Len(queue'[c]) = Len(queue[c]) - 1 BY <2>2, <2>5
      <4> QED BY <2>2, <4>1, <4>2, StoreConstants
    <3> QED BY <2>5, <3>1 DEF WaitInv, QueueBounded
  <2>8. HeldHold' BY <1>2, <2>4 DEF WaitInv, HeldHold
  <2>9. ASSUME NEW q \in Requests, at'[q] = "queued"
        PROVE  \E i \in 1..Len(queue'[By[q]]) : queue'[By[q]][i] = q
    <3>1. q # r /\ q # q0 /\ at[q] = "queued" BY <2>4, <2>9
    <3>2. PICK i \in 1..Len(queue[By[q]]) : queue[By[q]][i] = q
      BY <3>1 DEF WaitInv, QueuedQueue
    <3>3. CASE By[q] # c BY <1>4, <2>5, <3>2, <3>3
    <3>4. CASE By[q] = c
      <4>1. i # 1 BY <2>2, <3>1, <3>2, <3>4
      <4>2. /\ i - 1 \in 1..Len(Tail(queue[c]))
            /\ Tail(queue[c])[i - 1] = queue[c][(i - 1) + 1]
            /\ (i - 1) + 1 = i
        BY <2>2, <3>2, <3>4, <4>1
      <4> QED BY <2>5, <3>2, <3>4, <4>2
    <3> QED BY <3>3, <3>4
  <2>10. QueuedQueue' BY <2>9 DEF QueuedQueue
  <2> QED BY <2>6, <2>7, <2>8, <2>10 DEF WaitInv
<1> QED BY <1>5, <1>6

LEMMA RestartWaits ==
  ASSUME TypeOK, PoolInv, WaitInv, NEW c \in Coordinators, Restart(c) PROVE WaitInv'
<1>1. /\ \A s \in Connections : holder'[s] = IF s \in Of(c) THEN None ELSE holder[s]
      /\ \A q \in Requests : /\ By[q] # c => at'[q] = at[q]
                             /\ By[q] = c => at'[q] \in {"idle", "done"}
  BY DEF Restart, TypeOK
<1>2. queue'[c] = <<>> /\ \A d \in Coordinators : d # c => queue'[d] = queue[d]
  BY DEF Restart, TypeOK
<1>3. \A q \in Requests : By[q] \in Coordinators /\ q # None BY RequestFacts
<1>4. QueueWaits' BY <1>1, <1>2 DEF WaitInv, QueueWaits, Of
<1>5. Len(<<>>) <= QueueLimit BY StoreConstants
<1>6. QueueBounded' BY <1>2, <1>5 DEF WaitInv, QueueBounded
<1>7. HeldHold' BY <1>1, <1>3 DEF WaitInv, HeldHold, PoolInv, Holding, Of
<1>8. QueuedQueue' BY <1>1, <1>2, <1>3 DEF WaitInv, QueuedQueue
<1> QED BY <1>4, <1>6, <1>7, <1>8 DEF WaitInv

LEMMA WaitStep == ASSUME TypeOK, PoolInv, WaitInv, [Next]_vars PROVE WaitInv'
<1>1. ASSUME UNCHANGED <<holder, queue>>,
             \A q \in Requests : at'[q] = at[q] \/ at'[q] \in {"awaiting", "done"}
      PROVE  WaitInv'
  BY <1>1 DEF WaitInv, QueueWaits, QueueBounded, HeldHold, QueuedQueue, Of
<1>2. ASSUME NEW r \in Requests, Arrive(r) PROVE WaitInv'
  BY <1>1, <1>2 DEF Arrive, pool, TypeOK
<1>3. ASSUME NEW r \in Requests, Admit(r) \/ Again(r) PROVE WaitInv'
  <2>1. CASE at[r] \in {"awaiting", "again"} /\ Acquire(r) BY <2>1, AcquireWaits
  <2>2. CASE at' = [at EXCEPT ![r] = "done"] /\ UNCHANGED pool
    BY <1>1, <2>2 DEF pool, TypeOK
  <2> QED BY <1>3, <2>1, <2>2 DEF Admit, Again
<1>4. ASSUME NEW r \in Requests, NEW s \in Connections, Act(r, s)
      PROVE  WaitInv'
  <2>1. Holds(r, s) BY <1>4, ActFacts
  <2>2. \/ UNCHANGED <<holder, queue, at>>
        \/ \E place \in {"done", "again"} : Release(r, s, place)
    BY <1>4, ActFacts DEF End
  <2> QED BY <1>1, <2>1, <2>2, ReleaseWaits
<1>5. ASSUME NEW c \in Coordinators, Initialize(c) \/ StartFault(c) PROVE WaitInv'
  BY <1>1, <1>5 DEF Initialize, ApplySchema, LookFor, Add, StartFault, pool, client
<1>6. CASE UNCHANGED vars BY <1>1, <1>6 DEF vars, pool, client
<1> QED BY <1>2, <1>3, <1>4, <1>5, <1>6, RestartWaits
        DEF Next, Serve, Stopped, Act

(* Requests of one or several coordinators never all wait for each other,  *)
(* for a connection of the pool, its queue or the locks of a transaction:  *)
(* while any is under way, one can take its next step, unless a refused    *)
(* ROLLBACK left locks behind.  This is what EveryRequestEnds needs beyond *)
(* fairness.                                                               *)
THEOREM NobodyDeadlocks == Spec => []SomebodyGoesOn
<1> DEFINE I == StoreTypes /\ PoolInv /\ WriteInv /\ WaitInv
<1>1. Init => I
  <2> SUFFICES ASSUME Init PROVE I OBVIOUS
  <2>1. PoolInv /\ WriteInv BY WriteInit
  <2>2. Len(<<>>) <= QueueLimit BY StoreConstants
  <2>3. WaitInv
    BY <2>2 DEF Init, WaitInv, QueueWaits, QueueBounded, HeldHold, QueuedQueue
  <2> QED BY <2>1, <2>3, TypeInit
<1>2. I /\ [Next]_vars => I'
  BY TypeStep, PoolStep, WriteStep, WaitStep DEF StoreTypes
<1>3. I => SomebodyGoesOn
  <2> SUFFICES ASSUME I, NEW r \in Requests, at[r] \notin {"idle", "done"},
                      Uncommitted \cap adrift = {}
               PROVE  \E q \in Requests : CanGoOn(q)
    BY DEF SomebodyGoesOn
  <2>1. ASSUME NEW s \in Connections, holder[s] # None
        PROVE  \E q \in Requests : CanGoOn(q)
    <3>1. holder[s] \in Requests /\ Holds(holder[s], s)
      BY <2>1 DEF StoreTypes, TypeOK, PoolInv, Holding, Holds
    <3>2. CASE ~Blocked(holder[s], s) BY <3>1, <3>2 DEF CanGoOn
    <3>3. CASE Blocked(holder[s], s)
      <4>1. PICK u \in Connections : open[u] # {} BY <3>3 DEF Blocked
      <4>2. PICK w : w \in open[u] BY <4>1
      <4>3. w \in Requests BY <4>2 DEF StoreTypes, TypeOK, Runs, Deletes
      <4>4. w \notin adrift BY <4>2 DEF Uncommitted
      <4>5. w = holder[u] /\ stage[w] \notin {"write", "delete"}
        BY <4>2, <4>4 DEF WriteInv, OpenIsHeld
      <4>6. Holds(w, u) BY <4>3, <4>5, RequestFacts DEF PoolInv, Holding, Holds
      <4>7. ~Blocked(w, u) BY <4>5 DEF Blocked
      <4> QED BY <4>3, <4>6, <4>7 DEF CanGoOn
    <3> QED BY <3>2, <3>3
  <2>2. CASE at[r] \in {"awaiting", "again"} BY <2>2 DEF CanGoOn
  <2>3. CASE at[r] = "held"
    BY <2>1, <2>3, RequestFacts DEF WaitInv, HeldHold
  <2>4. CASE at[r] = "queued"
    <3>1. By[r] \in Coordinators BY RequestFacts
    <3>2. queue[By[r]] # <<>> /\ queue[By[r]] \in Seq(Requests)
      BY <2>4, <3>1 DEF WaitInv, QueuedQueue, StoreTypes, TypeOK
    <3>3. <<By[r], 1>> \in Connections /\ <<By[r], 1>> \in Of(By[r])
      BY <3>1, StoreConstants DEF Connections, Of
    <3> QED BY <2>1, <3>1, <3>2, <3>3 DEF WaitInv, QueueWaits
  <2> QED BY <2>2, <2>3, <2>4 DEF StoreTypes, TypeOK
<1> QED BY <1>1, <1>2, <1>3, PTL DEF Spec
=============================================================================
