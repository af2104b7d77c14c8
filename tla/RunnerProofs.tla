----------------------------- MODULE RunnerProofs ------------------------------
(***************************************************************************)
(* Proofs about the runner, for every set of operations, requests, calls   *)
(* and processes: the execution ledger (RunnerLedger) with its refinement  *)
(* of ExecutionPromise, and the ownership of its file (LedgerLease):       *)
(* mutual exclusion on the ledger, and the gate that an orphaned guard is. *)
(***************************************************************************)
EXTENDS RunnerLedger, LedgerLease, TLAPS
-----------------------------------------------------------------------------
(* The inductive invariant behind these properties.                        *)

(* Every row that is there was begun at most once, an absent one never.    *)
RunsCounted == \A op \in Operations : /\ runs[op] <= 1
                                      /\ ledger[op] = NoRow => runs[op] = 0

(* The map names only rows that run, only in a live process, and a closing *)
(* one waits for all of them.                                              *)
PendingRuns == /\ \A op \in pending : ledger[op].state = "RUNNING"
               /\ runner = "down" => pending = {}
               /\ runner = "closing" => pending \subseteq draining

(* A caller that waits is an executeRun that waits for an execution of its *)
(* own request.                                                            *)
WaitersWait ==
  \A c \in Calls : phase[c] = "waiting" =>
     /\ asked[c].kind = "execute"
     /\ asked[c].op \in pending
     /\ ledger[asked[c].op].fingerprint = Fingerprint(asked[c].request)

(* What an answered call was told, about the row as it is now.             *)
TellsTruth(c) ==
  LET row == ledger[asked[c].op]
      rep == reply[c]
  IN /\ rep.status = "OK" =>
          /\ rep.row \in Row
          /\ row # NoRow
          /\ row.fingerprint = rep.row.fingerprint
          /\ row = rep.row \/ rep.row.state = "RUNNING"
          /\ asked[c].kind = "execute" =>
               /\ rep.row.state = "COMPLETED"
               /\ row.fingerprint = Fingerprint(asked[c].request)
     /\ rep.status = "ABORTED" =>
          \/ row.state = "INTERRUPTED"
          \/ row.state = "RUNNING" /\ asked[c].op \notin pending
     /\ rep.status = "ALREADY_EXISTS" =>
          /\ row # NoRow
          /\ row.fingerprint # Fingerprint(asked[c].request)

LedgerInv ==
  /\ RunsCounted
  /\ PendingRuns
  /\ RunningMeansWorking
  /\ WaitersWait
  /\ \A c \in Calls : IF phase[c] = "answered" THEN TellsTruth(c)
                                               ELSE reply[c] = NoReply
-----------------------------------------------------------------------------
(* What the three writes of the store make of a row.                       *)
LEMMA RowFacts ==
  /\ NoRow \notin Row
  /\ \A r \in Requests : /\ Started(r) \in Row
                         /\ Started(r).state = "RUNNING"
                         /\ Started(r).fingerprint = Fingerprint(r)
                         /\ Completed(Started(r)) \in Row
                         /\ Completed(Started(r)).state = "COMPLETED"
                         /\ Completed(Started(r)).fingerprint = Fingerprint(r)
  /\ \A row \in Row : /\ Completed(row) \in Row
                      /\ Completed(row).fingerprint = row.fingerprint
                      /\ row.state = "RUNNING" => Completed(row).state = "COMPLETED"
                      /\ Recovered(row) \in Row
                      /\ Recovered(row).fingerprint = row.fingerprint
                      /\ Recovered(row).state # "RUNNING"
                      /\ row.state = "RUNNING" => Recovered(row).state = "INTERRUPTED"
                      /\ row.state # "RUNNING" => Recovered(row) = row
  /\ Recovered(NoRow) = NoRow /\ Completed(NoRow) = NoRow
<1>1. NoRow \notin Row
  BY DEF NoRow, Row
<1>2. \A b : Outcome(b) \in Outcomes
  BY DEF Outcome, Outcomes
<1>3. \A row \in Row : /\ Completed(row) \in Row
                       /\ Completed(row).fingerprint = row.fingerprint
                       /\ row.state = "RUNNING" => Completed(row).state = "COMPLETED"
  BY <1>2 DEF Completed, Row
<1>4. \A row \in Row : /\ Recovered(row) \in Row
                       /\ Recovered(row).fingerprint = row.fingerprint
                       /\ Recovered(row).state # "RUNNING"
                       /\ row.state = "RUNNING" => Recovered(row).state = "INTERRUPTED"
                       /\ row.state # "RUNNING" => Recovered(row) = row
  BY DEF Recovered, Row
<1>5. \A r \in Requests : /\ Started(r) \in Row
                          /\ Started(r).state = "RUNNING"
                          /\ Started(r).fingerprint = Fingerprint(r)
  BY DEF Started, Row, Fingerprints
<1>6. Recovered(NoRow) = NoRow /\ Completed(NoRow) = NoRow
  BY DEF Recovered, Completed, NoRow
<1>. QED
  BY <1>1, <1>3, <1>4, <1>5, <1>6

LEMMA BlankQuestion == NoQuestion \in Question
<1>1. \E q : q \in Question
  <2>1. PICK op \in Operations, r \in Requests : TRUE
    BY ConstantsOK
  <2>2. [kind |-> "get", op |-> op, request |-> r] \in Question
    BY <2>1 DEF Question
  <2>. QED
    BY <2>2
<1>. QED
  BY <1>1 DEF NoQuestion
-----------------------------------------------------------------------------
(* The type invariant.                                                     *)

LEMMA InitTypeOK == Init => TypeOK
  BY BlankQuestion, ConstantsOK DEF Init, TypeOK, NoReply, Reply

(* The answers a handler may give are replies.                             *)
LEMMA AnswerTyped ==
  ASSUME TypeOK, NEW c \in Calls, NEW s \in Statuses, NEW row \in Row \cup {NoRow},
         Answer(c, s, row)
  PROVE  /\ phase' \in [Calls -> {"unused", "sent", "waiting", "answered"}]
         /\ reply' \in [Calls -> Reply]
  BY DEF TypeOK, Answer, Reply

LEMMA LoseProcessTyped ==
  ASSUME TypeOK, NEW C, LoseProcess(C)
  PROVE  /\ phase' \in [Calls -> {"unused", "sent", "waiting", "answered"}]
         /\ reply' \in [Calls -> Reply]
         /\ runner' = "down" /\ pending' = {} /\ draining' = {}
         /\ asked' = asked /\ expired' = expired /\ starts' = starts
  BY DEF TypeOK, LoseProcess, Reply, Statuses

LEMMA NextTypeOK ==
  ASSUME TypeOK, [Next]_vars
  PROVE  TypeOK'
<1> USE DEF durable, process
<1>1. ASSUME NEW c \in Calls, NEW q \in Question, Send(c, q)
      PROVE  TypeOK'
  BY <1>1 DEF TypeOK, Send
<1>2. ASSUME NEW c \in Calls, Expire(c)
      PROVE  TypeOK'
  BY <1>2 DEF TypeOK, Expire
<1>3. ASSUME NEW c \in Calls, RefuseWhileClosing(c)
      PROVE  TypeOK'
  BY <1>3, AnswerTyped DEF TypeOK, RefuseWhileClosing, Statuses
<1>4. ASSUME NEW c \in Calls, Unreachable(c)
      PROVE  TypeOK'
  BY <1>4 DEF TypeOK, Unreachable, Reply, Statuses
<1>5. ASSUME NEW c \in Calls, GetExecution(c)
      PROVE  TypeOK'
  BY <1>5, AnswerTyped DEF TypeOK, GetExecution, Question, Statuses
<1>6. ASSUME NEW c \in Calls, RefuseInvalid(c)
      PROVE  TypeOK'
  BY <1>6, AnswerTyped DEF TypeOK, RefuseInvalid, Statuses
<1>7. ASSUME NEW c \in Calls, FindExisting(c)
      PROVE  TypeOK'
  <2>1. ledger[asked[c].op] \in Row \cup {NoRow}
    BY <1>7 DEF TypeOK, Question
  <2>2. /\ phase' \in [Calls -> {"unused", "sent", "waiting", "answered"}]
        /\ reply' \in [Calls -> Reply]
    BY <1>7, <2>1, AnswerTyped DEF TypeOK, FindExisting, Statuses
  <2>. QED
    BY <1>7, <2>2 DEF TypeOK, FindExisting
<1>8. ASSUME NEW c \in Calls, BeginSlow(c)
      PROVE  TypeOK'
  BY <1>8, RowFacts DEF TypeOK, BeginSlow, Begin, Question
<1>9. ASSUME NEW c \in Calls, BeginFast(c)
      PROVE  TypeOK'
  <2> DEFINE row == Completed(Started(asked[c].request))
  <2>1. row \in Row /\ asked[c].op \in Operations
    BY <1>9, RowFacts DEF TypeOK, Question
  <2>2. Answer(c, "OK", row) /\ Begin(asked[c].op, row)
    BY <1>9 DEF BeginFast
  <2> HIDE DEF row
  <2>3. /\ phase' \in [Calls -> {"unused", "sent", "waiting", "answered"}]
        /\ reply' \in [Calls -> Reply]
    BY <2>1, <2>2, AnswerTyped DEF Statuses
  <2>. QED
    BY <1>9, <2>1, <2>2, <2>3 DEF TypeOK, BeginFast, Begin
<1>10. ASSUME NEW c \in Calls, ExecuteFault(c)
       PROVE  TypeOK'
  <2> DEFINE op == asked[c].op
             r  == asked[c].request
  <2>1. op \in Operations /\ r \in Requests
    BY DEF TypeOK, Question
  <2>2. /\ phase' \in [Calls -> {"unused", "sent", "waiting", "answered"}]
        /\ reply' \in [Calls -> Reply]
    BY <1>10, AnswerTyped DEF ExecuteFault, Statuses
  <2>3. /\ ledger' \in [Operations -> Row \cup {NoRow}]
        /\ runs' \in [Operations -> Nat]
    BY <1>10, <2>1, RowFacts DEF TypeOK, ExecuteFault, Begin
  <2>. QED
    BY <1>10, <2>2, <2>3 DEF TypeOK, ExecuteFault
<1>11. ASSUME NEW c \in Calls, CrashMidway(c)
       PROVE  TypeOK'
  BY <1>11, LoseProcessTyped, RowFacts
     DEF TypeOK, CrashMidway, MayBegin, Begin, Question
<1>12. ASSUME NEW op \in Operations, Finish(op)
       PROVE  TypeOK'
  <2>1. ledger[op] \in Row \cup {NoRow} /\ Completed(ledger[op]) \in Row \cup {NoRow}
    BY RowFacts DEF TypeOK
  <2>2. ASSUME NEW s \in {"OK", "INTERNAL"}, NEW row \in Row \cup {NoRow},
               Settle(op, s, row)
        PROVE  /\ phase' \in [Calls -> {"unused", "sent", "waiting", "answered"}]
               /\ reply' \in [Calls -> Reply]
               /\ pending' \subseteq Operations
    BY <2>2 DEF TypeOK, Settle, Reply, Statuses
  <2>3. /\ phase' \in [Calls -> {"unused", "sent", "waiting", "answered"}]
        /\ reply' \in [Calls -> Reply]
        /\ pending' \subseteq Operations
    BY <1>12, <2>1, <2>2 DEF Finish
  <2>. QED
    BY <1>12, <2>1, <2>3 DEF TypeOK, Finish
<1>13. ASSUME Start
       PROVE  TypeOK'
  <2>1. \A op \in Operations : Recovered(ledger[op]) \in Row \cup {NoRow}
    BY RowFacts DEF TypeOK
  <2>. QED
    BY <1>13, <2>1, ConstantsOK DEF TypeOK, Start
<1>14. ASSUME Crash \/ Shutdown
       PROVE  TypeOK'
  BY <1>14, LoseProcessTyped DEF TypeOK, Crash, Shutdown
<1>15. ASSUME Close
       PROVE  TypeOK'
  BY <1>15 DEF TypeOK, Close
<1>16. CASE UNCHANGED vars
  BY <1>16 DEF TypeOK, vars
<1>. QED
  BY <1>1, <1>2, <1>3, <1>4, <1>5, <1>6, <1>7, <1>8, <1>9, <1>10, <1>11, <1>12,
     <1>13, <1>14, <1>15, <1>16 DEF Next, Respond, ExecuteRun

(* Every reachable state of the runner is well typed.                      *)
THEOREM TypeCorrect == Spec => []TypeOK
  BY InitTypeOK, NextTypeOK, PTL DEF Spec
-----------------------------------------------------------------------------
(* The inductive invariant.                                                *)

(* What a step may do to the row of op without making any earlier reply    *)
(* about op untrue.                                                        *)
RowAdvances(op) ==
  \/ ledger'[op] = ledger[op] /\ (op \in pending' => op \in pending)
  \/ ledger[op] = NoRow /\ ledger'[op] \in Row
  \/ op \in pending /\ op \notin pending' /\ ledger'[op] = Completed(ledger[op])
  \/ op \notin pending' /\ ledger'[op] = Recovered(ledger[op])

LEMMA AbsentState == NoRow.state = "ABSENT" /\ NoRow.fingerprint = ""
  BY DEF NoRow

LEMMA TruthStable ==
  ASSUME TypeOK, PendingRuns, NEW c \in Calls, TellsTruth(c),
         asked'[c] = asked[c], reply'[c] = reply[c], RowAdvances(asked[c].op)
  PROVE  TellsTruth(c)'
<1> DEFINE op == asked[c].op
<1>1. op \in Operations /\ ledger[op] \in Row \cup {NoRow}
  BY DEF TypeOK, Question
<1>2. CASE ledger'[op] = ledger[op] /\ (op \in pending' => op \in pending)
  BY <1>2 DEF TellsTruth
<1>3. CASE ledger[op] = NoRow /\ ledger'[op] \in Row
  <2>1. reply[c].status \notin {"OK", "ABORTED", "ALREADY_EXISTS"}
    BY <1>3, RowFacts, AbsentState DEF TellsTruth
  <2>. QED
    BY <2>1 DEF TellsTruth
<1>4. CASE op \in pending /\ op \notin pending' /\ ledger'[op] = Completed(ledger[op])
  <2>a. ledger[op].state = "RUNNING"
    BY <1>4 DEF PendingRuns
  <2>1. ledger[op].state = "RUNNING" /\ ledger[op] \in Row
    BY <1>1, <2>a, AbsentState
  <2>2. ledger'[op] \in Row /\ ledger'[op].fingerprint = ledger[op].fingerprint
    BY <1>4, <2>1, RowFacts
  <2>. QED
    BY <1>4, <2>1, <2>2, RowFacts DEF TellsTruth
<1>5. CASE op \notin pending' /\ ledger'[op] = Recovered(ledger[op])
  <2>1. CASE ledger[op] = NoRow
    BY <1>5, <2>1, RowFacts DEF TellsTruth
  <2>2. CASE ledger[op] \in Row
    <3>1. ledger'[op] \in Row /\ ledger'[op].fingerprint = ledger[op].fingerprint
      BY <1>5, <2>2, RowFacts
    <3>2. CASE ledger[op].state = "RUNNING"
      <4>1. ledger'[op].state = "INTERRUPTED"
        BY <1>5, <2>2, <3>2, RowFacts
      <4>. QED
        BY <3>1, <3>2, <4>1, RowFacts DEF TellsTruth
    <3>3. CASE ledger[op].state # "RUNNING"
      <4>1. ledger'[op] = ledger[op]
        BY <1>5, <2>2, <3>3, RowFacts
      <4>. QED
        BY <1>5, <3>3, <4>1 DEF TellsTruth
    <3>. QED
      BY <3>2, <3>3
  <2>. QED
    BY <1>1, <2>1, <2>2
<1>. QED
  BY <1>2, <1>3, <1>4, <1>5 DEF RowAdvances

(* The part of LedgerInv about the replies.                                *)
RepliesTrue ==
  \A c \in Calls : IF phase[c] = "answered" THEN TellsTruth(c)
                                            ELSE reply[c] = NoReply

(* A step that lets rows advance and gives only true new replies keeps it. *)
LEMMA RepliesStable ==
  ASSUME TypeOK, LedgerInv,
         \A op \in Operations : RowAdvances(op),
         \A c \in Calls :
            \/ /\ phase[c] = "answered" /\ phase'[c] = "answered"
               /\ asked'[c] = asked[c] /\ reply'[c] = reply[c]
            \/ phase'[c] # "answered" /\ reply'[c] = NoReply
            \/ phase'[c] = "answered" /\ TellsTruth(c)'
  PROVE  RepliesTrue'
<1> SUFFICES ASSUME NEW c \in Calls
             PROVE  IF phase'[c] = "answered" THEN TellsTruth(c)'
                                              ELSE reply'[c] = NoReply
  BY DEF RepliesTrue
<1>1. CASE /\ phase[c] = "answered" /\ phase'[c] = "answered"
           /\ asked'[c] = asked[c] /\ reply'[c] = reply[c]
  <2>1. TellsTruth(c) /\ PendingRuns
    BY <1>1 DEF LedgerInv
  <2>2. RowAdvances(asked[c].op)
    BY DEF TypeOK, Question
  <2>. QED
    BY <1>1, <2>1, <2>2, TruthStable
<1>. QED
  BY <1>1

(* Replies that say nothing about the row are true of every row.           *)
LEMMA EmptyReplyTrue ==
  ASSUME NEW c, reply'[c].status \notin {"OK", "ABORTED", "ALREADY_EXISTS"}
  PROVE  TellsTruth(c)'
  BY DEF TellsTruth

(* A step that leaves the rows, the map and the process alone, and answers *)
(* one call c or lets it wait, keeps the rest of the invariant.            *)
LEMMA QuietStep ==
  ASSUME TypeOK, LedgerInv, UNCHANGED <<durable, process, asked>>,
         NEW c \in Calls, phase[c] = "sent",
         \/ /\ phase' = [phase EXCEPT ![c] = "answered"]
            /\ \E rep : reply' = [reply EXCEPT ![c] = rep]
            /\ TellsTruth(c)'
         \/ /\ phase' = [phase EXCEPT ![c] = "waiting"]
            /\ reply' = reply
            /\ asked[c].kind = "execute"
            /\ asked[c].op \in pending
            /\ ledger[asked[c].op].fingerprint = Fingerprint(asked[c].request)
  PROVE  LedgerInv'
<1>1. RunsCounted' /\ PendingRuns' /\ RunningMeansWorking'
  BY DEF LedgerInv, RunsCounted, PendingRuns, RunningMeansWorking, durable, process
<1>2. WaitersWait'
  BY DEF TypeOK, LedgerInv, WaitersWait, durable, process
<1>3. \A op \in Operations : RowAdvances(op)
  BY DEF RowAdvances, durable, process
<1>4. \A d \in Calls :
        \/ /\ phase[d] = "answered" /\ phase'[d] = "answered"
           /\ asked'[d] = asked[d] /\ reply'[d] = reply[d]
        \/ phase'[d] # "answered" /\ reply'[d] = NoReply
        \/ phase'[d] = "answered" /\ TellsTruth(d)'
  BY DEF TypeOK, LedgerInv
<1>5. RepliesTrue'
  BY <1>3, <1>4, RepliesStable
<1>. QED
  BY <1>1, <1>2, <1>5 DEF LedgerInv, RepliesTrue

(* The same for an answer: what must be shown is that it tells the truth.  *)
LEMMA QuietAnswer ==
  ASSUME TypeOK, LedgerInv, UNCHANGED <<durable, process, asked>>,
         NEW c \in Calls, phase[c] = "sent", NEW status, NEW row,
         Answer(c, status, row),
         \/ status \notin {"OK", "ABORTED", "ALREADY_EXISTS"}
         \/ TellsTruth(c)'
  PROVE  LedgerInv'
<1>1. reply'[c].status = status
  BY DEF Answer, TypeOK
<1>2. TellsTruth(c)'
  BY <1>1, EmptyReplyTrue
<1>3. /\ phase' = [phase EXCEPT ![c] = "answered"]
      /\ \E rep : reply' = [reply EXCEPT ![c] = rep]
  BY DEF Answer
<1>. QED
  BY <1>2, <1>3, QuietStep

LEMMA GetExecutionInv ==
  ASSUME TypeOK, LedgerInv, NEW c \in Calls, GetExecution(c)
  PROVE  LedgerInv'
<1> DEFINE op == asked[c].op
<1>1. /\ UNCHANGED <<durable, process, asked>>
      /\ phase[c] = "sent" /\ asked[c].kind = "get"
  BY DEF GetExecution, Handles
<1>2. ledger[op] \in Row \cup {NoRow} /\ ledger' = ledger
  BY <1>1 DEF TypeOK, Question, durable
<1>3. CASE ledger[op] # NoRow /\ Answer(c, "OK", ledger[op])
  <2>1. reply'[c] = [status |-> "OK", row |-> ledger[op]]
    BY <1>3 DEF Answer, TypeOK
  <2>2. TellsTruth(c)'
    BY <1>1, <1>2, <1>3, <2>1 DEF TellsTruth
  <2>. QED
    BY <1>1, <1>3, <2>2, QuietAnswer
<1>4. CASE Answer(c, "NOT_FOUND", NoRow)
  BY <1>1, <1>4, QuietAnswer
<1>5. CASE Answer(c, "INTERNAL", NoRow)
  BY <1>1, <1>5, QuietAnswer
<1>. QED
  BY <1>3, <1>4, <1>5 DEF GetExecution

LEMMA FindExistingInv ==
  ASSUME TypeOK, LedgerInv, NEW c \in Calls, FindExisting(c)
  PROVE  LedgerInv'
<1> DEFINE op  == asked[c].op
           row == ledger[op]
           fp  == Fingerprint(asked[c].request)
<1>1. /\ UNCHANGED <<durable, process, asked>>
      /\ phase[c] = "sent" /\ asked[c].kind = "execute"
      /\ row \in Row /\ op \in Operations
  BY DEF FindExisting, Handles, TypeOK, Question
<1>2. ledger' = ledger /\ pending' = pending
  BY <1>1 DEF durable, process
<1>3. CASE row.fingerprint # fp /\ Answer(c, "ALREADY_EXISTS", NoRow)
  <2>1. reply'[c].status = "ALREADY_EXISTS"
    BY <1>3 DEF Answer, TypeOK
  <2>2. TellsTruth(c)'
    BY <1>1, <1>2, <1>3, <2>1, RowFacts DEF TellsTruth
  <2>. QED
    BY <1>1, <1>3, <2>2, QuietAnswer
<1>4. CASE row.state = "INTERRUPTED" /\ Answer(c, "ABORTED", NoRow)
  <2>1. reply'[c].status = "ABORTED"
    BY <1>4 DEF Answer, TypeOK
  <2>2. TellsTruth(c)'
    BY <1>1, <1>2, <1>4, <2>1 DEF TellsTruth
  <2>. QED
    BY <1>1, <1>4, <2>2, QuietAnswer
<1>5. CASE /\ row.fingerprint = fp /\ op \in pending
           /\ phase' = [phase EXCEPT ![c] = "waiting"] /\ UNCHANGED reply
  BY <1>1, <1>5, QuietStep
<1>6. CASE row.fingerprint = fp /\ row.state = "COMPLETED" /\ Answer(c, "OK", row)
  <2>1. reply'[c] = [status |-> "OK", row |-> row]
    BY <1>6 DEF Answer, TypeOK
  <2>2. TellsTruth(c)'
    BY <1>1, <1>2, <1>6, <2>1, RowFacts DEF TellsTruth
  <2>. QED
    BY <1>1, <1>6, <2>2, QuietAnswer
<1>7. CASE row.state = "RUNNING" /\ op \notin pending /\ Answer(c, "ABORTED", NoRow)
  <2>1. reply'[c].status = "ABORTED"
    BY <1>7 DEF Answer, TypeOK
  <2>2. TellsTruth(c)'
    BY <1>1, <1>2, <1>7, <2>1 DEF TellsTruth
  <2>. QED
    BY <1>1, <1>7, <2>2, QuietAnswer
<1>. QED
  BY <1>3, <1>4, <1>5, <1>6, <1>7 DEF FindExisting, InProgress

(* The answers that say nothing about a row, and the moves of the callers. *)
LEMMA CallerInv ==
  ASSUME TypeOK, LedgerInv, NEW c \in Calls,
         \/ \E q \in Question : Send(c, q)
         \/ Expire(c) \/ Unreachable(c) \/ RefuseWhileClosing(c) \/ RefuseInvalid(c)
  PROVE  LedgerInv'
<1>1. ASSUME NEW q \in Question, Send(c, q)
      PROVE  LedgerInv'
  <2>1. RunsCounted' /\ PendingRuns' /\ RunningMeansWorking'
    BY <1>1 DEF LedgerInv, RunsCounted, PendingRuns, RunningMeansWorking, durable,
                process, Send
  <2>2. WaitersWait'
    BY <1>1 DEF TypeOK, LedgerInv, WaitersWait, durable, process, Send
  <2>3. \A op \in Operations : RowAdvances(op)
    BY <1>1 DEF RowAdvances, durable, process, Send
  <2>4. RepliesTrue'
    BY <1>1, <2>3, RepliesStable DEF TypeOK, LedgerInv, Send
  <2>. QED
    BY <2>1, <2>2, <2>4 DEF LedgerInv, RepliesTrue
<1>2. CASE Expire(c)
  <2>1. RunsCounted' /\ PendingRuns' /\ RunningMeansWorking' /\ WaitersWait'
    BY <1>2 DEF LedgerInv, RunsCounted, PendingRuns, RunningMeansWorking, WaitersWait,
                durable, process, Expire
  <2>2. \A op \in Operations : RowAdvances(op)
    BY <1>2 DEF RowAdvances, durable, process, Expire
  <2>3. RepliesTrue'
    BY <1>2, <2>2, RepliesStable DEF LedgerInv, Expire
  <2>. QED
    BY <2>1, <2>3 DEF LedgerInv, RepliesTrue
<1>3. CASE Unreachable(c)
  BY <1>3, QuietAnswer DEF Unreachable, Answer
<1>4. CASE RefuseWhileClosing(c)
  BY <1>4, QuietAnswer DEF RefuseWhileClosing
<1>5. CASE RefuseInvalid(c)
  BY <1>5, QuietAnswer DEF RefuseInvalid, Handles
<1>. QED
  BY <1>1, <1>2, <1>3, <1>4, <1>5

(* A call that begins an execution: its operation had no row, so it was    *)
(* never begun, is not in the map, and nobody waits for it.                *)
LEMMA MayBeginFacts ==
  ASSUME TypeOK, LedgerInv, NEW c \in Calls, MayBegin(c)
  PROVE  /\ asked[c].op \in Operations /\ asked[c].request \in Requests
         /\ runner = "up" /\ phase[c] = "sent" /\ asked[c].kind = "execute"
         /\ ledger[asked[c].op] = NoRow
         /\ runs[asked[c].op] = 0
         /\ asked[c].op \notin pending
<1>1. /\ asked[c].op \in Operations /\ asked[c].request \in Requests
      /\ runner = "up" /\ phase[c] = "sent" /\ asked[c].kind = "execute"
      /\ ledger[asked[c].op] = NoRow
  BY DEF TypeOK, MayBegin, Handles, Question
<1>. QED
  BY <1>1, AbsentState DEF LedgerInv, RunsCounted, PendingRuns

LEMMA BeginSlowInv ==
  ASSUME TypeOK, LedgerInv, NEW c \in Calls, BeginSlow(c)
  PROVE  LedgerInv'
<1> DEFINE op  == asked[c].op
           row == Started(asked[c].request)
<1>1. /\ op \in Operations /\ asked[c].request \in Requests
      /\ runner = "up" /\ phase[c] = "sent" /\ asked[c].kind = "execute"
      /\ ledger[op] = NoRow /\ runs[op] = 0 /\ op \notin pending
  BY MayBeginFacts DEF BeginSlow
<1>2. /\ row \in Row /\ row.state = "RUNNING" /\ row # NoRow
      /\ row.fingerprint = Fingerprint(asked[c].request)
  BY <1>1, RowFacts
<1>3. /\ ledger' = [ledger EXCEPT ![op] = row]
      /\ runs' = [runs EXCEPT ![op] = @ + 1]
      /\ pending' = pending \cup {op}
      /\ phase' = [phase EXCEPT ![c] = "waiting"]
      /\ UNCHANGED <<runner, draining, asked, reply>>
  BY DEF BeginSlow, Begin
<1> HIDE DEF op, row
<1>4. RunsCounted'
  BY <1>1, <1>2, <1>3 DEF TypeOK, LedgerInv, RunsCounted
<1>5. PendingRuns'
  BY <1>1, <1>2, <1>3 DEF TypeOK, LedgerInv, PendingRuns
<1>6. RunningMeansWorking'
  BY <1>1, <1>2, <1>3 DEF TypeOK, LedgerInv, RunningMeansWorking
<1>7. WaitersWait'
  BY <1>1, <1>2, <1>3 DEF TypeOK, LedgerInv, WaitersWait, op
<1>8. \A o \in Operations : RowAdvances(o)
  BY <1>1, <1>2, <1>3 DEF TypeOK, RowAdvances
<1>9. RepliesTrue'
  BY <1>1, <1>3, <1>8, RepliesStable DEF TypeOK, LedgerInv
<1>. QED
  BY <1>4, <1>5, <1>6, <1>7, <1>9 DEF LedgerInv, RepliesTrue

LEMMA BeginFastInv ==
  ASSUME TypeOK, LedgerInv, NEW c \in Calls, BeginFast(c)
  PROVE  LedgerInv'
<1> DEFINE op  == asked[c].op
           row == Completed(Started(asked[c].request))
<1>1. /\ op \in Operations /\ asked[c].request \in Requests
      /\ runner = "up" /\ phase[c] = "sent" /\ asked[c].kind = "execute"
      /\ ledger[op] = NoRow /\ runs[op] = 0 /\ op \notin pending
  BY MayBeginFacts DEF BeginFast
<1>2. /\ row \in Row /\ row.state = "COMPLETED" /\ row # NoRow
      /\ row.fingerprint = Fingerprint(asked[c].request)
  BY <1>1, RowFacts
<1>3. /\ ledger' = [ledger EXCEPT ![op] = row]
      /\ runs' = [runs EXCEPT ![op] = @ + 1]
      /\ phase' = [phase EXCEPT ![c] = "answered"]
      /\ reply' = [reply EXCEPT ![c] = [status |-> "OK", row |-> row]]
      /\ UNCHANGED <<pending, runner, draining, asked>>
  BY DEF BeginFast, Begin, Answer, process
<1>4. ledger'[op] = row /\ reply'[c] = [status |-> "OK", row |-> row]
  BY <1>1, <1>3 DEF TypeOK
<1>5. TellsTruth(c)'
  BY <1>2, <1>3, <1>4 DEF TellsTruth
<1> HIDE DEF row
<1>6. RunsCounted'
  BY <1>1, <1>2, <1>3 DEF TypeOK, LedgerInv, RunsCounted
<1>7. PendingRuns' /\ RunningMeansWorking'
  BY <1>1, <1>2, <1>3, AbsentState
     DEF TypeOK, LedgerInv, PendingRuns, RunningMeansWorking
<1>8. WaitersWait'
  BY <1>1, <1>2, <1>3 DEF TypeOK, LedgerInv, WaitersWait
<1>9. \A o \in Operations : RowAdvances(o)
  BY <1>1, <1>2, <1>3 DEF TypeOK, RowAdvances
<1>10. RepliesTrue'
  BY <1>1, <1>3, <1>5, <1>9, RepliesStable DEF TypeOK, LedgerInv
<1>. QED
  BY <1>6, <1>7, <1>8, <1>10 DEF LedgerInv, RepliesTrue

LEMMA ExecuteFaultInv ==
  ASSUME TypeOK, LedgerInv, NEW c \in Calls, ExecuteFault(c)
  PROVE  LedgerInv'
<1> DEFINE op == asked[c].op
           r  == asked[c].request
<1>1. /\ op \in FaultyOperations /\ op \in Operations /\ r \in Requests
      /\ runner = "up" /\ phase[c] = "sent"
      /\ UNCHANGED <<process, asked>>
      /\ Answer(c, "INTERNAL", NoRow)
  BY DEF ExecuteFault, Handles, TypeOK, Question
<1>2. CASE UNCHANGED durable
  BY <1>1, <1>2, QuietAnswer
<1>3. ASSUME NEW row \in Row, ledger[op] = NoRow,
             ledger' = [ledger EXCEPT ![op] = row],
             runs' \in {runs, [runs EXCEPT ![op] = @ + 1]}
      PROVE  LedgerInv'
  <2>1. /\ runs[op] = 0 /\ op \notin pending /\ row # NoRow
        /\ UNCHANGED <<pending, runner, draining, asked>>
    BY <1>1, <1>3, AbsentState, RowFacts
       DEF LedgerInv, RunsCounted, PendingRuns, process
  <2>2. RunsCounted'
    BY <1>1, <1>3, <2>1 DEF TypeOK, LedgerInv, RunsCounted
  <2>3. PendingRuns' /\ RunningMeansWorking'
    BY <1>1, <1>3, <2>1 DEF TypeOK, LedgerInv, PendingRuns, RunningMeansWorking
  <2>4. WaitersWait'
    BY <1>1, <1>3, <2>1 DEF TypeOK, LedgerInv, WaitersWait, Answer
  <2>5. \A o \in Operations : RowAdvances(o)
    BY <1>1, <1>3, <2>1 DEF TypeOK, RowAdvances
  <2>6. TellsTruth(c)'
    BY <1>1, EmptyReplyTrue DEF Answer, TypeOK
  <2>7. RepliesTrue'
    BY <1>1, <2>1, <2>5, <2>6, RepliesStable DEF TypeOK, LedgerInv, Answer
  <2>. QED
    BY <2>2, <2>3, <2>4, <2>7 DEF LedgerInv, RepliesTrue
<1>4. Started(r) \in Row /\ Completed(Started(r)) \in Row
  BY <1>1, RowFacts
<1>. QED
  BY <1>2, <1>3, <1>4 DEF ExecuteFault, Begin

(* The process goes down with an empty map, and rows as they are or newly  *)
(* begun by the call that was being handled.                               *)
LEMMA LoseProcessInv ==
  ASSUME TypeOK, LedgerInv, NEW C \in SUBSET Calls, OpenCalls \subseteq C,
         LoseProcess(C), RunsCounted',
         \A c \in C : phase[c] # "answered",
         \A op \in Operations : RowAdvances(op)
  PROVE  LedgerInv'
<1>1. runner' = "down" /\ pending' = {} /\ asked' = asked
  BY DEF LoseProcess
<1>2. PendingRuns' /\ RunningMeansWorking'
  BY <1>1 DEF PendingRuns, RunningMeansWorking
<1>3. WaitersWait'
  BY DEF LoseProcess, WaitersWait, OpenCalls
<1>4. \A c \in C : phase'[c] = "answered" /\ TellsTruth(c)'
  <2> SUFFICES ASSUME NEW c \in C
               PROVE  phase'[c] = "answered" /\ TellsTruth(c)'
    OBVIOUS
  <2>1. phase'[c] = "answered" /\ reply'[c].status = "UNAVAILABLE"
    BY DEF LoseProcess
  <2>. QED
    BY <2>1, EmptyReplyTrue
<1>5. \A c \in Calls \ C : /\ phase'[c] = phase[c] /\ reply'[c] = reply[c]
                           /\ asked'[c] = asked[c]
  BY DEF LoseProcess
<1>6. RepliesTrue'
  BY <1>4, <1>5, RepliesStable DEF LedgerInv
<1>. QED
  BY <1>2, <1>3, <1>6 DEF LedgerInv, RepliesTrue

LEMMA StopInv ==
  ASSUME TypeOK, LedgerInv, Crash \/ Shutdown
  PROVE  LedgerInv'
<1>1. LoseProcess(OpenCalls) /\ UNCHANGED durable
  BY DEF Crash, Shutdown
<1>2. RunsCounted' /\ \A op \in Operations : RowAdvances(op)
  BY <1>1 DEF LedgerInv, RunsCounted, RowAdvances, durable, LoseProcess
<1>3. OpenCalls \in SUBSET Calls /\ \A c \in OpenCalls : phase[c] # "answered"
  BY DEF OpenCalls
<1>. QED
  BY <1>1, <1>2, <1>3, LoseProcessInv

LEMMA CrashMidwayInv ==
  ASSUME TypeOK, LedgerInv, NEW c \in Calls, CrashMidway(c)
  PROVE  LedgerInv'
<1> DEFINE op  == asked[c].op
           row == Started(asked[c].request)
           C   == OpenCalls \cup {c}
<1>1. /\ op \in Operations /\ phase[c] = "sent" /\ asked[c].request \in Requests
      /\ ledger[op] = NoRow /\ runs[op] = 0 /\ op \notin pending
  BY MayBeginFacts DEF CrashMidway
<1>2. /\ ledger' = [ledger EXCEPT ![op] = row] /\ row \in Row /\ row # NoRow
      /\ runs' = [runs EXCEPT ![op] = @ + 1]
      /\ LoseProcess(C) /\ pending' = {}
  BY <1>1, RowFacts DEF CrashMidway, Begin, LoseProcess
<1> HIDE DEF row
<1>3. RunsCounted'
  BY <1>1, <1>2 DEF TypeOK, LedgerInv, RunsCounted
<1>4. \A o \in Operations : RowAdvances(o)
  BY <1>1, <1>2 DEF TypeOK, RowAdvances
<1>5. /\ C \in SUBSET Calls /\ OpenCalls \subseteq C
      /\ \A d \in C : phase[d] # "answered"
  BY <1>1 DEF OpenCalls
<1> HIDE DEF C
<1>. QED
  BY <1>2, <1>3, <1>4, <1>5, LoseProcessInv

LEMMA FinishInv ==
  ASSUME TypeOK, LedgerInv, NEW op \in Operations, Finish(op)
  PROVE  LedgerInv'
<1> DEFINE row == Completed(ledger[op])
<1>1. /\ op \in pending /\ ledger[op].state = "RUNNING" /\ ledger[op] \in Row
      /\ UNCHANGED <<runner, draining, starts, asked, expired, runs>>
  BY AbsentState DEF Finish, LedgerInv, PendingRuns, TypeOK
<1>2. /\ row \in Row /\ row.state = "COMPLETED"
      /\ row.fingerprint = ledger[op].fingerprint /\ row # NoRow
  BY <1>1, RowFacts
<1>3. ASSUME NEW status, NEW r, Settle(op, status, r),
             \/ ledger' = ledger /\ op \in FaultyOperations
             \/ ledger' = [ledger EXCEPT ![op] = row],
             \/ status \notin {"OK", "ABORTED", "ALREADY_EXISTS"}
             \/ status = "OK" /\ r = row /\ ledger'[op] = row
      PROVE  LedgerInv'
  <2>1. pending' = pending \ {op}
    BY <1>3 DEF Settle
  <2> HIDE DEF row
  <2>2. /\ ledger'[op] \in {ledger[op], row}
        /\ \A o \in Operations \ {op} : ledger'[o] = ledger[o]
    BY <1>3 DEF TypeOK
  <2>3. RunsCounted'
    BY <1>1, <1>2, <2>2 DEF LedgerInv, RunsCounted
  <2>4. PendingRuns'
    BY <1>1, <2>1, <2>2 DEF TypeOK, LedgerInv, PendingRuns
  <2>5. RunningMeansWorking'
    BY <1>1, <1>2, <1>3, <2>1, <2>2 DEF TypeOK, LedgerInv, RunningMeansWorking
  <2>6. WaitersWait'
    BY <1>1, <1>3, <2>1, <2>2
       DEF TypeOK, LedgerInv, WaitersWait, Settle, Waiting, Question
  <2>7. \A o \in Operations : RowAdvances(o)
    BY <1>1, <2>1, <2>2 DEF RowAdvances, row
  <2>8. ASSUME NEW c \in Waiting(op)
        PROVE  phase'[c] = "answered" /\ TellsTruth(c)'
    <3>1. /\ phase'[c] = "answered" /\ reply'[c] = [status |-> status, row |-> r]
          /\ asked[c].op = op /\ c \in Calls /\ phase[c] = "waiting"
      BY <1>3, <2>8 DEF Settle, Waiting
    <3>2. CASE status \notin {"OK", "ABORTED", "ALREADY_EXISTS"}
      BY <3>1, <3>2, EmptyReplyTrue
    <3>3. CASE status = "OK" /\ r = row /\ ledger'[op] = row
      <4>1. row.fingerprint = Fingerprint(asked[c].request)
        BY <1>2, <3>1 DEF LedgerInv, WaitersWait
      <4>. QED
        BY <1>1, <1>2, <3>1, <3>3, <4>1 DEF TellsTruth
    <3>. QED
      BY <1>3, <3>1, <3>2, <3>3
  <2>9. \A c \in Calls \ Waiting(op) :
           phase'[c] = phase[c] /\ reply'[c] = reply[c] /\ asked'[c] = asked[c]
    BY <1>1, <1>3 DEF Settle
  <2>10. RepliesTrue'
    BY <2>7, <2>8, <2>9, RepliesStable DEF LedgerInv
  <2>. QED
    BY <2>3, <2>4, <2>5, <2>6, <2>10 DEF LedgerInv, RepliesTrue
<1>4. [ledger EXCEPT ![op] = row][op] = row
  BY DEF TypeOK
<1>. QED
  BY <1>3, <1>4 DEF Finish

LEMMA StartInv ==
  ASSUME TypeOK, LedgerInv, Start
  PROVE  LedgerInv'
<1>1. /\ runner = "down" /\ runner' = "up" /\ pending = {}
      /\ UNCHANGED <<pending, draining, asked, phase, reply, expired, runs>>
      /\ \A op \in Operations : ledger'[op] = Recovered(ledger[op])
  BY DEF Start, LedgerInv, PendingRuns
<1>2. \A op \in Operations :
         /\ ledger'[op].state # "RUNNING"
         /\ ledger'[op] = NoRow => ledger[op] = NoRow
  <2> SUFFICES ASSUME NEW op \in Operations
               PROVE  /\ ledger'[op].state # "RUNNING"
                      /\ ledger'[op] = NoRow => ledger[op] = NoRow
    OBVIOUS
  <2>1. CASE ledger[op] = NoRow
    <3>1. Recovered(ledger[op]) = NoRow
      BY <2>1, RowFacts
    <3>. QED
      BY <1>1, <2>1, <3>1, AbsentState
  <2>2. CASE ledger[op] \in Row
    <3>1. ledger'[op] \in Row /\ ledger'[op].state # "RUNNING"
      BY <1>1, <2>2, RowFacts
    <3>. QED
      BY <3>1, RowFacts
  <2>. QED
    BY <2>1, <2>2 DEF TypeOK
<1>3. RunsCounted' /\ PendingRuns' /\ RunningMeansWorking'
  BY <1>1, <1>2 DEF LedgerInv, RunsCounted, PendingRuns, RunningMeansWorking
<1>4. WaitersWait'
  BY <1>1 DEF LedgerInv, WaitersWait
<1>5. \A op \in Operations : RowAdvances(op)
  BY <1>1 DEF RowAdvances
<1>6. RepliesTrue'
  BY <1>1, <1>5, RepliesStable DEF LedgerInv
<1>. QED
  BY <1>3, <1>4, <1>6 DEF LedgerInv, RepliesTrue

LEMMA CloseInv ==
  ASSUME TypeOK, LedgerInv, Close
  PROVE  LedgerInv'
<1>1. RunsCounted' /\ PendingRuns' /\ RunningMeansWorking' /\ WaitersWait'
  BY DEF LedgerInv, RunsCounted, PendingRuns, RunningMeansWorking, WaitersWait,
         durable, Close
<1>2. \A op \in Operations : RowAdvances(op)
  BY DEF RowAdvances, durable, Close
<1>3. RepliesTrue'
  BY <1>2, RepliesStable DEF LedgerInv, Close
<1>. QED
  BY <1>1, <1>3 DEF LedgerInv, RepliesTrue

LEMMA InitLedgerInv == Init => LedgerInv
<1> SUFFICES ASSUME Init PROVE LedgerInv
  OBVIOUS
<1>1. /\ \A op \in Operations : ledger[op] = NoRow /\ runs[op] = 0
      /\ pending = {} /\ runner = "down"
      /\ \A c \in Calls : phase[c] = "unused" /\ reply[c] = NoReply
  BY DEF Init
<1>. QED
  BY <1>1 DEF LedgerInv, RunsCounted, PendingRuns, RunningMeansWorking, WaitersWait

LEMMA NextLedgerInv ==
  ASSUME TypeOK, LedgerInv, [Next]_vars
  PROVE  LedgerInv'
<1>1. CASE UNCHANGED vars
  <2>1. RunsCounted' /\ PendingRuns' /\ RunningMeansWorking' /\ WaitersWait'
    BY <1>1 DEF LedgerInv, RunsCounted, PendingRuns, RunningMeansWorking, WaitersWait,
                vars
  <2>2. \A op \in Operations : RowAdvances(op)
    BY <1>1 DEF RowAdvances, vars
  <2>3. RepliesTrue'
    BY <1>1, <2>2, RepliesStable DEF LedgerInv, vars
  <2>. QED
    BY <2>1, <2>3 DEF LedgerInv, RepliesTrue
<1>2. ASSUME NEW c \in Calls, Respond(c)
      PROVE  LedgerInv'
  BY <1>2, CallerInv, GetExecutionInv, FindExistingInv, BeginSlowInv, BeginFastInv
     DEF Respond, ExecuteRun
<1>3. ASSUME NEW c \in Calls,
             (\E q \in Question : Send(c, q)) \/ Expire(c) \/ ExecuteFault(c)
                \/ CrashMidway(c)
      PROVE  LedgerInv'
  BY <1>3, CallerInv, ExecuteFaultInv, CrashMidwayInv
<1>. QED
  BY <1>1, <1>2, <1>3, FinishInv, StartInv, StopInv, CloseInv DEF Next

(* LedgerInv holds in every reachable state.                               *)
THEOREM LedgerInvariant == Spec => []LedgerInv
  BY TypeCorrect, InitLedgerInv, NextLedgerInv, PTL DEF Spec

(* The runner never begins the work of an operation twice.                 *)
THEOREM AtMostOnce == Spec => []AtMostOneExecution
<1>1. LedgerInv => AtMostOneExecution
  BY DEF LedgerInv, RunsCounted, AtMostOneExecution
<1>. QED
  BY <1>1, LedgerInvariant, PTL

(* No row of a live runner claims work that nobody does.                   *)
THEOREM RunningRowsWorked == Spec => []RunningMeansWorking
<1>1. LedgerInv => RunningMeansWorking
  BY DEF LedgerInv
<1>. QED
  BY <1>1, LedgerInvariant, PTL

(* Whatever a caller was answered still agrees with the ledger, after any  *)
(* number of crashes, restarts and other calls: results stand, an aborted  *)
(* operation never completes, and a conflict was with another request.     *)
THEOREM RepliesStayTrue == Spec => []RepliesAgree
<1>1. TypeOK /\ LedgerInv => RepliesAgree
  <2> SUFFICES ASSUME TypeOK, LedgerInv, NEW c \in Calls
               PROVE  /\ SuccessAgrees(c)
                      /\ AbortIsFinal(c)
                      /\ ConflictMeansDifferent(c)
    BY DEF RepliesAgree
  <2>1. reply[c].status # "none" => TellsTruth(c)
    BY DEF LedgerInv, NoReply
  <2>2. SuccessAgrees(c)
    BY <2>1 DEF TellsTruth, SuccessAgrees
  <2>3. AbortIsFinal(c)
    BY <2>1 DEF TellsTruth, AbortIsFinal
  <2>4. ConflictMeansDifferent(c)
    <3> SUFFICES ASSUME reply[c].status = "ALREADY_EXISTS"
                 PROVE  LET row == ledger[asked[c].op] IN
                        /\ row # NoRow
                        /\ \/ row.fingerprint[1] # asked[c].request.behavior
                           \/ row.fingerprint[2] # asked[c].request.payload
      BY DEF ConflictMeansDifferent
    <3>1. /\ ledger[asked[c].op] # NoRow
          /\ ledger[asked[c].op].fingerprint # Fingerprint(asked[c].request)
      BY <2>1 DEF TellsTruth
    <3>2. ledger[asked[c].op] \in Row
      BY <3>1 DEF TypeOK, Question
    <3>3. PICK r \in Requests : ledger[asked[c].op].fingerprint = Fingerprint(r)
      BY <3>2 DEF Row, Fingerprints
    <3>. QED
      BY <3>1, <3>3 DEF Fingerprint
  <2>. QED
    BY <2>2, <2>3, <2>4
<1>. QED
  BY <1>1, TypeCorrect, LedgerInvariant, PTL

(* close() never lets go of the database over a half-done execution.       *)
THEOREM GracefulStop == Spec => GracefulStopStrandsNothing
<1>1. LedgerInv /\ [Next]_vars =>
        [Shutdown => \A op \in Operations \ FaultyOperations :
                        ledger'[op].state # "RUNNING"]_vars
  <2> SUFFICES ASSUME LedgerInv, Shutdown, NEW op \in Operations \ FaultyOperations
               PROVE  ledger'[op].state # "RUNNING"
    OBVIOUS
  <2>1. pending = {} /\ runner # "down"
    BY DEF Shutdown, LedgerInv, PendingRuns
  <2>2. ledger' = ledger
    BY DEF Shutdown, durable
  <2>. QED
    BY <2>1, <2>2 DEF LedgerInv, RunningMeansWorking
<1>. QED
  BY <1>1, LedgerInvariant, PTL DEF Spec, GracefulStopStrandsNothing
-----------------------------------------------------------------------------
(* The refinement: every step of the runner is a step of ExecutionPromise. *)

(* A row is accepted, settles once, and does not change after that.        *)
LEMMA RowsEvolve ==
  ASSUME TypeOK, LedgerInv, [Next]_vars, NEW op \in Operations
  PROVE  Promise!Evolves(ledger[op], ledger'[op])
<1> DEFINE Moves == \/ ledger'[op] = ledger[op]
                    \/ /\ ledger[op] = NoRow
                       /\ \E r \in Requests :
                             ledger'[op] \in {Started(r), Completed(Started(r))}
                    \/ op \in pending /\ ledger'[op] = Completed(ledger[op])
                    \/ ledger'[op] = Recovered(ledger[op])
<1>0. ledger[op] \in Row \cup {NoRow}
  BY DEF TypeOK
<1>1. Moves
  <2>1. ASSUME NEW c \in Calls,
               BeginSlow(c) \/ BeginFast(c) \/ CrashMidway(c) \/ ExecuteFault(c)
        PROVE  Moves
    <3>1. asked[c].op \in Operations /\ asked[c].request \in Requests
      BY DEF TypeOK, Question
    <3>2. CASE ledger' = ledger
      BY <3>2
    <3>3. CASE /\ ledger[asked[c].op] = NoRow
               /\ \E row \in {Started(asked[c].request),
                              Completed(Started(asked[c].request))} :
                     ledger' = [ledger EXCEPT ![asked[c].op] = row]
      BY <3>1, <3>3 DEF TypeOK
    <3>. QED
      BY <2>1, <3>2, <3>3 DEF BeginSlow, BeginFast, CrashMidway, ExecuteFault,
                              MayBegin, Begin, durable
  <2>2. ASSUME NEW o \in Operations, Finish(o)
        PROVE  Moves
    BY <2>2 DEF Finish, TypeOK
  <2>3. CASE Start
    BY <2>3 DEF Start
  <2>4. ASSUME NEW c \in Calls,
               \/ \E q \in Question : Send(c, q)
               \/ Expire(c) \/ RefuseWhileClosing(c) \/ Unreachable(c)
               \/ GetExecution(c) \/ RefuseInvalid(c) \/ FindExisting(c)
        PROVE  Moves
    BY <2>4 DEF Send, Expire, RefuseWhileClosing, Unreachable, GetExecution,
                RefuseInvalid, FindExisting, durable
  <2>5. CASE Crash \/ Close \/ Shutdown \/ UNCHANGED vars
    BY <2>5 DEF Crash, Close, Shutdown, vars, durable
  <2>. QED
    BY <2>1, <2>2, <2>3, <2>4, <2>5 DEF Next, Respond, ExecuteRun
<1>2. CASE /\ ledger[op] = NoRow
           /\ \E r \in Requests :
                 ledger'[op] \in {Started(r), Completed(Started(r))}
  <2>1. PICK r \in Requests : ledger'[op] \in {Started(r), Completed(Started(r))}
    BY <1>2
  <2>2. /\ ledger'[op].state \in {"RUNNING", "COMPLETED"}
        /\ ledger'[op].fingerprint = Fingerprint(r)
    BY <2>1, RowFacts
  <2>3. Fingerprint(r) \in Fingerprints
    BY DEF Fingerprints
  <2>. QED
    BY <1>2, <2>2, <2>3, AbsentState DEF Promise!Evolves
<1>3. CASE op \in pending /\ ledger'[op] = Completed(ledger[op])
  <2>1. ledger[op].state = "RUNNING" /\ ledger[op] \in Row
    BY <1>0, <1>3, AbsentState DEF LedgerInv, PendingRuns
  <2>. QED
    BY <1>3, <2>1, RowFacts DEF Promise!Evolves
<1>4. CASE ledger'[op] = Recovered(ledger[op])
  BY <1>0, <1>4, RowFacts DEF Promise!Evolves
<1>. QED
  BY <1>1, <1>2, <1>3, <1>4 DEF Promise!Evolves

(* What a call was answered is never taken back.                           *)
LEMMA AnswersStay ==
  ASSUME TypeOK, [Next]_vars, NEW c \in Calls, phase[c] = "answered"
  PROVE  /\ phase'[c] = "answered"
         /\ asked'[c] = asked[c]
         /\ reply'[c] = reply[c]
<1> USE DEF TypeOK
<1>1. ASSUME NEW d \in Calls, NEW q \in Question, Send(d, q)
      PROVE  phase'[c] = "answered" /\ asked'[c] = asked[c] /\ reply'[c] = reply[c]
  BY <1>1 DEF Send
<1>2. ASSUME NEW d \in Calls, Expire(d) \/ Respond(d) \/ ExecuteFault(d)
      PROVE  phase'[c] = "answered" /\ asked'[c] = asked[c] /\ reply'[c] = reply[c]
  <2>1. phase[d] # "answered" \/ Expire(d)
    BY <1>2 DEF Respond, ExecuteRun, RefuseWhileClosing, Unreachable, GetExecution,
                RefuseInvalid, FindExisting, BeginSlow, BeginFast, ExecuteFault,
                MayBegin, Handles
  <2>2. asked' = asked
    BY <1>2 DEF Expire, Respond, ExecuteRun, RefuseWhileClosing, Unreachable,
                GetExecution, RefuseInvalid, FindExisting, BeginSlow, BeginFast,
                ExecuteFault
  <2>3. \/ phase' = phase /\ reply' = reply
        \/ /\ phase[d] # "answered"
           /\ phase' = [phase EXCEPT ![d] = "waiting"] /\ reply' = reply
        \/ /\ phase[d] # "answered"
           /\ \E st, row : Answer(d, st, row)
    BY <1>2, <2>1 DEF Expire, Respond, ExecuteRun, RefuseWhileClosing, Unreachable,
                GetExecution, RefuseInvalid, FindExisting, BeginSlow, BeginFast,
                ExecuteFault, Answer
  <2>. QED
    BY <2>2, <2>3 DEF Answer
<1>3. ASSUME NEW d \in Calls, CrashMidway(d)
      PROVE  phase'[c] = "answered" /\ asked'[c] = asked[c] /\ reply'[c] = reply[c]
  BY <1>3 DEF CrashMidway, LoseProcess, OpenCalls, MayBegin, Handles
<1>4. ASSUME NEW op \in Operations, Finish(op)
      PROVE  phase'[c] = "answered" /\ asked'[c] = asked[c] /\ reply'[c] = reply[c]
  BY <1>4 DEF Finish, Settle, Waiting
<1>5. CASE Start \/ Crash \/ Close \/ Shutdown \/ UNCHANGED vars
  BY <1>5 DEF Start, Crash, Close, Shutdown, LoseProcess, OpenCalls, vars
<1>. QED
  BY <1>1, <1>2, <1>3, <1>4, <1>5 DEF Next

(* Only an answered call has a verdict, and its verdict fits the row.      *)
LEMMA VerdictsHold ==
  ASSUME TypeOK, LedgerInv, NEW op \in Operations, NEW v \in Told(op)
  PROVE  Promise!Upheld(v, ledger[op])
<1>1. PICK c \in Calls : /\ v = Verdict(c)
                         /\ asked[c].op = op /\ asked[c].kind = "execute"
                         /\ reply[c].status \in {"OK", "ABORTED", "ALREADY_EXISTS"}
  BY DEF Told
<1>2. TellsTruth(c)
  BY <1>1 DEF LedgerInv, NoReply
<1>3. CASE reply[c].status = "OK"
  <2>1. v = [kind |-> "completed", outcome |-> reply[c].row.outcome,
             fingerprint |-> reply[c].row.fingerprint]
    BY <1>1, <1>3 DEF Verdict
  <2>2. /\ reply[c].row.state = "COMPLETED"
        /\ ledger[op] = reply[c].row
    BY <1>1, <1>2, <1>3 DEF TellsTruth
  <2>. QED
    BY <2>1, <2>2 DEF Promise!Upheld
<1>4. CASE reply[c].status = "ABORTED"
  <2>1. v = [kind |-> "aborted"]
    BY <1>1, <1>4 DEF Verdict
  <2>. QED
    BY <1>1, <1>2, <1>4, <2>1 DEF TellsTruth, Promise!Upheld
<1>5. CASE reply[c].status = "ALREADY_EXISTS"
  <2>1. v = [kind |-> "conflict", fingerprint |-> Fingerprint(asked[c].request)]
    BY <1>1, <1>5 DEF Verdict
  <2>2. ledger[op] # NoRow /\ ledger[op].fingerprint # Fingerprint(asked[c].request)
    BY <1>1, <1>2, <1>5 DEF TellsTruth
  <2>3. ledger[op].state # "ABSENT"
    BY <2>2 DEF TypeOK, Row
  <2>. QED
    BY <2>1, <2>2, <2>3 DEF Promise!Upheld
<1>. QED
  BY <1>1, <1>3, <1>4, <1>5

LEMMA ToldGrows ==
  ASSUME TypeOK, LedgerInv, [Next]_vars, NEW op \in Operations
  PROVE  Told(op) \subseteq Told(op)'
<1> SUFFICES ASSUME NEW v \in Told(op)
             PROVE  v \in Told(op)'
  OBVIOUS
<1>1. PICK c \in Calls : /\ v = Verdict(c)
                         /\ asked[c].op = op /\ asked[c].kind = "execute"
                         /\ reply[c].status \in {"OK", "ABORTED", "ALREADY_EXISTS"}
  BY DEF Told
<1>2. phase[c] = "answered"
  BY <1>1 DEF LedgerInv, NoReply
<1>3. asked'[c] = asked[c] /\ reply'[c] = reply[c]
  BY <1>2, AnswersStay
<1>4. Verdict(c)' = Verdict(c)
  BY <1>3 DEF Verdict
<1>. QED
  BY <1>1, <1>3, <1>4 DEF Told

(* The runner implements the abstract ledger: whatever was told about an   *)
(* operation stays true of its entry, which settles at most once.          *)
THEOREM RunnerKeepsPromise == Spec => KeepsPromise
<1>1. Init => Promise!Init
  <2> SUFFICES ASSUME Init
               PROVE  Promise!Init
    OBVIOUS
  <2>1. \A op \in Operations : ledger[op].state = "ABSENT"
    BY AbsentState DEF Init
  <2>2. \A op \in Operations : Told(op) = {}
    BY DEF Init, Told, NoReply
  <2>. QED
    BY <2>1, <2>2 DEF Promise!Init
<1>2. TypeOK /\ LedgerInv =>
        \A op \in Operations : \A v \in Told(op) : Promise!Upheld(v, ledger[op])
  BY VerdictsHold
<1>3. (TypeOK /\ LedgerInv =>
         \A op \in Operations : \A v \in Told(op) :
            Promise!Upheld(v, ledger[op]))'
  BY <1>2, PTL
<1>4. TypeOK /\ LedgerInv /\ TypeOK' /\ LedgerInv' /\ [Next]_vars
        => [Promise!Next]_Promise!promiseVars
  <2> SUFFICES ASSUME TypeOK, LedgerInv, TypeOK', LedgerInv', [Next]_vars,
                      NEW op \in Operations
               PROVE  /\ Promise!Evolves(ledger[op], ledger'[op])
                      /\ Told(op) \subseteq Told(op)'
                      /\ \A v \in Told(op)' : Promise!Upheld(v, ledger'[op])
    BY DEF Promise!Next
  <2>. QED
    BY <1>3, RowsEvolve, ToldGrows
<1>. QED
  BY <1>1, <1>4, TypeCorrect, LedgerInvariant, PTL DEF Spec, KeepsPromise, Promise!Spec
-----------------------------------------------------------------------------
(* LedgerLease: who may open the file.                                     *)
-----------------------------------------------------------------------------
(* The inductive invariant behind OneOwner.                                *)

(* Inside the guarded section there is one process, and its guard.         *)
GuardExcludes ==
  /\ \A p, q \in Starts : InGuard(p) /\ InGuard(q) => p = q
  /\ \A p \in Starts : InGuard(p) => guard = IF at[p] = "guarding" THEN Empty ELSE p

(* A process that a taker-over has found gone is gone for good, and the    *)
(* lease it is about to remove is still that process's.                    *)
TakeoverSafe ==
  \A p \in Starts :
     /\ at[p] \in {"probing", "rereading", "unlinking"} =>
          seen[p] \in Starts /\ at[seen[p]] # "unborn"
     /\ at[p] \in {"rereading", "unlinking"} => ~Live(seen[p])
     /\ at[p] = "unlinking" => lease = seen[p]
     /\ at[p] = "leasing" => lease = Empty

LeaseInv == /\ GuardExcludes
            /\ LeaseIsOwners
            /\ TakeoverSafe
            /\ lease \in Starts => at[lease] # "unborn"
-----------------------------------------------------------------------------
LEMMA LeaseInitTypeOK == LeaseInit => LeaseTypeOK
  BY DEF LeaseInit, LeaseTypeOK, Content, Locations

LEMMA LeaseNextTypeOK == LeaseTypeOK /\ [LeaseNext]_leaseVars => LeaseTypeOK'
<1> SUFFICES ASSUME LeaseTypeOK, [LeaseNext]_leaseVars PROVE LeaseTypeOK'
  OBVIOUS
<1> USE DEF LeaseTypeOK, Content, Locations, InGuardLocations, OwnerLocations, Go
<1>1. ASSUME NEW p \in Starts, OpenGuard(p) \/ GuardTaken(p)
      PROVE  LeaseTypeOK'
  BY <1>1 DEF OpenGuard, GuardTaken
<1>2. ASSUME NEW p \in Starts, WriteGuard(p) \/ OpenLease(p) \/ WriteLease(p)
      PROVE  LeaseTypeOK'
  BY <1>2 DEF WriteGuard, OpenLease, WriteLease
<1>3. ASSUME NEW p \in Starts, ReadLease(p) \/ ProbeOwner(p) \/ RereadLease(p)
      PROVE  LeaseTypeOK'
  BY <1>3 DEF ReadLease, ProbeOwner, RereadLease
<1>4. ASSUME NEW p \in Starts, UnlinkLease(p) \/ RemoveGuard(p) \/ OpenDatabase(p)
      PROVE  LeaseTypeOK'
  BY <1>4 DEF UnlinkLease, RemoveGuard, OpenDatabase
<1>5. ASSUME NEW p \in Starts, CloseDatabase(p) \/ CheckOwnLease(p) \/ RemoveOwnLease(p)
      PROVE  LeaseTypeOK'
  BY <1>5 DEF CloseDatabase, CheckOwnLease, RemoveOwnLease
<1>6. ASSUME NEW p \in Starts, Kill(p)
      PROVE  LeaseTypeOK'
  BY <1>6 DEF Kill
<1>7. ASSUME NEW q \in Pids, ForeignStart(q) \/ ForeignExit(q)
      PROVE  LeaseTypeOK'
  BY <1>7 DEF ForeignStart, ForeignExit
<1>8. CASE UNCHANGED leaseVars
  BY <1>8 DEF leaseVars
<1>. QED
  BY <1>1, <1>2, <1>3, <1>4, <1>5, <1>6, <1>7, <1>8 DEF LeaseNext, Acquire, Release

(* Every reachable state is well typed.                                    *)
THEOREM LeaseTypeCorrect == LeaseSpec => []LeaseTypeOK
  BY LeaseInitTypeOK, LeaseNextTypeOK, PTL DEF LeaseSpec
-----------------------------------------------------------------------------
(* The inductive invariant.                                                *)

LEMMA InitLeaseInv == LeaseInit => LeaseInv
  BY LeaseConstants
     DEF LeaseInit, LeaseInv, GuardExcludes, LeaseIsOwners, TakeoverSafe, InGuard, Owns,
         InGuardLocations, OwnerLocations

LEMMA NextLeaseInv == LeaseTypeOK /\ LeaseInv /\ [LeaseNext]_leaseVars => LeaseInv'
<1> SUFFICES ASSUME LeaseTypeOK, LeaseInv, [LeaseNext]_leaseVars PROVE LeaseInv'
  OBVIOUS
<1> USE LeaseConstants
    DEF LeaseTypeOK, LeaseInv, GuardExcludes, LeaseIsOwners, TakeoverSafe, InGuard, Owns,
        Live, InGuardLocations, OwnerLocations, Locations, Content, Go
<1>1. ASSUME NEW p \in Starts, OpenGuard(p)
      PROVE  LeaseInv'
  BY <1>1 DEF OpenGuard, Free
<1>2. ASSUME NEW p \in Starts, GuardTaken(p)
      PROVE  LeaseInv'
  BY <1>2 DEF GuardTaken, Free
<1>3. ASSUME NEW p \in Starts, WriteGuard(p)
      PROVE  LeaseInv'
  BY <1>3 DEF WriteGuard
<1>4. ASSUME NEW p \in Starts, OpenLease(p)
      PROVE  LeaseInv'
  BY <1>4 DEF OpenLease
<1>5. ASSUME NEW p \in Starts, WriteLease(p)
      PROVE  LeaseInv'
  BY <1>5 DEF WriteLease
<1>6. ASSUME NEW p \in Starts, ReadLease(p)
      PROVE  LeaseInv'
  BY <1>6 DEF ReadLease
<1>7. ASSUME NEW p \in Starts, ProbeOwner(p)
      PROVE  LeaseInv'
  BY <1>7 DEF ProbeOwner, ProbeAnswers, Exists
<1>8. ASSUME NEW p \in Starts, RereadLease(p)
      PROVE  LeaseInv'
  BY <1>8 DEF RereadLease
<1>9. ASSUME NEW p \in Starts, UnlinkLease(p)
      PROVE  LeaseInv'
  BY <1>9 DEF UnlinkLease
<1>10. ASSUME NEW p \in Starts, RemoveGuard(p)
       PROVE  LeaseInv'
  BY <1>10 DEF RemoveGuard
<1>11. ASSUME NEW p \in Starts, OpenDatabase(p) \/ CloseDatabase(p)
       PROVE  LeaseInv'
  BY <1>11 DEF OpenDatabase, CloseDatabase
<1>12. ASSUME NEW p \in Starts, CheckOwnLease(p) \/ RemoveOwnLease(p)
       PROVE  LeaseInv'
  BY <1>12 DEF CheckOwnLease, RemoveOwnLease
<1>13. ASSUME NEW p \in Starts, Kill(p)
       PROVE  LeaseInv'
  BY <1>13 DEF Kill
<1>14. ASSUME NEW q \in Pids, ForeignStart(q) \/ ForeignExit(q)
       PROVE  LeaseInv'
  BY <1>14 DEF ForeignStart, ForeignExit
<1>15. CASE UNCHANGED leaseVars
  BY <1>15 DEF leaseVars
<1>. QED
  BY <1>1, <1>2, <1>3, <1>4, <1>5, <1>6, <1>7, <1>8, <1>9, <1>10, <1>11, <1>12,
     <1>13, <1>14, <1>15 DEF LeaseNext, Acquire, Release

(* LeaseInv holds in every reachable state; in particular the lease of a   *)
(* process that has the ledger is never taken away.                        *)
THEOREM LeaseInvariant == LeaseSpec => []LeaseInv
  BY LeaseTypeCorrect, InitLeaseInv, NextLeaseInv, PTL DEF LeaseSpec

(* At most one process has the ledger open.                                *)
THEOREM MutualExclusion == LeaseSpec => []OneOwner
<1>1. LeaseInv => OneOwner
  BY DEF LeaseInv, LeaseIsOwners, OneOwner, Owns, HasDatabase, OwnerLocations
<1>. QED
  BY <1>1, LeaseInvariant, PTL

(* The owner's lease is on disk until the owner gives it up.               *)
THEOREM OwnersLease == LeaseSpec => []LeaseIsOwners
<1>1. LeaseInv => LeaseIsOwners
  BY DEF LeaseInv
<1>. QED
  BY <1>1, LeaseInvariant, PTL

(* An orphaned guard stays where it is and lets nobody new at the ledger.  *)
THEOREM OrphanGate == LeaseSpec => OrphanedGuardBlocks
<1> DEFINE Gate == GuardOrphaned =>
                     /\ GuardOrphaned'
                     /\ \A p \in Starts : HasDatabase(p)' => HasDatabase(p)
<1>1. LeaseTypeOK /\ [LeaseNext]_leaseVars => [Gate]_leaseVars
  <2> SUFFICES ASSUME LeaseTypeOK, LeaseNext, GuardOrphaned
               PROVE  /\ GuardOrphaned'
                      /\ \A p \in Starts : HasDatabase(p)' => HasDatabase(p)
    OBVIOUS
  <2> USE DEF LeaseTypeOK, GuardOrphaned, HasDatabase, InGuard, InGuardLocations, Go
  <2>1. CASE \E p \in Starts : OpenGuard(p) \/ GuardTaken(p)
    BY <2>1 DEF OpenGuard, GuardTaken
  <2>2. CASE \E p \in Starts : WriteGuard(p) \/ OpenLease(p) \/ WriteLease(p)
    BY <2>2 DEF WriteGuard, OpenLease, WriteLease
  <2>3. CASE \E p \in Starts : ReadLease(p) \/ ProbeOwner(p) \/ RereadLease(p)
    BY <2>3 DEF ReadLease, ProbeOwner, RereadLease
  <2>4. CASE \E p \in Starts : UnlinkLease(p) \/ RemoveGuard(p) \/ OpenDatabase(p)
    BY <2>4 DEF UnlinkLease, RemoveGuard, OpenDatabase
  <2>5. CASE \E p \in Starts : CloseDatabase(p) \/ CheckOwnLease(p)
                                 \/ RemoveOwnLease(p) \/ Kill(p)
    BY <2>5 DEF CloseDatabase, CheckOwnLease, RemoveOwnLease, Kill
  <2>6. CASE \E q \in Pids : ForeignStart(q) \/ ForeignExit(q)
    BY <2>6 DEF ForeignStart, ForeignExit
  <2>. QED
    BY <2>1, <2>2, <2>3, <2>4, <2>5, <2>6 DEF LeaseNext, Acquire, Release
<1>. QED
  BY <1>1, LeaseTypeCorrect, PTL DEF LeaseSpec, OrphanedGuardBlocks
-----------------------------------------------------------------------------
(* What a clean exit leaves behind.                                        *)

(* Nobody was killed, and no process that may fail to write a file ran.    *)
Undisturbed == /\ \A p \in Starts : at[p] # "dead"
               /\ \A p \in FaultyStarts : at[p] = "unborn"

(* While nothing went wrong, each file has a process that will remove it.  *)
CleanInv ==
  Undisturbed =>
    /\ guard # None => \E p \in Starts : InGuard(p)
    /\ lease # None => \E p \in Starts : at[p] = "leasing" \/ Owns(p)

LEMMA NextCleanInv == LeaseTypeOK /\ LeaseInv /\ CleanInv /\ [LeaseNext]_leaseVars => CleanInv'
<1> SUFFICES ASSUME LeaseTypeOK, LeaseInv, CleanInv, [LeaseNext]_leaseVars, Undisturbed'
             PROVE  /\ guard' # None => \E p \in Starts : InGuard(p)'
                    /\ lease' # None =>
                         \E p \in Starts : at'[p] = "leasing" \/ Owns(p)'
  BY DEF CleanInv
<1> DEFINE Goal == /\ guard' # None => \E p \in Starts : InGuard(p)'
                   /\ lease' # None =>
                        \E p \in Starts : at'[p] = "leasing" \/ Owns(p)'
<1> USE LeaseConstants
    DEF LeaseTypeOK, LeaseInv, GuardExcludes, LeaseIsOwners, TakeoverSafe, CleanInv,
        Undisturbed, InGuard, Owns, Live, InGuardLocations, OwnerLocations, Locations,
        Content, Go
<1>1. ASSUME NEW p \in Starts, OpenGuard(p) \/ GuardTaken(p)
      PROVE  Goal
  BY <1>1 DEF OpenGuard, GuardTaken, Free
<1>2. ASSUME NEW p \in Starts, WriteGuard(p)
      PROVE  Goal
  BY <1>2 DEF WriteGuard
<1>3. ASSUME NEW p \in Starts, OpenLease(p)
      PROVE  Goal
  BY <1>3 DEF OpenLease
<1>4. ASSUME NEW p \in Starts, WriteLease(p)
      PROVE  Goal
  BY <1>4 DEF WriteLease
<1>5. ASSUME NEW p \in Starts, ReadLease(p) \/ ProbeOwner(p) \/ RereadLease(p)
      PROVE  Goal
  BY <1>5 DEF ReadLease, ProbeOwner, RereadLease
<1>6. ASSUME NEW p \in Starts, UnlinkLease(p)
      PROVE  Goal
  BY <1>6 DEF UnlinkLease
<1>7. ASSUME NEW p \in Starts, RemoveGuard(p)
      PROVE  Goal
  BY <1>7 DEF RemoveGuard
<1>8. ASSUME NEW p \in Starts, OpenDatabase(p) \/ CloseDatabase(p)
      PROVE  Goal
  BY <1>8 DEF OpenDatabase, CloseDatabase
<1>9. ASSUME NEW p \in Starts, CheckOwnLease(p) \/ RemoveOwnLease(p)
      PROVE  Goal
  BY <1>9 DEF CheckOwnLease, RemoveOwnLease
<1>10. ASSUME NEW p \in Starts, Kill(p)
       PROVE  Goal
  BY <1>10 DEF Kill
<1>11. CASE (\E q \in Pids : ForeignStart(q) \/ ForeignExit(q)) \/ UNCHANGED leaseVars
  BY <1>11 DEF ForeignStart, ForeignExit, leaseVars
<1>. QED
  BY <1>1, <1>2, <1>3, <1>4, <1>5, <1>6, <1>7, <1>8, <1>9, <1>10, <1>11
     DEF LeaseNext, Acquire, Release

(* A process that leaves on its own takes both its files with it, however  *)
(* it raced with others and whether or not it could open the database,     *)
(* unless it failed in writing one of the files.                           *)
THEOREM CleanExit == LeaseSpec => []CleanExitLeavesNothing
<1>1. LeaseInit => CleanInv
  BY DEF LeaseInit, CleanInv
<1>2. CleanInv => CleanExitLeavesNothing
  BY DEF CleanInv, CleanExitLeavesNothing, Undisturbed, InGuard, Owns,
         InGuardLocations, OwnerLocations
<1>. QED
  BY <1>1, <1>2, NextCleanInv, LeaseTypeCorrect, LeaseInvariant, PTL DEF LeaseSpec
=============================================================================
