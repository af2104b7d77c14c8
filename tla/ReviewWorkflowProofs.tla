------------------------- MODULE ReviewWorkflowProofs -------------------------
(***************************************************************************)
(* What is proved of ReviewWorkflow for all accounts, runs, requests and   *)
(* sessions: that it implements ReviewPromise, that one decision wins,     *)
(* that what an answer said stays true, that roles are kept, and that the  *)
(* map of sessions is bounded.                                             *)
(*                                                                         *)
(* The invariant is TypeOK and EvidenceKept with two parts for a request.  *)
(* Pending: what its handler established before an await still holds when  *)
(* it resumes.  Fine: what the properties say of its answer.  A step       *)
(* changes the answer of at most one request, and a row only as RowMoves   *)
(* says; the rest follows from that.                                       *)
(***************************************************************************)
EXTENDS ReviewWorkflow, FiniteSetTheorems, TLAPS

Pending(q) ==
  /\ at[q] \in {"new", "reading", "writing"} => reply[q] = NoReply
  /\ at[q] \in {"reading", "writing"} =>
       /\ RoleMay(asked[q], Holder(q))
       /\ asked[q].kind = "decide" => asked[q].verdict \in Verdicts
  /\ at[q] = "writing" /\ asked[q].kind = "decide" => review[asked[q].run] # NoReview

Won(q) == asked[q].kind = "decide" /\ reply[q].status = 200 =>
            review[asked[q].run] =
              [status |-> asked[q].verdict, reviewer |-> reply[q].actor, feedback |-> q,
               researcher |-> review[asked[q].run].researcher]

Lost(q) == reply[q].status = 409 =>
             /\ asked[q].kind = "decide" => review[asked[q].run].status \in Verdicts
             /\ asked[q].kind = "submit" => \/ review[asked[q].run] # NoReview
                                            \/ asked[q].run \notin stored

StaysTrue(q) == \A shown \in reply[q].rows :
                  LET now == review[shown[1]] IN
                  \/ now = shown[2]
                  \/ /\ shown[2].status = "pending"
                     /\ now.status \in Verdicts
                     /\ now.researcher = shown[2].researcher

OwnOnly(q) == reply[q].actor \in Researchers =>
                \A shown \in reply[q].rows : shown[2].researcher = reply[q].actor

Fine(q) == Won(q) /\ Lost(q) /\ StaysTrue(q) /\ OwnOnly(q)

WorkflowInv == /\ TypeOK
               /\ EvidenceKept
               /\ \A q \in Requests : Pending(q) /\ Fine(q)

(* How a row may change.                                                   *)
RowMoves(r) == \/ review'[r] = review[r]
               \/ /\ review[r] = NoReview
                  /\ r \in stored'
                  /\ \E a \in Researchers :
                       review'[r] = [status |-> "pending", researcher |-> a]
               \/ /\ review[r] # NoReview
                  /\ review[r].status = "pending"
                  /\ \E v \in Verdicts, b \in Reviewers, q \in Requests :
                       review'[r] = [status |-> v, reviewer |-> b, feedback |-> q,
                                     researcher |-> review[r].researcher]
-----------------------------------------------------------------------------
LEMMA QuestionType ==
  ASSUME TypeOK, NEW q \in Requests, at[q] # "new"
  PROVE  /\ asked[q] \in Question
         /\ asked[q].run \in Runs
         /\ asked[q].token \in Tokens
         /\ asked[q].kind \in {"submit", "get", "list", "decide"}
         /\ Holder(q) \in Actors
<1>1. asked[q] \in Question BY DEF TypeOK
<1> QED BY <1>1 DEF TypeOK, Question, Holder

LEMMA RowsType ==
  ASSUME TypeOK, NEW r \in Runs
  PROVE  /\ review[r] \in Review \cup {NoReview}
         /\ review[r] # NoReview => review[r] \in Review
         /\ review[r] # NoReview => review[r].researcher \in Researchers
         /\ review[r].status \in {"none", "pending"} \cup Verdicts
         /\ review[r].status = "none" <=> review[r] = NoReview
<1>1. NoReview.status = "none" BY DEF NoReview
<1>2. review[r] \in Review \cup {NoReview} BY DEF TypeOK
<1>3. CASE review[r] = NoReview BY <1>1, <1>2, <1>3
<1>4. CASE review[r] \in Review
  <2>1. /\ review[r].researcher \in Researchers
        /\ review[r].status \in {"pending"} \cup Verdicts
    BY <1>4 DEF Review
  <2>2. review[r] # NoReview BY <1>1, <2>1 DEF Verdicts
  <2> QED BY <1>2, <1>4, <2>1, <2>2 DEF Verdicts
<1> QED BY <1>2, <1>3, <1>4

(* A row that has moved is a row of the table again.                       *)
LEMMA MovedType ==
  ASSUME TypeOK, NEW r \in Runs, RowMoves(r)
  PROVE  /\ review'[r] \in Review \cup {NoReview}
         /\ review[r] # NoReview => review'[r] # NoReview
<1>1. CASE review'[r] = review[r] BY <1>1, RowsType
<1>2. CASE /\ review[r] = NoReview
           /\ \E a \in Researchers :
                review'[r] = [status |-> "pending", researcher |-> a]
  BY <1>2 DEF Review
<1>3. CASE /\ review[r] # NoReview
           /\ \E v \in Verdicts, b \in Reviewers, q \in Requests :
                review'[r] = [status |-> v, reviewer |-> b, feedback |-> q,
                              researcher |-> review[r].researcher]
  <2>1. review[r].researcher \in Researchers BY <1>3, RowsType
  <2>2. review'[r] \in Review BY <1>3, <2>1 DEF Review
  <2>3. review'[r].status # "none" BY <1>3 DEF Verdicts
  <2> QED BY <2>2, <2>3 DEF NoReview
<1> QED BY <1>1, <1>2, <1>3 DEF RowMoves
-----------------------------------------------------------------------------
(* A request that has no answer claims nothing.                            *)
LEMMA BlankFine ==
  ASSUME NEW q \in Requests, reply'[q] = NoReply
  PROVE  Fine(q)'
<1>0. /\ NoReply.rows = {}
      /\ NoReply.actor = ""
  BY DEF NoReply
<1>1. /\ reply'[q].rows = {}
      /\ reply'[q].actor = ""
  BY <1>0
<1>2. NoReply.status # 200 /\ NoReply.status # 409
  <2>1. NoReply.status = 0 BY DEF NoReply
  <2> QED BY <2>1
<1>5. Won(q)' /\ Lost(q)' BY <1>2 DEF Won, Lost
<1>3. StaysTrue(q)' BY <1>1 DEF StaysTrue
<1>4. OwnOnly(q)' BY <1>1 DEF OwnOnly
<1> QED BY <1>3, <1>4, <1>5 DEF Fine

(* What was true of an answer stays true while the rows move as they may.  *)
LEMMA KeptFine ==
  ASSUME TypeOK, NEW q \in Requests, at[q] # "new", Fine(q),
         \A r \in Runs : RowMoves(r), stored' \subseteq stored,
         reply'[q] = reply[q], asked'[q] = asked[q]
  PROVE  Fine(q)'
<1>1. asked[q].run \in Runs BY QuestionType
<1> DEFINE r == asked[q].run
<1>2. RowMoves(r) BY <1>1
<1>3. Won(q)'
  <2> SUFFICES ASSUME asked[q].kind = "decide", reply[q].status = 200
               PROVE  review'[r] =
                        [status |-> asked[q].verdict, reviewer |-> reply[q].actor,
                         feedback |-> q, researcher |-> review'[r].researcher]
    BY DEF Won
  <2>1. review[r] = [status |-> asked[q].verdict, reviewer |-> reply[q].actor,
                     feedback |-> q, researcher |-> review[r].researcher]
    BY DEF Fine, Won
  <2>2. asked[q].verdict \in Verdicts \cup {"invalid"}
    BY QuestionType DEF Question
  <2>3. review[r].status = asked[q].verdict BY <2>1
  <2>4. review[r].status \notin {"none", "pending"} BY <2>2, <2>3 DEF Verdicts
  <2>5. review[r] # NoReview BY <2>4 DEF NoReview
  <2>6. review'[r] = review[r] BY <1>2, <2>4, <2>5 DEF RowMoves
  <2> QED BY <2>1, <2>6
<1>4. Lost(q)'
  <2> SUFFICES ASSUME reply[q].status = 409
               PROVE  /\ asked[q].kind = "decide" => review'[r].status \in Verdicts
                      /\ asked[q].kind = "submit" => \/ review'[r] # NoReview
                                                     \/ r \notin stored'
    BY DEF Lost
  <2>1. ASSUME asked[q].kind = "decide" PROVE review'[r].status \in Verdicts
    <3>1. review[r].status \in Verdicts BY <2>1 DEF Fine, Lost
    <3>2. review[r].status # "pending" BY <3>1 DEF Verdicts
    <3>3. review[r] # NoReview BY <3>1 DEF Verdicts, NoReview
    <3> QED BY <1>2, <3>1, <3>2, <3>3 DEF RowMoves
  <2>2. ASSUME asked[q].kind = "submit"
        PROVE  review'[r] # NoReview \/ r \notin stored'
    <3>1. review[r] # NoReview \/ r \notin stored BY <2>2 DEF Fine, Lost
    <3> QED BY <1>1, <1>2, <3>1, MovedType
  <2> QED BY <2>1, <2>2
<1>5. StaysTrue(q)'
  <2> SUFFICES ASSUME NEW shown \in reply[q].rows
               PROVE  LET now == review'[shown[1]] IN
                      \/ now = shown[2]
                      \/ /\ shown[2].status = "pending"
                         /\ now.status \in Verdicts
                         /\ now.researcher = shown[2].researcher
    BY DEF StaysTrue
  <2> DEFINE s == shown[1]
  <2>1. reply[q].rows \subseteq Runs \X Review BY DEF TypeOK, Reply
  <2>2. s \in Runs /\ shown[2] \in Review BY <2>1
  <2>3. shown[2] # NoReview BY <2>2 DEF Review, NoReview, Verdicts
  <2>4. RowMoves(s) BY <2>2
  <2>5. CASE review[s] = shown[2]
    <3>1. review'[s] = review[s] \/
            /\ review[s].status = "pending"
            /\ \E v \in Verdicts, b \in Reviewers, p \in Requests :
                 review'[s] = [status |-> v, reviewer |-> b, feedback |-> p,
                               researcher |-> review[s].researcher]
      BY <2>3, <2>4, <2>5 DEF RowMoves
    <3>2. CASE review'[s] = review[s] BY <2>5, <3>2
    <3>3. CASE /\ review[s].status = "pending"
               /\ \E v \in Verdicts, b \in Reviewers, p \in Requests :
                    review'[s] = [status |-> v, reviewer |-> b, feedback |-> p,
                                  researcher |-> review[s].researcher]
      <4>1. review'[s].status \in Verdicts BY <3>3
      <4>2. review'[s].researcher = review[s].researcher BY <3>3
      <4>3. shown[2].status = "pending" BY <2>5, <3>3
      <4>4. review'[s].researcher = shown[2].researcher BY <2>5, <4>2
      <4> QED BY <4>1, <4>3, <4>4
    <3> QED BY <3>1, <3>2, <3>3
  <2>6. CASE /\ shown[2].status = "pending"
             /\ review[s].status \in Verdicts
             /\ review[s].researcher = shown[2].researcher
    <3>1. review[s].status # "pending" BY <2>6 DEF Verdicts
    <3>2. review[s] # NoReview BY <2>6 DEF Verdicts, NoReview
    <3>3. review'[s] = review[s] BY <2>4, <3>1, <3>2 DEF RowMoves
    <3> QED BY <2>6, <3>3
  <2> QED BY <2>5, <2>6 DEF Fine, StaysTrue
<1>6. OwnOnly(q)' BY DEF Fine, OwnOnly
<1> QED BY <1>3, <1>4, <1>5, <1>6 DEF Fine
-----------------------------------------------------------------------------
(* A request that does not act.                                            *)
Stands(q) == /\ reply'[q] = reply[q]
             /\ asked'[q] = asked[q]
             /\ at'[q] = at[q] \/ (at'[q] = "lost" /\ at[q] # "new")

(* One request acts, or none (Q is empty): if the rows move as they may    *)
(* and the request that acted is fine, then so is everything.              *)
LEMMA Preserved ==
  ASSUME WorkflowInv, TypeOK', EvidenceKept', UNCHANGED holder,
         \A r \in Runs : RowMoves(r), stored' \subseteq stored,
         NEW Q \in SUBSET Requests,
         \A q \in Q : Pending(q)' /\ Fine(q)',
         \A q \in Requests \ Q : Stands(q)
  PROVE  WorkflowInv'
<1> SUFFICES ASSUME NEW q \in Requests \ Q
             PROVE  Pending(q)' /\ Fine(q)'
  BY DEF WorkflowInv
<1>1. TypeOK /\ Pending(q) /\ Fine(q) BY DEF WorkflowInv
<1>2. Stands(q) OBVIOUS
<1> USE DEF Stands
<1>3. Holder(q)' = Holder(q) BY <1>2 DEF Holder
<1>4. Pending(q)'
  <2>1. at'[q] = "writing" /\ asked[q].kind = "decide" => review'[asked[q].run] # NoReview
    <3> SUFFICES ASSUME at'[q] = "writing", asked[q].kind = "decide"
                 PROVE  review'[asked[q].run] # NoReview
      OBVIOUS
    <3>1. at[q] = "writing" BY <1>2
    <3>2. asked[q].run \in Runs BY <1>1, <3>1, QuestionType
    <3>3. review[asked[q].run] # NoReview BY <1>1, <3>1 DEF Pending
    <3> QED BY <1>1, <3>2, <3>3, MovedType
  <2>2. at'[q] \in {"new", "reading", "writing"} => reply'[q] = NoReply
    BY <1>1, <1>2 DEF Pending
  <2>3. at'[q] \in {"reading", "writing"} =>
          /\ RoleMay(asked[q], Holder(q))
          /\ asked[q].kind = "decide" => asked[q].verdict \in Verdicts
    BY <1>1, <1>2 DEF Pending
  <2>4. RoleMay(asked[q], Holder(q))' <=> RoleMay(asked[q], Holder(q))
    BY <1>2, <1>3 DEF RoleMay
  <2> QED BY <1>2, <2>1, <2>2, <2>3, <2>4 DEF Pending
<1>5. Fine(q)'
  <2>1. CASE at[q] = "new"
    <3>1. reply'[q] = NoReply BY <1>1, <1>2, <2>1 DEF Pending
    <3> QED BY <3>1, BlankFine
  <2>2. CASE at[q] # "new" BY <1>1, <1>2, <2>2, KeptFine
  <2> QED BY <2>1, <2>2
<1> QED BY <1>4, <1>5

(* A refusal other than a conflict claims nothing.                         *)
LEMMA RefusedFine ==
  ASSUME NEW q \in Requests, NEW status, status # 200, status # 409,
         reply'[q].status = status, reply'[q].rows = {}
  PROVE  Fine(q)'
<1>1. Won(q)' /\ Lost(q)' BY DEF Won, Lost
<1>2. StaysTrue(q)' BY DEF StaysTrue
<1>3. OwnOnly(q)' BY DEF OwnOnly
<1> QED BY <1>1, <1>2, <1>3 DEF Fine

(* Answering keeps the types, and the other requests.                      *)
LEMMA AnswerType ==
  ASSUME TypeOK, NEW q \in Requests, NEW answer \in Reply,
         at' = [at EXCEPT ![q] = "answered"],
         reply' = [reply EXCEPT ![q] = answer]
  PROVE  /\ at' \in [Requests -> {"new", "reading", "writing", "answered", "lost"}]
         /\ reply' \in [Requests -> Reply]
         /\ reply'[q] = answer
         /\ at'[q] = "answered"
         /\ \A p \in Requests \ {q} : at'[p] = at[p] /\ reply'[p] = reply[p]
BY DEF TypeOK

LEMMA IdlePreserved ==
  ASSUME WorkflowInv, TypeOK', EvidenceKept', UNCHANGED holder,
         \A r \in Runs : RowMoves(r), stored' \subseteq stored,
         \A q \in Requests : Stands(q)
  PROVE  WorkflowInv'
<1> DEFINE Q == {}
<1>1. Q \in SUBSET Requests OBVIOUS
<1>2. \A q \in Q : Pending(q)' /\ Fine(q)' OBVIOUS
<1>3. \A q \in Requests \ Q : Stands(q) OBVIOUS
<1> HIDE DEF Q
<1> QED BY <1>1, <1>2, <1>3, Preserved

LEMMA ActPreserved ==
  ASSUME WorkflowInv, TypeOK', EvidenceKept', UNCHANGED holder,
         \A r \in Runs : RowMoves(r), stored' \subseteq stored,
         NEW q \in Requests, Pending(q)', Fine(q)',
         \A p \in Requests \ {q} : Stands(p)
  PROVE  WorkflowInv'
<1> DEFINE Q == {q}
<1>1. Q \in SUBSET Requests OBVIOUS
<1>2. \A p \in Q : Pending(p)' /\ Fine(p)' OBVIOUS
<1>3. \A p \in Requests \ Q : Stands(p) OBVIOUS
<1> HIDE DEF Q
<1> QED BY <1>1, <1>2, <1>3, Preserved

LEMMA SessionSteps ==
  ASSUME WorkflowInv, NEW t \in Tokens, CreateSession(t) \/ Expire(t) \/ Revoke(t)
  PROVE  WorkflowInv' /\ \A r \in Runs : RowMoves(r)
<1>1. TypeOK BY DEF WorkflowInv
<1>2. session' \in [Tokens -> {"unused", "valid", "expired", "gone"}]
  BY <1>1 DEF CreateSession, Expire, Revoke, TypeOK
<1>3. UNCHANGED <<holder, stored, review, at, asked, reply, restarts>>
  BY DEF CreateSession, Expire, Revoke, store
<1>4. TypeOK' BY <1>1, <1>2, <1>3 DEF TypeOK
<1>5. EvidenceKept' BY <1>3 DEF WorkflowInv, EvidenceKept
<1>6. \A r \in Runs : RowMoves(r) BY <1>3 DEF RowMoves
<1>7. \A q \in Requests : Stands(q) BY <1>3 DEF Stands
<1> QED BY <1>3, <1>4, <1>5, <1>6, <1>7, IdlePreserved

LEMMA RestartStep ==
  ASSUME WorkflowInv, Restart
  PROVE  WorkflowInv' /\ \A r \in Runs : RowMoves(r)
<1>1. TypeOK BY DEF WorkflowInv
<1>2. UNCHANGED <<holder, stored, review, asked, reply>> BY DEF Restart, store
<1>3. TypeOK'
  <2>1. session' \in [Tokens -> {"unused", "valid", "expired", "gone"}]
    BY <1>1 DEF Restart, TypeOK
  <2>2. at' \in [Requests -> {"new", "reading", "writing", "answered", "lost"}]
    BY <1>1 DEF Restart, TypeOK
  <2>3. restarts' \in 0..MaxRestarts
    BY <1>1, ReviewConstants DEF Restart, TypeOK
  <2>4. \A q \in Requests : at'[q] # "new" => at[q] # "new" BY <1>1 DEF Restart, TypeOK
  <2> QED BY <1>1, <1>2, <2>1, <2>2, <2>3, <2>4 DEF TypeOK
<1>4. EvidenceKept' BY <1>2 DEF WorkflowInv, EvidenceKept
<1>5. \A r \in Runs : RowMoves(r) BY <1>2 DEF RowMoves
<1>6. \A q \in Requests : Stands(q) BY <1>1, <1>2 DEF Restart, TypeOK, Stands
<1> QED BY <1>2, <1>3, <1>4, <1>5, <1>6, IdlePreserved

LEMMA DeleteStep ==
  ASSUME WorkflowInv, NEW r \in Runs, DeleteExperiment(r)
  PROVE  WorkflowInv' /\ \A s \in Runs : RowMoves(s)
<1>1. TypeOK BY DEF WorkflowInv
<1>2. UNCHANGED <<session, holder, review, at, asked, reply, restarts>>
  BY DEF DeleteExperiment, accounts
<1>3. stored' = stored \ {r} /\ review[r] = NoReview BY DEF DeleteExperiment
<1>4. TypeOK' BY <1>1, <1>2, <1>3 DEF TypeOK
<1>5. EvidenceKept' BY <1>2, <1>3 DEF WorkflowInv, EvidenceKept
<1>6. \A s \in Runs : RowMoves(s) BY <1>2 DEF RowMoves
<1>7. \A q \in Requests : Stands(q) BY <1>2 DEF Stands
<1> QED BY <1>2, <1>3, <1>4, <1>5, <1>6, <1>7, IdlePreserved

(* The first part of a handler: refused, or on to the database.            *)
LEMMA ReceiveStep ==
  ASSUME WorkflowInv, NEW q \in Requests, NEW question \in Question, Receive(q, question)
  PROVE  WorkflowInv' /\ \A r \in Runs : RowMoves(r)
<1>1. TypeOK /\ at[q] = "new" BY DEF WorkflowInv, Receive
<1>2. UNCHANGED <<holder, stored, review, restarts>> BY DEF Receive, store
<1>3. asked' = [asked EXCEPT ![q] = question] BY DEF Receive
<1>4. session' \in [Tokens -> {"unused", "valid", "expired", "gone"}]
  <2>1. question.token \in Tokens BY DEF Question
  <2> QED BY <1>1, <2>1 DEF Receive, TypeOK
<1> DEFINE actor == holder[question.token]
           Refused(answer) == /\ answer.status \in {400, 401, 403}
                              /\ answer.rows = {}
                              /\ at' = [at EXCEPT ![q] = "answered"]
                              /\ reply' = [reply EXCEPT ![q] = answer]
           Admitted == /\ RoleMay(question, actor)
                       /\ question.kind = "decide" => question.verdict # "invalid"
                       /\ at' = [at EXCEPT ![q] = "reading"]
                       /\ UNCHANGED reply
<1>5. actor \in Actors BY <1>1 DEF TypeOK, Question
<1>6. Admitted \/ \E answer \in Reply : Refused(answer)
  <2>1. CASE Answer(q, 401, {}, "")
    <3>1. [status |-> 401, rows |-> {}, actor |-> ""] \in Reply BY DEF Reply, Statuses
    <3> QED BY <2>1, <3>1 DEF Answer
  <2>2. CASE Answer(q, 403, {}, actor)
    <3>1. [status |-> 403, rows |-> {}, actor |-> actor] \in Reply
      BY <1>5 DEF Reply, Statuses
    <3> QED BY <2>2, <3>1 DEF Answer
  <2>3. CASE Answer(q, 400, {}, actor)
    <3>1. [status |-> 400, rows |-> {}, actor |-> actor] \in Reply
      BY <1>5 DEF Reply, Statuses
    <3> QED BY <2>3, <3>1 DEF Answer
  <2>4. CASE Admitted BY <2>4
  <2> QED BY <2>1, <2>2, <2>3, <2>4 DEF Receive
<1>7. asked' \in [Requests -> Question \cup {NoQuestion}] /\ asked'[q] = question
  BY <1>1, <1>3 DEF TypeOK
<1>8. EvidenceKept' BY <1>2 DEF WorkflowInv, EvidenceKept
<1>9. \A r \in Runs : RowMoves(r) BY <1>2 DEF RowMoves
<1>10. CASE Admitted
  <2>1. /\ at' \in [Requests -> {"new", "reading", "writing", "answered", "lost"}]
        /\ at'[q] = "reading"
        /\ \A p \in Requests \ {q} : at'[p] = at[p]
    BY <1>1, <1>10 DEF TypeOK
  <2>2. \A p \in Requests : at'[p] # "new" => asked'[p] \in Question
    BY <1>1, <1>3, <1>7, <2>1 DEF TypeOK
  <2>3. TypeOK' BY <1>1, <1>2, <1>4, <1>7, <1>10, <2>1, <2>2 DEF TypeOK
  <2>4. reply'[q] = NoReply BY <1>1, <1>10 DEF WorkflowInv, Pending
  <2>5. Holder(q)' = actor BY <1>2, <1>7 DEF Holder
  <2>6. RoleMay(question, actor) /\ (question.kind = "decide" => question.verdict \in Verdicts)
    BY <1>10 DEF Question
  <2>7. RoleMay(asked'[q], Holder(q)') BY <1>7, <2>5, <2>6
  <2>8. RoleMay(asked[q], Holder(q))' BY <2>7 DEF RoleMay
  <2>9. Pending(q)' BY <1>7, <2>1, <2>4, <2>6, <2>8 DEF Pending
  <2>10. Fine(q)' BY <2>4, BlankFine
  <2>11. \A p \in Requests \ {q} : Stands(p)
    BY <1>1, <1>3, <1>10, <2>1 DEF TypeOK, Stands
  <2>12. UNCHANGED holder /\ stored' \subseteq stored BY <1>2
  <2> QED BY <1>8, <1>9, <2>3, <2>9, <2>10, <2>11, <2>12, ActPreserved
<1>11. CASE \E answer \in Reply : Refused(answer)
  <2>1. PICK answer \in Reply : Refused(answer) BY <1>11
  <2>2. /\ at' \in [Requests -> {"new", "reading", "writing", "answered", "lost"}]
        /\ reply' \in [Requests -> Reply]
        /\ reply'[q] = answer
        /\ at'[q] = "answered"
        /\ \A p \in Requests \ {q} : at'[p] = at[p] /\ reply'[p] = reply[p]
    BY <1>1, <2>1, AnswerType
  <2>3. \A p \in Requests : at'[p] # "new" => asked'[p] \in Question
    BY <1>1, <1>3, <1>7, <2>2 DEF TypeOK
  <2>4. TypeOK' BY <1>1, <1>2, <1>4, <1>7, <2>2, <2>3 DEF TypeOK
  <2>5. Pending(q)' BY <2>2 DEF Pending
  <2>6. answer.status # 200 /\ answer.status # 409 BY <2>1
  <2>7. Fine(q)' BY <2>1, <2>2, <2>6, RefusedFine
  <2>8. \A p \in Requests \ {q} : Stands(p) BY <1>1, <1>3, <2>2 DEF TypeOK, Stands
  <2>9. UNCHANGED holder /\ stored' \subseteq stored BY <1>2
  <2> QED BY <1>8, <1>9, <2>4, <2>5, <2>7, <2>8, <2>9, ActPreserved
<1> QED BY <1>6, <1>10, <1>11

(* The second part: what is shown are rows as they are, the reader's own   *)
(* if the reader is a researcher; a database fault shows nothing.          *)
LEMMA ReadStep ==
  ASSUME WorkflowInv, NEW q \in Requests, Read(q) \/ DatabaseFault(q)
  PROVE  WorkflowInv' /\ \A r \in Runs : RowMoves(r)
<1>1. TypeOK /\ at[q] \in {"reading", "writing"} BY DEF WorkflowInv, Read, DatabaseFault
<1>2. UNCHANGED <<session, holder, stored, review, asked, restarts>>
  BY DEF Read, DatabaseFault, accounts, store
<1>3. Holder(q) \in Actors /\ asked[q] \in Question /\ asked[q].run \in Runs
  BY <1>1, QuestionType
<1> DEFINE Own(shown) == /\ shown \in Runs \X Review
                         /\ shown[2] = review[shown[1]]
                         /\ Holder(q) \in Researchers => shown[2].researcher = Holder(q)
           Tells(answer) == /\ answer.status \in {200, 404, 503}
                            /\ answer.status = 200 => asked[q].kind # "decide"
                            /\ answer.actor = Holder(q)
                            /\ \A shown \in answer.rows : Own(shown)
                            /\ at' = [at EXCEPT ![q] = "answered"]
                            /\ reply' = [reply EXCEPT ![q] = answer]
           GoesOn == /\ asked[q].kind = "decide" => review[asked[q].run] # NoReview
                     /\ at' = [at EXCEPT ![q] = "writing"]
                     /\ UNCHANGED reply
           seen == {s \in Runs : Sees(Holder(q), s)}
<1>4. \A s \in seen : Own(<<s, review[s]>>)
  <2> SUFFICES ASSUME NEW s \in seen PROVE Own(<<s, review[s]>>)
    OBVIOUS
  <2>1. review[s] # NoReview BY DEF Sees
  <2>2. review[s] \in Review BY <1>1, <2>1, RowsType
  <2>3. Holder(q) \in Researchers => review[s].researcher = Holder(q) BY DEF Sees
  <2> QED BY <2>2, <2>3
<1>5. GoesOn \/ \E answer \in Reply : Tells(answer)
  <2>1. ASSUME NEW n \in {404, 503}, Answer(q, n, {}, Holder(q))
        PROVE  \E answer \in Reply : Tells(answer)
    <3> DEFINE answer == [status |-> n, rows |-> {}, actor |-> Holder(q)]
    <3>1. answer \in Reply BY <1>3 DEF Reply, Statuses
    <3>2. answer.status \in {200, 404, 503} /\ answer.status # 200 OBVIOUS
    <3>3. Tells(answer) BY <2>1, <3>2 DEF Answer
    <3> QED BY <3>1, <3>3
  <2>2. ASSUME NEW rows \in SUBSET (Runs \X Review), \A shown \in rows : Own(shown),
               asked[q].kind # "decide", Answer(q, 200, rows, Holder(q))
        PROVE  \E answer \in Reply : Tells(answer)
    <3> DEFINE answer == [status |-> 200, rows |-> rows, actor |-> Holder(q)]
    <3>1. answer \in Reply BY <1>3 DEF Reply, Statuses
    <3>3. Tells(answer) BY <2>2 DEF Answer
    <3> QED BY <3>1, <3>3
  <2>3. CASE /\ asked[q].kind = "list"
             /\ Answer(q, 200, {<<s, review[s]>> : s \in seen}, Holder(q))
    <3> DEFINE rows == {<<s, review[s]>> : s \in seen}
    <3>1. \A shown \in rows : Own(shown) BY <1>4
    <3>2. rows \in SUBSET (Runs \X Review) BY <3>1
    <3>3. asked[q].kind # "decide" BY <2>3
    <3> HIDE DEF rows
    <3>4. Answer(q, 200, rows, Holder(q)) BY <2>3 DEF rows
    <3> QED BY <2>2, <3>1, <3>2, <3>3, <3>4
  <2>4. CASE /\ asked[q].kind = "get"
             /\ asked[q].run \in seen
             /\ Answer(q, 200, {<<asked[q].run, review[asked[q].run]>>}, Holder(q))
    <3> DEFINE rows == {<<asked[q].run, review[asked[q].run]>>}
    <3>1. \A shown \in rows : Own(shown) BY <1>4, <2>4
    <3>2. rows \in SUBSET (Runs \X Review) BY <3>1
    <3>3. asked[q].kind # "decide" BY <2>4
    <3> HIDE DEF rows
    <3>4. Answer(q, 200, rows, Holder(q)) BY <2>4 DEF rows
    <3> QED BY <2>2, <3>1, <3>2, <3>3, <3>4
  <2>5. CASE \E n \in {404, 503} : Answer(q, n, {}, Holder(q)) BY <2>1, <2>5
  <2>6. CASE GoesOn BY <2>6
  <2>7. ASSUME Read(q)
        PROVE \/ /\ asked[q].kind = "list"
                 /\ Answer(q, 200, {<<s, review[s]>> : s \in seen}, Holder(q))
              \/ /\ asked[q].kind = "get"
                 /\ asked[q].run \in seen
                 /\ Answer(q, 200, {<<asked[q].run, review[asked[q].run]>>}, Holder(q))
              \/ Answer(q, 404, {}, Holder(q))
              \/ GoesOn
    BY <2>7 DEF Read
  <2>8. Answer(q, 404, {}, Holder(q)) \/ Answer(q, 503, {}, Holder(q)) =>
          \E n \in {404, 503} : Answer(q, n, {}, Holder(q))
    OBVIOUS
  <2> QED BY <2>3, <2>4, <2>5, <2>6, <2>7, <2>8 DEF DatabaseFault
<1>6. EvidenceKept' BY <1>2 DEF WorkflowInv, EvidenceKept
<1>7. \A r \in Runs : RowMoves(r) BY <1>2 DEF RowMoves
<1>8. UNCHANGED holder /\ stored' \subseteq stored BY <1>2
<1> HIDE DEF seen
<1>9. CASE GoesOn
  <2>1. /\ at' \in [Requests -> {"new", "reading", "writing", "answered", "lost"}]
        /\ at'[q] = "writing"
        /\ \A p \in Requests \ {q} : at'[p] = at[p]
    BY <1>1, <1>9 DEF TypeOK
  <2>2. TypeOK' BY <1>1, <1>2, <1>3, <1>9, <2>1 DEF TypeOK
  <2>3. Pending(q) BY DEF WorkflowInv
  <2>4. reply'[q] = NoReply BY <1>1, <1>9, <2>3 DEF Pending
  <2>5. RoleMay(asked[q], Holder(q)) /\ (asked[q].kind = "decide" => asked[q].verdict \in Verdicts)
    BY <1>1, <2>3 DEF Pending
  <2>6. RoleMay(asked[q], Holder(q))' BY <1>2, <2>5 DEF RoleMay, Holder
  <2>7. Pending(q)' BY <1>2, <1>9, <2>4, <2>5, <2>6 DEF Pending
  <2>8. Fine(q)' BY <2>4, BlankFine
  <2>9. \A p \in Requests \ {q} : Stands(p) BY <1>2, <1>9, <2>1 DEF Stands
  <2> QED BY <1>6, <1>7, <1>8, <2>2, <2>7, <2>8, <2>9, ActPreserved
<1>10. CASE \E answer \in Reply : Tells(answer)
  <2>1. PICK answer \in Reply : Tells(answer) BY <1>10
  <2>2. /\ at' \in [Requests -> {"new", "reading", "writing", "answered", "lost"}]
        /\ reply' \in [Requests -> Reply]
        /\ reply'[q] = answer
        /\ at'[q] = "answered"
        /\ \A p \in Requests \ {q} : at'[p] = at[p] /\ reply'[p] = reply[p]
    BY <1>1, <2>1, AnswerType
  <2>3. TypeOK' BY <1>1, <1>2, <1>3, <2>2 DEF TypeOK
  <2>4. Pending(q)' BY <2>2 DEF Pending
  <2>5. Won(q)' BY <1>2, <2>1, <2>2 DEF Won
  <2>6. Lost(q)' BY <2>1, <2>2 DEF Lost
  <2>7. StaysTrue(q)' BY <1>2, <2>1, <2>2 DEF StaysTrue
  <2>8. OwnOnly(q)' BY <2>1, <2>2 DEF OwnOnly
  <2>9. Fine(q)' BY <2>5, <2>6, <2>7, <2>8 DEF Fine
  <2>10. \A p \in Requests \ {q} : Stands(p) BY <1>2, <2>2 DEF Stands
  <2> QED BY <1>6, <1>7, <1>8, <2>3, <2>4, <2>9, <2>10, ActPreserved
<1> QED BY <1>5, <1>9, <1>10

(* The third part.  Either a row is written, as it may be, and answered    *)
(* with; or the row stays, for a reason, and the answer is a conflict.     *)
LEMMA WriteType ==
  ASSUME TypeOK, NEW r \in Runs, NEW row \in Review,
         review' = [review EXCEPT ![r] = row]
  PROVE  /\ review' \in [Runs -> Review \cup {NoReview}]
         /\ review'[r] = row
         /\ \A s \in Runs \ {r} : review'[s] = review[s]
BY DEF TypeOK

LEMMA SubmitStep ==
  ASSUME WorkflowInv, NEW q \in Requests, Submit(q)
  PROVE  WorkflowInv' /\ \A r \in Runs : RowMoves(r)
<1> DEFINE r == asked[q].run
           row == Submission(q)
<1> USE DEF Submission
<1>1. TypeOK /\ at[q] = "writing" /\ asked[q].kind = "submit" /\ EvidenceKept
  BY DEF WorkflowInv, Submit
<1>2. UNCHANGED <<session, holder, stored, asked, restarts>> BY DEF Submit, accounts
<1>3. Holder(q) \in Actors /\ asked[q] \in Question /\ r \in Runs BY <1>1, QuestionType
<1>4. Holder(q) \in Researchers BY <1>1 DEF WorkflowInv, Pending, RoleMay
<1>5. row \in Review BY <1>4 DEF Review
<1>6. UNCHANGED holder /\ stored' \subseteq stored BY <1>2
<1> DEFINE Tells(answer) == /\ answer.status # 200
                            /\ answer.actor = Holder(q)
                            /\ at' = [at EXCEPT ![q] = "answered"]
                            /\ reply' = [reply EXCEPT ![q] = answer]
           Wrote(answer) == /\ r \in stored /\ review[r] = NoReview
                            /\ review' = [review EXCEPT ![r] = row]
                            /\ answer.status # 409
                            /\ answer.rows = {<<r, row>>}
           Refused(answer) == /\ r \notin stored \/ review[r] # NoReview
                              /\ UNCHANGED review
                              /\ answer.rows = {}
<1>7. \E answer \in Reply : Tells(answer) /\ (Wrote(answer) \/ Refused(answer))
  <2>1. CASE r \in stored /\ review[r] = NoReview
    <3> DEFINE answer == [status |-> 201, rows |-> {<<r, row>>}, actor |-> Holder(q)]
    <3>4. row \in Review /\ <<r, row>> \in Runs \X Review BY <1>3, <1>5
    <3> HIDE DEF row
    <3>5. {<<r, row>>} \in SUBSET (Runs \X Review) BY <3>4
    <3>1. answer \in Reply BY <1>3, <3>5 DEF Reply, Statuses
    <3> USE DEF row
    <3>2. Tells(answer) BY <2>1 DEF Submit, Write, Answer
    <3>3. Wrote(answer) BY <2>1 DEF Submit, Write
    <3> HIDE DEF answer
    <3> QED BY <3>1, <3>2, <3>3
  <2>2. CASE ~(r \in stored /\ review[r] = NoReview)
    <3> DEFINE answer == [status |-> 409, rows |-> {}, actor |-> Holder(q)]
    <3>1. answer \in Reply BY <1>3 DEF Reply, Statuses
    <3>2. Tells(answer) BY <2>2 DEF Submit, Answer
    <3>3. Refused(answer) BY <2>2 DEF Submit
    <3> HIDE DEF answer
    <3> QED BY <3>1, <3>2, <3>3
  <2> QED BY <2>1, <2>2
<1>8. PICK answer \in Reply : Tells(answer) /\ (Wrote(answer) \/ Refused(answer)) BY <1>7
<1>9. /\ at' \in [Requests -> {"new", "reading", "writing", "answered", "lost"}]
      /\ reply' \in [Requests -> Reply]
      /\ reply'[q] = answer
      /\ at'[q] = "answered"
      /\ \A p \in Requests \ {q} : at'[p] = at[p] /\ reply'[p] = reply[p]
  BY <1>1, <1>8, AnswerType
<1> HIDE DEF row
<1>10. review' \in [Runs -> Review \cup {NoReview}]
  BY <1>1, <1>3, <1>5, <1>8, WriteType DEF TypeOK
<1>11. TypeOK' BY <1>1, <1>2, <1>3, <1>9, <1>10 DEF TypeOK
<1>12. \A s \in Runs : RowMoves(s)
  <2>1. CASE Wrote(answer)
    <3>1. review'[r] = row /\ \A s \in Runs \ {r} : review'[s] = review[s]
      BY <1>1, <1>3, <1>5, <2>1, WriteType
    <3>2. RowMoves(r) BY <1>2, <1>4, <2>1, <3>1 DEF RowMoves, row
    <3> QED BY <3>1, <3>2 DEF RowMoves
  <2>2. CASE Refused(answer) BY <2>2 DEF RowMoves
  <2> QED BY <1>8, <2>1, <2>2
<1>13. EvidenceKept' BY <1>1, <1>2, <1>12 DEF EvidenceKept, RowMoves
<1>14. Pending(q)' BY <1>9 DEF Pending
<1>15. Fine(q)'
  <2>1. Won(q)' BY <1>1, <1>2 DEF Won
  <2>2. CASE Wrote(answer)
    <3>1. review'[r] = row BY <1>1, <1>3, <1>5, <2>2, WriteType
    <3>2. Lost(q)' BY <1>9, <2>2 DEF Lost
    <3>3. StaysTrue(q)' BY <1>9, <2>2, <3>1 DEF StaysTrue
    <3>4. row.researcher = Holder(q) BY DEF row
    <3>5. OwnOnly(q)' BY <1>8, <1>9, <2>2, <3>4 DEF OwnOnly
    <3> QED BY <2>1, <3>2, <3>3, <3>5 DEF Fine
  <2>3. CASE Refused(answer)
    <3>2. Lost(q)' BY <1>1, <1>2, <2>3 DEF Lost
    <3>3. StaysTrue(q)' BY <1>9, <2>3 DEF StaysTrue
    <3>5. OwnOnly(q)' BY <1>9, <2>3 DEF OwnOnly
    <3> QED BY <2>1, <3>2, <3>3, <3>5 DEF Fine
  <2> QED BY <1>8, <2>2, <2>3
<1>16. \A p \in Requests \ {q} : Stands(p) BY <1>2, <1>9 DEF Stands
<1> QED BY <1>6, <1>11, <1>12, <1>13, <1>14, <1>15, <1>16, ActPreserved

LEMMA DecideStep ==
  ASSUME WorkflowInv, NEW q \in Requests, Decide(q)
  PROVE  WorkflowInv' /\ \A r \in Runs : RowMoves(r)
<1> DEFINE r == asked[q].run
           row == Decision(q)
<1>1. TypeOK /\ at[q] = "writing" /\ asked[q].kind = "decide" /\ EvidenceKept
  BY DEF WorkflowInv, Decide
<1>2. UNCHANGED <<session, holder, stored, asked, restarts>> BY DEF Decide, accounts
<1>3. Holder(q) \in Actors /\ asked[q] \in Question /\ r \in Runs BY <1>1, QuestionType
<1>4. Holder(q) \in Reviewers /\ asked[q].verdict \in Verdicts /\ review[r] # NoReview
  BY <1>1 DEF WorkflowInv, Pending, RoleMay
<1>5. row = [status |-> asked[q].verdict, reviewer |-> Holder(q), feedback |-> q,
             researcher |-> review[r].researcher]
  BY DEF Decision
<1>17. review[r].researcher \in Researchers BY <1>1, <1>3, <1>4, RowsType
<1>18. row \in Review /\ row.researcher = review[r].researcher
  BY <1>4, <1>5, <1>17 DEF Review
<1>19. Holder(q) \notin Researchers BY <1>4, ReviewConstants
<1>6. UNCHANGED holder /\ stored' \subseteq stored BY <1>2
<1> DEFINE Tells(answer) == /\ answer.actor = Holder(q)
                            /\ at' = [at EXCEPT ![q] = "answered"]
                            /\ reply' = [reply EXCEPT ![q] = answer]
           Wrote(answer) == /\ review[r].status = "pending"
                            /\ review' = [review EXCEPT ![r] = row]
                            /\ answer.status # 409
                            /\ answer.rows = {<<r, row>>}
           Refused(answer) == /\ review[r].status # "pending"
                              /\ UNCHANGED review
                              /\ answer.status # 200
                              /\ answer.rows = {}
<1> HIDE DEF row
<1>7. \E answer \in Reply : Tells(answer) /\ (Wrote(answer) \/ Refused(answer))
  <2>1. CASE review[r].status = "pending"
    <3> DEFINE answer == [status |-> 200, rows |-> {<<r, row>>}, actor |-> Holder(q)]
    <3>4. <<r, row>> \in Runs \X Review BY <1>3, <1>18
    <3>5. {<<r, row>>} \in SUBSET (Runs \X Review) BY <3>4
    <3>1. answer \in Reply BY <1>3, <3>5 DEF Reply, Statuses
    <3>2. Tells(answer) BY <2>1 DEF Decide, Write, Answer, row
    <3>3. Wrote(answer) BY <2>1 DEF Decide, Write, row
    <3> HIDE DEF answer
    <3> QED BY <3>1, <3>2, <3>3
  <2>2. CASE review[r].status # "pending"
    <3> DEFINE answer == [status |-> 409, rows |-> {}, actor |-> Holder(q)]
    <3>1. answer \in Reply BY <1>3 DEF Reply, Statuses
    <3>2. Tells(answer) BY <2>2 DEF Decide, Answer
    <3>3. Refused(answer) BY <2>2 DEF Decide
    <3> HIDE DEF answer
    <3> QED BY <3>1, <3>2, <3>3
  <2> QED BY <2>1, <2>2
<1>8. PICK answer \in Reply : Tells(answer) /\ (Wrote(answer) \/ Refused(answer)) BY <1>7
<1>9. /\ at' \in [Requests -> {"new", "reading", "writing", "answered", "lost"}]
      /\ reply' \in [Requests -> Reply]
      /\ reply'[q] = answer
      /\ at'[q] = "answered"
      /\ \A p \in Requests \ {q} : at'[p] = at[p] /\ reply'[p] = reply[p]
  BY <1>1, <1>8, AnswerType
<1>10. review' \in [Runs -> Review \cup {NoReview}]
  BY <1>1, <1>3, <1>8, <1>18, WriteType DEF TypeOK
<1>11. TypeOK' BY <1>1, <1>2, <1>3, <1>9, <1>10 DEF TypeOK
<1>20. ASSUME Wrote(answer)
       PROVE  review'[r] = row /\ \A s \in Runs \ {r} : review'[s] = review[s]
  BY <1>1, <1>3, <1>18, <1>20, WriteType
<1>12. \A s \in Runs : RowMoves(s)
  <2>1. CASE Wrote(answer)
    <3>1. RowMoves(r) BY <1>4, <1>5, <1>20, <2>1 DEF RowMoves
    <3>2. \A s \in Runs \ {r} : RowMoves(s) BY <1>20, <2>1 DEF RowMoves
    <3> QED BY <3>1, <3>2
  <2>2. CASE Refused(answer) BY <2>2 DEF RowMoves
  <2> QED BY <1>8, <2>1, <2>2
<1>13. EvidenceKept' BY <1>1, <1>2, <1>12 DEF EvidenceKept, RowMoves
<1>14. Pending(q)' BY <1>9 DEF Pending
<1>15. Fine(q)'
  <2>1. OwnOnly(q)' BY <1>8, <1>9, <1>19 DEF OwnOnly
  <2>2. CASE Wrote(answer)
    <3>1. review'[r] = row BY <1>20, <2>2
    <3>2. Lost(q)' BY <1>9, <2>2 DEF Lost
    <3>3. StaysTrue(q)' BY <1>9, <2>2, <3>1 DEF StaysTrue
    <3>4. review'[r] = [status |-> asked[q].verdict, reviewer |-> reply'[q].actor,
                        feedback |-> q, researcher |-> review'[r].researcher]
      BY <1>5, <1>8, <1>9, <1>18, <3>1
    <3>5. Won(q)' BY <1>2, <3>4 DEF Won
    <3> QED BY <2>1, <3>2, <3>3, <3>5 DEF Fine
  <2>3. CASE Refused(answer)
    <3>1. review[r].status \in Verdicts BY <1>1, <1>3, <1>4, <2>3, RowsType
    <3>2. Lost(q)' BY <1>1, <1>2, <2>3, <3>1 DEF Lost
    <3>3. StaysTrue(q)' BY <1>9, <2>3 DEF StaysTrue
    <3>4. Won(q)' BY <1>9, <2>3 DEF Won
    <3> QED BY <2>1, <3>2, <3>3, <3>4 DEF Fine
  <2> QED BY <1>8, <2>2, <2>3
<1>16. \A p \in Requests \ {q} : Stands(p) BY <1>2, <1>9 DEF Stands
<1> QED BY <1>6, <1>11, <1>12, <1>13, <1>14, <1>15, <1>16, ActPreserved

(* A row is written as Submit or Decide would, and the answer is a 503 or  *)
(* none at all.                                                            *)
LEMMA UnheardStep ==
  ASSUME WorkflowInv, NEW q \in Requests, CommitUnheard(q)
  PROVE  WorkflowInv' /\ \A r \in Runs : RowMoves(r)
<1> DEFINE r == asked[q].run
<1>1. TypeOK /\ at[q] = "writing" /\ EvidenceKept /\ Pending(q)
  BY DEF WorkflowInv, CommitUnheard
<1>2. UNCHANGED <<session, holder, stored, asked, restarts>>
  BY DEF CommitUnheard, accounts
<1>3. Holder(q) \in Actors /\ asked[q] \in Question /\ r \in Runs BY <1>1, QuestionType
<1>4. \E row \in Review :
        /\ review' = [review EXCEPT ![r] = row]
        /\ \/ r \in stored /\ review[r] = NoReview /\ row = Submission(q)
              /\ Holder(q) \in Researchers
           \/ review[r] # NoReview /\ review[r].status = "pending"
              /\ row = Decision(q) /\ Holder(q) \in Reviewers
              /\ asked[q].verdict \in Verdicts
  <2>1. CASE /\ asked[q].kind = "submit"
             /\ r \in stored /\ review[r] = NoReview
             /\ review' = [review EXCEPT ![r] = Submission(q)]
    <3>1. Holder(q) \in Researchers BY <1>1, <2>1 DEF Pending, RoleMay
    <3>2. Submission(q) \in Review BY <3>1 DEF Submission, Review
    <3> QED BY <2>1, <3>1, <3>2
  <2>2. CASE /\ asked[q].kind = "decide"
             /\ review[r].status = "pending"
             /\ review' = [review EXCEPT ![r] = Decision(q)]
    <3>1. /\ Holder(q) \in Reviewers
          /\ asked[q].verdict \in Verdicts
          /\ review[r] # NoReview
      BY <1>1, <2>2 DEF Pending, RoleMay
    <3>2. review[r].researcher \in Researchers BY <1>1, <1>3, <3>1, RowsType
    <3>3. Decision(q) \in Review BY <3>1, <3>2 DEF Decision, Review
    <3> QED BY <2>2, <3>1, <3>3
  <2> QED BY <2>1, <2>2 DEF CommitUnheard
<1>5. PICK row \in Review :
        /\ review' = [review EXCEPT ![r] = row]
        /\ \/ r \in stored /\ review[r] = NoReview /\ row = Submission(q)
              /\ Holder(q) \in Researchers
           \/ review[r] # NoReview /\ review[r].status = "pending"
              /\ row = Decision(q) /\ Holder(q) \in Reviewers
              /\ asked[q].verdict \in Verdicts
  BY <1>4
<1>6. /\ review' \in [Runs -> Review \cup {NoReview}]
      /\ review'[r] = row
      /\ \A s \in Runs \ {r} : review'[s] = review[s]
  BY <1>1, <1>3, <1>5, WriteType
<1>7. \A s \in Runs : RowMoves(s)
  <2>1. RowMoves(r)
    BY <1>2, <1>5, <1>6 DEF RowMoves, Submission, Decision
  <2>2. \A s \in Runs \ {r} : RowMoves(s) BY <1>6 DEF RowMoves
  <2> QED BY <2>1, <2>2
<1>8. EvidenceKept' BY <1>1, <1>2, <1>7 DEF EvidenceKept, RowMoves
<1>9. UNCHANGED holder /\ stored' \subseteq stored BY <1>2
<1>10. CASE Answer(q, 503, {}, Holder(q))
  <2> DEFINE answer == [status |-> 503, rows |-> {}, actor |-> Holder(q)]
  <2>1. answer \in Reply BY <1>3 DEF Reply, Statuses
  <2>2. /\ at' \in [Requests -> {"new", "reading", "writing", "answered", "lost"}]
        /\ reply' \in [Requests -> Reply]
        /\ reply'[q] = answer
        /\ at'[q] = "answered"
        /\ \A p \in Requests \ {q} : at'[p] = at[p] /\ reply'[p] = reply[p]
    BY <1>1, <1>10, <2>1, AnswerType DEF Answer
  <2>3. TypeOK' BY <1>1, <1>2, <1>3, <1>6, <2>2 DEF TypeOK
  <2>4. Pending(q)' BY <2>2 DEF Pending
  <2>5. reply'[q].status = 503 /\ reply'[q].rows = {} BY <2>2
  <2>6. Fine(q)' BY <2>5, RefusedFine
  <2>7. \A p \in Requests \ {q} : Stands(p) BY <1>2, <2>2 DEF Stands
  <2> QED BY <1>7, <1>8, <1>9, <2>3, <2>4, <2>6, <2>7, ActPreserved
<1>11. CASE at' = [at EXCEPT ![q] = "lost"] /\ UNCHANGED reply
  <2>1. /\ at' \in [Requests -> {"new", "reading", "writing", "answered", "lost"}]
        /\ at'[q] = "lost"
        /\ \A p \in Requests \ {q} : at'[p] = at[p]
    BY <1>1, <1>11 DEF TypeOK
  <2>2. TypeOK' BY <1>1, <1>2, <1>3, <1>6, <1>11, <2>1 DEF TypeOK
  <2>3. reply'[q] = NoReply BY <1>1, <1>11 DEF Pending
  <2>4. Pending(q)' BY <2>1 DEF Pending
  <2>5. Fine(q)' BY <2>3, BlankFine
  <2>6. \A p \in Requests \ {q} : Stands(p) BY <1>2, <1>11, <2>1 DEF Stands
  <2> QED BY <1>7, <1>8, <1>9, <2>2, <2>4, <2>5, <2>6, ActPreserved
<1> QED BY <1>10, <1>11 DEF CommitUnheard
-----------------------------------------------------------------------------
LEMMA InitInv == Init => WorkflowInv
<1> SUFFICES ASSUME Init PROVE WorkflowInv
  OBVIOUS
<1>1. NoReply \in Reply BY DEF Reply, NoReply, Statuses
<1>2. TypeOK BY <1>1, ReviewConstants DEF Init, TypeOK
<1>3. EvidenceKept BY DEF Init, EvidenceKept
<1>4. ASSUME NEW q \in Requests PROVE Pending(q) /\ Fine(q)
  <2>1. reply[q] = NoReply /\ at[q] = "new" BY DEF Init
  <2>2. NoReply.rows = {} /\ NoReply.actor = "" BY DEF NoReply
  <2>3. NoReply.status # 200 /\ NoReply.status # 409
    <3>1. NoReply.status = 0 BY DEF NoReply
    <3> QED BY <3>1
  <2>4. Won(q) /\ Lost(q) BY <2>1, <2>3 DEF Won, Lost
  <2>5. StaysTrue(q) BY <2>1, <2>2 DEF StaysTrue
  <2>6. OwnOnly(q) BY <2>1, <2>2 DEF OwnOnly
  <2> QED BY <2>1, <2>4, <2>5, <2>6 DEF Pending, Fine
<1> QED BY <1>2, <1>3, <1>4 DEF WorkflowInv

LEMMA NextInv ==
  ASSUME WorkflowInv, [Next]_vars
  PROVE  WorkflowInv' /\ \A r \in Runs : RowMoves(r)
<1>1. CASE \E t \in Tokens : CreateSession(t) \/ Expire(t) \/ Revoke(t)
  BY <1>1, SessionSteps
<1>2. CASE \E q \in Requests, question \in Question : Receive(q, question)
  BY <1>2, ReceiveStep
<1>3. CASE \E q \in Requests : Handle(q)
  <2>1. PICK q \in Requests : Handle(q) BY <1>3
  <2>2. CASE Read(q) \/ DatabaseFault(q) BY <2>2, ReadStep
  <2>3. CASE Submit(q) BY <2>3, SubmitStep
  <2>4. CASE Decide(q) BY <2>4, DecideStep
  <2>5. CASE CommitUnheard(q) BY <2>5, UnheardStep
  <2> QED BY <2>1, <2>2, <2>3, <2>4, <2>5 DEF Handle
<1>4. CASE \E r \in Runs : DeleteExperiment(r) BY <1>4, DeleteStep
<1>5. CASE Restart BY <1>5, RestartStep
<1>6. CASE UNCHANGED vars
  <2>1. UNCHANGED <<session, holder, stored, review, at, asked, reply, restarts>>
    BY <1>6 DEF vars, accounts, store
  <2>2. TypeOK' BY <2>1 DEF WorkflowInv, TypeOK
  <2>3. EvidenceKept' BY <2>1 DEF WorkflowInv, EvidenceKept
  <2>4. \A r \in Runs : RowMoves(r) BY <2>1 DEF RowMoves
  <2>5. \A q \in Requests : Stands(q) BY <2>1 DEF Stands
  <2> QED BY <2>1, <2>2, <2>3, <2>4, <2>5, IdlePreserved
<1> QED BY <1>1, <1>2, <1>3, <1>4, <1>5, <1>6 DEF Next

(* The types are kept.                                                     *)
THEOREM ReviewsTypeCorrect == Spec => []TypeOK
<1>1. Init => TypeOK BY InitInv DEF WorkflowInv
<1>2. WorkflowInv /\ [Next]_vars => WorkflowInv' BY NextInv
<1>3. WorkflowInv => TypeOK BY DEF WorkflowInv
<1> QED BY <1>2, <1>3, InitInv, PTL DEF Spec

(* The invariant holds in every reachable state.                           *)
THEOREM WorkflowInvariant == Spec => []WorkflowInv
<1>1. WorkflowInv /\ [Next]_vars => WorkflowInv' BY NextInv
<1> QED BY <1>1, InitInv, PTL DEF Spec

(* A review has one winner: the row holds the verdict, feedback and        *)
(* reviewer of whoever was told 200 (decideReview).                        *)
THEOREM DecisionsHaveOneWinner == Spec => []OneWinner
<1>1. WorkflowInv => OneWinner BY DEF WorkflowInv, Fine, Won, OneWinner
<1> QED BY <1>1, WorkflowInvariant, PTL

(* A conflict is told only of something that has happened, what an answer  *)
(* showed of a review stays so, and a submitted run is not deleted,        *)
(* whatever races with the request.                                        *)
THEOREM AnswersAreKept == Spec => []NothingTakenBack
<1>1. WorkflowInv => ConflictsAreReal
  BY DEF WorkflowInv, Fine, Lost, ConflictsAreReal
<1>2. WorkflowInv => AnswersStayTrue
  BY DEF WorkflowInv, Fine, StaysTrue, AnswersStayTrue
<1>3. WorkflowInv => EvidenceKept
  BY DEF WorkflowInv
<1> QED BY <1>1, <1>2, <1>3, WorkflowInvariant, PTL DEF NothingTakenBack

(* A run is submitted once, decided once, and then stands: the three-step  *)
(* handlers implement the promise of the queue.                            *)
THEOREM ReviewsKeepPromise == Spec => KeepsPromise
<1>1. Init => Promise!Init
  <2>1. NoReview.status = "none" BY DEF NoReview
  <2> QED BY <2>1 DEF Init, Promise!Init
<1>2. WorkflowInv /\ [Next]_vars => [Promise!Next]_review
  <2> SUFFICES ASSUME WorkflowInv, [Next]_vars PROVE Promise!Next
    OBVIOUS
  <2> SUFFICES ASSUME NEW r \in Runs
               PROVE  \/ review'[r] = review[r]
                      \/ /\ review[r].status = "none"
                         /\ \E a \in Researchers : Promise!SubmittedBy(review'[r], a)
                      \/ Promise!Decides(review[r], review'[r])
    BY DEF Promise!Next
  <2>1. TypeOK BY DEF WorkflowInv
  <2>2. RowMoves(r) BY NextInv
  <2>3. CASE review'[r] = review[r] BY <2>3
  <2>4. CASE /\ review[r] = NoReview
             /\ \E a \in Researchers :
                  review'[r] = [status |-> "pending", researcher |-> a]
    BY <2>4 DEF NoReview, Promise!SubmittedBy
  <2>5. CASE /\ review[r].status = "pending"
             /\ \E v \in Verdicts, b \in Reviewers, q \in Requests :
                  review'[r] = [status |-> v, reviewer |-> b, feedback |-> q,
                                researcher |-> review[r].researcher]
    BY <2>5 DEF Promise!Decides, Promise!Verdicts, Verdicts
  <2> QED BY <2>2, <2>3, <2>4, <2>5 DEF RowMoves
<1> QED BY <1>1, <1>2, WorkflowInvariant, PTL DEF Spec, KeepsPromise, Promise!Spec

(* Researchers are shown their own reviews only; researchers submit and    *)
(* reviewers decide.                                                       *)
THEOREM RolesAreKept == Spec => []RolesKept
<1>1. WorkflowInv => RolesKept
  <2> SUFFICES ASSUME WorkflowInv PROVE RolesKept
    OBVIOUS
  <2>1. TypeOK BY DEF WorkflowInv
  <2>2. ASSUME NEW r \in Runs
        PROVE  /\ review[r].status # "none" => review[r].researcher \in Researchers
               /\ review[r].status \in Verdicts => review[r].reviewer \in Reviewers
    <3>1. CASE review[r] = NoReview
      <4>1. review[r].status = "none" BY <3>1 DEF NoReview
      <4> QED BY <4>1 DEF Verdicts
    <3>2. CASE review[r] \in Review BY <3>2 DEF Review, Verdicts
    <3> QED BY <2>1, <3>1, <3>2, RowsType
  <2> QED BY <2>2 DEF WorkflowInv, Fine, OwnOnly, RolesKept
<1> QED BY <1>1, WorkflowInvariant, PTL
-----------------------------------------------------------------------------
(* The map of sessions: sweeping and the limit keep it bounded.            *)
LEMMA HeldShrinks ==
  ASSUME SessionsBounded, Held' \subseteq Held
  PROVE  SessionsBounded'
<1>1. IsFiniteSet(Held) BY ReviewConstants, FS_Subset DEF Held
<1>2. /\ IsFiniteSet(Held') /\ Cardinality(Held') \in Nat /\ Cardinality(Held) \in Nat
      /\ Cardinality(Held') <= Cardinality(Held)
  BY <1>1, FS_Subset, FS_CardinalityType
<1> QED BY <1>2, ReviewConstants DEF SessionsBounded

LEMMA CreateBounded ==
  ASSUME TypeOK, SessionsBounded, NEW t \in Tokens, CreateSession(t)
  PROVE  SessionsBounded'
<1> DEFINE live == {u \in Tokens : Valid(u)}
           full == Cardinality(live) >= Capacity
<1>1. CASE full
  <2>1. session' = [u \in Tokens |-> IF session[u] = "expired" THEN "gone" ELSE session[u]]
    BY <1>1 DEF CreateSession
  <2>2. Held' \subseteq Held BY <2>1 DEF Held
  <2> QED BY <2>2, HeldShrinks
<1>2. CASE ~full
  <2>1. /\ session[t] = "unused"
        /\ session' = [[u \in Tokens |-> IF session[u] = "expired" THEN "gone" ELSE session[u]]
                         EXCEPT ![t] = "valid"]
    BY <1>2 DEF CreateSession
  <2>2. Held' \subseteq live \cup {t} BY <2>1 DEF Held, Valid
  <2>3. t \notin live BY <2>1 DEF Valid
  <2>4. IsFiniteSet(live) BY ReviewConstants, FS_Subset
  <2> HIDE DEF live
  <2>5. /\ IsFiniteSet(live \cup {t})
        /\ Cardinality(live \cup {t}) = Cardinality(live) + 1
    BY <2>3, <2>4, FS_AddElement
  <2>6. /\ IsFiniteSet(Held')
        /\ Cardinality(Held') <= Cardinality(live \cup {t})
    BY <2>2, <2>5, FS_Subset
  <2>7. Cardinality(Held') \in Nat /\ Cardinality(live) \in Nat
    BY <2>4, <2>6, FS_CardinalityType
  <2> QED BY <1>2, <2>5, <2>6, <2>7, ReviewConstants DEF SessionsBounded
<1> QED BY <1>1, <1>2

LEMMA HeldOtherwise ==
  ASSUME TypeOK, [Next]_vars, \A t \in Tokens : ~CreateSession(t)
  PROVE  Held' \subseteq Held
<1>1. CASE \E t \in Tokens : Expire(t)
  BY <1>1 DEF Expire, TypeOK, Held
<1>2. CASE \E t \in Tokens : Revoke(t)
  BY <1>2 DEF Revoke, TypeOK, Held
<1>3. CASE Restart BY <1>3 DEF Restart, TypeOK, Held
<1>4. CASE \E q \in Requests, question \in Question : Receive(q, question)
  <2>1. PICK q \in Requests, question \in Question : Receive(q, question) BY <1>4
  <2> DEFINE t == question.token
  <2>2. session' = session \/
        session' = [session EXCEPT ![t] = IF @ = "expired" THEN "gone" ELSE @]
    BY <2>1 DEF Receive
  <2>3. t \in Tokens BY DEF Question
  <2> QED BY <2>2, <2>3 DEF TypeOK, Held
<1>5. CASE session' = session BY <1>5 DEF Held
<1>6. CASE \E q \in Requests : Handle(q)
  <2>1. session' = session
    BY <1>6 DEF Handle, Read, Submit, Decide, DatabaseFault, CommitUnheard, accounts
  <2> QED BY <2>1, <1>5
<1>7. CASE \E r \in Runs : DeleteExperiment(r)
  BY <1>5, <1>7 DEF DeleteExperiment, accounts
<1>8. CASE UNCHANGED vars BY <1>5, <1>8 DEF vars, accounts
<1> QED BY <1>1, <1>2, <1>3, <1>4, <1>6, <1>7, <1>8 DEF Next

(* However sessions are created, expire, are looked up and revoked, the    *)
(* map holds at most its limit (MAX_SESSIONS).                             *)
THEOREM SessionsAreBounded == Spec => []SessionsBounded
<1>1. Init => SessionsBounded
  <2> SUFFICES ASSUME Init PROVE SessionsBounded
    OBVIOUS
  <2>1. Held = {} BY DEF Init, Held
  <2>2. Cardinality(Held) = 0 BY <2>1, FS_EmptySet
  <2> QED BY <2>2, ReviewConstants DEF SessionsBounded
<1>2. TypeOK /\ SessionsBounded /\ [Next]_vars => SessionsBounded'
  <2> SUFFICES ASSUME TypeOK, SessionsBounded, [Next]_vars PROVE SessionsBounded'
    OBVIOUS
  <2>1. CASE \E t \in Tokens : CreateSession(t) BY <2>1, CreateBounded
  <2>2. CASE \A t \in Tokens : ~CreateSession(t)
    BY <2>2, HeldOtherwise, HeldShrinks
  <2> QED BY <2>1, <2>2
<1> QED BY <1>1, <1>2, ReviewsTypeCorrect, PTL DEF Spec
=============================================================================
