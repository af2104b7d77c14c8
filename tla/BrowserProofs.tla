----------------------------- MODULE BrowserProofs -----------------------------
(***************************************************************************)
(* Proofs about the two workspaces of the browser, for any number of       *)
(* experiments, runs, sessions, operations and writes: the experiments     *)
(* workspace (RunClient) and, after it, the review workspace with its live *)
(* reads (ReviewClient).                                                   *)
(***************************************************************************)
EXTENDS RunClient, ReviewClient, TLAPS, WellFoundedInduction
-----------------------------------------------------------------------------
(* The newest of some of the first n numbers is one of them.               *)
LEMMA NewestType ==
  ASSUME NEW n \in Nat, NEW S, S \subseteq 1..n
  PROVE  /\ Newest(S) \in 0..n
         /\ S # {} => Newest(S) \in S
<1>1. CASE S = {} BY <1>1 DEF Newest
<1>2. CASE S # {}
  <2> DEFINE T == {n - x : x \in S}
             R == {p \in Nat \X Nat : p[1] < p[2]}
  <2>1. T \subseteq Nat
    <3>1. \A x \in S : n - x \in Nat OBVIOUS
    <3> QED BY <3>1
  <2>2. T # {} BY <1>2
  <2>3. IsWellFoundedOn(R, Nat) BY NatLessThanWellFounded DEF OpToRel
  <2> HIDE DEF R
  <2>4. PICK t \in T : \A u \in T : ~(<<u, t>> \in R)
    BY <2>1, <2>2, <2>3, WFMin
  <2>5. PICK m \in S : t = n - m OBVIOUS
  <2>6. ASSUME NEW y \in S PROVE m >= y
    <3>1. n - y \in T /\ n - y \in Nat /\ t \in Nat OBVIOUS
    <3>2. ~(n - y < t) BY <2>4, <3>1 DEF R
    <3> QED BY <2>5, <3>2
  <2>7. Max(S) \in S BY <2>6 DEF Max
  <2>8. Newest(S) = Max(S) BY <1>2 DEF Newest
  <2>9. Newest(S) \in S BY <2>7, <2>8
  <2>10. Newest(S) \in 1..n BY <2>9
  <2> HIDE DEF T
  <2> QED BY <2>9, <2>10
<1> QED BY <1>1, <1>2
-----------------------------------------------------------------------------
(* The types.                                                              *)
ServerTypes == /\ made \in 0..MaxExperiments
               /\ stored \subseteq Experiments
               /\ formOf \in [Experiments -> Forms]
               /\ runsOf \in [Experiments -> SUBSET Runs]
               /\ lastRun \in 0..MaxRuns
               /\ submitted \subseteq Runs

LEMMA ServerType ==
  ASSUME ServerTypes,
         \/ \E f \in Forms : Create(f)
         \/ \E e \in Experiments : RunOn(e) \/ Delete(e)
         \/ \E r \in Runs : SubmitForReview(r)
         \/ UNCHANGED server
  PROVE  ServerTypes'
<1>1. MaxExperiments \in Nat /\ MaxRuns \in Nat BY RunClientConstants
<1>2. ASSUME NEW f \in Forms, Create(f) PROVE ServerTypes'
  BY <1>1, <1>2 DEF Create, ServerTypes, Experiments
<1>3. ASSUME NEW e \in Experiments, RunOn(e) PROVE ServerTypes'
  <2>1. lastRun + 1 \in 1..MaxRuns BY <1>1, <1>3 DEF RunOn, ServerTypes
  <2> QED BY <1>3, <2>1 DEF RunOn, ServerTypes, Runs
<1>4. ASSUME NEW e \in Experiments, Delete(e) PROVE ServerTypes'
  BY <1>4 DEF Delete, ServerTypes
<1>5. ASSUME (\E r \in Runs : SubmitForReview(r)) \/ UNCHANGED server PROVE ServerTypes'
  BY <1>5 DEF SubmitForReview, ServerTypes, server
<1> QED BY <1>2, <1>3, <1>4, <1>5

PanelTypes == /\ form \in Forms \cup {Unparsable}
              /\ list \subseteq Experiments
              /\ selected \in Details \cup {None}
              /\ latest \in 0..MaxRuns
              /\ error \in BOOLEAN

ChainTypes == /\ doing \in {"idle", "load", "open", "remove", "execute"}
              /\ target \in 0..MaxExperiments
              /\ ran \in 0..MaxRuns
              /\ asked \subseteq Requests
              /\ told \subseteq Answer

InspectionTypes == checking \in 0..MaxRuns /\ execution \in 0..MaxRuns

LEMMA TypeParts ==
  TypeOK <=> /\ ServerTypes /\ PanelTypes /\ ChainTypes /\ InspectionTypes
             /\ removed \subseteq Experiments
BY DEF TypeOK, ServerTypes, PanelTypes, ChainTypes, InspectionTypes

(* What is created is what the form showed when it was asked for.          *)
Parsed == /\ doing = "idle" => asked = {}
          /\ "create" \in asked => form \in Forms

LEMMA DetailsType ==
  ASSUME NEW d \in Details
  PROVE  /\ d.id \in Experiments /\ d.form \in Forms /\ d.runs \subseteq Runs
         /\ Newest(d.runs) \in 0..MaxRuns
<1>1. d.runs \subseteq 1..MaxRuns BY DEF Details, Runs
<1>2. MaxRuns \in Nat BY RunClientConstants
<1> QED BY <1>1, <1>2, NewestType DEF Details, Runs

LEMMA DetailsNotNone == None \notin Details
BY RunClientConstants

LEMMA AnswerType ==
  ASSUME NEW a \in Answer
  PROVE  /\ a.to \in Requests /\ a.failed \in BOOLEAN
         /\ ~a.failed /\ a.to = "list" => a.value \subseteq Experiments
         /\ ~a.failed /\ a.to = "details" => a.value \in Details
         /\ ~a.failed /\ a.to \in {"create", "delete"} => a.value \in Experiments
         /\ ~a.failed /\ a.to = "run" => a.value \in Runs
BY DEF Answer, Requests

LEMMA ReplyType ==
  ASSUME ChainTypes, PanelTypes, NEW q, NEW answer \in Answer, Reply(q, answer)
  PROVE  ChainTypes' /\ PanelTypes'
BY DEF Reply, ChainTypes, PanelTypes, panel

LEMMA ServeType ==
  ASSUME TypeOK, Parsed, ServeRequest \/ RefuseRequest PROVE TypeOK'
<1>1. ServerTypes /\ PanelTypes /\ ChainTypes /\ InspectionTypes
      /\ removed \subseteq Experiments
  BY TypeParts
<1>2. ASSUME NEW q, NEW answer \in Answer, Reply(q, answer), ServerTypes'
      PROVE  TypeOK'
  <2>1. ChainTypes' /\ PanelTypes' BY <1>1, <1>2, ReplyType
  <2>2. InspectionTypes' /\ removed' \subseteq Experiments
    BY <1>1, <1>2 DEF Reply, inspection, InspectionTypes
  <2> QED BY <1>2, <2>1, <2>2
          DEF TypeOK, ServerTypes, PanelTypes, ChainTypes, InspectionTypes
<1>3. ASSUME UNCHANGED server PROVE ServerTypes'
  BY <1>1, <1>3, ServerType
<1>4. ASSUME NEW q \in Requests, NEW v, Read(q, v),
             [to |-> q, failed |-> FALSE, value |-> v] \in Answer
      PROVE  TypeOK'
  <2>1. Reply(q, [to |-> q, failed |-> FALSE, value |-> v]) /\ UNCHANGED server
    BY <1>4 DEF Read
  <2>2. ServerTypes' BY <1>3, <2>1
  <2> QED BY <1>2, <1>4, <2>1, <2>2
<1>5. ASSUME NEW q \in Requests, NEW effect, NEW v,
             \/ Reply(q, [to |-> q, failed |-> FALSE, value |-> v])
             \/ Reply(q, [to |-> q, failed |-> TRUE]),
             ServerTypes',
             [to |-> q, failed |-> FALSE, value |-> v] \in Answer
      PROVE  TypeOK'
  <2>1. [to |-> q, failed |-> TRUE] \in Answer BY DEF Answer
  <2> QED BY <1>2, <1>5, <2>1
<1>6. CASE Read("list", stored)
  <2>1. [to |-> "list", failed |-> FALSE, value |-> stored] \in Answer
    BY <1>1 DEF Answer, ServerTypes
  <2> QED BY <1>4, <1>6, <2>1 DEF Requests
<1>7. CASE /\ target \in stored
           /\ Read("details", [id |-> target, form |-> formOf[target],
                               runs |-> runsOf[target]])
  <2> DEFINE d == [id |-> target, form |-> formOf[target], runs |-> runsOf[target]]
  <2>1. d \in Details BY <1>1, <1>7 DEF Details, ServerTypes
  <2> HIDE DEF d
  <2>2. [to |-> "details", failed |-> FALSE, value |-> d] \in Answer
    BY <2>1 DEF Answer
  <2>3. Read("details", d) BY <1>7 DEF d
  <2> QED BY <1>4, <2>2, <2>3 DEF Requests
<1>8. CASE "create" \in asked /\ Write("create", Create(form), made + 1)
  <2>1. Create(form) /\ form \in Forms BY <1>8 DEF Write, Parsed
  <2>2. ServerTypes' BY <1>1, <2>1, ServerType
  <2>3. made + 1 \in Experiments
    BY <1>1, <2>1, RunClientConstants DEF Create, ServerTypes, Experiments
  <2>4. [to |-> "create", failed |-> FALSE, value |-> made + 1] \in Answer
    BY <2>3 DEF Answer
  <2> QED BY <1>5, <1>8, <2>2, <2>4 DEF Write, Requests
<1>9. CASE "run" \in asked /\ Write("run", RunOn(target), lastRun + 1)
  <2>1. RunOn(target) /\ target \in Experiments
    BY <1>1, <1>9 DEF Write, RunOn, ServerTypes
  <2>2. ServerTypes' BY <1>1, <2>1, ServerType
  <2>3. lastRun + 1 \in Runs
    BY <1>1, <2>1, RunClientConstants DEF RunOn, ServerTypes, Runs
  <2>4. [to |-> "run", failed |-> FALSE, value |-> lastRun + 1] \in Answer
    BY <2>3 DEF Answer
  <2> QED BY <1>5, <1>9, <2>2, <2>4 DEF Write, Requests
<1>10. CASE "delete" \in asked /\ Write("delete", Delete(target), target)
  <2>1. Delete(target) /\ target \in Experiments
    BY <1>1, <1>10 DEF Write, Delete, ServerTypes
  <2>2. ServerTypes' BY <1>1, <2>1, ServerType
  <2>3. [to |-> "delete", failed |-> FALSE, value |-> target] \in Answer
    BY <2>1 DEF Answer
  <2> QED BY <1>5, <1>10, <2>2, <2>3 DEF Write, Requests
<1>11. CASE RefuseRequest
  <2>1. PICK q \in asked : Reply(q, [to |-> q, failed |-> TRUE]) /\ UNCHANGED server
    BY <1>11 DEF RefuseRequest
  <2>2. q \in Requests BY <1>1 DEF ChainTypes
  <2>3. [to |-> q, failed |-> TRUE] \in Answer BY <2>2 DEF Answer
  <2> QED BY <1>2, <1>3, <2>1, <2>3
<1> QED BY <1>6, <1>7, <1>8, <1>9, <1>10, <1>11 DEF ServeRequest

LEMMA UserType ==
  ASSUME TypeOK, User \/ Checked PROVE TypeOK'
<1>1. 0 \in 0..MaxRuns /\ 0 \in 0..MaxExperiments BY RunClientConstants
<1>2. ASSUME NEW what \in {"open", "remove", "execute"},
             NEW e \in 0..MaxExperiments, NEW q \in Requests, Begin(what, e, q)
      PROVE  TypeOK'
  BY <1>1, <1>2 DEF Begin, Unmount, TypeOK, server
<1>3. ASSUME NEW e \in Experiments, OpenExperiment(e) \/ RemoveExperiment(e)
      PROVE  TypeOK'
  <2>1. e \in 0..MaxExperiments BY RunClientConstants DEF Experiments
  <2> QED BY <1>2, <1>3, <2>1 DEF OpenExperiment, RemoveExperiment, Requests
<1>4. CASE Execute
  <2>1. selected # None => selected.id \in 0..MaxExperiments
    BY DetailsType, RunClientConstants DEF TypeOK, Experiments
  <2> QED BY <1>1, <1>2, <1>4, <2>1 DEF Execute, Requests
<1>5. CASE RejectPayload
  BY <1>5 DEF RejectPayload, TypeOK, server, chain, inspection
<1>6. ASSUME NEW f \in Forms \cup {Unparsable}, Choose(f) PROVE TypeOK'
  BY <1>1, <1>6 DEF Choose, Fork, Unmount, TypeOK, server, chain
<1>7. CASE Check BY <1>7 DEF Check, TypeOK, server, panel, chain
<1>8. CASE Checked
  BY <1>1, <1>8 DEF Checked, TypeOK, server, panel, chain
<1> QED BY <1>3, <1>4, <1>5, <1>6, <1>7, <1>8 DEF User

(* What is removed is an experiment.                                       *)
RemoveNamed == doing = "remove" => target \in Experiments

LEMMA ArriveType ==
  ASSUME TypeOK, RemoveNamed, Arrive PROVE TypeOK'
<1>1. 0 \in 0..MaxRuns /\ 0 \in 0..MaxExperiments BY RunClientConstants
<1>2. CASE LoadList
  <2>1. PICK L \in SUBSET Experiments :
          /\ list' = L
          /\ IF L = {} THEN Finish
                       ELSE /\ target' = Newest(L)
                            /\ Ask({"details"})
                            /\ UNCHANGED <<doing, ran>>
    BY <1>2 DEF LoadList
  <2>2. Newest(L) \in 0..MaxExperiments
    BY NewestType, RunClientConstants DEF Experiments
  <2> QED BY <1>1, <1>2, <2>1, <2>2
          DEF LoadList, Finish, Ask, TypeOK, Requests, server, inspection
<1>3. CASE ShowDetails
  <2>1. PICK a \in told : a.to = "details" /\ ~a.failed /\ SelectDetails(a.value)
    BY <1>3 DEF ShowDetails
  <2>2. a.value \in Details BY <2>1, AnswerType DEF TypeOK
  <2>3. a.value.form \in Forms /\ Newest(a.value.runs) \in 0..MaxRuns
    BY <2>2, DetailsType
  <2> QED BY <1>1, <1>3, <2>1, <2>2, <2>3
          DEF ShowDetails, SelectDetails, Finish, Ask, TypeOK, server, inspection
<1>4. CASE Deleted
  BY <1>4 DEF Deleted, Ask, TypeOK, Requests, RemoveNamed, server, panel, inspection
<1>5. CASE ShowRemaining
  <2>1. PICK L \in SUBSET Experiments : Told("list", L) /\ list' = L
    BY <1>5 DEF ShowRemaining
  <2>2. target \in Experiments BY <1>5 DEF ShowRemaining, RemoveNamed
  <2> QED BY <1>1, <1>5, <2>1, <2>2
          DEF ShowRemaining, DropSelected, Finish, Ask, TypeOK, server, inspection
<1>6. CASE Created
  <2>1. PICK e \in Experiments : target' = e BY <1>6 DEF Created
  <2>2. e \in 0..MaxExperiments BY RunClientConstants DEF Experiments
  <2> QED BY <1>6, <2>1, <2>2
          DEF Created, Ask, TypeOK, Requests, server, panel, inspection
<1>7. CASE Ran
  <2>1. PICK r \in Runs : ran' = r BY <1>7 DEF Ran
  <2>2. r \in 0..MaxRuns BY RunClientConstants DEF Runs
  <2> QED BY <1>7, <2>1, <2>2
          DEF Ran, Ask, TypeOK, Requests, server, panel, inspection
<1>8. CASE ShowRun
  <2>1. PICK a, b \in told : /\ a.to = "details" /\ ~a.failed
                             /\ b.to = "list" /\ ~b.failed
                             /\ selected' = a.value
                             /\ list' = b.value
    BY <1>8 DEF ShowRun
  <2>2. a.value \in Details /\ b.value \subseteq Experiments
    BY <2>1, AnswerType DEF TypeOK
  <2> QED BY <1>1, <1>8, <2>1, <2>2
          DEF ShowRun, Finish, Ask, TypeOK, server, inspection
<1>9. CASE Report
  BY <1>1, <1>9 DEF Report, Finish, Ask, TypeOK, server, inspection
<1> QED BY <1>2, <1>3, <1>4, <1>5, <1>6, <1>7, <1>8, <1>9 DEF Arrive
-----------------------------------------------------------------------------
(* The invariant.                                                          *)

Made == 1..made

ServerInv == stored \subseteq Made /\ removed \subseteq Made /\ removed \cap stored = {}

PanelInv ==
  /\ selected # None => /\ selected.id \in Made
                        /\ selected.form = formOf[selected.id]
                        /\ form = selected.form
  /\ latest # 0 => selected # None /\ latest \in selected.runs

InspectionInv == /\ InspectionIsOwn
                 /\ doing # "idle" => checking = 0 /\ execution = 0

(* What a chain is about, and what it has asked for.                       *)
ChainInv ==
  /\ doing = "idle" => asked = {} /\ told = {}
  /\ doing = "execute" /\ target # 0 => target \in Made /\ formOf[target] = form
  /\ ran # 0 => /\ doing = "execute" /\ target # 0
                /\ target \in stored => ran \in runsOf[target]
  /\ doing = "execute" /\ "details" \in asked => ran # 0
  /\ "create" \in asked => doing = "execute" /\ target = 0 /\ form \in Forms
  /\ doing = "remove" /\ "list" \in asked => target \in removed
  /\ doing = "remove" => target \in Experiments

(* An answer, from when it was given until it is used.                     *)
Fact(a) ==
  /\ a.to = "details" =>
       /\ a.value.id = target /\ target \in Made /\ target \notin removed
       /\ a.value.form = formOf[target]
       /\ doing = "execute" => ran # 0 /\ ran \in a.value.runs
  /\ a.to = "list" =>
       /\ a.value \cap removed = {}
       /\ doing = "remove" => target \in removed
  /\ a.to = "create" => /\ doing = "execute" /\ target = 0
                        /\ a.value \in Made /\ formOf[a.value] = form
  /\ a.to = "run" => /\ target \in Made
                     /\ target \in stored => a.value \in runsOf[target]
  /\ a.to = "delete" => a.value \in Made /\ a.value \notin stored

ToldInv == \A a \in told : ~a.failed => Fact(a)

WorkspaceInv == /\ TypeOK /\ ServerInv /\ PanelInv /\ InspectionInv
                /\ ChainInv /\ ToldInv

(* What the coordinator does to the experiments there are.                 *)
Forward == /\ made <= made' /\ made' \in Nat
           /\ stored' \subseteq 1..made'
           /\ \A e \in Made : e \in stored' => e \in stored
           /\ \A e \in Made : formOf'[e] = formOf[e]
           /\ \A e \in Made : e \in stored' => runsOf[e] \subseteq runsOf'[e]

LEMMA MadeType == ASSUME TypeOK PROVE made \in Nat /\ Made \subseteq Experiments /\ 0 \notin Made
BY RunClientConstants DEF TypeOK, Made, Experiments

LEMMA MovesForward ==
  ASSUME TypeOK, ServerInv,
         \/ \E f : Create(f)
         \/ \E e \in Experiments : RunOn(e) \/ Delete(e)
         \/ \E r \in Runs : SubmitForReview(r)
         \/ UNCHANGED server
  PROVE  Forward
<1>1. made \in Nat /\ Made \subseteq Experiments BY MadeType
<1>2. ASSUME NEW f, Create(f) PROVE Forward
  <2>1. /\ made' = made + 1
        /\ stored' = stored \cup {made + 1}
        /\ formOf' = [formOf EXCEPT ![made + 1] = f]
        /\ runsOf' = runsOf
    BY <1>2 DEF Create
  <2>2. made + 1 \notin Made /\ \A e \in Made : e \in 1..made' BY <1>1, <2>1 DEF Made
  <2>3. \A e \in Made : formOf'[e] = formOf[e]
    BY <1>1, <2>1, <2>2 DEF TypeOK
  <2>4. stored' \subseteq 1..made' BY <1>1, <2>1, <2>2 DEF ServerInv
  <2> QED BY <1>1, <2>1, <2>2, <2>3, <2>4 DEF Forward
<1>3. ASSUME NEW e \in Experiments, RunOn(e) PROVE Forward
  <2>1. /\ made' = made /\ stored' = stored /\ formOf' = formOf
        /\ runsOf' = [runsOf EXCEPT ![e] = @ \cup {lastRun + 1}]
    BY <1>3 DEF RunOn
  <2>2. \A d \in Made : runsOf[d] \subseteq runsOf'[d]
    BY <1>1, <2>1 DEF TypeOK
  <2> QED BY <1>1, <2>1, <2>2 DEF Forward, ServerInv, Made
<1>4. ASSUME NEW e \in Experiments, Delete(e) PROVE Forward
  <2>1. /\ made' = made /\ stored' = stored \ {e} /\ formOf' = formOf
        /\ runsOf' = [runsOf EXCEPT ![e] = {}]
    BY <1>4 DEF Delete
  <2>2. \A d \in Made : d # e => runsOf'[d] = runsOf[d]
    BY <1>1, <2>1 DEF TypeOK
  <2>3. \A d \in Made : d \in stored' => runsOf[d] \subseteq runsOf'[d]
    BY <2>1, <2>2
  <2>4. stored' \subseteq 1..made' BY <2>1 DEF ServerInv, Made
  <2> QED BY <1>1, <2>1, <2>3, <2>4 DEF Forward
<1>5. ASSUME (\E r \in Runs : SubmitForReview(r)) \/ UNCHANGED server PROVE Forward
  <2>1. UNCHANGED <<made, stored, formOf, runsOf>> BY <1>5 DEF SubmitForReview, server
  <2> QED BY <1>1, <2>1 DEF Forward, ServerInv, Made
<1> QED BY <1>2, <1>3, <1>4, <1>5

LEMMA ForwardKeeps ==
  ASSUME WorkspaceInv, Forward,
         UNCHANGED <<panel, inspection, doing, target, ran, removed>>,
         asked' \subseteq asked, doing = "idle" => told' = told
  PROVE  /\ ServerInv' /\ PanelInv' /\ InspectionInv' /\ ChainInv'
         /\ \A a : Fact(a) => Fact(a)'
<1> USE DEF WorkspaceInv
<1>1. made \in Nat /\ Made \subseteq Experiments /\ 0 \notin Made BY MadeType
<1>2. \A e \in Made : e \in Made' BY <1>1 DEF Forward, Made
<1>3. UNCHANGED <<form, list, selected, latest, checking, execution, doing, target,
                  ran, removed>>
  BY DEF panel, inspection
<1>4. ServerInv' BY <1>2, <1>3 DEF ServerInv, Forward, Made
<1>5. PanelInv' BY <1>2, <1>3 DEF PanelInv, Forward
<1>6. InspectionInv' BY <1>3 DEF InspectionInv, InspectionIsOwn
<1>7. ChainInv' BY <1>2, <1>3 DEF ChainInv, Forward
<1>8. ASSUME NEW a, Fact(a) PROVE Fact(a)'
  <2>1. a.to = "details" =>
         /\ a.value.id = target' /\ target' \in Made' /\ target' \notin removed'
         /\ a.value.form = formOf'[target']
         /\ doing' = "execute" => ran' # 0 /\ ran' \in a.value.runs
    BY <1>2, <1>3, <1>8 DEF Fact, Forward
  <2>2. a.to = "list" =>
         /\ a.value \cap removed' = {}
         /\ doing' = "remove" => target' \in removed'
    BY <1>2, <1>3, <1>8 DEF Fact, Forward
  <2>3. a.to = "create" => /\ doing' = "execute" /\ target' = 0
                           /\ a.value \in Made' /\ formOf'[a.value] = form'
    BY <1>2, <1>3, <1>8 DEF Fact, Forward
  <2>4. a.to = "run" => /\ target' \in Made'
                        /\ target' \in stored' => a.value \in runsOf'[target']
    BY <1>2, <1>3, <1>8 DEF Fact, Forward
  <2>5. a.to = "delete" => a.value \in Made' /\ a.value \notin stored'
    BY <1>2, <1>3, <1>8 DEF Fact, Forward
  <2> QED BY <2>1, <2>2, <2>3, <2>4, <2>5 DEF Fact
<1> QED BY <1>4, <1>5, <1>6, <1>7, <1>8
-----------------------------------------------------------------------------
(* The steps of the coordinator.                                           *)
LEMMA OthersStep ==
  ASSUME WorkspaceInv, Others PROVE WorkspaceInv'
<1> USE DEF WorkspaceInv
<1>1. \/ \E f \in Forms : Create(f)
      \/ \E e \in Experiments : RunOn(e) \/ Delete(e)
      \/ \E r \in Runs : SubmitForReview(r)
  BY DEF Others
<1>2. UNCHANGED <<panel, doing, target, ran, asked, told, inspection, removed>>
  BY DEF Others, chain
<1>3. Forward BY <1>1, MovesForward
<1>4. /\ ServerInv' /\ PanelInv' /\ InspectionInv' /\ ChainInv'
      /\ \A a : Fact(a) => Fact(a)'
  BY <1>2, <1>3, ForwardKeeps
<1>5. ToldInv' BY <1>2, <1>4 DEF ToldInv
<1>6. ServerTypes' BY <1>1, ServerType DEF TypeOK, ServerTypes
<1>7. TypeOK' BY <1>2, <1>6 DEF TypeOK, ServerTypes, panel, inspection
<1> QED BY <1>4, <1>5, <1>7

LEMMA ServeStep ==
  ASSUME WorkspaceInv, ServeRequest \/ RefuseRequest PROVE WorkspaceInv'
<1> USE DEF WorkspaceInv
<1>1. made \in Nat /\ Made \subseteq Experiments /\ 0 \notin Made BY MadeType
<1>2. TypeOK' BY ServeType DEF ChainInv, Parsed
<1>3. ASSUME NEW q, NEW answer, Reply(q, answer), Forward,
             ~answer.failed => Fact(answer)'
      PROVE  WorkspaceInv'
  <2>1. /\ q \in asked /\ asked' = asked \ {q} /\ told' = told \cup {answer}
        /\ UNCHANGED <<panel, doing, target, ran, inspection, removed>>
    BY <1>3 DEF Reply
  <2>2. doing # "idle" BY <2>1 DEF ChainInv
  <2>3. asked' \subseteq asked BY <2>1
  <2>4. /\ ServerInv' /\ PanelInv' /\ InspectionInv' /\ ChainInv'
        /\ \A a : Fact(a) => Fact(a)'
    BY <1>3, <2>1, <2>2, <2>3, ForwardKeeps
  <2>5. ToldInv' BY <1>3, <2>1, <2>4 DEF ToldInv
  <2> QED BY <1>2, <2>4, <2>5
<1>4. ASSUME NEW q, NEW v,
             \/ Reply(q, [to |-> q, failed |-> FALSE, value |-> v])
             \/ Reply(q, [to |-> q, failed |-> TRUE]),
             Forward,
             Fact([to |-> q, failed |-> FALSE, value |-> v])'
      PROVE  WorkspaceInv'
  BY <1>3, <1>4
<1>5. CASE Read("list", stored)
  <2>1. PICK v : v = stored OBVIOUS
  <2>2. /\ Reply("list", [to |-> "list", failed |-> FALSE, value |-> v])
        /\ UNCHANGED server
    BY <1>5, <2>1 DEF Read
  <2>3. Forward BY <2>2, MovesForward
  <2>4. /\ "list" \in asked
        /\ UNCHANGED <<panel, doing, target, ran, inspection, removed>>
    BY <2>2 DEF Reply
  <2>5. /\ v \cap removed = {}
        /\ doing = "remove" => target \in removed
    BY <2>1, <2>4 DEF ChainInv, ServerInv
  <2>6. made' = made /\ stored' = stored BY <2>2 DEF server
  <2>7. Fact([to |-> "list", failed |-> FALSE, value |-> v])'
    BY <2>1, <2>4, <2>5, <2>6 DEF Fact, Made
  <2> QED BY <1>4, <2>2, <2>3, <2>7
<1>6. CASE /\ target \in stored
           /\ Read("details", [id |-> target, form |-> formOf[target],
                               runs |-> runsOf[target]])
  <2>1. PICK d : d = [id |-> target, form |-> formOf[target], runs |-> runsOf[target]]
    OBVIOUS
  <2>2. /\ Reply("details", [to |-> "details", failed |-> FALSE, value |-> d])
        /\ UNCHANGED server
    BY <1>6, <2>1 DEF Read
  <2>3. Forward BY <2>2, MovesForward
  <2>4. /\ "details" \in asked
        /\ UNCHANGED <<panel, doing, target, ran, inspection, removed>>
    BY <2>2 DEF Reply
  <2>5. target \in Made /\ target \notin removed BY <1>6 DEF ServerInv
  <2>6. doing = "execute" => ran # 0 /\ ran \in runsOf[target]
    BY <1>6, <2>4 DEF ChainInv
  <2>7. UNCHANGED <<made, formOf>> BY <2>2 DEF server
  <2>8. d.id = target /\ d.form = formOf[target] /\ d.runs = runsOf[target]
    BY <2>1
  <2>9. Fact([to |-> "details", failed |-> FALSE, value |-> d])'
    BY <2>4, <2>5, <2>6, <2>7, <2>8 DEF Fact, Made
  <2> QED BY <1>4, <2>2, <2>3, <2>9
<1>7. CASE "create" \in asked /\ Write("create", Create(form), made + 1)
  <2>1. PICK v : v = made + 1 OBVIOUS
  <2>2. /\ Create(form)
        /\ \/ Reply("create", [to |-> "create", failed |-> FALSE, value |-> v])
           \/ Reply("create", [to |-> "create", failed |-> TRUE])
    BY <1>7, <2>1 DEF Write
  <2>3. Forward BY <2>2, MovesForward
  <2>4. doing = "execute" /\ target = 0 BY <1>7 DEF ChainInv
  <2>5. UNCHANGED <<form, doing, target>> BY <2>2 DEF Reply, panel
  <2>6. made' = made + 1 /\ formOf' = [formOf EXCEPT ![v] = form]
        /\ v \in Experiments
    BY <1>1, <2>1, <2>2, RunClientConstants DEF Create, Experiments
  <2>7. v \in Made' /\ formOf'[v] = form'
    BY <1>1, <2>1, <2>5, <2>6 DEF Made, TypeOK
  <2>8. Fact([to |-> "create", failed |-> FALSE, value |-> v])'
    BY <2>4, <2>5, <2>7 DEF Fact
  <2> QED BY <1>4, <2>2, <2>3, <2>8
<1>8. CASE "run" \in asked /\ Write("run", RunOn(target), lastRun + 1)
  <2>1. PICK v : v = lastRun + 1 OBVIOUS
  <2>2. /\ RunOn(target)
        /\ \/ Reply("run", [to |-> "run", failed |-> FALSE, value |-> v])
           \/ Reply("run", [to |-> "run", failed |-> TRUE])
    BY <1>8, <2>1 DEF Write
  <2>3. target \in Made BY <2>2 DEF RunOn, ServerInv
  <2>4. Forward BY <1>1, <2>2, <2>3, MovesForward
  <2>5. UNCHANGED target BY <2>2 DEF Reply
  <2>6. made' = made /\ v \in runsOf'[target]
    BY <1>1, <2>1, <2>2, <2>3 DEF RunOn, TypeOK
  <2>7. Fact([to |-> "run", failed |-> FALSE, value |-> v])'
    BY <2>3, <2>5, <2>6 DEF Fact, Made
  <2> QED BY <1>4, <2>2, <2>4, <2>7
<1>9. CASE "delete" \in asked /\ Write("delete", Delete(target), target)
  <2>1. PICK v : v = target OBVIOUS
  <2>2. /\ Delete(target)
        /\ \/ Reply("delete", [to |-> "delete", failed |-> FALSE, value |-> v])
           \/ Reply("delete", [to |-> "delete", failed |-> TRUE])
    BY <1>9, <2>1 DEF Write
  <2>3. target \in Made BY <2>2 DEF Delete, ServerInv
  <2>4. Forward BY <1>1, <2>2, <2>3, MovesForward
  <2>5. made' = made /\ v \notin stored' BY <2>1, <2>2 DEF Delete
  <2>6. Fact([to |-> "delete", failed |-> FALSE, value |-> v])'
    BY <2>1, <2>3, <2>5 DEF Fact, Made
  <2> QED BY <1>4, <2>2, <2>4, <2>6
<1>10. CASE RefuseRequest
  <2>1. PICK q \in asked : Reply(q, [to |-> q, failed |-> TRUE]) /\ UNCHANGED server
    BY <1>10 DEF RefuseRequest
  <2>2. Forward BY <2>1, MovesForward
  <2> QED BY <1>3, <2>1, <2>2
<1> QED BY <1>5, <1>6, <1>7, <1>8, <1>9, <1>10 DEF ServeRequest
-----------------------------------------------------------------------------
(* The steps of the user and of the page.                                  *)
LEMMA UserStep ==
  ASSUME WorkspaceInv, User \/ Checked PROVE WorkspaceInv'
<1> USE DEF WorkspaceInv
<1>1. TypeOK' BY UserType
<1>2. made \in Nat /\ Made \subseteq Experiments /\ 0 \notin Made BY MadeType
<1>3. ASSUME NEW what \in {"open", "remove", "execute"}, NEW e, NEW q,
             Begin(what, e, q),
             what = "execute" /\ e # 0 => e \in Made /\ formOf[e] = form,
             what = "execute" => q # "details",
             q = "create" => what = "execute" /\ e = 0 /\ form \in Forms,
             what = "remove" => q # "list" /\ e \in Experiments
      PROVE  WorkspaceInv'
  <2>1. /\ doing' = what /\ target' = e /\ ran' = 0 /\ asked' = {q} /\ told' = {}
        /\ checking' = 0 /\ execution' = 0
        /\ UNCHANGED <<server, form, list, selected, latest, removed>>
    BY <1>3 DEF Begin, Unmount
  <2>2. UNCHANGED <<made, stored, formOf, runsOf>> BY <2>1 DEF server
  <2>3. ServerInv' /\ PanelInv' BY <2>1, <2>2 DEF ServerInv, PanelInv, Made
  <2>4. InspectionInv' BY <2>1 DEF InspectionInv, InspectionIsOwn
  <2>5. ChainInv' BY <1>3, <2>1, <2>2 DEF ChainInv, Made
  <2>6. ToldInv' BY <2>1 DEF ToldInv
  <2> QED BY <1>1, <2>3, <2>4, <2>5, <2>6
<1>4. ASSUME NEW e \in Experiments, OpenExperiment(e) \/ RemoveExperiment(e)
      PROVE  WorkspaceInv'
  BY <1>3, <1>4 DEF OpenExperiment, RemoveExperiment
<1>5. CASE Execute
  <2>1. CASE selected = None
    <3>1. form \in Forms BY <1>5 DEF Execute, TypeOK
    <3> QED BY <1>3, <1>5, <2>1, <3>1 DEF Execute
  <2>2. CASE selected # None
    <3>1. selected.id \in Made /\ formOf[selected.id] = form
      BY <2>2 DEF PanelInv
    <3> QED BY <1>3, <1>5, <2>2, <3>1 DEF Execute
  <2> QED BY <2>1, <2>2
<1>6. ASSUME UNCHANGED <<server, form, list, selected, latest, chain, removed>>,
             checking' # 0 \/ execution' # 0 => doing = "idle",
             execution' # 0 => execution' = latest,
             checking' # 0 => checking' = latest
      PROVE  WorkspaceInv'
  <2>1. UNCHANGED <<made, stored, formOf, runsOf, doing, target, ran, asked, told>>
    BY <1>6 DEF server, chain
  <2>2. ServerInv' /\ PanelInv' BY <1>6, <2>1 DEF ServerInv, PanelInv, Made
  <2>3. InspectionInv' BY <1>6, <2>1 DEF InspectionInv, InspectionIsOwn
  <2>4. ChainInv' BY <1>6, <2>1 DEF ChainInv, Made
  <2>5. ToldInv' BY <1>6, <2>1 DEF ToldInv, Fact, Made
  <2> QED BY <1>1, <2>2, <2>3, <2>4, <2>5
<1>7. CASE RejectPayload
  BY <1>6, <1>7 DEF RejectPayload, inspection, InspectionInv, InspectionIsOwn
<1>8. ASSUME NEW f, Choose(f) PROVE WorkspaceInv'
  <2>1. /\ doing = "idle" /\ selected' = None /\ latest' = 0
        /\ checking' = 0 /\ execution' = 0
        /\ UNCHANGED <<server, list, chain, removed>>
    BY <1>8 DEF Choose, Fork, Unmount
  <2>2. UNCHANGED <<made, stored, formOf, runsOf, doing, target, ran, asked, told>>
    BY <2>1 DEF server, chain
  <2>3. asked = {} /\ told = {} BY <2>1 DEF ChainInv
  <2>4. ServerInv' /\ PanelInv' BY <2>1, <2>2 DEF ServerInv, PanelInv, Made
  <2>5. InspectionInv' BY <2>1 DEF InspectionInv, InspectionIsOwn
  <2>6. ChainInv' BY <2>1, <2>2, <2>3 DEF ChainInv, Made
  <2>7. ToldInv' BY <2>2, <2>3 DEF ToldInv
  <2> QED BY <1>1, <2>4, <2>5, <2>6, <2>7
<1>9. CASE Check
  BY <1>6, <1>9 DEF Check, panel, InspectionInv, InspectionIsOwn
<1>10. CASE Checked
  BY <1>6, <1>10 DEF Checked, panel, InspectionInv, InspectionIsOwn
<1> QED BY <1>4, <1>5, <1>7, <1>8, <1>9, <1>10 DEF User

(* The end of a chain: what is left is the panel.                          *)
LEMMA FinishStep ==
  ASSUME WorkspaceInv, TypeOK', doing # "idle", Finish,
         UNCHANGED <<server, inspection, removed>>, PanelInv'
  PROVE  WorkspaceInv'
<1> USE DEF WorkspaceInv
<1>1. /\ doing' = "idle" /\ target' = 0 /\ ran' = 0 /\ asked' = {} /\ told' = {}
  BY DEF Finish, Ask
<1>2. UNCHANGED <<made, stored, formOf, runsOf>> BY DEF server
<1>3. ServerInv' BY <1>2 DEF ServerInv, Made
<1>4. InspectionInv' BY <1>1 DEF InspectionInv, InspectionIsOwn, inspection
<1>5. ChainInv' BY <1>1 DEF ChainInv
<1>6. ToldInv' BY <1>1 DEF ToldInv
<1> QED BY <1>3, <1>4, <1>5, <1>6

(* The next request of a chain: the panel stays.                           *)
LEMMA AskStep ==
  ASSUME WorkspaceInv, TypeOK', NEW Q, Ask(Q), doing # "idle",
         UNCHANGED <<server, form, selected, latest, doing, inspection>>,
         \/ removed' = removed
         \/ /\ removed' = removed \cup {target}
            /\ target \in Made
            /\ target \notin stored,
         ChainInv'
  PROVE  WorkspaceInv'
<1> USE DEF WorkspaceInv
<1>1. told' = {} BY DEF Ask
<1>2. UNCHANGED <<made, stored, formOf, runsOf, checking, execution>>
  BY DEF server, inspection
<1>3. ServerInv' /\ PanelInv' BY <1>2 DEF ServerInv, PanelInv, Made
<1>4. InspectionInv' BY <1>2 DEF InspectionInv, InspectionIsOwn
<1>5. ToldInv' BY <1>1 DEF ToldInv
<1> QED BY <1>3, <1>4, <1>5

LEMMA ToldFact ==
  ASSUME WorkspaceInv, NEW q, NEW v, Told(q, v)
  PROVE  Fact([to |-> q, failed |-> FALSE, value |-> v])
BY DEF WorkspaceInv, ToldInv, Told

LEMMA ArriveStep ==
  ASSUME WorkspaceInv, Arrive PROVE WorkspaceInv'
<1> USE DEF WorkspaceInv
<1>1. TypeOK' BY ArriveType DEF ChainInv, RemoveNamed
<1>2. made \in Nat /\ Made \subseteq Experiments /\ 0 \notin Made BY MadeType
<1>3. CASE LoadList
  <2>1. PICK L \in SUBSET Experiments :
          /\ Told("list", L)
          /\ list' = L
          /\ IF L = {} THEN Finish
                       ELSE /\ target' = Newest(L)
                            /\ Ask({"details"})
                            /\ UNCHANGED <<doing, ran>>
    BY <1>3 DEF LoadList
  <2>2. /\ doing = "load"
        /\ UNCHANGED <<server, form, selected, latest, inspection, removed>>
    BY <1>3 DEF LoadList
  <2>3. L \cap removed = {} BY <2>1, ToldFact DEF Fact
  <2>4. CASE L = {}
    <3>1. Finish BY <2>1, <2>4
    <3>2. PanelInv' BY <2>1, <2>2, <2>3 DEF PanelInv, Made, server
    <3> QED BY <1>1, <2>2, <3>1, <3>2, FinishStep
  <2>5. CASE L # {}
    <3>1. Ask({"details"}) /\ UNCHANGED <<doing, ran>> BY <2>1, <2>5
    <3>2. ran = 0 BY <2>2 DEF ChainInv
    <3>3. ChainInv' BY <2>2, <3>1, <3>2 DEF ChainInv, Ask
    <3> QED BY <1>1, <2>1, <2>2, <2>3, <3>1, <3>3, AskStep
  <2> QED BY <2>4, <2>5
<1>4. CASE ShowDetails
  <2>1. PICK a \in told : a.to = "details" /\ ~a.failed /\ SelectDetails(a.value)
    BY <1>4 DEF ShowDetails
  <2>2. /\ doing # "idle" /\ Finish
        /\ UNCHANGED <<server, list, error, inspection, removed>>
    BY <1>4 DEF ShowDetails
  <2>3. Fact(a) BY <2>1 DEF ToldInv
  <2>4. a.value \in Details BY <2>1, AnswerType DEF TypeOK
  <2>5. /\ a.value.id \in Made /\ a.value.id \notin removed
        /\ a.value.form = formOf[a.value.id]
    BY <2>1, <2>3 DEF Fact
  <2>6. Newest(a.value.runs) # 0 => Newest(a.value.runs) \in a.value.runs
    <3>1. a.value.runs \subseteq 1..MaxRuns BY <2>4, DetailsType DEF Runs
    <3> QED BY <3>1, NewestType, RunClientConstants DEF Newest
  <2>7. /\ selected' = a.value /\ form' = a.value.form
        /\ latest' = Newest(a.value.runs)
    BY <2>1 DEF SelectDetails
  <2>8. a.value # None BY <2>4, DetailsNotNone
  <2>9. PanelInv'
    BY <2>2, <2>5, <2>6, <2>7, <2>8 DEF PanelInv, Made, server
  <2> QED BY <1>1, <2>2, <2>9, FinishStep
<1>5. CASE Deleted
  <2>1. /\ doing = "remove" /\ Told("delete", target) /\ Ask({"list"})
        /\ removed' = removed \cup {target}
        /\ UNCHANGED <<server, panel, doing, target, ran, inspection>>
    BY <1>5 DEF Deleted
  <2>2. target \in Made /\ target \notin stored BY <2>1, ToldFact DEF Fact
  <2>3. ran = 0 BY <2>1 DEF ChainInv
  <2>4. ChainInv'
    BY <1>2, <2>1, <2>2, <2>3 DEF ChainInv, Ask, server, Made
  <2> QED BY <1>1, <2>1, <2>2, <2>4, AskStep DEF panel
<1>6. CASE ShowRemaining
  <2>1. PICK L \in SUBSET Experiments : Told("list", L) /\ list' = L
    BY <1>6 DEF ShowRemaining
  <2>2. /\ doing = "remove" /\ Finish /\ DropSelected
        /\ UNCHANGED <<server, form, inspection, removed>>
    BY <1>6 DEF ShowRemaining
  <2>3. PanelInv' BY <2>2 DEF PanelInv, DropSelected, Made, server
  <2> QED BY <1>1, <2>2, <2>3, FinishStep
<1>7. CASE Created
  <2>1. PICK e \in Experiments : Told("create", e) /\ target' = e
    BY <1>7 DEF Created
  <2>2. /\ doing = "execute" /\ Ask({"run"})
        /\ UNCHANGED <<server, panel, doing, ran, inspection, removed>>
    BY <1>7 DEF Created
  <2>3. target = 0 /\ e \in Made /\ formOf[e] = form BY <2>1, ToldFact DEF Fact
  <2>4. ran = 0 BY <2>3 DEF ChainInv
  <2>5. ChainInv'
    BY <2>1, <2>2, <2>3, <2>4 DEF ChainInv, Ask, server, panel, Made
  <2> QED BY <1>1, <2>2, <2>5, AskStep DEF panel, PanelInv
<1>8. CASE Ran
  <2>1. PICK r \in Runs : Told("run", r) /\ ran' = r BY <1>8 DEF Ran
  <2>2. /\ doing = "execute" /\ Ask({"details", "list"})
        /\ UNCHANGED <<server, panel, doing, target, inspection, removed>>
    BY <1>8 DEF Ran
  <2>3. target \in Made /\ (target \in stored => r \in runsOf[target])
    BY <2>1, ToldFact DEF Fact
  <2>4. r # 0 BY DEF Runs
  <2>5. ChainInv'
    BY <1>2, <2>1, <2>2, <2>3, <2>4 DEF ChainInv, Ask, server, panel, Made
  <2> QED BY <1>1, <2>2, <2>5, AskStep DEF panel, PanelInv
<1>9. CASE ShowRun
  <2>1. PICK a, b \in told : /\ a.to = "details" /\ ~a.failed
                             /\ b.to = "list" /\ ~b.failed
                             /\ selected' = a.value
                             /\ list' = b.value
    BY <1>9 DEF ShowRun
  <2>2. /\ doing = "execute" /\ Finish /\ latest' = ran
        /\ UNCHANGED <<server, form, inspection, removed>>
    BY <1>9 DEF ShowRun
  <2>3. Fact(a) /\ Fact(b) BY <2>1 DEF ToldInv
  <2>4. /\ a.value.id = target /\ target \in Made /\ target \notin removed
        /\ a.value.form = formOf[target] /\ ran # 0 /\ ran \in a.value.runs
        /\ b.value \cap removed = {}
    BY <2>1, <2>2, <2>3 DEF Fact
  <2>5. formOf[target] = form BY <1>2, <2>2, <2>4 DEF ChainInv
  <2>6. a.value # None
    BY <2>1, AnswerType, DetailsNotNone DEF TypeOK
  <2>7. PanelInv'
    BY <2>1, <2>2, <2>4, <2>5, <2>6 DEF PanelInv, Made, server
  <2> QED BY <1>1, <2>2, <2>7, FinishStep
<1>10. CASE Report
  <2>1. /\ Finish /\ told # {}
        /\ UNCHANGED <<server, form, list, selected, latest, inspection, removed>>
    BY <1>10 DEF Report
  <2>2. doing # "idle" BY <2>1 DEF ChainInv
  <2>3. PanelInv' BY <2>1 DEF PanelInv, Made, server
  <2> QED BY <1>1, <2>1, <2>2, <2>3, FinishStep
<1> QED BY <1>3, <1>4, <1>5, <1>6, <1>7, <1>8, <1>9, <1>10 DEF Arrive

LEMMA WorkspaceStep == WorkspaceInv /\ [Next]_vars => WorkspaceInv'
<1> SUFFICES ASSUME WorkspaceInv, [Next]_vars PROVE WorkspaceInv' OBVIOUS
<1>1. CASE UNCHANGED vars
  <2>1. UNCHANGED <<made, stored, formOf, runsOf, lastRun, submitted, form, list,
                    selected, latest, error, doing, target, ran, asked, told,
                    checking, execution, removed>>
    BY <1>1 DEF vars, server, panel, chain, inspection
  <2>2. TypeOK' BY <2>1 DEF WorkspaceInv, TypeOK
  <2>3. ServerInv' /\ PanelInv' /\ InspectionInv' /\ ChainInv'
    BY <2>1 DEF WorkspaceInv, ServerInv, PanelInv, InspectionInv,
                InspectionIsOwn, ChainInv, Made
  <2>4. ToldInv' BY <2>1 DEF WorkspaceInv, ToldInv, Fact, Made
  <2> QED BY <2>2, <2>3, <2>4 DEF WorkspaceInv
<1> QED BY <1>1, OthersStep, ServeStep, UserStep, ArriveStep DEF Next, Answered

LEMMA WorkspaceInit == Init => WorkspaceInv
<1> SUFFICES ASSUME Init PROVE WorkspaceInv OBVIOUS
<1>1. /\ 0 \in 0..MaxExperiments /\ 0 \in 0..MaxRuns BY RunClientConstants
<1>2. TypeOK BY <1>1 DEF Init, TypeOK, Requests
<1>3. ServerInv /\ PanelInv /\ InspectionInv /\ ChainInv /\ ToldInv
  BY DEF Init, ServerInv, PanelInv, InspectionInv, InspectionIsOwn, ChainInv,
         ToldInv, Made
<1> QED BY <1>2, <1>3 DEF WorkspaceInv

(* The invariant behind what the workspace shows (App.tsx).                *)
THEOREM WorkspaceInvariant == Spec => []WorkspaceInv
BY WorkspaceInit, WorkspaceStep, PTL DEF Spec

(* Every variable keeps its type.                                          *)
THEOREM WorkspaceTypeCorrect == Spec => []TypeOK
<1>1. WorkspaceInv => TypeOK BY DEF WorkspaceInv
<1> QED BY <1>1, WorkspaceInvariant, PTL

(* The receipt shown belongs to the selected experiment, the form is its,  *)
(* and the execution shown is that of the receipt.                         *)
THEOREM ThePanelAgrees == Spec => []PanelAgrees
<1>1. WorkspaceInv => PanelAgrees
  BY DEF WorkspaceInv, PanelInv, InspectionInv, PanelAgrees, ReceiptIsSelected
<1> QED BY <1>1, WorkspaceInvariant, PTL

(* What is read is free of what was deleted when it is shown.              *)
LEMMA ReadsAreFree ==
  ASSUME WorkspaceInv, NEW a \in told, ~a.failed
  PROVE  /\ a.to = "list" => a.value \cap removed = {}
         /\ a.to = "details" => a.value.id \notin removed
         /\ a.to = "list" /\ doing = "remove" => target \in removed
BY DEF WorkspaceInv, ToldInv, Fact

(* What a step may do to an experiment whose deletion was confirmed.       *)
KeepsGone ==
  /\ list' # list => list' \cap removed = {}
  /\ selected' # selected /\ selected' # None => selected'.id \notin removed
  /\ (doing = "remove" /\ doing' = "idle" /\ ~error') =>
       /\ target \notin list'
       /\ selected' # None => selected'.id # target

LEMMA ArriveKeepsGone ==
  ASSUME WorkspaceInv, Arrive PROVE KeepsGone
<1>1. CASE LoadList
  <2>1. PICK L \in SUBSET Experiments : Told("list", L) /\ list' = L
    BY <1>1 DEF LoadList
  <2>2. L \cap removed = {}
    BY <2>1, ToldFact DEF Fact
  <2> QED BY <1>1, <2>1, <2>2 DEF LoadList, KeepsGone
<1>2. CASE ShowDetails
  <2>1. PICK a \in told : a.to = "details" /\ ~a.failed /\ SelectDetails(a.value)
    BY <1>2 DEF ShowDetails
  <2>2. a.value.id \notin removed BY <2>1, ReadsAreFree
  <2> QED BY <1>2, <2>1, <2>2 DEF ShowDetails, SelectDetails, KeepsGone
<1>3. CASE Deleted \/ Created \/ Ran
  BY <1>3 DEF Deleted, Created, Ran, panel, KeepsGone
<1>4. CASE ShowRemaining
  <2>1. PICK L \in SUBSET Experiments : Told("list", L) /\ list' = L
    BY <1>4 DEF ShowRemaining
  <2>2. doing = "remove" /\ DropSelected BY <1>4 DEF ShowRemaining
  <2>3. L \cap removed = {} /\ target \in removed
    BY <2>1, <2>2, ToldFact DEF Fact
  <2>4. selected' \in {None, selected} /\ (selected' # None => selected'.id # target)
    BY <2>2 DEF DropSelected
  <2> QED BY <2>1, <2>3, <2>4 DEF KeepsGone
<1>5. CASE ShowRun
  <2>1. PICK a, b \in told : /\ a.to = "details" /\ ~a.failed
                             /\ b.to = "list" /\ ~b.failed
                             /\ selected' = a.value
                             /\ list' = b.value
    BY <1>5 DEF ShowRun
  <2>2. b.value \cap removed = {} /\ a.value.id \notin removed
    BY <2>1, ReadsAreFree
  <2>3. doing = "execute" BY <1>5 DEF ShowRun
  <2> QED BY <2>1, <2>2, <2>3 DEF KeepsGone
<1>6. CASE Report
  BY <1>6 DEF Report, KeepsGone
<1> QED BY <1>1, <1>2, <1>3, <1>4, <1>5, <1>6 DEF Arrive

(* No late answer shows a deleted experiment again, and a deletion that    *)
(* ends without a reported failure has taken it off the page.              *)
THEOREM WhatIsRemovedStaysGone == Spec => RemovedStaysGone
<1>1. WorkspaceInv /\ [Next]_vars => [KeepsGone]_vars
  <2> SUFFICES ASSUME WorkspaceInv, Next PROVE KeepsGone OBVIOUS
  <2>1. ASSUME User \/ Checked \/ Others \/ Answered PROVE KeepsGone
    <3>1. CASE Others BY <3>1 DEF Others, panel, chain, KeepsGone
    <3>2. CASE Answered
      <4>1. PICK q, answer : Reply(q, answer)
        BY <3>2 DEF Answered, ServeRequest, RefuseRequest, Read, Write
      <4>2. UNCHANGED <<panel, doing>> BY <4>1 DEF Reply
      <4>3. UNCHANGED <<list, selected, doing>> BY <4>2 DEF panel
      <4> QED BY <4>3 DEF KeepsGone
    <3>3. CASE Checked BY <3>3 DEF Checked, panel, chain, KeepsGone
    <3>4. CASE User
      <4>1. ASSUME NEW what, NEW e, NEW q, Begin(what, e, q), doing = "idle"
            PROVE  KeepsGone
        BY <4>1 DEF Begin, KeepsGone
      <4>2. CASE RejectPayload BY <4>2 DEF RejectPayload, KeepsGone
      <4>3. CASE Check BY <4>3 DEF Check, panel, KeepsGone
      <4>4. ASSUME NEW f, Choose(f) PROVE KeepsGone
        BY <4>4 DEF Choose, Fork, KeepsGone
      <4> QED
        BY <3>4, <4>1, <4>2, <4>3, <4>4
           DEF User, OpenExperiment, RemoveExperiment, Execute
    <3> QED BY <2>1, <3>1, <3>2, <3>3, <3>4
  <2> QED BY <2>1, ArriveKeepsGone DEF Next
<1> QED
  BY <1>1, WorkspaceInvariant, PTL DEF Spec, RemovedStaysGone, KeepsGone
-----------------------------------------------------------------------------
(* What a chain waits for: requests on their way, and answers.             *)
Awaited == asked \cup {a.to : a \in told}

AwaitedFits ==
  /\ doing = "load" => Awaited \in {{"list"}, {"details"}}
  /\ doing = "open" => Awaited = {"details"}
  /\ doing = "remove" => Awaited \in {{"delete"}, {"list"}}
  /\ doing = "execute" => Awaited \in {{"create"}, {"run"}, {"details", "list"}}

DeleteAnswered == \A a \in told : a.to = "delete" /\ ~a.failed => a.value = target

AwaitInv == AwaitedFits /\ DeleteAnswered

(* The answers are there that let the page take a step of Arrive.          *)
Answerable ==
  \/ \E a \in told : a.failed
  \/ doing = "load" /\ \E L \in SUBSET Experiments : Told("list", L)
  \/ doing \in {"load", "open"} /\ \E a \in told : a.to = "details" /\ ~a.failed
  \/ doing = "remove" /\ \/ Told("delete", target)
                         \/ \E L \in SUBSET Experiments : Told("list", L)
  \/ doing = "execute" /\ \/ \E e \in Experiments : Told("create", e)
                          \/ \E r \in Runs : Told("run", r)
                          \/ \E a, b \in told : /\ a.to = "details" /\ ~a.failed
                                                /\ b.to = "list" /\ ~b.failed

ChainGoesOn == doing # "idle" => asked # {} \/ Answerable

LEMMA ReplyAwaits ==
  ASSUME AwaitInv, NEW q, NEW a, Reply(q, a), a.to = q,
         a.to = "delete" /\ ~a.failed => a.value = target
  PROVE  AwaitInv'
<1>1. /\ q \in asked /\ asked' = asked \ {q} /\ told' = told \cup {a}
      /\ UNCHANGED <<doing, target>>
  BY DEF Reply
<1>2. Awaited' = Awaited BY <1>1 DEF Awaited
<1>3. AwaitedFits' BY <1>1, <1>2 DEF AwaitInv, AwaitedFits
<1>4. DeleteAnswered' BY <1>1 DEF AwaitInv, DeleteAnswered
<1> QED BY <1>3, <1>4 DEF AwaitInv

LEMMA AnsweredAwaits ==
  ASSUME AwaitInv, Answered PROVE AwaitInv'
<1>1. ASSUME NEW q, Reply(q, [to |-> q, failed |-> TRUE]) PROVE AwaitInv'
  <2> DEFINE a == [to |-> q, failed |-> TRUE]
  <2>1. Reply(q, a) /\ a.to = q /\ a.failed BY <1>1
  <2> QED BY <2>1, ReplyAwaits
<1>2. ASSUME NEW q, NEW v, Reply(q, [to |-> q, failed |-> FALSE, value |-> v]),
             q = "delete" => v = target
      PROVE  AwaitInv'
  <2> DEFINE a == [to |-> q, failed |-> FALSE, value |-> v]
  <2>1. Reply(q, a) /\ a.to = q /\ (a.to = "delete" => a.value = target) BY <1>2
  <2> HIDE DEF a
  <2> QED BY <2>1, ReplyAwaits
<1>3. ASSUME NEW q, NEW effect, NEW v, Write(q, effect, v), q = "delete" => v = target
      PROVE  AwaitInv'
  BY <1>1, <1>2, <1>3 DEF Write
<1>4. CASE ServeRequest
  <2>1. CASE Read("list", stored) BY <1>2, <2>1 DEF Read
  <2>2. CASE Read("details", [id |-> target, form |-> formOf[target],
                              runs |-> runsOf[target]])
    BY <1>2, <2>2 DEF Read
  <2>3. CASE Write("create", Create(form), made + 1) BY <1>3, <2>3
  <2>4. CASE Write("run", RunOn(target), lastRun + 1) BY <1>3, <2>4
  <2>5. CASE Write("delete", Delete(target), target) BY <1>3, <2>5
  <2> QED BY <1>4, <2>1, <2>2, <2>3, <2>4, <2>5 DEF ServeRequest
<1> QED BY <1>1, <1>4 DEF Answered, RefuseRequest

LEMMA AwaitStep == AwaitInv /\ [Next]_vars => AwaitInv'
<1> SUFFICES ASSUME AwaitInv, [Next]_vars PROVE AwaitInv' OBVIOUS
<1>1. CASE UNCHANGED <<doing, target, asked, told>>
  BY <1>1 DEF AwaitInv, AwaitedFits, DeleteAnswered, Awaited
<1>2. ASSUME NEW Q, Ask(Q),
             doing' = "load" => Q \in {{"list"}, {"details"}},
             doing' = "open" => Q = {"details"},
             doing' = "remove" => Q \in {{"delete"}, {"list"}},
             doing' = "execute" => Q \in {{"create"}, {"run"}, {"details", "list"}}
      PROVE  AwaitInv'
  <2>1. asked' = Q /\ told' = {} BY <1>2 DEF Ask
  <2>2. Awaited' = Q BY <2>1 DEF Awaited
  <2>3. AwaitedFits' BY <1>2, <2>2 DEF AwaitedFits
  <2>4. DeleteAnswered' BY <2>1 DEF DeleteAnswered
  <2> QED BY <2>3, <2>4 DEF AwaitInv
<1>3. ASSUME Finish PROVE AwaitInv'
  <2>1. Ask({}) /\ doing' = "idle" BY <1>3 DEF Finish
  <2> QED BY <1>2, <2>1
<1>4. ASSUME NEW what, NEW e, NEW q, Begin(what, e, q),
             <<what, q>> \in {<<"open", "details">>, <<"remove", "delete">>,
                              <<"execute", "create">>, <<"execute", "run">>}
      PROVE  AwaitInv'
  <2>1. Ask({q}) /\ doing' = what BY <1>4 DEF Begin, Ask
  <2> QED BY <1>2, <1>4, <2>1
<1>5. CASE User
  <2>1. ASSUME NEW e \in Experiments, OpenExperiment(e) \/ RemoveExperiment(e)
        PROVE  AwaitInv'
    BY <1>4, <2>1 DEF OpenExperiment, RemoveExperiment
  <2>2. CASE Execute BY <1>4, <2>2 DEF Execute
  <2>3. CASE \/ RejectPayload \/ Check
             \/ \E f \in Forms \cup {Unparsable} : Choose(f)
    BY <1>1, <2>3 DEF RejectPayload, Check, Choose, Fork, chain
  <2> QED BY <1>5, <2>1, <2>2, <2>3 DEF User
<1>6. CASE Arrive
  <2>1. CASE LoadList
    <3>1. doing = "load" /\ (Finish \/ (Ask({"details"}) /\ UNCHANGED doing))
      BY <2>1 DEF LoadList
    <3> QED BY <1>2, <1>3, <3>1
  <2>2. CASE ShowDetails \/ ShowRemaining \/ ShowRun \/ Report
    BY <1>3, <2>2 DEF ShowDetails, ShowRemaining, ShowRun, Report
  <2>3. CASE Deleted
    <3>1. doing' = "remove" /\ Ask({"list"}) BY <2>3 DEF Deleted
    <3> QED BY <1>2, <3>1
  <2>4. CASE Created
    <3>1. doing' = "execute" /\ Ask({"run"}) BY <2>4 DEF Created
    <3> QED BY <1>2, <3>1
  <2>5. CASE Ran
    <3>1. doing' = "execute" /\ Ask({"details", "list"}) BY <2>5 DEF Ran
    <3> QED BY <1>2, <3>1
  <2> QED BY <1>6, <2>1, <2>2, <2>3, <2>4, <2>5 DEF Arrive
<1>7. CASE Checked \/ Others \/ UNCHANGED vars
  BY <1>1, <1>7 DEF Checked, Others, vars, chain
<1> QED BY <1>5, <1>6, <1>7, AnsweredAwaits DEF Next

(* No chain of requests waits for an answer that nobody will give: while   *)
(* the controls are disabled a request is on its way, or the page can use  *)
(* what it was told.  This is what BusyEnds needs beyond fairness.         *)
THEOREM ChainsGoOn == Spec => []ChainGoesOn
<1>1. Init => AwaitInv
  BY DEF Init, AwaitInv, AwaitedFits, DeleteAnswered, Awaited
<1>2. TypeOK /\ AwaitInv => ChainGoesOn
  <2> SUFFICES ASSUME TypeOK, AwaitInv, doing # "idle", asked = {},
                      \A a \in told : ~a.failed
               PROVE  Answerable
    BY DEF ChainGoesOn, Answerable
  <2>1. ASSUME NEW q, q \in Awaited PROVE \E a \in told : a.to = q
    BY <2>1 DEF Awaited
  <2>2. ASSUME NEW a \in told, a.to # "details" PROVE Told(a.to, a.value)
    <3>1. a \in Answer /\ ~a.failed BY DEF TypeOK
    <3>2. a = [to |-> a.to, failed |-> FALSE, value |-> a.value]
      BY <2>2, <3>1 DEF Answer
    <3> QED BY <3>2 DEF Told
  <2>3. \A a \in told : /\ a.to = "list" => a.value \in SUBSET Experiments
                        /\ a.to = "create" => a.value \in Experiments
                        /\ a.to = "run" => a.value \in Runs
                        /\ a.to = "delete" => a.value = target
    BY AnswerType DEF TypeOK, AwaitInv, DeleteAnswered
  <2>4. CASE doing = "load"
    <3>1. "list" \in Awaited \/ "details" \in Awaited
      BY <2>4 DEF AwaitInv, AwaitedFits
    <3> QED BY <2>1, <2>2, <2>3, <2>4, <3>1 DEF Answerable
  <2>5. CASE doing = "open"
    <3>1. "details" \in Awaited BY <2>5 DEF AwaitInv, AwaitedFits
    <3> QED BY <2>1, <2>5, <3>1 DEF Answerable
  <2>6. CASE doing = "remove"
    <3>1. "delete" \in Awaited \/ "list" \in Awaited
      BY <2>6 DEF AwaitInv, AwaitedFits
    <3> QED BY <2>1, <2>2, <2>3, <2>6, <3>1 DEF Answerable
  <2>7. CASE doing = "execute"
    <3>1. \/ "create" \in Awaited \/ "run" \in Awaited
          \/ "details" \in Awaited /\ "list" \in Awaited
      BY <2>7 DEF AwaitInv, AwaitedFits
    <3> QED BY <2>1, <2>2, <2>3, <2>7, <3>1 DEF Answerable
  <2> QED BY <2>4, <2>5, <2>6, <2>7 DEF TypeOK
<1> QED BY <1>1, <1>2, AwaitStep, WorkspaceTypeCorrect, PTL DEF Spec
-----------------------------------------------------------------------------
(* The review workspace.                                                   *)
-----------------------------------------------------------------------------
(* The counts of sessions leave room for the one that is being created.    *)
CreateCounted == op.kind = "create" /\ op.at = "sent" => given < ops

(* Another account is asked for with nothing on the page, and the page is  *)
(* rendered without an account before it can have an answer.               *)
CreateBlank == op.kind = "create" => /\ session = 0 /\ shown = Nothing
                                     /\ op.at = "answered" => mounted = 0

(* An effect runs for another session than the page's only while the first *)
(* list of the page's session is being asked for.                          *)
MountedLags == session # 0 /\ mounted # session => op.kind = "list" /\ op.at = "sent"

(* Requests are made for the session of the page and of the effect; where  *)
(* the session has changed since, there is none.                           *)
OpIsOwn == op.kind \notin {"none", "create"} => session \in {0, op.of}
ReadIsMounted == read.at # "none" => read.of = mounted

(* A read that is clean overlaps with no operation.                        *)
CleanMeansIdle == read.at # "none" /\ read.clean => ~working

RefusedEnded == read.at = "refused" => read.of \in ended

(* What is shown or on its way was committed.                              *)
RowsCommitted == /\ shown.rows \subseteq committed
                 /\ read.rows \subseteq committed
                 /\ op.rows \subseteq committed

ListKinds == {"list", "refresh", "relist"}

(* A list that is about to be shown has everything that is shown.          *)
ReadCovers == read.at = "answered" /\ read.clean => shown.rows \subseteq read.rows
OpCovers   == op.at = "answered" /\ op.kind \in ListKinds => shown.rows \subseteq op.rows

(* Such a list is up to date, or a signal will have it asked for again.    *)
ReadSignalled == link = "up" /\ read.at = "answered" /\ read.clean
                 => owed \/ read.rows = committed
OpSignalled   == link = "up" /\ op.at = "answered" /\ op.kind \in ListKinds
                 => owed \/ dirty \/ op.rows = committed

(* The inductive invariant.                                                *)
OwnInv    == /\ CreateCounted /\ CreateBlank /\ MountedLags /\ OpIsOwn
             /\ ReadIsMounted /\ CleanMeansIdle /\ RefusedEnded
CoverInv  == RowsCommitted /\ ReadCovers /\ OpCovers
SignalInv == ReadSignalled /\ OpSignalled

(* All of it together with the types.                                      *)
PageInv == PageTypeOK /\ OwnInv /\ CoverInv /\ SignalInv
-----------------------------------------------------------------------------
(* What the callbacks are made of, each on its own.                        *)

LEMMA ReadTypes ==
  ASSUME PageTypeOK
  PROVE  /\ Overlapped \in Reads /\ NewRead \in Reads /\ NoRead \in Reads
         /\ NoOp \in Ops
BY DEF PageTypeOK, Overlapped, NewRead, NoRead, NoOp, Reads, Ops

LEMMA DrainTypes ==
  ASSUME PageTypeOK, NEW rest \in Reads, Drain(rest)
  PROVE  read' \in Reads /\ dirty' \in BOOLEAN
BY ReadTypes DEF Drain

LEMMA SessionTypes ==
  ASSUME PageTypeOK
  PROVE  /\ 0 \in {0} \cup Sessions /\ given \in {0} \cup Sessions
         /\ given < ops => given + 1 \in 0..ops
BY ClientConstants DEF PageTypeOK, Sessions

(* The types of what receiveReviews and reportFailure set.                 *)
PageVariablesOK == /\ session \in {0} \cup Sessions
                   /\ shown \in [of : {0} \cup Sessions, rows : SUBSET Writes]
                   /\ mustRefresh \in BOOLEAN /\ unconfirmed \in BOOLEAN
                   /\ swallowed \in BOOLEAN

LEMMA ReceiveTypes ==
  ASSUME PageTypeOK, NEW s \in {0} \cup Sessions, NEW rows \in SUBSET Writes,
         Receive(s, rows)
  PROVE  PageVariablesOK'
BY DEF PageTypeOK, Receive, PageVariablesOK

LEMMA ReportTypes ==
  ASSUME PageTypeOK, ReportFailed \/ ReportEnded \/ UNCHANGED page
  PROVE  PageVariablesOK'
<1>1. PageVariablesOK
  BY DEF PageTypeOK, PageVariablesOK
<1>2. CASE ReportFailed
  BY <1>1, <1>2 DEF ReportFailed, PageVariablesOK
<1>3. CASE ReportEnded
  BY <1>1, <1>3 DEF ReportEnded, Nothing, PageVariablesOK
<1>4. CASE UNCHANGED page
  BY <1>1, <1>4 DEF page, PageVariablesOK
<1> QED
  BY <1>2, <1>3, <1>4

LEMMA PageInitType == PageInit => PageTypeOK
<1> SUFFICES ASSUME PageInit PROVE PageTypeOK
  OBVIOUS
<1> USE DEF PageInit
<1>1. read \in Reads /\ op \in Ops /\ shown \in [of : {0} \cup Sessions, rows : SUBSET Writes]
  BY DEF NoRead, Reads, NoOp, Ops, Nothing
<1>2. given \in 0..ops /\ ops \in 0..MaxOps /\ drops \in 0..MaxDrops
  BY ClientConstants
<1>3. ~working
  BY DEF working, NoOp
<1> QED
  BY <1>1, <1>2, <1>3 DEF PageTypeOK

LEMMA PageNextType == PageTypeOK /\ CreateCounted /\ [PageNext]_pageVars => PageTypeOK'
<1> SUFFICES ASSUME PageTypeOK, CreateCounted, [PageNext]_pageVars PROVE PageTypeOK'
  OBVIOUS
<1> USE DEF PageTypeOK, working, remote, page, live
<1>1. ASSUME NEW w \in Writes, Peer(w) PROVE PageTypeOK'
  BY <1>1 DEF Peer, Committed
<1>2. ASSUME NEW s \in Sessions, EndSession(s) PROVE PageTypeOK'
  BY <1>2 DEF EndSession
<1>3. CASE Render
  BY <1>3, ReadTypes, DrainTypes DEF Render
<1>4. CASE Connect
  <2>1. read \in Reads /\ shown \in [of : {0} \cup Sessions, rows : SUBSET Writes]
    OBVIOUS
  <2>2. ASSUME Drain(read) PROVE read' \in Reads /\ dirty' \in BOOLEAN
    BY <2>1, <2>2, DrainTypes
  <2>3. CASE Drain(read) /\ link' = "up" /\ UNCHANGED page
    BY <1>4, <2>2, <2>3 DEF Connect
  <2>4. CASE link' = "stopped" /\ ReportEnded /\ UNCHANGED <<dirty, read>>
    BY <1>4, <2>4 DEF Connect, ReportEnded, Nothing
  <2> QED
    BY <1>4, <2>3, <2>4 DEF Connect
<1>5. CASE Signal
  BY <1>5, DrainTypes DEF Signal
<1>6. CASE Expired
  BY <1>6 DEF Expired, ReportEnded, Nothing
<1>7. CASE Drop
  <2>1. drops' \in 0..MaxDrops
    BY <1>7, ClientConstants DEF Drop
  <2> QED
    BY <1>7, <2>1 DEF Drop
<1>8. CASE ReadAnswered
  BY <1>8 DEF ReadAnswered, Reads
<1>9. CASE ReadFailed
  BY <1>9 DEF ReadFailed, Reads
<1>10. CASE ReadDone
  <2>1. ASSUME Drain(NoRead) PROVE read' \in Reads /\ dirty' \in BOOLEAN
    BY <2>1, ReadTypes, DrainTypes
  <2>2. read' \in Reads /\ dirty' \in BOOLEAN
    BY <1>10, <2>1, ReadTypes DEF ReadDone
  <2>3. ASSUME Receive(read.of, read.rows) PROVE PageVariablesOK'
    BY <2>3, ReceiveTypes DEF Reads
  <2>4. ASSUME UNCHANGED <<session, shown, mustRefresh, unconfirmed>>, swallowed' = TRUE
        PROVE  PageVariablesOK'
    BY <2>4 DEF PageVariablesOK
  <2>5. PageVariablesOK'
    BY <1>10, <2>3, <2>4, ReportTypes DEF ReadDone
  <2> QED
    BY <1>10, <2>2, <2>5 DEF ReadDone, PageVariablesOK
<1>11. ASSUME NEW kind \in {"create", "refresh", "submit", "decide"}, StartWorking(kind)
       PROVE  /\ ops' \in 0..MaxOps /\ given \in 0..ops' /\ op' \in Ops /\ busy' = TRUE
              /\ read' \in Reads
  BY <1>11, ReadTypes, ClientConstants DEF StartWorking, Started, Ops
<1>12. CASE ChooseAccount
  BY <1>11, <1>12 DEF ChooseAccount, Nothing
<1>13. CASE Refresh \/ Submit \/ Decide
  BY <1>11, <1>13 DEF Refresh, Submit, Decide
<1>14. CASE OpAnswered
  BY <1>14, SessionTypes DEF OpAnswered, Committed, Ops, CreateCounted
<1>15. CASE OpFailed
  BY <1>15 DEF OpFailed, Ops
<1>16. CASE OpDone
  <2>1. op.of \in {0} \cup Sessions /\ op.rows \subseteq Writes
    BY DEF Ops
  <2>2. /\ Started("list", given) \in Ops /\ Started("list", given).kind # "none"
        /\ Started("relist", op.of) \in Ops /\ Started("relist", op.of).kind # "none"
    BY <2>1, SessionTypes DEF Started, Ops
  <2>3. ASSUME StopWorking PROVE op' \in Ops /\ read' \in Reads /\ ~working'
    BY <2>3, ReadTypes DEF StopWorking, NoOp
  <2>4. ASSUME Receive(op.of, op.rows) PROVE PageVariablesOK'
    BY <2>1, <2>4, ReceiveTypes
  <2>5. op' \in Ops /\ read' \in Reads
    BY <1>16, <2>2, <2>3 DEF OpDone
  <2>6. PageVariablesOK'
    BY <1>16, <2>1, <2>4, SessionTypes, ReportTypes DEF OpDone, PageVariablesOK
  <2>7. op.kind # "none" \/ ~working'
    BY <1>16, <2>3 DEF OpDone
  <2> QED
    BY <1>16, <2>5, <2>6, <2>7 DEF OpDone, PageVariablesOK
<1>17. CASE UNCHANGED pageVars
  BY <1>17 DEF pageVars
<1> QED
  BY <1>1, <1>2, <1>3, <1>4, <1>5, <1>6, <1>7, <1>8, <1>9, <1>10, <1>12, <1>13, <1>14,
     <1>15, <1>16, <1>17 DEF PageNext
-----------------------------------------------------------------------------
(* Whose requests and answers there are.                                   *)

LEMMA PageInitOwn == PageInit => OwnInv
BY DEF PageInit, OwnInv, CreateCounted, CreateBlank, MountedLags, OpIsOwn, ReadIsMounted,
       CleanMeansIdle, RefusedEnded, NoOp, NoRead, working

LEMMA PageNextOwn == PageTypeOK /\ OwnInv /\ [PageNext]_pageVars => OwnInv'
<1> SUFFICES ASSUME PageTypeOK, OwnInv, [PageNext]_pageVars PROVE OwnInv'
  OBVIOUS
<1>0. /\ ops \in Nat /\ given \in Nat /\ given <= ops
      /\ (working => busy) /\ read \in Reads /\ op \in Ops
  BY ClientConstants DEF PageTypeOK
<1> USE DEF OwnInv, CreateCounted, CreateBlank, MountedLags, OpIsOwn, ReadIsMounted,
            CleanMeansIdle, RefusedEnded, working, remote, page, live
<1>1. ASSUME NEW w \in Writes, Peer(w) PROVE OwnInv'
  BY <1>1 DEF Peer, Committed
<1>2. ASSUME NEW s \in Sessions, EndSession(s) PROVE OwnInv'
  BY <1>2 DEF EndSession
<1>3. CASE Render
  BY <1>3 DEF Render, Drain, NewRead, NoRead
<1>4. CASE Connect
  BY <1>4 DEF Connect, ReportEnded, Drain, NewRead
<1>5. CASE Signal
  BY <1>5 DEF Signal, Drain, NewRead
<1>6. CASE Expired
  BY <1>6 DEF Expired, ReportEnded
<1>7. CASE Drop
  BY <1>7 DEF Drop
<1>8. CASE ReadAnswered
  BY <1>8, <1>0 DEF ReadAnswered, Reads
<1>9. CASE ReadFailed
  BY <1>9, <1>0 DEF ReadFailed, Reads
<1>10. CASE ReadDone
  BY <1>10 DEF ReadDone, Receive, ReportFailed, ReportEnded, Drain, NewRead, NoRead
<1>11. CASE ChooseAccount
  BY <1>11, <1>0 DEF ChooseAccount, StartWorking, Started, Overlapped, Reads
<1>12. CASE Refresh \/ Submit \/ Decide
  BY <1>12, <1>0 DEF Refresh, Submit, Decide, StartWorking, Started, Overlapped, Reads
<1>13. CASE OpAnswered
  BY <1>13, <1>0 DEF OpAnswered, Committed, Ops
<1>14. CASE OpFailed
  BY <1>14, <1>0 DEF OpFailed, Ops
<1>15. CASE OpDone
  BY <1>15, <1>0
     DEF OpDone, Receive, ReportFailed, ReportEnded, StopWorking, Started, NoOp, Overlapped, Reads
<1>16. CASE UNCHANGED pageVars
  BY <1>16 DEF pageVars
<1> QED
  BY <1>1, <1>2, <1>3, <1>4, <1>5, <1>6, <1>7, <1>8, <1>9, <1>10, <1>11, <1>12, <1>13,
     <1>14, <1>15, <1>16 DEF PageNext
-----------------------------------------------------------------------------
(* What the lists in flight contain.                                       *)

LEMMA PageInitCover == PageInit => CoverInv /\ SignalInv
BY DEF PageInit, CoverInv, RowsCommitted, ReadCovers, OpCovers, SignalInv, ReadSignalled,
       OpSignalled, NoOp, NoRead, Nothing

LEMMA PageNextCover ==
  PageTypeOK /\ CleanMeansIdle /\ CoverInv /\ [PageNext]_pageVars => CoverInv'
<1> SUFFICES ASSUME PageTypeOK, CleanMeansIdle, CoverInv, [PageNext]_pageVars PROVE CoverInv'
  OBVIOUS
<1>0. read \in Reads /\ op \in Ops /\ shown \in [of : {0} \cup Sessions, rows : SUBSET Writes]
  BY DEF PageTypeOK
<1> USE DEF CoverInv, RowsCommitted, ReadCovers, OpCovers, ListKinds, CleanMeansIdle, working,
            remote, page, live
<1>1. ASSUME NEW w \in Writes, Peer(w) PROVE CoverInv'
  BY <1>1 DEF Peer, Committed
<1>2. ASSUME NEW s \in Sessions, EndSession(s) PROVE CoverInv'
  BY <1>2 DEF EndSession
<1>3. CASE Render
  BY <1>3 DEF Render, Drain, NewRead, NoRead
<1>4. CASE Connect
  BY <1>4 DEF Connect, ReportEnded, Drain, NewRead, Nothing
<1>5. CASE Signal
  BY <1>5 DEF Signal, Drain, NewRead
<1>6. CASE Expired
  BY <1>6 DEF Expired, ReportEnded, Nothing
<1>7. CASE Drop
  BY <1>7 DEF Drop
<1>8. CASE ReadAnswered
  BY <1>8, <1>0 DEF ReadAnswered, Reads
<1>9. CASE ReadFailed
  BY <1>9, <1>0 DEF ReadFailed, Reads
<1>10. CASE ReadDone
  BY <1>10 DEF ReadDone, Receive, ReportFailed, ReportEnded, Nothing, Drain, NewRead, NoRead
<1>11. CASE ChooseAccount
  BY <1>11, <1>0 DEF ChooseAccount, StartWorking, Started, Nothing, Overlapped, Reads
<1>12. CASE Refresh \/ Submit \/ Decide
  BY <1>12, <1>0 DEF Refresh, Submit, Decide, StartWorking, Started, Overlapped, Reads
<1>13. CASE OpAnswered
  BY <1>13, <1>0 DEF OpAnswered, Committed, Ops
<1>14. CASE OpFailed
  BY <1>14, <1>0 DEF OpFailed, Ops
<1>15. CASE OpDone
  BY <1>15, <1>0
     DEF OpDone, Receive, ReportFailed, ReportEnded, Nothing, StopWorking, Started, NoOp,
         Overlapped, Reads, Ops
<1>16. CASE UNCHANGED pageVars
  BY <1>16 DEF pageVars
<1> QED
  BY <1>1, <1>2, <1>3, <1>4, <1>5, <1>6, <1>7, <1>8, <1>9, <1>10, <1>11, <1>12, <1>13,
     <1>14, <1>15, <1>16 DEF PageNext

LEMMA PageNextSignal ==
  PageTypeOK /\ CleanMeansIdle /\ SignalInv /\ [PageNext]_pageVars => SignalInv'
<1> SUFFICES ASSUME PageTypeOK, CleanMeansIdle, SignalInv, [PageNext]_pageVars PROVE SignalInv'
  OBVIOUS
<1>0. /\ read \in Reads /\ op \in Ops /\ owed \in BOOLEAN /\ dirty \in BOOLEAN
  BY DEF PageTypeOK
<1> USE DEF SignalInv, ReadSignalled, OpSignalled, ListKinds, CleanMeansIdle, working,
            remote, page, live
<1>1. ASSUME NEW w \in Writes, Peer(w) PROVE SignalInv'
  BY <1>1 DEF Peer, Committed
<1>2. ASSUME NEW s \in Sessions, EndSession(s) PROVE SignalInv'
  BY <1>2 DEF EndSession
<1>3. CASE Render
  BY <1>3 DEF Render, Drain, NewRead, NoRead
<1>4. CASE Connect
  BY <1>4 DEF Connect, ReportEnded, Drain, NewRead, Nothing
<1>5. CASE Signal
  BY <1>5 DEF Signal, Drain, NewRead
<1>6. CASE Expired
  BY <1>6 DEF Expired, ReportEnded, Nothing
<1>7. CASE Drop
  BY <1>7 DEF Drop
<1>8. CASE ReadAnswered
  BY <1>8, <1>0 DEF ReadAnswered, Reads
<1>9. CASE ReadFailed
  BY <1>9, <1>0 DEF ReadFailed, Reads
<1>10. CASE ReadDone
  BY <1>10 DEF ReadDone, Receive, ReportFailed, ReportEnded, Nothing, Drain, NewRead, NoRead
<1>11. CASE ChooseAccount
  BY <1>11, <1>0 DEF ChooseAccount, StartWorking, Started, Nothing, Overlapped, Reads
<1>12. CASE Refresh \/ Submit \/ Decide
  BY <1>12, <1>0 DEF Refresh, Submit, Decide, StartWorking, Started, Overlapped, Reads
<1>13. CASE OpAnswered
  BY <1>13, <1>0 DEF OpAnswered, Committed, Ops
<1>14. CASE OpFailed
  BY <1>14, <1>0 DEF OpFailed, Ops
<1>15. CASE OpDone
  BY <1>15, <1>0
     DEF OpDone, Receive, ReportFailed, ReportEnded, Nothing, StopWorking, Started, NoOp,
         Overlapped, Reads, Ops
<1>16. CASE UNCHANGED pageVars
  BY <1>16 DEF pageVars
<1> QED
  BY <1>1, <1>2, <1>3, <1>4, <1>5, <1>6, <1>7, <1>8, <1>9, <1>10, <1>11, <1>12, <1>13,
     <1>14, <1>15, <1>16 DEF PageNext

(* The inductive invariant holds in every reachable state of the review    *)
(* workspace.                                                              *)
THEOREM PageInvariant == PageSpec => []PageInv
<1>1. PageInit => PageInv
  BY PageInitType, PageInitOwn, PageInitCover DEF PageInv
<1>2. PageInv /\ [PageNext]_pageVars => PageInv'
  BY PageNextType, PageNextOwn, PageNextCover, PageNextSignal DEF PageInv, OwnInv
<1> QED
  BY <1>1, <1>2, PTL DEF PageSpec
-----------------------------------------------------------------------------
(* Every reachable state of the review workspace is well typed, and while  *)
(* an operation works the page shows it.                                   *)
THEOREM PageTypeCorrect == PageSpec => []PageTypeOK
BY PageInvariant, PTL DEF PageInv

LEMMA ListIsOwnStep ==
  PageTypeOK /\ OwnInv /\ ListIsOwn /\ [PageNext]_pageVars => ListIsOwn'
<1> SUFFICES ASSUME PageTypeOK, OwnInv, ListIsOwn, [PageNext]_pageVars PROVE ListIsOwn'
  OBVIOUS
<1>0. read \in Reads /\ op \in Ops
  BY DEF PageTypeOK
<1> USE DEF ListIsOwn, OwnInv, CreateBlank, MountedLags, OpIsOwn, ReadIsMounted,
            CleanMeansIdle, ListKinds, working, remote, page, live
<1>1. ASSUME NEW w \in Writes, Peer(w) PROVE ListIsOwn'
  BY <1>1 DEF Peer, Committed
<1>2. ASSUME NEW s \in Sessions, EndSession(s) PROVE ListIsOwn'
  BY <1>2 DEF EndSession
<1>3. CASE Render
  BY <1>3 DEF Render, Drain, NewRead, NoRead
<1>4. CASE Connect
  BY <1>4 DEF Connect, ReportEnded, Drain, NewRead, Nothing
<1>5. CASE Signal
  BY <1>5 DEF Signal, Drain, NewRead
<1>6. CASE Expired
  BY <1>6 DEF Expired, ReportEnded, Nothing
<1>7. CASE Drop
  BY <1>7 DEF Drop
<1>8. CASE ReadAnswered
  BY <1>8, <1>0 DEF ReadAnswered, Reads
<1>9. CASE ReadFailed
  BY <1>9, <1>0 DEF ReadFailed, Reads
<1>10. CASE ReadDone
  BY <1>10, <1>0 DEF ReadDone, Receive, ReportFailed, ReportEnded, Nothing, Drain, NewRead, NoRead
<1>11. CASE ChooseAccount
  BY <1>11, <1>0 DEF ChooseAccount, StartWorking, Started, Nothing, Overlapped, Reads
<1>12. CASE Refresh \/ Submit \/ Decide
  BY <1>12, <1>0 DEF Refresh, Submit, Decide, StartWorking, Started, Overlapped, Reads
<1>13. CASE OpAnswered
  BY <1>13, <1>0 DEF OpAnswered, Committed, Ops
<1>14. CASE OpFailed
  BY <1>14, <1>0 DEF OpFailed, Ops
<1>15. CASE OpDone
  BY <1>15, <1>0
     DEF OpDone, Receive, ReportFailed, ReportEnded, Nothing, StopWorking, Started, NoOp,
         Overlapped, Reads, Ops
<1>16. CASE UNCHANGED pageVars
  BY <1>16 DEF pageVars
<1> QED
  BY <1>1, <1>2, <1>3, <1>4, <1>5, <1>6, <1>7, <1>8, <1>9, <1>10, <1>11, <1>12, <1>13,
     <1>14, <1>15, <1>16 DEF PageNext

(* Whichever answers arrive after another account was chosen, the page     *)
(* never shows the list of another session than its own.                   *)
THEOREM ListsAreOwn == PageSpec => []ListIsOwn
<1>1. PageInit => ListIsOwn
  BY DEF PageInit, ListIsOwn
<1>2. PageInv /\ ListIsOwn /\ [PageNext]_pageVars => ListIsOwn'
  BY ListIsOwnStep DEF PageInv
<1> QED
  BY <1>1, <1>2, PageInvariant, PTL DEF PageSpec
-----------------------------------------------------------------------------
(* What NeverBack says of one step.                                        *)
NothingUndone == session' = session /\ session # 0 => shown.rows \subseteq shown'.rows

LEMMA NeverBackStep ==
  PageTypeOK /\ OwnInv /\ CoverInv /\ [PageNext]_pageVars => NothingUndone
<1> SUFFICES ASSUME PageTypeOK, OwnInv, CoverInv, [PageNext]_pageVars PROVE NothingUndone
  OBVIOUS
<1>0. read \in Reads /\ op \in Ops
  BY DEF PageTypeOK
<1> USE DEF NothingUndone, OwnInv, CoverInv, ReadCovers, OpCovers, CreateBlank, ListKinds,
            CleanMeansIdle, working, remote, page, live
<1>1. ASSUME NEW w \in Writes, Peer(w) PROVE NothingUndone
  BY <1>1 DEF Peer, Committed
<1>2. ASSUME NEW s \in Sessions, EndSession(s) PROVE NothingUndone
  BY <1>2 DEF EndSession
<1>3. CASE Render
  BY <1>3 DEF Render, Drain, NewRead, NoRead
<1>4. CASE Connect
  BY <1>4 DEF Connect, ReportEnded, Drain, NewRead, Nothing
<1>5. CASE Signal
  BY <1>5 DEF Signal, Drain, NewRead
<1>6. CASE Expired
  BY <1>6 DEF Expired, ReportEnded, Nothing
<1>7. CASE Drop
  BY <1>7 DEF Drop
<1>8. CASE ReadAnswered
  BY <1>8, <1>0 DEF ReadAnswered, Reads
<1>9. CASE ReadFailed
  BY <1>9, <1>0 DEF ReadFailed, Reads
<1>10. CASE ReadDone
  BY <1>10, <1>0 DEF ReadDone, Receive, ReportFailed, ReportEnded, Nothing, Drain, NewRead, NoRead
<1>11. CASE ChooseAccount
  BY <1>11, <1>0 DEF ChooseAccount, StartWorking, Started, Nothing, Overlapped, Reads
<1>12. CASE Refresh \/ Submit \/ Decide
  BY <1>12, <1>0 DEF Refresh, Submit, Decide, StartWorking, Started, Overlapped, Reads
<1>13. CASE OpAnswered
  BY <1>13, <1>0 DEF OpAnswered, Committed, Ops
<1>14. CASE OpFailed
  BY <1>14, <1>0 DEF OpFailed, Ops
<1>15. CASE OpDone
  BY <1>15, <1>0
     DEF OpDone, Receive, ReportFailed, ReportEnded, Nothing, StopWorking, Started, NoOp,
         Overlapped, Reads, Ops
<1>16. CASE UNCHANGED pageVars
  BY <1>16 DEF pageVars
<1> QED
  BY <1>1, <1>2, <1>3, <1>4, <1>5, <1>6, <1>7, <1>8, <1>9, <1>10, <1>11, <1>12, <1>13,
     <1>14, <1>15, <1>16 DEF PageNext

(* Within a session nothing that the page showed is undone by a list that  *)
(* was read before: neither by a live read that overlapped with an         *)
(* operation nor by the operation's own list.                              *)
THEOREM NeverGoesBack == PageSpec => NeverBack
<1>1. PageInv /\ [PageNext]_pageVars => [NothingUndone]_pageVars
  BY NeverBackStep DEF PageInv
<1> QED
  BY <1>1, PageInvariant, PTL DEF PageSpec, NeverBack, NothingUndone
-----------------------------------------------------------------------------
LEMMA NoLostSignalStep ==
  PageInv /\ NoLostSignal /\ [PageNext]_pageVars => NoLostSignal'
<1> SUFFICES ASSUME PageInv, NoLostSignal, [PageNext]_pageVars PROVE NoLostSignal'
  OBVIOUS
<1>0. /\ read \in Reads /\ op \in Ops /\ owed \in BOOLEAN /\ dirty \in BOOLEAN
      /\ busy \in BOOLEAN /\ mustRefresh \in BOOLEAN /\ swallowed \in BOOLEAN
      /\ working => busy
  BY DEF PageInv, PageTypeOK
<1> USE DEF NoLostSignal, PageInv, OwnInv, SignalInv, CoverInv, RowsCommitted, ReadSignalled,
            OpSignalled, CreateBlank, ReadIsMounted, CleanMeansIdle, RefusedEnded, ListKinds,
            working, remote, page, live
<1>1. ASSUME NEW w \in Writes, Peer(w) PROVE NoLostSignal'
  BY <1>1 DEF Peer, Committed
<1>2. ASSUME NEW s \in Sessions, EndSession(s) PROVE NoLostSignal'
  BY <1>2 DEF EndSession
<1>3. CASE Render
  BY <1>0, <1>3 DEF Render, Drain, NewRead, NoRead
<1>4. CASE Connect
  BY <1>0, <1>4 DEF Connect, ReportEnded, Drain, NewRead, Nothing
<1>5. CASE Signal
  BY <1>0, <1>5 DEF Signal, Drain, NewRead
<1>6. CASE Expired
  BY <1>6 DEF Expired, ReportEnded, Nothing
<1>7. CASE Drop
  BY <1>7 DEF Drop
<1>8. CASE ReadAnswered
  BY <1>8, <1>0 DEF ReadAnswered, Reads
<1>9. CASE ReadFailed
  BY <1>9, <1>0 DEF ReadFailed, Reads
<1>10. CASE ReadDone
  BY <1>10, <1>0 DEF ReadDone, Receive, ReportFailed, ReportEnded, Nothing, Drain, NewRead, NoRead
<1>11. CASE ChooseAccount
  BY <1>11, <1>0 DEF ChooseAccount, StartWorking, Started, Nothing, Overlapped, Reads
<1>12. CASE Refresh \/ Submit \/ Decide
  BY <1>12, <1>0 DEF Refresh, Submit, Decide, StartWorking, Started, Overlapped, Reads
<1>13. CASE OpAnswered
  BY <1>13, <1>0 DEF OpAnswered, Committed, Ops
<1>14. CASE OpFailed
  BY <1>14, <1>0 DEF OpFailed, Ops
<1>15. CASE OpDone
  BY <1>15, <1>0
     DEF OpDone, Receive, ReportFailed, ReportEnded, Nothing, StopWorking, Started, NoOp,
         Overlapped, Reads, Ops
<1>16. CASE UNCHANGED pageVars
  BY <1>16 DEF pageVars
<1> QED
  BY <1>1, <1>2, <1>3, <1>4, <1>5, <1>6, <1>7, <1>8, <1>9, <1>10, <1>11, <1>12, <1>13,
     <1>14, <1>15, <1>16 DEF PageNext

(* No signal is lost between the connection, the reads, the operations and *)
(* the renders: a list of a connected page that is out of date is being    *)
(* read, or will be, or asks for a refresh.                                *)
THEOREM NoSignalLost == PageSpec => []NoLostSignal
<1>1. PageInit => NoLostSignal
  BY DEF PageInit, NoLostSignal
<1>2. PageInv /\ NoLostSignal /\ [PageNext]_pageVars => NoLostSignal'
  BY NoLostSignalStep
<1> QED
  BY <1>1, <1>2, PageInvariant, PTL DEF PageSpec
=============================================================================
