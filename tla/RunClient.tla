------------------------------- MODULE RunClient -------------------------------
(***************************************************************************)
(* The experiments workspace of the browser (client/src/App.tsx with the   *)
(* requests of api.ts, and RunnerExecutionStatus.tsx) against the          *)
(* coordinator's experiments and runs, which other browsers change too.    *)
(*                                                                         *)
(* Loading, opening, deleting and running an experiment are chains of      *)
(* requests; one chain at a time keeps the controls disabled.  A request   *)
(* may fail before or after it took effect.  The form stands for the       *)
(* chosen behaviour and the payload text; a run is one that a gRPC runner  *)
(* executed, so that its execution can be inspected.                       *)
(***************************************************************************)
EXTENDS Naturals, FiniteSetsExt

CONSTANTS MaxExperiments, \* bound on the experiments ever created
          MaxRuns,        \* bound on the runs ever saved
          Forms,          \* contents of the form that make an experiment
          Unparsable,     \* payload text that is not a JSON object
          None

Experiments == 1..MaxExperiments

Runs == 1..MaxRuns

Details == [id : Experiments, form : Forms, runs : SUBSET Runs]

ASSUME RunClientConstants == /\ MaxExperiments \in Nat /\ MaxRuns \in Nat
                             /\ Unparsable \notin Forms
                             /\ None \notin Details

VARIABLES made,      \* experiments created so far
          stored,    \* those not deleted
          formOf,    \* experiment -> the form it was created from
          runsOf,    \* experiment -> its runs
          lastRun,   \* runs saved so far
          submitted, \* runs submitted for review: they keep their experiment
          form,      \* what the form shows
          list,      \* the experiments listed
          selected,  \* details of the selected experiment, or None
          latest,    \* the run whose receipt is shown, or 0
          error,     \* is a failure reported?
          doing,     \* the chain under way (isLoading or isRunning)
          target,    \* the experiment it is about
          ran,       \* the run it was given
          asked,     \* its requests the coordinator has not served
          told,      \* answers to them
          checking,  \* the run whose execution is being read, or 0
          execution, \* the run whose execution is shown, or 0
          removed    \* history: experiments this browser was told it deleted

server     == <<made, stored, formOf, runsOf, lastRun, submitted>>
panel      == <<form, list, selected, latest, error>>
chain      == <<doing, target, ran, asked, told>>
inspection == <<checking, execution>>
vars       == <<server, panel, chain, inspection, removed>>
-----------------------------------------------------------------------------
Requests == {"list", "details", "create", "run", "delete"}

Answer == [to : Requests, failed : {TRUE}]
          \cup [to : {"list"}, failed : {FALSE}, value : SUBSET Experiments]
          \cup [to : {"details"}, failed : {FALSE}, value : Details]
          \cup [to : {"create", "delete"}, failed : {FALSE},
                value : Experiments]
          \cup [to : {"run"}, failed : {FALSE}, value : Runs]

(* Lists are newest first: 0 where there is nothing.                       *)
Newest(S) == IF S = {} THEN 0 ELSE Max(S)

TypeOK ==
  /\ made \in 0..MaxExperiments
  /\ stored \subseteq Experiments
  /\ formOf \in [Experiments -> Forms]
  /\ runsOf \in [Experiments -> SUBSET Runs]
  /\ lastRun \in 0..MaxRuns
  /\ submitted \subseteq Runs
  /\ form \in Forms \cup {Unparsable}
  /\ list \subseteq Experiments
  /\ selected \in Details \cup {None}
  /\ latest \in 0..MaxRuns
  /\ error \in BOOLEAN
  /\ doing \in {"idle", "load", "open", "remove", "execute"}
  /\ target \in 0..MaxExperiments
  /\ ran \in 0..MaxRuns
  /\ asked \subseteq Requests
  /\ told \subseteq Answer
  /\ checking \in 0..MaxRuns
  /\ execution \in 0..MaxRuns
  /\ removed \subseteq Experiments

(* The page is loaded: loadInitialState is under way.                      *)
Init ==
  /\ made = 0 /\ stored = {} /\ lastRun = 0 /\ submitted = {}
  /\ formOf \in {[e \in Experiments |-> f] : f \in Forms}
  /\ runsOf = [e \in Experiments |-> {}]
  /\ form \in Forms
  /\ list = {} /\ selected = None /\ latest = 0 /\ error = FALSE
  /\ doing = "load" /\ target = 0 /\ ran = 0
  /\ asked = {"list"} /\ told = {}
  /\ checking = 0 /\ execution = 0
  /\ removed = {}
-----------------------------------------------------------------------------
(* The coordinator.                                                        *)

Create(f) == /\ made < MaxExperiments
             /\ made' = made + 1
             /\ stored' = stored \cup {made + 1}
             /\ formOf' = [formOf EXCEPT ![made + 1] = f]
             /\ UNCHANGED <<runsOf, lastRun, submitted>>

RunOn(e) == /\ e \in stored
            /\ lastRun < MaxRuns
            /\ lastRun' = lastRun + 1
            /\ runsOf' = [runsOf EXCEPT ![e] = @ \cup {lastRun + 1}]
            /\ UNCHANGED <<made, stored, formOf, submitted>>

(* Refused where a run was submitted for review.                           *)
Delete(e) == /\ e \in stored
             /\ runsOf[e] \cap submitted = {}
             /\ stored' = stored \ {e}
             /\ runsOf' = [runsOf EXCEPT ![e] = {}]
             /\ UNCHANGED <<made, formOf, lastRun, submitted>>

SubmitForReview(r) == /\ \E e \in stored : r \in runsOf[e]
                      /\ submitted' = submitted \cup {r}
                      /\ UNCHANGED <<made, stored, formOf, runsOf, lastRun>>

(* Another browser, or the review workspace.                               *)
Others == /\ \/ \E f \in Forms : Create(f)
             \/ \E e \in Experiments : RunOn(e) \/ Delete(e)
             \/ \E r \in Runs \ submitted : SubmitForReview(r)
          /\ UNCHANGED <<panel, chain, inspection, removed>>

Reply(q, answer) == /\ q \in asked
                    /\ asked' = asked \ {q}
                    /\ told' = told \cup {answer}
                    /\ UNCHANGED <<panel, doing, target, ran, inspection,
                                   removed>>

Read(q, value) == /\ Reply(q, [to |-> q, failed |-> FALSE, value |-> value])
                  /\ UNCHANGED server

(* The effect takes place; its answer may get lost.                        *)
Write(q, effect, value) ==
  /\ effect
  /\ \/ Reply(q, [to |-> q, failed |-> FALSE, value |-> value])
     \/ Reply(q, [to |-> q, failed |-> TRUE])

ServeRequest ==
  \/ Read("list", stored)
  \/ /\ target \in stored
     /\ Read("details", [id |-> target, form |-> formOf[target],
                         runs |-> runsOf[target]])
  \/ "create" \in asked /\ Write("create", Create(form), made + 1)
  \/ "run" \in asked /\ Write("run", RunOn(target), lastRun + 1)
  \/ "delete" \in asked /\ Write("delete", Delete(target), target)

(* 404, 409, 503, or no connection: nothing happened.                      *)
RefuseRequest == \E q \in asked : /\ Reply(q, [to |-> q, failed |-> TRUE])
                                  /\ UNCHANGED server
-----------------------------------------------------------------------------
(* The browser: what starts a chain.  While one is under way the receipt   *)
(* gives way to a notice, so that the inspection below it is unmounted.    *)

Unmount == checking' = 0 /\ execution' = 0

Begin(what, e, q) ==
  /\ error' = FALSE
  /\ doing' = what /\ target' = e /\ ran' = 0
  /\ asked' = {q} /\ told' = {}
  /\ Unmount
  /\ UNCHANGED <<server, form, list, selected, latest, removed>>

OpenExperiment(e) == /\ doing = "idle"
                     /\ e \in list
                     /\ Begin("open", e, "details")

RemoveExperiment(e) == /\ doing = "idle"
                       /\ e \in list
                       /\ Begin("remove", e, "delete")

(* Nothing selected: a new experiment is made of the form.                 *)
Execute == /\ doing = "idle"
           /\ form # Unparsable
           /\ IF selected = None THEN Begin("execute", 0, "create")
                                 ELSE Begin("execute", selected.id, "run")

RejectPayload == /\ doing = "idle"
                 /\ form = Unparsable
                 /\ error' = TRUE
                 /\ UNCHANGED <<server, form, list, selected, latest, chain,
                                inspection, removed>>

Fork(f) == /\ form' = f
           /\ selected' = None /\ latest' = 0 /\ error' = FALSE
           /\ Unmount
           /\ UNCHANGED <<server, list, chain, removed>>

(* Mutant: the form is not disabled while a chain is under way.            *)
ChooseWhileBusy(f) == Fork(f)

(* chooseBehavior, or an edit of the payload: nothing is selected now.     *)
Choose(f) == doing = "idle" /\ Fork(f)
-----------------------------------------------------------------------------
(* The browser: what an answer leads to.                                   *)

Told(q, value) == [to |-> q, failed |-> FALSE, value |-> value] \in told

Ask(Q) == asked' = Q /\ told' = {}

Finish == /\ doing' = "idle" /\ target' = 0 /\ ran' = 0
          /\ Ask({})

SelectDetails(d) == /\ selected' = d
                    /\ form' = d.form
                    /\ latest' = Newest(d.runs)

LoadList ==
  /\ doing = "load"
  /\ \E L \in SUBSET Experiments :
       /\ Told("list", L)
       /\ list' = L
       /\ IF L = {} THEN Finish
                    ELSE /\ target' = Newest(L)
                         /\ Ask({"details"})
                         /\ UNCHANGED <<doing, ran>>
  /\ UNCHANGED <<server, form, selected, latest, error, inspection, removed>>

ShowDetails ==
  /\ doing \in {"load", "open"}
  /\ \E a \in told : /\ a.to = "details" /\ ~a.failed
                     /\ SelectDetails(a.value)
  /\ Finish
  /\ UNCHANGED <<server, list, error, inspection, removed>>

Deleted ==
  /\ doing = "remove"
  /\ Told("delete", target)
  /\ Ask({"list"})
  /\ removed' = removed \cup {target}
  /\ UNCHANGED <<server, panel, doing, target, ran, inspection>>

(* Mutant: the selection outlives the experiment.                          *)
KeepSelected == UNCHANGED <<selected, latest>>

DropSelected == IF selected # None /\ selected.id = target
                  THEN selected' = None /\ latest' = 0
                  ELSE UNCHANGED <<selected, latest>>

ShowRemaining ==
  /\ doing = "remove"
  /\ \E L \in SUBSET Experiments : Told("list", L) /\ list' = L
  /\ DropSelected
  /\ Finish
  /\ UNCHANGED <<server, form, error, inspection, removed>>

Created ==
  /\ doing = "execute"
  /\ \E e \in Experiments : Told("create", e) /\ target' = e
  /\ Ask({"run"})
  /\ UNCHANGED <<server, panel, doing, ran, inspection, removed>>

Ran ==
  /\ doing = "execute"
  /\ \E r \in Runs : Told("run", r) /\ ran' = r
  /\ Ask({"details", "list"})
  /\ UNCHANGED <<server, panel, doing, target, inspection, removed>>

(* Promise.all: both reads, in whichever order they were served.           *)
ShowRun ==
  /\ doing = "execute"
  /\ \E a, b \in told : /\ a.to = "details" /\ ~a.failed
                        /\ b.to = "list" /\ ~b.failed
                        /\ selected' = a.value
                        /\ list' = b.value
  /\ latest' = ran
  /\ Finish
  /\ UNCHANGED <<server, form, error, inspection, removed>>

(* Mutant: only the way that succeeds ends the chain.                      *)
ReportOnly ==
  /\ \E a \in told : a.failed
  /\ error' = TRUE
  /\ Ask({})
  /\ UNCHANGED <<server, form, list, selected, latest, doing, target, ran,
                 inspection, removed>>

(* catch and finally: the first failure ends the chain, and what it did    *)
(* before stays undone on the screen.                                      *)
Report ==
  /\ \E a \in told : a.failed
  /\ error' = TRUE
  /\ Finish
  /\ UNCHANGED <<server, form, list, selected, latest, inspection, removed>>

Arrive == \/ LoadList \/ ShowDetails \/ Deleted \/ ShowRemaining
          \/ Created \/ Ran \/ ShowRun \/ Report
-----------------------------------------------------------------------------
(* RunnerExecutionStatus, keyed by the run it is shown for.                *)

Check == /\ doing = "idle"
         /\ latest # 0 /\ checking = 0
         /\ checking' = latest
         /\ UNCHANGED <<server, panel, chain, execution, removed>>

(* A failure leaves the last retrieved state.                              *)
Checked == /\ checking # 0
           /\ execution' \in {execution, checking}
           /\ checking' = 0
           /\ UNCHANGED <<server, panel, chain, removed>>
-----------------------------------------------------------------------------
User == \/ \E e \in Experiments : OpenExperiment(e) \/ RemoveExperiment(e)
        \/ Execute \/ RejectPayload \/ Check
        \/ \E f \in Forms \cup {Unparsable} : Choose(f)

Answered == ServeRequest \/ RefuseRequest

Next == User \/ Answered \/ Arrive \/ Checked \/ Others

Spec == Init /\ [][Next]_vars

(* Every request is answered or fails in the end (the coordinator answers  *)
(* each request within its deadline), and the page's event loop runs.      *)
FairSpec == Spec /\ WF_vars(Answered) /\ WF_vars(Arrive)
-----------------------------------------------------------------------------
(* The receipt shown is one of the runs of the selected experiment, and    *)
(* the form shows the experiment that Run would repeat, whatever chain     *)
(* ended last and however it failed.                                       *)
ReceiptIsSelected ==
  /\ latest # 0 => selected # None /\ latest \in selected.runs
  /\ selected # None => form = selected.form

(* The runner execution shown below a receipt is the execution of that     *)
(* run, though its reading overlaps with the opening, deletion or run of   *)
(* another experiment.                                                     *)
InspectionIsOwn == /\ execution # 0 => execution = latest
                   /\ checking # 0 => checking = latest

PanelAgrees == ReceiptIsSelected /\ InspectionIsOwn

(* From when the coordinator has confirmed its deletion, an experiment is  *)
(* neither listed nor selected anew, by no late answer of an earlier click *)
(* and no other experiment's chain; and a deletion that ends without a     *)
(* reported failure has taken it off the page.  Where the list that must   *)
(* follow the deletion fails, the page still names the experiment, with    *)
(* the failure reported (removeExperiment of App.tsx).                     *)
RemovedStaysGone ==
  [][/\ list' # list => list' \cap removed = {}
     /\ selected' # selected /\ selected' # None => selected'.id \notin removed
     /\ (doing = "remove" /\ doing' = "idle" /\ ~error') =>
          /\ target \notin list'
          /\ selected' # None => selected'.id # target]_vars

(* The controls come back: every chain ends, whichever request failed.     *)
BusyEnds == []<>(doing = "idle")
=============================================================================
