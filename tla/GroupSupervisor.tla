---------------------------- MODULE GroupSupervisor ----------------------------
(***************************************************************************)
(* The supervisors of the group demo (scripts/start-group.mjs and          *)
(* start-group-dotnet.mjs, stopChild in scripts/smoke-support.mjs, and the *)
(* entry points of runner and coordinator).  The runner is started first,  *)
(* the coordinator once the runner says that it listens.  A runner that    *)
(* ends later is only announced: the coordinator goes on without it.  Any  *)
(* other end of a child, and a failure to start one, stops the group.      *)
(*                                                                         *)
(* Stopping asks every child, then kills it, then gives up on it, each     *)
(* after a time of its own; requests, exits, messages and timers come in   *)
(* any order.  Children may crash, hang, or refuse to die.                 *)
(***************************************************************************)
CONSTANTS runner, coordinator,
          Channel \* children with an IPC channel (not a .NET coordinator)

Children == {runner, coordinator}

ASSUME GroupConstants == runner # coordinator /\ Channel \subseteq Children

VARIABLES proc,               \* child -> its process
          code,               \* child -> its exit code, as far as it matters
          told,               \* child -> the strongest thing it was told
          ready,              \* is a runner-ready message under way?
          noticed,            \* children whose exit event was handled
          stopper,            \* caller -> child -> its stopChild
          stopping,           \* was stop() called?
          coordinatorStarted,
          exitCode,           \* process.exitCode
          over,               \* has what stop() awaits ended?
          asked,              \* history: was the group asked to stop?
          early               \* history: exits handled before stop()

processes  == <<proc, code, ready>>
supervisor == <<noticed, stopper, told, stopping, coordinatorStarted, exitCode,
                over>>
history    == <<asked, early>>
vars       == <<processes, supervisor, history>>
-----------------------------------------------------------------------------
(* stopChild runs for stop(), and for a request to stop the runner only.   *)
Callers == {"group", "single"}

Progress == {"none", "asked", "killed", "done", "failed"}

TypeOK ==
  /\ proc \in [Children -> {"unborn", "absent", "starting", "up", "gone"}]
  /\ code \in [Children -> {"none", "zero", "other"}]
  /\ told \in [Children -> {"nothing", "request", "kill"}]
  /\ ready \in BOOLEAN
  /\ noticed \subseteq Children
  /\ stopper \in [Callers -> [Children -> Progress]]
  /\ stopping \in BOOLEAN
  /\ coordinatorStarted \in BOOLEAN
  /\ exitCode \in {0, 1}
  /\ over \in BOOLEAN
  /\ asked \in BOOLEAN
  /\ early \subseteq Children

Init ==
  /\ proc = [c \in Children |-> "unborn"]
  /\ code = [c \in Children |-> "none"]
  /\ told = [c \in Children |-> "nothing"]
  /\ ready = FALSE
  /\ noticed = {}
  /\ stopper = [who \in Callers |-> [c \in Children |-> "none"]]
  /\ stopping = FALSE
  /\ coordinatorStarted = FALSE
  /\ exitCode = 0
  /\ over = FALSE
  /\ asked = FALSE
  /\ early = {}
-----------------------------------------------------------------------------
(* The children.                                                           *)

Alive(c) == proc[c] \in {"starting", "up"}

(* It listens; the runner says so.                                         *)
Listen(c) ==
  /\ proc[c] = "starting"
  /\ proc' = [proc EXCEPT ![c] = "up"]
  /\ ready' = (ready \/ c = runner)
  /\ UNCHANGED <<code, supervisor, history>>

Ends(c, how) == /\ proc' = [proc EXCEPT ![c] = "gone"]
                /\ code' = [code EXCEPT ![c] = how]
                /\ UNCHANGED <<ready, supervisor, history>>

(* It closes what it has open: 0, or 1 where the runner's close fails.     *)
Close(c) == /\ proc[c] = "up" /\ told[c] = "request"
            /\ \E how \in {"zero", "other"} : Ends(c, how)

(* A request on the channel waits for its handler, SIGTERM does not.       *)
Terminate(c) == /\ proc[c] = "starting" /\ told[c] = "request"
                /\ c \notin Channel
                /\ Ends(c, "other")

(* It crashes, or a terminal's interrupt reaches it directly.              *)
Fall(c) == Alive(c) /\ \E how \in {"zero", "other"} : Ends(c, how)

Killed(c) == Alive(c) /\ told[c] = "kill" /\ Ends(c, "other")
-----------------------------------------------------------------------------
(* stopChild.                                                              *)

(* The supervisor has not seen it end.                                     *)
Running(c) == proc[c] \notin {"unborn", "absent"} /\ c \notin noticed

(* Nothing to do for a child that ended; the others are asked.             *)
StopChild(stoppers, who, C) ==
  LET asks == {c \in C : Running(c) /\ stoppers[who][c] # "done"} IN
  /\ stopper' = [stoppers EXCEPT ![who] =
                   [c \in Children |-> IF c \in asks THEN "asked"
                                      ELSE IF c \in C THEN "done" ELSE @[c]]]
  /\ told' = [c \in Children |->
                IF c \in asks /\ told[c] = "nothing" THEN "request"
                                                     ELSE told[c]]

Stop(stoppers) ==
  IF stopping
    THEN stopper' = stoppers /\ UNCHANGED <<stopping, told>>
    ELSE stopping' = TRUE /\ StopChild(stoppers, "group", Children)

(* The time of grace is over.                                              *)
Grace(who, c) ==
  /\ stopper[who][c] = "asked"
  /\ stopper' = [stopper EXCEPT ![who][c] = "killed"]
  /\ told' = [told EXCEPT ![c] = "kill"]
  /\ UNCHANGED <<processes, noticed, stopping, coordinatorStarted, exitCode,
                 over, history>>

GiveUp(who, c) ==
  LET stoppers == [stopper EXCEPT ![who][c] = "failed"] IN
  /\ exitCode' = 1
  /\ IF who = "group"
       THEN over' = TRUE /\ stopper' = stoppers /\ UNCHANGED <<stopping, told>>
       ELSE Stop(stoppers) /\ UNCHANGED over
  /\ UNCHANGED <<processes, noticed, coordinatorStarted, history>>

(* Mutant: a killed child is waited for, however long it takes.            *)
AbandonOnceGone(who, c) == /\ stopper[who][c] = "killed"
                         /\ proc[c] = "gone"
                         /\ GiveUp(who, c)

(* Killed and still there: stop() gives up, and so does a request for the  *)
(* runner, by stopping the group.                                          *)
Abandon(who, c) == stopper[who][c] = "killed" /\ GiveUp(who, c)
-----------------------------------------------------------------------------
(* The supervisor.                                                         *)

(* spawn, and the error event of a spawn that failed.                      *)
Start(c) ==
  \/ /\ proc' = [proc EXCEPT ![c] = "starting"]
     /\ UNCHANGED <<stopping, stopper, told, exitCode>>
  \/ /\ proc' = [proc EXCEPT ![c] = "absent"]
     /\ exitCode' = 1
     /\ Stop(stopper)

StartRunner == /\ proc[runner] = "unborn"
               /\ Start(runner)
               /\ UNCHANGED <<code, ready, noticed, coordinatorStarted, over,
                              history>>

(* Mutant: the flag is left for the coordinator's own ready message.       *)
RunnerReadyUnflagged ==
  /\ ready /\ ready' = FALSE
  /\ IF stopping \/ coordinatorStarted \/ proc[coordinator] # "unborn"
       THEN UNCHANGED <<proc, stopping, stopper, told, exitCode>>
       ELSE Start(coordinator)
  /\ UNCHANGED <<code, noticed, coordinatorStarted, over, history>>

RunnerReady ==
  /\ ready /\ ready' = FALSE
  /\ IF stopping \/ coordinatorStarted
       THEN UNCHANGED <<proc, stopping, stopper, told, exitCode,
                        coordinatorStarted>>
       ELSE coordinatorStarted' = TRUE /\ Start(coordinator)
  /\ UNCHANGED <<code, noticed, over, history>>

(* Whoever waits for this exit.                                            *)
AfterExit(c) ==
  [who \in Callers |->
     IF stopper[who][c] \in {"asked", "killed"}
       THEN [stopper[who] EXCEPT ![c] = "done"] ELSE stopper[who]]

(* Mutant: an early exit is passed on as it is.                            *)
PassOn(c) == exitCode' = IF code[c] = "zero" THEN 0 ELSE 1

(* code || 1: an early exit is never a success.                            *)
Blame(c) == exitCode' = 1

(* The exit event: its handlers run one after the other.                   *)
Exit(c) ==
  /\ proc[c] = "gone" /\ c \notin noticed
  /\ noticed' = noticed \cup {c}
  /\ early' = IF stopping THEN early ELSE early \cup {c}
  /\ IF stopping \/ (c = runner /\ coordinatorStarted)
       THEN /\ stopper' = AfterExit(c)
            /\ UNCHANGED <<exitCode, stopping, told>>
       ELSE /\ Blame(c)
            /\ Stop([AfterExit(c) EXCEPT !["group"][c] = "done"])
  /\ UNCHANGED <<processes, coordinatorStarted, over, asked>>

(* Promise.all.                                                            *)
AllStopped == /\ stopping /\ ~over
              /\ \A c \in Children : stopper["group"][c] = "done"
              /\ over' = TRUE
              /\ UNCHANGED <<processes, noticed, stopper, told, stopping,
                             coordinatorStarted, exitCode, history>>

(* SIGINT, SIGTERM, or a message.                                          *)
Shutdown == /\ proc[runner] # "unborn" /\ ~over
            /\ asked' = TRUE
            /\ Stop(stopper)
            /\ UNCHANGED <<processes, noticed, coordinatorStarted, exitCode,
                           over, early>>

StopRunner == /\ proc[runner] # "unborn" /\ ~over
              /\ stopper["single"][runner] = "none"
              /\ StopChild(stopper, "single", {runner})
              /\ UNCHANGED <<processes, noticed, stopping, coordinatorStarted,
                             exitCode, over, history>>
-----------------------------------------------------------------------------
Live(c) == Listen(c) \/ Close(c) \/ Terminate(c) \/ Fall(c) \/ Killed(c)

(* Events and timers of the supervisor.                                    *)
React == \/ RunnerReady \/ AllStopped
         \/ \E c \in Children : Exit(c)
         \/ \E who \in Callers, c \in Children : Grace(who, c) \/ Abandon(who, c)

Stopped == over /\ UNCHANGED vars

Next == \/ StartRunner \/ Shutdown \/ StopRunner \/ React \/ Stopped
        \/ \E c \in Children : Live(c)

Spec == Init /\ [][Next]_vars

(* The supervisor's event loop and timers; of the children nothing.        *)
FairSpec == Spec /\ WF_vars(React)
-----------------------------------------------------------------------------
(* A supervisor that ends with exit code 0 leaves no child behind, and no  *)
(* child had failed to start or ended early: neither the stop that gave up *)
(* nor a crash, an exit with code 0 included, is reported as a success.    *)
(* The one early end that is accepted is the runner's, once the            *)
(* coordinator was started.                                                *)
CleanMeansComplete ==
  over /\ exitCode = 0 =>
    /\ \A c \in Children : proc[c] \in {"unborn", "gone"}
    /\ coordinator \notin early
    /\ runner \in early => coordinatorStarted

(* The coordinator is told to stop because the group was asked to, or      *)
(* because a runner would not die: never because the runner ended, crashed *)
(* or was stopped, whenever that happened.                                 *)
CoordinatorOutlivesRunner ==
  told[coordinator] # "nothing" => asked \/ stopper["single"][runner] = "failed"

(* A stop ends, whatever the children do (stopChild: "an unresponsive      *)
(* fixture cannot hang the test teardown").                                *)
StopEnds == stopping ~> over
=============================================================================
