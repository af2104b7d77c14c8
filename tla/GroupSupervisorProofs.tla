------------------------- MODULE GroupSupervisorProofs -------------------------
(***************************************************************************)
(* What is proved of GroupSupervisor, with and without a channel to each   *)
(* child: its types, that a coordinator outlives its runner, that an exit  *)
(* code of 0 means a complete stop, and that a stop always goes on.        *)
(***************************************************************************)
EXTENDS GroupSupervisor, TLAPS
-----------------------------------------------------------------------------
(* The inductive invariant.                                                *)

(* Before the runner is ready there is no coordinator; before stop() is    *)
(* called nobody was asked for it, and the runner was started.             *)
Order == /\ ~coordinatorStarted => proc[coordinator] = "unborn"
         /\ coordinatorStarted \/ ready => proc[runner] # "unborn"
         /\ stopping => proc[runner] # "unborn"
         /\ ~stopping => \A c \in Children : stopper["group"][c] = "none"
         /\ over => stopping
         /\ stopper["single"][coordinator] = "none"

(* A child that is waited for was told; one that is done with has ended.   *)
Waits == \A c \in Children :
           /\ \A who \in Callers :
                stopper[who][c] \in {"asked", "killed"} =>
                  told[c] # "nothing" /\ proc[c] \notin {"unborn", "absent"}
           /\ stopper["group"][c] = "done" =>
                proc[c] \in {"unborn", "absent", "gone"}
           /\ c \in noticed => proc[c] = "gone"

(* What the exit code has been given.                                      *)
Blames == /\ \A c \in Children : proc[c] = "absent" => exitCode = 1
          /\ coordinator \in early => exitCode = 1
          /\ runner \in early /\ ~coordinatorStarted => exitCode = 1
          /\ over /\ exitCode = 0 =>
               \A c \in Children : stopper["group"][c] = "done"

GroupInv == TypeOK /\ Order /\ Waits /\ Blames /\ CoordinatorOutlivesRunner
-----------------------------------------------------------------------------
(* The effect of stopChild and stop() on what they change.                 *)
LEMMA StopChildEffect ==
  ASSUME TypeOK, NEW who \in Callers, NEW C \in SUBSET Children,
         NEW stoppers \in [Callers -> [Children -> Progress]],
         StopChild(stoppers, who, C)
  PROVE  /\ stopper' \in [Callers -> [Children -> Progress]]
         /\ told' \in [Children -> {"nothing", "request", "kill"}]
         /\ stopper' = [stoppers EXCEPT ![who] = stopper'[who]]
         /\ \A c \in C :
              \/ /\ Running(c) /\ stoppers[who][c] # "done"
                 /\ stopper'[who][c] = "asked" /\ told'[c] # "nothing"
              \/ /\ ~Running(c) \/ stoppers[who][c] = "done"
                 /\ stopper'[who][c] = "done" /\ told'[c] = told[c]
         /\ \A c \in Children : told[c] # "nothing" => told'[c] # "nothing"
         /\ \A c \in Children \ C : told'[c] = told[c]
<1> DEFINE asks == {c \in C : Running(c) /\ stoppers[who][c] # "done"}
           row == [c \in Children |->
                     IF c \in asks THEN "asked"
                     ELSE IF c \in C THEN "done" ELSE stoppers[who][c]]
<1>1. stopper' = [stoppers EXCEPT ![who] = row]
  BY DEF StopChild
<1>2. told' = [c \in Children |->
                 IF c \in asks /\ told[c] = "nothing" THEN "request"
                                                      ELSE told[c]]
  BY DEF StopChild
<1>3. row \in [Children -> Progress]
  BY DEF Progress
<1>4. \A w \in Callers : stopper'[w] = IF w = who THEN row ELSE stoppers[w]
  BY <1>1
<1>5. stopper' \in [Callers -> [Children -> Progress]]
  BY <1>1, <1>3
<1>6. told' \in [Children -> {"nothing", "request", "kill"}]
  BY <1>2 DEF TypeOK
<1>7. stopper' = [stoppers EXCEPT ![who] = stopper'[who]]
  BY <1>1
<1>8. ASSUME NEW c \in C
      PROVE  \/ /\ Running(c) /\ stoppers[who][c] # "done"
                /\ stopper'[who][c] = "asked" /\ told'[c] # "nothing"
             \/ /\ ~Running(c) \/ stoppers[who][c] = "done"
                /\ stopper'[who][c] = "done" /\ told'[c] = told[c]
  <2>1. c \in Children OBVIOUS
  <2>2. stopper'[who][c] = IF c \in asks THEN "asked" ELSE "done"
    BY <1>4, <2>1
  <2>3. CASE c \in asks BY <2>1, <2>2, <2>3, <1>2
  <2>4. CASE c \notin asks BY <2>1, <2>2, <2>4, <1>2
  <2> QED BY <2>3, <2>4
<1>9. \A c \in Children : /\ told[c] # "nothing" => told'[c] # "nothing"
                          /\ c \notin C => told'[c] = told[c]
  BY <1>2
<1> QED BY <1>5, <1>6, <1>7, <1>8, <1>9

LEMMA StopEffect ==
  ASSUME TypeOK,
         NEW stoppers \in [Callers -> [Children -> Progress]],
         Stop(stoppers)
  PROVE  /\ stopper' \in [Callers -> [Children -> Progress]]
         /\ told' \in [Children -> {"nothing", "request", "kill"}]
         /\ stopping'
         /\ stopper'["single"] = stoppers["single"]
         /\ \A c \in Children : told[c] # "nothing" => told'[c] # "nothing"
         /\ stopping => stopper' = stoppers /\ told' = told
         /\ ~stopping => \A c \in Children :
              \/ /\ Running(c) /\ stoppers["group"][c] # "done"
                 /\ stopper'["group"][c] = "asked" /\ told'[c] # "nothing"
              \/ /\ ~Running(c) \/ stoppers["group"][c] = "done"
                 /\ stopper'["group"][c] = "done" /\ told'[c] = told[c]
<1>1. CASE stopping BY <1>1 DEF Stop, TypeOK
<1>2. CASE ~stopping
  <2>1. StopChild(stoppers, "group", Children) /\ stopping'
    BY <1>2 DEF Stop
  <2>2. "group" \in Callers /\ "single" \in Callers /\ "single" # "group"
    BY DEF Callers
  <2>3. Children \in SUBSET Children OBVIOUS
  <2>4. /\ stopper' \in [Callers -> [Children -> Progress]]
        /\ told' \in [Children -> {"nothing", "request", "kill"}]
    BY <2>1, <2>2, <2>3, StopChildEffect
  <2>5. stopper'["single"] = stoppers["single"]
    <3>1. stopper' = [stoppers EXCEPT !["group"] = stopper'["group"]]
      BY <2>1, <2>2, <2>3, StopChildEffect
    <3> QED BY <2>2, <3>1
  <2>6. ASSUME NEW c \in Children
        PROVE  \/ /\ Running(c) /\ stoppers["group"][c] # "done"
                  /\ stopper'["group"][c] = "asked" /\ told'[c] # "nothing"
               \/ /\ ~Running(c) \/ stoppers["group"][c] = "done"
                  /\ stopper'["group"][c] = "done" /\ told'[c] = told[c]
    BY <2>1, <2>2, <2>3, StopChildEffect
  <2>7. \A c \in Children : told[c] # "nothing" => told'[c] # "nothing"
    BY <2>1, <2>2, <2>3, StopChildEffect
  <2> QED BY <1>2, <2>1, <2>4, <2>5, <2>6, <2>7
<1> QED BY <1>1, <1>2

LEMMA AfterExitEffect ==
  ASSUME TypeOK, NEW c \in Children
  PROVE  /\ AfterExit(c) \in [Callers -> [Children -> Progress]]
         /\ \A who \in Callers, d \in Children :
              /\ AfterExit(c)[who][d] \in {"asked", "killed"} =>
                   c # d /\ AfterExit(c)[who][d] = stopper[who][d]
              /\ AfterExit(c)[who][d] \in {"none", "failed"} <=>
                   stopper[who][d] \in {"none", "failed"}
              /\ AfterExit(c)[who][d] = "failed" <=> stopper[who][d] = "failed"
              /\ AfterExit(c)[who][d] = "done" =>
                   d = c \/ stopper[who][d] = "done"
              /\ stopper[who][d] = "done" => AfterExit(c)[who][d] = "done"
BY DEF AfterExit, TypeOK, Progress
-----------------------------------------------------------------------------
LEMMA InitInv == Init => GroupInv
<1> SUFFICES ASSUME Init PROVE GroupInv OBVIOUS
<1>1. TypeOK BY DEF Init, TypeOK, Progress
<1>2. runner \in Children /\ coordinator \in Children BY DEF Children
<1>3. "group" \in Callers /\ "single" \in Callers BY DEF Callers
<1>4. Order BY <1>2, <1>3 DEF Init, Order
<1>5. Waits BY <1>3 DEF Init, Waits
<1>6. Blames BY DEF Init, Blames
<1>7. CoordinatorOutlivesRunner
  BY <1>2 DEF Init, CoordinatorOutlivesRunner
<1> QED BY <1>1, <1>4, <1>5, <1>6, <1>7 DEF GroupInv

(* The processes of the children.                                          *)
LEMMA LiveInv ==
  ASSUME GroupInv, NEW c \in Children, Live(c) PROVE GroupInv'
<1>1. /\ UNCHANGED <<supervisor, history>>
      /\ Alive(c)
      /\ \E p \in {"up", "gone"} : proc' = [proc EXCEPT ![c] = p]
      /\ code' \in [Children -> {"none", "zero", "other"}]
  BY DEF Live, Listen, Close, Terminate, Fall, Killed, Ends, Alive, GroupInv,
         TypeOK
<1>0. ready' \in BOOLEAN /\ (ready' => ready \/ c = runner)
  <2>1. ready' = (ready \/ c = runner) \/ ready' = ready
    BY DEF Live, Listen, Close, Terminate, Fall, Killed, Ends
  <2>2. ready \in BOOLEAN BY DEF GroupInv, TypeOK
  <2>3. CASE ready' = (ready \/ c = runner)
    <3>1. CASE c = runner BY <2>3, <3>1
    <3>2. CASE c # runner BY <2>2, <2>3, <3>2
    <3> QED BY <3>1, <3>2
  <2>4. CASE ready' = ready BY <2>2, <2>4
  <2> QED BY <2>1, <2>3, <2>4
<1>2. PICK p \in {"up", "gone"} : proc' = [proc EXCEPT ![c] = p]
  BY <1>1
<1>3. /\ proc \in [Children -> {"unborn", "absent", "starting", "up", "gone"}]
      /\ {runner, coordinator} = Children
  BY DEF GroupInv, TypeOK, Children
<1>4. \A d \in Children :
        /\ proc[d] = "unborn" <=> proc'[d] = "unborn"
        /\ proc[d] = "absent" <=> proc'[d] = "absent"
        /\ proc[d] = "gone" => proc'[d] = "gone"
  BY <1>1, <1>2, <1>3 DEF Alive
<1>5. TypeOK' BY <1>0, <1>1, <1>2 DEF GroupInv, TypeOK, supervisor, history
<1>6. Order'
  <2>1. ready' => proc'[runner] # "unborn"
    BY <1>0, <1>1, <1>3, <1>4 DEF GroupInv, Order, Alive
  <2> QED BY <1>1, <1>3, <1>4, <2>1 DEF GroupInv, Order, supervisor
<1>7. Waits' BY <1>1, <1>4 DEF GroupInv, Waits, supervisor
<1>8. Blames' BY <1>1, <1>3, <1>4 DEF GroupInv, Blames, supervisor, history
<1>9. CoordinatorOutlivesRunner'
  BY <1>1 DEF GroupInv, CoordinatorOutlivesRunner, supervisor, history
<1> QED BY <1>5, <1>6, <1>7, <1>8, <1>9 DEF GroupInv

(* The timers of stopChild.                                                *)
LEMMA GraceInv ==
  ASSUME GroupInv, NEW who \in Callers, NEW c \in Children, Grace(who, c)
  PROVE  GroupInv'
<1>1. /\ stopper' = [stopper EXCEPT ![who][c] = "killed"]
      /\ told' = [told EXCEPT ![c] = "kill"]
      /\ UNCHANGED <<proc, code, ready, noticed, stopping, coordinatorStarted,
                     exitCode, over, asked, early>>
      /\ stopper[who][c] = "asked"
  BY DEF Grace, processes, history
<1>2. /\ stopper \in [Callers -> [Children -> Progress]]
      /\ told \in [Children -> {"nothing", "request", "kill"}]
      /\ "group" \in Callers /\ "single" \in Callers
  BY DEF GroupInv, TypeOK, Callers
<1>3. \A w \in Callers, d \in Children :
        /\ stopper'[w][d] # stopper[w][d] =>
             /\ w = who /\ d = c
             /\ stopper[w][d] = "asked" /\ stopper'[w][d] = "killed"
        /\ told'[d] # told[d] => d = c /\ told[d] # "nothing"
        /\ told[d] # "nothing" => told'[d] # "nothing"
  BY <1>1, <1>2 DEF GroupInv, Waits
<1>4. TypeOK' BY <1>1, <1>2 DEF GroupInv, TypeOK, Progress
<1>5. Order' BY <1>1, <1>2, <1>3 DEF GroupInv, Order
<1>6. Waits' BY <1>1, <1>2, <1>3 DEF GroupInv, Waits
<1>7. Blames' BY <1>1, <1>2, <1>3 DEF GroupInv, Blames
<1>8. CoordinatorOutlivesRunner'
  <2>1. runner \in Children /\ coordinator \in Children BY DEF Children
  <2> QED BY <1>1, <1>2, <1>3, <2>1 DEF GroupInv, CoordinatorOutlivesRunner
<1> QED BY <1>4, <1>5, <1>6, <1>7, <1>8 DEF GroupInv

(* What holds of a child that stop() found.                                *)
LEMMA StopKeeps ==
  ASSUME GroupInv, NEW stoppers \in [Callers -> [Children -> Progress]],
         Stop(stoppers),
         \A who \in Callers, c \in Children :
           /\ stoppers[who][c] \in {"asked", "killed"} =>
                stopper[who][c] \in {"asked", "killed"}
           /\ stoppers["group"][c] = "done" =>
                \/ stopper["group"][c] = "done"
                \/ proc[c] = "gone"
  PROVE  /\ \A who \in Callers, c \in Children :
              stopper'[who][c] \in {"asked", "killed"} =>
                told'[c] # "nothing" /\ proc[c] \notin {"unborn", "absent"}
         /\ \A c \in Children : stopper'["group"][c] = "done" =>
              proc[c] \in {"unborn", "absent", "gone"}
<1>1. "group" \in Callers /\ "single" \in Callers
      /\ \A who \in Callers : who = "group" \/ who = "single"
  BY DEF Callers
<1>2. TypeOK /\ Waits /\ Order BY DEF GroupInv
<1>3. \A c \in Children : stopper["group"][c] = "done" =>
        proc[c] \in {"unborn", "absent", "gone"}
  BY <1>2 DEF Waits
<1>4. CASE stopping
  <2>1. stopper' = stoppers /\ told' = told BY <1>2, <1>4, StopEffect
  <2> QED BY <1>1, <1>2, <1>3, <2>1 DEF Waits
<1>5. CASE ~stopping
  <2>1. stopper'["single"] = stoppers["single"] BY <1>2, StopEffect
  <2>2. \A c \in Children : told[c] # "nothing" => told'[c] # "nothing"
    BY <1>2, StopEffect
  <2>3. ASSUME NEW c \in Children
        PROVE  \/ /\ Running(c) /\ stoppers["group"][c] # "done"
                  /\ stopper'["group"][c] = "asked" /\ told'[c] # "nothing"
               \/ /\ ~Running(c) \/ stoppers["group"][c] = "done"
                  /\ stopper'["group"][c] = "done" /\ told'[c] = told[c]
    BY <1>2, <1>5, StopEffect
  <2>4. ASSUME NEW c \in Children
        PROVE  /\ \A who \in Callers :
                    stopper'[who][c] \in {"asked", "killed"} =>
                      told'[c] # "nothing" /\ proc[c] \notin {"unborn", "absent"}
               /\ stopper'["group"][c] = "done" =>
                    proc[c] \in {"unborn", "absent", "gone"}
    <3>1. ASSUME stopper'["single"][c] \in {"asked", "killed"}
          PROVE  told'[c] # "nothing" /\ proc[c] \notin {"unborn", "absent"}
      BY <1>1, <1>2, <2>1, <2>2, <3>1 DEF Waits
    <3>2. ~Running(c) => proc[c] \in {"unborn", "absent", "gone"}
      BY <1>2 DEF Running, Waits
    <3>3. Running(c) => proc[c] \notin {"unborn", "absent"} BY DEF Running
    <3> QED BY <1>1, <1>3, <2>3, <3>1, <3>2, <3>3
  <2> QED BY <2>4
<1> QED BY <1>4, <1>5

LEMMA Names == /\ runner \in Children /\ coordinator \in Children
               /\ "group" \in Callers /\ "single" \in Callers
               /\ \A c \in Children : c = runner \/ c = coordinator
               /\ \A who \in Callers : who = "group" \/ who = "single"
BY DEF Children, Callers

LEMMA AbandonInv ==
  ASSUME GroupInv, NEW who \in Callers, NEW c \in Children, Abandon(who, c)
  PROVE  GroupInv'
<1>0. PICK stoppers : stoppers = [stopper EXCEPT ![who][c] = "failed"]
  OBVIOUS
<1>1. /\ exitCode' = 1
      /\ UNCHANGED <<proc, code, ready, noticed, coordinatorStarted, asked,
                     early>>
      /\ stopper[who][c] = "killed"
      /\ \/ /\ who = "group" /\ over' = TRUE /\ stopper' = stoppers
            /\ UNCHANGED <<stopping, told>>
         \/ /\ who = "single" /\ Stop(stoppers) /\ UNCHANGED over
  BY <1>0, Names DEF Abandon, GiveUp, processes, history
<1>2. TypeOK /\ Order /\ Waits /\ Blames /\ CoordinatorOutlivesRunner
  BY DEF GroupInv
<1>3. stopper \in [Callers -> [Children -> Progress]] BY <1>2 DEF TypeOK
<1>4. stoppers \in [Callers -> [Children -> Progress]] BY <1>0, <1>3 DEF Progress
<1>5. \A w \in Callers, d \in Children :
        stoppers[w][d] = IF w = who /\ d = c THEN "failed" ELSE stopper[w][d]
  BY <1>0, <1>3
<1>6. CASE who = "group"
  <2>1. stopper' = stoppers /\ over' = TRUE /\ UNCHANGED <<stopping, told>>
    BY <1>1, <1>6
  <2>2. stopping BY <1>1, <1>2, <1>6, Names DEF Order
  <2>3. TypeOK' BY <1>1, <1>2, <1>4, <2>1 DEF TypeOK
  <2>4. Order' BY <1>1, <1>2, <1>5, <1>6, <2>1, <2>2, Names DEF Order
  <2>5. Waits' BY <1>1, <1>2, <1>5, <2>1, Names DEF Waits
  <2>6. Blames' BY <1>1, <1>2 DEF Blames
  <2>7. CoordinatorOutlivesRunner'
    BY <1>1, <1>2, <1>5, <1>6, <2>1, Names DEF CoordinatorOutlivesRunner
  <2> QED BY <2>3, <2>4, <2>5, <2>6, <2>7 DEF GroupInv
<1>7. CASE who = "single"
  <2>1. Stop(stoppers) /\ UNCHANGED over BY <1>1, <1>7
  <2>2. /\ stopper' \in [Callers -> [Children -> Progress]]
        /\ told' \in [Children -> {"nothing", "request", "kill"}]
        /\ stopping'
        /\ stopper'["single"] = stoppers["single"]
    BY <1>2, <1>4, <2>1, StopEffect
  <2>3. TypeOK'
    <3>1. stopping' \in BOOLEAN
      BY <1>2, <2>1, <2>2 DEF Stop, TypeOK
    <3> QED BY <1>1, <1>2, <2>1, <2>2, <3>1 DEF TypeOK
  <2>4. Order'
    <3>1. proc[runner] # "unborn"
      <4>1. c = runner BY <1>1, <1>2, <1>7, Names DEF Order
      <4> QED BY <1>1, <1>2, <4>1 DEF Waits
    <3>2. stopper'["single"][coordinator] = "none"
      BY <1>2, <1>5, <2>2, <1>1, <1>7, Names DEF Order
    <3> QED BY <1>1, <1>2, <2>1, <2>2, <3>1, <3>2 DEF Order
  <2>5. Waits'
    <3>1. \A w \in Callers, d \in Children :
            /\ stoppers[w][d] \in {"asked", "killed"} =>
                 stopper[w][d] \in {"asked", "killed"}
            /\ stoppers["group"][d] = "done" =>
                 stopper["group"][d] = "done" \/ proc[d] = "gone"
      BY <1>5, Names
    <3>2. /\ \A w \in Callers, d \in Children :
              stopper'[w][d] \in {"asked", "killed"} =>
                told'[d] # "nothing" /\ proc[d] \notin {"unborn", "absent"}
          /\ \A d \in Children : stopper'["group"][d] = "done" =>
              proc[d] \in {"unborn", "absent", "gone"}
      BY <1>4, <2>1, <3>1, StopKeeps
    <3> QED BY <1>1, <1>2, <3>2 DEF Waits
  <2>6. Blames' BY <1>1, <1>2 DEF Blames
  <2>7. CoordinatorOutlivesRunner'
    <3>1. c = runner BY <1>1, <1>2, <1>7, Names DEF Order
    <3>2. stoppers["single"][runner] = "failed" BY <1>5, <1>7, <3>1
    <3> QED BY <2>2, <3>2, Names DEF CoordinatorOutlivesRunner
  <2> QED BY <2>3, <2>4, <2>5, <2>6, <2>7 DEF GroupInv
<1> QED BY <1>6, <1>7, Names

(* Starting a child, which may fail.                                       *)
LEMMA StartInv ==
  ASSUME GroupInv, NEW c \in Children, Start(c), ~stopping,
         proc[c] = "unborn", c = coordinator => proc[runner] # "unborn",
         coordinatorStarted' = (coordinatorStarted \/ c = coordinator),
         ready' \in BOOLEAN, ready' => ready,
         UNCHANGED <<code, noticed, over, history>>
  PROVE  GroupInv'
<1>1. TypeOK /\ Order /\ Waits /\ Blames /\ CoordinatorOutlivesRunner
  BY DEF GroupInv
<1>2. UNCHANGED <<code, noticed, over, asked, early>> BY DEF history
<1>5. /\ ~coordinatorStarted' => ~coordinatorStarted /\ c = runner
      /\ coordinatorStarted' => coordinatorStarted \/ c = coordinator
      /\ c = runner => ~coordinatorStarted /\ ~ready'
  BY <1>1, Names DEF Order
<1>3. CASE /\ proc' = [proc EXCEPT ![c] = "starting"]
           /\ UNCHANGED <<stopping, stopper, told, exitCode>>
  <2>1. \A d \in Children : proc'[d] = IF d = c THEN "starting" ELSE proc[d]
    BY <1>1, <1>3 DEF TypeOK
  <2>2. TypeOK' BY <1>1, <1>2, <1>3 DEF TypeOK
  <2>3. Order'
    <3>1. proc'[runner] # "unborn" \/ proc'[coordinator] = "unborn"
      BY <1>1, <1>5, <2>1, Names, GroupConstants DEF Order
    <3> QED BY <1>1, <1>2, <1>3, <1>5, <2>1, <3>1, Names, GroupConstants
            DEF Order
  <2>4. Waits' BY <1>1, <1>2, <1>3, <2>1, Names DEF Waits, Order
  <2>5. Blames' BY <1>1, <1>2, <1>3, <1>5, <2>1, Names DEF Blames
  <2>6. CoordinatorOutlivesRunner'
    BY <1>1, <1>2, <1>3 DEF CoordinatorOutlivesRunner
  <2> QED BY <2>2, <2>3, <2>4, <2>5, <2>6 DEF GroupInv
<1>4. CASE /\ proc' = [proc EXCEPT ![c] = "absent"]
           /\ exitCode' = 1
           /\ Stop(stopper)
  <2>1. \A d \in Children : proc'[d] = IF d = c THEN "absent" ELSE proc[d]
    BY <1>1, <1>4 DEF TypeOK
  <2>2. stopper \in [Callers -> [Children -> Progress]] BY <1>1 DEF TypeOK
  <2>3. /\ stopper' \in [Callers -> [Children -> Progress]]
        /\ told' \in [Children -> {"nothing", "request", "kill"}]
        /\ stopping'
        /\ stopper'["single"] = stopper["single"]
    BY <1>1, <1>4, <2>2, StopEffect
  <2>4. TypeOK'
    <3>1. stopping' \in BOOLEAN BY <1>4 DEF Stop
    <3>2. proc' \in [Children -> {"unborn", "absent", "starting", "up", "gone"}]
      BY <1>1, <1>4 DEF TypeOK
    <3>3. coordinatorStarted' \in BOOLEAN BY <1>1 DEF TypeOK
    <3> QED BY <1>1, <1>2, <1>4, <2>3, <3>1, <3>2, <3>3 DEF TypeOK
  <2>5. Order'
    <3>1. c = runner \/ proc[runner] # "unborn" BY Names
    <3> QED BY <1>1, <1>2, <1>5, <2>1, <2>3, <3>1, Names, GroupConstants
            DEF Order
  <2>6. Waits'
    <3>1. /\ \A w \in Callers, d \in Children :
              stopper'[w][d] \in {"asked", "killed"} =>
                told'[d] # "nothing" /\ proc[d] \notin {"unborn", "absent"}
          /\ \A d \in Children : stopper'["group"][d] = "done" =>
              proc[d] \in {"unborn", "absent", "gone"}
      BY <1>4, <2>2, StopKeeps
    <3> QED BY <1>1, <1>2, <2>1, <3>1 DEF Waits
  <2>7. Blames' BY <1>4, <1>1, <1>2, <1>5 DEF Blames
  <2>8. CoordinatorOutlivesRunner'
    <3>1. ~Running(coordinator)
      BY <1>1, <1>5, Names DEF Order, Running
    <3>2. told'[coordinator] = told[coordinator]
      BY <1>1, <1>4, <2>2, <3>1, Names, StopEffect
    <3> QED BY <1>1, <1>2, <2>3, <3>2 DEF CoordinatorOutlivesRunner
  <2> QED BY <2>4, <2>5, <2>6, <2>7, <2>8 DEF GroupInv
<1> QED BY <1>3, <1>4 DEF Start

LEMMA StartRunnerInv == ASSUME GroupInv, StartRunner PROVE GroupInv'
<1>1. ~stopping BY DEF StartRunner, GroupInv, Order
<1>2. UNCHANGED <<code, ready, noticed, coordinatorStarted, over, history>>
  BY DEF StartRunner
<1>3. ready' \in BOOLEAN /\ (ready' => ready)
  BY <1>2 DEF GroupInv, TypeOK
<1>4. coordinatorStarted' = (coordinatorStarted \/ runner = coordinator)
  BY <1>2, GroupConstants DEF GroupInv, TypeOK
<1>5. runner # coordinator BY GroupConstants
<1>6. proc[runner] = "unborn" /\ Start(runner) BY DEF StartRunner
<1> QED BY <1>1, <1>2, <1>3, <1>4, <1>5, <1>6, Names, StartInv

LEMMA RunnerReadyInv == ASSUME GroupInv, RunnerReady PROVE GroupInv'
<1>1. TypeOK /\ Order /\ Waits /\ Blames /\ CoordinatorOutlivesRunner
  BY DEF GroupInv
<1>2. UNCHANGED <<code, noticed, over, history>> /\ ready' = FALSE
  BY DEF RunnerReady
<1>3. CASE UNCHANGED <<proc, stopping, stopper, told, exitCode,
                       coordinatorStarted>>
  <2>1. TypeOK' BY <1>1, <1>2, <1>3 DEF TypeOK, history
  <2>2. Order' BY <1>1, <1>2, <1>3 DEF Order
  <2>3. Waits' BY <1>1, <1>2, <1>3 DEF Waits
  <2>4. Blames' BY <1>1, <1>2, <1>3 DEF Blames, history
  <2>5. CoordinatorOutlivesRunner'
    BY <1>1, <1>2, <1>3 DEF CoordinatorOutlivesRunner, history
  <2> QED BY <2>1, <2>2, <2>3, <2>4, <2>5 DEF GroupInv
<1>4. CASE /\ ~stopping /\ ~coordinatorStarted
           /\ coordinatorStarted' = TRUE /\ Start(coordinator)
  <2>1. proc[coordinator] = "unborn" BY <1>1, <1>4 DEF Order
  <2>2. proc[runner] # "unborn" BY DEF RunnerReady, GroupInv, Order
  <2>3. ready' \in BOOLEAN /\ (ready' => ready) BY <1>2
  <2>4. coordinatorStarted' = (coordinatorStarted \/ coordinator = coordinator)
    BY <1>4
  <2> QED BY <1>2, <1>4, <2>1, <2>2, <2>3, <2>4, Names, StartInv
<1> QED BY <1>3, <1>4 DEF RunnerReady

LEMMA ShutdownInv == ASSUME GroupInv, Shutdown PROVE GroupInv'
<1>1. TypeOK /\ Order /\ Waits /\ Blames BY DEF GroupInv
<1>2. /\ UNCHANGED <<proc, code, ready, noticed, coordinatorStarted, exitCode,
                     over, early>>
      /\ asked' = TRUE /\ ~over /\ Stop(stopper) /\ proc[runner] # "unborn"
  BY DEF Shutdown, processes
<1>3. stopper \in [Callers -> [Children -> Progress]] BY <1>1 DEF TypeOK
<1>4. /\ stopper' \in [Callers -> [Children -> Progress]]
      /\ told' \in [Children -> {"nothing", "request", "kill"}]
      /\ stopping'
      /\ stopper'["single"] = stopper["single"]
  BY <1>1, <1>2, <1>3, StopEffect
<1>5. TypeOK'
  <2>1. stopping' \in BOOLEAN BY <1>1, <1>2 DEF Stop, TypeOK
  <2> QED BY <1>1, <1>2, <1>4, <2>1 DEF TypeOK
<1>6. Order' BY <1>1, <1>2, <1>4 DEF Order
<1>7. Waits'
  <2>1. /\ \A w \in Callers, d \in Children :
            stopper'[w][d] \in {"asked", "killed"} =>
              told'[d] # "nothing" /\ proc[d] \notin {"unborn", "absent"}
        /\ \A d \in Children : stopper'["group"][d] = "done" =>
            proc[d] \in {"unborn", "absent", "gone"}
    BY <1>2, <1>3, StopKeeps
  <2> QED BY <1>1, <1>2, <2>1 DEF Waits
<1>8. Blames' BY <1>1, <1>2 DEF Blames
<1>9. CoordinatorOutlivesRunner' BY <1>2 DEF CoordinatorOutlivesRunner
<1> QED BY <1>5, <1>6, <1>7, <1>8, <1>9 DEF GroupInv

LEMMA StopRunnerInv == ASSUME GroupInv, StopRunner PROVE GroupInv'
<1>1. TypeOK /\ Order /\ Waits /\ Blames /\ CoordinatorOutlivesRunner
  BY DEF GroupInv
<1>2. /\ UNCHANGED <<proc, code, ready, noticed, stopping, coordinatorStarted,
                     exitCode, over, asked, early>>
      /\ StopChild(stopper, "single", {runner}) /\ proc[runner] # "unborn"
      /\ stopper["single"][runner] = "none"
  BY DEF StopRunner, processes, history
<1>3. stopper \in [Callers -> [Children -> Progress]] BY <1>1 DEF TypeOK
<1>4. {runner} \in SUBSET Children BY Names
<1>5. /\ stopper' \in [Callers -> [Children -> Progress]]
      /\ told' \in [Children -> {"nothing", "request", "kill"}]
      /\ stopper' = [stopper EXCEPT !["single"] = stopper'["single"]]
  BY <1>1, <1>2, <1>3, <1>4, Names, StopChildEffect
<1>6. \A c \in {runner} :
        \/ /\ Running(c) /\ stopper["single"][c] # "done"
           /\ stopper'["single"][c] = "asked" /\ told'[c] # "nothing"
        \/ /\ ~Running(c) \/ stopper["single"][c] = "done"
           /\ stopper'["single"][c] = "done" /\ told'[c] = told[c]
  BY <1>1, <1>2, <1>3, <1>4, Names, StopChildEffect
<1>7. told'[coordinator] = told[coordinator]
  <2>1. coordinator \in Children \ {runner} BY Names, GroupConstants
  <2> QED BY <1>1, <1>2, <1>3, <1>4, <2>1, Names, StopChildEffect
<1>8. stopper'["group"] = stopper["group"]
  BY <1>3, <1>5, Names DEF Callers
<1>9. stopper'["single"][coordinator] = "none"
  <2>1. stopper'["single"] = [c \in Children |->
          IF c \in {d \in {runner} : Running(d) /\ stopper["single"][d] # "done"}
            THEN "asked"
            ELSE IF c \in {runner} THEN "done" ELSE stopper["single"][c]]
    BY <1>2, <1>3, Names DEF StopChild
  <2> QED BY <1>1, <2>1, Names, GroupConstants DEF Order
<1>10. TypeOK' BY <1>1, <1>2, <1>5 DEF TypeOK
<1>11. Order' BY <1>1, <1>2, <1>8, <1>9 DEF Order
<1>12. Waits'
  <2>1. \A c \in Children : Running(c) => proc[c] \notin {"unborn", "absent"}
    BY DEF Running
  <2> QED BY <1>1, <1>2, <1>6, <1>7, <1>8, <1>9, <2>1, Names DEF Waits
<1>13. Blames' BY <1>1, <1>2, <1>8 DEF Blames
<1>14. CoordinatorOutlivesRunner'
  BY <1>1, <1>2, <1>7 DEF CoordinatorOutlivesRunner
<1> QED BY <1>10, <1>11, <1>12, <1>13, <1>14 DEF GroupInv

LEMMA AllStoppedInv == ASSUME GroupInv, AllStopped PROVE GroupInv'
<1>1. TypeOK /\ Order /\ Waits /\ Blames /\ CoordinatorOutlivesRunner
  BY DEF GroupInv
<1>2. /\ UNCHANGED <<proc, code, ready, noticed, stopper, told, stopping,
                     coordinatorStarted, exitCode, asked, early>>
      /\ over' = TRUE /\ stopping
      /\ \A c \in Children : stopper["group"][c] = "done"
  BY DEF AllStopped, processes, history
<1>3. TypeOK' BY <1>1, <1>2 DEF TypeOK
<1>4. Order' BY <1>1, <1>2 DEF Order
<1>5. Waits' BY <1>1, <1>2 DEF Waits
<1>6. Blames' BY <1>1, <1>2 DEF Blames
<1>7. CoordinatorOutlivesRunner' BY <1>1, <1>2 DEF CoordinatorOutlivesRunner
<1> QED BY <1>3, <1>4, <1>5, <1>6, <1>7 DEF GroupInv

LEMMA ExitInv ==
  ASSUME GroupInv, NEW c \in Children, Exit(c) PROVE GroupInv'
<1>1. TypeOK /\ Order /\ Waits /\ Blames /\ CoordinatorOutlivesRunner
  BY DEF GroupInv
<1>2. /\ UNCHANGED <<proc, code, ready, coordinatorStarted, over, asked>>
      /\ proc[c] = "gone" /\ c \notin noticed
      /\ noticed' = noticed \cup {c}
      /\ early' = IF stopping THEN early ELSE early \cup {c}
  BY DEF Exit, processes
<1>3. /\ AfterExit(c) \in [Callers -> [Children -> Progress]]
      /\ \A who \in Callers, d \in Children :
           /\ AfterExit(c)[who][d] \in {"asked", "killed"} =>
                c # d /\ AfterExit(c)[who][d] = stopper[who][d]
           /\ AfterExit(c)[who][d] = "failed" <=> stopper[who][d] = "failed"
           /\ AfterExit(c)[who][d] = "done" => d = c \/ stopper[who][d] = "done"
           /\ stopper[who][d] = "done" => AfterExit(c)[who][d] = "done"
  BY <1>1, AfterExitEffect
<1>4. \A who \in Callers, d \in Children :
        stopper[who][d] = "none" => AfterExit(c)[who][d] = "none"
  BY <1>1 DEF AfterExit, TypeOK
<1>5. CASE /\ stopping \/ (c = runner /\ coordinatorStarted)
           /\ stopper' = AfterExit(c)
           /\ UNCHANGED <<exitCode, stopping, told>>
  <2>1. TypeOK' BY <1>1, <1>2, <1>3, <1>5 DEF TypeOK
  <2>2. Order' BY <1>1, <1>2, <1>4, <1>5, Names DEF Order
  <2>3. Waits'
    <3>1. ASSUME NEW d \in Children
          PROVE  /\ \A who \in Callers :
                      stopper'[who][d] \in {"asked", "killed"} =>
                        told'[d] # "nothing" /\ proc'[d] \notin {"unborn", "absent"}
                 /\ stopper'["group"][d] = "done" =>
                      proc'[d] \in {"unborn", "absent", "gone"}
                 /\ d \in noticed' => proc'[d] = "gone"
      BY <1>1, <1>2, <1>3, <1>5, Names DEF Waits
    <3> QED BY <3>1 DEF Waits
  <2>4. Blames' BY <1>1, <1>2, <1>3, <1>5, Names, GroupConstants DEF Blames
  <2>5. CoordinatorOutlivesRunner'
    BY <1>1, <1>2, <1>3, <1>5, Names DEF CoordinatorOutlivesRunner
  <2> QED BY <2>1, <2>2, <2>3, <2>4, <2>5 DEF GroupInv
<1>6. CASE /\ ~stopping /\ ~(c = runner /\ coordinatorStarted)
           /\ Blame(c)
           /\ Stop([AfterExit(c) EXCEPT !["group"][c] = "done"])
  <2>0. PICK stoppers : stoppers = [AfterExit(c) EXCEPT !["group"][c] = "done"]
    OBVIOUS
  <2>1. Stop(stoppers) /\ exitCode' = 1 BY <1>6, <2>0 DEF Blame
  <2>2. stoppers \in [Callers -> [Children -> Progress]]
    BY <1>3, <2>0 DEF Progress
  <2>3. \A who \in Callers, d \in Children :
          stoppers[who][d] = IF who = "group" /\ d = c THEN "done"
                             ELSE AfterExit(c)[who][d]
    BY <1>3, <2>0
  <2>4. /\ stopper' \in [Callers -> [Children -> Progress]]
        /\ told' \in [Children -> {"nothing", "request", "kill"}]
        /\ stopping'
        /\ stopper'["single"] = stoppers["single"]
    BY <1>1, <2>1, <2>2, StopEffect
  <2>5. TypeOK'
    <3>1. stopping' \in BOOLEAN BY <1>6, <2>1 DEF Stop
    <3> QED BY <1>1, <1>2, <2>1, <2>4, <3>1 DEF TypeOK
  <2>6. Order'
    <3>1. proc[runner] # "unborn"
      BY <1>1, <1>2, Names DEF Order
    <3>2. stopper'["single"][coordinator] = "none"
      BY <1>1, <1>4, <2>3, <2>4, Names DEF Order
    <3> QED BY <1>1, <1>2, <2>4, <3>1, <3>2 DEF Order
  <2>7. Waits'
    <3>1. \A who \in Callers, d \in Children :
            /\ stoppers[who][d] \in {"asked", "killed"} =>
                 stopper[who][d] \in {"asked", "killed"}
            /\ stoppers["group"][d] = "done" =>
                 stopper["group"][d] = "done" \/ proc[d] = "gone"
      BY <1>2, <1>3, <2>3, Names
    <3>2. /\ \A w \in Callers, d \in Children :
              stopper'[w][d] \in {"asked", "killed"} =>
                told'[d] # "nothing" /\ proc[d] \notin {"unborn", "absent"}
          /\ \A d \in Children : stopper'["group"][d] = "done" =>
              proc[d] \in {"unborn", "absent", "gone"}
      BY <2>1, <2>2, <3>1, StopKeeps
    <3> QED BY <1>1, <1>2, <3>2 DEF Waits
  <2>8. Blames' BY <1>1, <1>2, <2>1 DEF Blames
  <2>9. CoordinatorOutlivesRunner'
    <3>1. told'[coordinator] = told[coordinator]
      <4>1. ASSUME c = coordinator
            PROVE  stoppers["group"][coordinator] = "done"
        BY <2>3, <4>1, Names
      <4>2. ASSUME c = runner PROVE ~Running(coordinator)
        BY <1>1, <1>6, <4>2 DEF Order, Running
      <4> QED BY <1>1, <1>6, <2>1, <2>2, <4>1, <4>2, Names, StopEffect
    <3>2. stopper["single"][runner] = "failed" =>
            stopper'["single"][runner] = "failed"
      BY <1>3, <2>3, <2>4, Names
    <3> QED BY <1>1, <1>2, <3>1, <3>2 DEF CoordinatorOutlivesRunner
  <2> QED BY <2>5, <2>6, <2>7, <2>8, <2>9 DEF GroupInv
<1> QED BY <1>5, <1>6 DEF Exit

LEMMA NextInv == GroupInv /\ [Next]_vars => GroupInv'
<1> SUFFICES ASSUME GroupInv, [Next]_vars PROVE GroupInv'
  OBVIOUS
<1>1. CASE StartRunner BY <1>1, StartRunnerInv
<1>2. CASE Shutdown BY <1>2, ShutdownInv
<1>3. CASE StopRunner BY <1>3, StopRunnerInv
<1>4. CASE React
  BY <1>4, RunnerReadyInv, AllStoppedInv, ExitInv, GraceInv, AbandonInv
     DEF React
<1>5. ASSUME NEW c \in Children, Live(c) PROVE GroupInv'
  BY <1>5, LiveInv
<1>6. CASE UNCHANGED vars
  BY <1>6 DEF vars, processes, supervisor, history, GroupInv, TypeOK, Order,
              Waits, Blames, CoordinatorOutlivesRunner
<1> QED BY <1>1, <1>2, <1>3, <1>4, <1>5, <1>6 DEF Next, Stopped
-----------------------------------------------------------------------------
(* The invariant holds in every reachable state.                           *)
THEOREM GroupInvariant == Spec => []GroupInv
BY InitInv, NextInv, PTL DEF Spec

(* The supervisor's state is well typed, whichever children have a channel *)
(* (start-group.mjs).                                                      *)
THEOREM GroupTypeCorrect == Spec => []TypeOK
<1>1. GroupInv => TypeOK BY DEF GroupInv
<1> QED BY <1>1, GroupInvariant, PTL

(* The coordinator is never told to stop because of its runner's end.      *)
THEOREM CoordinatorGoesOn == Spec => []CoordinatorOutlivesRunner
<1>1. GroupInv => CoordinatorOutlivesRunner BY DEF GroupInv
<1> QED BY <1>1, GroupInvariant, PTL

(* Exit code 0 means that every child that was started is gone, and that   *)
(* none failed to start or ended when it should not have.                  *)
THEOREM CleanStopIsComplete == Spec => []CleanMeansComplete
<1>1. GroupInv => CleanMeansComplete
  <2> SUFFICES ASSUME GroupInv, over, exitCode = 0
               PROVE  /\ \A c \in Children : proc[c] \in {"unborn", "gone"}
                      /\ coordinator \notin early
                      /\ runner \in early => coordinatorStarted
    BY DEF CleanMeansComplete
  <2>1. \A c \in Children : proc[c] \in {"unborn", "gone"}
    BY DEF GroupInv, Waits, Blames
  <2> QED BY <2>1 DEF GroupInv, Blames
<1> QED BY <1>1, GroupInvariant, PTL
-----------------------------------------------------------------------------
(* A stopChild asks, kills and gives up, in this order; it may be done in  *)
(* between, and never begins again.                                        *)
Onward(before, after) == \/ after = before
                         \/ before = "none"   /\ after \in {"asked", "done"}
                         \/ before = "asked"  /\ after \in {"killed", "done"}
                         \/ before = "killed" /\ after \in {"done", "failed"}

StopsAdvance == \A who \in Callers, c \in Children :
                  Onward(stopper[who][c], stopper'[who][c])

(* stop() leaves no child out, and does not outlive one that it gave up.   *)
StopsAll == \A c \in Children : /\ stopping => stopper["group"][c] # "none"
                                /\ stopper["group"][c] = "failed" => over

(* What stop() waits for: a timer or an exit of a child, or nothing more.  *)
StopGoesOn == stopping /\ ~over =>
                \/ \E c \in Children : stopper["group"][c] \in {"asked", "killed"}
                \/ \A c \in Children : stopper["group"][c] = "done"

Advances == StopsAdvance /\ StopsAll'

LEMMA StopAdvances ==
  ASSUME GroupInv, StopsAll, UNCHANGED over,
         NEW stoppers \in [Callers -> [Children -> Progress]], Stop(stoppers),
         \A who \in Callers, c \in Children : Onward(stopper[who][c], stoppers[who][c]),
         \A c \in Children : \/ stoppers["group"][c] = stopper["group"][c]
                             \/ stoppers["group"][c] = "done"
  PROVE  Advances
<1>1. TypeOK /\ Order BY DEF GroupInv
<1>2. CASE stopping
  <2>1. stopper' = stoppers /\ stopping' BY <1>1, <1>2, StopEffect
  <2>2. StopsAll' BY <1>2, <2>1 DEF StopsAll
  <2> QED BY <2>1, <2>2 DEF Advances, StopsAdvance
<1>3. CASE ~stopping
  <2>1. stopper'["single"] = stoppers["single"] BY <1>1, StopEffect
  <2>2. \A c \in Children : /\ stopper["group"][c] = "none"
                            /\ stopper'["group"][c] \in {"asked", "done"}
    BY <1>1, <1>3, StopEffect DEF Order
  <2>3. StopsAll' BY <2>2 DEF StopsAll
  <2>4. StopsAdvance BY <2>1, <2>2, Names DEF StopsAdvance, Onward
  <2> QED BY <2>3, <2>4 DEF Advances
<1> QED BY <1>2, <1>3

LEMMA ExitAdvances ==
  ASSUME GroupInv, StopsAll, NEW c \in Children, Exit(c) PROVE Advances
<1>1. TypeOK /\ Order BY DEF GroupInv
<1>2. stopper \in [Callers -> [Children -> Progress]] BY <1>1 DEF TypeOK
<1>3. /\ AfterExit(c) \in [Callers -> [Children -> Progress]]
      /\ \A who \in Callers, d \in Children :
           \/ AfterExit(c)[who][d] = stopper[who][d]
           \/ /\ stopper[who][d] \in {"asked", "killed"}
              /\ AfterExit(c)[who][d] = "done"
  BY <1>1, <1>2, AfterExitEffect DEF AfterExit
<1>4. CASE stopping \/ (c = runner /\ coordinatorStarted)
  <2>1. stopper' = AfterExit(c) /\ UNCHANGED <<stopping, over>>
    BY <1>4 DEF Exit
  <2>2. StopsAdvance BY <1>3, <2>1 DEF StopsAdvance, Onward
  <2>3. StopsAll' BY <1>3, <2>1, Names DEF StopsAll
  <2> QED BY <2>2, <2>3 DEF Advances
<1>5. CASE ~(stopping \/ (c = runner /\ coordinatorStarted))
  <2>1. PICK stoppers : stoppers = [AfterExit(c) EXCEPT !["group"][c] = "done"]
    OBVIOUS
  <2>2. Stop(stoppers) /\ UNCHANGED over BY <1>5, <2>1 DEF Exit
  <2>3. stoppers \in [Callers -> [Children -> Progress]]
    BY <1>3, <2>1 DEF Progress
  <2>4. \A who \in Callers, d \in Children :
          stoppers[who][d] = IF who = "group" /\ d = c THEN "done"
                                                       ELSE AfterExit(c)[who][d]
    BY <1>3, <2>1
  <2>5. stopper["group"][c] = "none" BY <1>1, <1>5 DEF Order
  <2>6. \A who \in Callers, d \in Children : Onward(stopper[who][d], stoppers[who][d])
    BY <1>3, <2>4, <2>5 DEF Onward
  <2>7. \A d \in Children : \/ stoppers["group"][d] = stopper["group"][d]
                            \/ stoppers["group"][d] = "done"
    BY <1>3, <2>4, Names
  <2> QED BY <2>2, <2>3, <2>6, <2>7, StopAdvances
<1> QED BY <1>4, <1>5

LEMMA StepAdvances ==
  ASSUME GroupInv, StopsAll, [Next]_vars PROVE Advances
<1>1. TypeOK /\ Order BY DEF GroupInv
<1>2. stopper \in [Callers -> [Children -> Progress]] BY <1>1 DEF TypeOK
<1>3. ASSUME UNCHANGED <<stopper, stopping>>, over => over' PROVE Advances
  BY <1>3 DEF Advances, StopsAdvance, Onward, StopsAll
<1>4. ASSUME Stop(stopper), UNCHANGED over PROVE Advances
  <2>1. \A who \in Callers, c \in Children : Onward(stopper[who][c], stopper[who][c])
    BY DEF Onward
  <2> QED BY <1>2, <1>4, <2>1, StopAdvances
<1>5. ASSUME NEW c \in Children, Start(c), UNCHANGED over PROVE Advances
  BY <1>3, <1>4, <1>5 DEF Start
<1>6. CASE StartRunner \/ RunnerReady
  BY <1>3, <1>5, <1>6, Names DEF StartRunner, RunnerReady
<1>7. CASE Shutdown BY <1>4, <1>7 DEF Shutdown
<1>8. CASE StopRunner
  <2>1. /\ StopChild(stopper, "single", {runner}) /\ UNCHANGED <<stopping, over>>
        /\ stopper["single"][runner] = "none"
        /\ {runner} \in SUBSET Children
    BY <1>8, Names DEF StopRunner
  <2>2. /\ stopper' = [stopper EXCEPT !["single"] = stopper'["single"]]
        /\ stopper'["single"][runner] \in {"asked", "done"}
    BY <1>1, <1>2, <2>1, Names, StopChildEffect
  <2>3. stopper'["group"] = stopper["group"]
    BY <1>2, <2>2, Names
  <2>4. stopper'["single"][coordinator] = stopper["single"][coordinator]
    BY <1>2, <2>1, Names, GroupConstants DEF StopChild
  <2>5. StopsAdvance BY <2>1, <2>2, <2>3, <2>4, Names DEF StopsAdvance, Onward
  <2>6. StopsAll' BY <2>1, <2>3 DEF StopsAll
  <2> QED BY <2>5, <2>6 DEF Advances
<1>9. CASE AllStopped BY <1>3, <1>9 DEF AllStopped
<1>10. ASSUME NEW who \in Callers, NEW c \in Children, Grace(who, c) PROVE Advances
  <2>1. /\ stopper' = [stopper EXCEPT ![who][c] = "killed"]
        /\ stopper[who][c] = "asked" /\ UNCHANGED <<stopping, over>>
    BY <1>10 DEF Grace
  <2>2. \A w \in Callers, d \in Children :
          stopper'[w][d] = IF w = who /\ d = c THEN "killed" ELSE stopper[w][d]
    BY <1>2, <2>1
  <2>3. StopsAdvance BY <2>1, <2>2 DEF StopsAdvance, Onward
  <2>4. StopsAll' BY <2>1, <2>2, Names DEF StopsAll
  <2> QED BY <2>3, <2>4 DEF Advances
<1>11. ASSUME NEW who \in Callers, NEW c \in Children, Abandon(who, c) PROVE Advances
  <2>1. PICK stoppers : stoppers = [stopper EXCEPT ![who][c] = "failed"]
    OBVIOUS
  <2>2. /\ stopper[who][c] = "killed"
        /\ \/ who = "group" /\ over' = TRUE /\ stopper' = stoppers /\ UNCHANGED stopping
           \/ who = "single" /\ Stop(stoppers) /\ UNCHANGED over
    BY <1>11, <2>1, Names DEF Abandon, GiveUp
  <2>3. /\ stoppers \in [Callers -> [Children -> Progress]]
        /\ \A w \in Callers, d \in Children :
             stoppers[w][d] = IF w = who /\ d = c THEN "failed" ELSE stopper[w][d]
    BY <1>2, <2>1 DEF Progress
  <2>4. \A w \in Callers, d \in Children : Onward(stopper[w][d], stoppers[w][d])
    BY <2>2, <2>3 DEF Onward
  <2>5. CASE who = "group"
    <3>1. over' = TRUE /\ stopper' = stoppers /\ UNCHANGED stopping BY <2>2, <2>5
    <3>2. StopsAll' BY <2>3, <3>1, Names DEF StopsAll
    <3> QED BY <2>4, <3>1, <3>2 DEF Advances, StopsAdvance
  <2>6. CASE who = "single"
    <3>1. \A d \in Children : stoppers["group"][d] = stopper["group"][d]
      BY <2>3, <2>6, Names
    <3> QED BY <2>2, <2>3, <2>4, <2>6, <3>1, StopAdvances
  <2> QED BY <2>5, <2>6, Names
<1>12. ASSUME NEW c \in Children, Live(c) PROVE Advances
  BY <1>3, <1>12
     DEF Live, Listen, Close, Terminate, Fall, Killed, Ends, supervisor
<1>13. CASE UNCHANGED vars BY <1>3, <1>13 DEF vars, supervisor
<1> QED
  BY <1>6, <1>7, <1>8, <1>9, <1>10, <1>11, <1>12, <1>13, ExitAdvances
     DEF Next, React, Stopped

(* Each stopChild of either caller goes through its stages in order and    *)
(* ends for good, whatever the children and their exits do meanwhile.      *)
THEOREM StopsOnlyAdvance == Spec => [][StopsAdvance]_vars
<1>1. Init => StopsAll BY Names DEF Init, StopsAll
<1>2. GroupInv /\ StopsAll /\ [Next]_vars => StopsAll' /\ [StopsAdvance]_vars
  BY StepAdvances DEF Advances
<1> QED BY <1>1, <1>2, GroupInvariant, PTL DEF Spec

(* stop() always waits for something that comes: the end of each child     *)
(* that is not done has a timer (stopChild), and none was left out.        *)
THEOREM StopAlwaysGoesOn == Spec => []StopGoesOn
<1>1. Init => StopsAll BY Names DEF Init, StopsAll
<1>2. GroupInv /\ StopsAll /\ [Next]_vars => StopsAll'
  BY StepAdvances DEF Advances
<1>3. GroupInv /\ StopsAll => StopGoesOn
  <2> SUFFICES ASSUME GroupInv, StopsAll, stopping, ~over,
                      NEW c \in Children, stopper["group"][c] # "done"
               PROVE  stopper["group"][c] \in {"asked", "killed"}
    BY DEF StopGoesOn
  <2> QED BY Names DEF GroupInv, TypeOK, Progress, StopsAll
<1> QED BY <1>1, <1>2, <1>3, GroupInvariant, PTL DEF Spec
=============================================================================
