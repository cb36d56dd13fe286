-------------------------- MODULE HolePunch_proofs --------------------------
(***************************************************************************)
(* Proofs about the hole punch manager, for any rotation, any intervals    *)
(* and any number of starts, with the goroutines of earlier runs still     *)
(* alive.                                                                  *)
(***************************************************************************)
EXTENDS HolePunch, TLAPS

(* TypeOK in three parts: the manager, the interval of the ticker, the     *)
(* goroutines.                                                             *)
ManagerTypes ==
    /\ running \in BOOLEAN
    /\ stopChan \in Runs \cup {Nil} /\ updateChan \in Runs \cup {Nil}
    /\ stopClosed \in [Runs -> BOOLEAN]
    /\ updates \in [Runs -> {"empty", "full", "closed"}]
    /\ exitNodes \in SUBSET ExitNodes
    /\ runs \in 0 .. MaxRuns /\ edits \in 0 .. MaxEdits

IntervalTypes ==
    /\ limits \in Intervals \cup {Default}
    /\ interval \in Nat /\ limits[1] <= interval /\ interval <= limits[2]

Points == {"off", "resolve", "punch", "loop", "wait", "tick", "ending", "ended"}

GoroutineTypes ==
    /\ goroutine \in [Runs -> Points]
    /\ waitsOn \in [Runs -> (Runs \cup {Nil}) \X (Runs \cup {Nil})]
    /\ resolved \in [Runs -> SUBSET ExitNodes]

(* While the manager runs its channels are those of the newest run, and    *)
(* if the goroutine of that run waits, it waits on them.  Both can fail    *)
(* once running is false: an older goroutine may have cleared it.          *)
NewestRun ==
    running =>
        /\ runs \in Runs
        /\ stopChan = runs /\ updateChan = runs
        /\ goroutine[runs] = "wait" => waitsOn[runs][2] = runs

IInv ==
    /\ ManagerTypes /\ IntervalTypes /\ GoroutineTypes
    /\ NewestRun /\ RunningHasGoroutine /\ NoLostUpdate

USE IntervalAssumption DEF Runs, Nil, Points

-----------------------------------------------------------------------------
(* Any pair the intervals are set to is in order.                          *)
LEMMA Limits ==
  ASSUME NEW i \in Intervals \cup {Default}
  PROVE  i[1] \in Nat /\ i[2] \in Nat /\ i[1] <= i[2]
  <1>1. i \in (Nat \ {0}) \X (Nat \ {0}) /\ i[1] <= i[2]
    OBVIOUS
  <1> QED
    BY <1>1

(* Nothing runs in the beginning.                                          *)
LEMMA InitIInv == Init => IInv
  <1> SUFFICES ASSUME Init PROVE IInv
    OBVIOUS
  <1>1. ManagerTypes
    <2>1. 0 \in 0 .. MaxRuns /\ 0 \in 0 .. MaxEdits
      OBVIOUS
    <2>2. running \in BOOLEAN /\ stopClosed \in [Runs -> BOOLEAN]
      BY DEF Init
    <2> QED
      BY <2>1, <2>2 DEF Init, ManagerTypes
  <1>2. IntervalTypes
    BY Limits DEF Init, IntervalTypes
  <1>3. GoroutineTypes
    BY DEF Init, GoroutineTypes
  <1>4. NewestRun /\ RunningHasGoroutine /\ NoLostUpdate
    BY DEF Init, NewestRun, RunningHasGoroutine, NoLostUpdate
  <1> QED
    BY <1>1, <1>2, <1>3, <1>4 DEF IInv

(* What the properties say of the newest goroutine follows from what a     *)
(* step does to it: a step that leaves the manager running in the same run *)
(* keeps the others alive and its own goroutine on the right channels.     *)
NewestKept(r) ==
    /\ running' => running /\ runs' = runs /\ stopChan' = stopChan
                   /\ updateChan' = updateChan
    /\ exitNodes' = exitNodes
    /\ \A q \in Runs \ {r} : goroutine'[q] = goroutine[q] /\ waitsOn'[q] = waitsOn[q]
                             /\ resolved'[q] = resolved[q]
    /\ running' => goroutine[r] \notin {"off", "ended"}
                   /\ goroutine'[r] \notin {"off", "ended"}

-----------------------------------------------------------------------------
(* The methods of the manager.                                             *)

(* Start: a new goroutine that has resolved nothing yet.                   *)
LEMMA BeginStep == ASSUME IInv, NEW nodes \in SUBSET ExitNodes, Begin(nodes) PROVE IInv'
  <1>1. runs' = runs + 1 /\ runs' \in Runs
    BY DEF IInv, ManagerTypes, Begin
  <1>2. ManagerTypes'
    BY <1>1 DEF IInv, ManagerTypes, Begin
  <1>3. IntervalTypes'
    BY DEF IInv, IntervalTypes, Begin
  <1>4. goroutine \in [Runs -> Points] /\ goroutine' = [goroutine EXCEPT ![runs'] = "resolve"]
    BY <1>1 DEF IInv, GoroutineTypes, Begin
  <1>5. goroutine' \in [Runs -> Points] /\ goroutine'[runs'] = "resolve"
    BY <1>1, <1>4
  <1>6. GoroutineTypes'
    BY <1>5 DEF IInv, GoroutineTypes, Begin
  <1>7. NewestRun'
    BY <1>1, <1>5 DEF NewestRun, Begin
  <1>8. RunningHasGoroutine'
    BY <1>5 DEF RunningHasGoroutine, Live
  <1>9. NoLostUpdate'
    BY <1>5 DEF NoLostUpdate
  <1> QED
    BY <1>2, <1>3, <1>6, <1>7, <1>8, <1>9 DEF IInv

(* Stop closes the channels of the newest run.                             *)
LEMMA StopStep == ASSUME IInv, Stop PROVE IInv'
  <1>1. ManagerTypes'
    BY DEF IInv, ManagerTypes, Stop
  <1>2. IntervalTypes' /\ GoroutineTypes'
    BY DEF IInv, IntervalTypes, GoroutineTypes, Stop
  <1>3. NewestRun' /\ RunningHasGoroutine' /\ NoLostUpdate'
    BY DEF Stop, NewestRun, RunningHasGoroutine, NoLostUpdate
  <1> QED
    BY <1>1, <1>2, <1>3 DEF IInv

(* After a change the channel of the newest run is full.                   *)
LEMMA SignalStep ==
  ASSUME ManagerTypes, NewestRun, SignalUpdate
  PROVE  /\ updates' \in [Runs -> {"empty", "full", "closed"}]
         /\ running => updates'[runs] = "full"
  <1>1. CASE running
    <2>1. updateChan = runs /\ runs \in Runs /\ runs # Nil
      BY <1>1 DEF NewestRun
    <2>2. updates' = [updates EXCEPT ![runs] = "full"]
      BY <1>1, <2>1 DEF SignalUpdate
    <2> QED
      BY <2>1, <2>2 DEF ManagerTypes
  <1>2. CASE ~ running
    BY <1>2 DEF SignalUpdate, ManagerTypes
  <1> QED
    BY <1>1, <1>2

(* A change of the rotation or of the intervals.                           *)
LEMMA EditStep == ASSUME IInv, EditExitNodes \/ SetInterval PROVE IInv'
  <1>1. /\ updates' \in [Runs -> {"empty", "full", "closed"}]
        /\ running => updates'[runs] = "full"
    <2>1. SignalUpdate
      BY DEF EditExitNodes, SetInterval
    <2> QED
      BY <2>1, SignalStep DEF IInv
  <1>2. UNCHANGED <<running, channels, runs, goroutine, waitsOn, resolved>>
    BY DEF EditExitNodes, SetInterval
  <1>3. ManagerTypes'
    <2>1. edits' \in 0 .. MaxEdits
      BY DEF IInv, ManagerTypes, EditExitNodes, SetInterval
    <2>2. exitNodes' \in SUBSET ExitNodes
      BY DEF IInv, ManagerTypes, EditExitNodes, SetInterval
    <2> QED
      BY <1>1, <1>2, <2>1, <2>2 DEF IInv, ManagerTypes, channels
  <1>4. IntervalTypes'
    <2>1. CASE EditExitNodes
      BY <2>1 DEF IInv, IntervalTypes, EditExitNodes
    <2>2. CASE SetInterval
      BY <2>2, Limits DEF SetInterval, IntervalTypes
    <2> QED
      BY <2>1, <2>2
  <1>5. GoroutineTypes'
    BY <1>2 DEF IInv, GoroutineTypes
  <1>6. NewestRun' /\ RunningHasGoroutine'
    BY <1>2 DEF IInv, NewestRun, RunningHasGoroutine, Live, channels
  <1>7. NoLostUpdate'
    BY <1>1, <1>2 DEF NoLostUpdate
  <1> QED
    BY <1>3, <1>4, <1>5, <1>6, <1>7 DEF IInv

-----------------------------------------------------------------------------
(* The goroutines.                                                         *)

(* A goroutine that goes on changes the types of nothing but its own       *)
(* entries; the interval stays between its limits.                         *)
LEMMA GoroutineTyped ==
  ASSUME IInv, NEW r \in Runs, GoroutineStep(r)
  PROVE  ManagerTypes' /\ IntervalTypes' /\ GoroutineTypes'
  <1> USE DEF GoroutineStep, Resolve, Punch, EnterSelect, Backoff, End, SelectStop,
              SelectUpdate, SelectTick
  <1>1. ManagerTypes'
    <2>1. UNCHANGED <<channels, exitNodes, runs, edits>> /\ running' \in {running, FALSE}
      OBVIOUS
    <2>2. updates' \in [Runs -> {"empty", "full", "closed"}]
      BY DEF IInv, ManagerTypes
    <2> QED
      BY <2>1, <2>2 DEF IInv, ManagerTypes, channels
  <1>2. IntervalTypes'
    <2>1. IntervalTypes /\ limits' = limits
      BY DEF IInv
    <2>2. limits[1] \in Nat /\ limits[2] \in Nat /\ limits[1] <= limits[2]
      BY <2>1, Limits DEF IntervalTypes
    <2>3. \/ interval' \in {interval, limits[1]}
          \/ interval' = IF interval * 2 > limits[2] THEN limits[2] ELSE interval * 2
      OBVIOUS
    <2> QED
      BY <2>1, <2>2, <2>3 DEF IntervalTypes
  <1>3. GoroutineTypes'
    <2>1. goroutine' \in [Runs -> Points]
      BY DEF IInv, GoroutineTypes
    <2>2. waitsOn' \in [Runs -> (Runs \cup {Nil}) \X (Runs \cup {Nil})]
      BY DEF IInv, GoroutineTypes, ManagerTypes
    <2>3. resolved' \in [Runs -> SUBSET ExitNodes]
      BY DEF IInv, GoroutineTypes, ManagerTypes
    <2> QED
      BY <2>1, <2>2, <2>3 DEF GoroutineTypes
  <1> QED
    BY <1>1, <1>2, <1>3

(* No step of a goroutine starts the manager or moves it to another run,   *)
(* and the only one by which a goroutine ends stops the manager.           *)
LEMMA NewestStep ==
  ASSUME IInv, NEW r \in Runs, GoroutineStep(r)
  PROVE  NewestKept(r)
  <1> USE DEF GoroutineStep, Resolve, Punch, EnterSelect, Backoff, End, SelectStop,
              SelectUpdate, SelectTick
  <1>1. running' => running /\ runs' = runs /\ stopChan' = stopChan /\ updateChan' = updateChan
    BY DEF channels
  <1>2. exitNodes' = exitNodes
    OBVIOUS
  <1>3. \A q \in Runs \ {r} : goroutine'[q] = goroutine[q] /\ waitsOn'[q] = waitsOn[q]
                              /\ resolved'[q] = resolved[q]
    BY DEF IInv, GoroutineTypes
  <1>4. running' => goroutine[r] \notin {"off", "ended"} /\ goroutine'[r] \notin {"off", "ended"}
    BY DEF IInv, GoroutineTypes, ManagerTypes
  <1> QED
    BY <1>1, <1>2, <1>3, <1>4 DEF NewestKept

(* If it is the newest goroutine that moves, it only comes to wait on the  *)
(* channels of its run.                                                    *)
LEMMA GoroutineNewest ==
  ASSUME IInv, NEW r \in Runs, GoroutineStep(r)
  PROVE  NewestRun' /\ RunningHasGoroutine'
  <1>1. NewestKept(r)
    BY NewestStep
  <1>2. goroutine'[r] = "wait" => goroutine[r] = "loop" /\ waitsOn'[r] = <<stopChan, updateChan>>
    BY DEF IInv, GoroutineTypes, GoroutineStep, Resolve, Punch, EnterSelect, Backoff, End,
           SelectStop, SelectUpdate, SelectTick
  <1>3. NewestRun'
    BY <1>1, <1>2 DEF IInv, NewestRun, NewestKept
  <1>4. RunningHasGoroutine'
    BY <1>1 DEF IInv, NewestRun, RunningHasGoroutine, Live, NewestKept
  <1> QED
    BY <1>3, <1>4

(* The update of a goroutine that is alone is taken out of its channel     *)
(* only by itself, and then it resolves the rotation again.                *)
LEMMA GoroutineUpdates ==
  ASSUME IInv, NEW r \in Runs, GoroutineStep(r)
  PROVE  NoLostUpdate'
  <1>1. NewestKept(r)
    BY NewestStep
  <1> SUFFICES ASSUME NEW n \in Runs, running', runs' = n,
                      \A q \in Runs \ {n} : ~ Live(q)',
                      goroutine'[n] \in {"punch", "loop", "wait", "tick"}
               PROVE  resolved'[n] \subseteq exitNodes' \/ updates'[n] = "full"
    BY DEF NoLostUpdate
  <1>2. n = r
    BY <1>1 DEF NewestKept, Live
  <1>3. running /\ runs = n /\ exitNodes' = exitNodes
    BY <1>1 DEF NewestKept
  <1>4. \A q \in Runs \ {n} : ~ Live(q)
    BY <1>1, <1>2 DEF NewestKept, Live
  <1>5. goroutine[n] = "wait" => waitsOn[n][2] = n
    BY <1>3 DEF IInv, NewestRun
  <1>6. goroutine[n] \in {"punch", "loop", "wait", "tick"}
        => resolved[n] \subseteq exitNodes \/ updates[n] = "full"
    BY <1>3, <1>4, <1>5 DEF IInv, NoLostUpdate
  <1>7. CASE Resolve(r)
    BY <1>2, <1>3, <1>7 DEF Resolve, IInv, GoroutineTypes
  <1>8. CASE Punch(r) \/ EnterSelect(r) \/ Backoff(r) \/ SelectTick(r)
    BY <1>2, <1>3, <1>6, <1>8 DEF Punch, EnterSelect, Backoff, SelectTick
  <1>9. CASE End(r) \/ SelectStop(r) \/ SelectUpdate(r)
    BY <1>2, <1>9 DEF End, SelectStop, SelectUpdate, IInv, GoroutineTypes
  <1> QED
    BY <1>7, <1>8, <1>9 DEF GoroutineStep

-----------------------------------------------------------------------------
(* Every step keeps the invariant.                                         *)
LEMMA StepIInv == ASSUME IInv, [Next]_vars PROVE IInv'
  <1>1. CASE Start \/ StartMultipleExitNodes
    <2>1. PICK nodes \in SUBSET ExitNodes : Begin(nodes)
      BY <1>1 DEF Start, StartMultipleExitNodes, IInv, ManagerTypes
    <2> QED
      BY <2>1, BeginStep
  <1>2. CASE Stop
    BY <1>2, StopStep
  <1>3. CASE EditExitNodes \/ SetInterval
    BY <1>3, EditStep
  <1>4. ASSUME NEW r \in Runs, GoroutineStep(r) PROVE IInv'
    BY <1>4, GoroutineTyped, GoroutineNewest, GoroutineUpdates DEF IInv
  <1>5. CASE Finished \/ UNCHANGED vars
    <2>1. UNCHANGED vars
      BY <1>5 DEF Finished
    <2>2. ManagerTypes' /\ IntervalTypes' /\ GoroutineTypes'
      BY <2>1 DEF IInv, vars, channels, ManagerTypes, IntervalTypes, GoroutineTypes
    <2>3. NewestRun' /\ RunningHasGoroutine' /\ NoLostUpdate'
      BY <2>1 DEF IInv, vars, channels, NewestRun, RunningHasGoroutine, NoLostUpdate, Live
    <2> QED
      BY <2>2, <2>3 DEF IInv
  <1> QED
    BY <1>1, <1>2, <1>3, <1>4, <1>5 DEF Next

(* The inductive invariant holds in every reachable state.                 *)
THEOREM HpInductive == Spec => []IInv
  <1>1. Init => IInv
    BY InitIInv
  <1>2. IInv /\ [Next]_vars => IInv'
    BY StepIInv
  <1> QED
    BY <1>1, <1>2, PTL DEF Spec

(* Type correctness; in particular the ticker's interval stays within its  *)
(* limits, whichever goroutine doubles it while the limits are changed.    *)
THEOREM HpTypeCorrect == Spec => []TypeOK
  <1>1. IInv => TypeOK
    BY DEF IInv, ManagerTypes, IntervalTypes, GoroutineTypes, TypeOK
  <1> QED
    BY <1>1, HpInductive, PTL

(* IsRunning is never true of a manager whose newest goroutine has ended.  *)
THEOREM HpRunningHasGoroutine == Spec => []RunningHasGoroutine
  <1>1. IInv => RunningHasGoroutine
    BY DEF IInv
  <1> QED
    BY <1>1, HpInductive, PTL

(* The update channel of capacity one loses no change of the rotation.     *)
THEOREM HpNoLostUpdate == Spec => []NoLostUpdate
  <1>1. IInv => NoLostUpdate
    BY DEF IInv
  <1> QED
    BY <1>1, HpInductive, PTL
=============================================================================
