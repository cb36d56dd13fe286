------------------------ MODULE HealthMonitor_proofs ------------------------
(***************************************************************************)
(* Proofs about the health check monitor, for any number of instances and  *)
(* of goroutines and for any thresholds.                                   *)
(***************************************************************************)
EXTENDS HealthMonitor, TLAPS

(* TypeOK in three parts: the table and its contexts, the results, the     *)
(* goroutines.                                                             *)
TableTypes ==
    /\ current \in Targets \cup {Nil}
    /\ made \in 0 .. MaxTarget
    /\ enabled \in [Targets -> BOOLEAN]
    /\ context \in [Targets -> Contexts \cup {Nil}]
    /\ contexts \in 0 .. (MaxTarget + MaxMonitor)
    /\ cancelled \subseteq Contexts

ResultTypes ==
    /\ status \in [Targets -> Status]
    /\ successes \in [Targets -> 0 .. HealthyThreshold]
    /\ failures \in [Targets -> 0 .. UnhealthyThreshold]
    /\ clash \in [Targets -> BOOLEAN]

Points == {"none", "begin", "checking", "doomed", "passed", "failed", "loop",
           "select", "ended"}

GoroutineTypes ==
    /\ pc \in [Monitors -> Points]
    /\ subject \in [Monitors -> Targets \cup {Nil}]
    /\ using \in [Monitors -> Contexts \cup {Nil}]
    /\ started \in 0 .. MaxMonitor
    /\ \A g \in Monitors : pc[g] # "none" => subject[g] \in Targets

(* A context is made with an instance or with a goroutine, the current     *)
(* instance has been made, and only contexts that were made are cancelled: *)
(* the next one is not.                                                    *)
Fresh ==
    /\ contexts <= made + started
    /\ current <= made
    /\ cancelled \subseteq 1 .. contexts
    /\ \A t \in Targets : t <= made => context[t] \in 1 .. contexts

(* While no two goroutines have recorded results of an instance at the     *)
(* same time, at most one is between the two steps of recording, and the   *)
(* streak it ends is at zero until it is done.                             *)
OneRecorder ==
    \A t \in Targets : ~ clash[t] =>
        /\ \A f, g \in Recording(t) : f = g
        /\ \A g \in Recording(t) :
              /\ pc[g] = "passed" => failures[t] = 0
              /\ pc[g] = "failed" => successes[t] = 0

IInv ==
    /\ TableTypes /\ ResultTypes /\ GoroutineTypes /\ Fresh
    /\ OneRecorder /\ StatusAgrees /\ EnabledIsMonitored

USE TargetAssumption, MonitorAssumption, ThresholdAssumption
    DEF Nil, Targets, Monitors, Contexts, Status, Points

-----------------------------------------------------------------------------
(* The three parts make up the type invariant.                             *)
LEMMA Types == ASSUME TableTypes, ResultTypes, GoroutineTypes PROVE TypeOK
  BY DEF TypeOK, TableTypes, ResultTypes, GoroutineTypes

(* Nothing is monitored in the beginning.                                  *)
LEMMA InitIInv == Init => IInv
  <1> SUFFICES ASSUME Init PROVE IInv
    OBVIOUS
  <1>1. TableTypes /\ Fresh
    BY DEF Init, TableTypes, Fresh
  <1>2. ResultTypes
    BY DEF Init, ResultTypes
  <1>3. GoroutineTypes
    BY DEF Init, GoroutineTypes
  <1>4. OneRecorder
    BY DEF Init, OneRecorder, Recording
  <1>5. StatusAgrees
    BY DEF Init, StatusAgrees
  <1>6. EnabledIsMonitored
    BY DEF Init, EnabledIsMonitored
  <1> QED
    BY <1>1, <1>2, <1>3, <1>4, <1>5, <1>6 DEF IInv

-----------------------------------------------------------------------------
(* The table.                                                              *)

(* Cancelling the context of the current instance cancels one that was     *)
(* made.                                                                   *)
LEMMA CancelStep ==
  ASSUME TableTypes, Fresh, cancelled' = cancelled \cup CurrentContext,
         contexts' \in {contexts, contexts + 1}, contexts' <= MaxTarget + MaxMonitor
  PROVE  cancelled' \subseteq 1 .. contexts' /\ cancelled' \subseteq Contexts
  <1>1. current # Nil => current \in Targets /\ context[current] \in 1 .. contexts
    BY DEF TableTypes, Fresh
  <1>2. CurrentContext \subseteq 1 .. contexts
    BY <1>1 DEF CurrentContext
  <1>3. cancelled \subseteq 1 .. contexts
    BY DEF Fresh
  <1>4. contexts \in Nat /\ contexts' \in Nat
    BY DEF TableTypes
  <1>5. cancelled' \subseteq 1 .. contexts'
    BY <1>2, <1>3, <1>4
  <1> QED
    BY <1>4, <1>5

(* What starting a goroutine does.                                         *)
Started(t) ==
    /\ started' \in Monitors /\ started' = started + 1
    /\ pc' = [pc EXCEPT ![started'] = "begin"]
    /\ subject' = [subject EXCEPT ![started'] = t]
    /\ using' = using

(* A new goroutine is one that did not exist, about to check the instance  *)
(* it was started for.                                                     *)
LEMMA StartStep ==
  ASSUME GoroutineTypes, NEW t \in Targets, StartMonitor(t)
  PROVE  Started(t) /\ GoroutineTypes'
  <1>1. Started(t)
    BY DEF StartMonitor, GoroutineTypes, Started
  <1>2. GoroutineTypes'
    BY <1>1 DEF Started, GoroutineTypes
  <1> QED
    BY <1>1, <1>2

(* A step that changes no result and no goroutine that is recording keeps  *)
(* what is known of the results.                                           *)
LEMMA ResultFrame ==
  ASSUME IInv, UNCHANGED healthVars,
         \A t \in Targets : Recording(t)' \subseteq Recording(t),
         \A t \in Targets : \A g \in Recording(t)' : pc'[g] = pc[g]
  PROVE  ResultTypes' /\ OneRecorder' /\ StatusAgrees'
  <1>1. ResultTypes'
    BY DEF IInv, ResultTypes, healthVars
  <1>2. OneRecorder'
    BY DEF IInv, OneRecorder, healthVars
  <1>3. StatusAgrees'
    BY DEF IInv, StatusAgrees, healthVars
  <1> QED
    BY <1>1, <1>2, <1>3

(* A goroutine that is started is not recording.                           *)
LEMMA StartRecords ==
  ASSUME GoroutineTypes, NEW t \in Targets, Started(t)
  PROVE  /\ \A u \in Targets : Recording(u)' \subseteq Recording(u)
         /\ \A u \in Targets : \A g \in Recording(u)' : pc'[g] = pc[g]
  BY DEF GoroutineTypes, Started, Recording

(* An instance that was just enabled, with a fresh context and a new       *)
(* goroutine, is monitored.                                                *)
LEMMA StartMonitors ==
  ASSUME GoroutineTypes, NEW t \in Targets, Started(t), current' = t,
         context'[t] \notin cancelled'
  PROVE  EnabledIsMonitored'
  <1>1. started' \in Monitors /\ subject'[started'] = t /\ pc'[started'] = "begin"
    BY DEF GoroutineTypes, Started
  <1>2. started' \in Running(t)'
    BY <1>1 DEF Running
  <1> QED
    BY <1>1, <1>2 DEF EnabledIsMonitored

-----------------------------------------------------------------------------
(* AddTarget keeps the invariant: the instance and its context are new.    *)
LEMMA AddStep == ASSUME IInv, NEW on \in BOOLEAN, AddTarget(on) PROVE IInv'
  <1>1. made' \in Targets /\ current' = made' /\ made' = made + 1
    BY DEF IInv, AddTarget, TableTypes
  <1>2. contexts' = contexts + 1 /\ contexts' \in Contexts /\ contexts' <= made' + started
    BY DEF IInv, AddTarget, TableTypes, GoroutineTypes, Fresh
  <1>3. cancelled' \subseteq Contexts /\ cancelled' \subseteq 1 .. contexts'
    BY <1>2, CancelStep DEF IInv, AddTarget
  <1>4. TableTypes'
    BY <1>1, <1>2, <1>3 DEF IInv, AddTarget, TableTypes
  <1>5. \A t \in Targets : t <= made' => context'[t] \in 1 .. contexts'
    BY <1>1, <1>2 DEF IInv, AddTarget, TableTypes, Fresh
  <1>6. context'[made'] = contexts' /\ contexts' \notin cancelled'
    <2>1. contexts \in Nat /\ cancelled \subseteq 1 .. contexts
      BY DEF IInv, TableTypes, Fresh
    <2>2. CurrentContext \subseteq 1 .. contexts
      BY DEF IInv, TableTypes, Fresh, CurrentContext
    <2> QED
      BY <1>1, <1>2, <2>1, <2>2 DEF IInv, AddTarget, TableTypes
  <1>7. enabled'[made'] = on
    BY <1>1 DEF IInv, AddTarget, TableTypes
  <1>8. CASE on
    <2>1. Started(made') /\ GoroutineTypes'
      BY <1>1, <1>8, StartStep DEF IInv, AddTarget
    <2>2. Fresh'
      BY <1>1, <1>2, <1>3, <1>5, <2>1 DEF Fresh, Started, IInv, TableTypes, GoroutineTypes
    <2>3. ResultTypes' /\ OneRecorder' /\ StatusAgrees'
      BY <1>1, <2>1, StartRecords, ResultFrame DEF IInv, AddTarget
    <2>4. EnabledIsMonitored'
      BY <1>1, <1>6, <2>1, StartMonitors DEF IInv
    <2> QED
      BY <1>4, <2>1, <2>2, <2>3, <2>4 DEF IInv
  <1>9. CASE ~ on
    <2>1. UNCHANGED monitorVars
      BY <1>9 DEF AddTarget
    <2>2. GoroutineTypes'
      BY <2>1 DEF IInv, GoroutineTypes, monitorVars
    <2>3. Fresh'
      BY <1>1, <1>2, <1>3, <1>5, <2>1 DEF Fresh, monitorVars
    <2>4. ResultTypes' /\ OneRecorder' /\ StatusAgrees'
      BY <2>1, ResultFrame DEF AddTarget, Recording, monitorVars
    <2>5. EnabledIsMonitored'
      BY <1>1, <1>7, <1>9 DEF EnabledIsMonitored
    <2> QED
      BY <1>4, <2>2, <2>3, <2>4, <2>5 DEF IInv
  <1> QED
    BY <1>8, <1>9

(* RemoveTarget keeps it: there is no current instance any more.           *)
LEMMA RemoveStep == ASSUME IInv, RemoveTarget PROVE IInv'
  <1>1. cancelled' \subseteq Contexts /\ cancelled' \subseteq 1 .. contexts'
    <2>1. contexts' = contexts /\ contexts <= MaxTarget + MaxMonitor
      BY DEF IInv, RemoveTarget, TableTypes
    <2> QED
      BY <2>1, CancelStep DEF IInv, RemoveTarget
  <1>2. TableTypes'
    BY <1>1 DEF IInv, RemoveTarget, TableTypes
  <1>3. Fresh'
    BY <1>1 DEF IInv, RemoveTarget, Fresh, TableTypes, monitorVars
  <1>4. GoroutineTypes'
    BY DEF IInv, RemoveTarget, GoroutineTypes, monitorVars
  <1>5. ResultTypes' /\ OneRecorder' /\ StatusAgrees'
    BY ResultFrame DEF RemoveTarget, Recording, monitorVars
  <1>6. EnabledIsMonitored'
    BY DEF RemoveTarget, EnabledIsMonitored
  <1> QED
    BY <1>2, <1>3, <1>4, <1>5, <1>6 DEF IInv

(* EnableTarget keeps it: the context is new, and so is a goroutine.       *)
LEMMA EnableStep == ASSUME IInv, EnableTarget PROVE IInv'
  <1>1. contexts' = contexts + 1 /\ contexts' \in Contexts /\ current \in Targets
    BY DEF IInv, EnableTarget, TableTypes
  <1>2. cancelled' \subseteq Contexts /\ cancelled' \subseteq 1 .. contexts'
    BY <1>1, CancelStep DEF IInv, EnableTarget
  <1>3. TableTypes'
    BY <1>1, <1>2 DEF IInv, EnableTarget, TableTypes
  <1>4. \A t \in Targets : t <= made => context'[t] \in 1 .. contexts'
    BY <1>1 DEF IInv, EnableTarget, TableTypes, Fresh
  <1>5. context'[current] = contexts' /\ contexts' \notin cancelled'
    <2>1. contexts \in Nat /\ cancelled \subseteq 1 .. contexts
      BY DEF IInv, TableTypes, Fresh
    <2>2. CurrentContext \subseteq 1 .. contexts
      BY DEF IInv, TableTypes, Fresh, CurrentContext
    <2> QED
      BY <1>1, <2>1, <2>2 DEF IInv, EnableTarget, TableTypes
  <1>6. Started(current) /\ GoroutineTypes'
    BY <1>1, StartStep DEF IInv, EnableTarget
  <1>7. Fresh'
    BY <1>1, <1>2, <1>4, <1>6
       DEF IInv, EnableTarget, Fresh, Started, TableTypes, GoroutineTypes
  <1>8. ResultTypes' /\ OneRecorder' /\ StatusAgrees'
    BY <1>1, <1>6, StartRecords, ResultFrame DEF IInv, EnableTarget
  <1>9. EnabledIsMonitored'
    BY <1>1, <1>5, <1>6, StartMonitors DEF IInv, EnableTarget
  <1> QED
    BY <1>3, <1>6, <1>7, <1>8, <1>9 DEF IInv

(* DisableTarget keeps it: an unknown status agrees with any streaks.      *)
LEMMA DisableStep == ASSUME IInv, DisableTarget PROVE IInv'
  <1>1. current \in Targets
    BY DEF IInv, DisableTarget, TableTypes
  <1>2. cancelled' \subseteq Contexts /\ cancelled' \subseteq 1 .. contexts'
    <2>1. contexts' = contexts /\ contexts <= MaxTarget + MaxMonitor
      BY DEF IInv, DisableTarget, TableTypes
    <2> QED
      BY <2>1, CancelStep DEF IInv, DisableTarget
  <1>3. TableTypes'
    BY <1>1, <1>2 DEF IInv, DisableTarget, TableTypes
  <1>4. Fresh'
    BY <1>2 DEF IInv, DisableTarget, Fresh, monitorVars
  <1>5. GoroutineTypes'
    BY DEF IInv, DisableTarget, GoroutineTypes, monitorVars
  <1>6. ResultTypes'
    BY <1>1 DEF IInv, DisableTarget, ResultTypes
  <1>7. OneRecorder'
    BY DEF IInv, DisableTarget, OneRecorder, Recording, monitorVars
  <1>8. StatusAgrees'
    BY <1>1 DEF IInv, DisableTarget, StatusAgrees, ResultTypes
  <1>9. EnabledIsMonitored'
    BY <1>1 DEF IInv, DisableTarget, EnabledIsMonitored, TableTypes
  <1> QED
    BY <1>3, <1>4, <1>5, <1>6, <1>7, <1>8, <1>9 DEF IInv

-----------------------------------------------------------------------------
(* The goroutines.                                                         *)

(* A step of a goroutine that touches neither the table nor the results    *)
(* and does not start or end recording.                                    *)
LEMMA GoroutineFrame ==
  ASSUME IInv, UNCHANGED <<targetVars, started>>
  PROVE  TableTypes' /\ Fresh'
  BY DEF IInv, TableTypes, Fresh, targetVars

(* The goroutine that keeps an enabled instance monitored goes on doing so *)
(* as long as it does not end and waits on the context of the instance.    *)
LEMMA MonitorFrame ==
  ASSUME IInv, NEW g \in Monitors, UNCHANGED <<targetVars, subject>>,
         \A f \in Monitors \ {g} : pc'[f] = pc[f] /\ using'[f] = using[f],
         pc'[g] # "none",
         pc'[g] = "ended" => pc[g] = "select" /\ using[g] \in cancelled,
         pc'[g] = "select" => \/ pc[g] = "select" /\ using'[g] = using[g]
                              \/ using'[g] = context[subject[g]]
  PROVE  EnabledIsMonitored'
  <1> SUFFICES ASSUME current # Nil, enabled[current]
               PROVE  /\ context[current] \notin cancelled
                      /\ \E f \in Running(current)' :
                            pc'[f] = "select" => using'[f] = context[current]
    BY DEF EnabledIsMonitored, targetVars
  <1>1. context[current] \notin cancelled
    BY DEF IInv, EnabledIsMonitored
  <1>2. PICK f \in Running(current) : pc[f] = "select" => using[f] = context[current]
    BY DEF IInv, EnabledIsMonitored
  <1>3. f \in Monitors /\ subject[f] = current /\ pc[f] \notin {"none", "ended"}
    BY <1>2 DEF Running
  <1>4. f \in Running(current)'
    BY <1>1, <1>2, <1>3 DEF Running, targetVars
  <1>5. pc'[f] = "select" => using'[f] = context[current]
    BY <1>2, <1>3
  <1> QED
    BY <1>1, <1>4, <1>5

(* A goroutine that is not recording before or after its step.             *)
LEMMA SilentStep ==
  ASSUME IInv, NEW g \in Monitors, BeginCheck(g) \/ EnterSelect(g) \/ SelectTimer(g)
                                   \/ SelectDone(g)
  PROVE  IInv'
  <1> USE DEF BeginCheck, EnterSelect, SelectTimer, SelectDone
  <1>1. UNCHANGED <<targetVars, started, subject, healthVars>>
    OBVIOUS
  <1>2. TableTypes' /\ Fresh'
    BY <1>1, GoroutineFrame
  <1>3. GoroutineTypes'
    <2>1. subject[g] \in Targets /\ context[subject[g]] \in Contexts \cup {Nil}
      BY DEF IInv, GoroutineTypes, TableTypes
    <2> QED
      BY <2>1 DEF IInv, GoroutineTypes
  <1>4. ResultTypes' /\ OneRecorder' /\ StatusAgrees'
    <2>1. \A f \in Monitors : pc'[f] \in {"passed", "failed"} => pc'[f] = pc[f]
      BY DEF IInv, GoroutineTypes
    <2>2. \A t \in Targets : \A f \in Recording(t)' : f \in Recording(t) /\ pc'[f] = pc[f]
      BY <1>1, <2>1 DEF Recording
    <2> QED
      BY <1>1, <2>2, ResultFrame
  <1>5. EnabledIsMonitored'
    <2>1. \A f \in Monitors \ {g} : pc'[f] = pc[f] /\ using'[f] = using[f]
      BY DEF IInv, GoroutineTypes
    <2>2. /\ pc'[g] # "none"
          /\ pc'[g] = "ended" => pc[g] = "select" /\ using[g] \in cancelled
          /\ pc'[g] = "select" => using'[g] = context[subject[g]]
      BY DEF IInv, GoroutineTypes
    <2> QED
      BY <1>1, <2>1, <2>2, MonitorFrame
  <1> QED
    BY <1>2, <1>3, <1>4, <1>5 DEF IInv

(* The mark for a clash is set or left alone.                              *)
LEMMA ClashStep ==
  ASSUME ResultTypes, NEW t \in Targets, NoteClash(t)
  PROVE  /\ clash' \in [Targets -> BOOLEAN]
         /\ \A u \in Targets : u # t => clash'[u] = clash[u]
         /\ ~ clash'[t] => ~ clash[t] /\ Recording(t) = {}
  <1>1. clash \in [Targets -> BOOLEAN]
    BY DEF ResultTypes
  <1> QED
    BY <1>1, Zenon DEF NoteClash

(* A step of recording, from the point of view of everything else.         *)
LEMMA RecordFrame ==
  ASSUME IInv, NEW g \in Monitors, CheckEnds(g)
  PROVE  TableTypes' /\ Fresh' /\ GoroutineTypes' /\ EnabledIsMonitored'
  <1> USE DEF CheckEnds, CheckPasses, CheckFails, RecordSuccess, RecordFailure
  <1>1. UNCHANGED <<targetVars, started, subject, using>>
    OBVIOUS
  <1>2. /\ \A f \in Monitors \ {g} : pc'[f] = pc[f]
        /\ pc'[g] \in {"passed", "failed", "loop"} /\ pc[g] # "none"
        /\ pc' \in [Monitors -> Points]
    BY DEF IInv, GoroutineTypes
  <1>3. TableTypes' /\ Fresh'
    BY <1>1, GoroutineFrame
  <1>4. GoroutineTypes'
    BY <1>1, <1>2 DEF IInv, GoroutineTypes
  <1>5. EnabledIsMonitored'
    BY <1>1, <1>2, MonitorFrame
  <1> QED
    BY <1>3, <1>4, <1>5

(* The streak a result ends is at zero from then on, and if nobody is      *)
(* recording, the two streaks and the status still agree.                  *)
LEMMA EndsStreak ==
  ASSUME IInv, NEW g \in Monitors, CheckPasses(g) \/ CheckFails(g)
  PROVE  ResultTypes' /\ OneRecorder' /\ StatusAgrees'
  <1>0. PICK t \in Targets : t = subject[g]
    BY DEF IInv, GoroutineTypes, CheckPasses, CheckFails
  <1>1. g \notin Recording(t)
    BY DEF CheckPasses, CheckFails, Recording
  <1>2. ResultTypes
    BY DEF IInv
  <1>3. NoteClash(t) /\ UNCHANGED <<status, subject>>
    BY <1>0 DEF CheckPasses, CheckFails
  <1>4. /\ clash' \in [Targets -> BOOLEAN]
        /\ \A u \in Targets : u # t => clash'[u] = clash[u]
        /\ ~ clash'[t] => ~ clash[t] /\ Recording(t) = {}
    BY <1>1, <1>2, <1>3, ClashStep
  <1>5. \/ failures' = [failures EXCEPT ![t] = 0] /\ successes' = successes
           /\ pc' = [pc EXCEPT ![g] = "passed"]
        \/ successes' = [successes EXCEPT ![t] = 0] /\ failures' = failures
           /\ pc' = [pc EXCEPT ![g] = "failed"]
    BY <1>0 DEF CheckPasses, CheckFails
  <1>6. pc \in [Monitors -> Points]
    BY DEF IInv, GoroutineTypes
  <1>7. ResultTypes'
    <2>1. status' \in [Targets -> Status]
      BY <1>2, <1>3 DEF ResultTypes
    <2>2. successes' \in [Targets -> 0 .. HealthyThreshold]
      BY <1>2, <1>5 DEF ResultTypes
    <2>3. failures' \in [Targets -> 0 .. UnhealthyThreshold]
      BY <1>2, <1>5 DEF ResultTypes
    <2> QED
      BY <1>4, <2>1, <2>2, <2>3, Zenon DEF ResultTypes
  <1>8. /\ \A u \in Targets : u # t => failures'[u] = failures[u]
                                      /\ successes'[u] = successes[u]
        /\ pc'[g] = "passed" => failures'[t] = 0 /\ successes'[t] = successes[t]
        /\ pc'[g] = "failed" => successes'[t] = 0 /\ failures'[t] = failures[t]
        /\ pc'[g] \in {"passed", "failed"}
        /\ \A f \in Monitors : f # g => pc'[f] = pc[f]
    BY <1>1, <1>2, <1>5, <1>6 DEF ResultTypes
  <1>9. \A u \in Targets : u # t => Recording(u)' = Recording(u) /\ g \notin Recording(u)
    BY <1>0, <1>3, <1>8 DEF Recording
  <1>10. Recording(t)' = Recording(t) \cup {g}
    BY <1>0, <1>1, <1>3, <1>8 DEF Recording
  <1>11. \A u \in Targets : \A f \in Recording(u) : f \in Monitors
    BY DEF Recording
  <1>12. OneRecorder'
    <2> SUFFICES ASSUME NEW u \in Targets, ~ clash'[u]
                 PROVE  /\ \A e, f \in Recording(u)' : e = f
                        /\ \A f \in Recording(u)' :
                              /\ pc'[f] = "passed" => failures'[u] = 0
                              /\ pc'[f] = "failed" => successes'[u] = 0
      BY DEF OneRecorder
    <2>1. CASE u = t
      BY <1>4, <1>8, <1>10, <2>1
    <2>2. CASE u # t
      BY <1>4, <1>8, <1>9, <1>11, <2>2 DEF IInv, OneRecorder
    <2> QED
      BY <2>1, <2>2
  <1>13. StatusAgrees'
    <2> SUFFICES ASSUME NEW u \in Targets, ~ clash'[u]
                 PROVE  /\ status[u] = "healthy" => failures'[u] < UnhealthyThreshold
                        /\ status[u] = "unhealthy" => successes'[u] < HealthyThreshold
                        /\ successes'[u] = 0 \/ failures'[u] = 0
      BY <1>3 DEF StatusAgrees
    <2>1. /\ status[u] = "healthy" => failures[u] < UnhealthyThreshold
          /\ status[u] = "unhealthy" => successes[u] < HealthyThreshold
          /\ successes[u] = 0 \/ failures[u] = 0
      BY <1>4 DEF IInv, StatusAgrees
    <2> QED
      BY <1>8, <2>1
  <1> QED
    BY <1>7, <1>12, <1>13

(* A success is recorded by a goroutine that has set the failures to zero, *)
(* so if it is the only one that records, the streaks and the status it    *)
(* leaves agree.                                                           *)
LEMMA SuccessRecorded ==
  ASSUME IInv, NEW g \in Monitors, RecordSuccess(g)
  PROVE  ResultTypes' /\ OneRecorder' /\ StatusAgrees'
  <1>0. PICK t \in Targets : t = subject[g]
    BY DEF IInv, GoroutineTypes, RecordSuccess
  <1> DEFINE n == UpTo(successes[t] + 1, HealthyThreshold)
  <1>1. pc[g] = "passed" /\ g \in Recording(t)
    BY <1>0 DEF RecordSuccess, Recording
  <1>2. ResultTypes /\ pc \in [Monitors -> Points]
    BY DEF IInv, GoroutineTypes
  <1>3. /\ successes' = [successes EXCEPT ![t] = n]
        /\ status' = [status EXCEPT ![t] = IF n >= HealthyThreshold THEN "healthy" ELSE @]
        /\ pc' = [pc EXCEPT ![g] = "loop"]
        /\ UNCHANGED <<failures, clash, subject>>
    BY <1>0 DEF RecordSuccess
  <1>4. n \in 0 .. HealthyThreshold
    BY <1>1, <1>2 DEF ResultTypes, UpTo
  <1> HIDE DEF n
  <1>5. ResultTypes'
    BY <1>1, <1>2, <1>3, <1>4 DEF ResultTypes
  <1>6. /\ \A u \in Targets : u # t => status'[u] = status[u] /\ successes'[u] = successes[u]
        /\ successes'[t] = n
        /\ n >= HealthyThreshold => status'[t] = "healthy"
        /\ n < HealthyThreshold => status'[t] = status[t]
    BY <1>1, <1>2, <1>3, <1>4 DEF ResultTypes
  <1>7. \A u \in Targets : Recording(u)' \subseteq Recording(u) \ {g}
    BY <1>2, <1>3 DEF Recording
  <1>8. \A u \in Targets : \A f \in Recording(u)' : pc'[f] = pc[f]
    BY <1>2, <1>3 DEF Recording
  <1>9. ~ clash[t] => failures[t] = 0 /\ Recording(t)' = {}
    <2>1. OneRecorder
      BY DEF IInv
    <2>2. ~ clash[t] => failures[t] = 0
      BY <1>1, <2>1 DEF OneRecorder
    <2>3. ~ clash[t] => \A f \in Recording(t) : f = g
      BY <1>1, <2>1 DEF OneRecorder
    <2> QED
      BY <1>7, <2>2, <2>3
  <1>10. OneRecorder'
    <2> SUFFICES ASSUME NEW u \in Targets, ~ clash'[u]
                 PROVE  /\ \A e, f \in Recording(u)' : e = f
                        /\ \A f \in Recording(u)' :
                              /\ pc'[f] = "passed" => failures'[u] = 0
                              /\ pc'[f] = "failed" => successes'[u] = 0
      BY DEF OneRecorder
    <2>1. CASE u = t
      BY <1>3, <1>9, <2>1
    <2>2. CASE u # t
      BY <1>3, <1>6, <1>7, <1>8, <2>2 DEF IInv, OneRecorder
    <2> QED
      BY <2>1, <2>2
  <1>11. StatusAgrees'
    <2> SUFFICES ASSUME NEW u \in Targets, ~ clash[u]
                 PROVE  /\ status'[u] = "healthy" => failures[u] < UnhealthyThreshold
                        /\ status'[u] = "unhealthy" => successes'[u] < HealthyThreshold
                        /\ successes'[u] = 0 \/ failures[u] = 0
      BY <1>3 DEF StatusAgrees
    <2>1. CASE u = t
      BY <1>4, <1>6, <1>9, <2>1
    <2>2. CASE u # t
      BY <1>6, <2>2 DEF IInv, StatusAgrees
    <2> QED
      BY <2>1, <2>2
  <1> QED
    BY <1>5, <1>10, <1>11

(* The same for a failure.                                                 *)
LEMMA FailureRecorded ==
  ASSUME IInv, NEW g \in Monitors, RecordFailure(g)
  PROVE  ResultTypes' /\ OneRecorder' /\ StatusAgrees'
  <1>0. PICK t \in Targets : t = subject[g]
    BY DEF IInv, GoroutineTypes, RecordFailure
  <1> DEFINE n == UpTo(failures[t] + 1, UnhealthyThreshold)
  <1>1. pc[g] = "failed" /\ g \in Recording(t)
    BY <1>0 DEF RecordFailure, Recording
  <1>2. ResultTypes /\ pc \in [Monitors -> Points]
    BY DEF IInv, GoroutineTypes
  <1>3. /\ failures' = [failures EXCEPT ![t] = n]
        /\ status' = [status EXCEPT ![t] = IF n >= UnhealthyThreshold THEN "unhealthy" ELSE @]
        /\ pc' = [pc EXCEPT ![g] = "loop"]
        /\ UNCHANGED <<successes, clash, subject>>
    BY <1>0 DEF RecordFailure
  <1>4. n \in 0 .. UnhealthyThreshold
    BY <1>1, <1>2 DEF ResultTypes, UpTo
  <1> HIDE DEF n
  <1>5. ResultTypes'
    BY <1>1, <1>2, <1>3, <1>4 DEF ResultTypes
  <1>6. /\ \A u \in Targets : u # t => status'[u] = status[u] /\ failures'[u] = failures[u]
        /\ failures'[t] = n
        /\ n >= UnhealthyThreshold => status'[t] = "unhealthy"
        /\ n < UnhealthyThreshold => status'[t] = status[t]
    BY <1>1, <1>2, <1>3, <1>4 DEF ResultTypes
  <1>7. \A u \in Targets : Recording(u)' \subseteq Recording(u) \ {g}
    BY <1>2, <1>3 DEF Recording
  <1>8. \A u \in Targets : \A f \in Recording(u)' : pc'[f] = pc[f]
    BY <1>2, <1>3 DEF Recording
  <1>9. ~ clash[t] => successes[t] = 0 /\ Recording(t)' = {}
    <2>1. OneRecorder
      BY DEF IInv
    <2>2. ~ clash[t] => successes[t] = 0
      BY <1>1, <2>1 DEF OneRecorder
    <2>3. ~ clash[t] => \A f \in Recording(t) : f = g
      BY <1>1, <2>1 DEF OneRecorder
    <2> QED
      BY <1>7, <2>2, <2>3
  <1>10. OneRecorder'
    <2> SUFFICES ASSUME NEW u \in Targets, ~ clash'[u]
                 PROVE  /\ \A e, f \in Recording(u)' : e = f
                        /\ \A f \in Recording(u)' :
                              /\ pc'[f] = "passed" => failures'[u] = 0
                              /\ pc'[f] = "failed" => successes'[u] = 0
      BY DEF OneRecorder
    <2>1. CASE u = t
      BY <1>3, <1>9, <2>1
    <2>2. CASE u # t
      BY <1>3, <1>6, <1>7, <1>8, <2>2 DEF IInv, OneRecorder
    <2> QED
      BY <2>1, <2>2
  <1>11. StatusAgrees'
    <2> SUFFICES ASSUME NEW u \in Targets, ~ clash[u]
                 PROVE  /\ status'[u] = "healthy" => failures'[u] < UnhealthyThreshold
                        /\ status'[u] = "unhealthy" => successes[u] < HealthyThreshold
                        /\ successes[u] = 0 \/ failures'[u] = 0
      BY <1>3 DEF StatusAgrees
    <2>1. CASE u = t
      BY <1>4, <1>6, <1>9, <2>1
    <2>2. CASE u # t
      BY <1>6, <2>2 DEF IInv, StatusAgrees
    <2> QED
      BY <2>1, <2>2
  <1> QED
    BY <1>5, <1>10, <1>11

-----------------------------------------------------------------------------
(* Every step of the monitor and of its goroutines keeps the invariant.    *)
LEMMA StepIInv == ASSUME IInv, [Next]_vars PROVE IInv'
  <1>1. ASSUME NEW on \in BOOLEAN, AddTarget(on) PROVE IInv'
    BY <1>1, AddStep
  <1>2. CASE RemoveTarget
    BY <1>2, RemoveStep
  <1>3. ASSUME NEW desired \in {{}, {FALSE}, {TRUE}}, SyncTargets(desired) PROVE IInv'
    BY <1>1, <1>2, <1>3 DEF SyncTargets
  <1>4. CASE Stop
    BY <1>2, <1>4 DEF Stop
  <1>5. CASE EnableTarget
    BY <1>5, EnableStep
  <1>6. CASE DisableTarget
    BY <1>6, DisableStep
  <1>7. ASSUME NEW g \in Monitors, MonitorStep(g) PROVE IInv'
    <2>1. CASE CheckEnds(g)
      <3>1. TableTypes' /\ Fresh' /\ GoroutineTypes' /\ EnabledIsMonitored'
        BY <2>1, RecordFrame
      <3>2. ResultTypes' /\ OneRecorder' /\ StatusAgrees'
        BY <2>1, EndsStreak, SuccessRecorded, FailureRecorded DEF CheckEnds
      <3> QED
        BY <3>1, <3>2 DEF IInv
    <2>2. CASE BeginCheck(g) \/ EnterSelect(g) \/ SelectTimer(g) \/ SelectDone(g)
      BY <2>2, SilentStep
    <2> QED
      BY <1>7, <2>1, <2>2 DEF MonitorStep
  <1>8. CASE UNCHANGED vars
    <2>1. TableTypes' /\ ResultTypes' /\ GoroutineTypes' /\ Fresh'
      BY <1>8 DEF vars, IInv, TableTypes, ResultTypes, GoroutineTypes, Fresh
    <2>2. OneRecorder' /\ StatusAgrees'
      BY <1>8 DEF vars, IInv, OneRecorder, StatusAgrees, Recording
    <2>3. EnabledIsMonitored'
      BY <1>8 DEF vars, IInv, EnabledIsMonitored, Running
    <2> QED
      BY <2>1, <2>2, <2>3 DEF IInv
  <1> QED
    BY <1>1, <1>2, <1>3, <1>4, <1>5, <1>6, <1>7, <1>8 DEF Next

(* The inductive invariant holds in every reachable state.                 *)
THEOREM HcInductive == Spec => []IInv
  <1>1. Init => IInv
    BY InitIInv
  <1>2. IInv /\ [Next]_vars => IInv'
    BY StepIInv
  <1> QED
    BY <1>1, <1>2, PTL DEF Spec

(* Type correctness: contexts, instances and goroutines stay in their      *)
(* ranges, and the streaks never pass their thresholds.                    *)
THEOREM HcTypeCorrect == Spec => []TypeOK
  <1>1. IInv => TypeOK
    BY Types DEF IInv
  <1> QED
    BY <1>1, HcInductive, PTL

(* Status and streaks agree for any thresholds and any number of           *)
(* goroutines, old ones included, unless two recorded at the same time.    *)
THEOREM HcStatusAgrees == Spec => []StatusAgrees
  <1>1. IInv => StatusAgrees
    BY DEF IInv
  <1> QED
    BY <1>1, HcInductive, PTL

(* However often a target is disabled, enabled and replaced, an enabled    *)
(* one has a live context and a goroutine that stays.                      *)
THEOREM HcEnabledIsMonitored == Spec => []EnabledIsMonitored
  <1>1. IInv => EnabledIsMonitored
    BY DEF IInv
  <1> QED
    BY <1>1, HcInductive, PTL
=============================================================================
