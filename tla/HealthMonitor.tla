---------------------------- MODULE HealthMonitor ----------------------------
(***************************************************************************)
(* The health check monitor (healthcheck/healthcheck.go), for one target   *)
(* id: entries of m.targets do not touch each other.  An instance is one   *)
(* *Target; adding the id again makes a new instance.  Every enabled       *)
(* instance is checked by a goroutine (monitorTarget) that shares the      *)
(* instance's fields with the operations of the monitor and is stopped     *)
(* through the context the instance holds at that time.                    *)
(*                                                                         *)
(* The operations hold m.mutex: one step each.  monitorTarget holds no     *)
(* lock.  Its timer, which is also a field of the instance, may fire       *)
(* whenever the goroutine waits.  The callback that reports the statuses   *)
(* to the server runs in a goroutine of its own on a copy and changes      *)
(* nothing here.                                                           *)
(***************************************************************************)
EXTENDS Naturals

CONSTANTS
    MaxTarget,              \* bound on the number of instances
    MaxMonitor,             \* bound on the number of monitorTarget goroutines
    HealthyThreshold,       \* consecutive successes to become healthy
    UnhealthyThreshold      \* consecutive failures to become unhealthy

ASSUME TargetAssumption == MaxTarget \in Nat \ {0}
ASSUME MonitorAssumption == MaxMonitor \in Nat \ {0}
ASSUME ThresholdAssumption ==
    HealthyThreshold \in Nat \ {0} /\ UnhealthyThreshold \in Nat \ {0}

Nil == 0
Targets == 1 .. MaxTarget
Monitors == 1 .. MaxMonitor
Contexts == 1 .. MaxTarget + MaxMonitor
Status == {"unknown", "healthy", "unhealthy"}

VARIABLES
    current,        \* m.targets[id]: an instance or Nil
    made,           \* how many instances there have been
    enabled,        \* Config.Enabled of an instance
    status,         \* Status
    successes,      \* consecutiveSuccesses, as far as the threshold
    failures,       \* consecutiveFailures, as far as the threshold
    clash,          \* have two goroutines recorded results at the same time?
    context,        \* the context an instance holds in its field ctx
    contexts,       \* how many contexts there have been
    cancelled,      \* the contexts that are cancelled
    pc,             \* program counter of a monitorTarget goroutine
    subject,        \* the instance it was started for
    using,          \* the context its select has read from there, or Nil
    started         \* how many goroutines have been started

vars == <<current, made, enabled, status, successes, failures, clash, context,
          contexts, cancelled, pc, subject, using, started>>

targetVars == <<current, made, enabled, context, contexts, cancelled>>
healthVars == <<status, successes, failures, clash>>
monitorVars == <<pc, subject, using, started>>

Init ==
    /\ current = Nil /\ made = 0
    /\ enabled = [t \in Targets |-> FALSE]
    /\ status = [t \in Targets |-> "unknown"]
    /\ successes = [t \in Targets |-> 0]
    /\ failures = [t \in Targets |-> 0]
    /\ clash = [t \in Targets |-> FALSE]
    /\ context = [t \in Targets |-> Nil]
    /\ contexts = 0 /\ cancelled = {}
    /\ pc = [g \in Monitors |-> "none"]
    /\ subject = [g \in Monitors |-> Nil]
    /\ using = [g \in Monitors |-> Nil]
    /\ started = 0

-----------------------------------------------------------------------------
(* The operations of the monitor.                                          *)

(* go m.monitorTarget(t)                                                   *)
StartMonitor(t) ==
    /\ started < MaxMonitor
    /\ started' = started + 1
    /\ pc' = [pc EXCEPT ![started'] = "begin"]
    /\ subject' = [subject EXCEPT ![started'] = t]
    /\ UNCHANGED using

(* The context of the current instance, if there is one.                   *)
CurrentContext == IF current = Nil THEN {} ELSE {context[current]}

(* Variant: the instance that is replaced is not cancelled.                *)
AddTargetKeepsOld(on) ==
    /\ made < MaxTarget
    /\ made' = made + 1
    /\ current' = made'
    /\ enabled' = [enabled EXCEPT ![made'] = on]
    /\ contexts' = contexts + 1
    /\ context' = [context EXCEPT ![made'] = contexts']
    /\ IF on THEN StartMonitor(made') ELSE UNCHANGED monitorVars
    /\ UNCHANGED <<cancelled, healthVars>>

(* addTargetUnsafe, for AddTarget and AddTargets: an instance that is      *)
(* there is cancelled and replaced.                                        *)
AddTarget(on) ==
    /\ made < MaxTarget
    /\ made' = made + 1
    /\ current' = made'
    /\ enabled' = [enabled EXCEPT ![made'] = on]
    /\ contexts' = contexts + 1
    /\ context' = [context EXCEPT ![made'] = contexts']
    /\ cancelled' = cancelled \cup CurrentContext
    /\ IF on THEN StartMonitor(made') ELSE UNCHANGED monitorVars
    /\ UNCHANGED healthVars

(* RemoveTarget and RemoveTargets.                                         *)
RemoveTarget ==
    /\ current # Nil
    /\ cancelled' = cancelled \cup CurrentContext
    /\ current' = Nil
    /\ UNCHANGED <<made, enabled, context, contexts, healthVars, monitorVars>>

(* desired is the configuration the server sends for the id, or nothing.   *)
(* An instance that is wanted is replaced even if nothing has changed.     *)
SyncTargets(desired) ==
    \/ desired = {} /\ RemoveTarget
    \/ \E on \in desired : AddTarget(on)

(* Stop forgets every instance; targets may be added afterwards.           *)
Stop == RemoveTarget

(* Variant: the cancelled context is used again.                           *)
EnableTargetOldContext ==
    /\ current # Nil
    /\ ~ enabled[current]
    /\ enabled' = [enabled EXCEPT ![current] = TRUE]
    /\ cancelled' = cancelled \cup CurrentContext
    /\ StartMonitor(current)
    /\ UNCHANGED <<current, made, context, contexts, healthVars>>

(* The instance gets a new context, the old one is cancelled.              *)
EnableTarget ==
    /\ current # Nil
    /\ ~ enabled[current]
    /\ contexts < MaxTarget + MaxMonitor
    /\ enabled' = [enabled EXCEPT ![current] = TRUE]
    /\ contexts' = contexts + 1
    /\ context' = [context EXCEPT ![current] = contexts']
    /\ cancelled' = cancelled \cup CurrentContext
    /\ StartMonitor(current)
    /\ UNCHANGED <<current, made, healthVars>>

(* The status is reset, the counters of consecutive results are not.       *)
DisableTarget ==
    /\ current # Nil
    /\ enabled[current]
    /\ enabled' = [enabled EXCEPT ![current] = FALSE]
    /\ cancelled' = cancelled \cup CurrentContext
    /\ status' = [status EXCEPT ![current] = "unknown"]
    /\ UNCHANGED <<current, made, context, contexts, successes, failures,
                   clash, monitorVars>>

-----------------------------------------------------------------------------
(* monitorTarget.                                                          *)

(* A check begins: the request's context is derived from target.ctx, and   *)
(* if that is cancelled already the check can only fail.                   *)
BeginCheck(g) ==
    /\ pc[g] = "begin"
    /\ pc' = [pc EXCEPT ![g] =
            IF context[subject[g]] \in cancelled THEN "doomed" ELSE "checking"]
    /\ UNCHANGED <<subject, using, started, targetVars, healthVars>>

(* The result is recorded without a lock: first the streak it ends, then   *)
(* the streak it prolongs and the status.  clash notes that two goroutines *)
(* have recorded results of one instance at the same time.                 *)
Recording(t) == {g \in Monitors : subject[g] = t /\ pc[g] \in {"passed", "failed"}}

NoteClash(t) == clash' = [clash EXCEPT ![t] = @ \/ Recording(t) # {}]

(* Variant: a success does not end the streak of failures.                 *)
CheckPassesKeepsFailures(g) ==
    /\ pc[g] = "checking"
    /\ NoteClash(subject[g])
    /\ pc' = [pc EXCEPT ![g] = "passed"]
    /\ UNCHANGED <<status, successes, failures, subject, using, started, targetVars>>

CheckPasses(g) ==
    /\ pc[g] = "checking"
    /\ failures' = [failures EXCEPT ![subject[g]] = 0]
    /\ NoteClash(subject[g])
    /\ pc' = [pc EXCEPT ![g] = "passed"]
    /\ UNCHANGED <<status, successes, subject, using, started, targetVars>>

(* A check also fails because its context is cancelled meanwhile.          *)
CheckFails(g) ==
    /\ pc[g] \in {"checking", "doomed"}
    /\ successes' = [successes EXCEPT ![subject[g]] = 0]
    /\ NoteClash(subject[g])
    /\ pc' = [pc EXCEPT ![g] = "failed"]
    /\ UNCHANGED <<status, failures, subject, using, started, targetVars>>

(* A counter is kept as far as its threshold.                              *)
UpTo(n, threshold) == IF n < threshold THEN n ELSE threshold

RecordSuccess(g) ==
    LET t == subject[g]
        n == UpTo(successes[t] + 1, HealthyThreshold)
    IN  /\ pc[g] = "passed"
        /\ successes' = [successes EXCEPT ![t] = n]
        /\ status' = [status EXCEPT ![t] =
                            IF n >= HealthyThreshold THEN "healthy" ELSE @]
        /\ pc' = [pc EXCEPT ![g] = "loop"]
        /\ UNCHANGED <<failures, clash, subject, using, started, targetVars>>

RecordFailure(g) ==
    LET t == subject[g]
        n == UpTo(failures[t] + 1, UnhealthyThreshold)
    IN  /\ pc[g] = "failed"
        /\ failures' = [failures EXCEPT ![t] = n]
        /\ status' = [status EXCEPT ![t] =
                            IF n >= UnhealthyThreshold THEN "unhealthy" ELSE @]
        /\ pc' = [pc EXCEPT ![g] = "loop"]
        /\ UNCHANGED <<successes, clash, subject, using, started, targetVars>>

(* The select is entered on the context the instance holds now.            *)
EnterSelect(g) ==
    /\ pc[g] = "loop"
    /\ using' = [using EXCEPT ![g] = context[subject[g]]]
    /\ pc' = [pc EXCEPT ![g] = "select"]
    /\ UNCHANGED <<subject, started, targetVars, healthVars>>

SelectTimer(g) ==
    /\ pc[g] = "select"
    /\ pc' = [pc EXCEPT ![g] = "begin"]
    /\ using' = [using EXCEPT ![g] = Nil]
    /\ UNCHANGED <<subject, started, targetVars, healthVars>>

SelectDone(g) ==
    /\ pc[g] = "select"
    /\ using[g] \in cancelled
    /\ pc' = [pc EXCEPT ![g] = "ended"]
    /\ using' = [using EXCEPT ![g] = Nil]
    /\ UNCHANGED <<subject, started, targetVars, healthVars>>

-----------------------------------------------------------------------------
CheckEnds(g) ==
    CheckPasses(g) \/ CheckFails(g) \/ RecordSuccess(g) \/ RecordFailure(g)

MonitorStep(g) ==
    BeginCheck(g) \/ CheckEnds(g) \/ EnterSelect(g) \/ SelectTimer(g) \/ SelectDone(g)

Next ==
    \/ \E on \in BOOLEAN : AddTarget(on)
    \/ \E desired \in {{}, {FALSE}, {TRUE}} : SyncTargets(desired)
    \/ RemoveTarget \/ Stop \/ EnableTarget \/ DisableTarget
    \/ \E g \in Monitors : MonitorStep(g)

Spec == Init /\ [][Next]_vars

(***************************************************************************)
(* Fairness: goroutines run; a check is bounded by its timeout; a select   *)
(* that finds the context cancelled again and again, against a timer that  *)
(* has fired as well, takes that branch in the end.                        *)
(***************************************************************************)
FairSpec ==
    /\ Spec
    /\ \A g \in Monitors :
          /\ WF_vars(BeginCheck(g)) /\ WF_vars(CheckEnds(g))
          /\ WF_vars(EnterSelect(g))
          /\ SF_vars(SelectDone(g))

-----------------------------------------------------------------------------
(* Properties.                                                             *)

Running(t) == {g \in Monitors : subject[g] = t /\ pc[g] \notin {"none", "ended"}}

(* Every variable keeps its type.                                          *)
TypeOK ==
    /\ current \in Targets \cup {Nil}
    /\ made \in 0 .. MaxTarget
    /\ enabled \in [Targets -> BOOLEAN]
    /\ status \in [Targets -> Status]
    /\ successes \in [Targets -> 0 .. HealthyThreshold]
    /\ failures \in [Targets -> 0 .. UnhealthyThreshold]
    /\ clash \in [Targets -> BOOLEAN]
    /\ context \in [Targets -> Contexts \cup {Nil}]
    /\ contexts \in 0 .. (MaxTarget + MaxMonitor)
    /\ cancelled \subseteq Contexts
    /\ pc \in [Monitors -> {"none", "begin", "checking", "doomed", "passed",
                            "failed", "loop", "select", "ended"}]
    /\ subject \in [Monitors -> Targets \cup {Nil}]
    /\ using \in [Monitors -> Contexts \cup {Nil}]
    /\ started \in 0 .. MaxMonitor

(* The status and the streaks it is judged by agree, through disabling,    *)
(* enabling and results of an older goroutine: a healthy target has not    *)
(* failed often enough in a row to be unhealthy, nor the other way round,  *)
(* and at most one of the two streaks is running.  Only two goroutines     *)
(* that record their results at the same moment can break this.            *)
StatusAgrees ==
    \A t \in Targets : ~ clash[t] =>
        /\ status[t] = "healthy" => failures[t] < UnhealthyThreshold
        /\ status[t] = "unhealthy" => successes[t] < HealthyThreshold
        /\ successes[t] = 0 \/ failures[t] = 0

(* An enabled target is being checked: it has a goroutine that the         *)
(* contexts cancelled so far cannot end.                                   *)
EnabledIsMonitored ==
    (current # Nil /\ enabled[current]) =>
        /\ context[current] \notin cancelled
        /\ \E g \in Running(current) :
              pc[g] = "select" => using[g] = context[current]

(* Whatever was going on when an instance is removed or replaced, all its  *)
(* goroutines end, although Enable may have given it several contexts.     *)
ReplacedStops ==
    \A t \in Targets :
        (t <= made /\ current # t) ~> Running(t) = {}

(* The same for a target that is disabled and stays so.                    *)
DisabledStops ==
    \A t \in Targets :
        (current = t /\ ~ enabled[t]) ~> (Running(t) = {} \/ enabled[t])

(* Nothing goes on checking what is gone: a goroutine whose target was     *)
(* removed, replaced or disabled in the middle of a check comes to its     *)
(* end, although its timer and the contexts of others compete.             *)
CancelledStops == ReplacedStops /\ DisabledStops

(* "target.cancel() // Stop existing monitoring" (EnableTarget): when the  *)
(* new goroutine enters its select, no older one is left that works on the *)
(* target with the context of the new one.                                 *)
OneMonitor ==
    \A t \in Targets :
        \A f, g \in Running(t) :
            (/\ pc[f] = "select" /\ pc[g] = "select"
             /\ {using[f], using[g]} = {context[t]}) => f = g
=============================================================================
