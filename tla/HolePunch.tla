------------------------------ MODULE HolePunch ------------------------------
(***************************************************************************)
(* The hole punch manager (holepunch/holepunch.go): a Manager under a      *)
(* mutex, and the goroutine runMultipleExitNodes that each successful      *)
(* Start creates.                                                          *)
(*                                                                         *)
(* Run r is the r-th successful Start: the goroutine it creates and the    *)
(* channels stopChan and updateChan it makes.  The goroutine does not keep *)
(* these channels: every round of its select reads the fields m.stopChan   *)
(* and m.updateChan again (without the mutex), and may by then find nil,   *)
(* or the channels of a later run.                                         *)
(***************************************************************************)
EXTENDS Naturals

CONSTANTS
    ExitNodes,      \* the endpoints that can be in the rotation
    MaxRuns,        \* bound on successful calls of Start
    MaxEdits,       \* bound on changes of the rotation and of the intervals
    Intervals,      \* the pairs <<min, max>> SetServerHolepunchInterval is called with
    Default         \* the default pair

ASSUME IntervalAssumption ==
    /\ MaxRuns \in Nat \ {0} /\ MaxEdits \in Nat
    /\ \A i \in Intervals \cup {Default} :
          i \in (Nat \ {0}) \X (Nat \ {0}) /\ i[1] <= i[2]

Runs == 1 .. MaxRuns
Nil == 0

VARIABLES
    running,        \* m.running
    stopChan,       \* m.stopChan: the run whose channel it is, or Nil
    updateChan,     \* m.updateChan
    stopClosed,     \* is the stop channel of a run closed?
    updates,        \* update channel of a run: empty, full (capacity 1) or closed
    exitNodes,      \* m.exitNodes
    limits,         \* <<m.sendHolepunchIntervalMin, m.sendHolepunchIntervalMax>>
    interval,       \* m.sendHolepunchInterval
    runs,           \* successful starts so far
    edits,          \* changes so far
    goroutine,      \* off, resolve, punch, loop, wait, tick, ending or ended
    waitsOn,        \* the <<stopChan, updateChan>> its select is waiting on
    resolved        \* its local variable resolvedNodes

channels == <<stopChan, updateChan, stopClosed>>
vars == <<running, channels, updates, exitNodes, limits, interval, runs, edits,
          goroutine, waitsOn, resolved>>

Init ==
    /\ running = FALSE
    /\ stopChan = Nil /\ updateChan = Nil
    /\ stopClosed = [r \in Runs |-> FALSE]
    /\ updates = [r \in Runs |-> "empty"]
    /\ exitNodes = {}
    /\ limits = Default /\ interval = Default[1]
    /\ runs = 0 /\ edits = 0
    /\ goroutine = [r \in Runs |-> "off"]
    /\ waitsOn = [r \in Runs |-> <<Nil, Nil>>]
    /\ resolved = [r \in Runs |-> {}]

-----------------------------------------------------------------------------
(* Methods of the manager; each runs under m.mu.                           *)

(* Start keeps the rotation, StartMultipleExitNodes replaces it.           *)
Begin(nodes) ==
    /\ ~ running
    /\ runs < MaxRuns
    /\ running' = TRUE
    /\ runs' = runs + 1
    /\ stopChan' = runs + 1 /\ updateChan' = runs + 1
    /\ exitNodes' = nodes
    /\ goroutine' = [goroutine EXCEPT ![runs + 1] = "resolve"]
    /\ UNCHANGED <<stopClosed, updates, limits, interval, edits, waitsOn, resolved>>

Start == Begin(exitNodes)

StartMultipleExitNodes == \E nodes \in SUBSET ExitNodes : Begin(nodes)

Stop ==
    /\ running
    /\ running' = FALSE
    /\ stopClosed' = IF stopChan = Nil THEN stopClosed
                     ELSE [stopClosed EXCEPT ![stopChan] = TRUE]
    /\ updates' = IF updateChan = Nil THEN updates
                  ELSE [updates EXCEPT ![updateChan] = "closed"]
    /\ stopChan' = Nil /\ updateChan' = Nil
    /\ UNCHANGED <<exitNodes, limits, interval, runs, edits, goroutine, waitsOn, resolved>>

(* Variant: a change is not signalled.                                     *)
SignalNothing == UNCHANGED updates

(* The non-blocking send on updateChan after a change.                     *)
SignalUpdate ==
    updates' = IF running /\ updateChan # Nil
               THEN [updates EXCEPT ![updateChan] = "full"]
               ELSE updates

(* AddExitNode, RemoveExitNode and RemoveExitNodesByPeer.                  *)
EditExitNodes ==
    /\ edits < MaxEdits
    /\ edits' = edits + 1
    /\ \E n \in ExitNodes :
          \/ n \notin exitNodes /\ exitNodes' = exitNodes \cup {n}
          \/ n \in exitNodes /\ exitNodes' = exitNodes \ {n}
    /\ SignalUpdate
    /\ UNCHANGED <<running, channels, limits, interval, runs, goroutine, waitsOn, resolved>>

(* SetServerHolepunchInterval and ResetServerHolepunchInterval.            *)
SetInterval ==
    /\ edits < MaxEdits
    /\ edits' = edits + 1
    /\ \E i \in Intervals \cup {Default} : limits' = i /\ interval' = i[1]
    /\ SignalUpdate
    /\ UNCHANGED <<running, channels, exitNodes, runs, goroutine, waitsOn, resolved>>

-----------------------------------------------------------------------------
(* The goroutine of a run: runMultipleExitNodes.                           *)

(* Variant: with nothing resolved the goroutine returns, past its defer.   *)
ResolveReturns(r) ==
    /\ goroutine[r] = "resolve"
    /\ \E nodes \in SUBSET exitNodes :
          /\ resolved' = [resolved EXCEPT ![r] = nodes]
          /\ goroutine' = [goroutine EXCEPT ![r] = IF nodes = {} THEN "ended" ELSE "punch"]
    /\ UNCHANGED <<running, channels, updates, exitNodes, limits, interval, runs, edits,
                   waitsOn>>

(* resolveNodes takes its copy of the rotation under m.mu; resolving and   *)
(* punching then go on without it.                                         *)
Resolve(r) ==
    /\ goroutine[r] = "resolve"
    /\ \E nodes \in SUBSET exitNodes : resolved' = [resolved EXCEPT ![r] = nodes]
    /\ goroutine' = [goroutine EXCEPT ![r] = "punch"]
    /\ UNCHANGED <<running, channels, updates, exitNodes, limits, interval, runs, edits,
                   waitsOn>>

(* The packets are out, and the interval starts at its minimum.            *)
Punch(r) ==
    /\ goroutine[r] = "punch"
    /\ interval' = limits[1]
    /\ goroutine' = [goroutine EXCEPT ![r] = "loop"]
    /\ UNCHANGED <<running, channels, updates, exitNodes, limits, runs, edits, waitsOn,
                   resolved>>

(* Variant: the select has no case for the update channel.                 *)
EnterSelectStopOnly(r) ==
    /\ goroutine[r] = "loop"
    /\ waitsOn' = [waitsOn EXCEPT ![r] = <<stopChan, Nil>>]
    /\ goroutine' = [goroutine EXCEPT ![r] = "wait"]
    /\ UNCHANGED <<running, channels, updates, exitNodes, limits, interval, runs, edits,
                   resolved>>

(* The select evaluates its channel expressions once, on entry.            *)
EnterSelect(r) ==
    /\ goroutine[r] = "loop"
    /\ waitsOn' = [waitsOn EXCEPT ![r] = <<stopChan, updateChan>>]
    /\ goroutine' = [goroutine EXCEPT ![r] = "wait"]
    /\ UNCHANGED <<running, channels, updates, exitNodes, limits, interval, runs, edits,
                   resolved>>

SelectStop(r) ==
    /\ goroutine[r] = "wait"
    /\ waitsOn[r][1] # Nil
    /\ stopClosed[waitsOn[r][1]]
    /\ goroutine' = [goroutine EXCEPT ![r] = "ending"]
    /\ UNCHANGED <<running, channels, updates, exitNodes, limits, interval, runs, edits,
                   waitsOn, resolved>>

(* A closed channel is always ready; a full one is emptied.  Then the      *)
(* nodes are resolved again and punched at once.                           *)
SelectUpdate(r) ==
    /\ goroutine[r] = "wait"
    /\ waitsOn[r][2] # Nil
    /\ updates[waitsOn[r][2]] # "empty"
    /\ updates' = [updates EXCEPT ![waitsOn[r][2]] = IF @ = "closed" THEN @ ELSE "empty"]
    /\ goroutine' = [goroutine EXCEPT ![r] = "resolve"]
    /\ UNCHANGED <<running, channels, exitNodes, limits, interval, runs, edits, waitsOn,
                   resolved>>

(* The ticker: punch, and double the interval up to the maximum.           *)
SelectTick(r) ==
    /\ goroutine[r] = "wait"
    /\ goroutine' = [goroutine EXCEPT ![r] = IF resolved[r] = {} THEN "loop" ELSE "tick"]
    /\ UNCHANGED <<running, channels, updates, exitNodes, limits, interval, runs, edits,
                   waitsOn, resolved>>

(* Variant: the interval is doubled without a cap.                         *)
BackoffUncapped(r) ==
    /\ goroutine[r] = "tick"
    /\ interval' = interval * 2
    /\ goroutine' = [goroutine EXCEPT ![r] = "loop"]
    /\ UNCHANGED <<running, channels, updates, exitNodes, limits, runs, edits, waitsOn,
                   resolved>>

Backoff(r) ==
    /\ goroutine[r] = "tick"
    /\ interval' = IF interval * 2 > limits[2] THEN limits[2] ELSE interval * 2
    /\ goroutine' = [goroutine EXCEPT ![r] = "loop"]
    /\ UNCHANGED <<running, channels, updates, exitNodes, limits, runs, edits, waitsOn,
                   resolved>>

(* The deferred function: m.running = false, whoever runs by now.          *)
End(r) ==
    /\ goroutine[r] = "ending"
    /\ running' = FALSE
    /\ goroutine' = [goroutine EXCEPT ![r] = "ended"]
    /\ UNCHANGED <<channels, updates, exitNodes, limits, interval, runs, edits, waitsOn,
                   resolved>>

GoroutineStep(r) ==
    \/ Resolve(r) \/ Punch(r) \/ EnterSelect(r) \/ Backoff(r) \/ End(r)
    \/ SelectStop(r) \/ SelectUpdate(r) \/ SelectTick(r)

(* Every run of the instance has ended.                                    *)
Finished ==
    /\ runs = MaxRuns
    /\ \A r \in Runs : goroutine[r] = "ended"
    /\ UNCHANGED vars

Next ==
    \/ Start \/ StartMultipleExitNodes \/ Stop \/ EditExitNodes \/ SetInterval
    \/ \E r \in Runs : GoroutineStep(r)
    \/ Finished

Spec == Init /\ [][Next]_vars

(***************************************************************************)
(* Fairness: goroutines run and tickers tick; a select that finds several  *)
(* channels ready chooses at random, so a channel that is ready again and  *)
(* again is chosen in the end.                                             *)
(***************************************************************************)
Fairness ==
    \A r \in Runs :
        /\ WF_vars(GoroutineStep(r))
        /\ SF_vars(SelectStop(r))
        /\ SF_vars(SelectUpdate(r))

FairSpec == Spec /\ Fairness

-----------------------------------------------------------------------------
(* Properties.                                                             *)

Live(r) == goroutine[r] \notin {"off", "ended"}

(* Every variable keeps its type, and the interval of the ticker stays     *)
(* within its limits although it is set, reset and doubled by different    *)
(* goroutines.                                                             *)
TypeOK ==
    /\ running \in BOOLEAN
    /\ stopChan \in Runs \cup {Nil} /\ updateChan \in Runs \cup {Nil}
    /\ stopClosed \in [Runs -> BOOLEAN]
    /\ updates \in [Runs -> {"empty", "full", "closed"}]
    /\ exitNodes \in SUBSET ExitNodes
    /\ limits \in Intervals \cup {Default}
    /\ interval \in Nat /\ limits[1] <= interval /\ interval <= limits[2]
    /\ runs \in 0 .. MaxRuns /\ edits \in 0 .. MaxEdits
    /\ goroutine \in [Runs -> {"off", "resolve", "punch", "loop", "wait", "tick",
                               "ending", "ended"}]
    /\ waitsOn \in [Runs -> (Runs \cup {Nil}) \X (Runs \cup {Nil})]
    /\ resolved \in [Runs -> SUBSET ExitNodes]

(* IsRunning never reports a manager whose goroutines have all ended: the  *)
(* newest of them is alive.                                                *)
RunningHasGoroutine == running => Live(runs)

(* A change of the rotation is not lost in the update channel of capacity  *)
(* one: a goroutine that is alone, and about to wait or waiting on the     *)
(* current channel, either has seen every removal or finds the channel     *)
(* full.                                                                   *)
NoLostUpdate ==
    \A r \in Runs :
        (/\ running /\ runs = r
         /\ \A q \in Runs \ {r} : ~ Live(q)
         /\ goroutine[r] \in {"punch", "loop", "wait", "tick"}
         /\ goroutine[r] = "wait" => waitsOn[r][2] = r)
        => resolved[r] \subseteq exitNodes \/ updates[r] = "full"

(* A signalled change is acted on by some goroutine, unless the manager is *)
(* stopped.                                                                *)
UpdateServed == \A r \in Runs : updates[r] = "full" ~> updates[r] # "full"

(* "Stop stops any ongoing hole punch operations": once the manager is     *)
(* stopped, its goroutines end or it is started again.                     *)
StopEndsGoroutines == (~ running) ~> (running \/ \A r \in Runs : ~ Live(r))
=============================================================================
