---------------------------- MODULE Registration ----------------------------
(***************************************************************************)
(* How newt registers its tunnel with the server (newt/handlers.go,        *)
(* connect.go, tunnel.go, ping.go and SendMessageInterval of               *)
(* websocket/client.go).                                                   *)
(*                                                                         *)
(* A handshake is: newt/ping/request, answered by newt/ping/exitNodes,     *)
(* then newt/wg/register, answered by newt/wg/connect.  Both requests are  *)
(* repeated by a goroutine of SendMessageInterval until n.stopFunc is      *)
(* called, so answers are duplicated; a chain id, fresh for every          *)
(* SendMessageInterval, tells a current answer from a stale one.  An       *)
(* answer without a chain id is taken for current, whatever is waited for. *)
(* The fields stopFunc, connected, pendingPingChainId and                  *)
(* pendingRegisterChainId are shared, without a lock, by the message       *)
(* handlers, the OnConnect callback and the ping check of the tunnel.      *)
(*                                                                         *)
(* A handler runs to its end before the next message is read, and before   *)
(* the websocket client reconnects (WSClient).  What the server answers is *)
(* put in the inbox as the request is sent; it is lost, like a lost        *)
(* request, when the websocket drops.                                      *)
(*                                                                         *)
(* The statement "if n.stopFunc != nil { n.stopFunc(); n.stopFunc = nil }" *)
(* of every handler is two steps: closing the channel, clearing the field. *)
(***************************************************************************)
EXTENDS Naturals, Sequences

CONSTANTS
    MaxChain,       \* bound on the calls of SendMessageInterval
    MaxAttempts,    \* maxAttempts of SendMessageInterval (16 in the code)
    MaxInbox,       \* bound on the messages on their way to the client
    MaxEvents,      \* bound on websocket drops and server commands together
    Unmarked        \* the requests whose answers may come without a chain id

ASSUME BoundsAssumption ==
    /\ MaxChain \in Nat \ {0} /\ MaxAttempts \in Nat \ {0}
    /\ MaxInbox \in Nat \ {0} /\ MaxEvents \in Nat
    /\ Unmarked \subseteq 1 .. MaxChain

Chains == 1 .. MaxChain

None == 0           \* the empty chain id, the nil stopFunc

Commands == {"reconnect", "terminate"}      \* what the server asks for unprompted
Messages == [kind : {"exitNodes", "connect"} \cup Commands, chain : Chains \cup {None}]
NoMessage == [kind |-> "none", chain |-> None]

VARIABLES
    ws,             \* is the websocket connected?
    inbox,          \* the messages the server has sent on it
    events,         \* drops and commands so far
    next,           \* the next unused chain id
    kind,           \* what the sender of a chain sends: ping or register
    sender,         \* its goroutine: off, first, wait or ended
    count,          \* its local variable count
    stopped,        \* has its stop channel been closed?
    stopFunc,       \* n.stopFunc: the chain whose sender it stops, or None
    pendingPing,    \* n.pendingPingChainId
    pendingRegister,\* n.pendingRegisterChainId
    connected,      \* n.connected
    check,          \* the ping check of the tunnel: off, ok or lost (connectionLost)
    stray,          \* a ping check was stopped while it was pinging
    handler,        \* the message handler: idle, stopping, stopped, pinging, connecting
    handling,       \* the message it is handling, while it is looked at, or NoMessage
    onConnect,      \* the OnConnect callback: idle, begin or start
    builds,         \* how often a connect that bears the chain id was acted on
    gaveUp,         \* no handshake is wanted, or an answer was of no use
    crashed         \* a stop channel was closed twice

netVars == <<ws, inbox, events>>
handlerVars == <<handler, handling>>
senderVars == <<next, kind, sender, count, stopped>>
vars == <<netVars, senderVars, stopFunc, pendingPing, pendingRegister, connected,
          check, stray, handler, handling, onConnect, builds, gaveUp, crashed>>

Init ==
    /\ ws = FALSE /\ inbox = <<>> /\ events = 0
    /\ next = 1
    /\ kind = [c \in Chains |-> "none"]
    /\ sender = [c \in Chains |-> "off"]
    /\ count = [c \in Chains |-> 0]
    /\ stopped = [c \in Chains |-> FALSE]
    /\ stopFunc = None /\ pendingPing = None /\ pendingRegister = None
    /\ connected = FALSE
    /\ check = "off" /\ stray = FALSE
    /\ handler = "idle" /\ handling = NoMessage /\ onConnect = "idle"
    /\ builds = [c \in Chains |-> 0]
    /\ gaveUp = FALSE /\ crashed = FALSE

-----------------------------------------------------------------------------
(* All the chain ids of the instance have been used: it ends here.         *)
Exhausted == next \notin Chains

Running == ~ crashed /\ ~ Exhausted

(* n.stopFunc(), behind its nil check: closing a closed channel panics.    *)
CallStop ==
    /\ stopped' = IF stopFunc = None THEN stopped ELSE [stopped EXCEPT ![stopFunc] = TRUE]
    /\ crashed' = (stopFunc # None /\ stopped[stopFunc])

(* n.stopFunc = n.client.SendMessageInterval(...) with a new chain id.     *)
StartSender(what) ==
    /\ next \in Chains
    /\ next' = next + 1
    /\ kind' = [kind EXCEPT ![next] = what]
    /\ sender' = [sender EXCEPT ![next] = "first"]
    /\ stopFunc' = next
    /\ UNCHANGED count

(* closeWgTunnel as far as it matters here: the ping check is told to      *)
(* stop, which a check in the middle of a ping notices only afterwards.    *)
CloseTunnel ==
    /\ check' = "off"
    /\ stray' \in IF check = "ok" THEN {stray, TRUE} ELSE {stray}

-----------------------------------------------------------------------------
(* SendMessageInterval: the goroutine of a chain.                          *)

(* What the server may answer to the request of a chain.                   *)
Answers(c) ==
    [kind : {IF kind[c] = "ping" THEN "exitNodes" ELSE "connect"},
     chain : {c} \cup IF c \in Unmarked THEN {None} ELSE {}]

(* Variant: maxAttempts is not looked at.                                  *)
SenderSendsForever(c) ==
    /\ Running
    /\ sender[c] \in {"first", "wait"}
    /\ sender' = [sender EXCEPT ![c] = "wait"]
    /\ ws
    /\ Len(inbox) < MaxInbox
    /\ count' = [count EXCEPT ![c] = @ + 1]
    /\ \E m \in Answers(c) : inbox' = Append(inbox, m)
    /\ UNCHANGED <<ws, events, next, kind, stopped, stopFunc, pendingPing,
                   pendingRegister, connected, check, stray, handlerVars, onConnect,
                   builds, gaveUp, crashed>>

(* A send: the first one, or one on a tick that found attempts left.  A    *)
(* select may serve the ticker although the stop channel is closed.  On a  *)
(* connected websocket it is counted, and answered; the answer bears the   *)
(* chain id of the request, or none.                                       *)
SenderSends(c) ==
    /\ Running
    /\ sender[c] = "first" \/ (sender[c] = "wait" /\ count[c] < MaxAttempts)
    /\ sender' = [sender EXCEPT ![c] = "wait"]
    /\ \/ /\ ws
          /\ Len(inbox) < MaxInbox
          /\ count' = [count EXCEPT ![c] = @ + 1]
          /\ \E m \in Answers(c) : inbox' = Append(inbox, m)
       \/ /\ ~ ws
          /\ UNCHANGED <<count, inbox>>
    /\ UNCHANGED <<ws, events, next, kind, stopped, stopFunc, pendingPing,
                   pendingRegister, connected, check, stray, handlerVars, onConnect,
                   builds, gaveUp, crashed>>

SenderEnds(c) ==
    /\ Running
    /\ sender[c] = "wait"
    /\ stopped[c] \/ count[c] >= MaxAttempts
    /\ sender' = [sender EXCEPT ![c] = "ended"]
    /\ count' = [count EXCEPT ![c] = 0]         \* the local variable is gone
    /\ UNCHANGED <<netVars, next, kind, stopped, stopFunc, pendingPing,
                   pendingRegister, connected, check, stray, handlerVars, onConnect,
                   builds, gaveUp, crashed>>

-----------------------------------------------------------------------------
(* The websocket and the OnConnect callback.                               *)

WsConnects ==
    /\ Running
    /\ ~ ws
    /\ handler = "idle" /\ onConnect = "idle"
    /\ ws' = TRUE
    /\ onConnect' = "begin"
    /\ UNCHANGED <<inbox, events, senderVars, stopFunc, pendingPing, pendingRegister,
                   connected, check, stray, handlerVars, builds, gaveUp, crashed>>

WsDrops ==
    /\ Running
    /\ ws
    /\ events < MaxEvents
    /\ ws' = FALSE
    /\ inbox' = <<>>
    /\ events' = events + 1
    /\ UNCHANGED <<senderVars, stopFunc, pendingPing, pendingRegister, connected,
                   check, stray, handlerVars, onConnect, builds, gaveUp, crashed>>

(* Variant: a sender that is still referred to is trusted to be at work.   *)
OnConnectTrustsSender ==
    /\ Running
    /\ onConnect = "begin"
    /\ connected \/ stopFunc # None
    /\ onConnect' = "idle"
    /\ UNCHANGED <<netVars, senderVars, stopFunc, pendingPing, pendingRegister,
                   connected, check, stray, handlerVars, builds, gaveUp, crashed>>

(* OnConnect with a tunnel in place only reports the health checks.        *)
OnConnectResumes ==
    /\ Running
    /\ onConnect = "begin"
    /\ connected
    /\ onConnect' = "idle"
    /\ UNCHANGED <<netVars, senderVars, stopFunc, pendingPing, pendingRegister,
                   connected, check, stray, handlerVars, builds, gaveUp, crashed>>

(* Without one it stops the current sender (and leaves stopFunc set) ...   *)
OnConnectStops ==
    /\ Running
    /\ onConnect = "begin"
    /\ ~ connected
    /\ CallStop
    /\ onConnect' = "start"
    /\ UNCHANGED <<netVars, next, kind, sender, count, stopFunc, pendingPing,
                   pendingRegister, connected, check, stray, handlerVars, builds, gaveUp>>

(* Variant: the chain id of the request is not remembered.                 *)
OnConnectForgetsChain ==
    /\ Running
    /\ onConnect = "start"
    /\ StartSender("ping")
    /\ onConnect' = "idle"
    /\ gaveUp' = FALSE
    /\ UNCHANGED <<netVars, stopped, pendingPing, pendingRegister, connected, check,
                   stray, handlerVars, builds, crashed>>

(* ... and starts a handshake.                                             *)
OnConnectStarts ==
    /\ Running
    /\ onConnect = "start"
    /\ StartSender("ping")
    /\ pendingPing' = next
    /\ onConnect' = "idle"
    /\ gaveUp' = FALSE
    /\ UNCHANGED <<netVars, stopped, pendingRegister, connected, check, stray,
                   handlerVars, builds, crashed>>

-----------------------------------------------------------------------------
(* Message handlers.                                                       *)

Receives(what) ==
    /\ Running
    /\ ws /\ handler = "idle" /\ inbox # <<>>
    /\ Head(inbox).kind = what
    /\ inbox' = Tail(inbox)

(* The handlers stop the current sender, if there is one, ...              *)
BeginStop ==
    /\ CallStop
    /\ handling' = Head(inbox)
    /\ handler' = IF stopFunc = None THEN "stopped" ELSE "stopping"

(* Variant: stopFunc is called and kept.                                   *)
ClearStopForgets ==
    /\ Running
    /\ handler = "stopping"
    /\ handler' = "stopped"
    /\ UNCHANGED <<netVars, senderVars, stopFunc, pendingPing, pendingRegister,
                   connected, check, stray, handling, onConnect, builds, gaveUp, crashed>>

(* ... and clear the field, whatever it refers to by now.                  *)
ClearStop ==
    /\ Running
    /\ handler = "stopping"
    /\ stopFunc' = None
    /\ handler' = "stopped"
    /\ UNCHANGED <<netVars, senderVars, pendingPing, pendingRegister, connected,
                   check, stray, handling, onConnect, builds, gaveUp, crashed>>

(* A handler goes on after that.                                           *)
Continues(what) == Running /\ handler = "stopped" /\ handling.kind = what

Returns == handler' = "idle" /\ handling' = NoMessage

(* newt/ping/exitNodes: whatever sender is current is stopped first...     *)
HandleExitNodes ==
    /\ Receives("exitNodes")
    /\ BeginStop
    /\ UNCHANGED <<ws, events, next, kind, sender, count, stopFunc, pendingPing,
                   pendingRegister, connected, check, stray, onConnect, builds, gaveUp>>

(* ... then the answer is read, which ends the handler if it cannot be ... *)
MalformedExitNodes ==
    /\ Continues("exitNodes")
    /\ Returns
    /\ gaveUp' = TRUE
    /\ UNCHANGED <<netVars, senderVars, stopFunc, pendingPing, pendingRegister,
                   connected, check, stray, onConnect, builds, crashed>>

(* An answer that bears a chain id is for the request it names.            *)
IsFor(id, pending) == id \in {None, pending}

(* ... and its chain id decides whether it is discarded.                   *)
StaleExitNodes ==
    /\ Continues("exitNodes")
    /\ ~ IsFor(handling.chain, pendingPing)
    /\ Returns
    /\ UNCHANGED <<netVars, senderVars, stopFunc, pendingPing, pendingRegister,
                   connected, check, stray, onConnect, builds, gaveUp, crashed>>

(* The current answer: ping the exit nodes, which takes a while...         *)
CurrentExitNodes ==
    /\ Continues("exitNodes")
    /\ IsFor(handling.chain, pendingPing)
    /\ pendingPing' = IF handling.chain = None THEN pendingPing ELSE None
    /\ handler' = "pinging" /\ handling' = NoMessage
    /\ UNCHANGED <<netVars, senderVars, stopFunc, pendingRegister, connected, check,
                   stray, onConnect, builds, gaveUp, crashed>>

(* ... and register with the results.                                      *)
RegisterStarts ==
    /\ Running
    /\ handler = "pinging"
    /\ StartSender("register")
    /\ pendingRegister' = next
    /\ Returns
    /\ gaveUp' = FALSE
    /\ UNCHANGED <<netVars, stopped, pendingPing, connected, check, stray, onConnect,
                   builds, crashed>>

(* An answer without exit nodes: nothing else is tried.                    *)
NoExitNodes ==
    /\ Running
    /\ handler = "pinging"
    /\ Returns
    /\ gaveUp' = TRUE
    /\ UNCHANGED <<netVars, senderVars, stopFunc, pendingPing, pendingRegister,
                   connected, check, stray, onConnect, builds, crashed>>

(* newt/wg/connect of another chain is discarded before anything happens.  *)
HandleStaleConnect ==
    /\ Receives("connect")
    /\ ~ IsFor(Head(inbox).chain, pendingRegister)
    /\ UNCHANGED <<ws, events, senderVars, stopFunc, pendingPing, pendingRegister,
                   connected, check, stray, handlerVars, onConnect, builds, gaveUp,
                   crashed>>

(* Variant: the chain id stays pending after its answer.                   *)
HandleConnectKeepsChain ==
    /\ Receives("connect")
    /\ IsFor(Head(inbox).chain, pendingRegister)
    /\ BeginStop
    /\ UNCHANGED <<ws, events, next, kind, sender, count, stopFunc, pendingPing,
                   pendingRegister, connected, check, stray, onConnect, builds, gaveUp>>

(* The current one, or one without a chain id: the sender is stopped...    *)
HandleConnect ==
    /\ Receives("connect")
    /\ IsFor(Head(inbox).chain, pendingRegister)
    /\ pendingRegister' = IF Head(inbox).chain = None THEN pendingRegister ELSE None
    /\ BeginStop
    /\ UNCHANGED <<ws, events, next, kind, sender, count, stopFunc, pendingPing,
                   connected, check, stray, onConnect, builds, gaveUp>>

(* ... an old tunnel closed, and a new one set up and pinged.              *)
BuildTunnel ==
    /\ Continues("connect")
    /\ IF connected THEN CloseTunnel ELSE UNCHANGED <<check, stray>>
    /\ connected' = FALSE
    /\ builds' = [c \in Chains |-> builds[c] + IF c = handling.chain THEN 1 ELSE 0]
    /\ handler' = "connecting" /\ handling' = NoMessage
    /\ UNCHANGED <<netVars, senderVars, stopFunc, pendingPing, pendingRegister,
                   onConnect, gaveUp, crashed>>

(* The tunnel device is up; its ping check and its proxy are started.      *)
ConnectSucceeds ==
    /\ Running
    /\ handler = "connecting"
    /\ connected' = TRUE
    /\ check' = "ok"
    /\ gaveUp' = FALSE
    /\ Returns
    /\ UNCHANGED <<netVars, senderVars, stopFunc, pendingPing, pendingRegister, stray,
                   onConnect, builds, crashed>>

(* One of the early returns of handleConnect (data that cannot be read, no *)
(* TUN device, an endpoint that does not resolve): no sender is left to    *)
(* try again.                                                              *)
ConnectFails ==
    /\ Running
    /\ handler = "connecting"
    /\ Returns
    /\ gaveUp' = TRUE
    /\ UNCHANGED <<netVars, senderVars, stopFunc, pendingPing, pendingRegister,
                   connected, check, stray, onConnect, builds, crashed>>

(* newt/wg/reconnect: close the tunnel and start a handshake.              *)
HandleReconnect ==
    /\ Receives("reconnect")
    /\ CloseTunnel
    /\ connected' = FALSE
    /\ BeginStop
    /\ UNCHANGED <<ws, events, next, kind, sender, count, stopFunc, pendingPing,
                   pendingRegister, onConnect, builds, gaveUp>>

ReconnectStarts ==
    /\ Continues("reconnect")
    /\ StartSender("ping")
    /\ pendingPing' = next
    /\ gaveUp' = FALSE
    /\ Returns
    /\ UNCHANGED <<netVars, stopped, pendingRegister, connected, check, stray,
                   onConnect, builds, crashed>>

(* newt/wg/terminate: close the tunnel and leave it at that.               *)
HandleTerminate ==
    /\ Receives("terminate")
    /\ CloseTunnel
    /\ BeginStop
    /\ UNCHANGED <<ws, events, next, kind, sender, count, stopFunc, pendingPing,
                   pendingRegister, connected, onConnect, builds, gaveUp>>

TerminateEnds ==
    /\ Continues("terminate")
    /\ connected' = FALSE
    /\ gaveUp' = TRUE
    /\ Returns
    /\ UNCHANGED <<netVars, senderVars, stopFunc, pendingPing, pendingRegister, check,
                   stray, onConnect, builds, crashed>>

ServerCommands ==
    /\ Running
    /\ ws
    /\ events < MaxEvents /\ Len(inbox) < MaxInbox
    /\ events' = events + 1
    /\ \E what \in Commands : inbox' = Append(inbox, [kind |-> what, chain |-> None])
    /\ UNCHANGED <<ws, senderVars, stopFunc, pendingPing, pendingRegister, connected,
                   check, stray, handlerVars, onConnect, builds, gaveUp, crashed>>

-----------------------------------------------------------------------------
(* startPingCheck.                                                         *)

(* The fourth failed ping in a row: a handshake is started beside the      *)
(* tunnel.  The sender that stopFunc referred to is not stopped.           *)
StartRecovery ==
    /\ StartSender("ping")
    /\ pendingPing' = next
    /\ gaveUp' = FALSE
    /\ UNCHANGED <<netVars, stopped, pendingRegister, connected, handlerVars, onConnect,
                   builds, crashed>>

PingCheckFails ==
    /\ Running
    /\ check = "ok"
    /\ StartRecovery
    /\ check' = "lost"
    /\ UNCHANGED stray

(* The same, by a check that has been stopped in the meantime.             *)
StrayCheckFails ==
    /\ Running
    /\ stray
    /\ StartRecovery
    /\ stray' = FALSE
    /\ UNCHANGED check

StrayCheckEnds ==
    /\ Running
    /\ stray
    /\ stray' = FALSE
    /\ UNCHANGED <<netVars, senderVars, stopFunc, pendingPing, pendingRegister,
                   connected, check, handlerVars, onConnect, builds, gaveUp, crashed>>

(* A ping succeeds again.                                                  *)
PingCheckRestored ==
    /\ Running
    /\ check = "lost"
    /\ check' = "ok"
    /\ UNCHANGED <<netVars, senderVars, stopFunc, pendingPing, pendingRegister,
                   connected, stray, handlerVars, onConnect, builds, gaveUp, crashed>>

-----------------------------------------------------------------------------
Handle ==
    \/ HandleExitNodes \/ HandleStaleConnect \/ HandleConnect
    \/ HandleReconnect \/ HandleTerminate

HandlerGoesOn ==
    \/ ClearStop \/ MalformedExitNodes \/ StaleExitNodes \/ CurrentExitNodes
    \/ BuildTunnel
    \/ ReconnectStarts \/ TerminateEnds
    \/ RegisterStarts \/ NoExitNodes \/ ConnectSucceeds \/ ConnectFails

OnConnect == OnConnectResumes \/ OnConnectStops \/ OnConnectStarts

PingCheck == PingCheckFails \/ StrayCheckFails \/ StrayCheckEnds \/ PingCheckRestored

Rests ==
    /\ crashed \/ Exhausted \/ gaveUp
    /\ UNCHANGED vars

Next ==
    \/ \E c \in Chains : SenderSends(c) \/ SenderEnds(c)
    \/ WsConnects \/ WsDrops \/ OnConnect
    \/ Handle \/ HandlerGoesOn \/ ServerCommands \/ PingCheck
    \/ Rests

Spec == Init /\ [][Next]_vars

(***************************************************************************)
(* Fairness: goroutines run, handlers return (their pings have timeouts),  *)
(* tickers tick and the server can be dialled again after a drop.  A       *)
(* server that answers is part of SenderSends.                             *)
(***************************************************************************)
Fairness ==
    /\ WF_vars(\E c \in Chains : SenderSends(c) \/ SenderEnds(c))
    /\ WF_vars(WsConnects) /\ WF_vars(OnConnect)
    /\ WF_vars(Handle \/ HandlerGoesOn)

FairSpec == Spec /\ Fairness

-----------------------------------------------------------------------------
(* Properties.                                                             *)

(* Every variable keeps its type.                                          *)
TypeOK ==
    /\ ws \in BOOLEAN /\ inbox \in Seq(Messages) /\ events \in 0 .. MaxEvents
    /\ next \in 1 .. MaxChain + 1
    /\ kind \in [Chains -> {"none", "ping", "register"}]
    /\ sender \in [Chains -> {"off", "first", "wait", "ended"}]
    /\ count \in [Chains -> 0 .. MaxAttempts]
    /\ stopped \in [Chains -> BOOLEAN]
    /\ stopFunc \in Chains \cup {None}
    /\ pendingPing \in Chains \cup {None}
    /\ pendingRegister \in Chains \cup {None}
    /\ connected \in BOOLEAN
    /\ check \in {"off", "ok", "lost"} /\ stray \in BOOLEAN
    /\ handler \in {"idle", "stopping", "stopped", "pinging", "connecting"}
    /\ handling \in Messages \cup {NoMessage}
    /\ onConnect \in {"idle", "begin", "start"}
    /\ builds \in [Chains -> Nat]
    /\ gaveUp \in BOOLEAN /\ crashed \in BOOLEAN

(* However often a registration is sent and answered, at most one of the   *)
(* answers that bear its chain id builds a tunnel: such a duplicate never  *)
(* tears down what the first one set up, not even when answers without a   *)
(* chain id come in between.  Of those nothing is claimed: handleConnect   *)
(* acts on every one.                                                      *)
BuiltOnce == \A c \in Chains : builds[c] <= 1

(* stopFunc refers to a sender that has been stopped already (so that the  *)
(* next call of it panics) only while OnConnect or a handler is between    *)
(* its call of stopFunc and its next assignment of it.  No other order of  *)
(* handlers, OnConnect and recoveries leaves a used stopFunc behind.       *)
DoubleStopWindow ==
    (stopFunc # None /\ stopped[stopFunc]) =>
        onConnect = "start" \/ handler = "stopping" \/ crashed

(* The answer to the handshake is still to come: it (or one without a      *)
(* chain id, which serves as well) is in the inbox, or its request will be *)
(* sent again.                                                             *)
Awaited(c, what) ==
    c # None /\ \/ sender[c] = "first"
                \/ sender[c] = "wait" /\ ~ stopped[c] /\ count[c] < MaxAttempts
                \/ \E i \in 1 .. Len(inbox) :
                      inbox[i].kind = what /\ inbox[i].chain \in {c, None}

(* As long as there is no tunnel, a handshake is under way: no order of    *)
(* duplicated answers, drops, commands and OnConnect calls stops the last  *)
(* sender without leaving its answer to come.                              *)
HandshakeAlive ==
    (~ connected /\ ws /\ handler = "idle" /\ onConnect = "idle") =>
        \/ Awaited(pendingPing, "exitNodes")
        \/ Awaited(pendingRegister, "connect")
        \/ gaveUp \/ crashed \/ Exhausted

(* A site without a tunnel gets one, unless it was told not to, gave up or *)
(* died.                                                                   *)
EventuallyConnected == (~ connected) ~> (connected \/ gaveUp \/ crashed \/ Exhausted)

(* "Connection to server lost after %d failures. Continuous reconnection   *)
(* attempts will be made." (startPingCheck): while connectionLost is set   *)
(* some request for a new handshake, or its answer, is under way.          *)
RecoveryContinues ==
    (check = "lost" /\ ws /\ handler = "idle" /\ onConnect = "idle") =>
        \/ Awaited(pendingPing, "exitNodes")
        \/ Awaited(pendingRegister, "connect")
        \/ gaveUp \/ crashed \/ Exhausted
=============================================================================
