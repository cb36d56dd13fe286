------------------------------ MODULE WSClient ------------------------------
(***************************************************************************)
(* The websocket client of newt (websocket/client.go): one Client whose    *)
(* field c.conn is shared by the connector goroutines (connectWithRetry),  *)
(* the read pump and the ping monitor of every connection, the callers of  *)
(* SendMessage and the caller of Close.                                    *)
(*                                                                         *)
(* Session s is the s-th connection together with the connector that       *)
(* dials it, its read pump and its ping monitor.  A connector keeps trying *)
(* until it has installed one connection, so session s + 1 exists only if  *)
(* the read pump of session s called reconnect().                          *)
(*                                                                         *)
(* What runs under writeMux is one step: the lock makes it atomic for the  *)
(* other holders, and the two accesses outside it (the assignment in       *)
(* establishConnection and the ones in Close) are steps of their own.      *)
(***************************************************************************)
EXTENDS Naturals

CONSTANTS
    MaxSession,     \* bound on the number of connections of a behaviour
    Senders         \* the goroutines that call SendMessage

ASSUME SessionAssumption == MaxSession \in Nat \ {0}

Sessions == 1 .. MaxSession

Nil == 0            \* the nil *websocket.Conn

(***************************************************************************)
(* A socket is "up" from the dial on.  The peer may close or reset it      *)
(* ("reset": reads fail), or disappear without a word ("halfopen": reads   *)
(* block, writes end in the kernel's buffer), in which case the read       *)
(* deadline passes ("expired": reads fail).  It also passes when a handler *)
(* keeps the pump from reading for too long ("late": whatever became of    *)
(* the peer, a read that needs the network fails).  "closed" is this       *)
(* side's Close.                                                           *)
(***************************************************************************)
Open == {"up", "late", "reset", "halfopen", "expired"}
SockState == {"none", "closed"} \cup Open

VARIABLES
    conn,           \* c.conn: the session whose connection it points to, or Nil
    isConnected,    \* c.isConnected
    done,           \* is the channel c.done closed?
    processing,     \* c.processingMessage
    connClosed,     \* is the connClosed channel of the session closed?
    sock,           \* the state of the session's socket, see SockState
    connector,      \* program counter of connectWithRetry/establishConnection
    pump,           \* program counter of readPumpWithDisconnectDetection
    monitor,        \* program counter of pingMonitor/sendPing
    failedOn,       \* the connection the monitor's last failed ping was written to
    sender,         \* program counter of a caller of SendMessage
    closer,         \* program counter of the caller of Close
    crashed         \* a nil *websocket.Conn was dereferenced

vars == <<conn, isConnected, done, processing, connClosed, sock, connector,
          pump, monitor, failedOn, sender, closer, crashed>>

-----------------------------------------------------------------------------
Init ==
    /\ conn = Nil
    /\ isConnected = FALSE
    /\ done = FALSE
    /\ processing = FALSE
    /\ connClosed = [s \in Sessions |-> FALSE]
    /\ sock = [s \in Sessions |-> "none"]
    /\ connector = [s \in Sessions |-> "none"]
    /\ pump = [s \in Sessions |-> "none"]
    /\ monitor = [s \in Sessions |-> "none"]
    /\ failedOn = [s \in Sessions |-> Nil]
    /\ sender = [x \in Senders |-> "idle"]
    /\ closer = "idle"
    /\ crashed = FALSE

-----------------------------------------------------------------------------
(* Connectors: Connect, connectWithRetry, establishConnection.             *)

(* Closing whatever c.conn points to: c.conn.Close() behind a nil check.   *)
SockAfterClose == IF conn = Nil THEN sock ELSE [sock EXCEPT ![conn] = "closed"]

Connect ==
    /\ ~ crashed
    /\ connector[1] = "none"
    /\ connector' = [connector EXCEPT ![1] = "check"]
    /\ UNCHANGED <<conn, isConnected, done, processing, connClosed, sock, pump,
                   monitor, failedOn, sender, closer, crashed>>

(* The select on c.done at the head of the retry loop.                     *)
RetryCheck(s) ==
    /\ ~ crashed
    /\ connector[s] = "check"
    /\ connector' = [connector EXCEPT ![s] = IF done THEN "exited" ELSE "dial"]
    /\ UNCHANGED <<conn, isConnected, done, processing, connClosed, sock, pump,
                   monitor, failedOn, sender, closer, crashed>>

(* Provisioning, the token request or the dial fails; the connector sleeps *)
(* for reconnectInterval and starts over.                                  *)
EstablishFails(s) ==
    /\ ~ crashed
    /\ connector[s] = "dial"
    /\ connector' = [connector EXCEPT ![s] = "check"]
    /\ UNCHANGED <<conn, isConnected, done, processing, connClosed, sock, pump,
                   monitor, failedOn, sender, closer, crashed>>

(* The dial succeeds and c.conn is assigned, outside writeMux.  c.done is  *)
(* not looked at again.                                                    *)
InstallConn(s) ==
    /\ ~ crashed
    /\ connector[s] = "dial"
    /\ connector' = [connector EXCEPT ![s] = "installed"]
    /\ sock' = [sock EXCEPT ![s] = "up"]
    /\ conn' = s
    /\ UNCHANGED <<isConnected, done, processing, connClosed, pump,
                   monitor, failedOn, sender, closer, crashed>>

(* setConnected(true); arm the read deadline, start the ping monitor and   *)
(* the read pump.                                                          *)
StartSession(s) ==
    /\ ~ crashed
    /\ connector[s] = "installed"
    /\ connector' = [connector EXCEPT ![s] = "onConnect"]
    /\ isConnected' = TRUE
    /\ monitor' = [monitor EXCEPT ![s] = "ping"]
    /\ pump' = [pump EXCEPT ![s] = "loop"]
    /\ UNCHANGED <<conn, done, processing, connClosed, sock, failedOn, sender,
                   closer, crashed>>

(* saveConfig and the onConnect callback return; so does the connector.    *)
OnConnectReturns(s) ==
    /\ ~ crashed
    /\ connector[s] = "onConnect"
    /\ connector' = [connector EXCEPT ![s] = "exited"]
    /\ UNCHANGED <<conn, isConnected, done, processing, connClosed, sock, pump,
                   monitor, failedOn, sender, closer, crashed>>

-----------------------------------------------------------------------------
(* Read pumps: readPumpWithDisconnectDetection, reconnect.                 *)

PumpLoop(s) ==
    /\ ~ crashed
    /\ pump[s] = "loop"
    /\ pump' = [pump EXCEPT ![s] = IF done THEN "defer" ELSE "read"]
    /\ UNCHANGED <<conn, isConnected, done, processing, connClosed, sock,
                   connector, monitor, failedOn, sender, closer, crashed>>

(* ReadMessage on c.conn delivers a message and the deadline is extended.  *)
(* After a late handler that is a message the connection had buffered.  A  *)
(* message that cannot be decoded, or that has no handler, is dropped.     *)
CanRead == conn # Nil /\ sock[conn] \in {"up", "late"}

PumpDropsMessage(s) ==
    /\ ~ crashed
    /\ pump[s] = "read"
    /\ CanRead
    /\ sock' = [sock EXCEPT ![conn] = "up"]
    /\ pump' = [pump EXCEPT ![s] = "loop"]
    /\ UNCHANGED <<conn, isConnected, done, processing, connClosed, connector,
                   monitor, failedOn, sender, closer, crashed>>

PumpHandlesMessage(s) ==
    /\ ~ crashed
    /\ pump[s] = "read"
    /\ CanRead
    /\ sock' = [sock EXCEPT ![conn] = "up"]
    /\ processing' = TRUE
    /\ pump' = [pump EXCEPT ![s] = "handle"]
    /\ UNCHANGED <<conn, isConnected, done, connClosed, connector, monitor,
                   failedOn, sender, closer, crashed>>

(* Variant: the flag is not lowered after the handler.                     *)
HandlerReturnsBusy(s) ==
    /\ ~ crashed
    /\ pump[s] = "handle"
    /\ pump' = [pump EXCEPT ![s] = "loop"]
    /\ UNCHANGED <<conn, isConnected, done, processing, connClosed, sock, connector,
                   monitor, failedOn, sender, closer, crashed>>

HandlerReturns(s) ==
    /\ ~ crashed
    /\ pump[s] = "handle"
    /\ processing' = FALSE
    /\ pump' = [pump EXCEPT ![s] = "loop"]
    /\ UNCHANGED <<conn, isConnected, done, connClosed, sock, connector, monitor,
                   failedOn, sender, closer, crashed>>

(* What makes ReadMessage return an error.                                 *)
ReadFails == conn # Nil /\ sock[conn] \in {"closed", "reset", "expired", "late"}

PumpReadError(s) ==
    /\ ~ crashed
    /\ pump[s] = "read"
    /\ ReadFails
    /\ pump' = [pump EXCEPT ![s] = "defer"]
    /\ UNCHANGED <<conn, isConnected, done, processing, connClosed, sock,
                   connector, monitor, failedOn, sender, closer, crashed>>

(* Variant: the deferred function forgets to close the connection.         *)
PumpDeferKeepsConn(s) ==
    /\ ~ crashed
    /\ pump[s] = "defer"
    /\ connClosed' = [connClosed EXCEPT ![s] = TRUE]
    /\ pump' = [pump EXCEPT ![s] = "drain"]
    /\ UNCHANGED <<conn, isConnected, done, processing, sock, connector, monitor,
                   failedOn, sender, closer, crashed>>

(* The deferred function: stop the ping monitor, close the connection...   *)
PumpDefer(s) ==
    /\ ~ crashed
    /\ pump[s] = "defer"
    /\ connClosed' = [connClosed EXCEPT ![s] = TRUE]
    /\ sock' = SockAfterClose
    /\ pump' = [pump EXCEPT ![s] = "drain"]
    /\ UNCHANGED <<conn, isConnected, done, processing, connector,
                   monitor, failedOn, sender, closer, crashed>>

(* Variant: reconnect() starts the connector before c.conn is cleared.     *)
PumpDrainSpawnsFirst(s) ==
    /\ ~ crashed
    /\ pump[s] = "drain"
    /\ isConnected' = (isConnected /\ done)
    /\ pump' = [pump EXCEPT ![s] = IF done THEN "exited" ELSE "clear"]
    /\ connector' = IF done \/ s + 1 \notin Sessions THEN connector
                    ELSE [connector EXCEPT ![s + 1] = "check"]
    /\ UNCHANGED <<conn, done, processing, connClosed, sock, monitor, failedOn,
                   sender, closer, crashed>>

(* ... and reconnect unless the client is shutting down; reconnect() first *)
(* calls setConnected(false).                                              *)
PumpDrain(s) ==
    /\ ~ crashed
    /\ pump[s] = "drain"
    /\ isConnected' = (isConnected /\ done)
    /\ pump' = [pump EXCEPT ![s] = IF done THEN "exited" ELSE "clear"]
    /\ UNCHANGED <<conn, done, processing, connClosed, sock, connector, monitor,
                   failedOn, sender, closer, crashed>>

(* Under writeMux: close c.conn once more and set it to nil.               *)
ReconnectClears(s) ==
    /\ ~ crashed
    /\ pump[s] = "clear"
    /\ sock' = SockAfterClose
    /\ conn' = Nil
    /\ pump' = [pump EXCEPT ![s] = "spawn"]
    /\ UNCHANGED <<isConnected, done, processing, connClosed,
                   connector, monitor, failedOn, sender, closer, crashed>>

ReconnectStops(s) ==
    /\ ~ crashed
    /\ pump[s] = "spawn"
    /\ done
    /\ pump' = [pump EXCEPT ![s] = "exited"]
    /\ UNCHANGED <<conn, isConnected, done, processing, connClosed, sock,
                   connector, monitor, failedOn, sender, closer, crashed>>

(* Variant: the connection is cleared and nobody dials again.              *)
ReconnectForgets(s) ==
    /\ ~ crashed
    /\ pump[s] = "spawn"
    /\ ~ done
    /\ pump' = [pump EXCEPT ![s] = "exited"]
    /\ UNCHANGED <<conn, isConnected, done, processing, connClosed, sock, connector,
                   monitor, failedOn, sender, closer, crashed>>

(* go c.connectWithRetry(), up to the bound on sessions.                   *)
ReconnectSpawns(s) ==
    /\ ~ crashed
    /\ pump[s] = "spawn"
    /\ ~ done
    /\ s + 1 \in Sessions
    /\ pump' = [pump EXCEPT ![s] = "exited"]
    /\ connector' = [connector EXCEPT ![s + 1] = "check"]
    /\ UNCHANGED <<conn, isConnected, done, processing, connClosed, sock,
                   monitor, failedOn, sender, closer, crashed>>

-----------------------------------------------------------------------------
(* Ping monitors: pingMonitor, sendPing.                                   *)

(* The checks at the head of sendPing, outside writeMux.                   *)
PingCheck(s) ==
    /\ ~ crashed
    /\ monitor[s] = "ping"
    /\ monitor' = [monitor EXCEPT ![s] =
                        IF conn = Nil \/ processing THEN "wait" ELSE "write"]
    /\ UNCHANGED <<conn, isConnected, done, processing, connClosed, sock,
                   connector, pump, failedOn, sender, closer, crashed>>

(* The write under writeMux succeeds: also when the bytes only reach the   *)
(* kernel's buffer, on a connection whose peer is gone.                    *)
PingWrites(s) ==
    /\ ~ crashed
    /\ monitor[s] = "write"
    /\ conn # Nil => sock[conn] # "closed"
    /\ monitor' = [monitor EXCEPT ![s] = "wait"]
    /\ UNCHANGED <<conn, isConnected, done, processing, connClosed, sock,
                   connector, pump, failedOn, sender, closer, crashed>>

(* It fails: the socket is closed, or reset, or the write deadline passes  *)
(* because nothing drains the connection.  writeMux is released.           *)
PingFails(s) ==
    /\ ~ crashed
    /\ monitor[s] = "write"
    /\ conn # Nil
    /\ sock[conn] # "up"
    /\ failedOn' = [failedOn EXCEPT ![s] = conn]
    /\ monitor' = [monitor EXCEPT ![s] = "failed"]
    /\ UNCHANGED <<conn, isConnected, done, processing, connClosed, sock,
                   connector, pump, sender, closer, crashed>>

(* Variant: the ping monitor reconnects by itself, beside the read pump.   *)
PingReconnects(s) ==
    /\ ~ crashed
    /\ monitor[s] = "failed"
    /\ sock' = IF done THEN sock ELSE SockAfterClose
    /\ failedOn' = [failedOn EXCEPT ![s] = Nil]
    /\ monitor' = [monitor EXCEPT ![s] = "wait"]
    /\ connector' = IF done \/ s + 1 \notin Sessions THEN connector
                    ELSE [connector EXCEPT ![s + 1] = "check"]
    /\ UNCHANGED <<conn, isConnected, done, processing, connClosed, pump, sender,
                   closer, crashed>>

(* Unless shutting down, writeMux is taken again and c.conn, whatever it   *)
(* points to by now, is closed.                                            *)
PingCloses(s) ==
    /\ ~ crashed
    /\ monitor[s] = "failed"
    /\ sock' = IF done THEN sock ELSE SockAfterClose
    /\ failedOn' = [failedOn EXCEPT ![s] = Nil]
    /\ monitor' = [monitor EXCEPT ![s] = "wait"]
    /\ UNCHANGED <<conn, isConnected, done, processing, connClosed,
                   connector, pump, sender, closer, crashed>>

(* The select of pingMonitor: the ticker may win although another channel  *)
(* is ready as well.                                                       *)
MonitorTick(s) ==
    /\ ~ crashed
    /\ monitor[s] = "wait"
    /\ monitor' = [monitor EXCEPT ![s] = "ping"]
    /\ UNCHANGED <<conn, isConnected, done, processing, connClosed, sock,
                   connector, pump, failedOn, sender, closer, crashed>>

MonitorExits(s) ==
    /\ ~ crashed
    /\ monitor[s] = "wait"
    /\ done \/ connClosed[s]
    /\ monitor' = [monitor EXCEPT ![s] = "exited"]
    /\ UNCHANGED <<conn, isConnected, done, processing, connClosed, sock,
                   connector, pump, failedOn, sender, closer, crashed>>

-----------------------------------------------------------------------------
(* SendMessage and SendMessageNoLog.                                       *)

(* c.conn is looked at before writeMux is taken (a nil one: an error).     *)
SendCheck(x) ==
    /\ ~ crashed
    /\ sender[x] = "idle"
    /\ conn # Nil
    /\ sender' = [sender EXCEPT ![x] = "checked"]
    /\ UNCHANGED <<conn, isConnected, done, processing, connClosed, sock,
                   connector, pump, monitor, failedOn, closer, crashed>>

(* Under writeMux it is used unchecked: a nil pointer panics.  Whether the *)
(* write succeeds changes nothing here.                                    *)
SendWrite(x) ==
    /\ ~ crashed
    /\ sender[x] = "checked"
    /\ sender' = [sender EXCEPT ![x] = "idle"]
    /\ crashed' = (conn = Nil)
    /\ UNCHANGED <<conn, isConnected, done, processing, connClosed, sock,
                   connector, pump, monitor, failedOn, closer>>

-----------------------------------------------------------------------------
(* Close.                                                                  *)

CloseSignals ==
    /\ ~ crashed
    /\ closer = "idle"
    /\ done' = TRUE
    /\ closer' = "mark"
    /\ UNCHANGED <<conn, isConnected, processing, connClosed, sock, connector,
                   pump, monitor, failedOn, sender, crashed>>

(* setConnected(false), and the nil check of c.conn.                       *)
CloseMarks ==
    /\ ~ crashed
    /\ closer = "mark"
    /\ isConnected' = FALSE
    /\ closer' = IF conn = Nil THEN "returned" ELSE "write"
    /\ UNCHANGED <<conn, done, processing, connClosed, sock, connector, pump,
                   monitor, failedOn, sender, crashed>>

(* The close frame and Close use c.conn unchecked.                         *)
CloseWrites ==
    /\ ~ crashed
    /\ closer = "write"
    /\ crashed' = (conn = Nil)
    /\ closer' = "close"
    /\ UNCHANGED <<conn, isConnected, done, processing, connClosed, sock,
                   connector, pump, monitor, failedOn, sender>>

(* Variant: Close leaves the connection to the peer's close frame.         *)
CloseOnlyWrites ==
    /\ ~ crashed
    /\ closer = "close"
    /\ closer' = "returned"
    /\ UNCHANGED <<conn, isConnected, done, processing, connClosed, sock, connector,
                   pump, monitor, failedOn, sender, crashed>>

CloseCloses ==
    /\ ~ crashed
    /\ closer = "close"
    /\ crashed' = (conn = Nil)
    /\ sock' = SockAfterClose
    /\ closer' = "returned"
    /\ UNCHANGED <<conn, isConnected, done, processing, connClosed,
                   connector, pump, monitor, failedOn, sender>>

-----------------------------------------------------------------------------
(* The network and the clock.                                              *)

(* The peer closes or resets the connection, or silently disappears.       *)
LinkBreaks(s) ==
    /\ ~ crashed
    /\ sock[s] = "up"
    /\ \E how \in {"reset", "halfopen"} : sock' = [sock EXCEPT ![s] = how]
    /\ UNCHANGED <<conn, isConnected, done, processing, connClosed, connector,
                   pump, monitor, failedOn, sender, closer, crashed>>

(* Variant: the read deadline is never armed.                              *)
DeadlineUnarmed(s) == FALSE

(* No pong and no message for pongWait: the peer is gone...                *)
DeadlinePasses(s) ==
    /\ ~ crashed
    /\ sock[s] = "halfopen"
    /\ sock' = [sock EXCEPT ![s] = "expired"]
    /\ UNCHANGED <<conn, isConnected, done, processing, connClosed, connector,
                   pump, monitor, failedOn, sender, closer, crashed>>

(* ... or a handler kept the pump from reading for that long.              *)
HandlerOverruns(s) ==
    /\ ~ crashed
    /\ pump[s] = "handle"
    /\ sock[s] = "up"
    /\ sock' = [sock EXCEPT ![s] = "late"]
    /\ UNCHANGED <<conn, isConnected, done, processing, connClosed, connector,
                   pump, monitor, failedOn, sender, closer, crashed>>

-----------------------------------------------------------------------------
ConnectorStep(s) ==
    \/ RetryCheck(s) \/ EstablishFails(s) \/ InstallConn(s)
    \/ StartSession(s) \/ OnConnectReturns(s)

PumpStep(s) ==
    \/ PumpLoop(s) \/ PumpDropsMessage(s) \/ PumpHandlesMessage(s)
    \/ HandlerReturns(s) \/ PumpReadError(s) \/ PumpDefer(s) \/ PumpDrain(s)
    \/ ReconnectClears(s) \/ ReconnectStops(s) \/ ReconnectSpawns(s)

PingStep(s) == PingCheck(s) \/ PingWrites(s) \/ PingFails(s) \/ PingCloses(s)

MonitorStep(s) == PingStep(s) \/ MonitorTick(s) \/ MonitorExits(s)

SenderStep(x) == SendCheck(x) \/ SendWrite(x)

CloseStep == CloseMarks \/ CloseWrites \/ CloseCloses

NetworkStep(s) == LinkBreaks(s) \/ DeadlinePasses(s) \/ HandlerOverruns(s)

Goroutines(s) == {connector[s], pump[s], monitor[s]}

(* Close has returned and every goroutine of every session has ended.      *)
Quiescent ==
    /\ closer = "returned"
    /\ \A s \in Sessions : Goroutines(s) \subseteq {"none", "exited"}

(* The states in which nothing is left to do: after a panic, and after a   *)
(* Close that everything has followed.                                     *)
Terminated ==
    /\ crashed \/ Quiescent
    /\ UNCHANGED vars

Next ==
    \/ Connect \/ CloseSignals \/ CloseStep
    \/ \E s \in Sessions :
          ConnectorStep(s) \/ PumpStep(s) \/ MonitorStep(s) \/ NetworkStep(s)
    \/ \E x \in Senders : SenderStep(x)
    \/ Terminated

Spec == Init /\ [][Next]_vars

(***************************************************************************)
(* Fairness.  The Go scheduler runs every goroutine that can run; a dial   *)
(* and a handler end (they are bounded by timeouts); an armed deadline     *)
(* that nothing extends passes.  The select of pingMonitor chooses at      *)
(* random among its ready channels, so a closed channel is chosen in the   *)
(* end although the ticker keeps competing: strong fairness.  Nothing is   *)
(* assumed of the network, of the arrival of messages or of the success of *)
(* a dial.                                                                 *)
(***************************************************************************)
PumpProgress(s) ==
    \/ PumpLoop(s) \/ HandlerReturns(s) \/ PumpReadError(s) \/ PumpDefer(s)
    \/ PumpDrain(s) \/ ReconnectClears(s) \/ ReconnectStops(s)
    \/ ReconnectSpawns(s)

Fairness ==
    /\ WF_vars(CloseStep)
    /\ \A s \in Sessions :
          /\ WF_vars(ConnectorStep(s))
          /\ WF_vars(PumpProgress(s))
          /\ WF_vars(PingStep(s))
          /\ SF_vars(MonitorExits(s))
          /\ WF_vars(DeadlinePasses(s))

FairSpec == Spec /\ Fairness

-----------------------------------------------------------------------------
(* Properties.                                                             *)

Dialling == {"check", "dial"}
PumpLive == {"loop", "read", "handle", "defer", "drain", "clear"}

(* Every variable keeps its type.                                          *)
TypeOK ==
    /\ conn \in Sessions \cup {Nil}
    /\ isConnected \in BOOLEAN
    /\ done \in BOOLEAN
    /\ processing \in BOOLEAN
    /\ connClosed \in [Sessions -> BOOLEAN]
    /\ sock \in [Sessions -> SockState]
    /\ connector \in [Sessions -> {"none", "installed", "onConnect", "exited"}
                                     \cup Dialling]
    /\ pump \in [Sessions -> {"none", "spawn", "exited"} \cup PumpLive]
    /\ monitor \in [Sessions -> {"none", "ping", "write", "failed", "wait", "exited"}]
    /\ failedOn \in [Sessions -> Sessions \cup {Nil}]
    /\ sender \in [Senders -> {"idle", "checked"}]
    /\ closer \in {"idle", "mark", "write", "close", "returned"}
    /\ crashed \in BOOLEAN

(* The code names the connection of a read pump only through c.conn, which *)
(* every goroutine shares.  It is nevertheless its own connection that a   *)
(* pump reads, closes and clears, from its first loop to the assignment of *)
(* nil in reconnect(): no two pumps ever work on one connection, and none  *)
(* closes the connection of a later session.                               *)
PumpOwnsConn == \A s \in Sessions : pump[s] \in PumpLive => conn = s

(* A lost connection leads to one reconnect: at any time at most one       *)
(* connector is trying, and none while a connection is installed or an     *)
(* older pump has still to clear c.conn.                                   *)
SingleReconnect ==
    \A s \in Sessions : connector[s] \in Dialling =>
        /\ conn = Nil
        /\ \A t \in Sessions :
              /\ connector[t] \in Dialling \cup {"installed"} => t = s
              /\ pump[t] \in {"none", "exited"}

(* An open socket is never forgotten: it is the one c.conn points to and   *)
(* its session's pump, which will close it, has not yet passed the point   *)
(* where it does (or is about to be started).  A dial that completes after *)
(* Close is covered: its pump still runs once.                             *)
NoOrphanSocket ==
    \A s \in Sessions : sock[s] \in Open =>
        /\ conn = s
        /\ \/ connector[s] = "installed" /\ pump[s] = "none"
           \/ pump[s] \in {"loop", "read", "handle", "defer"}

(* isConnected never claims a connection that is not there: it is raised   *)
(* after c.conn is assigned and lowered before it is cleared.              *)
ConnectedHasConn == isConnected => conn # Nil

(* processingMessage, which suppresses pings, is set exactly while some    *)
(* pump is inside a handler: a reconnect can neither leave it stuck nor    *)
(* clear it under another pump's handler.                                  *)
ProcessingExact == processing <=> \E s \in Sessions : pump[s] = "handle"

(* The two flags that outlive a connection, isConnected and                *)
(* processingMessage, tell the truth across reconnects: what one session's *)
(* goroutines leave behind never misleads those of the next.               *)
FlagsExact == ConnectedHasConn /\ ProcessingExact

(* Close brings every goroutine of every session to its end, wherever the  *)
(* dial, the handlers and the pings were when it was called.               *)
ShutdownCompletes == done ~> (Quiescent \/ crashed)

(* A half-open connection is noticed: its socket does not stay open.       *)
HalfOpenDetected ==
    \A s \in Sessions : sock[s] = "halfopen" ~> (sock[s] = "closed" \/ crashed)

(* A connection that is gone is replaced by a new attempt to connect,      *)
(* unless the client is shutting down.                                     *)
LossReconnects ==
    \A s \in Sessions \ {MaxSession} :
        sock[s] = "closed" ~> (connector[s + 1] # "none" \/ done \/ crashed)

(* "Close the connection and let the read pump trigger a single reconnect" *)
(* (sendPing): the connection that a failed ping closes is the one the     *)
(* ping was written to.                                                    *)
PingClosesOwnConn ==
    [][\A s, t \in Sessions :
          (/\ monitor[s] = "failed" /\ monitor'[s] = "wait"
           /\ sock[t] \in Open /\ sock'[t] = "closed") => t = failedOn[s]]_vars
=============================================================================
