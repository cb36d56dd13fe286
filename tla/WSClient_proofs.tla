--------------------------- MODULE WSClient_proofs ---------------------------
(***************************************************************************)
(* Proofs about WSClient for any number of sessions and of senders.        *)
(*                                                                         *)
(* The invariants of interest all rest on one fact that the code never     *)
(* states: the sessions form a chain.  A session is started only by the    *)
(* pump of the one before it, as that pump's last act, and after it has    *)
(* set c.conn to nil.  SessionChain says so, and makes them inductive.     *)
(***************************************************************************)
EXTENDS WSClient, TLAPS

ChainAt(s) ==
    /\ pump[s] # "none" => connector[s] \in {"onConnect", "exited"}
    /\ connector[s] # "none" => \A t \in Sessions : t < s => pump[t] = "exited"
    /\ conn = s => connector[s] \in {"installed", "onConnect", "exited"}
    /\ connector[s] = "installed" => conn = s
    /\ connector[s] \in Dialling => conn = Nil
    /\ pump[s] = "spawn" => conn = Nil
    /\ pump[s] = "clear" => ~ isConnected

SessionChain == \A s \in Sessions : ChainAt(s)

(* What the chain supports, beside the types.                              *)
CoreInv ==
    /\ SessionChain
    /\ PumpOwnsConn
    /\ NoOrphanSocket
    /\ ProcessingExact
    /\ ConnectedHasConn

IndInv == TypeOK /\ CoreInv

(* The sessions that have begun are numbered consecutively, so when one is *)
(* still connecting no other session has a connector or a pump at work.    *)
LEMMA ChainSingle ==
    ASSUME TypeOK, SessionChain,
           NEW s \in Sessions, connector[s] \in Dialling \cup {"installed"},
           NEW t \in Sessions, t # s
    PROVE  /\ pump[t] \in {"none", "exited"}
           /\ connector[t] \in {"none", "onConnect", "exited"}
           /\ pump[s] = "none"
<1>1. pump[s] = "none"
  BY DEF SessionChain, ChainAt, Dialling
<1>2. s \in Nat /\ t \in Nat
  BY SessionAssumption DEF Sessions
<1>3. CASE t < s
  <2>1. pump[t] = "exited"
    BY <1>3 DEF SessionChain, ChainAt, Dialling
  <2> QED
    BY <1>1, <2>1 DEF SessionChain, ChainAt
<1>4. CASE s < t
  <2>1. connector[t] = "none"
    BY <1>1, <1>4 DEF SessionChain, ChainAt
  <2>2. pump[t] = "none"
    BY <2>1 DEF SessionChain, ChainAt
  <2> QED
    BY <1>1, <2>1, <2>2
<1> QED
  BY <1>2, <1>3, <1>4

-----------------------------------------------------------------------------
(* No action takes a variable out of its type.                             *)
LEMMA TypeStep == TypeOK /\ [Next]_vars => TypeOK'
<1> SUFFICES ASSUME TypeOK, [Next]_vars PROVE TypeOK'
  OBVIOUS
<1> USE SessionAssumption DEF TypeOK, Sessions, SockState, Open, Nil, Dialling, PumpLive
<1>1. CASE Connect
  BY <1>1 DEF Connect
<1>2. CASE CloseSignals
  BY <1>2 DEF CloseSignals
<1>3. CASE CloseMarks
  BY <1>3 DEF CloseMarks
<1>4. CASE CloseWrites
  BY <1>4 DEF CloseWrites
<1>5. CASE CloseCloses
  BY <1>5 DEF CloseCloses, SockAfterClose
<1>6. ASSUME NEW s \in Sessions, RetryCheck(s) PROVE TypeOK'
  BY <1>6 DEF RetryCheck
<1>7. ASSUME NEW s \in Sessions, EstablishFails(s) PROVE TypeOK'
  BY <1>7 DEF EstablishFails
<1>8. ASSUME NEW s \in Sessions, InstallConn(s) PROVE TypeOK'
  BY <1>8 DEF InstallConn
<1>9. ASSUME NEW s \in Sessions, StartSession(s) PROVE TypeOK'
  BY <1>9 DEF StartSession
<1>10. ASSUME NEW s \in Sessions, OnConnectReturns(s) PROVE TypeOK'
  BY <1>10 DEF OnConnectReturns
<1>11. ASSUME NEW s \in Sessions, PumpLoop(s) PROVE TypeOK'
  BY <1>11 DEF PumpLoop
<1>12. ASSUME NEW s \in Sessions, PumpDropsMessage(s) PROVE TypeOK'
  BY <1>12 DEF PumpDropsMessage, CanRead
<1>13. ASSUME NEW s \in Sessions, PumpHandlesMessage(s) PROVE TypeOK'
  BY <1>13 DEF PumpHandlesMessage, CanRead
<1>14. ASSUME NEW s \in Sessions, HandlerReturns(s) PROVE TypeOK'
  BY <1>14 DEF HandlerReturns
<1>15. ASSUME NEW s \in Sessions, PumpReadError(s) PROVE TypeOK'
  BY <1>15 DEF PumpReadError, ReadFails
<1>16. ASSUME NEW s \in Sessions, PumpDefer(s) PROVE TypeOK'
  BY <1>16 DEF PumpDefer, SockAfterClose
<1>17. ASSUME NEW s \in Sessions, PumpDrain(s) PROVE TypeOK'
  BY <1>17 DEF PumpDrain
<1>18. ASSUME NEW s \in Sessions, ReconnectClears(s) PROVE TypeOK'
  BY <1>18 DEF ReconnectClears, SockAfterClose
<1>19. ASSUME NEW s \in Sessions, ReconnectStops(s) PROVE TypeOK'
  BY <1>19 DEF ReconnectStops
<1>20. ASSUME NEW s \in Sessions, ReconnectSpawns(s) PROVE TypeOK'
  BY <1>20 DEF ReconnectSpawns
<1>21. ASSUME NEW s \in Sessions, PingCheck(s) PROVE TypeOK'
  BY <1>21 DEF PingCheck
<1>22. ASSUME NEW s \in Sessions, PingWrites(s) PROVE TypeOK'
  BY <1>22 DEF PingWrites
<1>23. ASSUME NEW s \in Sessions, PingFails(s) PROVE TypeOK'
  BY <1>23 DEF PingFails
<1>24. ASSUME NEW s \in Sessions, PingCloses(s) PROVE TypeOK'
  BY <1>24 DEF PingCloses, SockAfterClose
<1>25. ASSUME NEW s \in Sessions, MonitorTick(s) PROVE TypeOK'
  BY <1>25 DEF MonitorTick
<1>26. ASSUME NEW s \in Sessions, MonitorExits(s) PROVE TypeOK'
  BY <1>26 DEF MonitorExits
<1>27. ASSUME NEW s \in Sessions, LinkBreaks(s) PROVE TypeOK'
  BY <1>27 DEF LinkBreaks
<1>28. ASSUME NEW s \in Sessions, DeadlinePasses(s) PROVE TypeOK'
  BY <1>28 DEF DeadlinePasses
<1>29. ASSUME NEW s \in Sessions, HandlerOverruns(s) PROVE TypeOK'
  BY <1>29 DEF HandlerOverruns
<1>30. ASSUME NEW x \in Senders, SendCheck(x) PROVE TypeOK'
  BY <1>30 DEF SendCheck
<1>31. ASSUME NEW x \in Senders, SendWrite(x) PROVE TypeOK'
  BY <1>31 DEF SendWrite
<1>32. CASE UNCHANGED vars
  BY <1>32 DEF vars
<1> QED
  BY <1>1, <1>2, <1>3, <1>4, <1>5, <1>6, <1>7, <1>8, <1>9, <1>10, <1>11, <1>12, <1>13, <1>14, <1>15, <1>16, <1>17, <1>18, <1>19, <1>20, <1>21, <1>22, <1>23, <1>24, <1>25, <1>26, <1>27, <1>28, <1>29, <1>30, <1>31, <1>32
     DEF Next, CloseStep, ConnectorStep, PumpStep, MonitorStep, PingStep, NetworkStep,
         SenderStep, Terminated

(* The initial state is well typed.                                        *)
LEMMA InitTypeOK == Init => TypeOK
<1> SUFFICES ASSUME Init PROVE TypeOK
  OBVIOUS
<1>1. /\ conn \in Sessions \cup {Nil}
      /\ sock \in [Sessions -> SockState]
      /\ pump \in [Sessions -> {"none", "spawn", "exited"} \cup PumpLive]
      /\ failedOn \in [Sessions -> Sessions \cup {Nil}]
  BY DEF Init, SockState
<1>2. connClosed \in [Sessions -> BOOLEAN]
  BY Zenon DEF Init
<1> QED
  BY <1>1, <1>2 DEF Init, TypeOK

(* Every variable keeps its type, whatever the number of sessions and of   *)
(* senders.                                                                *)
THEOREM TypeCorrect == Spec => []TypeOK
BY InitTypeOK, TypeStep, PTL DEF Spec

(* The core of the invariant mentions six variables; the steps of ping     *)
(* monitors, senders and Close that leave these alone preserve it.         *)
LEMMA CoreFrame ==
    ASSUME CoreInv, UNCHANGED <<conn, isConnected, processing, sock, connector, pump>>
    PROVE  CoreInv'
BY DEF CoreInv, SessionChain, ChainAt, PumpOwnsConn, NoOrphanSocket, ProcessingExact, ConnectedHasConn

(* Every step preserves the core of the invariant.                         *)
LEMMA CoreStep == IndInv /\ [Next]_vars => CoreInv'
<1> SUFFICES ASSUME IndInv, [Next]_vars PROVE CoreInv'
  OBVIOUS
<1>0. TypeOK'
  BY TypeStep DEF IndInv
<1> USE SessionAssumption, <1>0 DEF IndInv, CoreInv, TypeOK, Sessions, Nil, Dialling, PumpLive, Open
<1>1. CASE Connect
  <2>1. 1 \in Sessions /\ \A t \in Sessions : t # 1 => 1 < t
    OBVIOUS
  <2>2. pump[1] = "none" /\ \A t \in Sessions : connector[t] = "none"
    BY <1>1, <2>1 DEF Connect, SessionChain, ChainAt
  <2>3. conn = Nil /\ \A t \in Sessions : pump[t] = "none"
    BY <2>2 DEF SessionChain, ChainAt
  <2>4. SessionChain'
    BY <1>1, <2>1, <2>2, <2>3 DEF Connect, SessionChain, ChainAt
  <2> QED
    BY <1>1, <2>3, <2>4 DEF Connect, PumpOwnsConn, NoOrphanSocket, ProcessingExact, ConnectedHasConn
<1>2. ASSUME NEW s \in Sessions, RetryCheck(s) PROVE CoreInv'
  BY <1>2 DEF RetryCheck, SessionChain, ChainAt, PumpOwnsConn, NoOrphanSocket, ProcessingExact, ConnectedHasConn
<1>3. ASSUME NEW s \in Sessions, EstablishFails(s) PROVE CoreInv'
  <2>0. conn = Nil /\ pump[s] = "none" /\ \A u \in Sessions : u < s => pump[u] = "exited"
    BY <1>3 DEF EstablishFails, SessionChain, ChainAt
  <2>1. ASSUME NEW t \in Sessions PROVE ChainAt(t)'
    <3>1. CASE t = s
      BY <1>3, <2>0, <3>1 DEF EstablishFails, ChainAt
    <3>2. CASE t # s
      BY <1>3, <3>2 DEF EstablishFails, SessionChain, ChainAt
    <3> QED
      BY <3>1, <3>2
  <2> QED
    BY <1>3, <2>1 DEF EstablishFails, SessionChain, PumpOwnsConn, NoOrphanSocket, ProcessingExact,
                      ConnectedHasConn
<1>4. ASSUME NEW s \in Sessions, InstallConn(s) PROVE CoreInv'
  <2>1. conn = Nil /\ pump[s] = "none"
    BY <1>4 DEF InstallConn, SessionChain, ChainAt
  <2>2. \A t \in Sessions \ {s} : /\ pump[t] \in {"none", "exited"}
                                   /\ connector[t] \in {"none", "onConnect", "exited"}
    BY <1>4, ChainSingle DEF InstallConn
  <2>3. SessionChain'
    <3> SUFFICES ASSUME NEW t \in Sessions PROVE ChainAt(t)'
      BY DEF SessionChain
    <3>1. CASE t = s
      BY <1>4, <2>1, <3>1 DEF InstallConn, SessionChain, ChainAt
    <3>2. CASE t # s
      BY <1>4, <2>1, <2>2, <3>2 DEF InstallConn, SessionChain, ChainAt
    <3> QED
      BY <3>1, <3>2
  <2>4. PumpOwnsConn' /\ ConnectedHasConn' /\ ProcessingExact'
    BY <1>4, <2>1, <2>2 DEF InstallConn, PumpOwnsConn, ConnectedHasConn, ProcessingExact
  <2>5. NoOrphanSocket'
    BY <1>4, <2>1 DEF InstallConn, NoOrphanSocket
  <2> QED
    BY <2>3, <2>4, <2>5
<1>5. ASSUME NEW s \in Sessions, StartSession(s) PROVE CoreInv'
  <2>1. conn = s /\ pump[s] = "none" /\ \A u \in Sessions : u < s => pump[u] = "exited"
    BY <1>5 DEF StartSession, SessionChain, ChainAt
  <2>2. \A t \in Sessions \ {s} : pump[t] \in {"none", "exited"}
    BY <1>5, ChainSingle DEF StartSession
  <2>3. SessionChain'
    <3> SUFFICES ASSUME NEW t \in Sessions PROVE ChainAt(t)'
      BY DEF SessionChain
    <3>1. CASE t = s
      BY <1>5, <2>1, <3>1 DEF StartSession, ChainAt
    <3>2. CASE t # s
      BY <1>5, <2>1, <2>2, <3>2 DEF StartSession, SessionChain, ChainAt
    <3> QED
      BY <3>1, <3>2
  <2>4. PumpOwnsConn' /\ ConnectedHasConn'
    BY <1>5, <2>1 DEF StartSession, PumpOwnsConn, ConnectedHasConn
  <2>5. NoOrphanSocket'
    BY <1>5, <2>1 DEF StartSession, NoOrphanSocket
  <2>6. ProcessingExact'
    BY <1>5, <2>1 DEF StartSession, ProcessingExact
  <2> QED
    BY <2>3, <2>4, <2>5, <2>6
<1>6. ASSUME NEW s \in Sessions, OnConnectReturns(s) PROVE CoreInv'
  BY <1>6 DEF OnConnectReturns, SessionChain, ChainAt, PumpOwnsConn, NoOrphanSocket, ProcessingExact, ConnectedHasConn
<1>7. ASSUME NEW s \in Sessions, PumpLoop(s) PROVE CoreInv'
  BY <1>7 DEF PumpLoop, SessionChain, ChainAt, PumpOwnsConn, NoOrphanSocket, ProcessingExact, ConnectedHasConn
<1>8. ASSUME NEW s \in Sessions, PumpDropsMessage(s) PROVE CoreInv'
  BY <1>8 DEF PumpDropsMessage, CanRead, SessionChain, ChainAt, PumpOwnsConn, NoOrphanSocket, ProcessingExact, ConnectedHasConn
<1>9. ASSUME NEW s \in Sessions, PumpHandlesMessage(s) PROVE CoreInv'
  BY <1>9 DEF PumpHandlesMessage, CanRead, SessionChain, ChainAt, PumpOwnsConn, NoOrphanSocket, ProcessingExact, ConnectedHasConn
<1>10. ASSUME NEW s \in Sessions, HandlerReturns(s) PROVE CoreInv'
  BY <1>10 DEF HandlerReturns, SessionChain, ChainAt, PumpOwnsConn, NoOrphanSocket, ProcessingExact, ConnectedHasConn
<1>11. ASSUME NEW s \in Sessions, PumpReadError(s) PROVE CoreInv'
  BY <1>11 DEF PumpReadError, ReadFails, SessionChain, ChainAt, PumpOwnsConn, NoOrphanSocket, ProcessingExact, ConnectedHasConn
<1>12. ASSUME NEW s \in Sessions, PumpDefer(s) PROVE CoreInv'
  BY <1>12 DEF PumpDefer, SockAfterClose, SessionChain, ChainAt, PumpOwnsConn, NoOrphanSocket, ProcessingExact, ConnectedHasConn
<1>13. ASSUME NEW s \in Sessions, PumpDrain(s) PROVE CoreInv'
  BY <1>13 DEF PumpDrain, SessionChain, ChainAt, PumpOwnsConn, NoOrphanSocket, ProcessingExact, ConnectedHasConn
<1>14. ASSUME NEW s \in Sessions, ReconnectClears(s) PROVE CoreInv'
  BY <1>14 DEF ReconnectClears, SockAfterClose, SessionChain, ChainAt, PumpOwnsConn, NoOrphanSocket, ProcessingExact, ConnectedHasConn
<1>15. ASSUME NEW s \in Sessions, ReconnectStops(s) PROVE CoreInv'
  BY <1>15 DEF ReconnectStops, SessionChain, ChainAt, PumpOwnsConn, NoOrphanSocket, ProcessingExact, ConnectedHasConn
<1>16. ASSUME NEW s \in Sessions, ReconnectSpawns(s) PROVE CoreInv'
  <2>1. /\ conn = Nil /\ connector[s] \in {"onConnect", "exited"}
        /\ connector[s + 1] = "none" /\ pump[s + 1] = "none"
    BY <1>16 DEF ReconnectSpawns, SessionChain, ChainAt
  <2>2. SessionChain'
    <3> SUFFICES ASSUME NEW t \in Sessions PROVE ChainAt(t)'
      BY DEF SessionChain
    <3>1. CASE t = s
      BY <1>16, <2>1, <3>1 DEF ReconnectSpawns, SessionChain, ChainAt
    <3>2. CASE t = s + 1
      <4>1. \A u \in Sessions : u < s => pump[u] = "exited"
        BY <2>1 DEF SessionChain, ChainAt
      <4>2. \A u \in Sessions : u < t => pump'[u] = "exited"
        BY <1>16, <4>1, <3>2 DEF ReconnectSpawns
      <4> QED
        BY <1>16, <2>1, <3>2, <4>2 DEF ReconnectSpawns, ChainAt
    <3>3. CASE t # s /\ t # s + 1
      BY <1>16, <2>1, <3>3 DEF ReconnectSpawns, SessionChain, ChainAt
    <3> QED
      BY <3>1, <3>2, <3>3
  <2>3. PumpOwnsConn' /\ ConnectedHasConn' /\ ProcessingExact'
    BY <1>16, <2>1 DEF ReconnectSpawns, PumpOwnsConn, ConnectedHasConn, ProcessingExact
  <2>4. NoOrphanSocket'
    BY <1>16, <2>1 DEF ReconnectSpawns, NoOrphanSocket
  <2> QED
    BY <2>2, <2>3, <2>4
<1>17. ASSUME NEW s \in Sessions, PingCloses(s) PROVE CoreInv'
  BY <1>17 DEF PingCloses, SockAfterClose, SessionChain, ChainAt, PumpOwnsConn, NoOrphanSocket, ProcessingExact, ConnectedHasConn
<1>18. CASE CloseMarks
  BY <1>18 DEF CloseMarks, SessionChain, ChainAt, PumpOwnsConn, NoOrphanSocket, ProcessingExact, ConnectedHasConn
<1>19. CASE CloseCloses
  BY <1>19 DEF CloseCloses, SockAfterClose, SessionChain, ChainAt, PumpOwnsConn, NoOrphanSocket, ProcessingExact, ConnectedHasConn
<1>20. ASSUME NEW s \in Sessions, LinkBreaks(s) PROVE CoreInv'
  BY <1>20 DEF LinkBreaks, SessionChain, ChainAt, PumpOwnsConn, NoOrphanSocket, ProcessingExact, ConnectedHasConn
<1>21. ASSUME NEW s \in Sessions, DeadlinePasses(s) PROVE CoreInv'
  BY <1>21 DEF DeadlinePasses, SessionChain, ChainAt, PumpOwnsConn, NoOrphanSocket, ProcessingExact, ConnectedHasConn
<1>22. ASSUME NEW s \in Sessions, HandlerOverruns(s) PROVE CoreInv'
  BY <1>22 DEF HandlerOverruns, SessionChain, ChainAt, PumpOwnsConn, NoOrphanSocket, ProcessingExact, ConnectedHasConn
<1>23. CASE UNCHANGED <<conn, isConnected, processing, sock, connector, pump>>
  BY <1>23, CoreFrame
<1>24. ASSUME NEW s \in Sessions,
              PingCheck(s) \/ PingWrites(s) \/ PingFails(s) \/ MonitorTick(s) \/ MonitorExits(s)
       PROVE  UNCHANGED <<conn, isConnected, processing, sock, connector, pump>>
  BY <1>24 DEF PingCheck, PingWrites, PingFails, MonitorTick, MonitorExits
<1>25. ASSUME CloseSignals \/ CloseWrites \/ Terminated \/ UNCHANGED vars
       PROVE  UNCHANGED <<conn, isConnected, processing, sock, connector, pump>>
  BY <1>25 DEF CloseSignals, CloseWrites, Terminated, vars
<1>26. ASSUME NEW x \in Senders, SenderStep(x)
       PROVE  UNCHANGED <<conn, isConnected, processing, sock, connector, pump>>
  BY <1>26 DEF SenderStep, SendCheck, SendWrite
<1>27. CASE \E s \in Sessions : ConnectorStep(s)
  BY <1>27, <1>2, <1>3, <1>4, <1>5, <1>6 DEF ConnectorStep
<1>28. CASE \E s \in Sessions : PumpStep(s)
  BY <1>28, <1>7, <1>8, <1>9, <1>10, <1>11, <1>12, <1>13, <1>14, <1>15, <1>16 DEF PumpStep
<1>29. CASE \E s \in Sessions : MonitorStep(s)
  BY <1>29, <1>17, <1>23, <1>24 DEF MonitorStep, PingStep
<1>30. CASE \E s \in Sessions : NetworkStep(s)
  BY <1>30, <1>20, <1>21, <1>22 DEF NetworkStep
<1> QED
  BY <1>1, <1>18, <1>19, <1>23, <1>25, <1>26, <1>27, <1>28, <1>29, <1>30 DEF Next, CloseStep

(* The invariant that carries all the safety theorems below.               *)
THEOREM Inductive == Spec => []IndInv
<1>1. Init => IndInv
  <2> SUFFICES ASSUME Init PROVE IndInv
    OBVIOUS
  <2>1. TypeOK
    BY InitTypeOK
  <2>2. CoreInv
    BY SessionAssumption DEF Init, CoreInv, SessionChain, ChainAt, PumpOwnsConn, NoOrphanSocket,
       ProcessingExact, ConnectedHasConn, Dialling, PumpLive, Open, Sessions, Nil
  <2> QED
    BY <2>1, <2>2 DEF IndInv
<1>2. IndInv /\ [Next]_vars => IndInv'
  BY TypeStep, CoreStep DEF IndInv
<1> QED
  BY <1>1, <1>2, PTL DEF Spec

(* A read pump only ever works on its own connection, although it names it *)
(* through the shared field c.conn.                                        *)
THEOREM PumpOwnership == Spec => []PumpOwnsConn
<1>1. IndInv => PumpOwnsConn
  BY DEF IndInv, CoreInv
<1> QED
  BY <1>1, Inductive, PTL

(* However connections are lost, at most one connector is at work.         *)
THEOREM OneReconnect == Spec => []SingleReconnect
<1>1. IndInv => SingleReconnect
  <2> SUFFICES ASSUME IndInv, NEW s \in Sessions, connector[s] \in Dialling
               PROVE  /\ conn = Nil
                      /\ \A t \in Sessions :
                            /\ connector[t] \in Dialling \cup {"installed"} => t = s
                            /\ pump[t] \in {"none", "exited"}
    BY DEF SingleReconnect
  <2>1. conn = Nil /\ pump[s] = "none"
    BY DEF IndInv, CoreInv, SessionChain, ChainAt, Dialling
  <2>2. ASSUME NEW t \in Sessions, t # s
        PROVE  connector[t] \notin Dialling \cup {"installed"} /\ pump[t] \in {"none", "exited"}
    BY <2>2, ChainSingle DEF IndInv, CoreInv, Dialling
  <2> QED
    BY <2>1, <2>2
<1> QED
  BY <1>1, Inductive, PTL

(* No socket is ever left open without a pump that will close it.          *)
THEOREM NoSocketLeak == Spec => []NoOrphanSocket
<1>1. IndInv => NoOrphanSocket
  BY DEF IndInv, CoreInv
<1> QED
  BY <1>1, Inductive, PTL

(* Both flags are exact: isConnected implies that c.conn is set, and       *)
(* processingMessage, which suppresses pings, is set exactly while a       *)
(* handler runs, across any number of reconnects.                          *)
THEOREM FlagsSound == Spec => []FlagsExact
<1>1. IndInv => FlagsExact
  BY DEF IndInv, CoreInv, FlagsExact
<1> QED
  BY <1>1, Inductive, PTL

=============================================================================
