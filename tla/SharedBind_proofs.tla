-------------------------- MODULE SharedBind_proofs --------------------------
(***************************************************************************)
(* Proofs about the shared UDP bind, for any number of sockets, of         *)
(* goroutines that release references and of calls of Release.             *)
(***************************************************************************)
EXTENDS SharedBind, TLAPS

(* What is known of the reference count beyond its range: every missing    *)
(* reference was released, and a caller finds the count negative only      *)
(* after more releases than there were references.                         *)
CountBound ==
    /\ refCount >= InitialRefs - releases
    /\ \A r \in Releasers : releaser[r] = "negative" => releases > InitialRefs

(* Whoever is past the compare-and-swap of closeConnection has set closed. *)
SignalMarked ==
    \A r \in Releasers : releaser[r] \in {"signal", "lock"} => closed

IInv ==
    /\ TypeOK /\ CountBound /\ SignalMarked
    /\ NoSocketLeak /\ PairCoherent /\ NoLostWakeup
    /\ LastReleaseCloses /\ NoResurrection

USE SocketAssumption, ReleaseAssumption, QueueAssumption DEF Nil, Sockets, InitialRefs

-----------------------------------------------------------------------------
(* The initial state has the right types and meets the invariant: one      *)
(* socket, two references, nobody releasing.                               *)
LEMMA InitIInv == Init => IInv
  <1> SUFFICES ASSUME Init PROVE IInv
    OBVIOUS
  <1>1. TypeOK
    <2>1. 1 \in Sockets
      OBVIOUS
    <2>2. InitialRefs \in (InitialRefs - MaxReleases) .. InitialRefs
      OBVIOUS
    <2>3. releaser \in [Releasers -> {"idle", "negative", "close", "signal", "lock"}]
      BY DEF Init
    <2>4. 0 \in 0 .. MaxReleases /\ 0 \in 0 .. QueueCap
      OBVIOUS
    <2>5. udpConn \in Sockets /\ made \in Sockets /\ open \subseteq Sockets
      BY <2>1 DEF Init
    <2> QED
      BY <2>2, <2>3, <2>4, <2>5, Zenon DEF Init, TypeOK
  <1>2. CountBound /\ SignalMarked
    BY DEF Init, CountBound, SignalMarked
  <1>3. NoSocketLeak /\ PairCoherent /\ NoLostWakeup
    BY DEF Init, NoSocketLeak, PairCoherent, NoLostWakeup
  <1>4. LastReleaseCloses /\ NoResurrection
    BY DEF Init, LastReleaseCloses, NoResurrection
  <1> QED
    BY <1>1, <1>2, <1>3, <1>4 DEF IInv

(* Steps of the receive functions, of the injection and of Open leave the  *)
(* references alone.                                                       *)
Quiet == UNCHANGED refVars

(* A step that changes no reference and neither installs a socket nor      *)
(* a packet connection in a closed bind keeps what is said about them.     *)
LEMMA QuietStep ==
  ASSUME IInv, Quiet,
         closed => (udpConn = Nil => udpConn' = Nil) 
                /\ (udpConn = Nil /\ packetConn = Nil => packetConn' = Nil)
  PROVE  CountBound' /\ SignalMarked' /\ LastReleaseCloses' /\ NoResurrection'
  BY DEF IInv, Quiet, refVars, CountBound, SignalMarked, LastReleaseCloses,
         NoResurrection

(* A step of a releasing goroutine that leaves the sockets alone.          *)
LEMMA RefStep ==
  ASSUME IInv, UNCHANGED <<socketVars, recvVars>>
  PROVE  NoSocketLeak' /\ PairCoherent' /\ NoLostWakeup'
  BY DEF IInv, socketVars, recvVars, NoSocketLeak, PairCoherent, NoLostWakeup

-----------------------------------------------------------------------------
(* Every action keeps the types.                                           *)
LEMMA TypeStep == ASSUME IInv, [Next]_vars PROVE TypeOK'
  <1> USE DEF IInv, TypeOK
  <1>1. CASE Open
    BY <1>1 DEF Open, refVars
  <1>2. CASE CloseSocket
    BY <1>2 DEF CloseSocket, refVars, recvVars, netVars
  <1>3. CASE MakeSocket
    BY <1>3 DEF MakeSocket, refVars, recvVars, netVars
  <1>4. CASE Rebind
    BY <1>4 DEF Rebind, Wake, refVars, netVars
  <1>5. CASE RebindRefused
    BY <1>5 DEF RebindRefused, refVars, recvVars, netVars
  <1>6. ASSUME NEW r \in Releasers, Release(r) PROVE TypeOK'
    <2>1. refCount' \in (InitialRefs - MaxReleases) .. InitialRefs
      BY <1>6 DEF Release, CountBound
    <2>2. releases' \in 0 .. MaxReleases
      BY <1>6 DEF Release
    <2>3. releaser' \in [Releasers -> {"idle", "negative", "close", "signal", "lock"}]
      BY <1>6 DEF Release
    <2> QED
      BY <1>6, <2>1, <2>2, <2>3 DEF Release, socketVars, recvVars, netVars
  <1>7. ASSUME NEW r \in Releasers, ReleaseResets(r) PROVE TypeOK'
    <2>1. 0 \in (InitialRefs - MaxReleases) .. InitialRefs
      BY <1>7 DEF ReleaseResets, CountBound
    <2>2. releaser' \in [Releasers -> {"idle", "negative", "close", "signal", "lock"}]
      BY <1>7 DEF ReleaseResets
    <2> QED
      BY <1>7, <2>1, <2>2 DEF ReleaseResets, socketVars, recvVars, netVars
  <1>8. ASSUME NEW r \in Releasers, CloseMarks(r) PROVE TypeOK'
    BY <1>8 DEF CloseMarks, socketVars, recvVars, netVars
  <1>9. ASSUME NEW r \in Releasers, CloseSignals(r) PROVE TypeOK'
    BY <1>9 DEF CloseSignals, socketVars, recvVars, netVars
  <1>10. ASSUME NEW r \in Releasers, CloseCloses(r) PROVE TypeOK'
    BY <1>10 DEF CloseCloses, recvVars, netVars
  <1>11. CASE RecvStep \/ RecvReads
    <2>1. UNCHANGED <<socketVars, refVars, netVars>>
      BY <1>11 DEF RecvStep, RecvChecks, RecvLoads, RecvFindsNoSocket, RecvGuard,
           RecvAfterWait, RecvReads, RecvFails, RecvJudgesError
    <2>2. rConn' \in Sockets \cup {Nil} /\ rPC' \in Sockets \cup {Nil}
      BY <1>11 DEF RecvStep, RecvChecks, RecvLoads, RecvFindsNoSocket, RecvGuard,
           RecvAfterWait, RecvReads, RecvFails, RecvJudgesError
    <2>3. recv' \in {"none", "check", "load", "missing", "guard", "wait", "woken",
                     "again", "read", "failed", "ended"}
      BY <1>11 DEF RecvStep, RecvChecks, RecvLoads, RecvFindsNoSocket, RecvGuard,
           RecvAfterWait, RecvReads, RecvFails, RecvJudgesError, ClosedOr
    <2> QED
      BY <2>1, <2>2, <2>3 DEF socketVars, refVars, netVars
  <1>12. CASE InjectChecks \/ InjectSends \/ InjectDrops
    <2>1. UNCHANGED <<netRecv, socketVars, refVars, recvVars>>
      BY <1>12 DEF InjectChecks, InjectSends, InjectDrops
    <2>2. injector' \in {"idle", "send"} /\ queued' \in 0 .. QueueCap
      BY <1>12 DEF InjectChecks, InjectSends, InjectDrops
    <2> QED
      BY <2>1, <2>2 DEF socketVars, refVars, recvVars
  <1>13. CASE NetRecvPacket \/ NetRecvEnds
    <2>1. UNCHANGED <<injector, socketVars, refVars, recvVars>>
      BY <1>13 DEF NetRecvPacket, NetRecvEnds
    <2>2. netRecv' \in {"none", "running", "ended"} /\ queued' \in 0 .. QueueCap
      BY <1>13 DEF NetRecvPacket, NetRecvEnds
    <2> QED
      BY <2>1, <2>2 DEF socketVars, refVars, recvVars
  <1>14. CASE UNCHANGED vars
    BY <1>14 DEF vars
  <1> QED
    BY <1>1, <1>2, <1>3, <1>4, <1>5, <1>6, <1>7, <1>8, <1>9, <1>10, <1>11,
       <1>12, <1>13, <1>14 DEF Next, CloseStep

(* Every action keeps the rest of the invariant: CloseSocket and Rebind    *)
(* replace both connections under one lock, and only the winner of the     *)
(* compare-and-swap closes.                                                *)
LEMMA InvStep == ASSUME IInv, [Next]_vars PROVE IInv'
  <1>t. TypeOK'
    BY TypeStep
  <1>1. CASE Open
    <2>1. NoSocketLeak' /\ PairCoherent' /\ NoLostWakeup'
      BY <1>1 DEF Open, IInv, TypeOK, NoSocketLeak, PairCoherent, NoLostWakeup
    <2> QED
      BY <1>1, <1>t, <2>1, QuietStep DEF Open, IInv, Quiet
  <1>2. CASE CloseSocket
    <2>1. NoSocketLeak' /\ PairCoherent' /\ NoLostWakeup'
      BY <1>2 DEF CloseSocket, IInv, TypeOK, NoSocketLeak, PairCoherent,
                  NoLostWakeup, recvVars
    <2> QED
      BY <1>2, <1>t, <2>1, QuietStep DEF CloseSocket, IInv, Quiet
  <1>3. CASE MakeSocket
    <2>1. NoSocketLeak' /\ PairCoherent' /\ NoLostWakeup'
      BY <1>3 DEF MakeSocket, IInv, TypeOK, NoSocketLeak, PairCoherent,
                  NoLostWakeup, recvVars
    <2> QED
      BY <1>3, <1>t, <2>1, QuietStep DEF MakeSocket, IInv, Quiet
  <1>4. CASE Rebind
    <2>1. NoSocketLeak' /\ PairCoherent' /\ NoLostWakeup'
      BY <1>4 DEF Rebind, Wake, IInv, TypeOK, NoSocketLeak, PairCoherent, NoLostWakeup
    <2> QED
      BY <1>4, <1>t, <2>1, QuietStep DEF Rebind, IInv, Quiet
  <1>5. CASE RebindRefused
    <2>1. NoSocketLeak' /\ PairCoherent' /\ NoLostWakeup'
      BY <1>5 DEF RebindRefused, IInv, TypeOK, NoSocketLeak, PairCoherent,
                  NoLostWakeup, recvVars
    <2> QED
      BY <1>5, <1>t, <2>1, QuietStep DEF RebindRefused, IInv, Quiet
  <1>6. ASSUME NEW r \in Releasers, Release(r) PROVE IInv'
    <2> USE <1>6 DEF Release
    <2>1. CountBound'
      BY DEF IInv, TypeOK, CountBound
    <2>2. SignalMarked'
      BY DEF IInv, TypeOK, SignalMarked
    <2>3. LastReleaseCloses'
      BY DEF IInv, TypeOK, LastReleaseCloses
    <2>4. NoResurrection'
      BY DEF IInv, TypeOK, NoResurrection, socketVars
    <2> QED
      BY <1>t, <2>1, <2>2, <2>3, <2>4, RefStep DEF IInv
  <1>7. ASSUME NEW r \in Releasers, ReleaseResets(r) PROVE IInv'
    <2> USE <1>7 DEF ReleaseResets
    <2>1. CountBound' /\ SignalMarked'
      BY DEF IInv, TypeOK, CountBound, SignalMarked
    <2>2. LastReleaseCloses' /\ NoResurrection'
      BY DEF IInv, TypeOK, LastReleaseCloses, NoResurrection, socketVars
    <2> QED
      BY <1>t, <2>1, <2>2, RefStep DEF IInv
  <1>8. ASSUME NEW r \in Releasers, CloseMarks(r) PROVE IInv'
    <2> USE <1>8 DEF CloseMarks
    <2>1. CountBound' /\ SignalMarked'
      BY DEF IInv, TypeOK, CountBound, SignalMarked
    <2>2. LastReleaseCloses'
      BY DEF IInv, TypeOK, LastReleaseCloses, SignalMarked
    <2>3. NoResurrection'
      BY DEF IInv, TypeOK, NoResurrection, socketVars
    <2> QED
      BY <1>t, <2>1, <2>2, <2>3, RefStep DEF IInv
  <1>9. ASSUME NEW r \in Releasers, CloseSignals(r) PROVE IInv'
    <2> USE <1>9 DEF CloseSignals
    <2>1. CountBound' /\ SignalMarked'
      BY DEF IInv, TypeOK, CountBound, SignalMarked
    <2>2. LastReleaseCloses' /\ NoResurrection'
      BY DEF IInv, TypeOK, LastReleaseCloses, NoResurrection, socketVars
    <2> QED
      BY <1>t, <2>1, <2>2, RefStep DEF IInv
  <1>10. ASSUME NEW r \in Releasers, CloseCloses(r) PROVE IInv'
    <2> USE <1>10 DEF CloseCloses
    <2>1. CountBound' /\ SignalMarked'
      BY DEF IInv, TypeOK, CountBound, SignalMarked
    <2>2. LastReleaseCloses' /\ NoResurrection'
      BY DEF IInv, TypeOK, LastReleaseCloses, NoResurrection
    <2>3. NoSocketLeak' /\ PairCoherent' /\ NoLostWakeup'
      BY DEF IInv, TypeOK, NoSocketLeak, PairCoherent, NoLostWakeup, recvVars
    <2> QED
      BY <1>t, <2>1, <2>2, <2>3 DEF IInv
  <1>11. CASE RecvStep \/ RecvReads
    <2>1. NoLostWakeup'
      BY <1>11 DEF IInv, NoLostWakeup, RecvStep, RecvChecks, RecvLoads,
           RecvFindsNoSocket, RecvGuard, RecvAfterWait, RecvReads, RecvFails,
           RecvJudgesError, ClosedOr, socketVars
    <2>2. UNCHANGED <<socketVars, refVars>>
      BY <1>11 DEF RecvStep, RecvChecks, RecvLoads, RecvFindsNoSocket, RecvGuard,
           RecvAfterWait, RecvReads, RecvFails, RecvJudgesError
    <2>3. NoSocketLeak' /\ PairCoherent'
      BY <2>2 DEF IInv, NoSocketLeak, PairCoherent, socketVars
    <2> QED
      BY <1>t, <2>1, <2>2, <2>3, QuietStep DEF IInv, Quiet, socketVars
  <1>12. CASE \/ InjectChecks \/ InjectSends \/ InjectDrops
              \/ NetRecvPacket \/ NetRecvEnds \/ UNCHANGED vars
    <2>1. UNCHANGED <<socketVars, refVars, recvVars>>
      BY <1>12 DEF InjectChecks, InjectSends, InjectDrops, NetRecvPacket,
           NetRecvEnds, vars, socketVars, refVars, recvVars
    <2> QED
      BY <1>t, <2>1, QuietStep, RefStep DEF IInv, Quiet, socketVars
  <1> QED
    BY <1>1, <1>2, <1>3, <1>4, <1>5, <1>6, <1>7, <1>8, <1>9, <1>10, <1>11,
       <1>12 DEF Next, CloseStep

-----------------------------------------------------------------------------
(* The inductive invariant of the bind holds in every reachable state.     *)
THEOREM BindInductive == Spec => []IInv
  <1>1. IInv /\ [Next]_vars => IInv'
    BY InvStep
  <1> QED
    BY InitIInv, <1>1, PTL DEF Spec

(* Every variable of the bind keeps its type; in particular the injection  *)
(* queue never exceeds its capacity.                                       *)
THEOREM BindTypeCorrect == Spec => []TypeOK
  <1>1. IInv => TypeOK
    BY DEF IInv
  <1> QED
    BY BindInductive, <1>1, PTL

(* No sequence of CloseSocket, Rebind and Release leaks a socket.          *)
THEOREM BindNoSocketLeak == Spec => []NoSocketLeak
  <1>1. IInv => NoSocketLeak
    BY DEF IInv
  <1> QED
    BY BindInductive, <1>1, PTL

(* A receiver never loads a packet connection of another socket than the   *)
(* one it has checked.                                                     *)
THEOREM BindPairCoherent == Spec => []PairCoherent
  <1>1. IInv => PairCoherent
    BY DEF IInv
  <1> QED
    BY BindInductive, <1>1, PTL

(* A receiver waits on rebindingCond only while a Rebind is outstanding.   *)
THEOREM BindNoLostWakeup == Spec => []NoLostWakeup
  <1>1. IInv => NoLostWakeup
    BY DEF IInv
  <1> QED
    BY BindInductive, <1>1, PTL

(* However many goroutines call Release, and however often: only the last  *)
(* reference closes the bind, and one caller only.                         *)
THEOREM BindLastReleaseCloses == Spec => []LastReleaseCloses
  <1>1. IInv => LastReleaseCloses
    BY DEF IInv
  <1> QED
    BY BindInductive, <1>1, PTL

(* No Rebind and no Open puts a socket into a bind that has been closed.   *)
THEOREM BindNoResurrection == Spec => []NoResurrection
  <1>1. IInv => NoResurrection
    BY DEF IInv
  <1> QED
    BY BindInductive, <1>1, PTL
=============================================================================
