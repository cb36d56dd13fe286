----------------------------- MODULE SharedBind -----------------------------
(***************************************************************************)
(* The UDP bind that WireGuard and the hole punch senders share            *)
(* (bind/shared_bind.go).  Three things meet on it: the receive function   *)
(* that a WireGuard routine calls over and over, the replacement of the    *)
(* socket (CloseSocket, then Rebind) when the network changes, and the     *)
(* references, whose last Release closes everything.                       *)
(*                                                                         *)
(* A section under b.mu is one step.  The atomics b.closed and b.refCount, *)
(* and the channel closeChan, are used outside it: every use is a step.    *)
(***************************************************************************)
EXTENDS Integers

CONSTANTS
    MaxSocket,      \* bound on the number of UDP sockets of a behaviour
    Releasers,      \* the goroutines that call Release (Close is Release)
    MaxReleases,    \* bound on the number of calls of Release
    QueueCap,       \* capacity of the channel netstackPackets
    DirectRebind    \* may Rebind be called without CloseSocket before it?

ASSUME SocketAssumption == MaxSocket \in Nat \ {0}
ASSUME ReleaseAssumption == MaxReleases \in Nat
ASSUME QueueAssumption == QueueCap \in Nat \ {0}
ASSUME DirectAssumption == DirectRebind \in BOOLEAN

Nil == 0
Sockets == 1 .. MaxSocket

(* The references there are at first: New leaves one (for WireGuard) and   *)
(* NewWireGuardService adds one (for the hole punch manager).              *)
InitialRefs == 2

VARIABLES
    udpConn,        \* b.udpConn: a socket or Nil
    packetConn,     \* b.ipv4PC: the socket it wraps or Nil
    open,           \* the sockets that are open
    made,           \* how many sockets have been created
    fresh,          \* the socket the caller of Rebind has made, or Nil
    rebinding,      \* b.rebinding
    refCount,       \* b.refCount
    releases,       \* how often Release has been called
    releaser,       \* program counter of a caller of Release
    closed,         \* b.closed
    closeChan,      \* is the channel closeChan closed?
    recv,           \* program counter of the socket's receive function
    rConn,          \* its local copies conn and pc
    rPC,
    netRecv,        \* is the netstack receive function "none", running, ended?
    injector,       \* program counter of the caller of InjectPacket
    queued          \* packets in netstackPackets

vars == <<udpConn, packetConn, open, made, fresh, rebinding, refCount, releases,
          releaser, closed, closeChan, recv, rConn, rPC, netRecv, injector,
          queued>>

socketVars == <<udpConn, packetConn, open, made, fresh, rebinding>>
refVars == <<refCount, releases, releaser, closed, closeChan>>
recvVars == <<recv, rConn, rPC>>
netVars == <<netRecv, injector, queued>>

Init ==
    /\ udpConn = 1 /\ packetConn = Nil /\ open = {1} /\ made = 1
    /\ fresh = Nil
    /\ rebinding = FALSE
    /\ refCount = InitialRefs /\ releases = 0
    /\ releaser = [r \in Releasers |-> "idle"]
    /\ closed = FALSE /\ closeChan = FALSE
    /\ recv = "none" /\ rConn = Nil /\ rPC = Nil
    /\ netRecv = "none" /\ injector = "idle" /\ queued = 0

-----------------------------------------------------------------------------
(* Open: the device goes up and starts a routine for each of the two       *)
(* receive functions.  b.closed is tested before b.mu is taken, so it may  *)
(* be set by now; under b.mu only the socket is tested.                    *)
Open ==
    /\ recv = "none"
    /\ udpConn # Nil
    /\ packetConn' = udpConn
    /\ recv' = "check"
    /\ netRecv' = "running"
    /\ UNCHANGED <<udpConn, open, made, fresh, rebinding, rConn, rPC, injector,
                   queued, refVars>>

-----------------------------------------------------------------------------
(* Replacing the socket.                                                   *)

(* Under b.mu: raise the flag, then close the socket.                      *)
CloseSocket ==
    /\ ~ closed
    /\ rebinding' = TRUE
    /\ open' = open \ {udpConn}
    /\ udpConn' = Nil
    /\ UNCHANGED <<packetConn, made, fresh, refVars, recvVars, netVars>>

(* The caller listens on a new socket.                                     *)
MakeSocket ==
    /\ fresh = Nil
    /\ rebinding \/ DirectRebind
    /\ made < MaxSocket
    /\ made' = made + 1
    /\ fresh' = made'
    /\ open' = open \cup {made'}
    /\ UNCHANGED <<udpConn, packetConn, rebinding, refVars, recvVars, netVars>>

(* Under b.mu: close what is left of the old socket, install the new one   *)
(* and its packet connection, lower the flag, wake everyone who waits.     *)
Wake == IF recv = "wait" THEN "woken" ELSE recv

(* Variants of Rebind that a slip would give: the old socket stays open... *)
RebindKeepsOld ==
    /\ fresh # Nil /\ ~ closed
    /\ udpConn' = fresh /\ packetConn' = fresh /\ fresh' = Nil
    /\ rebinding' = FALSE /\ recv' = Wake
    /\ UNCHANGED <<open, made, rConn, rPC, refVars, netVars>>

(* ... the packet connection is not renewed...                             *)
RebindStalePacketConn ==
    /\ fresh # Nil /\ ~ closed
    /\ open' = open \ {udpConn}
    /\ udpConn' = fresh /\ fresh' = Nil
    /\ rebinding' = FALSE /\ recv' = Wake
    /\ UNCHANGED <<packetConn, made, rConn, rPC, refVars, netVars>>

(* ... nobody is woken...                                                  *)
RebindNoBroadcast ==
    /\ fresh # Nil /\ ~ closed
    /\ open' = open \ {udpConn}
    /\ udpConn' = fresh /\ packetConn' = fresh /\ fresh' = Nil
    /\ rebinding' = FALSE
    /\ UNCHANGED <<made, recvVars, refVars, netVars>>

(* ... b.closed is not tested.                                             *)
RebindUnchecked ==
    /\ fresh # Nil
    /\ open' = open \ {udpConn}
    /\ udpConn' = fresh /\ packetConn' = fresh /\ fresh' = Nil
    /\ rebinding' = FALSE /\ recv' = Wake
    /\ UNCHANGED <<made, rConn, rPC, refVars, netVars>>

Rebind ==
    /\ fresh # Nil
    /\ ~ closed
    /\ open' = open \ {udpConn}
    /\ udpConn' = fresh
    /\ packetConn' = fresh
    /\ fresh' = Nil
    /\ rebinding' = FALSE
    /\ recv' = Wake
    /\ UNCHANGED <<made, rConn, rPC, refVars, netVars>>

(* "bind is closed": the caller is left with its socket and closes it.     *)
RebindRefused ==
    /\ fresh # Nil
    /\ closed
    /\ open' = open \ {fresh}
    /\ fresh' = Nil
    /\ UNCHANGED <<udpConn, packetConn, made, rebinding, refVars, recvVars, netVars>>

-----------------------------------------------------------------------------
(* References: Release, Close, closeConnection.                            *)

ReleaseEarly(r) ==          \* variant: the last but one reference closes
    /\ releaser[r] = "idle"
    /\ releases < MaxReleases
    /\ releases' = releases + 1
    /\ refCount' = refCount - 1
    /\ releaser' = [releaser EXCEPT ![r] =
            IF refCount' < 0 THEN "negative"
            ELSE IF refCount' <= 1 THEN "close" ELSE "idle"]
    /\ UNCHANGED <<closed, closeChan, socketVars, recvVars, netVars>>

Release(r) ==
    /\ releaser[r] = "idle"
    /\ releases < MaxReleases
    /\ releases' = releases + 1
    /\ refCount' = refCount - 1
    /\ releaser' = [releaser EXCEPT ![r] =
            IF refCount' < 0 THEN "negative"
            ELSE IF refCount' = 0 THEN "close" ELSE "idle"]
    /\ UNCHANGED <<closed, closeChan, socketVars, recvVars, netVars>>

(* One Release too many: the count is stored as 0.                         *)
ReleaseResets(r) ==
    /\ releaser[r] = "negative"
    /\ refCount' = 0
    /\ releaser' = [releaser EXCEPT ![r] = "idle"]
    /\ UNCHANGED <<releases, closed, closeChan, socketVars, recvVars, netVars>>

(* closed.CompareAndSwap(false, true): only one caller goes on.            *)
CloseMarks(r) ==
    /\ releaser[r] = "close"
    /\ closed' = TRUE
    /\ releaser' = [releaser EXCEPT ![r] = IF closed THEN "idle" ELSE "signal"]
    /\ UNCHANGED <<refCount, releases, closeChan, socketVars, recvVars, netVars>>

CloseSignalsNothing(r) ==   \* variant: closeChan is forgotten
    /\ releaser[r] = "signal"
    /\ releaser' = [releaser EXCEPT ![r] = "lock"]
    /\ UNCHANGED <<refCount, releases, closed, closeChan, socketVars, recvVars,
                   netVars>>

CloseSignals(r) ==
    /\ releaser[r] = "signal"
    /\ closeChan' = TRUE
    /\ releaser' = [releaser EXCEPT ![r] = "lock"]
    /\ UNCHANGED <<refCount, releases, closed, socketVars, recvVars, netVars>>

(* Under b.mu: close the socket.  rebindingCond is not signalled.          *)
CloseCloses(r) ==
    /\ releaser[r] = "lock"
    /\ open' = open \ {udpConn}
    /\ udpConn' = Nil
    /\ packetConn' = Nil
    /\ releaser' = [releaser EXCEPT ![r] = "idle"]
    /\ UNCHANGED <<made, fresh, rebinding, refCount, releases, closed, closeChan,
                   recvVars, netVars>>

-----------------------------------------------------------------------------
(* The receive function of the socket.  It returns packets to a routine    *)
(* that calls it again, and an error that ends the routine.                *)

ClosedOr(next) == IF closed THEN "ended" ELSE next

RecvChecks ==
    /\ recv = "check"
    /\ recv' = ClosedOr("load")
    /\ UNCHANGED <<rConn, rPC, socketVars, refVars, netVars>>

(* Under b.mu (shared): conn and pc are read together.                     *)
RecvLoads ==
    /\ recv = "load"
    /\ rConn' = udpConn
    /\ rPC' = packetConn
    /\ recv' = IF udpConn = Nil THEN "missing" ELSE "read"
    /\ UNCHANGED <<socketVars, refVars, netVars>>

RecvFindsNoSocket ==
    /\ recv = "missing"
    /\ recv' = ClosedOr("guard")
    /\ UNCHANGED <<rConn, rPC, socketVars, refVars, netVars>>

(* for b.rebinding && !b.closed { rebindingCond.Wait() }, under b.mu.      *)
RecvGuard ==
    /\ recv \in {"guard", "woken"}
    /\ recv' = IF rebinding /\ ~ closed THEN "wait" ELSE "again"
    /\ UNCHANGED <<rConn, rPC, socketVars, refVars, netVars>>

RecvAfterWait ==
    /\ recv = "again"
    /\ recv' = ClosedOr("check")
    /\ UNCHANGED <<rConn, rPC, socketVars, refVars, netVars>>

(* Linux reads through pc, once there is one.                              *)
ReadFrom == IF rPC # Nil THEN rPC ELSE rConn

(* A datagram arrives; magic packets are answered and skipped here.        *)
RecvReads ==
    /\ recv = "read"
    /\ ReadFrom \in open
    /\ recv' = "check"
    /\ UNCHANGED <<rConn, rPC, socketVars, refVars, netVars>>

RecvFails ==
    /\ recv = "read"
    /\ ReadFrom \notin open
    /\ recv' = "failed"
    /\ UNCHANGED <<rConn, rPC, socketVars, refVars, netVars>>

(* Under b.mu (shared): an error during a rebind is not the end.           *)
RecvJudgesError ==
    /\ recv = "failed"
    /\ recv' = IF rebinding THEN "guard" ELSE "ended"
    /\ UNCHANGED <<rConn, rPC, socketVars, refVars, netVars>>

-----------------------------------------------------------------------------
(* Packets from the netstack: InjectPacket, called by the direct relay,    *)
(* and their receive function.                                             *)

InjectChecks ==
    /\ injector = "idle"
    /\ ~ closed
    /\ injector' = "send"
    /\ UNCHANGED <<netRecv, queued, socketVars, refVars, recvVars>>

InjectSends ==
    /\ injector = "send"
    /\ queued < QueueCap
    /\ queued' = queued + 1
    /\ injector' = "idle"
    /\ UNCHANGED <<netRecv, socketVars, refVars, recvVars>>

(* The bind was closed meanwhile, or the channel is full.                  *)
InjectDrops ==
    /\ injector = "send"
    /\ closeChan \/ queued = QueueCap
    /\ injector' = "idle"
    /\ UNCHANGED <<netRecv, queued, socketVars, refVars, recvVars>>

NetRecvPacket ==
    /\ netRecv = "running"
    /\ queued > 0
    /\ queued' = queued - 1
    /\ UNCHANGED <<netRecv, injector, socketVars, refVars, recvVars>>

NetRecvEnds ==
    /\ netRecv = "running"
    /\ closeChan
    /\ netRecv' = "ended"
    /\ UNCHANGED <<injector, queued, socketVars, refVars, recvVars>>

-----------------------------------------------------------------------------
CloseStep(r) ==
    ReleaseResets(r) \/ CloseMarks(r) \/ CloseSignals(r) \/ CloseCloses(r)

RecvStep ==
    \/ RecvChecks \/ RecvLoads \/ RecvFindsNoSocket \/ RecvGuard
    \/ RecvAfterWait \/ RecvFails \/ RecvJudgesError

Next ==
    \/ Open
    \/ CloseSocket \/ MakeSocket \/ Rebind \/ RebindRefused
    \/ \E r \in Releasers : Release(r) \/ CloseStep(r)
    \/ RecvStep \/ RecvReads
    \/ InjectChecks \/ InjectSends \/ InjectDrops
    \/ NetRecvPacket \/ NetRecvEnds

Spec == Init /\ [][Next]_vars

(***************************************************************************)
(* Fairness: goroutines that can run do; a select whose closeChan stays    *)
(* ready chooses it in the end.  Nothing forces a rebind to be completed,  *)
(* a datagram to arrive or a reference to be released.                     *)
(***************************************************************************)
FairSpec ==
    /\ Spec
    /\ WF_vars(RecvStep)
    /\ SF_vars(NetRecvEnds)
    /\ \A r \in Releasers : WF_vars(CloseStep(r))

-----------------------------------------------------------------------------
(* Properties.                                                             *)

(* Every variable keeps its type; the count is at least -1 for each caller *)
(* that has still to reset it.                                             *)
TypeOK ==
    /\ udpConn \in Sockets \cup {Nil} /\ packetConn \in Sockets \cup {Nil}
    /\ fresh \in Sockets \cup {Nil}
    /\ open \subseteq Sockets
    /\ made \in Sockets
    /\ rebinding \in BOOLEAN /\ closed \in BOOLEAN /\ closeChan \in BOOLEAN
    /\ releases \in 0 .. MaxReleases
    /\ refCount \in (InitialRefs - MaxReleases) .. InitialRefs
    /\ releaser \in [Releasers -> {"idle", "negative", "close", "signal", "lock"}]
    /\ recv \in {"none", "check", "load", "missing", "guard", "wait", "woken",
                 "again", "read", "failed", "ended"}
    /\ rConn \in Sockets \cup {Nil} /\ rPC \in Sockets \cup {Nil}
    /\ netRecv \in {"none", "running", "ended"}
    /\ injector \in {"idle", "send"}
    /\ queued \in 0 .. QueueCap

(* No socket leaks: one that is open is the one in b.udpConn or still in   *)
(* the hands of the caller of Rebind, through any number of CloseSocket,   *)
(* Rebind and Release.                                                     *)
NoSocketLeak == open \subseteq {udpConn, fresh}

(* The batch reader's packet connection and the socket that is checked for *)
(* nil are the same socket whenever a receiver may load them: a rebind     *)
(* never leaves the receiver reading the socket that was replaced.         *)
PairCoherent == (udpConn # Nil /\ packetConn # Nil) => packetConn = udpConn

(* No wake-up is lost: whoever waits on rebindingCond waits for a rebind   *)
(* that has not been completed, because the flag is tested, raised,        *)
(* lowered and signalled under the same lock.  (That Rebind will signal,   *)
(* unless the bind is closed first: it then returns before it gets there.) *)
NoLostWakeup == recv = "wait" => rebinding

(* The bind is closed by the last reference only, and once: at no time do  *)
(* two callers of Release run closeConnection (closeChan would be closed   *)
(* twice), and nobody closes while references are left.                    *)
LastReleaseCloses ==
    /\ closed \/ (\E r \in Releasers : releaser[r] = "close") => refCount <= 0
    /\ \A q, r \in Releasers :
          ({releaser[q], releaser[r]} \subseteq {"signal", "lock"}) => q = r

(* No resurrection: when the one that closes the bind is done, there is no *)
(* socket in it and there will be none, although b.closed is set outside   *)
(* the lock under which Rebind tests it and installs its socket.           *)
NoResurrection ==
    closed /\ (\A r \in Releasers : releaser[r] \notin {"signal", "lock"})
        => udpConn = Nil /\ packetConn = Nil

(* Once no reference is left the socket is closed and stays closed: a      *)
(* Rebind that races with the last Release does not resurrect it.          *)
UnusedIsClosed ==
    refCount <= 0 ~> [](udpConn = Nil /\ open \subseteq {fresh})

(* After the close the netstack receiver ends, and so does the socket      *)
(* receiver wherever the close finds it: before its test of b.closed, in a *)
(* read that fails, or about to wait for a rebind.  Nothing is claimed of  *)
(* one that waits in rebindingCond.Wait already when the bind is closed:   *)
(* closeConnection does not signal the condition.                          *)
CloseEndsReceivers ==
    /\ closed ~> netRecv # "running"
    /\ (closed /\ recv # "wait") ~> recv \in {"none", "ended"}

(* "Sets the rebinding flag so receive goroutines will wait for the new    *)
(* socket instead of exiting" (CloseSocket): a receive routine ends only   *)
(* when the bind is closed.                                                *)
ReceiverSurvivesRebind == recv = "ended" => closed
=============================================================================
