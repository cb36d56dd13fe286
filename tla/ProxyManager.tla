---------------------------- MODULE ProxyManager ----------------------------
(***************************************************************************)
(* The proxy manager (proxy/manager.go): the table of targets, the         *)
(* listeners that serve it, and what goes through them.                    *)
(*                                                                         *)
(* newt makes a new manager for every tunnel, and the goroutines of an old *)
(* one outlive it, so everything is indexed by the generation of the       *)
(* tunnel.  A slot is a protocol and a port.  A listener is a              *)
(* managedListener or managedPacketConn together with the goroutine that   *)
(* serves it (handleTCPProxy, handleUDPProxy).                             *)
(*                                                                         *)
(* An operation of the manager holds pm.mutex and is one step, except      *)
(* Start: its listeners accept before pm.running is set, and the           *)
(* goroutines read pm.running without the lock.  Site says who calls what. *)
(***************************************************************************)
EXTENDS Naturals, FiniteSets

CONSTANTS
    TcpSlots,       \* the TCP ports the site proxies
    UdpSlots,       \* its UDP ports
    Addrs,          \* the addresses of targets
    MaxTunnel,      \* bound on the tunnels that are set up
    MaxListener,    \* bound on the listeners at one time
    MaxFlow,        \* bound on the UDP flows at one time
    MaxConn,        \* bound on the TCP connections
    MaxEvent        \* bound on what comes from outside: messages, packets, ...

ASSUME SlotsAssumption ==
    TcpSlots \cap UdpSlots = {} /\ "none" \notin TcpSlots \cup UdpSlots
ASSUME ProxyBoundsAssumption ==
    /\ MaxTunnel \in Nat \ {0} /\ MaxListener \in Nat \ {0}
    /\ MaxFlow \in Nat \ {0} /\ MaxConn \in Nat /\ MaxEvent \in Nat

Slots == TcpSlots \cup UdpSlots
Tunnels == 1 .. MaxTunnel
Listeners == 1 .. MaxListener
Flows == 1 .. MaxFlow
Conns == 1 .. MaxConn

Nil == 0            \* no tunnel, no flow
NoAddr == "none"    \* no target on this slot
NoSlot == "none"

ASSUME AddrsAssumption == NoAddr \notin Addrs

VARIABLES
    events,         \* how much has come from outside
    native,         \* UseNativeMainInterface: the listeners are the host's
    table,          \* tcpTargets and udpTargets of a manager
    running,        \* its field running
    blocked,        \* its field blocked
    starting,       \* the slots Start has still to open; it holds the mutex
    busy,           \* is it inside Start?
    failed,         \* the slots whose listen failed (nothing else records it)
    strands,        \* did its Start fail half way?
    taken,          \* the slots other processes of the host listen on
    socket,         \* of a listener: none, open or closed
    loop,           \* its goroutine: none, read, write, delete or done
    tunnelOf,       \* the tunnel whose manager opened it
    slotOf,         \* the slot it listens on
    addrOf,         \* the target it forwards to
    early,          \* its goroutine ended before Start had set running
    client,         \* clientConns of a UDP listener, for one client
    writing,        \* the flow its goroutine holds in targetConn
    open,           \* the flows whose socket is open
    reader,         \* the listener whose flow this is while its reader runs
    conn,           \* a TCP connection: none, dialing, copying or failed
    connOf,         \* the tunnel it came through
    activeTCP,      \* activeTCP of the manager's tunnelEntry
    activeUDP,      \* activeUDP
    uncounted       \* the flows of the tunnel that its loop dropped itself

tableVars == <<table, running, busy, starting, failed, strands>>
socketVars == <<socket, loop, tunnelOf, slotOf, addrOf, early>>
flowVars == <<client, writing, open, reader, activeUDP, uncounted>>
connVars == <<conn, connOf, activeTCP>>
pmVars == <<events, native, tableVars, blocked, taken, socketVars, flowVars, connVars>>

PmInit ==
    /\ events = 0
    /\ native \in BOOLEAN
    /\ table = [g \in Tunnels |-> [s \in Slots |-> NoAddr]]
    /\ running = [g \in Tunnels |-> FALSE]
    /\ blocked = [g \in Tunnels |-> FALSE]
    /\ busy = [g \in Tunnels |-> FALSE]
    /\ starting = [g \in Tunnels |-> {}]
    /\ failed = [g \in Tunnels |-> {}]
    /\ strands = [g \in Tunnels |-> FALSE]
    /\ taken = {}
    /\ socket = [l \in Listeners |-> "none"]
    /\ loop = [l \in Listeners |-> "none"]
    /\ tunnelOf = [l \in Listeners |-> Nil]
    /\ slotOf = [l \in Listeners |-> NoSlot]
    /\ addrOf = [l \in Listeners |-> NoAddr]
    /\ early = [l \in Listeners |-> FALSE]
    /\ client = [l \in Listeners |-> Nil]
    /\ writing = [l \in Listeners |-> Nil]
    /\ open = {}
    /\ reader = [f \in Flows |-> Nil]
    /\ conn = [c \in Conns |-> "none"]
    /\ connOf = [c \in Conns |-> Nil]
    /\ activeTCP = [g \in Tunnels |-> 0]
    /\ activeUDP = [g \in Tunnels |-> 0]
    /\ uncounted = [g \in Tunnels |-> 0]

(* Something comes from outside, as often as the bound allows.             *)
Event == events < MaxEvent /\ events' = events + 1

-----------------------------------------------------------------------------
(* Listeners.                                                              *)

(* pm.listeners and pm.udpConns: the open listeners of a manager.          *)
AllOwned(g) == {l \in Listeners : socket[l] = "open" /\ tunnelOf[l] = g}

Owned(g, s) == {l \in AllOwned(g) : slotOf[l] = s}

(* Is a slot free for a manager to listen on?  On the host every process   *)
(* and every tunnel competes for the port; a netstack belongs to one       *)
(* tunnel.  A listen on a free slot may still fail.                        *)
CanListen(g, s) ==
    IF native THEN s \notin taken /\ \A h \in Tunnels : Owned(h, s) = {}
              ELSE Owned(g, s) = {}

FreeListener == {l \in Listeners : socket[l] = "none"}

(* startTarget: open the listener and start its goroutine.                 *)
startTarget(g, s, a) ==
    \E l \in FreeListener :
        /\ \A k \in FreeListener : l <= k
        /\ socket' = [socket EXCEPT ![l] = "open"]
        /\ loop' = [loop EXCEPT ![l] = "read"]
        /\ tunnelOf' = [tunnelOf EXCEPT ![l] = g]
        /\ slotOf' = [slotOf EXCEPT ![l] = s]
        /\ addrOf' = [addrOf EXCEPT ![l] = a]
        /\ early' = [early EXCEPT ![l] = FALSE]

(* These listeners are closed: a goroutine that has ended is forgotten with *)
(* its listener, the others have yet to see it.                            *)
Release(ended, ls) ==
    /\ socket' = [l \in Listeners |-> IF l \in ended THEN "none"
                                      ELSE IF l \in ls THEN "closed" ELSE socket[l]]
    /\ loop' = [l \in Listeners |-> IF l \in ended THEN "none" ELSE loop[l]]
    /\ tunnelOf' = [l \in Listeners |-> IF l \in ended THEN Nil ELSE tunnelOf[l]]
    /\ slotOf' = [l \in Listeners |-> IF l \in ended THEN NoSlot ELSE slotOf[l]]
    /\ addrOf' = [l \in Listeners |-> IF l \in ended THEN NoAddr ELSE addrOf[l]]
    /\ early' = [l \in Listeners |-> IF l \in ended THEN FALSE ELSE early[l]]

CloseAll(ls) == Release({l \in ls : loop[l] = "done"}, ls)

-----------------------------------------------------------------------------
(* The operations of the manager of tunnel g.  None of them runs while     *)
(* Start holds the mutex.                                                  *)

(* Variant: the old listener is left open.                                 *)
RemoveTargetKeepsListener(g, s) ==
    /\ ~ busy[g]
    /\ table' = [table EXCEPT ![g][s] = NoAddr]
    /\ failed' = [failed EXCEPT ![g] = @ \ {s}]
    /\ UNCHANGED <<running, busy, starting, strands, socketVars>>

(* RemoveTarget, also when the manager is not running.                     *)
RemoveTarget(g, s) ==
    /\ ~ busy[g]
    /\ table' = [table EXCEPT ![g][s] = NoAddr]
    /\ failed' = [failed EXCEPT ![g] = @ \ {s}]
    /\ CloseAll(Owned(g, s))
    /\ UNCHANGED <<running, busy, starting, strands>>

(* AddTarget: the table is changed first and stays changed when the listen *)
(* fails; the error is dropped by the caller (updateTargets).              *)
AddTarget(g, s, a) ==
    /\ ~ busy[g]
    /\ table' = [table EXCEPT ![g][s] = a]
    /\ \/ ~ running[g] /\ UNCHANGED <<failed, socketVars>>
       \/ running[g] /\ CanListen(g, s) /\ startTarget(g, s, a) /\ UNCHANGED failed
       \/ running[g] /\ failed' = [failed EXCEPT ![g] = @ \cup {s}] /\ UNCHANGED socketVars
    /\ UNCHANGED <<running, busy, starting, strands>>

(* Start takes the mutex.                                                  *)
StartBegin(g) ==
    /\ ~ busy[g] /\ ~ running[g]
    /\ busy' = [busy EXCEPT ![g] = TRUE]
    /\ starting' = [starting EXCEPT ![g] = {s \in Slots : table[g][s] # NoAddr}]
    /\ UNCHANGED <<table, running, failed, strands, socketVars>>

(* One target of Start, the TCP ones first, each kind in any order (they   *)
(* come from a map).  The first failure ends Start, with running not set.  *)
StartNext(g) ==
    /\ busy[g]
    /\ \E s \in starting[g] :
        /\ s \in UdpSlots => starting[g] \cap TcpSlots = {}
        /\ \/ /\ CanListen(g, s)
              /\ startTarget(g, s, table[g][s])
              /\ starting' = [starting EXCEPT ![g] = @ \ {s}]
              /\ UNCHANGED <<busy, strands>>
           \/ /\ starting' = [starting EXCEPT ![g] = {}]
              /\ busy' = [busy EXCEPT ![g] = FALSE]
              /\ strands' = [strands EXCEPT ![g] = TRUE]
              /\ UNCHANGED socketVars
    /\ UNCHANGED <<table, running, failed>>

(* Start sets running and returns.                                         *)
StartEnd(g) ==
    /\ busy[g] /\ starting[g] = {}
    /\ running' = [running EXCEPT ![g] = TRUE]
    /\ busy' = [busy EXCEPT ![g] = FALSE]
    /\ UNCHANGED <<table, starting, failed, strands, socketVars>>

(* Stop: nothing, if the manager is not running.                           *)
Stop(g) ==
    /\ ~ busy[g]
    /\ running' = [running EXCEPT ![g] = FALSE]
    /\ CloseAll(IF running[g] THEN AllOwned(g) ELSE {})
    /\ UNCHANGED <<table, busy, starting, failed, strands>>

(* SetBlocked, without the mutex.                                          *)
SetBlocked(g, v) == blocked' = [blocked EXCEPT ![g] = v]

(* GetTargets: a copy of the table.                                        *)
GetTargets(g) == table[g]

-----------------------------------------------------------------------------
(* The goroutines.                                                         *)

(* The flows of listener l are closed and its map is dropped               *)
(* (closeAllClients): their readers will not find themselves in it.        *)
closeAllClients(l) ==
    /\ open' = open \ {client[l]}
    /\ client' = [client EXCEPT ![l] = Nil]
    /\ uncounted' = [uncounted EXCEPT ![tunnelOf[l]] =
                        IF client[l] = Nil THEN @ ELSE @ + 1]
    /\ UNCHANGED <<writing, reader, activeUDP>>

(* Accept or ReadFrom fails since the listener is closed.                  *)
LoopEnd(l) ==
    /\ socket[l] = "closed" /\ loop[l] = "read"
    /\ Release({l}, {l})
    /\ closeAllClients(l)
    /\ UNCHANGED <<events, native, tableVars, blocked, taken, connVars>>

(* Accept or ReadFrom fails for another reason (no descriptors, say): the  *)
(* goroutine goes on if pm.running is set, and else returns although the   *)
(* listener is open.                                                       *)
LoopFails(l) ==
    /\ Event
    /\ socket[l] = "open" /\ loop[l] = "read" /\ ~ running[tunnelOf[l]]
    /\ loop' = [loop EXCEPT ![l] = "done"]
    /\ early' = [early EXCEPT ![l] = busy[tunnelOf[l]]]
    /\ closeAllClients(l)
    /\ UNCHANGED <<native, tableVars, blocked, taken, socket, tunnelOf, slotOf, addrOf, connVars>>

(* handleTCPProxy accepts a connection: it is counted, and a goroutine     *)
(* dials the target, unless connections are blocked.                       *)
TcpAccept(l) ==
    /\ Event
    /\ socket[l] = "open" /\ loop[l] = "read" /\ slotOf[l] \in TcpSlots
    /\ ~ blocked[tunnelOf[l]]
    /\ \E c \in Conns :
        /\ conn[c] = "none" /\ \A d \in Conns : conn[d] = "none" => c <= d
        /\ conn' = [conn EXCEPT ![c] = "dialing"]
        /\ connOf' = [connOf EXCEPT ![c] = tunnelOf[l]]
    /\ activeTCP' = [activeTCP EXCEPT ![tunnelOf[l]] = @ + 1]
    /\ UNCHANGED <<native, tableVars, blocked, taken, socketVars, flowVars>>

(* The dial fails: the connection is closed but not counted down.          *)
TcpDialFails(c) ==
    /\ conn[c] = "dialing"
    /\ conn' = [conn EXCEPT ![c] = "failed"]
    /\ UNCHANGED <<events, native, tableVars, blocked, taken, socketVars, flowVars, connOf, activeTCP>>

(* The dial succeeds, and two goroutines copy until either side ends.      *)
TcpDialed(c) ==
    /\ conn[c] = "dialing"
    /\ conn' = [conn EXCEPT ![c] = "copying"]
    /\ UNCHANGED <<events, native, tableVars, blocked, taken, socketVars, flowVars, connOf, activeTCP>>

(* Variant: each of the two copies counts the connection down.             *)
TcpEndsTwice(c) ==
    /\ conn[c] = "copying"
    /\ conn' = [conn EXCEPT ![c] = "none"]
    /\ connOf' = [connOf EXCEPT ![c] = Nil]
    /\ activeTCP' = [activeTCP EXCEPT ![connOf[c]] = @ - 2]
    /\ UNCHANGED <<events, native, tableVars, blocked, taken, socketVars, flowVars>>

(* Both copies have ended (wg.Wait).                                       *)
TcpEnds(c) ==
    /\ conn[c] = "copying"
    /\ conn' = [conn EXCEPT ![c] = "none"]
    /\ connOf' = [connOf EXCEPT ![c] = Nil]
    /\ activeTCP' = [activeTCP EXCEPT ![connOf[c]] = @ - 1]
    /\ UNCHANGED <<events, native, tableVars, blocked, taken, socketVars, flowVars>>

(* A flow whose reader has ended and that no goroutine holds.              *)
FreeFlows ==
    {f \in Flows : reader[f] = Nil /\ \A l \in Listeners : writing[l] # f /\ client[l] # f}

(* handleUDPProxy receives a packet of the client.  Without a flow it      *)
(* dials one and starts its reader; a failed dial drops the packet.        *)
UdpPacket(l) ==
    /\ socket[l] = "open" /\ loop[l] = "read" /\ slotOf[l] \in UdpSlots
    /\ Event
    /\ ~ blocked[tunnelOf[l]]
    /\ \/ /\ client[l] # Nil
          /\ writing' = [writing EXCEPT ![l] = client[l]]
          /\ UNCHANGED <<client, open, reader, activeUDP>>
       \/ /\ client[l] = Nil
          /\ \E f \in FreeFlows :
                /\ \A k \in FreeFlows : f <= k
                /\ activeUDP' = [activeUDP EXCEPT ![tunnelOf[l]] = @ + 1]
                /\ client' = [client EXCEPT ![l] = f]
                /\ open' = open \cup {f}
                /\ reader' = [reader EXCEPT ![f] = l]
                /\ writing' = [writing EXCEPT ![l] = f]
    /\ loop' = [loop EXCEPT ![l] = "write"]
    /\ UNCHANGED <<native, tableVars, blocked, taken, socket, tunnelOf, slotOf, addrOf, early,
                   connVars, uncounted>>

(* Variant: a flow that cannot be written to is not closed.                *)
UdpWriteKeepsOpen(l) ==
    /\ loop[l] = "write"
    /\ \/ /\ writing[l] \in open
          /\ loop' = [loop EXCEPT ![l] = "read"]
          /\ writing' = [writing EXCEPT ![l] = Nil]
       \/ /\ loop' = [loop EXCEPT ![l] = "delete"]
          /\ UNCHANGED writing
    /\ UNCHANGED <<events, native, tableVars, blocked, taken, socket, tunnelOf, slotOf, addrOf,
                   early, connVars, client, open, reader, activeUDP, uncounted>>

(* The packet is written to the flow the goroutine looked up.  The write   *)
(* may fail, and does when the reader has closed the flow since; then the  *)
(* flow is closed.                                                         *)
UdpWrite(l) ==
    /\ loop[l] = "write"
    /\ \/ /\ writing[l] \in open
          /\ loop' = [loop EXCEPT ![l] = "read"]
          /\ writing' = [writing EXCEPT ![l] = Nil]
          /\ UNCHANGED open
       \/ /\ loop' = [loop EXCEPT ![l] = "delete"]
          /\ open' = open \ {writing[l]}
          /\ UNCHANGED writing
    /\ UNCHANGED <<events, native, tableVars, blocked, taken, socket, tunnelOf, slotOf, addrOf, early,
                   connVars, client, reader, activeUDP, uncounted>>

(* After a failed write the goroutine takes clientsMutex and deletes the   *)
(* entry, whether or not the reader has come first.                        *)
UdpDelete(l) ==
    /\ loop[l] = "delete"
    /\ client' = [client EXCEPT ![l] = Nil]
    /\ uncounted' = [uncounted EXCEPT ![tunnelOf[l]] =
                        IF client[l] = Nil THEN @ ELSE @ + 1]
    /\ writing' = [writing EXCEPT ![l] = Nil]
    /\ loop' = [loop EXCEPT ![l] = "read"]
    /\ UNCHANGED <<events, native, tableVars, blocked, taken, socket, tunnelOf, slotOf, addrOf, early,
                   connVars, open, reader, activeUDP>>

(* The reader of a flow ends: the flow is closed or idle for too long, or  *)
(* an answer cannot be read or delivered.  Under clientsMutex it removes   *)
(* the entry, closes the flow and counts it down, if the entry is its own. *)
ReaderEnds(f) ==
    LET l == reader[f]
        mine == client[l] = f
    IN
    /\ l # Nil
    /\ client' = [client EXCEPT ![l] = IF mine THEN Nil ELSE @]
    /\ open' = IF mine THEN open \ {f} ELSE open
    /\ activeUDP' = IF mine THEN [activeUDP EXCEPT ![tunnelOf[l]] = @ - 1] ELSE activeUDP
    /\ reader' = [reader EXCEPT ![f] = Nil]
    /\ UNCHANGED <<events, native, tableVars, blocked, taken, socketVars, connVars, writing, uncounted>>

(* Another process of the host takes or gives up a port.  External.        *)
PortTaken(s) ==
    /\ native /\ Event
    /\ \/ s \notin taken /\ (\A g \in Tunnels : Owned(g, s) = {}) /\ taken' = taken \cup {s}
       \/ s \in taken /\ taken' = taken \ {s}
    /\ UNCHANGED <<native, tableVars, blocked, socketVars, flowVars, connVars>>

ProxyStep ==
    \/ \E l \in Listeners :
          \/ LoopEnd(l) \/ LoopFails(l) \/ TcpAccept(l)
          \/ UdpPacket(l) \/ UdpWrite(l) \/ UdpDelete(l)
    \/ \E c \in Conns : TcpDialFails(c) \/ TcpDialed(c) \/ TcpEnds(c)
    \/ \E f \in Flows : ReaderEnds(f)
    \/ \E s \in Slots : PortTaken(s)
=============================================================================
