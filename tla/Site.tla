-------------------------------- MODULE Site --------------------------------
(***************************************************************************)
(* The tunnel of the site and what newt keeps beside it: the proxy manager *)
(* and its targets, the WireGuard device, the remote exit node subnets,    *)
(* the browser gateway and the connection block (newt/connect.go,          *)
(* tunnel.go, data.go, targets.go and the handlers of handlers.go).        *)
(*                                                                         *)
(* The message handlers run one after the other (WSClient); chain ids,     *)
(* pings and senders are Registration's.  Beside them run the goroutines   *)
(* of the proxy managers (ProxyManager), the SIGHUP goroutine, and the     *)
(* shutdown, which closes the tunnel whatever a handler is doing.  The     *)
(* fields of Newt have no lock.                                            *)
(***************************************************************************)
EXTENDS ProxyManager, Sequences

CONSTANTS
    V6,             \* the addresses of targets that are IPv6
    Raw,            \* the addresses that are no host and port
    Script,         \* what the updown script makes of an address
    Subnets,        \* the remote exit node subnets
    Contents        \* the lists a connect or sync message may hold

ASSUME SiteAssumption ==
    /\ V6 \subseteq Addrs /\ Raw \subseteq Addrs /\ Script \in [Addrs -> Addrs]

Lists == [targets : [Slots -> Addrs \cup {NoAddr}], subnets : SUBSET Subnets, gateway : BOOLEAN]

(* A target of a message that does not parse is skipped: as if not there.  *)
ASSUME ContentsAssumption ==
    Contents \subseteq Lists /\ \A m \in Contents, s \in Slots : m.targets[s] \notin Raw

Empty == [targets |-> [s \in Slots |-> NoAddr], subnets |-> {}, gateway |-> FALSE]

(* What updateTargets has still to do for a slot: RemoveTarget and nothing *)
(* else; RemoveTarget twice and AddTarget (change, again, add), for a sync *)
(* that changes the address; RemoveTarget and AddTarget (put, add).        *)
Work == {"none", "remove", "change", "again", "put", "add"}

Nothing == [s \in Slots |-> [addr |-> NoAddr, sync |-> FALSE]]
Idle == [s \in Slots |-> "none"]

VARIABLES
    handler,        \* its program counter, crashed after a nil dereference
    cause,          \* the message it handles: connect, targets or sync
    msg,            \* the lists of that message
    todo,           \* the Work that is left for a slot
    callee,         \* the manager it is done on
    made,           \* how many tunnels there have been
    tun,            \* n.tun and n.tnet: the tunnel they belong to, or Nil
    dev,            \* n.dev, likewise
    devices,        \* the tunnels whose device is open
    pm,             \* n.pm
    currentPM,      \* n.currentPM, what the SIGHUP goroutine sees
    connected,      \* n.connected
    connectionBlocked,
    hup,            \* the SIGHUP goroutine: idle or apply
    missed,         \* a change came between the load and the publication
    gateway,        \* the tunnel the browser gateway listens on, or Nil
    active,         \* n.activeRemoteSubnets
    allowed,        \* the subnets among the AllowedIPs of n.dev
    routes,         \* the subnets routed through the native interface
    left,           \* the tunnels handleConnect gave up with their device open
    asked,          \* what the server last asked for a slot, and how
    closing         \* has the shutdown closed the tunnel?

handlerVars == <<handler, cause, msg, todo, callee>>
tunnelVars == <<made, tun, dev, devices, pm, connected, left>>
hupVars == <<currentPM, connectionBlocked, hup, missed>>
subnetVars == <<active, allowed, routes>>
siteVars == <<handlerVars, tunnelVars, hupVars, subnetVars, gateway, asked, closing>>
vars == <<pmVars, siteVars>>

pmRest == <<native, tableVars, blocked, taken, socketVars, flowVars, connVars>>
proxyRest == <<native, taken, flowVars, connVars>>

Init ==
    /\ PmInit
    /\ handler = "idle" /\ cause = "connect" /\ msg = Empty /\ todo = Idle /\ callee = Nil
    /\ made = 0 /\ tun = Nil /\ dev = Nil /\ devices = {} /\ pm = Nil
    /\ connected = FALSE /\ left = {}
    /\ currentPM = Nil /\ connectionBlocked = FALSE
    /\ hup = "idle" /\ missed = FALSE
    /\ active = {} /\ allowed = {} /\ routes = {}
    /\ gateway = Nil
    /\ asked = Nothing
    /\ closing = FALSE

(* The websocket client's reader picks up a message.  It may do so until   *)
(* the shutdown, having closed the tunnel, has closed the client.          *)
Receive == handler = "idle" /\ Event

(* It returns, and forgets its local variables.                            *)
Return ==
    /\ handler' = "idle" /\ cause' = "connect" /\ msg' = Empty /\ callee' = Nil

-----------------------------------------------------------------------------
(* The tunnel.                                                             *)

(* Variant: the browser gateway is left running.                           *)
closeWgTunnelKeepsGateway ==
    /\ IF pm # Nil THEN Stop(pm) ELSE UNCHANGED <<tableVars, socketVars>>
    /\ pm' = Nil /\ currentPM' = Nil
    /\ active' = IF native THEN {} ELSE active
    /\ devices' = devices \ {dev}
    /\ dev' = Nil /\ tun' = Nil
    /\ allowed' = {} /\ routes' = {}
    /\ missed' = FALSE /\ asked' = Nothing
    /\ UNCHANGED <<gateway, blocked, proxyRest>>

(* closeWgTunnel.  Closing a device deletes its interface with its routes. *)
closeWgTunnel ==
    /\ gateway' = Nil
    /\ IF pm # Nil THEN Stop(pm) ELSE UNCHANGED <<tableVars, socketVars>>
    /\ pm' = Nil /\ currentPM' = Nil
    /\ active' = IF native THEN {} ELSE active
    /\ devices' = devices \ {dev}
    /\ dev' = Nil /\ tun' = Nil
    /\ allowed' = {} /\ routes' = {}
    /\ missed' = FALSE /\ asked' = Nothing
    /\ UNCHANGED <<blocked, proxyRest>>

(* newt/wg/reconnect and newt/wg/terminate.                                *)
Disconnect ==
    /\ Receive
    /\ closeWgTunnel
    /\ connected' = FALSE
    /\ UNCHANGED <<handlerVars, made, left, connectionBlocked, hup, closing>>

(* The first half of handleConnect: the old tunnel is closed if it counts  *)
(* as connected.                                                           *)
Connect(m) ==
    /\ Receive
    /\ made < MaxTunnel
    /\ handler' = "closed" /\ cause' = "connect" /\ msg' = m
    /\ IF connected THEN closeWgTunnel
       ELSE UNCHANGED <<pm, currentPM, gateway, dev, tun, devices, subnetVars, missed, asked, pmRest>>
    /\ connected' = FALSE
    /\ UNCHANGED <<todo, callee, made, left, connectionBlocked, hup, closing>>

(* The middle of handleConnect.  The data cannot be read: return.          *)
(* CreateTUN fails, always as long as a device of the interface's name is  *)
(* open: return.  CreateNetTUN fails: the error is logged, and the nil     *)
(* device dereferenced.  Else the new device replaces n.dev; when the      *)
(* endpoint does not parse or resolve, return with the device left open.   *)
(* Else it is configured and the subnets are added.                        *)
Build ==
    /\ handler = "closed"
    /\ \/ Return /\ UNCHANGED <<made, tun, dev, devices, left, subnetVars>>
       \/ /\ IF native THEN Return ELSE handler' = "crashed" /\ UNCHANGED <<cause, msg, callee>>
          /\ tun' = Nil
          /\ UNCHANGED <<made, dev, devices, left, subnetVars>>
       \/ /\ ~ (native /\ devices # {})
          /\ made' = made + 1
          /\ tun' = made' /\ dev' = made'
          /\ devices' = devices \cup {made'}
          /\ \/ /\ Return /\ left' = left \cup {made'}
                /\ allowed' = {} /\ routes' = {} /\ UNCHANGED active
             \/ /\ handler' = "built" /\ UNCHANGED <<cause, msg, callee, left>>
                /\ active' = msg.subnets
                /\ allowed' = msg.subnets
                /\ routes' = IF native THEN msg.subnets ELSE {}
    /\ UNCHANGED <<todo, connected, pm, currentPM, connectionBlocked, hup,
                   missed, gateway, asked, closing, pmVars>>

(* Variant: the new manager starts out unblocked.                          *)
CreatePMUnblocked ==
    /\ handler = "built"
    /\ pm' = made
    /\ missed' = FALSE
    /\ handler' = "created"
    /\ UNCHANGED <<cause, msg, todo, callee, made, tun, dev, devices, connected, left, currentPM,
                   connectionBlocked, hup, subnetVars, gateway, asked, closing, pmVars>>

(* After the first pings: n.pm = NewProxyManager, with the block loaded.   *)
CreatePM ==
    /\ handler = "built"
    /\ pm' = made
    /\ SetBlocked(made, connectionBlocked)
    /\ missed' = FALSE
    /\ handler' = "created"
    /\ UNCHANGED <<events, cause, msg, todo, callee, made, tun, dev, devices, connected, left, currentPM,
                   connectionBlocked, hup, subnetVars, gateway, asked, closing,
                   native, tableVars, taken, socketVars, flowVars, connVars>>

-----------------------------------------------------------------------------
(* Targets.                                                                *)

(* handleConnect publishes the manager and goes through its targets.       *)
Publish ==
    /\ handler = "created"
    /\ IF pm = Nil
          THEN handler' = "crashed" /\ UNCHANGED <<todo, currentPM, connected, asked>>
          ELSE /\ handler' = "updating"
               /\ currentPM' = pm
               /\ connected' = TRUE
               /\ todo' = [s \in Slots |-> IF msg.targets[s] = NoAddr THEN "none" ELSE "put"]
               /\ asked' = [s \in Slots |-> [addr |-> msg.targets[s], sync |-> FALSE]]
    /\ UNCHANGED <<cause, msg, callee, made, tun, dev, devices, pm, left, connectionBlocked, hup,
                   missed, subnetVars, gateway, closing, pmVars>>

(* newt/tcp/add and newt/udp/add: the targets of the message for one       *)
(* protocol.                                                               *)
AddTargets(list, proto) ==
    /\ Receive
    /\ pm # Nil
    /\ handler' = "updating" /\ cause' = "targets" /\ callee' = pm
    /\ msg' = [Empty EXCEPT !.targets = list]
    /\ todo' = [s \in Slots |-> IF s \in proto /\ list[s] # NoAddr THEN "put" ELSE "none"]
    /\ asked' = [s \in Slots |-> IF todo'[s] = "put"
                                  THEN [addr |-> list[s], sync |-> FALSE] ELSE asked[s]]
    /\ UNCHANGED <<tunnelVars, hupVars, subnetVars, gateway, closing, pmRest>>

(* newt/tcp/remove and newt/udp/remove.                                    *)
RemoveTargets(ss) ==
    /\ Receive
    /\ pm # Nil
    /\ handler' = "updating" /\ cause' = "targets" /\ msg' = Empty /\ callee' = pm
    /\ todo' = [s \in Slots |-> IF s \in ss THEN "remove" ELSE "none"]
    /\ asked' = [s \in Slots |-> IF s \in ss THEN [addr |-> NoAddr, sync |-> FALSE] ELSE asked[s]]
    /\ UNCHANGED <<tunnelVars, hupVars, subnetVars, gateway, closing, pmRest>>

(* The port -> target maps handleSync builds.  It splits a target on every *)
(* colon and skips what does not have three parts, an IPv6 address too.    *)
desired(m) == [s \in Slots |-> IF m.targets[s] \in V6 THEN NoAddr ELSE m.targets[s]]

(* Variant: the address of a target that is there is not compared.         *)
PlanKeepsAddress(want, have) ==
    CASE want = NoAddr -> IF have = NoAddr THEN "none" ELSE "remove"
      [] want # NoAddr /\ have = NoAddr -> "put"
      [] OTHER -> "none"

(* What handleSync does about a slot, from what GetTargets returned.       *)
Plan(want, have) ==
    CASE want = NoAddr -> IF have = NoAddr THEN "none" ELSE "remove"
      [] want # NoAddr /\ have = NoAddr -> "put"
      [] OTHER -> IF have = want THEN "none" ELSE "change"

(* handleSync, as far as GetTargets.                                       *)
Sync(m) ==
    /\ Receive
    /\ pm # Nil
    /\ handler' = "updating" /\ cause' = "sync" /\ msg' = m
    /\ todo' = [s \in Slots |-> Plan(desired(m)[s], GetTargets(pm)[s])]
    /\ asked' = [s \in Slots |-> [addr |-> m.targets[s], sync |-> TRUE]]
    /\ UNCHANGED <<callee, tunnelVars, hupVars, subnetVars, gateway, closing, pmRest>>

(* The other slots of its protocol.                                        *)
Peers(s) == (IF s \in TcpSlots THEN TcpSlots ELSE UdpSlots) \ {s}

(* It is the turn of slot s: TCP before UDP, removals before additions, a  *)
(* slot that is under way before all others.                               *)
Turn(s) ==
    /\ handler = "updating" /\ todo[s] # "none"
    /\ \A t \in Slots \ {s} : todo[t] \notin {"again", "add"}
    /\ s \in UdpSlots => \A t \in TcpSlots : todo[t] = "none"
    /\ todo[s] # "remove" => \A t \in Peers(s) : todo[t] # "remove"

(* Is n.pm read before this call?  handleSync passes it to every call of   *)
(* updateTargets, handleConnect once for a protocol.                       *)
Loads(s) ==
    \/ cause = "sync"
    \/ cause = "connect" /\ \A t \in Peers(s) : (todo[t] = "none") = (msg.targets[t] = NoAddr)

(* handleSync names a target it wants removed by the address in the table, *)
(* and updateTargets skips what it cannot parse: an address that the       *)
(* script returned may be of that kind.                                    *)
Skips(g, s) == cause = "sync" /\ todo[s] \in {"remove", "change"} /\ table[g][s] \in Raw

(* updateTargets calls RemoveTarget.                                       *)
UpdateRemove(s) ==
    /\ Turn(s) /\ todo[s] # "add"
    /\ IF Loads(s) /\ pm = Nil
          THEN handler' = "crashed" /\ UNCHANGED <<todo, callee, tableVars, socketVars>>
          ELSE /\ callee' = IF Loads(s) THEN pm ELSE callee
               /\ IF Skips(callee', s) THEN UNCHANGED <<tableVars, socketVars>>
                                       ELSE RemoveTarget(callee', s)
               /\ todo' = [todo EXCEPT ![s] = CASE @ = "remove" -> "none"
                                                [] @ = "change" -> "again"
                                                [] OTHER -> "add"]
               /\ UNCHANGED handler
    /\ UNCHANGED <<events, cause, msg, tunnelVars, hupVars, subnetVars, gateway, asked, closing,
                   blocked, proxyRest>>

(* updateTargets calls AddTarget, with the address the updown script       *)
(* returned, or with the one of the message when the script failed.        *)
UpdateAdd(s) ==
    /\ Turn(s) /\ todo[s] = "add"
    /\ \E a \in {msg.targets[s], Script[msg.targets[s]]} : AddTarget(callee, s, a)
    /\ todo' = [todo EXCEPT ![s] = "none"]
    /\ UNCHANGED <<events, handler, cause, msg, callee, tunnelVars, hupVars, subnetVars, gateway, asked,
                   closing, blocked, proxyRest>>

(* All targets are done; handleConnect calls n.pm.Start.                   *)
UpdatesDone ==
    /\ handler = "updating" /\ todo = Idle
    /\ CASE cause = "connect" /\ pm = Nil ->
              handler' = "crashed" /\ UNCHANGED <<cause, msg, callee, tableVars, socketVars>>
         [] cause = "connect" /\ pm # Nil ->
              handler' = "starting" /\ callee' = pm /\ StartBegin(pm) /\ UNCHANGED <<cause, msg>>
         [] cause = "sync" ->
              handler' = "tail" /\ UNCHANGED <<cause, msg, callee, tableVars, socketVars>>
         [] OTHER -> Return /\ UNCHANGED <<tableVars, socketVars>>
    /\ UNCHANGED <<events, todo, tunnelVars, hupVars, subnetVars, gateway, asked, closing,
                   blocked, proxyRest>>

(* Start at work.                                                          *)
StartStep ==
    /\ handler = "starting"
    /\ StartNext(callee) \/ StartEnd(callee)
    /\ handler' = IF busy'[callee] THEN "starting" ELSE "gateway"
    /\ UNCHANGED <<events, cause, msg, todo, callee, tunnelVars, hupVars, subnetVars, gateway, asked,
                   closing, blocked, proxyRest>>

-----------------------------------------------------------------------------
(* Browser gateway and subnets.                                            *)

(* Can the gateway listen?  On a netstack if there is one; on the host as  *)
(* long as the interface has the tunnel's address.                         *)
CanListenGateway == IF native THEN connected /\ dev # Nil ELSE tun # Nil

(* startBrowserGateway: nothing, if there is a gateway.                    *)
startBrowserGateway(old) ==
    gateway' = IF old # Nil THEN old ELSE IF CanListenGateway THEN made ELSE Nil

(* The end of handleConnect: a gateway is replaced, if the message has     *)
(* targets for one.                                                        *)
ConnectGateway ==
    /\ handler = "gateway"
    /\ IF msg.gateway THEN startBrowserGateway(Nil) ELSE UNCHANGED gateway
    /\ Return
    /\ UNCHANGED <<todo, tunnelVars, hupVars, subnetVars, asked, closing, pmVars>>

(* newt/browsergateway/add.  What it allows is not modelled.               *)
GatewayAdd ==
    /\ Receive
    /\ startBrowserGateway(gateway)
    /\ UNCHANGED <<handlerVars, tunnelVars, hupVars, subnetVars, asked, closing, pmRest>>

(* updateRemoteExitNodeSubnets, with n.dev set.  An interface that was     *)
(* never brought up takes no routes.                                       *)
updateRemoteExitNodeSubnets(ss) ==
    /\ routes' = IF native /\ connected
                    THEN (routes \ (active \ ss)) \cup (ss \ active) ELSE routes
    /\ allowed' = ss
    /\ active' = ss

(* The end of handleSync: subnets, then the gateway.  Clients and health   *)
(* checks are synchronised in ClientService and HealthMonitor.             *)
SyncTail ==
    /\ handler = "tail"
    /\ IF dev # Nil THEN updateRemoteExitNodeSubnets(msg.subnets) ELSE UNCHANGED subnetVars
    /\ IF msg.gateway THEN startBrowserGateway(gateway) ELSE UNCHANGED gateway
    /\ Return
    /\ UNCHANGED <<todo, tunnelVars, hupVars, asked, closing, pmVars>>

(* newt/wg/subnets/update.                                                 *)
SubnetsUpdate(ss) ==
    /\ Receive
    /\ dev # Nil
    /\ updateRemoteExitNodeSubnets(ss)
    /\ UNCHANGED <<handlerVars, tunnelVars, hupVars, gateway, asked, closing, pmRest>>

(* newt/wg/subnets/add.                                                    *)
SubnetsAdd(ss) ==
    /\ Receive
    /\ ss # {} /\ dev # Nil
    /\ allowed' = allowed \cup ss
    /\ routes' = IF native /\ connected THEN routes \cup ss ELSE routes
    /\ active' = active \cup ss
    /\ UNCHANGED <<handlerVars, tunnelVars, hupVars, gateway, asked, closing, pmRest>>

(* newt/wg/subnets/remove, also without a device.                          *)
SubnetsRemove(ss) ==
    /\ Receive
    /\ ss # {}
    /\ routes' = IF native THEN routes \ ss ELSE routes
    /\ active' = active \ ss
    /\ allowed' = IF dev # Nil THEN active' ELSE allowed
    /\ UNCHANGED <<handlerVars, tunnelVars, hupVars, gateway, asked, closing, pmRest>>

-----------------------------------------------------------------------------
(* The SIGHUP goroutine, and the end.                                      *)

(* A reload that changes the block: the new value is stored ...            *)
HupStore ==
    /\ hup = "idle" /\ ~ closing
    /\ Event
    /\ connectionBlocked' = ~ connectionBlocked
    /\ hup' = "apply"
    /\ UNCHANGED <<handlerVars, tunnelVars, currentPM, missed, subnetVars, gateway, asked, closing, pmRest>>

(* ... and applied to the manager that is published, if any.               *)
HupApply ==
    /\ hup = "apply"
    /\ IF currentPM = Nil THEN UNCHANGED blocked ELSE SetBlocked(currentPM, connectionBlocked)
    /\ missed' = ((missed /\ currentPM = Nil) \/ (currentPM = Nil /\ handler = "created"))
    /\ hup' = "idle"
    /\ UNCHANGED <<events, handlerVars, tunnelVars, currentPM, connectionBlocked, subnetVars, gateway,
                   asked, closing, native, tableVars, taken, socketVars, flowVars, connVars>>

(* Close, or a reload with new credentials: the tunnel is closed while a   *)
(* handler may be at work.                                                 *)
Shutdown ==
    /\ Event /\ ~ closing /\ hup = "idle"
    /\ closing' = TRUE
    /\ closeWgTunnel
    /\ UNCHANGED <<handlerVars, made, left, connected, connectionBlocked, hup>>

(* The context ends (Start): device and manager are closed, and left in    *)
(* their fields.                                                           *)
ContextDone ==
    /\ Event /\ ~ closing
    /\ closing' = TRUE
    /\ devices' = devices \ {dev}
    /\ IF pm # Nil THEN Stop(pm) ELSE UNCHANGED <<tableVars, socketVars>>
    /\ UNCHANGED <<handlerVars, made, tun, dev, pm, connected, left, hupVars, subnetVars, gateway, asked,
                   blocked, proxyRest>>

HandlerStep ==
    \/ Build \/ CreatePM \/ Publish
    \/ \E s \in Slots : UpdateRemove(s) \/ UpdateAdd(s)
    \/ UpdatesDone \/ StartStep \/ ConnectGateway \/ SyncTail

ServerStep ==
    \/ \E m \in Contents : Connect(m) \/ Sync(m)
    \/ \E m \in Contents : AddTargets(m.targets, TcpSlots) \/ AddTargets(m.targets, UdpSlots)
    \/ \E ss \in {TcpSlots, UdpSlots} : RemoveTargets(ss)
    \/ \E ss \in SUBSET Subnets : SubnetsUpdate(ss) \/ SubnetsAdd(ss) \/ SubnetsRemove(ss)
    \/ GatewayAdd \/ Disconnect

Next ==
    \/ HandlerStep \/ ServerStep
    \/ HupStore \/ HupApply \/ Shutdown \/ ContextDone
    \/ ProxyStep /\ UNCHANGED siteVars

Spec == Init /\ [][Next]_vars

-----------------------------------------------------------------------------
(* Properties.                                                             *)

(* Every variable keeps its type; the counters of open connections and     *)
(* flows (activeTCP, activeUDP) never fall below zero.                     *)
TypeOK ==
    /\ native \in BOOLEAN
    /\ table \in [Tunnels -> [Slots -> Addrs \cup {NoAddr}]]
    /\ running \in [Tunnels -> BOOLEAN] /\ blocked \in [Tunnels -> BOOLEAN]
    /\ busy \in [Tunnels -> BOOLEAN] /\ strands \in [Tunnels -> BOOLEAN]
    /\ starting \in [Tunnels -> SUBSET Slots] /\ failed \in [Tunnels -> SUBSET Slots]
    /\ taken \subseteq Slots
    /\ socket \in [Listeners -> {"none", "open", "closed"}]
    /\ loop \in [Listeners -> {"none", "read", "write", "delete", "done"}]
    /\ tunnelOf \in [Listeners -> Tunnels \cup {Nil}] /\ slotOf \in [Listeners -> Slots \cup {NoSlot}]
    /\ addrOf \in [Listeners -> Addrs \cup {NoAddr}] /\ early \in [Listeners -> BOOLEAN]
    /\ client \in [Listeners -> Flows \cup {Nil}] /\ writing \in [Listeners -> Flows \cup {Nil}]
    /\ open \subseteq Flows /\ reader \in [Flows -> Listeners \cup {Nil}]
    /\ events \in 0 .. MaxEvent
    /\ conn \in [Conns -> {"none", "dialing", "copying", "failed"}]
    /\ connOf \in [Conns -> Tunnels \cup {Nil}]
    /\ activeTCP \in [Tunnels -> Nat] /\ activeUDP \in [Tunnels -> Nat] /\ uncounted \in [Tunnels -> Nat]
    /\ handler \in {"idle", "closed", "built", "created", "updating", "starting", "gateway", "tail", "crashed"}
    /\ cause \in {"connect", "targets", "sync"} /\ msg \in Lists
    /\ todo \in [Slots -> Work] /\ callee \in Tunnels \cup {Nil}
    /\ made \in 0 .. MaxTunnel /\ {tun, dev, pm, currentPM, gateway} \subseteq Tunnels \cup {Nil}
    /\ devices \subseteq Tunnels /\ left \subseteq Tunnels
    /\ {connected, connectionBlocked, missed} \subseteq BOOLEAN
    /\ hup \in {"idle", "apply"}
    /\ active \subseteq Subnets /\ allowed \subseteq Subnets /\ routes \subseteq Subnets
    /\ asked \in [Slots -> [addr : Addrs \cup {NoAddr}, sync : BOOLEAN]]
    /\ closing \in BOOLEAN

(* What is listened on is what the table says, whatever the order of       *)
(* additions, removals, failures to listen and Stop.  A running manager    *)
(* has one listener for a slot of its table, with the target of the table, *)
(* unless the listen failed, and the goroutine of that listener is alive,  *)
(* unless it met an error before Start had set running.  A manager that is *)
(* not running has listeners only if it is inside Start or its Start       *)
(* failed half way: Stop does not close those.                             *)
ListenersFollowTable ==
    \A g \in Tunnels :
        /\ running[g] => \A s \in Slots :
              /\ table[g][s] = NoAddr \/ s \in failed[g] => Owned(g, s) = {}
              /\ table[g][s] # NoAddr /\ s \notin failed[g] => Cardinality(Owned(g, s)) = 1
              /\ \A l \in Owned(g, s) : loop[l] = "done" => early[l]
        /\ AllOwned(g) # {} => running[g] \/ busy[g] \/ strands[g]
        /\ \A l \in AllOwned(g) : addrOf[l] = table[g][slotOf[l]]

(* No connection and no flow that is open is missing from activeTCP and    *)
(* activeUDP, and none is counted twice, whoever removes it: its reader,   *)
(* the goroutine of its listener, or both at once.  A flow that is no      *)
(* longer mapped is closed, so that its reader ends.  Whether a connection *)
(* whose dial failed, or a flow that the goroutine of the listener removed *)
(* itself, is still counted is left open.                                  *)
FlowsAccounted ==
    \A g \in Tunnels :
        LET mapped == Cardinality({l \in Listeners : client[l] # Nil /\ tunnelOf[l] = g})
            InState(states) == Cardinality({c \in Conns : connOf[c] = g /\ conn[c] \in states})
        IN  /\ InState({"dialing", "copying"}) <= activeTCP[g]
            /\ activeTCP[g] <= InState({"dialing", "copying", "failed"})
            /\ mapped <= activeUDP[g] /\ activeUDP[g] <= mapped + uncounted[g]
            /\ open \subseteq {client[l] : l \in Listeners}

(* Once a reload is applied, the published manager obeys the block, except *)
(* when the change came between the load of the old value and the          *)
(* publication of the manager: that one is missed until the next change.   *)
BlockApplied ==
    hup = "idle" /\ currentPM # Nil /\ ~ missed => blocked[currentPM] = connectionBlocked

(* Between messages the table holds what the server last asked for, as     *)
(* given or as rewritten by the script, through additions, removals and    *)
(* syncs in any order.  Nothing is claimed where handleSync does not go by *)
(* the parser of updateTargets: of a slot for which a sync asked for an    *)
(* IPv6 address, and of a slot it should have cleared but found with an    *)
(* address of the script that does not parse.                              *)
TableAsAsked ==
    handler = "idle" /\ pm # Nil /\ ~ closing =>
        \A s \in Slots :
            LET a == asked[s].addr
                unread == a \in V6 \/ (a = NoAddr /\ table[pm][s] \in Raw)
            IN  \/ asked[s].sync /\ unread
                \/ table[pm][s] \in IF a = NoAddr THEN {NoAddr} ELSE {a, Script[a]}

(* What is open belongs to the tunnel there is: no device but n.dev, and   *)
(* no gateway but on the present netstack, except for what handleConnect   *)
(* left behind on an error; and a connected tunnel allows and routes the   *)
(* subnets newt believes are active, however they were added and removed.  *)
TunnelResources ==
    /\ devices \subseteq {dev} \cup left
    /\ ~ native /\ gateway \notin {Nil, tun} => gateway \in left
    /\ connected /\ ~ closing =>
          /\ dev \in devices /\ allowed = active
          /\ native => routes = active
=============================================================================
