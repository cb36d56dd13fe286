---------------------------- MODULE Site_proofs ----------------------------
(***************************************************************************)
(* Proofs about the proxy managers and the tunnel of the site, for any     *)
(* ports, addresses, script and message contents and any number of         *)
(* tunnels, listeners, flows, connections and events.                      *)
(*                                                                         *)
(* None of the properties of Site is inductive.  What they rest on is the  *)
(* state the handler leaves things in at each of its stages: a manager is  *)
(* untouched until it is published, is started once, and gets a target     *)
(* only on a slot that has just been cleared; a tunnel that does not count *)
(* as connected has no manager and no device but one that was given up.    *)
(***************************************************************************)
EXTENDS Site, TLAPS, FiniteSetTheorems

(* The stages of the handler before the manager is published, and after.   *)
Before == {"closed", "built", "created"}
After == {"updating", "starting", "gateway", "tail"}

-----------------------------------------------------------------------------
(* Types.                                                                  *)

Flags ==
    /\ native \in BOOLEAN /\ connected \in BOOLEAN /\ closing \in BOOLEAN
    /\ events \in 0 .. MaxEvent

TunnelTyped ==
    /\ made \in 0 .. MaxTunnel /\ tun \in {Nil, made} /\ dev \in {Nil, made}
    /\ pm \in {Nil, made} /\ currentPM \in {Nil, pm}
    /\ gateway \in Tunnels \cup {Nil}
    /\ devices \subseteq Tunnels /\ left \subseteq Tunnels
    /\ active \subseteq Subnets /\ allowed \subseteq Subnets /\ routes \subseteq Subnets

HandlerTyped ==
    /\ handler \in {"idle", "crashed"} \cup Before \cup After
    /\ cause \in {"connect", "targets", "sync"} /\ msg \in Lists
    /\ todo \in [Slots -> Work] /\ callee \in {Nil, made}
    /\ asked \in [Slots -> [addr : Addrs \cup {NoAddr}, sync : BOOLEAN]]

BlockTyped ==
    /\ blocked \in [Tunnels -> BOOLEAN]
    /\ connectionBlocked \in BOOLEAN /\ missed \in BOOLEAN
    /\ hup \in {"idle", "apply"}

TableTyped ==
    /\ table \in [Tunnels -> [Slots -> Addrs \cup {NoAddr}]]
    /\ running \in [Tunnels -> BOOLEAN]
    /\ busy \in [Tunnels -> BOOLEAN] /\ strands \in [Tunnels -> BOOLEAN]
    /\ starting \in [Tunnels -> SUBSET Slots] /\ failed \in [Tunnels -> SUBSET Slots]
    /\ taken \subseteq Slots

SocketTyped ==
    /\ socket \in [Listeners -> {"none", "open", "closed"}]
    /\ loop \in [Listeners -> {"none", "read", "write", "delete", "done"}]
    /\ tunnelOf \in [Listeners -> Tunnels \cup {Nil}]
    /\ slotOf \in [Listeners -> Slots \cup {NoSlot}]
    /\ addrOf \in [Listeners -> Addrs \cup {NoAddr}]
    /\ early \in [Listeners -> BOOLEAN]

FlowTyped ==
    /\ client \in [Listeners -> Flows \cup {Nil}] /\ writing \in [Listeners -> Flows \cup {Nil}]
    /\ open \subseteq Flows /\ reader \in [Flows -> Listeners \cup {Nil}]
    /\ activeUDP \in [Tunnels -> Nat] /\ uncounted \in [Tunnels -> Nat]

ConnTyped ==
    /\ conn \in [Conns -> {"none", "dialing", "copying", "failed"}]
    /\ connOf \in [Conns -> Tunnels \cup {Nil}]
    /\ activeTCP \in [Tunnels -> Nat]

-----------------------------------------------------------------------------
(* The tunnel.                                                             *)

(* A handler that publishes a manager has a tunnel number to give; n.pm    *)
(* and n.currentPM are set only while the tunnel counts as connected, or   *)
(* n.pm while handleConnect has yet to publish it.                         *)
Stage ==
    /\ handler = "closed" => made < MaxTunnel
    /\ handler \in {"built", "created"} => made # 0
    /\ handler \in Before => ~ connected
    /\ handler \in After => connected
    /\ ~ connected => currentPM = Nil /\ (handler # "created" => pm = Nil)
    /\ connected /\ ~ closing => pm # Nil

(* Between a disconnect and the next device, what is in the fields is      *)
(* nothing, or what an early return left there.                            *)
Resources ==
    /\ devices \subseteq {dev} \cup left
    /\ ~ native /\ gateway \notin {Nil, tun} => gateway \in left
    /\ ~ connected /\ handler \in {"idle", "closed"} =>
          /\ dev \in devices => dev \in left
          /\ ~ native /\ tun # Nil => tun \in left
    /\ ~ closing /\ (connected \/ handler \in {"built", "created"}) =>
          /\ dev \in devices /\ allowed = active
          /\ native => routes = active

(* The manager that is published, and the one that is about to be, obeys   *)
(* the block, unless a change is being applied or was missed.              *)
BlockKept ==
    hup = "idle" /\ ~ missed =>
        /\ currentPM # Nil => blocked[currentPM] = connectionBlocked
        /\ handler = "created" /\ pm # Nil => blocked[pm] = connectionBlocked

-----------------------------------------------------------------------------
(* The managers.                                                           *)

(* Where updateTargets is.  The manager it works on has been loaded before *)
(* it is used, and a slot that waits for its AddTarget has been cleared.   *)
Updating ==
    /\ handler \in {"idle"} \cup Before => callee = Nil
    /\ handler \in Before => cause = "connect"
    /\ handler = "starting" => callee # Nil /\ busy[callee]
    /\ \A g \in Tunnels : busy[g] => handler = "starting" /\ callee = g
    /\ handler = "updating" =>
        /\ cause = "targets" => callee # Nil
        /\ \A s \in Slots :
            /\ todo[s] \in {"change", "again", "put", "add"} => msg.targets[s] # NoAddr
            /\ todo[s] = "add" =>
                  /\ callee # Nil /\ table[callee][s] = NoAddr
                  /\ s \notin failed[callee] /\ Owned(callee, s) = {}
            /\ cause = "connect" =>
                  /\ todo[s] \in {"none", "put", "add"}
                  /\ msg.targets[s] = NoAddr => todo[s] = "none"
                  /\ msg.targets[s] # NoAddr /\ todo[s] = "none" => callee # Nil

(* A manager that has not been started has nothing but its table, and not  *)
(* even that before it is published.                                       *)
Unstarted(g) ==
    \/ g > made
    \/ g = made /\ (handler \in {"built", "created"} \/ (handler = "updating" /\ cause = "connect"))

Fresh ==
    \A g \in Tunnels :
        /\ Unstarted(g) => ~ running[g] /\ ~ busy[g] /\ ~ strands[g] /\ failed[g] = {}
        /\ g > made \/ (g = made /\ handler \in {"built", "created"}) =>
              table[g] = [s \in Slots |-> NoAddr]

(* A listener and its goroutine.                                           *)
Sockets ==
    \A l \in Listeners :
        /\ (socket[l] = "none") <=> (loop[l] = "none")
        /\ socket[l] # "none" => tunnelOf[l] \in Tunnels /\ slotOf[l] \in Slots
        /\ socket[l] = "closed" => loop[l] # "done"

(* Start: the slots it has still to open have no listener, the others of   *)
(* its table have one.                                                     *)
Starting ==
    \A g \in Tunnels : busy[g] =>
        /\ ~ running[g] /\ failed[g] = {}
        /\ \A s \in Slots :
              /\ s \in starting[g] => table[g][s] # NoAddr
              /\ table[g][s] = NoAddr \/ s \in starting[g] => Owned(g, s) = {}
              /\ table[g][s] # NoAddr /\ s \notin starting[g] => Owned(g, s) # {}
              /\ \A l \in Owned(g, s) : loop[l] = "done" => early[l]

(* A slot of a manager has one listener at most.                           *)
OneListener ==
    \A k, l \in Listeners :
        /\ socket[k] = "open" /\ socket[l] = "open"
        /\ tunnelOf[k] = tunnelOf[l] /\ slotOf[k] = slotOf[l]
        => k = l

(* What a running manager has listeners for, and who has listeners.        *)
Serving ==
    \A g \in Tunnels :
        /\ running[g] => \A s \in Slots :
              /\ table[g][s] = NoAddr \/ s \in failed[g] => Owned(g, s) = {}
              /\ table[g][s] # NoAddr /\ s \notin failed[g] => Owned(g, s) # {}
              /\ \A l \in Owned(g, s) : loop[l] = "done" => early[l]
        /\ AllOwned(g) # {} => running[g] \/ busy[g] \/ strands[g]
        /\ \A l \in AllOwned(g) : addrOf[l] = table[g][slotOf[l]]

(* What a slot may hold that is to be clear: a sync may leave what it      *)
(* cannot parse.                                                           *)
Clear(s) == IF asked[s].sync THEN {NoAddr} \cup Raw ELSE {NoAddr}

(* The addresses the table may hold for a slot, by what was asked.         *)
Right(s) ==
    LET a == asked[s].addr IN
    IF a = NoAddr \/ (asked[s].sync /\ a \in V6) THEN Clear(s) ELSE {a, Script[a]}

(* The table is right where updateTargets is done, and will be where it is *)
(* not.                                                                    *)
Asked ==
    ~ closing =>
        /\ handler \in {"idle", "starting", "gateway", "tail"} /\ pm # Nil =>
              \A s \in Slots : table[pm][s] \in Right(s)
        /\ handler = "updating" => \A s \in Slots :
              /\ todo[s] = "none" => table[pm][s] \in Right(s)
              /\ todo[s] = "remove" => NoAddr \in Right(s) /\ (cause = "sync" => Raw \subseteq Right(s))
              /\ todo[s] \notin {"none", "remove"} =>
                    {msg.targets[s], Script[msg.targets[s]]} \subseteq Right(s)

-----------------------------------------------------------------------------
(* What goes through the listeners.                                        *)

(* A goroutine and the flow it holds.                                      *)
Loops ==
    \A l \in Listeners :
        /\ loop[l] \in {"none", "done"} => client[l] = Nil
        /\ loop[l] \in {"write", "delete"} => client[l] \in {Nil, writing[l]}
        /\ loop[l] = "delete" => writing[l] \notin open

Mapped == \A f \in open : \E l \in Listeners : client[l] = f

Flowing(g) == {l \in Listeners : client[l] # Nil /\ tunnelOf[l] = g}

FlowsCounted == \A g \in Tunnels : activeUDP[g] = uncounted[g] + Cardinality(Flowing(g))

Connecting(g) == {c \in Conns : connOf[c] = g /\ conn[c] \in {"dialing", "copying", "failed"}}

ConnsCounted ==
    /\ \A c \in Conns : conn[c] # "none" => connOf[c] \in Tunnels
    /\ \A g \in Tunnels : activeTCP[g] = Cardinality(Connecting(g))

-----------------------------------------------------------------------------

SiteInv ==
    /\ Flags /\ TunnelTyped /\ HandlerTyped /\ BlockTyped
    /\ TableTyped /\ SocketTyped /\ FlowTyped /\ ConnTyped
    /\ Stage /\ Resources /\ BlockKept
    /\ Sockets /\ Starting /\ OneListener /\ Serving
    /\ Updating /\ Fresh /\ Asked
    /\ Loops /\ Mapped /\ FlowsCounted /\ ConnsCounted

USE SlotsAssumption, ProxyBoundsAssumption, AddrsAssumption, SiteAssumption, ContentsAssumption
    DEF Slots, Tunnels, Listeners, Flows, Conns, Nil, NoAddr, NoSlot, Before, After

-----------------------------------------------------------------------------
(* Frames: what a step of each kind leaves alone.                          *)

(* What the tunnel's part of the invariant speaks of.                      *)
tunnelView == <<native, connected, closing, made, tun, dev, pm, currentPM, gateway, devices, left,
                active, allowed, routes>>

(* The goroutines of the managers touch nothing of it, nor the handler.    *)
LEMMA ProxyFrame ==
  ASSUME ProxyStep, UNCHANGED siteVars
  PROVE  UNCHANGED <<tunnelView, handlerVars, hupVars, asked, blocked, tableVars>>
  <1>1. native' = native /\ blocked' = blocked /\ UNCHANGED tableVars
    BY DEF ProxyStep, LoopEnd, LoopFails, TcpAccept, UdpPacket, UdpWrite, UdpDelete,
           TcpDialFails, TcpDialed, TcpEnds, ReaderEnds, PortTaken
  <1> QED
    BY <1>1 DEF siteVars, tunnelView, tunnelVars, subnetVars, hupVars

(* The calls of updateTargets and Start touch nothing of the tunnel.       *)
LEMMA UpdateFrame ==
  ASSUME \/ \E s \in Slots : UpdateRemove(s) \/ UpdateAdd(s)
         \/ UpdatesDone \/ StartStep
  PROVE  UNCHANGED <<tunnelView, hupVars, asked, blocked, flowVars, connVars, taken, events>>
  BY DEF UpdateRemove, UpdateAdd, UpdatesDone, StartStep, tunnelView, tunnelVars, hupVars,
         subnetVars, proxyRest

(* A message that is taken, other than for the tunnel or the subnets.      *)
LEMMA MessageFrame ==
  ASSUME \/ \E m \in Contents : Sync(m)
         \/ \E m \in Contents : AddTargets(m.targets, TcpSlots) \/ AddTargets(m.targets, UdpSlots)
         \/ \E ss \in {TcpSlots, UdpSlots} : RemoveTargets(ss)
  PROVE  /\ handler = "idle" /\ pm # Nil /\ Event
         /\ handler' = "updating"
         /\ UNCHANGED <<tunnelView, hupVars, pmRest>>
  BY DEF Sync, AddTargets, RemoveTargets, Receive, tunnelView, tunnelVars, hupVars, subnetVars, pmRest


-----------------------------------------------------------------------------
(* The tunnel.                                                             *)

TunnelInv == TunnelTyped /\ Stage /\ Resources

(* A step that leaves the tunnel alone, and the handler where it is or on  *)
(* its way through updateTargets, Start and the gateway.                   *)
LEMMA TunnelFrame ==
  ASSUME TunnelInv, UNCHANGED tunnelView,
         \/ handler' = handler
         \/ handler \in After /\ handler' \in After \cup {"idle", "crashed"}
         \/ handler = "idle" /\ pm # Nil /\ handler' = "updating"
  PROVE  TunnelInv'
  <1>1. TunnelTyped'
    BY DEF TunnelInv, TunnelTyped, tunnelView
  <1>2. Stage'
    BY DEF TunnelInv, Stage, tunnelView
  <1>3. Resources'
    BY DEF TunnelInv, Stage, Resources, tunnelView
  <1> QED
    BY <1>1, <1>2, <1>3 DEF TunnelInv

(* closeWgTunnel, called by a handler or beside one.                       *)
LEMMA CloseTunnel ==
  ASSUME TunnelInv, closeWgTunnel, UNCHANGED <<made, left, native>>
  PROVE  /\ TunnelTyped'
         /\ tun' = Nil /\ dev' = Nil /\ pm' = Nil /\ currentPM' = Nil /\ gateway' = Nil
         /\ devices' \subseteq left' /\ 0 \notin devices'
  BY DEF TunnelInv, TunnelTyped, Resources, closeWgTunnel

(* newt/wg/reconnect and newt/wg/terminate leave a tunnel that does not    *)
(* count as connected, and nothing open but what was given up.             *)
LEMMA DisconnectTunnel ==
  ASSUME TunnelInv, Disconnect
  PROVE  TunnelInv'
  <1>1. closeWgTunnel /\ UNCHANGED <<made, left, native, handler>> /\ handler = "idle" /\ connected' = FALSE
    BY DEF Disconnect, Receive, closeWgTunnel, proxyRest, handlerVars
  <1>2. /\ TunnelTyped'
        /\ tun' = Nil /\ dev' = Nil /\ pm' = Nil /\ currentPM' = Nil /\ gateway' = Nil
        /\ devices' \subseteq left' /\ 0 \notin devices'
    BY <1>1, CloseTunnel
  <1>3. Stage'
    BY <1>1, <1>2 DEF Stage
  <1>4. Resources'
    BY <1>1, <1>2 DEF Resources
  <1> QED
    BY <1>2, <1>3, <1>4 DEF TunnelInv

(* The shutdown may close the tunnel at any stage of a handler: the stages *)
(* after it ask nothing of the fields once closing is set.                 *)
LEMMA ShutdownTunnel ==
  ASSUME TunnelInv, Shutdown
  PROVE  TunnelInv'
  <1>1. closeWgTunnel /\ UNCHANGED <<made, left, native, handler, connected>> /\ closing' = TRUE
    BY DEF Shutdown, closeWgTunnel, proxyRest, handlerVars
  <1>2. /\ TunnelTyped'
        /\ tun' = Nil /\ dev' = Nil /\ pm' = Nil /\ currentPM' = Nil /\ gateway' = Nil
        /\ devices' \subseteq left' /\ 0 \notin devices'
    BY <1>1, CloseTunnel
  <1>3. Stage'
    BY <1>1, <1>2 DEF TunnelInv, Stage
  <1>4. Resources'
    BY <1>1, <1>2 DEF Resources
  <1> QED
    BY <1>2, <1>3, <1>4 DEF TunnelInv

(* handleConnect closes the old tunnel if it counts as connected; else     *)
(* there is nothing in the fields but what an early return left.           *)
LEMMA ConnectTunnel ==
  ASSUME TunnelInv, NEW m \in Contents, Connect(m)
  PROVE  TunnelInv'
  <1>1. /\ UNCHANGED <<made, left, native, closing>> /\ handler = "idle" /\ handler' = "closed"
        /\ connected' = FALSE /\ made < MaxTunnel
    BY DEF Connect, Receive, closeWgTunnel, proxyRest, pmRest
  <1>2. CASE connected
    <2>1. /\ TunnelTyped'
          /\ tun' = Nil /\ dev' = Nil /\ pm' = Nil /\ currentPM' = Nil /\ gateway' = Nil
          /\ devices' \subseteq left' /\ 0 \notin devices'
      BY <1>1, <1>2, CloseTunnel DEF Connect
    <2>2. Stage' /\ Resources'
      BY <1>1, <2>1 DEF Stage, Resources
    <2> QED
      BY <2>1, <2>2 DEF TunnelInv
  <1>3. CASE ~ connected
    <2>1. UNCHANGED <<pm, currentPM, gateway, dev, tun, devices, active, allowed, routes>>
      BY <1>3 DEF Connect, subnetVars
    <2>2. TunnelTyped'
      BY <1>1, <2>1 DEF TunnelInv, TunnelTyped
    <2>3. Stage'
      BY <1>1, <1>3, <2>1 DEF TunnelInv, Stage
    <2>4. Resources'
      BY <1>1, <1>3, <2>1 DEF TunnelInv, Resources
    <2> QED
      BY <2>2, <2>3, <2>4 DEF TunnelInv
  <1> QED
    BY <1>2, <1>3

(* The ends of the middle of handleConnect: no device, a device that is    *)
(* given up, a device that is configured.                                  *)
LEMMA BuildTunnel ==
  ASSUME TunnelInv, HandlerTyped, Build
  PROVE  TunnelInv'
  <1>1. /\ handler = "closed" /\ made < MaxTunnel /\ ~ connected /\ pm = Nil /\ currentPM = Nil
        /\ UNCHANGED <<connected, closing, pm, currentPM, gateway, native>>
    BY DEF Build, TunnelInv, Stage, pmVars
  <1>2. CASE /\ UNCHANGED <<made, dev, devices, left, active, allowed, routes>>
             /\ tun' \in {tun, Nil} /\ handler' \in {"idle", "crashed"}
    <2>1. TunnelTyped'
      BY <1>1, <1>2 DEF TunnelInv, TunnelTyped
    <2>2. Stage'
      BY <1>1, <1>2 DEF Stage
    <2>3. ~ native /\ gateway \notin {Nil, tun'} => gateway \in left
      BY <1>1, <1>2 DEF TunnelInv, Resources
    <2>4. Resources'
      BY <1>1, <1>2, <2>3 DEF TunnelInv, Resources
    <2> QED
      BY <2>1, <2>2, <2>4 DEF TunnelInv
  <1>3. CASE /\ made' = made + 1 /\ tun' = made' /\ dev' = made' /\ devices' = devices \cup {made'}
             /\ \/ /\ handler' = "idle" /\ left' = left \cup {made'}
                   /\ allowed' = {} /\ routes' = {} /\ active' = active
                \/ /\ handler' = "built" /\ left' = left
                   /\ active' = msg.subnets /\ allowed' = msg.subnets
                   /\ routes' = IF native THEN msg.subnets ELSE {}
    <2>1. msg.subnets \subseteq Subnets
      BY DEF HandlerTyped, Lists
    <2>2. made' \in Tunnels
      BY <1>1, <1>3 DEF TunnelInv, TunnelTyped
    <2>3. TunnelTyped'
      <3>1. active' \subseteq Subnets /\ allowed' \subseteq Subnets /\ routes' \subseteq Subnets
        BY <1>3, <2>1 DEF TunnelInv, TunnelTyped
      <3>2. devices' \subseteq Tunnels /\ left' \subseteq Tunnels
        BY <1>3, <2>2 DEF TunnelInv, TunnelTyped
      <3>3. made' \in 0 .. MaxTunnel /\ gateway' \in Tunnels \cup {Nil}
        BY <1>1, <2>2 DEF TunnelInv, TunnelTyped
      <3>4. tun' = made' /\ dev' = made' /\ pm' = Nil /\ currentPM' = Nil
        BY <1>1, <1>3
      <3> QED
        BY <3>1, <3>2, <3>3, <3>4 DEF TunnelTyped
    <2>4. Stage'
      BY <1>1, <1>3, <2>2 DEF TunnelInv, Stage
    <2>5. Resources'
      BY <1>1, <1>3, <2>2 DEF TunnelInv, TunnelTyped, Resources
    <2> QED
      BY <2>3, <2>4, <2>5 DEF TunnelInv
  <1> QED
    BY <1>2, <1>3 DEF Build, Return, subnetVars

(* The manager is made and published; from here on the tunnel counts as    *)
(* connected.                                                              *)
LEMMA PublishTunnel ==
  ASSUME TunnelInv, CreatePM \/ Publish
  PROVE  TunnelInv'
  <1>1. UNCHANGED <<native, closing, made, tun, dev, gateway, devices, left, active, allowed, routes>>
    BY DEF CreatePM, Publish, subnetVars, pmVars
  <1>2. CASE CreatePM
    <2>1. handler = "built" /\ handler' = "created" /\ pm' = made /\ UNCHANGED <<connected, currentPM>>
      BY <1>2 DEF CreatePM
    <2> QED
      BY <1>1, <2>1 DEF TunnelInv, TunnelTyped, Stage, Resources
  <1>3. CASE Publish
    <2>1. /\ handler = "created" /\ pm' = pm
          /\ \/ pm = Nil /\ handler' = "crashed" /\ UNCHANGED <<currentPM, connected>>
             \/ pm # Nil /\ handler' = "updating" /\ currentPM' = pm /\ connected' = TRUE
      BY <1>3 DEF Publish
    <2>2. TunnelTyped'
      BY <1>1, <2>1 DEF TunnelInv, TunnelTyped
    <2>3. Stage'
      BY <1>1, <2>1 DEF TunnelInv, Stage
    <2>4. Resources'
      BY <1>1, <2>1 DEF TunnelInv, Resources
    <2> QED
      BY <2>2, <2>3, <2>4 DEF TunnelInv
  <1> QED
    BY <1>2, <1>3


(* The gateway: on the present netstack, or none.                          *)
LEMMA GatewayTunnel ==
  ASSUME TunnelInv, ConnectGateway \/ GatewayAdd
  PROVE  TunnelInv'
  <1>1. /\ UNCHANGED <<native, connected, closing, made, tun, dev, pm, currentPM, devices, left,
                       active, allowed, routes>>
        /\ handler' = handler \/ (handler \in After /\ handler' = "idle")
    BY DEF ConnectGateway, GatewayAdd, Return, tunnelVars, subnetVars, hupVars, handlerVars, pmVars, pmRest
  <1>2. gateway' = gateway \/ gateway' = Nil \/ (gateway' = made /\ (~ native => tun # Nil))
    BY DEF ConnectGateway, GatewayAdd, startBrowserGateway, CanListenGateway
  <1>3. gateway' \in Tunnels \cup {Nil}
    BY <1>2 DEF TunnelInv, TunnelTyped
  <1>4. TunnelTyped'
    BY <1>1, <1>3 DEF TunnelInv, TunnelTyped
  <1>5. Stage'
    BY <1>1 DEF TunnelInv, Stage
  <1>6. Resources'
    BY <1>1, <1>2 DEF TunnelInv, TunnelTyped, Stage, Resources
  <1> QED
    BY <1>4, <1>5, <1>6 DEF TunnelInv

(* The subnets of a device there is.                                       *)
LEMMA SubnetTunnel ==
  ASSUME TunnelInv,
         \/ \E ss \in SUBSET Subnets : SubnetsUpdate(ss) \/ SubnetsAdd(ss) \/ SubnetsRemove(ss)
  PROVE  TunnelInv'
  <1>1. /\ UNCHANGED <<native, connected, closing, made, tun, dev, pm, currentPM, gateway, devices, left>>
        /\ handler' = handler /\ handler = "idle"
    BY DEF SubnetsUpdate, SubnetsAdd, SubnetsRemove, Receive, tunnelVars, hupVars, handlerVars, pmRest
  <1>2. PICK ss \in SUBSET Subnets : SubnetsUpdate(ss) \/ SubnetsAdd(ss) \/ SubnetsRemove(ss)
    OBVIOUS
  <1>3. active' \subseteq Subnets /\ allowed' \subseteq Subnets /\ routes' \subseteq Subnets
    BY <1>2 DEF SubnetsUpdate, SubnetsAdd, SubnetsRemove, updateRemoteExitNodeSubnets, TunnelInv, TunnelTyped
  <1>4. ASSUME connected, ~ closing PROVE allowed' = active' /\ (native => routes' = active')
    <2>1. allowed = active /\ (native => routes = active) /\ dev # Nil
      BY <1>4 DEF TunnelInv, TunnelTyped, Resources
    <2>2. CASE SubnetsUpdate(ss)
      BY <1>4, <2>1, <2>2 DEF SubnetsUpdate, updateRemoteExitNodeSubnets
    <2>3. CASE SubnetsAdd(ss)
      BY <1>4, <2>1, <2>3 DEF SubnetsAdd
    <2>4. CASE SubnetsRemove(ss)
      BY <1>4, <2>1, <2>4 DEF SubnetsRemove
    <2> QED
      BY <1>2, <2>2, <2>3, <2>4
  <1>5. TunnelTyped'
    BY <1>1, <1>3 DEF TunnelInv, TunnelTyped
  <1>6. Stage'
    BY <1>1 DEF TunnelInv, Stage
  <1>7. Resources'
    BY <1>1, <1>4 DEF TunnelInv, Resources
  <1> QED
    BY <1>5, <1>6, <1>7 DEF TunnelInv

(* The end of handleSync: subnets and gateway in one step.                 *)
LEMMA SyncTailTunnel ==
  ASSUME TunnelInv, HandlerTyped, SyncTail
  PROVE  TunnelInv'
  <1>1. /\ UNCHANGED <<native, connected, closing, made, tun, dev, pm, currentPM, devices, left>>
        /\ handler = "tail" /\ handler' = "idle" /\ connected
    BY DEF SyncTail, Return, tunnelVars, hupVars, pmVars, TunnelInv, Stage
  <1>2. gateway' = gateway \/ gateway' = Nil \/ (gateway' = made /\ (~ native => tun # Nil))
    BY DEF SyncTail, startBrowserGateway, CanListenGateway
  <1>3. msg.subnets \subseteq Subnets
    BY DEF HandlerTyped, Lists
  <1>4. active' \subseteq Subnets /\ allowed' \subseteq Subnets /\ routes' \subseteq Subnets
    BY <1>3 DEF SyncTail, updateRemoteExitNodeSubnets, subnetVars, TunnelInv, TunnelTyped
  <1>5. ASSUME ~ closing PROVE allowed' = active' /\ (native => routes' = active')
    <2>1. dev # Nil /\ allowed = active /\ (native => routes = active)
      BY <1>1, <1>5 DEF TunnelInv, TunnelTyped, Resources
    <2>2. updateRemoteExitNodeSubnets(msg.subnets)
      BY <2>1 DEF SyncTail
    <2> QED
      BY <1>1, <2>1, <2>2 DEF updateRemoteExitNodeSubnets
  <1>6. gateway' \in Tunnels \cup {Nil}
    BY <1>2 DEF TunnelInv, TunnelTyped
  <1>7. TunnelTyped'
    BY <1>1, <1>4, <1>6 DEF TunnelInv, TunnelTyped
  <1>8. Stage'
    BY <1>1 DEF TunnelInv, Stage
  <1>9. Resources'
    BY <1>1, <1>2, <1>5 DEF TunnelInv, TunnelTyped, Resources
  <1> QED
    BY <1>7, <1>8, <1>9 DEF TunnelInv

(* ContextDone closes the device and leaves the fields.                    *)
LEMMA ContextTunnel ==
  ASSUME TunnelInv, ContextDone
  PROVE  TunnelInv'
  <1>1. /\ UNCHANGED <<native, connected, made, tun, dev, pm, currentPM, gateway, left, active, allowed, routes>>
        /\ handler' = handler /\ closing' = TRUE /\ devices' \subseteq devices
    BY DEF ContextDone, handlerVars, hupVars, subnetVars, proxyRest
  <1> QED
    BY <1>1 DEF TunnelInv, TunnelTyped, Stage, Resources

(* No step disturbs the part of the invariant about the tunnel.            *)
LEMMA TunnelStep ==
  ASSUME TunnelInv, HandlerTyped, [Next]_vars
  PROVE  TunnelInv'
  <1>1. CASE Build \/ CreatePM \/ Publish \/ ConnectGateway \/ SyncTail
    BY <1>1, BuildTunnel, PublishTunnel, GatewayTunnel, SyncTailTunnel
  <1>2. CASE (\E s \in Slots : UpdateRemove(s) \/ UpdateAdd(s)) \/ UpdatesDone \/ StartStep
    <2>1. UNCHANGED tunnelView
      BY <1>2, UpdateFrame
    <2>2. handler \in After /\ handler' \in After \cup {"idle", "crashed"}
      BY <1>2 DEF UpdateRemove, UpdateAdd, UpdatesDone, StartStep, Turn, Return
    <2> QED
      BY <2>1, <2>2, TunnelFrame
  <1>3. CASE \E m \in Contents : Connect(m)
    BY <1>3, ConnectTunnel
  <1>4. CASE \/ \E m \in Contents : Sync(m)
             \/ \E m \in Contents : AddTargets(m.targets, TcpSlots) \/ AddTargets(m.targets, UdpSlots)
             \/ \E ss \in {TcpSlots, UdpSlots} : RemoveTargets(ss)
    BY <1>4, MessageFrame, TunnelFrame
  <1>5. CASE \E ss \in SUBSET Subnets : SubnetsUpdate(ss) \/ SubnetsAdd(ss) \/ SubnetsRemove(ss)
    BY <1>5, SubnetTunnel
  <1>6. CASE GatewayAdd \/ Disconnect \/ Shutdown \/ ContextDone
    BY <1>6, GatewayTunnel, DisconnectTunnel, ShutdownTunnel, ContextTunnel
  <1>7. CASE HupStore \/ HupApply
    BY <1>7, TunnelFrame DEF HupStore, HupApply, tunnelView, tunnelVars, subnetVars, handlerVars, pmRest
  <1>8. CASE ProxyStep /\ UNCHANGED siteVars
    BY <1>8, ProxyFrame, TunnelFrame DEF handlerVars
  <1>9. CASE UNCHANGED vars
    BY <1>9, TunnelFrame DEF vars, siteVars, tunnelView, tunnelVars, subnetVars, handlerVars, hupVars, pmVars
  <1> QED
    BY <1>1, <1>2, <1>3, <1>4, <1>5, <1>6, <1>7, <1>8, <1>9 DEF Next, HandlerStep, ServerStep


-----------------------------------------------------------------------------
(* The flags, the bound of the events, and the block.                      *)

(* The flags and the count of events stay in their types.                  *)
LEMMA FlagsStep ==
  ASSUME Flags, [Next]_vars
  PROVE  Flags'
  <1>1. native' = native
    BY ProxyFrame
       DEF Next, HandlerStep, ServerStep, Build, CreatePM, Publish, UpdateRemove, UpdateAdd, UpdatesDone,
           StartStep, ConnectGateway, SyncTail, Connect, Sync, AddTargets, RemoveTargets, SubnetsUpdate,
           SubnetsAdd, SubnetsRemove, GatewayAdd, Disconnect, HupStore, HupApply, Shutdown, ContextDone,
           closeWgTunnel, proxyRest, pmRest, pmVars, vars, tunnelView
  <1>2. closing' = closing \/ closing' = TRUE
    BY DEF Next, HandlerStep, ServerStep, Build, CreatePM, Publish, UpdateRemove, UpdateAdd, UpdatesDone,
           StartStep, ConnectGateway, SyncTail, Connect, Sync, AddTargets, RemoveTargets, SubnetsUpdate,
           SubnetsAdd, SubnetsRemove, GatewayAdd, Disconnect, HupStore, HupApply, Shutdown, ContextDone,
           siteVars, vars
  <1>3. connected' = connected \/ connected' = TRUE \/ connected' = FALSE
    BY DEF Next, HandlerStep, ServerStep, Build, CreatePM, Publish, UpdateRemove, UpdateAdd, UpdatesDone,
           StartStep, ConnectGateway, SyncTail, Connect, Sync, AddTargets, RemoveTargets, SubnetsUpdate,
           SubnetsAdd, SubnetsRemove, GatewayAdd, Disconnect, HupStore, HupApply, Shutdown, ContextDone,
           tunnelVars, siteVars, vars
  <1>4. events' = events \/ Event
    <2>1. ProxyStep => events' = events \/ Event
      BY DEF ProxyStep, LoopEnd, LoopFails, TcpAccept, UdpPacket, UdpWrite, UdpDelete,
             TcpDialFails, TcpDialed, TcpEnds, ReaderEnds, PortTaken
    <2> QED
      BY <2>1
         DEF Next, HandlerStep, ServerStep, Build, CreatePM, Publish, UpdateRemove, UpdateAdd, UpdatesDone,
             StartStep, ConnectGateway, SyncTail, Connect, Sync, AddTargets, RemoveTargets, SubnetsUpdate,
             SubnetsAdd, SubnetsRemove, GatewayAdd, Disconnect, HupStore, HupApply, Shutdown, ContextDone,
             Receive, pmVars, vars
  <1>5. events' \in 0 .. MaxEvent
    BY <1>4 DEF Flags, Event
  <1>6. native' \in BOOLEAN /\ connected' \in BOOLEAN /\ closing' \in BOOLEAN
    BY <1>1, <1>2, <1>3, Zenon DEF Flags
  <1> QED
    BY <1>5, <1>6 DEF Flags

(* What the block's part of the invariant speaks of.                       *)
blockView == <<blocked, connectionBlocked, hup, missed, currentPM, pm>>

(* A step that leaves the block and the managers it concerns alone.        *)
LEMMA BlockFrame ==
  ASSUME BlockTyped, BlockKept, UNCHANGED blockView, handler' # "created" \/ handler' = handler
  PROVE  BlockTyped' /\ BlockKept'
  <1>1. BlockTyped'
    BY DEF BlockTyped, blockView
  <1>2. BlockKept'
    BY DEF BlockKept, blockView
  <1> QED
    BY <1>1, <1>2

(* The tunnel is closed: no manager is published or about to be.           *)
LEMMA BlockClosed ==
  ASSUME BlockTyped, closeWgTunnel, UNCHANGED <<connectionBlocked, hup>>
  PROVE  BlockTyped' /\ BlockKept'
  <1>1. blocked' = blocked /\ missed' = FALSE /\ pm' = Nil /\ currentPM' = Nil
    BY DEF closeWgTunnel
  <1>2. missed' \in BOOLEAN
    BY <1>1, Zenon
  <1> QED
    BY <1>1, <1>2 DEF BlockTyped, BlockKept

(* handleConnect loads the block, and then publishes.                      *)
LEMMA BlockLoaded ==
  ASSUME TunnelInv, BlockTyped, BlockKept, CreatePM \/ Publish
  PROVE  BlockTyped' /\ BlockKept'
  <1>1. CASE CreatePM
    <2>1. /\ handler' = "created" /\ pm' = made /\ missed' = FALSE
          /\ blocked' = [blocked EXCEPT ![made] = connectionBlocked]
          /\ UNCHANGED <<connectionBlocked, hup, currentPM>>
          /\ made \in Tunnels /\ currentPM = Nil
      BY <1>1 DEF CreatePM, SetBlocked, TunnelInv, TunnelTyped, Stage
    <2>2. missed' \in BOOLEAN
      BY <2>1, Zenon
    <2>3. blocked' \in [Tunnels -> BOOLEAN]
      BY <2>1, Zenon DEF BlockTyped
    <2>4. blocked'[made] = connectionBlocked
      BY <2>1 DEF BlockTyped
    <2> QED
      BY <2>1, <2>2, <2>3, <2>4 DEF BlockTyped, BlockKept
  <1>2. CASE Publish
    <2>1. /\ UNCHANGED <<blocked, connectionBlocked, hup, missed, pm>>
          /\ handler = "created" /\ handler' # "created"
          /\ currentPM' = currentPM \/ currentPM' = pm
      BY <1>2 DEF Publish, pmVars
    <2> QED
      BY <2>1 DEF BlockTyped, BlockKept
  <1> QED
    BY <1>1, <1>2

(* A reload stores the value and applies it to the manager that is         *)
(* published; while one is only about to be, the change is missed.         *)
LEMMA BlockReload ==
  ASSUME TunnelInv, BlockTyped, BlockKept, HupStore \/ HupApply
  PROVE  BlockTyped' /\ BlockKept'
  <1>1. CASE HupStore
    <2>1. /\ connectionBlocked' = ~ connectionBlocked /\ hup' = "apply"
          /\ UNCHANGED <<blocked, missed>>
      BY <1>1 DEF HupStore, pmRest
    <2>2. connectionBlocked' \in BOOLEAN
      BY <2>1, Zenon
    <2> QED
      BY <2>1, <2>2 DEF BlockTyped, BlockKept
  <1>2. CASE HupApply
    <2>1. /\ hup' = "idle" /\ UNCHANGED <<connectionBlocked, currentPM, pm, handler>>
          /\ missed' = ((missed /\ currentPM = Nil) \/ (currentPM = Nil /\ handler = "created"))
          /\ currentPM = Nil => blocked' = blocked
          /\ currentPM # Nil => blocked' = [blocked EXCEPT ![currentPM] = connectionBlocked]
      BY <1>2 DEF HupApply, SetBlocked, handlerVars, tunnelVars
    <2>2. missed' \in BOOLEAN
      BY <2>1, Zenon
    <2>3. blocked' \in [Tunnels -> BOOLEAN]
      BY <2>1, Zenon DEF BlockTyped
    <2>4. BlockTyped'
      BY <2>1, <2>2, <2>3 DEF BlockTyped
    <2>5. CASE currentPM = Nil
      <3>1. currentPM' = Nil
        BY <2>1, <2>5
      <3>2. ASSUME ~ missed' PROVE handler' # "created"
        <4>1. handler # "created"
          BY <2>1, <2>5, <3>2, Zenon
        <4> QED
          BY <2>1, <4>1
      <3> QED
        BY <2>4, <3>1, <3>2 DEF BlockKept
    <2>6. CASE currentPM # Nil
      <3>1. currentPM \in Tunnels /\ handler # "created"
        BY <2>6 DEF TunnelInv, TunnelTyped, Stage
      <3>2. blocked'[currentPM] = connectionBlocked
        BY <2>1, <2>6, <3>1 DEF BlockTyped
      <3> QED
        BY <2>1, <2>4, <3>1, <3>2 DEF BlockKept
    <2> QED
      BY <2>4, <2>5, <2>6
  <1> QED
    BY <1>1, <1>2

(* No step disturbs the part of the invariant about the block.             *)
LEMMA BlockStep ==
  ASSUME TunnelInv, BlockTyped, BlockKept, [Next]_vars
  PROVE  BlockTyped' /\ BlockKept'
  <1>1. CASE CreatePM \/ Publish
    BY <1>1, BlockLoaded
  <1>2. CASE HupStore \/ HupApply
    BY <1>2, BlockReload
  <1>3. CASE Disconnect \/ Shutdown
    BY <1>3, BlockClosed DEF Disconnect, Shutdown
  <1>4. CASE ContextDone \/ Build \/ ConnectGateway \/ SyncTail
    BY <1>4, BlockFrame
       DEF ContextDone, Build, ConnectGateway, SyncTail, Return, blockView, hupVars, tunnelVars, handlerVars, pmVars
  <1>5. CASE (\E s \in Slots : UpdateRemove(s) \/ UpdateAdd(s)) \/ UpdatesDone \/ StartStep
    <2>1. UNCHANGED blockView
      BY <1>5, UpdateFrame DEF tunnelView, hupVars, blockView
    <2>2. handler' # "created" \/ handler' = handler
      BY <1>5 DEF UpdateRemove, UpdateAdd, UpdatesDone, StartStep, Return
    <2> QED
      BY <2>1, <2>2, BlockFrame
  <1>6. CASE \E m \in Contents : Connect(m)
    <2>1. PICK m \in Contents : Connect(m)
      BY <1>6
    <2>2. CASE connected
      BY <2>1, <2>2, BlockClosed DEF Connect
    <2>3. CASE ~ connected
      BY <2>1, <2>3, BlockFrame DEF Connect, blockView, pmRest
    <2> QED
      BY <2>2, <2>3
  <1>7. CASE \/ \E m \in Contents : Sync(m)
             \/ \E m \in Contents : AddTargets(m.targets, TcpSlots) \/ AddTargets(m.targets, UdpSlots)
             \/ \E ss \in {TcpSlots, UdpSlots} : RemoveTargets(ss)
    BY <1>7, MessageFrame, BlockFrame DEF blockView, tunnelView, hupVars, pmRest
  <1>8. CASE GatewayAdd \/ \E ss \in SUBSET Subnets : SubnetsUpdate(ss) \/ SubnetsAdd(ss) \/ SubnetsRemove(ss)
    BY <1>8, BlockFrame
       DEF GatewayAdd, SubnetsUpdate, SubnetsAdd, SubnetsRemove, blockView, hupVars, tunnelVars, handlerVars, pmRest
  <1>9. CASE ProxyStep /\ UNCHANGED siteVars
    BY <1>9, ProxyFrame, BlockFrame DEF blockView, tunnelView, hupVars, handlerVars
  <1>10. CASE UNCHANGED vars
    BY <1>10, BlockFrame DEF vars, siteVars, blockView, tunnelVars, handlerVars, hupVars, pmVars
  <1> QED
    BY <1>1, <1>2, <1>3, <1>4, <1>5, <1>6, <1>7, <1>8, <1>9, <1>10 DEF Next, HandlerStep, ServerStep


-----------------------------------------------------------------------------
(* The handler's local variables.                                          *)

(* The message a handler starts from, and forgets to, is a message.        *)
LEMMA EmptyLists == Empty \in Lists
  BY DEF Empty, Lists

(* What handleSync plans for a slot, case by case.                         *)
LEMMA PlanIs ==
  ASSUME NEW want, NEW have
  PROVE  Plan(want, have) = IF want = NoAddr THEN IF have = NoAddr THEN "none" ELSE "remove"
                            ELSE IF have = NoAddr THEN "put"
                            ELSE IF have = want THEN "none" ELSE "change"
  BY DEF Plan

(* A step that leaves them alone.  The number of tunnels changes only      *)
(* before the handler has taken up a manager.                              *)
LEMMA HandlerFrame ==
  ASSUME HandlerTyped, UNCHANGED <<handlerVars, asked>>, made' = made \/ callee = Nil
  PROVE  HandlerTyped'
  BY DEF HandlerTyped, handlerVars

(* A message about targets.                                                *)
LEMMA MessageTyped ==
  ASSUME TunnelInv, HandlerTyped,
         \/ \E m \in Contents : Sync(m)
         \/ \E m \in Contents : AddTargets(m.targets, TcpSlots) \/ AddTargets(m.targets, UdpSlots)
         \/ \E ss \in {TcpSlots, UdpSlots} : RemoveTargets(ss)
  PROVE  HandlerTyped'
  <1>1. made' = made /\ pm \in {Nil, made}
    BY MessageFrame DEF tunnelView, TunnelInv, TunnelTyped
  <1>2. ASSUME NEW m \in Contents, Sync(m) PROVE HandlerTyped'
    <2>1. m \in Lists /\ m.targets \in [Slots -> Addrs \cup {NoAddr}]
      BY DEF Lists
    <2>2. todo' \in [Slots -> Work]
      BY <1>2, PlanIs DEF Sync, Work
    <2>3. asked' \in [Slots -> [addr : Addrs \cup {NoAddr}, sync : BOOLEAN]]
      BY <1>2, <2>1 DEF Sync
    <2> QED
      BY <1>1, <1>2, <2>1, <2>2, <2>3 DEF Sync, HandlerTyped
  <1>3. ASSUME NEW m \in Contents, NEW proto, AddTargets(m.targets, proto) PROVE HandlerTyped'
    <2>1. PICK list : list = m.targets
      OBVIOUS
    <2>2. list \in [Slots -> Addrs \cup {NoAddr}] /\ AddTargets(list, proto)
      BY <1>3, <2>1 DEF Lists
    <2>3. msg' \in Lists
      BY <2>2, EmptyLists DEF AddTargets, Lists
    <2>4. todo' \in [Slots -> Work]
      BY <2>2 DEF AddTargets, Work
    <2>5. asked' \in [Slots -> [addr : Addrs \cup {NoAddr}, sync : BOOLEAN]]
      BY <2>2 DEF AddTargets, HandlerTyped
    <2> QED
      BY <1>1, <2>2, <2>3, <2>4, <2>5 DEF AddTargets, HandlerTyped
  <1>4. ASSUME NEW ss, RemoveTargets(ss) PROVE HandlerTyped'
    <2>1. todo' \in [Slots -> Work]
      BY <1>4 DEF RemoveTargets, Work
    <2>2. asked' \in [Slots -> [addr : Addrs \cup {NoAddr}, sync : BOOLEAN]]
      BY <1>4 DEF RemoveTargets, HandlerTyped
    <2> QED
      BY <1>1, <1>4, <2>1, <2>2, EmptyLists DEF RemoveTargets, HandlerTyped
  <1> QED
    BY <1>2, <1>3, <1>4

(* The steps of a handler.                                                 *)
LEMMA HandlerStepTyped ==
  ASSUME TunnelInv, HandlerTyped, Updating, HandlerStep
  PROVE  HandlerTyped'
  <1>1. CASE Build \/ CreatePM
    BY <1>1, EmptyLists DEF Build, CreatePM, Return, HandlerTyped, Updating
  <1>2. CASE Publish
    <2>1. msg.targets \in [Slots -> Addrs \cup {NoAddr}]
      BY DEF HandlerTyped, Lists
    <2>2. todo' \in [Slots -> Work]
      BY <1>2 DEF Publish, HandlerTyped, Work
    <2>3. asked' \in [Slots -> [addr : Addrs \cup {NoAddr}, sync : BOOLEAN]]
      <3>1. CASE pm = Nil
        BY <1>2, <3>1 DEF Publish, HandlerTyped
      <3>2. CASE pm # Nil
        <4>1. asked' = [s \in Slots |-> [addr |-> msg.targets[s], sync |-> FALSE]]
          BY <1>2, <3>2 DEF Publish
        <4> QED
          BY <2>1, <4>1
      <3> QED
        BY <3>1, <3>2
    <2> QED
      BY <1>2, <2>2, <2>3 DEF Publish, HandlerTyped
  <1>3. ASSUME NEW s \in Slots, UpdateRemove(s) \/ UpdateAdd(s) PROVE HandlerTyped'
    <2>1. made' = made /\ pm \in {Nil, made} /\ asked' = asked
      BY <1>3, UpdateFrame DEF tunnelView, TunnelInv, TunnelTyped
    <2>2. todo' \in [Slots -> Work]
      BY <1>3 DEF UpdateRemove, UpdateAdd, HandlerTyped, Work
    <2> QED
      BY <1>3, <2>1, <2>2 DEF UpdateRemove, UpdateAdd, Turn, HandlerTyped
  <1>4. CASE UpdatesDone \/ StartStep
    <2>1. made' = made /\ pm \in {Nil, made} /\ asked' = asked
      BY <1>4, UpdateFrame DEF tunnelView, TunnelInv, TunnelTyped
    <2> QED
      BY <1>4, <2>1, EmptyLists DEF UpdatesDone, StartStep, Return, HandlerTyped
  <1>5. CASE ConnectGateway \/ SyncTail
    BY <1>5, EmptyLists DEF ConnectGateway, SyncTail, Return, HandlerTyped, tunnelVars
  <1> QED
    BY <1>1, <1>2, <1>3, <1>4, <1>5 DEF HandlerStep

(* No step disturbs the types of what the handler keeps.                   *)
LEMMA HandlerTypedStep ==
  ASSUME TunnelInv, HandlerTyped, Updating, [Next]_vars
  PROVE  HandlerTyped'
  <1>1. CASE HandlerStep
    BY <1>1, HandlerStepTyped
  <1>2. ASSUME closeWgTunnel PROVE asked' \in [Slots -> [addr : Addrs \cup {NoAddr}, sync : BOOLEAN]]
    BY <1>2 DEF closeWgTunnel, Nothing
  <1>3. CASE \E m \in Contents : Connect(m)
    <2>1. PICK m \in Contents : Connect(m)
      BY <1>3
    <2>2. asked' \in [Slots -> [addr : Addrs \cup {NoAddr}, sync : BOOLEAN]]
      BY <1>2, <2>1 DEF Connect, HandlerTyped
    <2> QED
      BY <2>1, <2>2 DEF Connect, HandlerTyped
  <1>4. CASE \/ \E m \in Contents : Sync(m)
             \/ \E m \in Contents : AddTargets(m.targets, TcpSlots) \/ AddTargets(m.targets, UdpSlots)
             \/ \E ss \in {TcpSlots, UdpSlots} : RemoveTargets(ss)
    BY <1>4, MessageTyped
  <1>5. CASE Disconnect \/ Shutdown
    BY <1>2, <1>5 DEF Disconnect, Shutdown, handlerVars, HandlerTyped
  <1>6. CASE \/ GatewayAdd \/ HupStore \/ HupApply \/ ContextDone
             \/ \E ss \in SUBSET Subnets : SubnetsUpdate(ss) \/ SubnetsAdd(ss) \/ SubnetsRemove(ss)
    BY <1>6, HandlerFrame
       DEF GatewayAdd, HupStore, HupApply, ContextDone, SubnetsUpdate, SubnetsAdd, SubnetsRemove, tunnelVars
  <1>7. CASE ProxyStep /\ UNCHANGED siteVars
    BY <1>7, HandlerFrame DEF siteVars, tunnelVars
  <1>8. CASE UNCHANGED vars
    BY <1>8, HandlerFrame DEF vars, siteVars, tunnelVars
  <1> QED
    BY <1>1, <1>3, <1>4, <1>5, <1>6, <1>7, <1>8 DEF Next, ServerStep


-----------------------------------------------------------------------------
(* The listeners.                                                          *)

ListenInv == TableTyped /\ SocketTyped /\ Sockets /\ Starting /\ OneListener /\ Serving

(* The listeners ls are closed; the goroutines of the others stay as they  *)
(* are, or at least do not end.                                            *)
Closes(ls) ==
    \A l \in Listeners :
        /\ (socket'[l] = "open") <=> (socket[l] = "open" /\ l \notin ls)
        /\ socket'[l] = "open" =>
              /\ tunnelOf'[l] = tunnelOf[l] /\ slotOf'[l] = slotOf[l] /\ addrOf'[l] = addrOf[l]
              /\ loop'[l] = "done" => loop[l] = "done" /\ early'[l] = early[l]

(* Listener l is opened for slot s of manager g.                           *)
Opens(l, g, s, a) ==
    /\ socket[l] # "open" /\ socket'[l] = "open" /\ loop'[l] = "read"
    /\ tunnelOf'[l] = g /\ slotOf'[l] = s /\ addrOf'[l] = a
    /\ \A k \in Listeners \ {l} :
          /\ socket'[k] = socket[k] /\ loop'[k] = loop[k] /\ tunnelOf'[k] = tunnelOf[k]
          /\ slotOf'[k] = slotOf[k] /\ addrOf'[k] = addrOf[k] /\ early'[k] = early[k]

(* Release, for listeners that are open (Stop, RemoveTarget) or whose loop *)
(* ends.                                                                   *)
LEMMA Releases ==
  ASSUME SocketTyped, Sockets, NEW ended, NEW ls, Release(ended, ls), ended \subseteq ls,
         ls \subseteq Listeners, \A l \in ls : socket[l] # "none" /\ (loop[l] = "done" => l \in ended)
  PROVE  SocketTyped' /\ Sockets' /\ Closes(ls)
  <1>1. socket' \in [Listeners -> {"none", "open", "closed"}]
    BY DEF Release, SocketTyped
  <1>2. loop' \in [Listeners -> {"none", "read", "write", "delete", "done"}]
    BY DEF Release, SocketTyped
  <1>3. /\ tunnelOf' \in [Listeners -> Tunnels \cup {Nil}]
        /\ slotOf' \in [Listeners -> Slots \cup {NoSlot}]
        /\ addrOf' \in [Listeners -> Addrs \cup {NoAddr}]
    BY DEF Release, SocketTyped
  <1>4. early' \in [Listeners -> BOOLEAN]
    BY DEF Release, SocketTyped
  <1>5. SocketTyped'
    BY <1>1, <1>2, <1>3, <1>4 DEF SocketTyped
  <1>6. ASSUME NEW l \in Listeners, l \in ended
        PROVE  socket'[l] = "none" /\ loop'[l] = "none"
    BY <1>6 DEF Release
  <1>7. ASSUME NEW l \in Listeners, l \notin ended
        PROVE  /\ socket'[l] = IF l \in ls THEN "closed" ELSE socket[l]
               /\ loop'[l] = loop[l] /\ tunnelOf'[l] = tunnelOf[l] /\ slotOf'[l] = slotOf[l]
               /\ addrOf'[l] = addrOf[l] /\ early'[l] = early[l]
    BY <1>7 DEF Release
  <1>8. Sockets'
    BY <1>6, <1>7 DEF Sockets
  <1>9. Closes(ls)
    BY <1>6, <1>7 DEF Closes
  <1> QED
    BY <1>5, <1>8, <1>9

(* Closing a set of open listeners: they are closed or forgotten, and the  *)
(* other listeners are left alone.                                         *)
LEMMA CloseAllCloses ==
  ASSUME SocketTyped, Sockets, NEW ls, CloseAll(ls), ls \subseteq Listeners,
         \A l \in ls : socket[l] = "open"
  PROVE  SocketTyped' /\ Sockets' /\ Closes(ls)
  <1>1. PICK ended : ended = {l \in ls : loop[l] = "done"}
    OBVIOUS
  <1>2. Release(ended, ls)
    BY <1>1 DEF CloseAll
  <1>3. ended \subseteq ls /\ \A l \in ls : socket[l] # "none" /\ (loop[l] = "done" => l \in ended)
    BY <1>1
  <1> QED
    BY <1>2, <1>3, Releases

(* startTarget opens a listener.                                           *)
LEMMA StartOpens ==
  ASSUME SocketTyped, Sockets, NEW g \in Tunnels, NEW s \in Slots, NEW a \in Addrs \cup {NoAddr},
         startTarget(g, s, a)
  PROVE  SocketTyped' /\ Sockets' /\ \E l \in Listeners : socket[l] = "none" /\ Opens(l, g, s, a)
  <1>1. PICK l \in FreeListener :
          /\ socket' = [socket EXCEPT ![l] = "open"]
          /\ loop' = [loop EXCEPT ![l] = "read"]
          /\ tunnelOf' = [tunnelOf EXCEPT ![l] = g]
          /\ slotOf' = [slotOf EXCEPT ![l] = s]
          /\ addrOf' = [addrOf EXCEPT ![l] = a]
          /\ early' = [early EXCEPT ![l] = FALSE]
    BY DEF startTarget
  <1>2. l \in Listeners /\ socket[l] = "none"
    BY <1>1 DEF FreeListener
  <1>3. /\ socket' \in [Listeners -> {"none", "open", "closed"}]
        /\ loop' \in [Listeners -> {"none", "read", "write", "delete", "done"}]
    BY <1>1, <1>2 DEF SocketTyped
  <1>4. /\ tunnelOf' \in [Listeners -> Tunnels \cup {Nil}]
        /\ slotOf' \in [Listeners -> Slots \cup {NoSlot}]
        /\ addrOf' \in [Listeners -> Addrs \cup {NoAddr}]
    BY <1>1, <1>2 DEF SocketTyped
  <1>5. early' \in [Listeners -> BOOLEAN]
    BY <1>1, <1>2, Zenon DEF SocketTyped
  <1>6. Opens(l, g, s, a)
    BY <1>1, <1>2 DEF Opens, SocketTyped
  <1>7. Sockets'
    BY <1>2, <1>6 DEF Opens, Sockets
  <1> QED
    BY <1>2, <1>3, <1>4, <1>5, <1>6, <1>7 DEF SocketTyped

(* Nothing new after a close.                                              *)
LEMMA OneAfterClose ==
  ASSUME OneListener, NEW ls, Closes(ls)
  PROVE  /\ OneListener'
         /\ \A g \in Tunnels : AllOwned(g)' = AllOwned(g) \ ls
         /\ \A g \in Tunnels, s \in Slots : Owned(g, s)' = Owned(g, s) \ ls
  BY DEF OneListener, Closes, Owned, AllOwned

(* A listener opened on a slot that has none is the only one there.        *)
LEMMA OneAfterOpen ==
  ASSUME OneListener, NEW g \in Tunnels, NEW s \in Slots, NEW a, NEW l \in Listeners,
         Opens(l, g, s, a), Owned(g, s) = {}
  PROVE  /\ OneListener'
         /\ AllOwned(g)' = AllOwned(g) \cup {l} /\ Owned(g, s)' = {l}
         /\ \A h \in Tunnels \ {g} : AllOwned(h)' = AllOwned(h)
         /\ \A h \in Tunnels, t \in Slots : h # g \/ t # s => Owned(h, t)' = Owned(h, t)
  BY DEF OneListener, Opens, Owned, AllOwned


(* A step that closes no listener and leaves the managers alone.           *)
LEMMA ListenFrame ==
  ASSUME ListenInv, UNCHANGED tableVars, taken' \subseteq Slots,
         SocketTyped', Sockets', Closes({})
  PROVE  ListenInv'
  <1>1. TableTyped'
    BY DEF ListenInv, TableTyped, tableVars
  <1>2. /\ OneListener'
        /\ \A g \in Tunnels : AllOwned(g)' = AllOwned(g)
        /\ \A g \in Tunnels, s \in Slots : Owned(g, s)' = Owned(g, s)
    <2>1. PICK ls : ls = {}
      OBVIOUS
    <2>2. Closes(ls) /\ OneListener
      BY <2>1 DEF ListenInv
    <2>3. /\ OneListener'
          /\ \A g \in Tunnels : AllOwned(g)' = AllOwned(g) \ ls
          /\ \A g \in Tunnels, s \in Slots : Owned(g, s)' = Owned(g, s) \ ls
      BY <2>2, OneAfterClose
    <2> QED
      BY <2>1, <2>3
  <1>3. ASSUME NEW l \in Listeners, socket'[l] = "open"
        PROVE  /\ slotOf'[l] = slotOf[l] /\ addrOf'[l] = addrOf[l]
               /\ loop'[l] = "done" => loop[l] = "done" /\ early'[l] = early[l]
    BY <1>3 DEF Closes
  <1>4. \A g \in Tunnels : \A l \in AllOwned(g) : l \in Listeners /\ socket'[l] = "open"
    BY DEF Closes, AllOwned
  <1>5. \A g \in Tunnels, s \in Slots : Owned(g, s) \subseteq AllOwned(g)
    BY DEF Owned
  <1>6. Starting'
    BY <1>2, <1>3, <1>4, <1>5 DEF ListenInv, Starting, tableVars
  <1>7. Serving'
    BY <1>2, <1>3, <1>4, <1>5 DEF ListenInv, Serving, tableVars
  <1> QED
    BY <1>1, <1>2, <1>6, <1>7 DEF ListenInv

(* In particular when no listener changes at all.                          *)
LEMMA ListenSame ==
  ASSUME ListenInv, UNCHANGED <<tableVars, socketVars>>, taken' \subseteq Slots
  PROVE  ListenInv'
  <1>1. SocketTyped' /\ Sockets' /\ Closes({})
    BY DEF ListenInv, SocketTyped, Sockets, Closes, socketVars
  <1> QED
    BY <1>1, ListenFrame

(* The steps of the goroutines.                                            *)
LEMMA ListenProxy ==
  ASSUME ListenInv, ProxyStep
  PROVE  ListenInv'
  <1>1. UNCHANGED tableVars /\ taken' \subseteq Slots
    BY DEF ProxyStep, LoopEnd, LoopFails, TcpAccept, UdpPacket, UdpWrite, UdpDelete,
           TcpDialFails, TcpDialed, TcpEnds, ReaderEnds, PortTaken, ListenInv, TableTyped
  <1>2. CASE \/ \E l \in Listeners : TcpAccept(l)
             \/ \E c \in Conns : TcpDialFails(c) \/ TcpDialed(c) \/ TcpEnds(c)
             \/ \E f \in Flows : ReaderEnds(f)
             \/ \E s \in Slots : PortTaken(s)
    <2>1. UNCHANGED socketVars
      BY <1>2 DEF TcpAccept, TcpDialFails, TcpDialed, TcpEnds, ReaderEnds, PortTaken
    <2> QED
      BY <1>1, <2>1, ListenSame
  <1>3. ASSUME NEW l \in Listeners, LoopEnd(l) PROVE ListenInv'
    <2>1. PICK ls : ls = {l}
      OBVIOUS
    <2>2. Release(ls, ls) /\ socket[l] = "closed"
      BY <1>3, <2>1 DEF LoopEnd
    <2>3. SocketTyped' /\ Sockets' /\ Closes(ls)
      BY <2>1, <2>2, Releases DEF ListenInv
    <2>4. Closes({})
      BY <2>1, <2>2, <2>3 DEF Closes
    <2> QED
      BY <1>1, <2>3, <2>4, ListenFrame
  <1>4. ASSUME NEW l \in Listeners, UdpPacket(l) \/ UdpWrite(l) \/ UdpDelete(l) PROVE ListenInv'
    <2>1. /\ UNCHANGED <<socket, tunnelOf, slotOf, addrOf, early>>
          /\ loop[l] \in {"read", "write", "delete"}
          /\ \E w \in {"read", "write", "delete"} : loop' = [loop EXCEPT ![l] = w]
      BY <1>4 DEF UdpPacket, UdpWrite, UdpDelete
    <2>2. SocketTyped'
      BY <2>1 DEF ListenInv, SocketTyped
    <2>3. Sockets' /\ Closes({})
      BY <2>1 DEF ListenInv, SocketTyped, Sockets, Closes
    <2> QED
      BY <1>1, <2>2, <2>3, ListenFrame
  <1>5. ASSUME NEW l \in Listeners, LoopFails(l) PROVE ListenInv'
    <2>1. /\ UNCHANGED <<socket, tunnelOf, slotOf, addrOf>>
          /\ socket[l] = "open" /\ loop[l] = "read" /\ ~ running[tunnelOf[l]]
          /\ loop' = [loop EXCEPT ![l] = "done"]
          /\ early' = [early EXCEPT ![l] = busy[tunnelOf[l]]]
      BY <1>5 DEF LoopFails
    <2>2. tunnelOf[l] \in Tunnels
      BY <2>1 DEF ListenInv, Sockets
    <2>3. early' \in [Listeners -> BOOLEAN]
      BY <2>1, <2>2, Zenon DEF ListenInv, SocketTyped, TableTyped
    <2>4. SocketTyped'
      BY <2>1, <2>3 DEF ListenInv, SocketTyped
    <2>5. Sockets' /\ OneListener'
      BY <2>1 DEF ListenInv, SocketTyped, Sockets, OneListener
    <2>6. /\ \A g \in Tunnels : AllOwned(g)' = AllOwned(g)
          /\ \A g \in Tunnels, s \in Slots : Owned(g, s)' = Owned(g, s)
      BY <2>1 DEF Owned, AllOwned
    <2>7. \A k \in Listeners \ {l} : loop'[k] = loop[k] /\ early'[k] = early[k]
      BY <2>1 DEF ListenInv, SocketTyped
    <2>8. \A g \in Tunnels, s \in Slots : \A k \in Owned(g, s) : k \in Listeners /\ tunnelOf[k] = g
      BY DEF Owned, AllOwned
    <2>9. busy[tunnelOf[l]] => early'[l]
      BY <2>1, Zenon DEF ListenInv, SocketTyped
    <2>10. Starting'
      BY <1>1, <2>6, <2>7, <2>8, <2>9 DEF ListenInv, Starting, tableVars
    <2>11. Serving'
      BY <1>1, <2>1, <2>6, <2>7, <2>8 DEF ListenInv, Serving, tableVars
    <2>12. TableTyped'
      BY <1>1 DEF ListenInv, TableTyped, tableVars
    <2> QED
      BY <2>4, <2>5, <2>10, <2>11, <2>12 DEF ListenInv
  <1> QED
    BY <1>2, <1>3, <1>4, <1>5 DEF ProxyStep


(* Stop closes all listeners, or nothing.                                  *)
LEMMA ListenStop ==
  ASSUME ListenInv, NEW g \in Tunnels, Stop(g), taken' = taken
  PROVE  ListenInv'
  <1>1. PICK ls : ls = IF running[g] THEN AllOwned(g) ELSE {}
    OBVIOUS
  <1>2. /\ ~ busy[g] /\ CloseAll(ls)
        /\ running' = [running EXCEPT ![g] = FALSE]
        /\ UNCHANGED <<table, busy, starting, failed, strands>>
    BY <1>1 DEF Stop
  <1>3. ls \subseteq Listeners /\ \A l \in ls : socket[l] = "open"
    BY <1>1 DEF AllOwned
  <1>4. SocketTyped' /\ Sockets' /\ Closes(ls)
    BY <1>2, <1>3, CloseAllCloses DEF ListenInv
  <1>5. running' \in [Tunnels -> BOOLEAN]
    BY <1>2, Zenon DEF ListenInv, TableTyped
  <1>6. TableTyped'
    BY <1>2, <1>5 DEF ListenInv, TableTyped
  <1>7. /\ OneListener'
        /\ \A h \in Tunnels : AllOwned(h)' = AllOwned(h) \ ls
        /\ \A h \in Tunnels, s \in Slots : Owned(h, s)' = Owned(h, s) \ ls
    BY <1>4, OneAfterClose DEF ListenInv
  <1>8. \A h \in Tunnels \ {g} : AllOwned(h)' = AllOwned(h) /\ \A s \in Slots : Owned(h, s)' = Owned(h, s)
    BY <1>1, <1>7 DEF AllOwned, Owned
  <1>9. \A h \in Tunnels : \A l \in AllOwned(h)' :
           /\ l \in Listeners /\ slotOf'[l] = slotOf[l] /\ addrOf'[l] = addrOf[l]
           /\ loop'[l] = "done" => loop[l] = "done" /\ early'[l] = early[l]
    BY <1>4 DEF Closes, AllOwned
  <1>10. \A h \in Tunnels, s \in Slots : Owned(h, s)' \subseteq AllOwned(h)'
    BY DEF Owned
  <1>11. ~ running'[g] /\ \A h \in Tunnels \ {g} : running'[h] = running[h]
    BY <1>2 DEF ListenInv, TableTyped
  <1>12. Starting'
    BY <1>2, <1>8, <1>9, <1>10, <1>11 DEF ListenInv, Starting
  <1>13. running[g] => AllOwned(g)' = {}
    BY <1>1, <1>7
  <1>14. AllOwned(g)' \subseteq AllOwned(g)
    BY <1>7
  <1>15. Serving'
    <2>1. ASSUME NEW h \in Tunnels, h # g
          PROVE  /\ running'[h] => \A s \in Slots :
                      /\ table'[h][s] = NoAddr \/ s \in failed'[h] => Owned(h, s)' = {}
                      /\ table'[h][s] # NoAddr /\ s \notin failed'[h] => Owned(h, s)' # {}
                      /\ \A l \in Owned(h, s)' : loop'[l] = "done" => early'[l]
                 /\ AllOwned(h)' # {} => running'[h] \/ busy'[h] \/ strands'[h]
                 /\ \A l \in AllOwned(h)' : addrOf'[l] = table'[h][slotOf'[l]]
      BY <1>2, <1>8, <1>9, <1>10, <1>11, <2>1 DEF ListenInv, Serving
    <2>2. AllOwned(g)' # {} => strands'[g]
      BY <1>2, <1>13, <1>14 DEF ListenInv, Serving
    <2>3. \A l \in AllOwned(g)' : addrOf'[l] = table'[g][slotOf'[l]]
      BY <1>2, <1>9, <1>14 DEF ListenInv, Serving
    <2> QED
      BY <1>11, <2>1, <2>2, <2>3 DEF Serving
  <1> QED
    BY <1>4, <1>6, <1>7, <1>12, <1>15 DEF ListenInv

(* RemoveTarget clears a slot.                                             *)
LEMMA ListenRemove ==
  ASSUME ListenInv, NEW g \in Tunnels, NEW s \in Slots, RemoveTarget(g, s), taken' = taken
  PROVE  /\ ListenInv'
         /\ table'[g][s] = NoAddr /\ s \notin failed'[g] /\ Owned(g, s)' = {}
         /\ \A t \in Slots \ {s} : table'[g][t] = table[g][t]
         /\ \A t \in Slots \ {s} : (t \in failed'[g] <=> t \in failed[g]) /\ Owned(g, t)' = Owned(g, t)
         /\ failed'[g] \subseteq failed[g]
         /\ \A h \in Tunnels \ {g} : table'[h] = table[h] /\ failed'[h] = failed[h]
  <1>1. PICK ls : ls = Owned(g, s)
    OBVIOUS
  <1>2. /\ ~ busy[g] /\ CloseAll(ls)
        /\ table' = [table EXCEPT ![g][s] = NoAddr]
        /\ failed' = [failed EXCEPT ![g] = @ \ {s}]
        /\ UNCHANGED <<running, busy, starting, strands>>
    BY <1>1 DEF RemoveTarget
  <1>3. ls \subseteq Listeners /\ \A l \in ls : socket[l] = "open"
    BY <1>1 DEF Owned, AllOwned
  <1>4. SocketTyped' /\ Sockets' /\ Closes(ls)
    BY <1>2, <1>3, CloseAllCloses DEF ListenInv
  <1>5. table' \in [Tunnels -> [Slots -> Addrs \cup {NoAddr}]] /\ failed' \in [Tunnels -> SUBSET Slots]
    BY <1>2 DEF ListenInv, TableTyped
  <1>6. TableTyped'
    BY <1>2, <1>5 DEF ListenInv, TableTyped
  <1>7. /\ table'[g][s] = NoAddr /\ failed'[g] = failed[g] \ {s}
        /\ \A t \in Slots \ {s} : table'[g][t] = table[g][t]
        /\ \A h \in Tunnels \ {g} : table'[h] = table[h] /\ failed'[h] = failed[h]
    BY <1>2 DEF ListenInv, TableTyped
  <1>8. /\ OneListener'
        /\ \A h \in Tunnels : AllOwned(h)' = AllOwned(h) \ ls
        /\ \A h \in Tunnels, t \in Slots : Owned(h, t)' = Owned(h, t) \ ls
    BY <1>4, OneAfterClose DEF ListenInv
  <1>9. /\ \A h \in Tunnels \ {g} : AllOwned(h)' = AllOwned(h) /\ \A t \in Slots : Owned(h, t)' = Owned(h, t)
        /\ \A t \in Slots \ {s} : Owned(g, t)' = Owned(g, t)
        /\ Owned(g, s)' = {} /\ AllOwned(g)' \subseteq AllOwned(g)
    BY <1>1, <1>8 DEF AllOwned, Owned
  <1>10. \A h \in Tunnels : \A l \in AllOwned(h)' :
           /\ l \in Listeners /\ slotOf'[l] = slotOf[l] /\ slotOf[l] \in Slots /\ addrOf'[l] = addrOf[l]
           /\ loop'[l] = "done" => loop[l] = "done" /\ early'[l] = early[l]
    BY <1>4 DEF Closes, AllOwned, ListenInv, Sockets
  <1>11. \A h \in Tunnels, t \in Slots : Owned(h, t)' \subseteq AllOwned(h)'
    BY DEF Owned
  <1>12. \A l \in AllOwned(g)' : slotOf[l] # s
    BY <1>1, <1>8 DEF Owned
  <1>13. Starting'
    BY <1>2, <1>7, <1>9, <1>10, <1>11 DEF ListenInv, Starting
  <1>14. Serving'
    <2>1. ASSUME NEW h \in Tunnels, h # g
          PROVE  /\ running'[h] => \A t \in Slots :
                      /\ table'[h][t] = NoAddr \/ t \in failed'[h] => Owned(h, t)' = {}
                      /\ table'[h][t] # NoAddr /\ t \notin failed'[h] => Owned(h, t)' # {}
                      /\ \A l \in Owned(h, t)' : loop'[l] = "done" => early'[l]
                 /\ AllOwned(h)' # {} => running'[h] \/ busy'[h] \/ strands'[h]
                 /\ \A l \in AllOwned(h)' : addrOf'[l] = table'[h][slotOf'[l]]
      BY <1>2, <1>7, <1>9, <1>10, <1>11, <2>1 DEF ListenInv, Serving
    <2>2. AllOwned(g)' # {} => running'[g] \/ busy'[g] \/ strands'[g]
      BY <1>2, <1>9 DEF ListenInv, Serving
    <2>3. \A l \in AllOwned(g)' : addrOf'[l] = table'[g][slotOf'[l]]
      BY <1>7, <1>9, <1>10, <1>12 DEF ListenInv, Serving
    <2>4. ASSUME running'[g], NEW t \in Slots
          PROVE  /\ table'[g][t] = NoAddr \/ t \in failed'[g] => Owned(g, t)' = {}
                 /\ table'[g][t] # NoAddr /\ t \notin failed'[g] => Owned(g, t)' # {}
                 /\ \A l \in Owned(g, t)' : loop'[l] = "done" => early'[l]
      BY <1>2, <1>7, <1>9, <1>10, <1>11, <2>4 DEF ListenInv, Serving
    <2> QED
      BY <2>1, <2>2, <2>3, <2>4 DEF Serving
  <1> QED
    BY <1>4, <1>6, <1>7, <1>8, <1>9, <1>13, <1>14 DEF ListenInv


(* AddTarget, on a slot that has been cleared.                             *)
LEMMA ListenAdd ==
  ASSUME ListenInv, NEW g \in Tunnels, NEW s \in Slots, NEW a \in Addrs, AddTarget(g, s, a), taken' = taken,
         table[g][s] = NoAddr, s \notin failed[g], Owned(g, s) = {}
  PROVE  /\ ListenInv'
         /\ table'[g][s] = a /\ \A t \in Slots \ {s} : table'[g][t] = table[g][t]
         /\ \A h \in Tunnels \ {g} : table'[h] = table[h] /\ failed'[h] = failed[h]
         /\ failed'[g] \subseteq failed[g] \cup {s}
         /\ ~ running[g] => failed'[g] = failed[g]
         /\ \A t \in Slots \ {s} : Owned(g, t)' = Owned(g, t)
  <1>1. /\ ~ busy[g] /\ table' = [table EXCEPT ![g][s] = a]
        /\ UNCHANGED <<running, busy, starting, strands>>
        /\ \/ running[g] /\ startTarget(g, s, a) /\ failed' = failed
           \/ running[g] /\ failed' = [failed EXCEPT ![g] = @ \cup {s}] /\ UNCHANGED socketVars
           \/ ~ running[g] /\ failed' = failed /\ UNCHANGED socketVars
    BY DEF AddTarget
  <1>2. table' \in [Tunnels -> [Slots -> Addrs \cup {NoAddr}]] /\ failed' \in [Tunnels -> SUBSET Slots]
    <2>1. table' \in [Tunnels -> [Slots -> Addrs \cup {NoAddr}]]
      BY <1>1 DEF ListenInv, TableTyped
    <2>2. failed' = failed \/ failed' = [failed EXCEPT ![g] = @ \cup {s}]
      BY <1>1
    <2>3. failed \in [Tunnels -> SUBSET Slots] /\ failed[g] \cup {s} \in SUBSET Slots
      BY DEF ListenInv, TableTyped
    <2>4. failed' \in [Tunnels -> SUBSET Slots]
      BY <2>2, <2>3
    <2> QED
      BY <2>1, <2>4
  <1>3. TableTyped'
    BY <1>1, <1>2 DEF ListenInv, TableTyped
  <1>4. /\ table'[g][s] = a /\ \A t \in Slots \ {s} : table'[g][t] = table[g][t]
        /\ \A h \in Tunnels \ {g} : table'[h] = table[h] /\ failed'[h] = failed[h]
    BY <1>1 DEF ListenInv, TableTyped
  <1>5. \A h \in Tunnels : \A l \in AllOwned(h) : l \in Listeners /\ tunnelOf[l] = h /\ slotOf[l] \in Slots
    BY DEF AllOwned, ListenInv, Sockets
  <1>6. \A h \in Tunnels, t \in Slots : Owned(h, t) \subseteq AllOwned(h)
    BY DEF Owned
  <1>7. \A l \in AllOwned(g) : slotOf[l] # s
    BY DEF Owned
  <1>8. CASE UNCHANGED socketVars
    <2>1. \/ running[g] /\ failed'[g] = failed[g] \cup {s}
          \/ running[g] /\ startTarget(g, s, a) /\ failed' = failed
          \/ ~ running[g] /\ failed'[g] = failed[g]
      BY <1>1 DEF ListenInv, TableTyped
    <2>2. ~ (running[g] /\ startTarget(g, s, a))
      <3>1. SUFFICES ASSUME startTarget(g, s, a) PROVE FALSE
        OBVIOUS
      <3>2. PICK l \in Listeners : socket[l] = "none" /\ Opens(l, g, s, a)
        BY <3>1, StartOpens DEF ListenInv
      <3> QED
        BY <1>8, <3>2 DEF Opens, socketVars
    <2>3. /\ \A h \in Tunnels : AllOwned(h)' = AllOwned(h)
          /\ \A h \in Tunnels, t \in Slots : Owned(h, t)' = Owned(h, t)
      BY <1>8 DEF AllOwned, Owned, socketVars
    <2>4. SocketTyped' /\ Sockets' /\ OneListener'
      BY <1>8 DEF ListenInv, SocketTyped, Sockets, OneListener, socketVars
    <2>5. Starting'
      BY <1>1, <1>4, <1>8, <2>3 DEF ListenInv, Starting, socketVars
    <2>6. ASSUME NEW h \in Tunnels, running'[h], NEW t \in Slots
          PROVE  /\ table'[h][t] = NoAddr \/ t \in failed'[h] => Owned(h, t)' = {}
                 /\ table'[h][t] # NoAddr /\ t \notin failed'[h] => Owned(h, t)' # {}
                 /\ \A l \in Owned(h, t)' : loop'[l] = "done" => early'[l]
      BY <1>1, <1>4, <1>8, <2>1, <2>2, <2>3, <2>6 DEF ListenInv, Serving, socketVars
    <2>7. ASSUME NEW h \in Tunnels
          PROVE  /\ AllOwned(h)' # {} => running'[h] \/ busy'[h] \/ strands'[h]
                 /\ \A l \in AllOwned(h)' : addrOf'[l] = table'[h][slotOf'[l]]
      BY <1>1, <1>4, <1>5, <1>7, <1>8, <2>3 DEF ListenInv, Serving, socketVars
    <2>8. Serving'
      BY <2>6, <2>7 DEF Serving
    <2> QED
      BY <1>3, <1>4, <2>1, <2>2, <2>3, <2>4, <2>5, <2>8 DEF ListenInv
  <1>9. CASE running[g] /\ startTarget(g, s, a) /\ failed' = failed
    <2>1. SocketTyped' /\ Sockets' /\ \E l \in Listeners : socket[l] = "none" /\ Opens(l, g, s, a)
      BY <1>9, StartOpens DEF ListenInv
    <2>2. PICK l \in Listeners : socket[l] = "none" /\ Opens(l, g, s, a)
      BY <2>1
    <2>3. /\ OneListener'
          /\ AllOwned(g)' = AllOwned(g) \cup {l} /\ Owned(g, s)' = {l}
          /\ \A h \in Tunnels \ {g} : AllOwned(h)' = AllOwned(h)
          /\ \A h \in Tunnels, t \in Slots : h # g \/ t # s => Owned(h, t)' = Owned(h, t)
      BY <2>2, OneAfterOpen DEF ListenInv
    <2>4. /\ loop'[l] = "read" /\ addrOf'[l] = a /\ slotOf'[l] = s
          /\ \A h \in Tunnels : \A k \in AllOwned(h) :
                slotOf'[k] = slotOf[k] /\ addrOf'[k] = addrOf[k] /\ loop'[k] = loop[k] /\ early'[k] = early[k]
      BY <2>2 DEF Opens, AllOwned
    <2>5. Starting'
      BY <1>1, <1>4, <1>6, <1>9, <2>3, <2>4 DEF ListenInv, Starting
    <2>6. ASSUME NEW h \in Tunnels, running'[h], NEW t \in Slots, h # g \/ t # s
          PROVE  /\ table'[h][t] = NoAddr \/ t \in failed'[h] => Owned(h, t)' = {}
                 /\ table'[h][t] # NoAddr /\ t \notin failed'[h] => Owned(h, t)' # {}
                 /\ \A k \in Owned(h, t)' : loop'[k] = "done" => early'[k]
      BY <1>1, <1>4, <1>6, <1>9, <2>3, <2>4, <2>6 DEF ListenInv, Serving
    <2>7. /\ table'[g][s] # NoAddr /\ s \notin failed'[g] /\ Owned(g, s)' # {}
          /\ \A k \in Owned(g, s)' : loop'[k] # "done"
      BY <1>4, <1>9, <2>3, <2>4
    <2>8. ASSUME NEW h \in Tunnels
          PROVE  /\ AllOwned(h)' # {} => running'[h] \/ busy'[h] \/ strands'[h]
                 /\ \A k \in AllOwned(h)' : addrOf'[k] = table'[h][slotOf'[k]]
      BY <1>1, <1>4, <1>5, <1>7, <1>9, <2>3, <2>4 DEF ListenInv, Serving
    <2>9. Serving'
      BY <2>6, <2>7, <2>8 DEF Serving
    <2> QED
      BY <1>3, <1>4, <1>9, <2>1, <2>3, <2>5, <2>9 DEF ListenInv
  <1> QED
    BY <1>1, <1>8, <1>9


(* Start takes the mutex, on a manager that has no listener yet.           *)
LEMMA ListenStartBegin ==
  ASSUME ListenInv, NEW g \in Tunnels, StartBegin(g), taken' = taken, ~ strands[g], failed[g] = {}
  PROVE  ListenInv' /\ busy'[g] /\ \A h \in Tunnels \ {g} : busy'[h] = busy[h]
  <1>1. /\ ~ busy[g] /\ ~ running[g]
        /\ busy' = [busy EXCEPT ![g] = TRUE]
        /\ starting' = [starting EXCEPT ![g] = {s \in Slots : table[g][s] # NoAddr}]
        /\ UNCHANGED <<table, running, failed, strands, socketVars>>
    BY DEF StartBegin
  <1>2. busy' \in [Tunnels -> BOOLEAN]
    BY <1>1, Zenon DEF ListenInv, TableTyped
  <1>3. starting' \in [Tunnels -> SUBSET Slots]
    BY <1>1 DEF ListenInv, TableTyped
  <1>4. TableTyped'
    BY <1>1, <1>2, <1>3 DEF ListenInv, TableTyped
  <1>5. SocketTyped' /\ Sockets' /\ OneListener'
    BY <1>1 DEF ListenInv, SocketTyped, Sockets, OneListener, socketVars
  <1>6. /\ \A h \in Tunnels : AllOwned(h)' = AllOwned(h)
        /\ \A h \in Tunnels, t \in Slots : Owned(h, t)' = Owned(h, t)
    BY <1>1 DEF AllOwned, Owned, socketVars
  <1>7. busy'[g]
    BY <1>1, Zenon DEF ListenInv, TableTyped
  <1>8. /\ starting'[g] = {s \in Slots : table[g][s] # NoAddr}
        /\ \A h \in Tunnels \ {g} : busy'[h] = busy[h] /\ starting'[h] = starting[h]
    BY <1>1 DEF ListenInv, TableTyped
  <1>9. AllOwned(g) = {} /\ \A t \in Slots : Owned(g, t) = {}
    BY <1>1 DEF ListenInv, Serving, Owned
  <1>10. Starting'
    BY <1>1, <1>6, <1>8, <1>9 DEF ListenInv, Starting, socketVars
  <1>11. Serving'
    BY <1>1, <1>6, <1>7, <1>8, <1>9 DEF ListenInv, Serving, socketVars
  <1> QED
    BY <1>4, <1>5, <1>7, <1>8, <1>10, <1>11 DEF ListenInv

(* Start opens the listener of a slot, or gives up and strands the others. *)
LEMMA ListenStartNext ==
  ASSUME ListenInv, NEW g \in Tunnels, StartNext(g), taken' = taken
  PROVE  ListenInv' /\ \A h \in Tunnels \ {g} : busy'[h] = busy[h]
  <1>1. PICK s \in starting[g] :
          \/ /\ startTarget(g, s, table[g][s])
             /\ starting' = [starting EXCEPT ![g] = @ \ {s}]
             /\ UNCHANGED <<busy, strands>>
          \/ /\ starting' = [starting EXCEPT ![g] = {}]
             /\ busy' = [busy EXCEPT ![g] = FALSE]
             /\ strands' = [strands EXCEPT ![g] = TRUE]
             /\ UNCHANGED socketVars
    BY DEF StartNext
  <1>2. busy[g] /\ UNCHANGED <<table, running, failed>>
    BY DEF StartNext
  <1>3. s \in Slots /\ table[g][s] \in Addrs /\ Owned(g, s) = {}
    BY <1>1, <1>2 DEF ListenInv, TableTyped, Starting
  <1>4. starting' \in [Tunnels -> SUBSET Slots]
    <2>1. PICK ss : /\ ss = {} \/ ss = starting[g] \ {s}
                    /\ starting' = [starting EXCEPT ![g] = ss]
      BY <1>1
    <2>2. starting \in [Tunnels -> SUBSET Slots] /\ ss \in SUBSET Slots
      BY <2>1 DEF ListenInv, TableTyped
    <2> QED
      BY <2>1, <2>2
  <1>5. CASE /\ starting' = [starting EXCEPT ![g] = {}]
             /\ busy' = [busy EXCEPT ![g] = FALSE]
             /\ strands' = [strands EXCEPT ![g] = TRUE]
             /\ UNCHANGED socketVars
    <2>1. /\ starting' = [starting EXCEPT ![g] = {}]
          /\ busy' = [busy EXCEPT ![g] = FALSE]
          /\ strands' = [strands EXCEPT ![g] = TRUE]
          /\ UNCHANGED socketVars
      BY <1>5
    <2>2. busy' \in [Tunnels -> BOOLEAN] /\ strands' \in [Tunnels -> BOOLEAN]
      BY <2>1, Zenon DEF ListenInv, TableTyped
    <2>3. TableTyped'
      BY <1>2, <1>4, <2>2 DEF ListenInv, TableTyped
    <2>4. SocketTyped' /\ Sockets' /\ OneListener'
      BY <2>1 DEF ListenInv, SocketTyped, Sockets, OneListener, socketVars
    <2>5. /\ \A h \in Tunnels : AllOwned(h)' = AllOwned(h)
          /\ \A h \in Tunnels, t \in Slots : Owned(h, t)' = Owned(h, t)
      BY <2>1 DEF AllOwned, Owned, socketVars
    <2>6. ~ busy'[g] /\ strands'[g]
      BY <2>1, Zenon DEF ListenInv, TableTyped
    <2>7. \A h \in Tunnels \ {g} : busy'[h] = busy[h] /\ starting'[h] = starting[h] /\ strands'[h] = strands[h]
      BY <2>1 DEF ListenInv, TableTyped
    <2>8. Starting'
      BY <1>2, <2>1, <2>5, <2>6, <2>7 DEF ListenInv, Starting, socketVars
    <2>9. Serving'
      BY <1>2, <2>1, <2>5, <2>6, <2>7 DEF ListenInv, Serving, Starting, socketVars
    <2> QED
      BY <2>3, <2>4, <2>7, <2>8, <2>9 DEF ListenInv
  <1>6. CASE /\ startTarget(g, s, table[g][s])
             /\ starting' = [starting EXCEPT ![g] = @ \ {s}]
             /\ UNCHANGED <<busy, strands>>
    <2>1. /\ startTarget(g, s, table[g][s])
          /\ starting' = [starting EXCEPT ![g] = @ \ {s}]
          /\ UNCHANGED <<busy, strands>>
      BY <1>6
    <2>2. PICK a : a = table[g][s]
      OBVIOUS
    <2>3. a \in Addrs /\ startTarget(g, s, a)
      BY <1>3, <2>1, <2>2
    <2>4. SocketTyped' /\ Sockets' /\ \E l \in Listeners : socket[l] = "none" /\ Opens(l, g, s, a)
      BY <1>3, <2>3, StartOpens DEF ListenInv
    <2>5. PICK l \in Listeners : socket[l] = "none" /\ Opens(l, g, s, a)
      BY <2>4
    <2>6. /\ OneListener'
          /\ AllOwned(g)' = AllOwned(g) \cup {l} /\ Owned(g, s)' = {l}
          /\ \A h \in Tunnels \ {g} : AllOwned(h)' = AllOwned(h)
          /\ \A h \in Tunnels, t \in Slots : h # g \/ t # s => Owned(h, t)' = Owned(h, t)
      BY <1>3, <2>5, OneAfterOpen DEF ListenInv
    <2>7. /\ loop'[l] = "read" /\ addrOf'[l] = a /\ slotOf'[l] = s
          /\ \A h \in Tunnels : \A k \in AllOwned(h) :
                slotOf'[k] = slotOf[k] /\ addrOf'[k] = addrOf[k] /\ loop'[k] = loop[k] /\ early'[k] = early[k]
      BY <2>5 DEF Opens, AllOwned
    <2>8. TableTyped'
      BY <1>2, <1>4, <2>1 DEF ListenInv, TableTyped
    <2>9. starting'[g] = starting[g] \ {s} /\ \A h \in Tunnels \ {g} : starting'[h] = starting[h]
      BY <2>1 DEF ListenInv, TableTyped
    <2>10. \A h \in Tunnels, t \in Slots : Owned(h, t) \subseteq AllOwned(h)
      BY DEF Owned
    <2>11. ASSUME NEW h \in Tunnels, busy'[h], NEW t \in Slots
           PROVE  /\ ~ running'[h] /\ failed'[h] = {}
                  /\ t \in starting'[h] => table'[h][t] # NoAddr
                  /\ table'[h][t] = NoAddr \/ t \in starting'[h] => Owned(h, t)' = {}
                  /\ table'[h][t] # NoAddr /\ t \notin starting'[h] => Owned(h, t)' # {}
                  /\ \A k \in Owned(h, t)' : loop'[k] = "done" => early'[k]
      <3>1. CASE h = g /\ t = s
        BY <1>2, <1>3, <2>1, <2>6, <2>7, <2>9, <2>11, <3>1 DEF ListenInv, Starting
      <3>2. CASE h # g \/ t # s
        BY <1>2, <2>1, <2>6, <2>7, <2>9, <2>10, <2>11, <3>2 DEF ListenInv, Starting
      <3> QED
        BY <3>1, <3>2
    <2>12. ASSUME NEW h \in Tunnels, busy'[h] PROVE ~ running'[h] /\ failed'[h] = {}
      BY <1>2, <2>1, <2>12 DEF ListenInv, Starting
    <2>13. Starting'
      BY <2>11, <2>12 DEF Starting
    <2>14. ~ running[g]
      BY <1>2 DEF ListenInv, Starting
    <2>15. Serving'
      BY <1>2, <2>1, <2>2, <2>6, <2>7, <2>10, <2>14 DEF ListenInv, Serving
    <2> QED
      BY <2>1, <2>4, <2>6, <2>8, <2>13, <2>15 DEF ListenInv
  <1> QED
    BY <1>1, <1>5, <1>6

(* Start sets running, with a listener for every slot of the table.        *)
LEMMA ListenStartEnd ==
  ASSUME ListenInv, NEW g \in Tunnels, StartEnd(g), taken' = taken
  PROVE  ListenInv' /\ ~ busy'[g] /\ \A h \in Tunnels \ {g} : busy'[h] = busy[h]
  <1>1. /\ busy[g] /\ starting[g] = {}
        /\ running' = [running EXCEPT ![g] = TRUE]
        /\ busy' = [busy EXCEPT ![g] = FALSE]
        /\ UNCHANGED <<table, starting, failed, strands, socketVars>>
    BY DEF StartEnd
  <1>2. busy' \in [Tunnels -> BOOLEAN] /\ running' \in [Tunnels -> BOOLEAN]
    BY <1>1, Zenon DEF ListenInv, TableTyped
  <1>3. TableTyped'
    BY <1>1, <1>2 DEF ListenInv, TableTyped
  <1>4. SocketTyped' /\ Sockets' /\ OneListener'
    BY <1>1 DEF ListenInv, SocketTyped, Sockets, OneListener, socketVars
  <1>5. /\ \A h \in Tunnels : AllOwned(h)' = AllOwned(h)
        /\ \A h \in Tunnels, t \in Slots : Owned(h, t)' = Owned(h, t)
    BY <1>1 DEF AllOwned, Owned, socketVars
  <1>6. ~ busy'[g] /\ running'[g]
    BY <1>1, Zenon DEF ListenInv, TableTyped
  <1>7. \A h \in Tunnels \ {g} : busy'[h] = busy[h] /\ running'[h] = running[h]
    BY <1>1 DEF ListenInv, TableTyped
  <1>8. Starting'
    BY <1>1, <1>5, <1>6, <1>7 DEF ListenInv, Starting, socketVars
  <1>9. Serving'
    BY <1>1, <1>5, <1>6, <1>7 DEF ListenInv, Serving, Starting, socketVars
  <1> QED
    BY <1>3, <1>4, <1>6, <1>7, <1>8, <1>9 DEF ListenInv


-----------------------------------------------------------------------------
(* The handler and the managers.                                           *)

ManagerInv == ListenInv /\ Updating /\ Fresh /\ Asked

(* The steps of the goroutines open and close no listener.                 *)
LEMMA ProxyOwned ==
  ASSUME ListenInv, ProxyStep
  PROVE  \A g \in Tunnels, s \in Slots : Owned(g, s)' = Owned(g, s)
  <1>1. ASSUME NEW l \in Listeners, LoopEnd(l)
        PROVE  \A g \in Tunnels, s \in Slots : Owned(g, s)' = Owned(g, s)
    <2>1. socket[l] = "closed" /\ socket'[l] = "none"
      BY <1>1 DEF LoopEnd, Release
    <2>2. \A k \in Listeners \ {l} : socket'[k] = socket[k] /\ tunnelOf'[k] = tunnelOf[k] /\ slotOf'[k] = slotOf[k]
      BY <1>1 DEF LoopEnd, Release
    <2> QED
      BY <2>1, <2>2 DEF Owned, AllOwned
  <1>2. CASE ~ \E l \in Listeners : LoopEnd(l)
    <2>1. UNCHANGED <<socket, tunnelOf, slotOf>>
      BY <1>2 DEF ProxyStep, LoopFails, TcpAccept, UdpPacket, UdpWrite, UdpDelete,
             TcpDialFails, TcpDialed, TcpEnds, ReaderEnds, PortTaken, socketVars
    <2> QED
      BY <2>1 DEF Owned, AllOwned
  <1> QED
    BY <1>1, <1>2

(* A step that leaves the handler where it is and the tables as they are;  *)
(* listeners may be closed, and managers stopped.                          *)
LEMMA ManagerFrame ==
  ASSUME TunnelInv, HandlerTyped, Updating, Fresh, Asked,
         UNCHANGED <<handlerVars, made, table, busy, failed, strands>>,
         \A g \in Tunnels : running'[g] => running[g],
         \A g \in Tunnels, s \in Slots : Owned(g, s)' \subseteq Owned(g, s),
         closing' \/ UNCHANGED <<closing, pm, asked>>
  PROVE  Updating' /\ Fresh' /\ Asked'
  <1>1. callee \in Tunnels \cup {Nil}
    BY DEF HandlerTyped, TunnelInv, TunnelTyped
  <1>2. Updating'
    BY <1>1 DEF Updating, handlerVars
  <1>3. Fresh'
    BY DEF Fresh, Unstarted, handlerVars
  <1>4. Asked'
    <2>1. CASE closing'
      BY <2>1 DEF Asked
    <2>2. CASE UNCHANGED <<closing, pm, asked>>
      <3>1. \A s \in Slots : Right(s)' = Right(s)
        BY <2>2 DEF Right, Clear
      <3> QED
        BY <2>2, <3>1 DEF Asked, handlerVars
    <2> QED
      BY <2>1, <2>2
  <1> QED
    BY <1>2, <1>3, <1>4

(* A step that leaves the managers and the handler alone.                  *)
LEMMA ManagerSame ==
  ASSUME TunnelInv, HandlerTyped, ManagerInv,
         UNCHANGED <<handlerVars, made, pm, asked, closing, tableVars, socketVars>>, taken' \subseteq Slots
  PROVE  ManagerInv'
  <1>1. ListenInv'
    BY ListenSame DEF ManagerInv
  <1>2. \A g \in Tunnels, s \in Slots : Owned(g, s)' = Owned(g, s)
    BY DEF Owned, AllOwned, socketVars
  <1>3. Updating' /\ Fresh' /\ Asked'
    BY <1>2, ManagerFrame DEF ManagerInv, tableVars
  <1> QED
    BY <1>1, <1>3 DEF ManagerInv

(* The tunnel is closed: its manager is stopped, if there is one.          *)
LEMMA StopsManager ==
  ASSUME TunnelInv, ListenInv, taken' = taken,
         IF pm # Nil THEN Stop(pm) ELSE UNCHANGED <<tableVars, socketVars>>
  PROVE  /\ ListenInv' /\ UNCHANGED <<table, busy, failed, strands>>
         /\ \A g \in Tunnels : running'[g] => running[g]
         /\ \A g \in Tunnels, s \in Slots : Owned(g, s)' \subseteq Owned(g, s)
  <1>1. CASE pm = Nil
    <2>1. UNCHANGED <<tableVars, socketVars>> /\ taken' \subseteq Slots
      BY <1>1 DEF ListenInv, TableTyped
    <2>2. \A g \in Tunnels, s \in Slots : Owned(g, s)' = Owned(g, s)
      BY <2>1 DEF Owned, AllOwned, socketVars
    <2> QED
      BY <2>1, <2>2, ListenSame DEF tableVars
  <1>2. CASE pm # Nil
    <2>1. Stop(pm) /\ pm \in Tunnels
      BY <1>2 DEF TunnelInv, TunnelTyped
    <2>2. ListenInv'
      BY <2>1, ListenStop
    <2>3. /\ UNCHANGED <<table, busy, failed, strands>>
          /\ running' = [running EXCEPT ![pm] = FALSE]
      BY <2>1 DEF Stop
    <2>4. \A g \in Tunnels : running'[g] => running[g]
      BY <2>3 DEF ListenInv, TableTyped
    <2>5. PICK ls : ls = IF running[pm] THEN AllOwned(pm) ELSE {}
      OBVIOUS
    <2>6. CloseAll(ls) /\ ls \subseteq Listeners /\ \A l \in ls : socket[l] = "open"
      BY <2>1, <2>5 DEF Stop, AllOwned
    <2>7. Closes(ls)
      BY <2>6, CloseAllCloses DEF ListenInv
    <2>8. \A g \in Tunnels, s \in Slots : Owned(g, s)' \subseteq Owned(g, s)
      BY <2>7 DEF Closes, Owned, AllOwned
    <2> QED
      BY <2>2, <2>3, <2>4, <2>8
  <1> QED
    BY <1>1, <1>2

(* Shutdown and ContextDone, whatever the handler is doing.                *)
LEMMA EndManager ==
  ASSUME TunnelInv, HandlerTyped, ManagerInv, Shutdown \/ ContextDone
  PROVE  ManagerInv'
  <1>1. /\ IF pm # Nil THEN Stop(pm) ELSE UNCHANGED <<tableVars, socketVars>>
        /\ taken' = taken /\ UNCHANGED <<handlerVars, made>> /\ closing' = TRUE
    BY DEF Shutdown, ContextDone, closeWgTunnel, proxyRest
  <1>2. /\ ListenInv' /\ UNCHANGED <<table, busy, failed, strands>>
        /\ \A g \in Tunnels : running'[g] => running[g]
        /\ \A g \in Tunnels, s \in Slots : Owned(g, s)' \subseteq Owned(g, s)
    BY <1>1, StopsManager DEF ManagerInv
  <1>3. Updating' /\ Fresh' /\ Asked'
    BY <1>1, <1>2, ManagerFrame DEF ManagerInv
  <1> QED
    BY <1>2, <1>3 DEF ManagerInv

(* Disconnect, and the first half of handleConnect.                        *)
LEMMA CloseManager ==
  ASSUME TunnelInv, HandlerTyped, ManagerInv, Disconnect \/ \E m \in Contents : Connect(m)
  PROVE  ManagerInv'
  <1>1. /\ handler = "idle" /\ taken' = taken /\ UNCHANGED <<made, callee, todo>>
        /\ (handler' = "idle") \/ (handler' = "closed" /\ cause' = "connect")
        /\ (IF pm # Nil THEN Stop(pm) ELSE UNCHANGED <<tableVars, socketVars>>) \/ UNCHANGED <<tableVars, socketVars>>
        /\ pm' = Nil
    BY DEF Disconnect, Connect, Receive, closeWgTunnel, handlerVars, proxyRest, pmRest, TunnelInv, Stage
  <1>2. /\ ListenInv' /\ UNCHANGED <<table, busy, failed, strands>>
        /\ \A g \in Tunnels : running'[g] => running[g]
        /\ \A g \in Tunnels, s \in Slots : Owned(g, s)' \subseteq Owned(g, s)
    <2>1. CASE UNCHANGED <<tableVars, socketVars>>
      <3>1. taken' \subseteq Slots
        BY <1>1 DEF ManagerInv, ListenInv, TableTyped
      <3>2. \A g \in Tunnels, s \in Slots : Owned(g, s)' = Owned(g, s)
        BY <2>1 DEF Owned, AllOwned, socketVars
      <3> QED
        BY <2>1, <3>1, <3>2, ListenSame DEF tableVars, ManagerInv
    <2>2. CASE IF pm # Nil THEN Stop(pm) ELSE UNCHANGED <<tableVars, socketVars>>
      BY <1>1, <2>2, StopsManager DEF ManagerInv
    <2> QED
      BY <1>1, <2>1, <2>2
  <1>3. Updating'
    BY <1>1, <1>2 DEF ManagerInv, Updating
  <1>4. Fresh'
    BY <1>1, <1>2 DEF ManagerInv, Fresh, Unstarted
  <1>5. Asked'
    BY <1>1 DEF Asked
  <1> QED
    BY <1>2, <1>3, <1>4, <1>5 DEF ManagerInv


(* No manager is inside Start unless the handler is.                       *)
LEMMA NoneBusy ==
  ASSUME Updating, handler # "starting"
  PROVE  \A g \in Tunnels : ~ busy[g]
  BY DEF Updating

(* The second half of handleConnect, as far as the publication.            *)
LEMMA SetUpManager ==
  ASSUME TunnelInv, HandlerTyped, ManagerInv, Build \/ CreatePM \/ Publish
  PROVE  ManagerInv'
  <1>1. UNCHANGED <<tableVars, socketVars, taken>>
    BY DEF Build, CreatePM, Publish, pmVars
  <1>2. ListenInv'
    BY <1>1, ListenSame DEF ManagerInv, ListenInv, TableTyped
  <1>3. \A g \in Tunnels, s \in Slots : Owned(g, s)' = Owned(g, s)
    BY <1>1 DEF Owned, AllOwned, socketVars
  <1>4. UNCHANGED <<table, running, busy, failed, strands>>
    BY <1>1 DEF tableVars
  <1>5. handler \in Before /\ callee = Nil /\ cause = "connect" /\ \A g \in Tunnels : ~ busy[g]
    BY NoneBusy DEF Build, CreatePM, Publish, ManagerInv, Updating
  <1>6. CASE Build
    <2>1. /\ pm' = Nil /\ callee' = Nil /\ cause' = "connect" /\ handler' \in {"idle", "built", "crashed"}
          /\ made' = made \/ made' = made + 1
          /\ handler' = "built" => made' = made + 1
          /\ made \in Nat
      BY <1>5, <1>6 DEF Build, Return, TunnelInv, TunnelTyped, Stage
    <2>2. Updating'
      BY <1>4, <1>5, <2>1 DEF Updating
    <2>3. Fresh'
      BY <1>4, <2>1 DEF ManagerInv, Fresh, Unstarted
    <2>4. Asked'
      BY <2>1 DEF Asked
    <2> QED
      BY <1>2, <2>2, <2>3, <2>4 DEF ManagerInv
  <1>7. CASE CreatePM
    <2>1. UNCHANGED <<callee, cause, made>> /\ handler = "built" /\ handler' = "created"
      BY <1>7 DEF CreatePM
    <2>2. Updating'
      BY <1>4, <1>5, <2>1 DEF Updating
    <2>3. Fresh'
      BY <1>4, <2>1 DEF ManagerInv, Fresh, Unstarted
    <2>4. Asked'
      BY <2>1 DEF Asked
    <2> QED
      BY <1>2, <2>2, <2>3, <2>4 DEF ManagerInv
  <1>8. CASE Publish
    <2>1. UNCHANGED <<callee, cause, msg, made, pm, closing>> /\ handler = "created"
      BY <1>8 DEF Publish
    <2>2. CASE pm = Nil
      <3>1. handler' = "crashed"
        BY <1>8, <2>2 DEF Publish
      <3>2. Updating'
        BY <1>4, <1>5, <3>1 DEF Updating
      <3>3. Fresh'
        BY <1>4, <2>1, <3>1 DEF ManagerInv, Fresh, Unstarted
      <3>4. Asked'
        BY <3>1 DEF Asked
      <3> QED
        BY <1>2, <3>2, <3>3, <3>4 DEF ManagerInv
    <2>3. CASE pm # Nil
      <3>1. /\ handler' = "updating"
            /\ todo' = [s \in Slots |-> IF msg.targets[s] = NoAddr THEN "none" ELSE "put"]
            /\ asked' = [s \in Slots |-> [addr |-> msg.targets[s], sync |-> FALSE]]
        BY <1>8, <2>3 DEF Publish
      <3>2. Updating'
        BY <1>4, <1>5, <2>1, <3>1 DEF Updating
      <3>3. Fresh'
        BY <1>4, <1>5, <2>1, <3>1 DEF ManagerInv, Fresh, Unstarted
      <3>4. pm = made /\ pm \in Tunnels
        BY <2>3 DEF TunnelInv, TunnelTyped
      <3>5. \A s \in Slots : table[pm][s] = NoAddr
        BY <2>1, <3>4 DEF ManagerInv, Fresh
      <3>6. \A s \in Slots : asked'[s].addr = msg.targets[s] /\ asked'[s].sync = FALSE
        BY <3>1
      <3>7. Asked'
        BY <1>4, <2>1, <3>1, <3>5, <3>6 DEF Asked, Right, Clear
      <3> QED
        BY <1>2, <3>2, <3>3, <3>7 DEF ManagerInv
    <2> QED
      BY <2>2, <2>3
  <1> QED
    BY <1>6, <1>7, <1>8

(* A message about targets is taken.                                       *)
LEMMA MessageManager ==
  ASSUME TunnelInv, HandlerTyped, ManagerInv,
         \/ \E m \in Contents : Sync(m)
         \/ \E m \in Contents : AddTargets(m.targets, TcpSlots) \/ AddTargets(m.targets, UdpSlots)
         \/ \E ss \in {TcpSlots, UdpSlots} : RemoveTargets(ss)
  PROVE  ManagerInv'
  <1>1. /\ handler = "idle" /\ handler' = "updating" /\ pm # Nil
        /\ UNCHANGED <<made, pm, closing, tableVars, socketVars, taken>>
    BY MessageFrame DEF tunnelView, pmRest
  <1>2. ListenInv'
    BY <1>1, ListenSame DEF ManagerInv, ListenInv, TableTyped
  <1>3. UNCHANGED <<table, running, busy, failed, strands>>
    BY <1>1 DEF tableVars
  <1>4. callee = Nil /\ \A g \in Tunnels : ~ busy[g]
    BY <1>1, NoneBusy DEF ManagerInv, Updating
  <1>5. ASSUME cause' # "connect" PROVE Fresh'
    BY <1>1, <1>3, <1>5 DEF ManagerInv, Fresh, Unstarted
  <1>6. ASSUME ~ closing PROVE \A s \in Slots : table[pm][s] \in Right(s)
    BY <1>1, <1>6 DEF ManagerInv, Asked
  <1>7. ASSUME NEW m \in Contents, Sync(m) PROVE ManagerInv'
    <2>1. /\ cause' = "sync" /\ msg' = m /\ callee' = callee
          /\ todo' = [s \in Slots |-> Plan(desired(m)[s], table[pm][s])]
          /\ asked' = [s \in Slots |-> [addr |-> m.targets[s], sync |-> TRUE]]
      BY <1>7 DEF Sync, GetTargets
    <2>2. m.targets \in [Slots -> Addrs \cup {NoAddr}]
      BY DEF Lists
    <2>3. PICK want : want = desired(m)
      OBVIOUS
    <2>4. \A s \in Slots : want[s] = IF m.targets[s] \in V6 THEN NoAddr ELSE m.targets[s]
      BY <2>3 DEF desired
    <2>5. \A s \in Slots : todo'[s] = Plan(want[s], table[pm][s])
      BY <2>1, <2>3
    <2>6. ASSUME NEW s \in Slots
          PROVE  \/ todo'[s] = "none" /\ table[pm][s] = want[s]
                 \/ todo'[s] = "remove" /\ want[s] = NoAddr
                 \/ todo'[s] \in {"change", "put"} /\ want[s] # NoAddr
      <3>1. PICK w, h : w = want[s] /\ h = table[pm][s]
        OBVIOUS
      <3>2. todo'[s] = Plan(w, h)
        BY <2>5, <3>1
      <3> QED
        BY <3>1, <3>2, PlanIs
    <2>7. Updating'
      BY <1>1, <1>3, <1>4, <2>1, <2>4, <2>6 DEF Updating
    <2>8. \A s \in Slots : asked'[s].addr = m.targets[s] /\ asked'[s].sync = TRUE
      BY <2>1
    <2>9. ASSUME NEW s \in Slots
          PROVE  Right(s)' = IF m.targets[s] = NoAddr \/ m.targets[s] \in V6
                             THEN {NoAddr} \cup Raw ELSE {m.targets[s], Script[m.targets[s]]}
      BY <2>8 DEF Right, Clear
    <2>10. ASSUME NEW s \in Slots
           PROVE  \/ want[s] = NoAddr /\ Right(s)' = {NoAddr} \cup Raw
                  \/ want[s] # NoAddr /\ want[s] = m.targets[s] /\ Right(s)' = {want[s], Script[want[s]]}
      BY <2>4, <2>9
    <2>11. Asked'
      BY <1>1, <1>3, <2>1, <2>6, <2>10 DEF Asked
    <2> QED
      BY <1>2, <1>5, <2>1, <2>7, <2>11 DEF ManagerInv
  <1>8. ASSUME NEW m \in Contents, NEW proto, AddTargets(m.targets, proto) PROVE ManagerInv'
    <2>1. PICK list : list = m.targets
      OBVIOUS
    <2>2. /\ cause' = "targets" /\ msg' = [Empty EXCEPT !.targets = list] /\ callee' = pm
          /\ todo' = [s \in Slots |-> IF s \in proto /\ list[s] # NoAddr THEN "put" ELSE "none"]
          /\ asked' = [s \in Slots |-> IF todo'[s] = "put"
                                        THEN [addr |-> list[s], sync |-> FALSE] ELSE asked[s]]
      BY <1>8, <2>1 DEF AddTargets
    <2>3. msg'.targets = list
      BY <2>2 DEF Empty
    <2>4. Updating'
      BY <1>1, <1>3, <1>4, <2>2, <2>3 DEF Updating
    <2>5. ASSUME NEW s \in Slots
          PROVE  \/ todo'[s] = "none" /\ Right(s)' = Right(s)
                 \/ todo'[s] = "put" /\ Right(s)' = {list[s], Script[list[s]]}
      BY <2>2 DEF Right, Clear
    <2>6. Asked'
      BY <1>1, <1>3, <1>6, <2>3, <2>5 DEF Asked
    <2> QED
      BY <1>2, <1>5, <2>2, <2>4, <2>6 DEF ManagerInv
  <1>9. ASSUME NEW ss, RemoveTargets(ss) PROVE ManagerInv'
    <2>1. /\ cause' = "targets" /\ callee' = pm
          /\ todo' = [s \in Slots |-> IF s \in ss THEN "remove" ELSE "none"]
          /\ asked' = [s \in Slots |-> IF s \in ss THEN [addr |-> NoAddr, sync |-> FALSE] ELSE asked[s]]
      BY <1>9 DEF RemoveTargets
    <2>2. Updating'
      BY <1>1, <1>3, <1>4, <2>1 DEF Updating
    <2>3. ASSUME NEW s \in Slots
          PROVE  \/ todo'[s] = "none" /\ Right(s)' = Right(s)
                 \/ todo'[s] = "remove" /\ Right(s)' = {NoAddr}
      BY <2>1 DEF Right, Clear
    <2>4. Asked'
      BY <1>1, <1>3, <1>6, <2>1, <2>3 DEF Asked
    <2> QED
      BY <1>2, <1>5, <2>1, <2>2, <2>4 DEF ManagerInv
  <1> QED
    BY <1>7, <1>8, <1>9


(* The manager updateTargets works on is there.                            *)
LEMMA Loaded ==
  ASSUME TunnelInv, HandlerTyped, Updating, NEW s \in Slots, Turn(s), todo[s] # "add",
         ~ (Loads(s) /\ pm = Nil)
  PROVE  (IF Loads(s) THEN pm ELSE callee) \in Tunnels
  <1>1. handler = "updating" /\ pm \in {Nil, made} /\ callee \in {Nil, made} /\ made \in 0 .. MaxTunnel
    BY DEF Turn, TunnelInv, TunnelTyped, HandlerTyped
  <1>2. CASE Loads(s)
    BY <1>1, <1>2
  <1>3. CASE ~ Loads(s)
    <2>1. cause = "targets" \/ (cause = "connect" /\ \E t \in Peers(s) : (todo[t] = "none") # (msg.targets[t] = NoAddr))
      BY <1>3 DEF Loads, HandlerTyped
    <2>2. \A t \in Peers(s) : t \in Slots
      BY DEF Peers
    <2>3. callee # Nil
      BY <1>1, <2>1, <2>2 DEF Updating
    <2> QED
      BY <1>1, <1>3, <2>3
  <1> QED
    BY <1>2, <1>3

(* A handler that cannot go on leaves everything as it is.                 *)
LEMMA CrashManager ==
  ASSUME TunnelInv, ManagerInv, handler \notin {"starting"}, handler' = "crashed",
         UNCHANGED <<made, tableVars, socketVars, taken>>
  PROVE  ManagerInv'
  <1>1. ListenInv'
    BY ListenSame DEF ManagerInv, ListenInv, TableTyped
  <1>2. \A g \in Tunnels : ~ busy[g]
    BY NoneBusy DEF ManagerInv
  <1>3. Updating' /\ Fresh' /\ Asked'
    BY <1>2 DEF ManagerInv, Updating, Fresh, Unstarted, Asked, tableVars
  <1> QED
    BY <1>1, <1>3 DEF ManagerInv

(* A removal that handleSync's updateTargets skips leaves the table alone. *)
LEMMA SkipManager ==
  ASSUME TunnelInv, HandlerTyped, ManagerInv, NEW g \in Tunnels, NEW s \in Slots, Skips(g, s),
         g = made, pm \in {Nil, g}, callee' = g, handler = "updating", handler' = handler,
         UNCHANGED <<made, pm, closing, asked, cause, msg, taken, tableVars, socketVars>>,
         todo' = [todo EXCEPT ![s] = CASE @ = "remove" -> "none"
                                       [] @ = "change" -> "again"
                                       [] OTHER -> "add"]
  PROVE  ManagerInv'
  <1>1. cause = "sync" /\ todo[s] \in {"remove", "change"} /\ table[g][s] \in Raw
    BY DEF Skips
  <1>2. /\ \A t \in Slots \ {s} : todo'[t] = todo[t]
        /\ todo[s] = "remove" => todo'[s] = "none"
        /\ todo[s] = "change" => todo'[s] = "again"
    BY DEF HandlerTyped
  <1>3. UNCHANGED <<table, running, busy, failed, strands>>
    BY DEF tableVars
  <1>4. ListenInv'
    BY ListenSame DEF ManagerInv, ListenInv, TableTyped
  <1>5. \A h \in Tunnels, t \in Slots : Owned(h, t)' = Owned(h, t)
    BY DEF Owned, AllOwned, socketVars
  <1>6. \A h \in Tunnels : ~ busy[h]
    BY NoneBusy DEF ManagerInv
  <1>7. g # Nil /\ callee \in {Nil, g}
    BY DEF HandlerTyped
  <1>8. Updating'
    BY <1>1, <1>2, <1>3, <1>5, <1>6, <1>7 DEF ManagerInv, Updating
  <1>9. Fresh'
    BY <1>3 DEF ManagerInv, Fresh, Unstarted
  <1>10. Asked'
    <2>1. \A t \in Slots : Right(t)' = Right(t)
      BY DEF Right, Clear
    <2>2. ASSUME ~ closing PROVE pm = g
      BY <1>7, <2>2 DEF TunnelInv, Stage
    <2>3. ASSUME ~ closing, NEW t \in Slots
          PROVE  /\ todo'[t] = "none" => table[g][t] \in Right(t)
                 /\ todo'[t] = "remove" => NoAddr \in Right(t) /\ (cause = "sync" => Raw \subseteq Right(t))
                 /\ todo'[t] \notin {"none", "remove"} =>
                       {msg.targets[t], Script[msg.targets[t]]} \subseteq Right(t)
      BY <1>1, <1>2, <2>2, <2>3 DEF ManagerInv, Asked
    <2> QED
      BY <1>3, <2>1, <2>2, <2>3 DEF Asked
  <1> QED
    BY <1>4, <1>8, <1>9, <1>10 DEF ManagerInv

(* updateTargets calls RemoveTarget: the slot is cleared, and what is      *)
(* still to be done for it is the rest of its work.                        *)
LEMMA RemoveManager ==
  ASSUME TunnelInv, HandlerTyped, ManagerInv, NEW s \in Slots, UpdateRemove(s)
  PROVE  ManagerInv'
  <1>1. /\ UNCHANGED <<made, pm, closing, asked, cause, msg, taken>>
        /\ Turn(s) /\ todo[s] # "add" /\ handler = "updating"
    BY DEF UpdateRemove, tunnelVars, proxyRest, Turn
  <1>2. CASE Loads(s) /\ pm = Nil
    BY <1>1, <1>2, CrashManager DEF UpdateRemove
  <1>3. CASE ~ (Loads(s) /\ pm = Nil)
    <2>1. PICK g : g = IF Loads(s) THEN pm ELSE callee
      OBVIOUS
    <2>2. g \in Tunnels
      BY <1>1, <1>3, <2>1, Loaded DEF ManagerInv
    <2>3. g = made /\ callee \in {Nil, g} /\ pm \in {Nil, g}
      BY <2>1, <2>2 DEF TunnelInv, TunnelTyped, HandlerTyped
    <2>4. /\ callee' = g /\ handler' = handler
          /\ todo' = [todo EXCEPT ![s] = CASE @ = "remove" -> "none"
                                           [] @ = "change" -> "again"
                                           [] OTHER -> "add"]
          /\ IF Skips(g, s) THEN UNCHANGED <<tableVars, socketVars>> ELSE RemoveTarget(g, s)
      BY <1>3, <2>1 DEF UpdateRemove
    <2>5. CASE Skips(g, s)
      BY <1>1, <2>2, <2>3, <2>4, <2>5, SkipManager
    <2>6. CASE ~ Skips(g, s)
      <3>1. /\ ListenInv'
            /\ table'[g][s] = NoAddr /\ s \notin failed'[g] /\ Owned(g, s)' = {}
            /\ \A t \in Slots \ {s} : table'[g][t] = table[g][t]
            /\ \A t \in Slots \ {s} : (t \in failed'[g] <=> t \in failed[g]) /\ Owned(g, t)' = Owned(g, t)
            /\ failed'[g] \subseteq failed[g]
            /\ \A h \in Tunnels \ {g} : table'[h] = table[h] /\ failed'[h] = failed[h]
        BY <1>1, <2>2, <2>4, <2>6, ListenRemove DEF ManagerInv
      <3>2. UNCHANGED <<running, busy, strands>>
        BY <2>4, <2>6 DEF RemoveTarget
      <3>3. /\ todo[s] \in Work /\ \A t \in Slots \ {s} : todo'[t] = todo[t]
            /\ todo[s] = "remove" => todo'[s] = "none"
            /\ todo[s] = "change" => todo'[s] = "again"
            /\ todo[s] \notin {"remove", "change"} => todo'[s] = "add"
        BY <2>4 DEF HandlerTyped
      <3>4. todo[s] \in {"remove", "change", "again", "put"}
        BY <1>1, <3>3 DEF Turn, Work
      <3>5. ASSUME NEW t \in Slots
            PROVE  /\ todo'[t] \in {"change", "again", "put", "add"} => msg.targets[t] # NoAddr
                   /\ todo'[t] = "add" =>
                         table'[g][t] = NoAddr /\ t \notin failed'[g] /\ Owned(g, t)' = {}
                   /\ cause = "connect" =>
                         /\ todo'[t] \in {"none", "put", "add"}
                         /\ msg.targets[t] = NoAddr => todo'[t] = "none"
        <4>1. CASE t = s
          BY <1>1, <3>1, <3>3, <3>4, <4>1 DEF ManagerInv, Updating
        <4>2. CASE t # s
          BY <1>1, <2>2, <2>3, <3>1, <3>3, <4>2 DEF ManagerInv, Updating
        <4> QED
          BY <4>1, <4>2
      <3>6. g # Nil /\ \A h \in Tunnels : ~ busy[h]
        BY <1>1, <2>2, NoneBusy DEF ManagerInv
      <3>7. Updating'
        BY <1>1, <2>4, <3>2, <3>5, <3>6 DEF Updating
      <3>8. Fresh'
        BY <1>1, <2>2, <2>3, <2>4, <3>1, <3>2 DEF ManagerInv, Fresh, Unstarted
      <3>9. Asked'
        <4>1. \A t \in Slots : Right(t)' = Right(t)
          BY <1>1 DEF Right, Clear
        <4>2. ASSUME ~ closing PROVE pm = g
          BY <1>1, <2>3, <4>2 DEF TunnelInv, Stage
        <4>3. ASSUME ~ closing, NEW t \in Slots
              PROVE  /\ todo'[t] = "none" => table'[g][t] \in Right(t)
                     /\ todo'[t] = "remove" => NoAddr \in Right(t) /\ (cause = "sync" => Raw \subseteq Right(t))
                     /\ todo'[t] \notin {"none", "remove"} =>
                           {msg.targets[t], Script[msg.targets[t]]} \subseteq Right(t)
          <5>1. CASE t = s
            BY <1>1, <3>1, <3>3, <3>4, <4>3, <5>1 DEF ManagerInv, Asked
          <5>2. CASE t # s
            BY <1>1, <3>1, <3>3, <4>2, <4>3, <5>2 DEF ManagerInv, Asked
          <5> QED
            BY <5>1, <5>2
        <4> QED
          BY <1>1, <2>4, <4>1, <4>2, <4>3 DEF Asked
      <3> QED
        BY <3>1, <3>7, <3>8, <3>9 DEF ManagerInv
    <2> QED
      BY <2>5, <2>6
  <1> QED
    BY <1>2, <1>3

(* updateTargets calls AddTarget, on a slot that has been cleared.         *)
LEMMA AddManager ==
  ASSUME TunnelInv, HandlerTyped, ManagerInv, NEW s \in Slots, UpdateAdd(s)
  PROVE  ManagerInv'
  <1>1. /\ UNCHANGED <<made, pm, closing, asked, handler, cause, msg, callee, taken>>
        /\ handler = "updating" /\ todo[s] = "add"
        /\ todo' = [todo EXCEPT ![s] = "none"]
    BY DEF UpdateAdd, tunnelVars, proxyRest, Turn
  <1>2. /\ msg.targets[s] # NoAddr /\ callee # Nil /\ table[callee][s] = NoAddr
        /\ s \notin failed[callee] /\ Owned(callee, s) = {}
    BY <1>1 DEF ManagerInv, Updating
  <1>3. callee = made /\ callee \in Tunnels
    BY <1>2 DEF HandlerTyped, TunnelInv, TunnelTyped
  <1>4. msg.targets[s] \in Addrs
    BY <1>2 DEF HandlerTyped, Lists
  <1>5. PICK a \in {msg.targets[s], Script[msg.targets[s]]} : AddTarget(callee, s, a)
    BY DEF UpdateAdd
  <1>6. a \in Addrs
    BY <1>4, <1>5
  <1>7. /\ ListenInv'
        /\ table'[callee][s] = a /\ \A t \in Slots \ {s} : table'[callee][t] = table[callee][t]
        /\ \A h \in Tunnels \ {callee} : table'[h] = table[h] /\ failed'[h] = failed[h]
        /\ failed'[callee] \subseteq failed[callee] \cup {s}
        /\ ~ running[callee] => failed'[callee] = failed[callee]
        /\ \A t \in Slots \ {s} : Owned(callee, t)' = Owned(callee, t)
    <2>1. PICK g \in Tunnels : g = callee
      BY <1>3
    <2>2. AddTarget(g, s, a) /\ table[g][s] = NoAddr /\ s \notin failed[g] /\ Owned(g, s) = {}
      BY <1>2, <1>5, <2>1
    <2> QED
      BY <1>1, <1>6, <2>1, <2>2, ListenAdd DEF ManagerInv
  <1>8. UNCHANGED <<running, busy, strands>>
    BY <1>5 DEF AddTarget
  <1>9. todo'[s] = "none" /\ \A t \in Slots \ {s} : todo'[t] = todo[t]
    BY <1>1 DEF HandlerTyped
  <1>10. Updating'
    <2>1. \A h \in Tunnels : ~ busy[h]
      BY <1>1, NoneBusy DEF ManagerInv
    <2>2. ASSUME NEW t \in Slots
          PROVE  /\ todo'[t] \in {"change", "again", "put", "add"} => msg.targets[t] # NoAddr
                 /\ todo'[t] = "add" =>
                       table'[callee][t] = NoAddr /\ t \notin failed'[callee] /\ Owned(callee, t)' = {}
                 /\ cause = "connect" =>
                       /\ todo'[t] \in {"none", "put", "add"}
                       /\ msg.targets[t] = NoAddr => todo'[t] = "none"
      BY <1>1, <1>7, <1>9 DEF ManagerInv, Updating
    <2> QED
      BY <1>1, <1>2, <1>8, <2>1, <2>2 DEF Updating
  <1>11. Fresh'
    BY <1>1, <1>3, <1>7, <1>8 DEF ManagerInv, Fresh, Unstarted
  <1>12. Asked'
    <2>1. \A t \in Slots : Right(t)' = Right(t)
      BY <1>1 DEF Right, Clear
    <2>2. ASSUME ~ closing PROVE pm = callee
      BY <1>1, <1>3, <2>2 DEF TunnelInv, TunnelTyped, Stage
    <2>3. ASSUME ~ closing PROVE a \in Right(s)
      BY <1>1, <1>5, <2>3 DEF ManagerInv, Asked
    <2> QED
      BY <1>1, <1>7, <1>9, <2>1, <2>2, <2>3 DEF ManagerInv, Asked
  <1> QED
    BY <1>7, <1>10, <1>11, <1>12 DEF ManagerInv


(* Start.  The manager has never been started before.                      *)
LEMMA StartManager ==
  ASSUME TunnelInv, HandlerTyped, ManagerInv, UpdatesDone \/ StartStep
  PROVE  ManagerInv'
  <1>1. UNCHANGED <<made, pm, closing, asked, todo, taken>>
    BY DEF UpdatesDone, StartStep, tunnelVars, proxyRest
  <1>2. \A s \in Slots : Right(s)' = Right(s)
    BY <1>1 DEF Right, Clear
  <1>3. CASE UpdatesDone
    <2>1. handler = "updating" /\ \A s \in Slots : todo[s] = "none"
      BY <1>3 DEF UpdatesDone, Idle
    <2>2. \A g \in Tunnels : ~ busy[g]
      BY <2>1, NoneBusy DEF ManagerInv
    <2>3. ASSUME ~ closing PROVE \A s \in Slots : table[pm][s] \in Right(s)
      BY <2>1, <2>3 DEF ManagerInv, Asked
    <2>4. CASE cause = "connect" /\ pm = Nil
      BY <1>1, <1>3, <2>1, <2>4, CrashManager DEF UpdatesDone
    <2>5. CASE cause = "connect" /\ pm # Nil
      <3>1. handler' = "starting" /\ callee' = pm /\ StartBegin(pm)
        BY <1>3, <2>5 DEF UpdatesDone
      <3>2. PICK g : g = pm
        OBVIOUS
      <3>3. g = made /\ g \in Tunnels /\ g # Nil
        BY <2>5, <3>2 DEF TunnelInv, TunnelTyped
      <3>4. ~ strands[g] /\ failed[g] = {} /\ StartBegin(g)
        BY <2>1, <2>5, <3>1, <3>2, <3>3 DEF ManagerInv, Fresh, Unstarted, StartBegin
      <3>5. ListenInv' /\ busy'[g] /\ \A h \in Tunnels \ {g} : busy'[h] = busy[h]
        BY <1>1, <3>3, <3>4, ListenStartBegin DEF ManagerInv
      <3>6. UNCHANGED <<table, running, failed, strands>>
        BY <3>4 DEF StartBegin
      <3>7. Updating'
        BY <2>2, <3>1, <3>2, <3>3, <3>5 DEF Updating
      <3>8. Fresh'
        BY <1>1, <3>1, <3>3, <3>5, <3>6 DEF ManagerInv, Fresh, Unstarted
      <3>9. Asked'
        BY <1>1, <1>2, <2>3, <3>1, <3>6 DEF Asked
      <3> QED
        BY <3>5, <3>7, <3>8, <3>9 DEF ManagerInv
    <2>6. CASE cause # "connect"
      <3>1. UNCHANGED <<tableVars, socketVars>> /\ (handler' = "tail" \/ (handler' = "idle" /\ callee' = Nil))
        BY <1>3, <2>6 DEF UpdatesDone, Return
      <3>2. ListenInv'
        BY <1>1, <3>1, ListenSame DEF ManagerInv, ListenInv, TableTyped
      <3>3. Updating' /\ Fresh'
        BY <1>1, <2>2, <3>1 DEF ManagerInv, Updating, Fresh, Unstarted, tableVars
      <3>4. Asked'
        BY <1>1, <1>2, <2>3, <3>1 DEF Asked, tableVars
      <3> QED
        BY <3>2, <3>3, <3>4 DEF ManagerInv
    <2> QED
      BY <2>4, <2>5, <2>6
  <1>4. CASE StartStep
    <2>1. /\ handler = "starting" /\ callee' = callee
          /\ StartNext(callee) \/ StartEnd(callee)
          /\ handler' = IF busy'[callee] THEN "starting" ELSE "gateway"
      BY <1>4 DEF StartStep
    <2>2. PICK g : g = callee
      OBVIOUS
    <2>3. g = made /\ g \in Tunnels /\ g # Nil
      BY <2>1, <2>2 DEF ManagerInv, Updating, HandlerTyped, TunnelInv, TunnelTyped
    <2>4. StartNext(g) \/ StartEnd(g)
      BY <2>1, <2>2
    <2>5. ListenInv' /\ \A h \in Tunnels \ {g} : busy'[h] = busy[h]
      BY <1>1, <2>3, <2>4, ListenStartNext, ListenStartEnd DEF ManagerInv
    <2>6. UNCHANGED <<table, failed>>
      BY <2>4 DEF StartNext, StartEnd
    <2>7. \A h \in Tunnels \ {g} : running'[h] = running[h] /\ strands'[h] = strands[h]
      BY <2>4 DEF StartNext, StartEnd, ManagerInv, ListenInv, TableTyped
    <2>8. \A h \in Tunnels \ {g} : ~ busy[h]
      BY <2>2 DEF ManagerInv, Updating
    <2>9. Updating'
      BY <2>1, <2>2, <2>3, <2>5, <2>8 DEF Updating
    <2>10. Fresh'
      BY <1>1, <2>1, <2>3, <2>5, <2>6, <2>7 DEF ManagerInv, Fresh, Unstarted
    <2>11. Asked'
      BY <1>1, <1>2, <2>1, <2>6 DEF ManagerInv, Asked
    <2> QED
      BY <2>5, <2>9, <2>10, <2>11 DEF ManagerInv
  <1> QED
    BY <1>3, <1>4

(* No step disturbs the part of the invariant about the managers.          *)
LEMMA ManagerStep ==
  ASSUME TunnelInv, HandlerTyped, ManagerInv, [Next]_vars
  PROVE  ManagerInv'
  <1>1. CASE Build \/ CreatePM \/ Publish
    BY <1>1, SetUpManager
  <1>2. CASE (\E s \in Slots : UpdateRemove(s) \/ UpdateAdd(s)) \/ UpdatesDone \/ StartStep
    BY <1>2, RemoveManager, AddManager, StartManager
  <1>3. CASE ConnectGateway \/ SyncTail
    <2>1. /\ UNCHANGED <<made, pm, closing, asked, tableVars, socketVars, taken>>
          /\ handler \in {"gateway", "tail"} /\ handler' = "idle" /\ callee' = Nil
      BY <1>3 DEF ConnectGateway, SyncTail, Return, tunnelVars, pmVars
    <2>2. ListenInv'
      BY <2>1, ListenSame DEF ManagerInv, ListenInv, TableTyped
    <2>3. \A g \in Tunnels : ~ busy[g]
      BY <2>1, NoneBusy DEF ManagerInv
    <2>4. Updating' /\ Fresh'
      BY <2>1, <2>3 DEF ManagerInv, Updating, Fresh, Unstarted, tableVars
    <2>5. Asked'
      BY <2>1 DEF ManagerInv, Asked, Right, Clear, tableVars
    <2> QED
      BY <2>2, <2>4, <2>5 DEF ManagerInv
  <1>4. CASE Disconnect \/ \E m \in Contents : Connect(m)
    BY <1>4, CloseManager
  <1>5. CASE \/ \E m \in Contents : Sync(m)
             \/ \E m \in Contents : AddTargets(m.targets, TcpSlots) \/ AddTargets(m.targets, UdpSlots)
             \/ \E ss \in {TcpSlots, UdpSlots} : RemoveTargets(ss)
    BY <1>5, MessageManager
  <1>6. CASE Shutdown \/ ContextDone
    BY <1>6, EndManager
  <1>7. CASE \/ GatewayAdd \/ HupStore \/ HupApply
             \/ \E ss \in SUBSET Subnets : SubnetsUpdate(ss) \/ SubnetsAdd(ss) \/ SubnetsRemove(ss)
    <2>1. UNCHANGED <<handlerVars, made, pm, asked, closing, tableVars, socketVars, taken>>
      BY <1>7 DEF GatewayAdd, HupStore, HupApply, SubnetsUpdate, SubnetsAdd, SubnetsRemove, tunnelVars, pmRest
    <2> QED
      BY <2>1, ManagerSame DEF ManagerInv, ListenInv, TableTyped
  <1>8. CASE ProxyStep /\ UNCHANGED siteVars
    <2>1. ListenInv' /\ \A g \in Tunnels, s \in Slots : Owned(g, s)' = Owned(g, s)
      BY <1>8, ListenProxy, ProxyOwned DEF ManagerInv
    <2>2. UNCHANGED <<handlerVars, made, pm, asked, closing, tableVars>>
      BY <1>8, ProxyFrame DEF siteVars, tunnelVars
    <2>3. Updating' /\ Fresh' /\ Asked'
      BY <2>1, <2>2, ManagerFrame DEF ManagerInv, tableVars
    <2> QED
      BY <2>1, <2>3 DEF ManagerInv
  <1>9. CASE UNCHANGED vars
    <2>1. UNCHANGED <<handlerVars, made, pm, asked, closing, tableVars, socketVars, taken>>
      BY <1>9 DEF vars, siteVars, tunnelVars, pmVars
    <2> QED
      BY <2>1, ManagerSame DEF ManagerInv, ListenInv, TableTyped
  <1> QED
    BY <1>1, <1>2, <1>3, <1>4, <1>5, <1>6, <1>7, <1>8, <1>9 DEF Next, HandlerStep, ServerStep


-----------------------------------------------------------------------------
(* Counting.                                                               *)

(* A finite set with one element more.                                     *)
LEMMA CountUp ==
  ASSUME NEW S, NEW T, NEW x, IsFiniteSet(S), x \notin S, T = S \cup {x}
  PROVE  Cardinality(S) \in Nat /\ Cardinality(T) = Cardinality(S) + 1
  BY FS_AddElement, FS_CardinalityType

(* A finite set with one element less.                                     *)
LEMMA CountDown ==
  ASSUME NEW S, NEW T, NEW x, IsFiniteSet(S), x \in S, T = S \ {x}
  PROVE  /\ Cardinality(S) \in Nat /\ Cardinality(S) >= 1
         /\ Cardinality(T) = Cardinality(S) - 1
  <1>1. Cardinality(S) \in Nat /\ Cardinality(T) \in Nat
    BY FS_CardinalityType, FS_RemoveElement
  <1>2. Cardinality(T) = Cardinality(S) - 1
    BY FS_RemoveElement
  <1> QED
    BY <1>1, <1>2

(* The flows and the connections of a tunnel are finitely many.            *)
LEMMA Finite ==
  ASSUME NEW g
  PROVE  /\ IsFiniteSet(Flowing(g)) /\ IsFiniteSet(Connecting(g))
         /\ Cardinality(Flowing(g)) \in Nat /\ Cardinality(Connecting(g)) \in Nat
  <1>1. IsFiniteSet(1 .. MaxListener) /\ IsFiniteSet(1 .. MaxConn)
    <2>1. 1 \in Int /\ MaxListener \in Int /\ MaxConn \in Int
      OBVIOUS
    <2> QED
      BY <2>1, FS_Interval, Zenon
  <1>2. Flowing(g) \subseteq 1 .. MaxListener /\ Connecting(g) \subseteq 1 .. MaxConn
    BY DEF Flowing, Connecting
  <1>3. IsFiniteSet(Flowing(g)) /\ IsFiniteSet(Connecting(g))
    BY <1>1, <1>2, FS_Subset
  <1> QED
    BY <1>3, FS_CardinalityType

-----------------------------------------------------------------------------
(* The UDP flows.                                                          *)

FlowInv == FlowTyped /\ Loops /\ Mapped /\ FlowsCounted

(* A listener with a flow belongs to a tunnel.                             *)
LEMMA FlowHasTunnel ==
  ASSUME ListenInv, FlowInv, NEW l \in Listeners, client[l] # Nil
  PROVE  tunnelOf[l] \in Tunnels
  BY DEF ListenInv, FlowInv, Sockets, SocketTyped, Loops

(* No flow is touched; a listener that is opened or forgotten has none.    *)
LEMMA FlowFrame ==
  ASSUME FlowInv, UNCHANGED flowVars,
         \A l \in Listeners : \/ loop'[l] = loop[l] /\ tunnelOf'[l] = tunnelOf[l]
                              \/ client[l] = Nil /\ loop'[l] \in {"none", "read"}
  PROVE  FlowInv'
  <1>1. FlowTyped'
    BY DEF FlowInv, FlowTyped, flowVars
  <1>2. Loops'
    BY DEF FlowInv, Loops, flowVars
  <1>3. Mapped'
    BY DEF FlowInv, Mapped, flowVars
  <1>4. \A g \in Tunnels : Flowing(g)' = Flowing(g)
    BY DEF Flowing, flowVars
  <1>5. FlowsCounted'
    BY <1>4 DEF FlowInv, FlowsCounted, flowVars
  <1> QED
    BY <1>1, <1>2, <1>3, <1>5 DEF FlowInv

(* What the handlers do to the listeners, as far as the flows are          *)
(* concerned.                                                              *)
LEMMA HandlersKeepFlows ==
  ASSUME HandlerStep \/ ServerStep \/ HupStore \/ HupApply \/ Shutdown \/ ContextDone
  PROVE  /\ UNCHANGED <<flowVars, connVars>>
         /\ \/ UNCHANGED socketVars
            \/ \E ls : CloseAll(ls)
            \/ \E g, s, a : startTarget(g, s, a)
  <1>1. UNCHANGED <<flowVars, connVars>>
    BY DEF HandlerStep, ServerStep, Build, CreatePM, Publish, UpdateRemove, UpdateAdd, UpdatesDone,
           StartStep, ConnectGateway, SyncTail, Connect, Sync, AddTargets, RemoveTargets, SubnetsUpdate,
           SubnetsAdd, SubnetsRemove, GatewayAdd, Disconnect, HupStore, HupApply, Shutdown, ContextDone,
           closeWgTunnel, proxyRest, pmRest, pmVars
  <1>2. ASSUME IF pm # Nil THEN Stop(pm) ELSE UNCHANGED <<tableVars, socketVars>>
        PROVE  UNCHANGED socketVars \/ \E ls : CloseAll(ls)
    BY <1>2 DEF Stop
  <1>3. CASE Disconnect \/ Shutdown \/ ContextDone \/ \E m \in Contents : Connect(m)
    BY <1>1, <1>2, <1>3 DEF Disconnect, Shutdown, ContextDone, Connect, closeWgTunnel, pmRest
  <1>4. ASSUME NEW s \in Slots, UpdateRemove(s) \/ UpdateAdd(s)
        PROVE  \/ UNCHANGED socketVars
               \/ \E ls : CloseAll(ls)
               \/ \E g, t, a : startTarget(g, t, a)
    BY <1>4 DEF UpdateRemove, UpdateAdd, RemoveTarget, AddTarget
  <1>5. CASE UpdatesDone \/ StartStep
    BY <1>1, <1>5 DEF UpdatesDone, StartStep, StartBegin, StartNext, StartEnd
  <1>6. CASE \/ Build \/ CreatePM \/ Publish \/ ConnectGateway \/ SyncTail \/ GatewayAdd \/ HupStore \/ HupApply
             \/ \E m \in Contents : Sync(m)
             \/ \E m \in Contents : AddTargets(m.targets, TcpSlots) \/ AddTargets(m.targets, UdpSlots)
             \/ \E ss \in {TcpSlots, UdpSlots} : RemoveTargets(ss)
             \/ \E ss \in SUBSET Subnets : SubnetsUpdate(ss) \/ SubnetsAdd(ss) \/ SubnetsRemove(ss)
    BY <1>1, <1>6
       DEF Build, CreatePM, Publish, ConnectGateway, SyncTail, GatewayAdd, HupStore, HupApply, Sync,
           AddTargets, RemoveTargets, SubnetsUpdate, SubnetsAdd, SubnetsRemove, pmRest, pmVars
  <1> QED
    BY <1>1, <1>3, <1>4, <1>5, <1>6 DEF HandlerStep, ServerStep

(* The handlers, the SIGHUP goroutine and the shutdown close listeners,    *)
(* and leave the flows of those to their goroutines.                       *)
LEMMA HandlerFlows ==
  ASSUME ListenInv, FlowInv,
         HandlerStep \/ ServerStep \/ HupStore \/ HupApply \/ Shutdown \/ ContextDone
  PROVE  FlowInv'
  <1>1. UNCHANGED flowVars
    BY HandlersKeepFlows
  <1>2. CASE UNCHANGED socketVars
    BY <1>1, <1>2, FlowFrame DEF socketVars
  <1>3. ASSUME NEW ls, CloseAll(ls) PROVE FlowInv'
    <2>1. ASSUME NEW l \in Listeners
          PROVE  \/ loop'[l] = loop[l] /\ tunnelOf'[l] = tunnelOf[l]
                 \/ loop[l] = "done" /\ loop'[l] = "none"
      BY <1>3 DEF CloseAll, Release
    <2> QED
      BY <1>1, <2>1, FlowFrame DEF FlowInv, Loops
  <1>4. ASSUME NEW g, NEW s, NEW a, startTarget(g, s, a) PROVE FlowInv'
    <2>1. PICK l \in Listeners : /\ socket[l] = "none"
                                 /\ loop' = [loop EXCEPT ![l] = "read"]
                                 /\ tunnelOf' = [tunnelOf EXCEPT ![l] = g]
      BY <1>4 DEF startTarget, FreeListener
    <2>2. loop[l] = "none" /\ client[l] = Nil
      BY <2>1 DEF ListenInv, Sockets, FlowInv, Loops
    <2>3. /\ loop'[l] = "read"
          /\ \A k \in Listeners \ {l} : loop'[k] = loop[k] /\ tunnelOf'[k] = tunnelOf[k]
      BY <2>1 DEF ListenInv, SocketTyped
    <2> QED
      BY <1>1, <2>2, <2>3, FlowFrame
  <1> QED
    BY <1>2, <1>3, <1>4, HandlersKeepFlows


(* The goroutine of a listener drops its flow, for which nobody counts     *)
(* down: UdpDelete and closeAllClients.                                    *)
LEMMA FlowDropped ==
  ASSUME ListenInv, FlowInv, NEW l \in Listeners,
         client' = [client EXCEPT ![l] = Nil], activeUDP' = activeUDP,
         uncounted' = [uncounted EXCEPT ![tunnelOf[l]] = IF client[l] = Nil THEN @ ELSE @ + 1],
         \A k \in Listeners \ {l} : tunnelOf'[k] = tunnelOf[k]
  PROVE  /\ client' \in [Listeners -> Flows \cup {Nil}] /\ uncounted' \in [Tunnels -> Nat]
         /\ client'[l] = Nil /\ \A k \in Listeners \ {l} : client'[k] = client[k]
         /\ FlowsCounted'
  <1>1. client' \in [Listeners -> Flows \cup {Nil}] /\ uncounted' \in [Tunnels -> Nat]
    <2>1. client' \in [Listeners -> Flows \cup {Nil}]
      BY DEF FlowInv, FlowTyped
    <2>2. CASE client[l] = Nil
      BY <2>1, <2>2 DEF FlowInv, FlowTyped
    <2>3. CASE client[l] # Nil
      <3>1. tunnelOf[l] \in Tunnels
        BY <2>3, FlowHasTunnel
      <3>2. uncounted' = [uncounted EXCEPT ![tunnelOf[l]] = uncounted[tunnelOf[l]] + 1]
        BY <2>3, <3>1 DEF FlowInv, FlowTyped
      <3>3. PICK h \in Tunnels : h = tunnelOf[l]
        BY <3>1
      <3>4. uncounted \in [Tunnels -> Nat] /\ uncounted' = [uncounted EXCEPT ![h] = uncounted[h] + 1]
        BY <3>2, <3>3 DEF FlowInv, FlowTyped
      <3>5. uncounted' \in [Tunnels -> Nat]
        BY <3>3, <3>4
      <3> QED
        BY <2>1, <3>5
    <2> QED
      BY <2>2, <2>3
  <1>2. client'[l] = Nil /\ \A k \in Listeners \ {l} : client'[k] = client[k]
    BY DEF FlowInv, FlowTyped
  <1>3. ASSUME NEW g \in Tunnels PROVE activeUDP'[g] = uncounted'[g] + Cardinality(Flowing(g)')
    <2>1. uncounted[g] \in Nat /\ activeUDP[g] = uncounted[g] + Cardinality(Flowing(g))
      BY DEF FlowInv, FlowTyped, FlowsCounted
    <2>2. CASE client[l] # Nil /\ tunnelOf[l] = g
      <3>1. uncounted'[g] = uncounted[g] + 1
        BY <2>2 DEF FlowInv, FlowTyped
      <3>2. PICK S, T : S = Flowing(g) /\ T = Flowing(g)'
        OBVIOUS
      <3>3. l \in S /\ T = S \ {l}
        BY <1>2, <2>2, <3>2 DEF Flowing
      <3>4. IsFiniteSet(S)
        BY <3>2, Finite
      <3>5. Cardinality(S) \in Nat /\ Cardinality(T) = Cardinality(S) - 1
        BY <3>3, <3>4, CountDown
      <3> QED
        BY <2>1, <3>1, <3>2, <3>5
    <2>3. CASE ~ (client[l] # Nil /\ tunnelOf[l] = g)
      <3>1. uncounted'[g] = uncounted[g]
        BY <2>3 DEF FlowInv, FlowTyped
      <3>2. Flowing(g)' = Flowing(g)
        BY <1>2, <2>3 DEF Flowing
      <3> QED
        BY <2>1, <3>1, <3>2
    <2> QED
      BY <2>2, <2>3
  <1>4. FlowsCounted'
    BY <1>3 DEF FlowsCounted
  <1> QED
    BY <1>1, <1>2, <1>4

(* The goroutine of a listener ends.                                       *)
LEMMA LoopEnds ==
  ASSUME ListenInv, FlowInv, NEW l \in Listeners, LoopEnd(l) \/ LoopFails(l)
  PROVE  FlowInv'
  <1>1. closeAllClients(l) /\ loop[l] = "read"
    BY DEF LoopEnd, LoopFails
  <1>2. /\ open' = open \ {client[l]} /\ client' = [client EXCEPT ![l] = Nil]
        /\ uncounted' = [uncounted EXCEPT ![tunnelOf[l]] = IF client[l] = Nil THEN @ ELSE @ + 1]
        /\ UNCHANGED <<writing, reader, activeUDP>>
    BY <1>1 DEF closeAllClients
  <1>3. /\ loop'[l] \in {"none", "done"}
        /\ \A k \in Listeners \ {l} : loop'[k] = loop[k] /\ tunnelOf'[k] = tunnelOf[k]
    <2>1. CASE LoopEnd(l)
      BY <2>1 DEF LoopEnd, Release
    <2>2. CASE LoopFails(l)
      BY <2>2 DEF LoopFails, ListenInv, SocketTyped
    <2> QED
      BY <2>1, <2>2
  <1>4. /\ client' \in [Listeners -> Flows \cup {Nil}] /\ uncounted' \in [Tunnels -> Nat]
        /\ client'[l] = Nil /\ \A k \in Listeners \ {l} : client'[k] = client[k]
        /\ FlowsCounted'
    BY <1>2, <1>3, FlowDropped
  <1>5. FlowTyped'
    BY <1>2, <1>4 DEF FlowInv, FlowTyped
  <1>6. Loops'
    BY <1>2, <1>3, <1>4 DEF FlowInv, Loops
  <1>7. Mapped'
    BY <1>2, <1>4 DEF FlowInv, Mapped
  <1> QED
    BY <1>4, <1>5, <1>6, <1>7 DEF FlowInv

(* A packet of the client: it uses the flow there is, or a new one.        *)
LEMMA PacketFlows ==
  ASSUME ListenInv, FlowInv, NEW l \in Listeners, UdpPacket(l)
  PROVE  FlowInv'
  <1>1. /\ socket[l] = "open" /\ loop[l] = "read" /\ loop' = [loop EXCEPT ![l] = "write"]
        /\ UNCHANGED <<tunnelOf, uncounted>>
    BY DEF UdpPacket
  <1>2. loop'[l] = "write" /\ \A k \in Listeners \ {l} : loop'[k] = loop[k]
    BY <1>1 DEF ListenInv, SocketTyped
  <1>3. CASE /\ client[l] # Nil /\ writing' = [writing EXCEPT ![l] = client[l]]
             /\ UNCHANGED <<client, open, reader, activeUDP>>
    <2>1. writing'[l] = client[l] /\ \A k \in Listeners \ {l} : writing'[k] = writing[k]
      BY <1>3 DEF FlowInv, FlowTyped
    <2>2. FlowTyped'
      BY <1>1, <1>3 DEF FlowInv, FlowTyped
    <2>3. Loops' /\ Mapped'
      BY <1>2, <1>3, <2>1 DEF FlowInv, Loops, Mapped
    <2>4. \A g \in Tunnels : Flowing(g)' = Flowing(g)
      BY <1>1, <1>3 DEF Flowing
    <2>5. FlowsCounted'
      BY <1>1, <1>3, <2>4 DEF FlowInv, FlowsCounted
    <2> QED
      BY <2>2, <2>3, <2>5 DEF FlowInv
  <1>4. ASSUME NEW f \in FreeFlows, client[l] = Nil,
               activeUDP' = [activeUDP EXCEPT ![tunnelOf[l]] = @ + 1],
               client' = [client EXCEPT ![l] = f], open' = open \cup {f},
               reader' = [reader EXCEPT ![f] = l], writing' = [writing EXCEPT ![l] = f]
        PROVE  FlowInv'
    <2>1. f \in Flows /\ f # Nil /\ \A k \in Listeners : writing[k] # f /\ client[k] # f
      BY <1>4 DEF FreeFlows
    <2>2. tunnelOf[l] \in Tunnels
      BY <1>1 DEF ListenInv, Sockets
    <2>3. /\ writing'[l] = f /\ client'[l] = f
          /\ \A k \in Listeners \ {l} : writing'[k] = writing[k] /\ client'[k] = client[k]
      BY <1>4 DEF FlowInv, FlowTyped
    <2>4. activeUDP' \in [Tunnels -> Nat]
      BY <1>4, <2>2 DEF FlowInv, FlowTyped
    <2>5. FlowTyped'
      BY <1>1, <1>4, <2>1, <2>4 DEF FlowInv, FlowTyped
    <2>6. Loops'
      BY <1>2, <1>4, <2>1, <2>3 DEF FlowInv, Loops
    <2>7. Mapped'
      BY <1>4, <2>3 DEF FlowInv, FlowTyped, Mapped
    <2>8. ASSUME NEW g \in Tunnels PROVE activeUDP'[g] = uncounted'[g] + Cardinality(Flowing(g)')
      <3>1. /\ uncounted'[g] = uncounted[g] /\ uncounted[g] \in Nat
            /\ activeUDP[g] = uncounted[g] + Cardinality(Flowing(g))
        BY <1>1 DEF FlowInv, FlowTyped, FlowsCounted
      <3>2. CASE tunnelOf[l] = g
        <4>1. activeUDP'[g] = activeUDP[g] + 1
          BY <1>4, <3>2 DEF FlowInv, FlowTyped
        <4>2. PICK S, T : S = Flowing(g) /\ T = Flowing(g)'
          OBVIOUS
        <4>3. l \notin S /\ T = S \cup {l}
          BY <1>1, <1>4, <2>1, <2>3, <3>2, <4>2 DEF Flowing
        <4>4. IsFiniteSet(S)
          BY <4>2, Finite
        <4>5. Cardinality(S) \in Nat /\ Cardinality(T) = Cardinality(S) + 1
          BY <4>3, <4>4, CountUp
        <4> QED
          BY <3>1, <4>1, <4>2, <4>5
      <3>3. CASE tunnelOf[l] # g
        <4>1. activeUDP'[g] = activeUDP[g]
          BY <1>4, <3>3 DEF FlowInv, FlowTyped
        <4>2. Flowing(g)' = Flowing(g)
          BY <1>1, <2>3, <3>3 DEF Flowing
        <4> QED
          BY <3>1, <4>1, <4>2
      <3> QED
        BY <3>2, <3>3
    <2>9. FlowsCounted'
      BY <2>8 DEF FlowsCounted
    <2> QED
      BY <2>5, <2>6, <2>7, <2>9 DEF FlowInv
  <1> QED
    BY <1>3, <1>4 DEF UdpPacket

(* The write, and the removal of the entry when it has failed.             *)
LEMMA WriteFlows ==
  ASSUME ListenInv, FlowInv, NEW l \in Listeners, UdpWrite(l) \/ UdpDelete(l)
  PROVE  FlowInv'
  <1>1. CASE UdpWrite(l)
    <2>1. /\ loop[l] = "write" /\ UNCHANGED <<tunnelOf, client, reader, activeUDP, uncounted>>
          /\ \/ /\ loop' = [loop EXCEPT ![l] = "read"] /\ open' = open
                /\ writing' = [writing EXCEPT ![l] = Nil]
             \/ /\ loop' = [loop EXCEPT ![l] = "delete"] /\ open' = open \ {writing[l]}
                /\ writing' = writing
      BY <1>1 DEF UdpWrite
    <2>2. FlowTyped'
      BY <2>1 DEF FlowInv, FlowTyped
    <2>3. /\ \A k \in Listeners \ {l} : loop'[k] = loop[k] /\ writing'[k] = writing[k]
          /\ \/ loop'[l] = "read"
             \/ loop'[l] = "delete" /\ writing'[l] = writing[l] /\ writing[l] \notin open'
          /\ open' \subseteq open
      BY <2>1 DEF FlowInv, FlowTyped, ListenInv, SocketTyped
    <2>4. Loops' /\ Mapped'
      BY <2>1, <2>3 DEF FlowInv, Loops, Mapped
    <2>5. \A g \in Tunnels : Flowing(g)' = Flowing(g)
      BY <2>1 DEF Flowing
    <2>6. FlowsCounted'
      BY <2>1, <2>5 DEF FlowInv, FlowsCounted
    <2> QED
      BY <2>2, <2>4, <2>6 DEF FlowInv
  <1>2. CASE UdpDelete(l)
    <2>1. /\ loop[l] = "delete" /\ client' = [client EXCEPT ![l] = Nil]
          /\ uncounted' = [uncounted EXCEPT ![tunnelOf[l]] = IF client[l] = Nil THEN @ ELSE @ + 1]
          /\ writing' = [writing EXCEPT ![l] = Nil] /\ loop' = [loop EXCEPT ![l] = "read"]
          /\ UNCHANGED <<tunnelOf, open, reader, activeUDP>>
      BY <1>2 DEF UdpDelete
    <2>2. /\ client' \in [Listeners -> Flows \cup {Nil}] /\ uncounted' \in [Tunnels -> Nat]
          /\ client'[l] = Nil /\ \A k \in Listeners \ {l} : client'[k] = client[k]
          /\ FlowsCounted'
      BY <2>1, FlowDropped
    <2>3. FlowTyped'
      BY <2>1, <2>2 DEF FlowInv, FlowTyped
    <2>4. loop'[l] = "read" /\ \A k \in Listeners \ {l} : loop'[k] = loop[k] /\ writing'[k] = writing[k]
      BY <2>1 DEF FlowInv, FlowTyped, ListenInv, SocketTyped
    <2>5. Loops'
      BY <2>1, <2>2, <2>4 DEF FlowInv, Loops
    <2>6. client[l] \notin open
      BY <2>1 DEF FlowInv, FlowTyped, Loops
    <2>7. Mapped'
      BY <2>1, <2>2, <2>6 DEF FlowInv, Mapped
    <2> QED
      BY <2>2, <2>3, <2>5, <2>7 DEF FlowInv
  <1> QED
    BY <1>1, <1>2


(* The reader of a flow ends.                                              *)
LEMMA ReaderFlows ==
  ASSUME ListenInv, FlowInv, NEW f \in Flows, ReaderEnds(f)
  PROVE  FlowInv'
  <1>1. PICK l : l = reader[f]
    OBVIOUS
  <1>2. l \in Listeners
    BY <1>1 DEF ReaderEnds, FlowInv, FlowTyped
  <1>3. /\ UNCHANGED <<loop, tunnelOf, writing, uncounted>>
        /\ reader' = [reader EXCEPT ![f] = Nil]
        /\ client' = [client EXCEPT ![l] = IF client[l] = f THEN Nil ELSE client[l]]
        /\ open' = IF client[l] = f THEN open \ {f} ELSE open
        /\ activeUDP' = IF client[l] = f THEN [activeUDP EXCEPT ![tunnelOf[l]] = @ - 1] ELSE activeUDP
    BY <1>1, <1>2 DEF ReaderEnds, socketVars, FlowInv, FlowTyped
  <1>4. CASE client[l] # f
    <2>1. client' = client /\ open' = open /\ activeUDP' = activeUDP
      BY <1>2, <1>3, <1>4 DEF FlowInv, FlowTyped
    <2>2. FlowTyped'
      BY <1>3, <2>1 DEF FlowInv, FlowTyped
    <2>3. Loops' /\ Mapped'
      BY <1>3, <2>1 DEF FlowInv, Loops, Mapped
    <2>4. \A g \in Tunnels : Flowing(g)' = Flowing(g)
      BY <1>3, <2>1 DEF Flowing
    <2>5. FlowsCounted'
      BY <1>3, <2>1, <2>4 DEF FlowInv, FlowsCounted
    <2> QED
      BY <2>2, <2>3, <2>5 DEF FlowInv
  <1>5. CASE client[l] = f
    <2>1. /\ client' = [client EXCEPT ![l] = Nil] /\ open' = open \ {f}
          /\ activeUDP' = [activeUDP EXCEPT ![tunnelOf[l]] = @ - 1]
      BY <1>3, <1>5
    <2>2. client'[l] = Nil /\ \A k \in Listeners \ {l} : client'[k] = client[k]
      BY <1>2, <2>1 DEF FlowInv, FlowTyped
    <2>3. tunnelOf[l] \in Tunnels /\ client[l] # Nil
      BY <1>2, <1>5, FlowHasTunnel
    <2>4. PICK h : h = tunnelOf[l]
      OBVIOUS
    <2>5. PICK S, T : S = Flowing(h) /\ T = Flowing(h)'
      OBVIOUS
    <2>6. l \in S /\ T = S \ {l} /\ IsFiniteSet(S)
      BY <1>2, <1>3, <2>2, <2>3, <2>4, <2>5, Finite DEF Flowing
    <2>7. Cardinality(S) \in Nat /\ Cardinality(S) >= 1 /\ Cardinality(T) = Cardinality(S) - 1
      BY <2>6, CountDown
    <2>8. activeUDP[h] = uncounted[h] + Cardinality(S) /\ uncounted[h] \in Nat /\ h \in Tunnels
      BY <2>3, <2>4, <2>5 DEF FlowInv, FlowTyped, FlowsCounted
    <2>9. activeUDP[h] - 1 \in Nat /\ activeUDP[h] - 1 = uncounted[h] + Cardinality(T)
      BY <2>7, <2>8
    <2>10. activeUDP'[h] = activeUDP[h] - 1 /\ \A g \in Tunnels \ {h} : activeUDP'[g] = activeUDP[g]
      BY <2>1, <2>4, <2>8 DEF FlowInv, FlowTyped
    <2>11. activeUDP' \in [Tunnels -> Nat]
      BY <2>1, <2>4, <2>8, <2>9 DEF FlowInv, FlowTyped
    <2>12. FlowTyped'
      BY <1>3, <2>1, <2>11 DEF FlowInv, FlowTyped
    <2>13. Loops' /\ Mapped'
      BY <1>3, <1>5, <2>1, <2>2 DEF FlowInv, FlowTyped, Loops, Mapped
    <2>14. \A g \in Tunnels \ {h} : Flowing(g)' = Flowing(g)
      BY <1>3, <2>2, <2>4 DEF Flowing
    <2>15. FlowsCounted'
      BY <1>3, <2>5, <2>9, <2>10, <2>14 DEF FlowInv, FlowsCounted
    <2> QED
      BY <2>12, <2>13, <2>15 DEF FlowInv
  <1> QED
    BY <1>4, <1>5

(* No step disturbs the part of the invariant about the UDP flows.         *)
LEMMA FlowStep ==
  ASSUME ListenInv, FlowInv, [Next]_vars
  PROVE  FlowInv'
  <1>1. CASE HandlerStep \/ ServerStep \/ HupStore \/ HupApply \/ Shutdown \/ ContextDone
    BY <1>1, HandlerFlows
  <1>2. CASE ProxyStep
    <2>1. ASSUME NEW l \in Listeners, LoopEnd(l) \/ LoopFails(l) \/ UdpPacket(l) \/ UdpWrite(l) \/ UdpDelete(l)
          PROVE  FlowInv'
      BY <2>1, LoopEnds, PacketFlows, WriteFlows
    <2>2. ASSUME NEW f \in Flows, ReaderEnds(f) PROVE FlowInv'
      BY <2>2, ReaderFlows
    <2>3. CASE \/ \E l \in Listeners : TcpAccept(l)
               \/ \E c \in Conns : TcpDialFails(c) \/ TcpDialed(c) \/ TcpEnds(c)
               \/ \E s \in Slots : PortTaken(s)
      <3>1. UNCHANGED <<flowVars, loop, tunnelOf>>
        BY <2>3 DEF TcpAccept, TcpDialFails, TcpDialed, TcpEnds, PortTaken, socketVars
      <3> QED
        BY <3>1, FlowFrame
    <2> QED
      BY <1>2, <2>1, <2>2, <2>3 DEF ProxyStep
  <1>3. CASE UNCHANGED vars
    BY <1>3, FlowFrame DEF vars, pmVars, socketVars
  <1> QED
    BY <1>1, <1>2, <1>3 DEF Next

-----------------------------------------------------------------------------
(* The TCP connections.                                                    *)

ConnInv == ConnTyped /\ ConnsCounted

(* A step that leaves the connections alone.                               *)
LEMMA ConnFrame ==
  ASSUME ConnInv, UNCHANGED connVars
  PROVE  ConnInv'
  <1>1. \A g \in Tunnels : Connecting(g)' = Connecting(g)
    BY DEF Connecting, connVars
  <1> QED
    BY <1>1 DEF ConnInv, ConnTyped, ConnsCounted, connVars

(* handleTCPProxy accepts a connection and counts it.                      *)
LEMMA AcceptConns ==
  ASSUME ListenInv, ConnInv, NEW l \in Listeners, TcpAccept(l)
  PROVE  ConnInv'
  <1>1. PICK c \in Conns : /\ conn[c] = "none"
                           /\ conn' = [conn EXCEPT ![c] = "dialing"]
                           /\ connOf' = [connOf EXCEPT ![c] = tunnelOf[l]]
    BY DEF TcpAccept
  <1>2. activeTCP' = [activeTCP EXCEPT ![tunnelOf[l]] = @ + 1] /\ socket[l] = "open"
    BY DEF TcpAccept
  <1>3. tunnelOf[l] \in Tunnels
    BY <1>2 DEF ListenInv, Sockets
  <1>4. PICK h \in Tunnels : h = tunnelOf[l]
    BY <1>3
  <1>5. ConnTyped'
    BY <1>1, <1>2, <1>4 DEF ConnInv, ConnTyped
  <1>6. /\ conn'[c] = "dialing" /\ connOf'[c] = h
        /\ \A d \in Conns \ {c} : conn'[d] = conn[d] /\ connOf'[d] = connOf[d]
        /\ activeTCP'[h] = activeTCP[h] + 1 /\ \A g \in Tunnels \ {h} : activeTCP'[g] = activeTCP[g]
    BY <1>1, <1>2, <1>4 DEF ConnInv, ConnTyped
  <1>7. PICK S, T : S = Connecting(h) /\ T = Connecting(h)'
    OBVIOUS
  <1>8. c \notin S /\ T = S \cup {c}
    BY <1>1, <1>6, <1>7 DEF Connecting
  <1>9. IsFiniteSet(S)
    BY <1>7, Finite
  <1>10. Cardinality(S) \in Nat /\ Cardinality(T) = Cardinality(S) + 1
    BY <1>8, <1>9, CountUp
  <1>11. \A g \in Tunnels \ {h} : Connecting(g)' = Connecting(g)
    BY <1>1, <1>6 DEF Connecting
  <1>12. ConnsCounted'
    BY <1>6, <1>7, <1>10, <1>11 DEF ConnInv, ConnsCounted
  <1> QED
    BY <1>5, <1>12 DEF ConnInv

(* A connection that was copied from is counted down once.                 *)
LEMMA EndConns ==
  ASSUME ConnInv, NEW c \in Conns, TcpEnds(c)
  PROVE  ConnInv'
  <1>1. /\ conn[c] = "copying" /\ conn' = [conn EXCEPT ![c] = "none"]
        /\ connOf' = [connOf EXCEPT ![c] = Nil]
        /\ activeTCP' = [activeTCP EXCEPT ![connOf[c]] = @ - 1]
    BY DEF TcpEnds
  <1>2. PICK h \in Tunnels : h = connOf[c]
    BY <1>1 DEF ConnInv, ConnsCounted
  <1>3. /\ conn'[c] = "none" /\ connOf'[c] = Nil
        /\ \A d \in Conns \ {c} : conn'[d] = conn[d] /\ connOf'[d] = connOf[d]
        /\ activeTCP'[h] = activeTCP[h] - 1 /\ \A g \in Tunnels \ {h} : activeTCP'[g] = activeTCP[g]
    BY <1>1, <1>2 DEF ConnInv, ConnTyped
  <1>4. PICK S, T : S = Connecting(h) /\ T = Connecting(h)'
    OBVIOUS
  <1>5. c \in S /\ T = S \ {c}
    BY <1>1, <1>2, <1>3, <1>4 DEF Connecting
  <1>6. IsFiniteSet(S)
    BY <1>4, Finite
  <1>7. Cardinality(S) \in Nat /\ Cardinality(S) >= 1 /\ Cardinality(T) = Cardinality(S) - 1
    BY <1>5, <1>6, CountDown
  <1>8. activeTCP[h] = Cardinality(S)
    BY <1>4 DEF ConnInv, ConnsCounted
  <1>9. activeTCP[h] - 1 \in Nat
    BY <1>7, <1>8
  <1>10. ConnTyped'
    BY <1>1, <1>2, <1>9 DEF ConnInv, ConnTyped
  <1>11. \A g \in Tunnels \ {h} : Connecting(g)' = Connecting(g)
    BY <1>1, <1>2, <1>3 DEF Connecting
  <1>12. ConnsCounted'
    BY <1>3, <1>4, <1>7, <1>8, <1>11 DEF ConnInv, ConnsCounted
  <1> QED
    BY <1>10, <1>12 DEF ConnInv

(* No step disturbs the part of the invariant about the connections.       *)
LEMMA ConnStep ==
  ASSUME ListenInv, ConnInv, [Next]_vars
  PROVE  ConnInv'
  <1>1. CASE HandlerStep \/ ServerStep \/ HupStore \/ HupApply \/ Shutdown \/ ContextDone
    BY <1>1, HandlersKeepFlows, ConnFrame
  <1>2. ASSUME NEW c \in Conns, TcpDialFails(c) \/ TcpDialed(c) PROVE ConnInv'
    <2>1. /\ conn[c] = "dialing" /\ UNCHANGED <<connOf, activeTCP>>
          /\ \E v \in {"failed", "copying"} : conn' = [conn EXCEPT ![c] = v]
      BY <1>2 DEF TcpDialFails, TcpDialed
    <2>2. ConnTyped'
      BY <2>1 DEF ConnInv, ConnTyped
    <2>3. conn'[c] \in {"failed", "copying"} /\ \A d \in Conns \ {c} : conn'[d] = conn[d]
      BY <2>1 DEF ConnInv, ConnTyped
    <2>4. \A g \in Tunnels : Connecting(g)' = Connecting(g)
      BY <2>1, <2>3 DEF Connecting
    <2>5. ConnsCounted'
      BY <2>1, <2>3, <2>4 DEF ConnInv, ConnsCounted
    <2> QED
      BY <2>2, <2>5 DEF ConnInv
  <1>3. CASE ProxyStep
    <2>1. ASSUME NEW l \in Listeners, TcpAccept(l) PROVE ConnInv'
      BY <2>1, AcceptConns
    <2>2. ASSUME NEW c \in Conns, TcpEnds(c) PROVE ConnInv'
      BY <2>2, EndConns
    <2>3. CASE \/ \E l \in Listeners : LoopEnd(l) \/ LoopFails(l) \/ UdpPacket(l) \/ UdpWrite(l) \/ UdpDelete(l)
               \/ \E f \in Flows : ReaderEnds(f)
               \/ \E s \in Slots : PortTaken(s)
      <3>1. UNCHANGED connVars
        BY <2>3 DEF LoopEnd, LoopFails, UdpPacket, UdpWrite, UdpDelete, ReaderEnds, PortTaken
      <3> QED
        BY <3>1, ConnFrame
    <2> QED
      BY <1>2, <1>3, <2>1, <2>2, <2>3 DEF ProxyStep
  <1>4. CASE UNCHANGED vars
    BY <1>4, ConnFrame DEF vars, pmVars
  <1> QED
    BY <1>1, <1>3, <1>4 DEF Next


-----------------------------------------------------------------------------
(* The site.                                                               *)

(* The invariant holds at the start.                                       *)
LEMMA SiteStarts ==
  ASSUME Init
  PROVE  SiteInv
  <1> USE DEF Init, PmInit
  <1>1. Flags /\ TunnelTyped
    <2>1. native \in BOOLEAN /\ connected \in BOOLEAN /\ closing \in BOOLEAN
      BY Zenon
    <2>2. events \in 0 .. MaxEvent /\ made \in 0 .. MaxTunnel
      OBVIOUS
    <2>3. TunnelTyped
      BY <2>2 DEF TunnelTyped
    <2> QED
      BY <2>1, <2>2, <2>3 DEF Flags
  <1>2. Stage /\ Resources
    BY DEF Stage, Resources
  <1>3. HandlerTyped
    <2>1. Empty \in Lists
      BY EmptyLists
    <2>2. todo \in [Slots -> Work]
      BY DEF Idle, Work
    <2>3. asked \in [Slots -> [addr : Addrs \cup {NoAddr}, sync : BOOLEAN]]
      BY DEF Nothing
    <2> QED
      BY <2>1, <2>2, <2>3 DEF HandlerTyped
  <1>4. BlockTyped /\ BlockKept
    BY DEF BlockTyped, BlockKept
  <1>5. TableTyped
    BY DEF TableTyped
  <1>6. SocketTyped /\ FlowTyped /\ ConnTyped
    BY DEF SocketTyped, FlowTyped, ConnTyped
  <1>7. \A g : AllOwned(g) = {}
    BY DEF AllOwned
  <1>8. Sockets /\ Starting /\ OneListener
    BY DEF Sockets, Starting, OneListener
  <1>9. Serving
    BY <1>7 DEF Serving
  <1>10. Updating /\ Asked
    BY DEF Updating, Asked
  <1>11. Fresh
    BY DEF Fresh
  <1>12. Loops /\ Mapped
    BY DEF Loops, Mapped
  <1>13. \A g \in Tunnels : Flowing(g) = {} /\ Connecting(g) = {}
    BY DEF Flowing, Connecting
  <1>14. Cardinality({}) = 0
    BY FS_EmptySet
  <1>15. FlowsCounted
    <2>1. ASSUME NEW g \in Tunnels PROVE activeUDP[g] = 0 /\ uncounted[g] = 0 /\ Cardinality(Flowing(g)) = 0
      BY <2>1, <1>13, <1>14
    <2>2. ASSUME NEW g \in Tunnels PROVE activeUDP[g] = uncounted[g] + Cardinality(Flowing(g))
      <3>1. activeUDP[g] = 0 /\ uncounted[g] = 0 /\ Cardinality(Flowing(g)) = 0
        BY <2>1
      <3> HIDE DEF Init, PmInit
      <3> QED
        BY <3>1
    <2> QED
      BY <2>2 DEF FlowsCounted
  <1>16. ConnsCounted
    BY <1>13, <1>14 DEF ConnsCounted
  <1> QED
    BY <1>1, <1>2, <1>3, <1>4, <1>5, <1>6, <1>8, <1>9, <1>10, <1>11, <1>12, <1>15, <1>16 DEF SiteInv

(* Every step of the handlers, of the goroutines beside them and of the    *)
(* shutdown preserves it.                                                  *)
LEMMA SiteSteps ==
  ASSUME SiteInv, [Next]_vars
  PROVE  SiteInv'
  <1>1. Flags /\ TunnelInv /\ HandlerTyped /\ BlockTyped /\ BlockKept /\ ManagerInv /\ FlowInv /\ ConnInv
    BY DEF SiteInv, TunnelInv, ManagerInv, ListenInv, FlowInv, ConnInv
  <1>2. Flags'
    BY <1>1, FlagsStep
  <1>3. TunnelInv'
    BY <1>1, TunnelStep
  <1>4. HandlerTyped'
    BY <1>1, HandlerTypedStep DEF ManagerInv
  <1>5. BlockTyped' /\ BlockKept'
    BY <1>1, BlockStep
  <1>6. ManagerInv'
    BY <1>1, ManagerStep
  <1>7. FlowInv'
    BY <1>1, FlowStep DEF ManagerInv
  <1>8. ConnInv'
    BY <1>1, ConnStep DEF ManagerInv
  <1> QED
    BY <1>2, <1>3, <1>4, <1>5, <1>6, <1>7, <1>8 DEF SiteInv, TunnelInv, ManagerInv, ListenInv, FlowInv, ConnInv

(* The invariant of the site: what the tunnel, the managers, their         *)
(* listeners and what goes through them look like at every stage of a      *)
(* handler, whatever the SIGHUP goroutine, the goroutines of old managers  *)
(* and the shutdown do meanwhile.                                          *)
THEOREM SiteInductive == Spec => []SiteInv
  <1>1. Init => SiteInv
    BY SiteStarts
  <1>2. SiteInv /\ [Next]_vars => SiteInv'
    BY SiteSteps
  <1> QED
    BY <1>1, <1>2, PTL DEF Spec

(* Every variable keeps its type: in particular activeTCP and activeUDP    *)
(* never fall below zero, although flows and connections end in three      *)
(* places.                                                                 *)
THEOREM SiteTypeCorrect == Spec => []TypeOK
  <1>1. ASSUME SiteInv PROVE TypeOK
    <2> USE DEF SiteInv
    <2>1. /\ native \in BOOLEAN /\ closing \in BOOLEAN /\ events \in 0 .. MaxEvent
          /\ connected \in BOOLEAN
      BY <1>1 DEF Flags
    <2>2. /\ made \in 0 .. MaxTunnel /\ {tun, dev, pm, currentPM, gateway} \subseteq Tunnels \cup {Nil}
          /\ devices \subseteq Tunnels /\ left \subseteq Tunnels
          /\ active \subseteq Subnets /\ allowed \subseteq Subnets /\ routes \subseteq Subnets
      BY <1>1 DEF TunnelTyped
    <2>3. /\ handler \in {"idle", "closed", "built", "created", "updating", "starting", "gateway",
                          "tail", "crashed"}
          /\ cause \in {"connect", "targets", "sync"} /\ msg \in Lists
          /\ todo \in [Slots -> Work] /\ callee \in Tunnels \cup {Nil}
          /\ asked \in [Slots -> [addr : Addrs \cup {NoAddr}, sync : BOOLEAN]]
      BY <1>1, <2>2 DEF HandlerTyped
    <2>4. blocked \in [Tunnels -> BOOLEAN] /\ connectionBlocked \in BOOLEAN /\ missed \in BOOLEAN
          /\ hup \in {"idle", "apply"}
      BY <1>1 DEF BlockTyped
    <2>5. TableTyped /\ SocketTyped /\ FlowTyped /\ ConnTyped
      BY <1>1
    <2>6. {connected, connectionBlocked, missed} \subseteq BOOLEAN
      BY <2>1, <2>4
    <2> QED
      BY <2>1, <2>2, <2>3, <2>4, <2>5, <2>6 DEF TypeOK, TableTyped, SocketTyped, FlowTyped, ConnTyped
  <1> QED
    BY <1>1, SiteInductive, PTL

(* What is listened on is what the table says, whatever the order of       *)
(* AddTarget, RemoveTarget, Start, Stop, failed listens and goroutines     *)
(* that give up: one listener for each target of a running manager.        *)
THEOREM SiteListenersFollowTable == Spec => []ListenersFollowTable
  <1>1. ASSUME SiteInv PROVE ListenersFollowTable
    <2>1. ASSUME NEW g \in Tunnels, NEW s \in Slots, Owned(g, s) # {}
          PROVE  Cardinality(Owned(g, s)) = 1
      <3>1. PICK l \in Owned(g, s) : TRUE
        BY <2>1
      <3>2. ASSUME NEW k \in Owned(g, s) PROVE k = l
        BY <1>1, <3>1, <3>2 DEF SiteInv, OneListener, Owned, AllOwned
      <3>3. Owned(g, s) = {l}
        BY <3>1, <3>2
      <3> QED
        BY <3>3, FS_Singleton
    <2>2. Serving
      BY <1>1 DEF SiteInv
    <2> QED
      BY <2>1, <2>2 DEF ListenersFollowTable, Serving
  <1> QED
    BY <1>1, SiteInductive, PTL

(* No open connection and no open flow is missing from the counters, none  *)
(* is counted twice whoever removes it, and a flow that no listener maps   *)
(* is closed.                                                              *)
THEOREM SiteFlowsAccounted == Spec => []FlowsAccounted
  <1>1. ASSUME SiteInv PROVE FlowsAccounted
    <2>1. FlowsCounted /\ ConnsCounted
      BY <1>1 DEF SiteInv
    <2>2. open \subseteq {client[l] : l \in Listeners}
      BY <1>1 DEF SiteInv, Mapped
    <2>3. ASSUME NEW g \in Tunnels
          PROVE  /\ Cardinality({c \in Conns : connOf[c] = g /\ conn[c] \in {"dialing", "copying"}}) <= activeTCP[g]
                 /\ activeTCP[g] <= Cardinality(Connecting(g))
      <3>1. PICK live : live = {c \in Conns : connOf[c] = g /\ conn[c] \in {"dialing", "copying"}}
        OBVIOUS
      <3>2. live \subseteq Connecting(g)
        BY <3>1 DEF Connecting
      <3>3. IsFiniteSet(Connecting(g))
        BY Finite
      <3>4. Cardinality(live) <= Cardinality(Connecting(g)) /\ Cardinality(Connecting(g)) \in Nat
        BY <3>2, <3>3, FS_Subset, FS_CardinalityType
      <3>5. activeTCP[g] = Cardinality(Connecting(g))
        BY <2>1 DEF ConnsCounted
      <3> QED
        BY <3>1, <3>4, <3>5
    <2>4. ASSUME NEW g \in Tunnels
          PROVE  /\ Cardinality(Flowing(g)) <= activeUDP[g]
                 /\ activeUDP[g] <= Cardinality(Flowing(g)) + uncounted[g]
      <3>1. IsFiniteSet(Flowing(g))
        BY Finite
      <3>2. Cardinality(Flowing(g)) \in Nat
        BY <3>1, FS_CardinalityType
      <3>3. uncounted[g] \in Nat
        BY <1>1 DEF SiteInv, FlowTyped
      <3>4. activeUDP[g] = uncounted[g] + Cardinality(Flowing(g))
        BY <2>1 DEF FlowsCounted
      <3> QED
        BY <3>2, <3>3, <3>4
    <2> QED
      BY <2>2, <2>3, <2>4 DEF FlowsAccounted, Flowing, Connecting
  <1> QED
    BY <1>1, SiteInductive, PTL

(* The published manager obeys the block of the last reload that was       *)
(* applied, but for a change between load and publication.                 *)
THEOREM SiteBlockApplied == Spec => []BlockApplied
  <1>1. ASSUME SiteInv PROVE BlockApplied
    BY <1>1 DEF SiteInv, BlockKept, BlockApplied
  <1> QED
    BY <1>1, SiteInductive, PTL

(* Between messages the table of targets is what the server last asked     *)
(* for, where handleSync reads an address as updateTargets does.           *)
THEOREM SiteTableAsAsked == Spec => []TableAsAsked
  <1>1. ASSUME SiteInv PROVE TableAsAsked
    BY <1>1 DEF SiteInv, Asked, Right, Clear, TableAsAsked
  <1> QED
    BY <1>1, SiteInductive, PTL

(* Devices, gateway, allowed subnets and routes belong to the tunnel there *)
(* is, but for what handleConnect left behind on an error.                 *)
THEOREM SiteTunnelResources == Spec => []TunnelResources
  <1>1. ASSUME SiteInv PROVE TunnelResources
    BY <1>1 DEF SiteInv, Resources, TunnelResources
  <1> QED
    BY <1>1, SiteInductive, PTL
=============================================================================
