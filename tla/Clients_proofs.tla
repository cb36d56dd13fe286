--------------------------- MODULE Clients_proofs ---------------------------
(***************************************************************************)
(* Proofs about the client service with its proxy and its access log, for  *)
(* any addresses, services, rules and configurations and any number of     *)
(* connections, sessions, netstacks and bandwidth checks.                  *)
(***************************************************************************)
EXTENDS ClientService, AccessLog_proofs

(* The netstacks: the current one and the open ones have been made, and    *)
(* there is room for the one that is about to be.                          *)
NetTyped ==
    /\ made \in 0 .. MaxNet
    /\ tnet \in 0 .. made
    /\ open \subseteq 1 .. made
    /\ handler = "interface" => made < MaxNet

(* A native interface has no netstack.                                     *)
NativeBare == useNative => tnet = 0

RulesTyped ==
    /\ rules \in [Nets -> SUBSET Rules]
    /\ msg \subseteq Rules /\ old \subseteq Rules
    /\ certs \in Nat

(* SetBlocked still has its value to apply to the proxy in use.            *)
Pending == hup # Nil /\ hup.net = tnet

BlockTyped ==
    /\ blocked \in [Nets -> BOOLEAN] /\ sBlocked \in BOOLEAN /\ raced \in BOOLEAN
    /\ \A n \in Nets : n > made => blocked[n] = FALSE
    /\ hup # Nil => hup.value = sBlocked /\ hup.net \in 0 .. made

(* BlockReaches, also while SetBlocked is busy with an older proxy.        *)
BlockKept ==
    (handler \in {"idle", "interface", "peers", "targets"} /\ ~ Pending /\ tnet \in open)
    => blocked[tnet] = sBlocked \/ raced = TRUE

(* Before s.blocked is loaded, the new proxy blocks only if it is to.      *)
BlockLoad ==
    (handler = "block" /\ ~ Pending /\ tnet \in open)
    => blocked[tnet] = FALSE \/ blocked[tnet] = sBlocked

(* What a reading of n bytes adds to what is reported, after one of l.     *)
Gain(n, l) == IF l = -1 THEN 0 ELSE IF n < l THEN n ELSE n - l

Readings == [seen : BOOLEAN, bytes : Nat \cup {-1}, overtaken : BOOLEAN]

BandTyped ==
    /\ counter \in Nat /\ carried \in Nat /\ reported \in Nat
    /\ last \in Nat \cup {-1}
    /\ reading \in [Checks -> Readings]

(* Until a check is overtaken, what has been reported, together with what  *)
(* the reading a check holds will add, and what the device has counted     *)
(* since then, has been carried.                                           *)
BandKept ==
    \/ overlapped
    \/ /\ reported + Gain(counter, last) <= carried
       /\ \A g \in Checks :
             LET n == reading[g].bytes
             IN  (reading[g].seen /\ ~ reading[g].overtaken)
                 => IF n = -1 THEN reported <= carried
                    ELSE reported + Gain(n, last) + Gain(counter, n) <= carried

(* The tables of the proxy and its connections.                            *)
Dests == Addrs \X Services
Stages == {"none", "new", "http", "dialled", "ending"}
Conns == [stage : Stages, orig : Addrs \cup {Nil}, target : Addrs \cup {Nil},
          session : 0 .. MaxSession, must : BOOLEAN, tracked : BOOLEAN]
Packets == [port : Ports \cup {NoPort}, dst : Addrs, svc : Services, opening : BOOLEAN,
            name : Names, resource : BOOLEAN]

TablesTyped ==
    /\ nat \in [Tuples -> Addrs \cup {Nil}] /\ reverse \in [Tuples -> Addrs \cup {Nil}]
    /\ destRewrite \in [Dests -> Addrs \cup {Nil}]
    /\ resource \subseteq Dests

GhostsTyped ==
    /\ prescribed \in [Dests -> SUBSET Addrs]
    /\ users \in [Tuples -> SUBSET Addrs]
    /\ revoked \subseteq Handlers

ConnTyped == conn \in [Handlers -> Conns]

PacketTyped ==
    resolving # Nil => resolving \in Packets /\ (resolving.svc = Icmp <=> resolving.port = NoPort)

FlowTyped == TablesTyped /\ GhostsTyped /\ ConnTyped /\ PacketTyped

(* A tuple that has been used for two destinations.                        *)
Shared(t) == \E d, e \in users[t] : d # e

(* A NAT entry t leads to an address a rule prescribed, and the tuple      *)
(* after NAT leads back unless another destination has used it.            *)
NatOK(t, back) ==
    /\ nat[t] \in prescribed[<<t[2], t[3]>>]
    /\ destRewrite[<<t[2], t[3]>>] # Nil
    /\ nat[t] \notin Loopback => t[2] \in users[back] /\ (reverse[back] # Nil \/ Shared(back))

NatKept ==
    /\ \A x \in Dests : destRewrite[x] # Nil => destRewrite[x] \in prescribed[x]
    /\ \A t \in Handlers : reverse[t] # Nil => reverse[t] \in users[t]
    /\ \A t, back \in Tuples : (nat[t] # Nil /\ back = <<t[1], nat[t], t[3]>>) => NatOK(t, back)

(* The packet that is held up has its resource in the table already.       *)
PacketKept == (resolving # Nil /\ resolving.resource) => <<resolving.dst, resolving.svc>> \in resource

(* A connection's destination is one the rules lead to, its resource is in *)
(* the table unless an old NAT entry rewrote it, and its replies find back.*)
ConnOK(t) ==
    /\ conn[t].orig \in users[t]
    /\ t[2] \in prescribed[<<conn[t].orig, t[3]>>] \/ destRewrite[<<t[2], t[3]>>] # Nil
    /\ conn[t].must => <<t[2], t[3]>> \in resource \/ (conn[t].tracked /\ t[2] # conn[t].orig)
    /\ reverse[t] # Nil \/ t[2] = conn[t].orig \/ Shared(t) \/ t \in revoked
    /\ conn[t].stage = "dialled" =>
          /\ conn[t].target \in prescribed[<<conn[t].orig, t[3]>>] \cup prescribed[<<t[2], t[3]>>]
          /\ conn[t].must => conn[t].session # 0 \/ (conn[t].tracked /\ t[2] # conn[t].orig)

ConnKept == \A t \in Handlers : conn[t].stage # "none" => ConnOK(t)

FlowInv == FlowTyped /\ NatKept /\ PacketKept /\ ConnKept

(* A handler that has a flush to do, or under way, is past its session.    *)
Busy == \A t \in Handlers : (t \in due \/ batch[t] # {}) => conn[t].stage = "ending"

USE NetProxyAssumption, ServiceAssumption DEF Nets

-----------------------------------------------------------------------------
(* Who changes what.                                                       *)

(* The service changes nothing of the connections, and of the log it only  *)
(* signals Close.                                                          *)
LEMMA ServiceFrame ==
  ASSUME ServiceStep
  PROVE  UNCHANGED flowVars /\ (UNCHANGED logVars \/ CloseLog)
  <1> USE DEF proxyVars, flowVars
  <1>1. CASE LoadRemoteConfig \/ (\E chain \in 0 .. MaxCheck, c \in Configs : ReceiveConfig(chain, c))
    BY <1>1 DEF LoadRemoteConfig, ReceiveConfig
  <1>2. CASE CreateInterface \/ CreateFails \/ CreateNative \/ CreateCrashes
    BY <1>2 DEF CreateInterface, CreateFails, CreateNative, CreateCrashes
  <1>3. CASE LoadBlocked \/ ApplyBlocked \/ EnsurePeers
    BY <1>3 DEF LoadBlocked, ApplyBlocked, EnsurePeers
  <1>4. CASE (\E r \in msg : AddRule(r)) \/ (\E r \in old : RemoveRule(r)) \/ TargetsDone
    BY <1>4 DEF AddRule, RemoveRule, TargetsDone
  <1>5. CASE \E L \in Targets : AddTargets(L) \/ RemoveTargets(L)
    BY <1>5 DEF AddTargets, RemoveTargets, Targeted
  <1>6. CASE (\E gone, new \in Targets : UpdateTargets(gone, new)) \/ (\E c \in Configs : Sync(c))
    BY <1>6 DEF UpdateTargets, Targeted, Sync
  <1>7. CASE (\E cert \in 0 .. MaxCert : ChangeCert(cert)) \/ RemovePeer
             \/ (\E new \in SUBSET Ips \ {{}} : AddPeer(new)) \/ (\E new \in SUBSET Ips : UpdatePeer(new))
    BY <1>7 DEF ChangeCert, RemovePeer, AddPeer, UpdatePeer, ChangePeer
  <1>8. CASE (\E v \in BOOLEAN : StoreBlocked(v)) \/ SetBlocked \/ StartDirectUDPRelay
    BY <1>8 DEF StoreBlocked, SetBlocked, StartDirectUDPRelay
  <1>9. CASE Close \/ CloseDevice
    BY <1>9 DEF Close, CloseDevice
  <1>10. CASE Traffic \/ (\E g \in Checks : CheckReads(g)
                               \/ \E later \in BOOLEAN : CheckProcesses(g, later))
    BY <1>10 DEF Traffic, CheckReads, CheckProcesses
  <1> QED
    BY <1>1, <1>2, <1>3, <1>4, <1>5, <1>6, <1>7, <1>8, <1>9, <1>10 DEF ServiceStep

(* The rest changes nothing of the service, nor the rules or the block.    *)
LEMMA OtherFrame ==
  ASSUME [Next]_vars, ~ ServiceStep
  PROVE  UNCHANGED <<serviceVars, rules, blocked>>
  <1>1. CASE Packet
    <2>1. UNCHANGED serviceVars
      BY <1>1 DEF Packet
    <2>2. UNCHANGED <<rules, blocked>>
      <3>1. PICK p \in Ports \cup {NoPort}, d \in Addrs, svc \in Services, opening \in BOOLEAN :
                \/ PacketDirect(p, d, svc, opening)
                \/ PacketTracked(p, d, svc, opening)
                \/ PacketRewritten(p, d, svc, opening)
        BY <1>1 DEF Packet
      <3> QED
        BY <3>1 DEF PacketDirect, PacketTracked, PacketRewritten
    <2> QED
      BY <2>1, <2>2
  <1>2. CASE ProxyStep /\ UNCHANGED <<serviceVars, logVars, budget>>
    BY <1>2 DEF ProxyStep, Resolved, EchoSent, ResolveFails, EchoIgnored, EchoFails, EchoAnswered
  <1>3. CASE \E t \in Handlers : HandlerStep(t) /\ UNCHANGED <<serviceVars, budget>>
    BY <1>3 DEF HandlerStep, HandlerBlocked, HandlerHttp, HandlerDials, TcpEnds, UdpEnds, Ends,
                HandlerReleases, HttpEnds
  <1>4. CASE LogNext /\ UNCHANGED <<serviceVars, proxyVars, budget>>
    BY <1>4 DEF proxyVars
  <1>5. CASE UNCHANGED vars
    BY <1>5 DEF vars, proxyVars
  <1> QED
    BY <1>1, <1>2, <1>3, <1>4, <1>5 DEF Next

(* What concerns the netstacks: a configuration, an interface, the end.    *)
LEMMA NetFrame ==
  ASSUME ServiceStep
  PROVE  \/ \E chain \in 0 .. MaxCheck, c \in Configs : ReceiveConfig(chain, c)
         \/ CreateInterface \/ CreateFails \/ CreateNative \/ CloseDevice
         \/ UNCHANGED netVars /\ (handler' = "interface" => handler = "interface")
  <1> USE DEF configVars, handlerVars
  <1>1. CASE LoadRemoteConfig
    BY <1>1 DEF LoadRemoteConfig
  <1>2. CASE CreateCrashes
    BY <1>2 DEF CreateCrashes
  <1>3. CASE LoadBlocked \/ ApplyBlocked \/ EnsurePeers
    BY <1>3 DEF LoadBlocked, ApplyBlocked, EnsurePeers
  <1>4. CASE (\E r \in msg : AddRule(r)) \/ (\E r \in old : RemoveRule(r)) \/ TargetsDone
    BY <1>4 DEF AddRule, RemoveRule, TargetsDone
  <1>5. CASE \E L \in Targets : AddTargets(L) \/ RemoveTargets(L)
    BY <1>5 DEF AddTargets, RemoveTargets, Targeted
  <1>6. CASE (\E gone, new \in Targets : UpdateTargets(gone, new)) \/ (\E c \in Configs : Sync(c))
    BY <1>6 DEF UpdateTargets, Targeted, Sync
  <1>7. CASE (\E cert \in 0 .. MaxCert : ChangeCert(cert)) \/ RemovePeer
             \/ (\E new \in SUBSET Ips \ {{}} : AddPeer(new)) \/ (\E new \in SUBSET Ips : UpdatePeer(new))
    BY <1>7 DEF ChangeCert, RemovePeer, AddPeer, UpdatePeer, ChangePeer
  <1>8. CASE (\E v \in BOOLEAN : StoreBlocked(v)) \/ SetBlocked \/ StartDirectUDPRelay
    BY <1>8 DEF StoreBlocked, SetBlocked, StartDirectUDPRelay
  <1>9. CASE Close
    BY <1>9 DEF Close
  <1>10. CASE Traffic \/ (\E g \in Checks : CheckReads(g)
                               \/ \E later \in BOOLEAN : CheckProcesses(g, later))
    BY <1>10 DEF Traffic, CheckReads, CheckProcesses
  <1> QED
    BY <1>1, <1>2, <1>3, <1>4, <1>5, <1>6, <1>7, <1>8, <1>9, <1>10 DEF ServiceStep

(* The netstacks stay in their bounds.                                     *)
LEMMA NetStep == ASSUME NetTyped, [Next]_vars PROVE NetTyped'
  <1>1. CASE ~ ServiceStep
    BY <1>1, OtherFrame DEF NetTyped, serviceVars, configVars, handlerVars, netVars
  <1>2. CASE \E chain \in 0 .. MaxCheck, c \in Configs : ReceiveConfig(chain, c)
    BY <1>2 DEF NetTyped, ReceiveConfig, netVars
  <1>3. CASE CreateInterface \/ CreateFails
    <2>1. /\ \/ made' = made + 1 /\ tnet' = made' /\ open' \subseteq open \cup {made'}
             \/ made' = made /\ tnet' \in {tnet, 0} /\ open' = open
          /\ handler' # "interface"
      BY <1>3 DEF CreateInterface, CreateFails, NewNetstack
    <2>2. made \in 0 .. MaxNet /\ made < MaxNet /\ open \subseteq 1 .. made
      BY <1>3 DEF NetTyped, CreateInterface, CreateFails
    <2>3. open' \subseteq 1 .. made'
      <3>1. CASE made' = made + 1 /\ tnet' = made' /\ open' \subseteq open \cup {made'}
        BY <2>2, <3>1
      <3>2. CASE made' = made /\ tnet' \in {tnet, 0} /\ open' = open
        BY <2>2, <3>2
      <3> QED
        BY <2>1, <3>1, <3>2
    <2> QED
      BY <2>1, <2>2, <2>3 DEF NetTyped
  <1>4. CASE CreateNative
    <2>1. handler = "interface" /\ handler' # "interface" /\ tnet' = tnet
      BY <1>4 DEF CreateNative
    <2>2. \/ UNCHANGED <<made, open>>
          \/ made' = made + 1 /\ open' \subseteq open \cup {made'}
      BY <1>4 DEF CreateNative
    <2>3. made \in 0 .. MaxNet /\ made < MaxNet /\ open \subseteq 1 .. made /\ tnet \in 0 .. made
      BY <2>1 DEF NetTyped
    <2>4. open' \subseteq 1 .. made'
      <3>1. CASE UNCHANGED <<made, open>>
        BY <2>3, <3>1
      <3>2. CASE made' = made + 1 /\ open' \subseteq open \cup {made'}
        BY <2>3, <3>2
      <3> QED
        BY <2>2, <3>1, <3>2
    <2> QED
      BY <2>1, <2>2, <2>3, <2>4 DEF NetTyped
  <1>5. CASE CloseDevice
    <2>1. made' = made /\ tnet' = 0 /\ open' \subseteq open /\ handler' = handler
      BY <1>5 DEF CloseDevice, handlerVars
    <2> QED
      BY <2>1 DEF NetTyped
  <1>6. CASE UNCHANGED netVars /\ (handler' = "interface" => handler = "interface")
    BY <1>6 DEF NetTyped, netVars
  <1> QED
    BY <1>1, <1>2, <1>3, <1>4, <1>5, <1>6, NetFrame

(* Only a configuration without a native interface makes a netstack.       *)
LEMMA NativeStep == ASSUME NativeBare, [Next]_vars PROVE NativeBare'
  <1>1. CASE ~ ServiceStep
    <2>1. useNative' = useNative /\ tnet' = tnet
      BY <1>1, OtherFrame DEF serviceVars, configVars, netVars
    <2> QED
      BY <2>1, Zenon DEF NativeBare
  <1>2. CASE \E chain \in 0 .. MaxCheck, c \in Configs : ReceiveConfig(chain, c)
    <2>1. useNative' = useNative /\ tnet' = tnet
      BY <1>2 DEF ReceiveConfig, netVars
    <2> QED
      BY <2>1, Zenon DEF NativeBare
  <1>3. CASE CreateInterface \/ CreateFails
    BY <1>3, Zenon DEF NativeBare, CreateInterface, CreateFails
  <1>4. CASE CreateNative
    BY <1>4, Zenon DEF NativeBare, CreateNative
  <1>5. CASE CloseDevice
    BY <1>5, Zenon DEF NativeBare, CloseDevice
  <1>6. CASE UNCHANGED netVars
    <2>1. useNative' = useNative /\ tnet' = tnet
      BY <1>6 DEF netVars
    <2> QED
      BY <2>1, Zenon DEF NativeBare
  <1> QED
    BY <1>1, <1>2, <1>3, <1>4, <1>5, <1>6, NetFrame

(* A rule with a certificate is a rule.                                    *)
LEMMA RuleTls ==
  ASSUME NEW r \in Rules, NEW v \in Nat
  PROVE  [r EXCEPT !.tls = IF @ = 0 THEN 0 ELSE v] \in Rules
  BY DEF Rules

(* The rules keep their type.                                              *)
LEMMA RulesStep == ASSUME NetTyped, RulesTyped, [Next]_vars PROVE RulesTyped'
  <1> USE DEF RulesTyped
  <1>1. \A L \in Targets : L \subseteq Rules
    BY DEF Targets
  <1>2. \A R : (/\ R \subseteq Rules
               /\ rules' = IF tnet = 0 THEN rules ELSE [rules EXCEPT ![tnet] = R])
            => rules' \in [Nets -> SUBSET Rules]
    BY DEF NetTyped
  <1>3. ASSUME NEW r \in old, RemoveRule(r) PROVE RulesTyped'
    <2>1. RemoveSubnet(rules[tnet], r) \subseteq Rules /\ tnet # 0
      BY <1>3 DEF RemoveRule, RemoveSubnet, NetTyped
    <2>2. rules' = [rules EXCEPT ![tnet] = RemoveSubnet(rules[tnet], r)]
      BY <1>3 DEF RemoveRule
    <2> QED
      BY <1>2, <1>3, <2>1, <2>2 DEF RemoveRule
  <1>4. CASE ~ ServiceStep
    BY <1>4, OtherFrame DEF serviceVars, configVars, handlerVars
  <1>5. CASE LoadRemoteConfig \/ (\E chain \in 0 .. MaxCheck, c \in Configs : ReceiveConfig(chain, c))
    BY <1>5 DEF LoadRemoteConfig, ReceiveConfig, proxyVars, handlerVars
  <1>6. CASE CreateInterface \/ CreateFails \/ CreateNative \/ CreateCrashes
    BY <1>6 DEF CreateInterface, CreateFails, CreateNative, CreateCrashes, proxyVars
  <1>7. CASE LoadBlocked \/ ApplyBlocked \/ EnsurePeers
    BY <1>7 DEF LoadBlocked, ApplyBlocked, EnsurePeers, proxyVars
  <1>8. ASSUME NEW r \in msg, AddRule(r) PROVE RulesTyped'
    <2>1. Installed(r) \in Rules
      BY RuleTls DEF Installed
    <2>2. AddSubnet(rules[tnet], Installed(r)) \subseteq Rules /\ tnet # 0
      BY <1>8, <2>1 DEF AddRule, AddSubnet, NetTyped
    <2>3. rules' = [rules EXCEPT ![tnet] = AddSubnet(rules[tnet], Installed(r))]
      BY <1>8 DEF AddRule
    <2> QED
      BY <1>2, <1>8, <2>2, <2>3 DEF AddRule
  <1>9. CASE TargetsDone
    BY <1>9 DEF TargetsDone, proxyVars
  <1>10. CASE \E L \in Targets : AddTargets(L) \/ RemoveTargets(L)
    BY <1>1, <1>10 DEF AddTargets, RemoveTargets, Targeted, proxyVars
  <1>11. CASE \E gone, new \in Targets : UpdateTargets(gone, new)
    BY <1>1, <1>11 DEF UpdateTargets, Targeted, proxyVars
  <1>12. ASSUME NEW c \in Configs, Sync(c) PROVE RulesTyped'
    <2>1. certs' \in Nat /\ msg' = msg /\ old' = old
      BY <1>12 DEF Sync, configVars, handlerVars
    <2>2. {[r EXCEPT !.tls = IF @ = 0 THEN 0 ELSE certs'] : r \in c.targets} \subseteq Rules
      BY <2>1, RuleTls
    <2>3. rules' \in [Nets -> SUBSET Rules]
      BY <1>2, <1>12, <2>2 DEF Sync, ReplaceAll
    <2> QED
      BY <2>1, <2>3
  <1>13. CASE (\E cert \in 0 .. MaxCert : ChangeCert(cert)) \/ RemovePeer
             \/ (\E new \in SUBSET Ips \ {{}} : AddPeer(new)) \/ (\E new \in SUBSET Ips : UpdatePeer(new))
    BY <1>13 DEF ChangeCert, RemovePeer, AddPeer, UpdatePeer, ChangePeer, configVars, handlerVars,
                 proxyVars
  <1>14. CASE (\E v \in BOOLEAN : StoreBlocked(v)) \/ SetBlocked \/ StartDirectUDPRelay
    BY <1>14 DEF StoreBlocked, SetBlocked, StartDirectUDPRelay, configVars, handlerVars, proxyVars
  <1>15. CASE Close \/ CloseDevice
    BY <1>15 DEF Close, CloseDevice, handlerVars, proxyVars
  <1>16. CASE Traffic \/ (\E g \in Checks : CheckReads(g)
                               \/ \E later \in BOOLEAN : CheckProcesses(g, later))
    BY <1>16 DEF Traffic, CheckReads, CheckProcesses, configVars, handlerVars, proxyVars
  <1> QED
    BY <1>3, <1>4, <1>5, <1>6, <1>7, <1>8, <1>9, <1>10, <1>11, <1>12, <1>13, <1>14, <1>15, <1>16
       DEF ServiceStep

-----------------------------------------------------------------------------
(* The connection block.                                                   *)

(* The other steps leave the block alone, and the handler away from it.    *)
LEMMA BlockFrame ==
  ASSUME [Next]_vars
  PROVE  \/ CreateInterface \/ CreateFails \/ CreateNative \/ CloseDevice
         \/ LoadBlocked \/ ApplyBlocked \/ SetBlocked \/ (\E v \in BOOLEAN : StoreBlocked(v))
         \/ /\ UNCHANGED <<blocked, blockVars, netVars>>
            /\ \/ handler' = handler
               \/ {handler, handler'} \subseteq {"idle", "interface", "peers", "targets"}
               \/ handler' = "crashed"
  <1> USE DEF configVars, handlerVars, proxyVars
  <1>1. CASE LoadRemoteConfig \/ (\E chain \in 0 .. MaxCheck, c \in Configs : ReceiveConfig(chain, c))
    BY <1>1 DEF LoadRemoteConfig, ReceiveConfig
  <1>2. CASE EnsurePeers \/ CreateCrashes
    BY <1>2 DEF EnsurePeers, CreateCrashes
  <1>3. CASE (\E r \in msg : AddRule(r)) \/ (\E r \in old : RemoveRule(r)) \/ TargetsDone
    BY <1>3 DEF AddRule, RemoveRule, TargetsDone
  <1>4. CASE \E L \in Targets : AddTargets(L) \/ RemoveTargets(L)
    BY <1>4 DEF AddTargets, RemoveTargets, Targeted, Receive
  <1>5. CASE (\E gone, new \in Targets : UpdateTargets(gone, new)) \/ (\E c \in Configs : Sync(c))
    BY <1>5 DEF UpdateTargets, Targeted, Sync, Receive
  <1>6. CASE (\E cert \in 0 .. MaxCert : ChangeCert(cert)) \/ RemovePeer
             \/ (\E new \in SUBSET Ips \ {{}} : AddPeer(new)) \/ (\E new \in SUBSET Ips : UpdatePeer(new))
    BY <1>6 DEF ChangeCert, RemovePeer, AddPeer, UpdatePeer, ChangePeer
  <1>7. CASE StartDirectUDPRelay \/ Close
    BY <1>7 DEF StartDirectUDPRelay, Close
  <1>8. CASE Traffic \/ (\E g \in Checks : CheckReads(g)
                               \/ \E later \in BOOLEAN : CheckProcesses(g, later))
    BY <1>8 DEF Traffic, CheckReads, CheckProcesses
  <1>9. CASE ~ ServiceStep
    BY <1>9, OtherFrame DEF serviceVars
  <1> QED
    BY <1>1, <1>2, <1>3, <1>4, <1>5, <1>6, <1>7, <1>8, <1>9 DEF ServiceStep

(* No interleaving of handleConfig and SetBlocked leaves the proxy in use  *)
(* without the block, or with one that was lifted, unnoticed.              *)
LEMMA BlockStep ==
  ASSUME NetTyped, NativeBare, BlockTyped, BlockKept, BlockLoad, [Next]_vars
  PROVE  BlockTyped' /\ BlockKept' /\ BlockLoad'
  <1>0. /\ made \in 0 .. MaxNet /\ tnet \in 0 .. made /\ open \subseteq 1 .. made
        /\ tnet # 0 => tnet \in Nets
    BY DEF NetTyped
  <1>1. CASE (CreateInterface \/ CreateFails) /\ NewNetstack
    <2>1. /\ made' = made + 1 /\ tnet' = made + 1 /\ UNCHANGED <<blocked, sBlocked, hup, raced>>
          /\ made < MaxNet
          /\ \/ handler' = "block"
             \/ handler' = "idle" /\ open' = open
      BY <1>1 DEF NetTyped, CreateInterface, CreateFails, NewNetstack, proxyVars, blockVars
    <2>2. BlockTyped'
      BY <1>0, <2>1 DEF BlockTyped
    <2>3. made + 1 \in Nets /\ made + 1 \notin open /\ blocked[made + 1] = FALSE
      BY <1>0, <2>1 DEF BlockTyped
    <2>4. BlockKept' /\ BlockLoad'
      BY <2>1, <2>3 DEF BlockKept, BlockLoad
    <2> QED
      BY <2>2, <2>4
  <1>9. CASE CreateFails /\ ~ NewNetstack
    <2>1. /\ UNCHANGED <<blocked, sBlocked, hup, raced, made, open>> /\ tnet' \in {tnet, 0}
          /\ handler = "interface" /\ handler' = "idle"
      BY <1>9 DEF CreateFails, proxyVars, blockVars
    <2>2. 0 \notin open
      BY <1>0
    <2>3. BlockTyped'
      BY <2>1 DEF BlockTyped
    <2>4. tnet' = tnet => (Pending' <=> Pending)
      BY <2>1 DEF Pending
    <2>5. BlockKept' /\ BlockLoad'
      BY <2>1, <2>2, <2>4 DEF BlockKept, BlockLoad
    <2> QED
      BY <2>3, <2>5
  <1>2. CASE CreateNative
    <2>1. /\ UNCHANGED <<blocked, sBlocked, hup, raced, tnet>> /\ handler' # "block"
          /\ made' \in {made, made + 1}
      BY <1>2 DEF CreateNative, proxyVars, blockVars
    <2>2. tnet' = 0
      BY <1>2, <2>1 DEF NativeBare, CreateNative
    <2>3. 0 \notin open'
      BY <1>0, <1>2 DEF CreateNative
    <2>4. BlockTyped'
      BY <1>0, <2>1 DEF BlockTyped
    <2> QED
      BY <2>1, <2>2, <2>3, <2>4 DEF BlockKept, BlockLoad
  <1>3. CASE CloseDevice
    <2>1. /\ UNCHANGED <<blocked, sBlocked, hup, raced, made>> /\ tnet' = 0 /\ open' \subseteq open
      BY <1>3 DEF CloseDevice, proxyVars, blockVars
    <2>2. 0 \notin open'
      BY <1>0, <2>1
    <2>3. BlockTyped'
      BY <2>1 DEF BlockTyped
    <2> QED
      BY <2>1, <2>2, <2>3 DEF BlockKept, BlockLoad
  <1>4. CASE LoadBlocked
    <2>1. /\ UNCHANGED <<blocked, sBlocked, hup, made, tnet, open>> /\ handler = "block"
          /\ raced' = FALSE
          /\ sBlocked = FALSE => handler' = "peers"
          /\ sBlocked = TRUE => handler' = "apply"
      BY <1>4 DEF LoadBlocked, proxyVars, netVars
    <2>2. BlockTyped'
      BY <2>1 DEF BlockTyped
    <2>3. sBlocked \in {TRUE, FALSE}
      BY DEF BlockTyped
    <2>4. Pending' <=> Pending
      BY <2>1 DEF Pending
    <2>5. BlockKept' /\ BlockLoad'
      BY <2>1, <2>3, <2>4 DEF BlockKept, BlockLoad
    <2> QED
      BY <2>2, <2>5
  <1>5. CASE ApplyBlocked
    <2>1. /\ UNCHANGED <<sBlocked, hup, made, tnet, open>> /\ handler' = "peers"
          /\ blocked' = IF tnet = 0 THEN blocked ELSE [blocked EXCEPT ![tnet] = TRUE]
          /\ raced' = ~ sBlocked
      BY <1>5 DEF ApplyBlocked, netVars
    <2>2. blocked' \in [Nets -> BOOLEAN] /\ raced' \in BOOLEAN
      <3>1. raced' \in BOOLEAN
        BY <2>1, Zenon
      <3>2. blocked' \in [Nets -> BOOLEAN]
        BY <1>0, <2>1 DEF BlockTyped
      <3> QED
        BY <3>1, <3>2
    <2>3. \A n \in Nets : n > made => blocked'[n] = blocked[n]
      <3>1. \A n \in Nets : n > made => n # tnet
        BY <1>0
      <3>2. blocked \in [Nets -> BOOLEAN]
        BY DEF BlockTyped
      <3> QED
        BY <2>1, <3>1, <3>2
    <2>4. BlockTyped'
      BY <2>1, <2>2, <2>3 DEF BlockTyped
    <2>5. tnet # 0 => blocked'[tnet] = TRUE
      BY <1>0, <2>1 DEF BlockTyped
    <2>6. sBlocked = TRUE \/ raced' = TRUE
      BY <2>1 DEF BlockTyped
    <2>7. tnet \in open => tnet # 0
      BY <1>0
    <2>8. BlockKept' /\ BlockLoad'
      BY <2>1, <2>5, <2>6, <2>7 DEF BlockKept, BlockLoad
    <2> QED
      BY <2>4, <2>8
  <1>6. CASE SetBlocked
    <2>1. /\ UNCHANGED <<sBlocked, made, tnet, open, handler>>
          /\ hup # Nil /\ hup' = Nil
          /\ blocked' = IF hup.net = 0 THEN blocked
                        ELSE [blocked EXCEPT ![hup.net] = hup.value]
          /\ raced' = (raced /\ hup.net # tnet)
      BY <1>6 DEF SetBlocked, configVars, handlerVars, netVars
    <2>2. hup.value = sBlocked /\ hup.net \in 0 .. made
      BY <2>1 DEF BlockTyped
    <2>3. blocked' \in [Nets -> BOOLEAN] /\ raced' \in BOOLEAN
      BY <1>0, <2>1, <2>2 DEF BlockTyped
    <2>4. \A n \in Nets : n > made => blocked'[n] = blocked[n]
      BY <1>0, <2>1, <2>2 DEF BlockTyped
    <2>5. BlockTyped'
      BY <2>1, <2>3, <2>4 DEF BlockTyped
    <2>6. CASE hup.net = tnet
      <3>1. tnet # 0 => blocked'[tnet] = sBlocked
        BY <1>0, <2>1, <2>2, <2>6 DEF BlockTyped
      <3>2. tnet \in open => tnet # 0
        BY <1>0
      <3> QED
        BY <2>1, <2>5, <3>1, <3>2 DEF BlockKept, BlockLoad
    <2>7. CASE hup.net # tnet
      <3>1. tnet # 0 => blocked'[tnet] = blocked[tnet]
        BY <1>0, <2>1, <2>2, <2>7 DEF BlockTyped
      <3>2. tnet \in open => tnet # 0
        BY <1>0
      <3>3. ~ Pending /\ (raced = TRUE => raced' = TRUE)
        BY <2>1, <2>7 DEF Pending
      <3> QED
        BY <2>1, <2>5, <3>1, <3>2, <3>3 DEF BlockKept, BlockLoad
    <2> QED
      BY <2>6, <2>7
  <1>7. CASE \E v \in BOOLEAN : StoreBlocked(v)
    <2>1. PICK v \in BOOLEAN : StoreBlocked(v)
      BY <1>7
    <2>2. /\ UNCHANGED <<blocked, raced, made, tnet, open, handler>>
          /\ sBlocked' = v /\ hup' = [value |-> v, net |-> tnet]
      BY <2>1 DEF StoreBlocked, configVars, handlerVars, netVars, proxyVars
    <2>3. tnet \in 0 .. MaxNet
      BY <1>0
    <2>4. hup' # Nil /\ hup'.net = tnet /\ hup'.value = v
      BY <2>2, <2>3
    <2>5. BlockTyped'
      BY <1>0, <2>2, <2>4 DEF BlockTyped
    <2> QED
      BY <2>2, <2>4, <2>5 DEF BlockKept, BlockLoad, Pending
  <1>8. CASE /\ UNCHANGED <<blocked, blockVars, netVars>>
             /\ \/ handler' = handler
                \/ {handler, handler'} \subseteq {"idle", "interface", "peers", "targets"}
                \/ handler' = "crashed"
    <2>1. UNCHANGED <<blocked, sBlocked, hup, raced, made, tnet, open>>
      BY <1>8 DEF blockVars, netVars
    <2>2. BlockTyped'
      BY <2>1 DEF BlockTyped
    <2>3. Pending' <=> Pending
      BY <2>1 DEF Pending
    <2>4. BlockKept'
      BY <1>8, <2>1, <2>3 DEF BlockKept
    <2>5. BlockLoad'
      BY <1>8, <2>1, <2>3 DEF BlockLoad
    <2> QED
      BY <2>2, <2>4, <2>5
  <1> QED
    <2>1. CreateInterface => NewNetstack
      BY DEF CreateInterface
    <2> QED
      BY <2>1, <1>1, <1>2, <1>3, <1>4, <1>5, <1>6, <1>7, <1>8, <1>9, BlockFrame

-----------------------------------------------------------------------------
(* The bandwidth.                                                          *)

(* The other steps leave the reports alone and at most reset the counter.  *)
LEMMA BandFrame ==
  ASSUME [Next]_vars
  PROVE  \/ Traffic
         \/ \E g \in Checks : CheckReads(g) \/ \E later \in BOOLEAN : CheckProcesses(g, later)
         \/ UNCHANGED reportVars /\ counter' \in {counter, 0}
  <1> USE DEF bandVars
  <1>1. CASE LoadRemoteConfig \/ (\E chain \in 0 .. MaxCheck, c \in Configs : ReceiveConfig(chain, c))
    BY <1>1 DEF LoadRemoteConfig, ReceiveConfig
  <1>2. CASE CreateInterface \/ CreateFails \/ CreateNative \/ CreateCrashes
    BY <1>2 DEF CreateInterface, CreateFails, CreateNative, CreateCrashes, NewNetstack
  <1>3. CASE LoadBlocked \/ ApplyBlocked \/ EnsurePeers
    BY <1>3 DEF LoadBlocked, ApplyBlocked, EnsurePeers
  <1>4. CASE (\E r \in msg : AddRule(r)) \/ (\E r \in old : RemoveRule(r)) \/ TargetsDone
    BY <1>4 DEF AddRule, RemoveRule, TargetsDone
  <1>5. CASE \E L \in Targets : AddTargets(L) \/ RemoveTargets(L)
    BY <1>5 DEF AddTargets, RemoveTargets, Targeted
  <1>6. CASE (\E gone, new \in Targets : UpdateTargets(gone, new)) \/ (\E c \in Configs : Sync(c))
    BY <1>6 DEF UpdateTargets, Targeted, Sync
  <1>7. CASE (\E cert \in 0 .. MaxCert : ChangeCert(cert)) \/ RemovePeer
             \/ (\E new \in SUBSET Ips \ {{}} : AddPeer(new)) \/ (\E new \in SUBSET Ips : UpdatePeer(new))
    BY <1>7 DEF ChangeCert, RemovePeer, AddPeer, UpdatePeer, ChangePeer
  <1>8. CASE (\E v \in BOOLEAN : StoreBlocked(v)) \/ SetBlocked \/ StartDirectUDPRelay
    BY <1>8 DEF StoreBlocked, SetBlocked, StartDirectUDPRelay
  <1>9. CASE Close \/ CloseDevice
    BY <1>9 DEF Close, CloseDevice
  <1>10. CASE ~ ServiceStep
    BY <1>10, OtherFrame DEF serviceVars
  <1> QED
    BY <1>1, <1>2, <1>3, <1>4, <1>5, <1>6, <1>7, <1>8, <1>9, <1>10 DEF ServiceStep

(* A gain is not negative; traffic adds at most one to it, a reset counter *)
(* gives none, and right after a reading there is none.                    *)
LEMMA Gains ==
  ASSUME NEW n \in Nat, NEW l \in Nat \cup {-1}
  PROVE  /\ Gain(n, l) \in Nat /\ Gain(n + 1, l) <= Gain(n, l) + 1
         /\ Gain(0, l) = 0 /\ Gain(n, n) = 0 /\ Gain(n, -1) = 0
  BY DEF Gain

(* No check reports a byte that has not been carried.                      *)
LEMMA BandStep ==
  ASSUME BandTyped, BandKept, [Next]_vars
  PROVE  BandTyped' /\ BandKept'
  <1>0. /\ counter \in Nat /\ carried \in Nat /\ reported \in Nat /\ last \in Nat \cup {-1}
        /\ \A g \in Checks : reading[g].bytes \in Nat \cup {-1}
    BY DEF BandTyped, Readings
  <1>1. CASE UNCHANGED reportVars /\ counter' \in {counter, 0}
    <2>1. UNCHANGED <<last, reading, carried, reported, overlapped>>
      BY <1>1 DEF reportVars
    <2>2. BandTyped'
      BY <1>0, <1>1, <2>1 DEF BandTyped
    <2>3. \A l \in Nat \cup {-1} : Gain(counter', l) <= Gain(counter, l)
                                   /\ Gain(counter', l) \in Nat /\ Gain(counter, l) \in Nat
      <3> SUFFICES ASSUME NEW l \in Nat \cup {-1}
                   PROVE  Gain(counter', l) <= Gain(counter, l)
                          /\ Gain(counter', l) \in Nat /\ Gain(counter, l) \in Nat
        OBVIOUS
      <3>1. Gain(counter, l) \in Nat /\ Gain(0, l) = 0
        BY <1>0, Gains
      <3> QED
        BY <1>1, <3>1
    <2>4. \A n \in Nat : Gain(n, last) \in Nat
      BY <1>0, Gains
    <2>5. BandKept'
      BY <1>0, <2>1, <2>3, <2>4 DEF BandKept
    <2> QED
      BY <2>2, <2>5
  <1>2. CASE Traffic
    <2>1. UNCHANGED <<last, reading, reported, overlapped>>
          /\ counter' = counter + 1 /\ carried' = carried + 1
      BY <1>2 DEF Traffic
    <2>2. BandTyped'
      BY <1>0, <2>1 DEF BandTyped
    <2>3. \A l \in Nat \cup {-1} : Gain(counter', l) <= Gain(counter, l) + 1
                                   /\ Gain(counter', l) \in Nat /\ Gain(counter, l) \in Nat
      BY <1>0, <2>1, Gains
    <2>4. \A n \in Nat : Gain(n, last) \in Nat
      BY <1>0, Gains
    <2>5. BandKept'
      BY <1>0, <2>1, <2>3, <2>4 DEF BandKept
    <2> QED
      BY <2>2, <2>5
  <1>3. ASSUME NEW g \in Checks, CheckReads(g) PROVE BandTyped' /\ BandKept'
    <2>1. /\ UNCHANGED <<counter, last, carried, reported, overlapped>>
          /\ reading' = [reading EXCEPT ![g] =
               [seen |-> TRUE, bytes |-> IF peer = Nil THEN -1 ELSE counter, overtaken |-> FALSE]]
      BY <1>3 DEF CheckReads
    <2>2. PICK n \in {counter, -1} :
             reading' = [reading EXCEPT ![g] = [seen |-> TRUE, bytes |-> n, overtaken |-> FALSE]]
      BY <2>1
    <2>3. [seen |-> TRUE, bytes |-> n, overtaken |-> FALSE] \in Readings
      BY <1>0 DEF Readings
    <2>4. BandTyped'
      BY <2>1, <2>2, <2>3 DEF BandTyped
    <2>5. /\ reading'[g] = [seen |-> TRUE, bytes |-> n, overtaken |-> FALSE]
          /\ \A h \in Checks \ {g} : reading'[h] = reading[h]
      BY <2>2 DEF BandTyped
    <2>6. Gain(counter, last) \in Nat /\ Gain(counter, counter) = 0
      BY <1>0, Gains
    <2>7. BandKept'
      BY <1>0, <2>1, <2>5, <2>6 DEF BandKept
    <2> QED
      BY <2>4, <2>7
  <1>4. ASSUME NEW g \in Checks, NEW later \in BOOLEAN, CheckProcesses(g, later)
        PROVE  BandTyped' /\ BandKept'
    <2>1. PICK n : n = reading[g].bytes
      OBVIOUS
    <2>2. /\ UNCHANGED <<counter, carried>> /\ last' = n
          /\ reading[g].seen
          /\ ~ overlapped' => ~ overlapped /\ ~ reading[g].overtaken /\ later
      BY <1>4, <2>1 DEF CheckProcesses
    <2>3. reading' = [h \in Checks |-> IF h = g THEN NoReading
                                       ELSE [reading[h] EXCEPT !.overtaken = reading[h].seen]]
      BY <1>4 DEF CheckProcesses
    <2>4. \/ reported' = reported
          \/ n # -1 /\ reported' = reported + Difference(n, later)
      BY <1>0, <1>4, <2>1 DEF CheckProcesses
    <2>5. n \in Nat \cup {-1}
      BY <1>0, <2>1
    <2>6. n # -1 => Difference(n, later) \in Nat /\ (later => Difference(n, later) = Gain(n, last))
      BY <1>0, <2>5 DEF Difference, Gain
    <2>7. \A h \in Checks : /\ reading'[h] \in Readings
                            /\ reading'[h].seen => reading'[h].overtaken
      BY <2>3 DEF BandTyped, Readings, NoReading
    <2>8. BandTyped'
      BY <1>0, <2>2, <2>3, <2>4, <2>5, <2>6, <2>7 DEF BandTyped
    <2>9. ASSUME ~ overlapped' PROVE reported' + Gain(counter', last') <= carried'
      <3>1. ~ overlapped /\ ~ reading[g].overtaken /\ later /\ reading[g].seen
        BY <2>2, <2>9
      <3>2. IF n = -1 THEN reported <= carried
            ELSE reported + Gain(n, last) + Gain(counter, n) <= carried
        BY <2>1, <3>1 DEF BandKept
      <3>3. CASE n = -1
        BY <1>0, <2>2, <2>4, <3>2, <3>3, Gains
      <3>4. CASE n # -1
        <4>1. n \in Nat /\ Gain(n, last) \in Nat /\ Gain(counter, n) \in Nat
          BY <1>0, <2>5, <3>4, Gains
        <4>2. reported' \in {reported, reported + Gain(n, last)}
          BY <2>4, <2>6, <3>1, <3>4
        <4> QED
          BY <1>0, <2>2, <3>2, <3>4, <4>1, <4>2
      <3> QED
        BY <3>3, <3>4
    <2>10. BandKept'
      BY <2>7, <2>9 DEF BandKept
    <2> QED
      BY <2>8, <2>10
  <1> QED
    BY <1>1, <1>2, <1>3, <1>4, BandFrame

-----------------------------------------------------------------------------
(* The proxy.                                                              *)

(* A packet for d has gone into the stack as tuple t.                      *)
Injected(t, d, must, tracked) ==
    /\ users' = [users EXCEPT ![t] = @ \cup {d}]
    /\ \/ UNCHANGED <<conn, revoked>>
       \/ /\ t \in Handlers /\ conn[t].stage = "none"
          /\ \E c \in Conns :
                /\ c.stage = "new" /\ c.orig = d /\ c.must = must /\ c.tracked = tracked
                /\ conn' = [conn EXCEPT ![t] = c]
          /\ revoked' = revoked \ {t}

(* A connection that has just been opened.                                 *)
Opened(d, must, tracked) ==
    [Unused EXCEPT !.stage = "new", !.orig = d, !.must = must, !.tracked = tracked]

(* It has its type and what it was opened with.                            *)
LEMMA NewConn ==
  ASSUME NEW d \in Addrs, NEW must \in BOOLEAN, NEW tracked \in BOOLEAN
  PROVE  \E c \in Conns : /\ c = Opened(d, must, tracked)
                          /\ c.stage = "new" /\ c.orig = d /\ c.must = must /\ c.tracked = tracked
  <1>1. PICK u : u = Unused
    OBVIOUS
  <1>2. u \in Conns
    BY <1>1, LogAssumption DEF Unused, Conns, Stages
  <1>3. [u EXCEPT !.stage = "new", !.orig = d, !.must = must, !.tracked = tracked] \in Conns
    BY <1>2 DEF Conns, Stages
  <1>4. PICK c \in Conns : c = [u EXCEPT !.stage = "new", !.orig = d, !.must = must, !.tracked = tracked]
    BY <1>3
  <1>5. c.stage = "new" /\ c.orig = d /\ c.must = must /\ c.tracked = tracked
    BY <1>2, <1>4 DEF Conns
  <1> QED
    BY <1>1, <1>4, <1>5 DEF Opened

(* Inject does that, and a connection is opened only where there is none.  *)
LEMMA InjectStep ==
  ASSUME FlowTyped, NEW p \in Ports \cup {NoPort}, NEW d \in Addrs, NEW a \in Addrs,
         NEW svc \in Services, NEW opening \in BOOLEAN, NEW must \in BOOLEAN,
         NEW tracked \in BOOLEAN,
         Inject(p, d, a, svc, opening, must, tracked)
  PROVE  Injected(<<p, a, svc>>, d, must, tracked) /\ <<p, a, svc>> \in Tuples
  <1>1. PICK t : t = <<p, a, svc>>
    OBVIOUS
  <1>2. t \in Tuples
    BY <1>1 DEF Tuples
  <1>3. users' = [users EXCEPT ![t] = @ \cup {d}]
    BY <1>1 DEF Inject
  <1>4. PICK c \in Conns : /\ c = Opened(d, must, tracked)
                           /\ c.stage = "new" /\ c.orig = d /\ c.must = must /\ c.tracked = tracked
    BY NewConn
  <1>5. \/ UNCHANGED <<conn, revoked>>
        \/ Opens(t, opening) /\ conn' = [conn EXCEPT ![t] = c] /\ revoked' = revoked \ {t}
    BY <1>1, <1>4 DEF Inject, Opened
  <1>6. CASE t \in Handlers
    BY <1>1, <1>2, <1>3, <1>4, <1>5, <1>6 DEF Injected, Opens
  <1>7. CASE t \notin Handlers
    <2>1. conn' = conn \/ conn' = [conn EXCEPT ![t] = c]
      BY <1>5
    <2>2. conn' = conn
      BY <1>7, <2>1 DEF FlowTyped, ConnTyped
    <2>3. revoked' = revoked
      BY <1>5, <1>7 DEF FlowTyped, GhostsTyped
    <2> QED
      BY <1>1, <1>2, <1>3, <2>2, <2>3 DEF Injected
  <1> QED
    BY <1>6, <1>7

(* The connections keep their type.                                        *)
LEMMA InjectTyped ==
  ASSUME FlowTyped, NEW t \in Tuples, NEW d \in Addrs, NEW must, NEW tracked,
         Injected(t, d, must, tracked)
  PROVE  /\ users' \in [Tuples -> SUBSET Addrs] /\ revoked' \subseteq Handlers /\ ConnTyped'
         /\ users'[t] = users[t] \cup {d} /\ \A u \in Tuples : users[u] \subseteq users'[u]
  <1>1. users \in [Tuples -> SUBSET Addrs] /\ revoked \subseteq Handlers
    BY DEF FlowTyped, GhostsTyped
  <1>2. users' = [users EXCEPT ![t] = users[t] \cup {d}]
    BY DEF Injected
  <1>3. users' \in [Tuples -> SUBSET Addrs] /\ users'[t] = users[t] \cup {d}
        /\ \A u \in Tuples : users[u] \subseteq users'[u]
    BY <1>1, <1>2
  <1>4. revoked' \subseteq Handlers
    BY <1>1 DEF Injected
  <1>5. ConnTyped'
    BY DEF FlowTyped, ConnTyped, Injected
  <1> QED
    BY <1>3, <1>4, <1>5

(* The tables only grow, but for the NAT entries a handler releases.       *)
Grows ==
    /\ \A x \in Dests : prescribed[x] \subseteq prescribed'[x]
    /\ \A x \in Dests : destRewrite[x] # Nil => destRewrite'[x] # Nil
    /\ \A t \in Tuples : users[t] \subseteq users'[t]
    /\ resource \subseteq resource'

(* Handlers serve tuples.                                                  *)
LEMMA HandlerTuple ==
  ASSUME NEW t \in Handlers
  PROVE  /\ t \in Tuples /\ t = <<t[1], t[2], t[3]>> /\ t[2] \in Addrs /\ t[3] \in Services
         /\ t[2] \notin Loopback /\ <<t[2], t[3]>> \in Dests
  BY DEF Tuples, Dests

(* A connection that goes on as it is keeps what it has, if what took its  *)
(* way back marked it.                                                     *)
LEMMA ConnFrame ==
  ASSUME FlowTyped, Grows, NEW t \in Handlers, ConnOK(t), conn'[t] = conn[t],
         conn[t].stage # "none", t \in revoked => t \in revoked',
         reverse[t] # Nil => reverse'[t] # Nil \/ t \in revoked'
  PROVE  ConnOK(t)'
  <1>1. t \in Tuples /\ <<t[2], t[3]>> \in Dests /\ t[3] \in Services
    BY HandlerTuple
  <1>2. conn[t].orig \in users[t] /\ conn[t].orig \in users'[t]
    BY <1>1 DEF ConnOK, Grows
  <1>3. <<conn[t].orig, t[3]>> \in Dests
    BY <1>1, <1>2 DEF Dests, FlowTyped, GhostsTyped
  <1>4. Shared(t) => Shared(t)'
    BY <1>1 DEF Shared, Grows
  <1> QED
    BY <1>1, <1>2, <1>3, <1>4 DEF ConnOK, Grows

(* What a packet leaves of the connections: those there were keep what     *)
(* they have, and the new one has it.                                      *)
LEMMA InjectKept ==
  ASSUME FlowTyped, ConnKept, NEW t \in Tuples, NEW d \in Addrs, NEW must, NEW tracked,
         Injected(t, d, must, tracked), Grows,
         \A u \in Tuples : reverse[u] # Nil => reverse'[u] # Nil,
         t[2] \in prescribed'[<<d, t[3]>>] \/ destRewrite'[<<t[2], t[3]>>] # Nil,
         must => <<t[2], t[3]>> \in resource' \/ (tracked /\ t[2] # d),
         t \in Handlers => reverse'[t] # Nil \/ t[2] = d \/ Shared(t)'
  PROVE  ConnKept'
  <1> SUFFICES ASSUME NEW u \in Handlers, conn'[u].stage # "none" PROVE ConnOK(u)'
    BY DEF ConnKept
  <1>1. u \in Tuples
    BY HandlerTuple
  <1>2. CASE conn'[u] = conn[u] /\ (u \in revoked => u \in revoked')
    <2>1. ConnOK(u)
      BY <1>2 DEF ConnKept
    <2> QED
      BY <1>1, <1>2, <2>1, ConnFrame
  <1>3. CASE ~ (conn'[u] = conn[u] /\ (u \in revoked => u \in revoked'))
    <2>1. PICK c \in Conns : /\ c.stage = "new" /\ c.orig = d /\ c.must = must /\ c.tracked = tracked
                             /\ conn' = [conn EXCEPT ![t] = c]
      BY <1>3 DEF Injected
    <2>2. u = t
      BY <1>3, <2>1 DEF Injected, FlowTyped, ConnTyped
    <2>3. conn'[u] = c
      BY <2>1, <2>2 DEF FlowTyped, ConnTyped
    <2>4. d \in users'[u]
      BY <2>2, InjectTyped
    <2> QED
      BY <2>1, <2>2, <2>3, <2>4 DEF ConnOK
  <1> QED
    BY <1>2, <1>3

(* The rule of a packet is one of the table.                               *)
LEMMA RuleMatched ==
  ASSUME RulesTyped, NEW d, NEW svc, NEW r \in Match(rules[Watched], d, svc)
  PROVE  r \in Rules /\ r.resource \in BOOLEAN /\ r.rewriteTo \in Names \cup {NoName}
  <1>1. Watched \in Nets
    BY DEF Watched
  <1>2. r \in rules[Watched]
    BY DEF Match, First, Covering
  <1>3. r \in Rules
    BY <1>1, <1>2 DEF RulesTyped
  <1> QED
    BY <1>3 DEF Rules

(* The tuple after NAT is a tuple.                                         *)
LEMMA TupleParts ==
  ASSUME NEW t \in Tuples
  PROVE  /\ t = <<t[1], t[2], t[3]>> /\ t[2] \in Addrs /\ t[3] \in Services
         /\ t[1] \in Ports \cup {NoPort} /\ <<t[2], t[3]>> \in Dests
         /\ \A a \in Addrs : <<t[1], a, t[3]>> \in Tuples
  BY DEF Tuples, Dests

(* NAT entries that stay keep what is known of them.                       *)
LEMMA NatFrame ==
  ASSUME FlowTyped, NatKept, Grows, UNCHANGED <<nat, reverse, destRewrite>>
  PROVE  NatKept'
  <1>1. \A x \in Dests : destRewrite'[x] # Nil => destRewrite'[x] \in prescribed'[x]
    BY DEF NatKept, Grows
  <1>2. \A t \in Handlers : reverse'[t] # Nil => reverse'[t] \in users'[t]
    <2> SUFFICES ASSUME NEW t \in Handlers, reverse[t] # Nil PROVE reverse[t] \in users'[t]
      OBVIOUS
    <2>1. t \in Tuples
      BY HandlerTuple
    <2> QED
      BY <2>1 DEF NatKept, Grows
  <1>3. ASSUME NEW t \in Tuples, NEW back \in Tuples, nat[t] # Nil, back = <<t[1], nat[t], t[3]>>
        PROVE  NatOK(t, back)'
    <2>1. <<t[2], t[3]>> \in Dests
      BY TupleParts
    <2>2. NatOK(t, back)
      BY <1>3 DEF NatKept
    <2>3. Shared(back) => Shared(back)'
      BY DEF Shared, Grows
    <2> QED
      BY <2>1, <2>2, <2>3 DEF NatOK, Grows
  <1> QED
    BY <1>1, <1>2, <1>3 DEF NatKept

(* A packet whose destination is left alone.                               *)
LEMMA DirectStep ==
  ASSUME FlowInv, RulesTyped, NEW p \in Ports \cup {NoPort}, NEW d \in Addrs,
         NEW svc \in Services, NEW opening \in BOOLEAN, PacketDirect(p, d, svc, opening)
  PROVE  FlowInv'
  <1>0. PICK no \in BOOLEAN : no = FALSE
    OBVIOUS
  <1>1. PICK r \in Match(rules[Watched], d, svc) :
          /\ resource' = IF r.resource THEN resource \cup {<<d, svc>>} ELSE resource
          /\ prescribed' = [prescribed EXCEPT ![<<d, svc>>] = @ \cup {d}]
          /\ Inject(p, d, d, svc, opening, r.resource, no)
    BY <1>0 DEF PacketDirect
  <1>2. r.resource \in BOOLEAN
    BY RuleMatched
  <1>3. PICK t : t = <<p, d, svc>>
    OBVIOUS
  <1>4. Injected(t, d, r.resource, no) /\ t \in Tuples
    BY <1>1, <1>2, <1>3, InjectStep DEF FlowInv
  <1>5. <<d, svc>> \in Dests /\ t[2] = d /\ t[3] = svc
    BY <1>3 DEF Dests
  <1>6. /\ users' \in [Tuples -> SUBSET Addrs] /\ revoked' \subseteq Handlers /\ ConnTyped'
        /\ \A u \in Tuples : users[u] \subseteq users'[u]
    BY <1>4, InjectTyped DEF FlowInv
  <1>7. prescribed' \in [Dests -> SUBSET Addrs]
        /\ (\A x \in Dests : prescribed[x] \subseteq prescribed'[x]) /\ d \in prescribed'[<<d, svc>>]
    BY <1>1, <1>5 DEF FlowInv, FlowTyped, GhostsTyped
  <1>8. UNCHANGED <<nat, reverse, destRewrite, resolving>>
    BY DEF PacketDirect
  <1>9. resource \subseteq resource' /\ resource' \subseteq Dests
        /\ (r.resource => <<d, svc>> \in resource')
    BY <1>1, <1>5 DEF FlowInv, FlowTyped, TablesTyped
  <1>10. FlowTyped'
    <2>1. TablesTyped'
      BY <1>8, <1>9 DEF FlowInv, FlowTyped, TablesTyped
    <2>2. GhostsTyped'
      BY <1>6, <1>7 DEF GhostsTyped
    <2>3. PacketTyped'
      BY <1>8 DEF FlowInv, FlowTyped, PacketTyped
    <2> QED
      BY <1>6, <2>1, <2>2, <2>3 DEF FlowTyped
  <1>11. Grows
    BY <1>6, <1>7, <1>8, <1>9 DEF Grows
  <1>12. NatKept'
    BY <1>8, <1>11, NatFrame DEF FlowInv
  <1>13. PacketKept'
    BY <1>8, <1>9 DEF FlowInv, PacketKept
  <1>14. ConnKept'
    BY <1>4, <1>5, <1>7, <1>8, <1>9, <1>11, InjectKept DEF FlowInv
  <1> QED
    BY <1>10, <1>12, <1>13, <1>14 DEF FlowInv

(* A packet of a tuple that has a NAT entry.                               *)
LEMMA TrackedStep ==
  ASSUME FlowInv, RulesTyped, NEW p \in Ports \cup {NoPort}, NEW d \in Addrs,
         NEW svc \in Services, NEW opening \in BOOLEAN, PacketTracked(p, d, svc, opening)
  PROVE  FlowInv'
  <1>0. PICK yes \in BOOLEAN : yes = TRUE
    OBVIOUS
  <1>1. PICK u : u = <<p, d, svc>>
    OBVIOUS
  <1>2. /\ u \in Tuples /\ nat[u] # Nil /\ nat[u] \in Addrs
        /\ u[1] = p /\ u[2] = d /\ u[3] = svc /\ <<d, svc>> \in Dests
    BY <1>1 DEF PacketTracked, Tuples, Dests, FlowInv, FlowTyped, TablesTyped
  <1>3. PICK a \in Addrs : a = Rewritten(d, nat[u])
    BY <1>2 DEF Rewritten
  <1>4. PICK r \in Match(rules[Watched], d, svc) :
          /\ resource' = IF r.resource THEN resource \cup {<<d, svc>>} ELSE resource
          /\ Inject(p, d, a, svc, opening, r.resource, yes)
    BY <1>0, <1>1, <1>3 DEF PacketTracked
  <1>5. PICK t : t = <<p, a, svc>>
    OBVIOUS
  <1>6. Injected(t, d, r.resource, yes) /\ t \in Tuples /\ t[2] = a /\ t[3] = svc
    <2>1. r.resource \in BOOLEAN
      BY RuleMatched
    <2> QED
      BY <1>4, <1>5, <2>1, InjectStep DEF FlowInv
  <1>7. /\ users' \in [Tuples -> SUBSET Addrs] /\ revoked' \subseteq Handlers /\ ConnTyped'
        /\ \A x \in Tuples : users[x] \subseteq users'[x]
    BY <1>6, InjectTyped DEF FlowInv
  <1>8. UNCHANGED <<nat, reverse, destRewrite, resolving, prescribed>>
    BY DEF PacketTracked
  <1>9. resource \subseteq resource' /\ resource' \subseteq Dests /\ (r.resource => <<d, svc>> \in resource')
    BY <1>2, <1>4 DEF FlowInv, FlowTyped, TablesTyped
  <1>10. FlowTyped'
    <2>1. TablesTyped'
      BY <1>8, <1>9 DEF FlowInv, FlowTyped, TablesTyped
    <2>2. GhostsTyped'
      BY <1>7, <1>8 DEF FlowInv, FlowTyped, GhostsTyped
    <2>3. PacketTyped'
      BY <1>8 DEF FlowInv, FlowTyped, PacketTyped
    <2> QED
      BY <1>7, <2>1, <2>2, <2>3 DEF FlowTyped
  <1>11. Grows
    BY <1>7, <1>8, <1>9 DEF Grows
  <1>12. NatKept'
    BY <1>8, <1>11, NatFrame DEF FlowInv
  <1>13. PacketKept'
    BY <1>8, <1>9 DEF FlowInv, PacketKept
  <1>14. /\ a \in prescribed'[<<d, svc>>] \/ destRewrite'[<<a, svc>>] # Nil
         /\ reverse'[t] # Nil \/ a = d \/ Shared(t)'
    <2>1. PICK back \in Tuples : back = <<u[1], nat[u], u[3]>>
      BY <1>2, TupleParts
    <2>2. NatOK(u, back)
      BY <1>2, <2>1 DEF FlowInv, NatKept
    <2>3. CASE nat[u] \in Loopback
      BY <1>2, <1>3, <1>8, <2>2, <2>3 DEF Rewritten, NatOK
    <2>4. CASE nat[u] \notin Loopback
      <3>1. a = nat[u] /\ t = back
        BY <1>2, <1>3, <1>5, <2>1, <2>4 DEF Rewritten
      <3>2. Shared(t) => Shared(t)'
        BY <1>6, <1>7 DEF Shared
      <3> QED
        BY <1>2, <1>8, <2>2, <2>4, <3>1, <3>2 DEF NatOK
    <2> QED
      BY <2>3, <2>4
  <1>15. ConnKept'
    BY <1>0, <1>6, <1>8, <1>9, <1>11, <1>14, InjectKept DEF FlowInv
  <1> QED
    BY <1>10, <1>12, <1>13, <1>15 DEF FlowInv

(* When only the table of resources grows, and the packet that is held up  *)
(* may be another one, the connections keep what they have.                *)
LEMMA HeldStep ==
  ASSUME FlowInv, UNCHANGED <<nat, reverse, destRewrite, conn, ghostVars>>,
         resource \subseteq resource', resource' \subseteq Dests, PacketTyped', PacketKept'
  PROVE  FlowInv'
  <1>1. UNCHANGED <<prescribed, users, revoked>>
    BY DEF ghostVars
  <1>2. Grows
    BY <1>1 DEF Grows
  <1>3. FlowTyped'
    BY <1>1 DEF FlowInv, FlowTyped, TablesTyped, GhostsTyped, ConnTyped
  <1>4. NatKept'
    BY <1>2, NatFrame DEF FlowInv
  <1>5. ConnKept'
    <2> SUFFICES ASSUME NEW t \in Handlers, conn'[t].stage # "none" PROVE ConnOK(t)'
      BY DEF ConnKept
    <2>1. ConnOK(t)
      BY DEF FlowInv, ConnKept
    <2> QED
      BY <1>1, <1>2, <2>1, ConnFrame DEF FlowInv
  <1> QED
    BY <1>3, <1>4, <1>5 DEF FlowInv

(* A packet that waits for its name.                                       *)
LEMMA RewrittenStep ==
  ASSUME FlowInv, RulesTyped, NEW p \in Ports \cup {NoPort}, NEW d \in Addrs,
         NEW svc \in Services, NEW opening \in BOOLEAN, PacketRewritten(p, d, svc, opening)
  PROVE  FlowInv'
  <1>1. PICK r \in Match(rules[Watched], d, svc) :
          /\ r.rewriteTo # NoName
          /\ resource' = IF r.resource THEN resource \cup {<<d, svc>>} ELSE resource
          /\ resolving' = [port |-> p, dst |-> d, svc |-> svc, opening |-> opening,
                           name |-> r.rewriteTo, resource |-> r.resource]
    BY DEF PacketRewritten
  <1>2. r.resource \in BOOLEAN /\ r.rewriteTo \in Names
    BY <1>1, RuleMatched
  <1>3. resource \subseteq resource' /\ resource' \subseteq Dests
        /\ (r.resource => <<d, svc>> \in resource')
    BY <1>1 DEF FlowInv, FlowTyped, TablesTyped, Dests
  <1>4. /\ resolving' \in Packets /\ resolving'.svc = svc /\ resolving'.port = p
        /\ resolving'.dst = d /\ resolving'.resource = r.resource
    BY <1>1, <1>2 DEF Packets
  <1>5. PacketTyped' /\ PacketKept'
    BY <1>3, <1>4 DEF PacketTyped, PacketKept, PacketRewritten, Arrives
  <1> QED
    BY <1>3, <1>5, HeldStep DEF PacketRewritten

(* The packet's name has been resolved.  The reverse entry may have led    *)
(* elsewhere before: then two destinations have used the tuple.            *)
LEMMA ResolvedStep ==
  ASSUME FlowInv, NEW a \in Addrs, Resolved(a)
  PROVE  FlowInv'
  <1>0. PICK no \in BOOLEAN : no = FALSE
    OBVIOUS
  <1>1. resolving \in Packets /\ resolving # Nil
    BY DEF Resolved, FlowInv, FlowTyped, PacketTyped
  <1>2. PICK p \in Ports \cup {NoPort}, d \in Addrs, svc \in Services,
             opening \in BOOLEAN, must \in BOOLEAN :
          /\ p = resolving.port /\ d = resolving.dst /\ svc = resolving.svc
          /\ opening = resolving.opening /\ must = resolving.resource
    BY <1>1 DEF Packets
  <1>3. PICK b \in Addrs : b = Rewritten(d, a)
    BY DEF Rewritten
  <1>4. /\ nat' = [nat EXCEPT ![<<p, d, svc>>] = a]
        /\ reverse' = [reverse EXCEPT ![<<p, a, svc>>] = d]
        /\ destRewrite' = [destRewrite EXCEPT ![<<d, svc>>] = a]
        /\ resource' = IF must THEN resource \cup {<<a, svc>>} ELSE resource
        /\ prescribed' = [prescribed EXCEPT ![<<d, svc>>] = @ \cup {a}]
        /\ Inject(p, d, b, svc, opening, must, no)
        /\ resolving' = Nil
    BY <1>0, <1>2, <1>3 DEF Resolved
  <1>5. PICK t : t = <<p, b, svc>>
    OBVIOUS
  <1>6. Injected(t, d, must, no) /\ t \in Tuples /\ t[2] = b /\ t[3] = svc
    BY <1>4, <1>5, InjectStep DEF FlowInv
  <1>7. /\ users' \in [Tuples -> SUBSET Addrs] /\ revoked' \subseteq Handlers /\ ConnTyped'
        /\ users'[t] = users[t] \cup {d} /\ \A x \in Tuples : users[x] \subseteq users'[x]
    BY <1>6, InjectTyped DEF FlowInv
  <1>8. PICK u \in Tuples, back \in Tuples : u = <<p, d, svc>> /\ back = <<p, a, svc>>
    BY DEF Tuples
  <1>9. <<d, svc>> \in Dests /\ <<a, svc>> \in Dests /\ a # Nil /\ d # Nil
    BY DEF Dests
  <1>10. /\ nat' \in [Tuples -> Addrs \cup {Nil}] /\ nat'[u] = a
         /\ \A x \in Tuples \ {u} : nat'[x] = nat[x]
    BY <1>4, <1>8 DEF FlowInv, FlowTyped, TablesTyped
  <1>11. /\ reverse' \in [Tuples -> Addrs \cup {Nil}] /\ reverse'[back] = d
         /\ \A x \in Tuples \ {back} : reverse'[x] = reverse[x]
    BY <1>4, <1>8 DEF FlowInv, FlowTyped, TablesTyped
  <1>12. /\ destRewrite' \in [Dests -> Addrs \cup {Nil}] /\ destRewrite'[<<d, svc>>] = a
         /\ \A x \in Dests \ {<<d, svc>>} : destRewrite'[x] = destRewrite[x]
    BY <1>4, <1>9 DEF FlowInv, FlowTyped, TablesTyped
  <1>13. /\ prescribed' \in [Dests -> SUBSET Addrs] /\ a \in prescribed'[<<d, svc>>]
         /\ \A x \in Dests : prescribed[x] \subseteq prescribed'[x]
    BY <1>4, <1>9 DEF FlowInv, FlowTyped, GhostsTyped
  <1>14. resource \subseteq resource' /\ resource' \subseteq Dests
         /\ (must => <<a, svc>> \in resource' /\ <<d, svc>> \in resource')
    BY <1>1, <1>2, <1>4, <1>9 DEF FlowInv, FlowTyped, TablesTyped, PacketKept
  <1>15. FlowTyped'
    BY <1>4, <1>7, <1>10, <1>11, <1>12, <1>13, <1>14
       DEF FlowTyped, TablesTyped, GhostsTyped, PacketTyped
  <1>16. Grows
    BY <1>7, <1>9, <1>12, <1>13, <1>14 DEF Grows
  <1>18. a \notin Loopback => b = a /\ t = back
    BY <1>3, <1>5, <1>8 DEF Rewritten
  <1>19. a \in Loopback => b = d
    BY <1>3 DEF Rewritten
  <1>20. \A x \in Tuples : reverse[x] # Nil => reverse'[x] # Nil
    BY <1>9, <1>11
  <1>21. NatKept'
    <2>1. \A x \in Dests : destRewrite'[x] # Nil => destRewrite'[x] \in prescribed'[x]
      BY <1>12, <1>13 DEF FlowInv, NatKept
    <2>2. ASSUME NEW h \in Handlers, reverse'[h] # Nil PROVE reverse'[h] \in users'[h]
      <3>1. h \in Tuples /\ h[2] \notin Loopback
        BY HandlerTuple
      <3>2. CASE h = back
        <4>1. a \notin Loopback
          BY <1>8, <3>1, <3>2
        <4> QED
          BY <1>7, <1>11, <1>18, <3>2, <4>1
      <3>3. CASE h # back
        BY <1>7, <1>11, <2>2, <3>1, <3>3 DEF FlowInv, NatKept
      <3> QED
        BY <3>2, <3>3
    <2>3. ASSUME NEW x \in Tuples, NEW xb \in Tuples, nat'[x] # Nil,
                 xb = <<x[1], nat'[x], x[3]>>
          PROVE  NatOK(x, xb)'
      <3>1. CASE x = u
        <4>1. xb = back /\ x[2] = d /\ x[3] = svc /\ nat'[x] = a
          BY <1>8, <1>10, <2>3, <3>1
        <4>2. a \notin Loopback => d \in users'[xb]
          BY <1>7, <1>18, <4>1
        <4> QED
          BY <1>9, <1>11, <1>12, <1>13, <4>1, <4>2 DEF NatOK
      <3>2. CASE x # u
        <4>1. nat'[x] = nat[x] /\ <<x[2], x[3]>> \in Dests
          BY <1>10, <3>2, TupleParts
        <4>2. NatOK(x, xb)
          BY <2>3, <4>1 DEF FlowInv, NatKept
        <4>3. Shared(xb) => Shared(xb)'
          BY <1>7 DEF Shared
        <4> QED
          BY <1>16, <1>20, <4>1, <4>2, <4>3 DEF NatOK, Grows
      <3> QED
        BY <3>1, <3>2
    <2> QED
      BY <2>1, <2>2, <2>3 DEF NatKept
  <1>22. PacketKept'
    BY <1>4 DEF PacketKept
  <1>23. /\ b \in prescribed'[<<d, svc>>] \/ destRewrite'[<<b, svc>>] # Nil
         /\ must => <<b, svc>> \in resource'
         /\ reverse'[t] # Nil \/ b = d
    BY <1>9, <1>11, <1>12, <1>13, <1>14, <1>18, <1>19
  <1>24. ConnKept'
    BY <1>6, <1>16, <1>20, <1>23, InjectKept DEF FlowInv
  <1> QED
    BY <1>15, <1>21, <1>22, <1>24 DEF FlowInv

(* It could not be resolved.                                               *)
LEMMA ResolveFailsStep ==
  ASSUME FlowInv, ResolveFails
  PROVE  FlowInv'
  <1>0. PICK no \in BOOLEAN : no = FALSE
    OBVIOUS
  <1>1. resolving \in Packets /\ resolving # Nil
    BY DEF ResolveFails, FlowInv, FlowTyped, PacketTyped
  <1>2. PICK p \in Ports \cup {NoPort}, d \in Addrs, svc \in Services,
             opening \in BOOLEAN, must \in BOOLEAN :
          /\ p = resolving.port /\ d = resolving.dst /\ svc = resolving.svc
          /\ opening = resolving.opening /\ must = resolving.resource
    BY <1>1 DEF Packets
  <1>3. /\ prescribed' = [prescribed EXCEPT ![<<d, svc>>] = @ \cup {d}]
        /\ Inject(p, d, d, svc, opening, must, no)
        /\ resolving' = Nil /\ UNCHANGED <<nat, reverse, destRewrite, resource>>
    BY <1>0, <1>2 DEF ResolveFails, natVars
  <1>4. PICK t : t = <<p, d, svc>>
    OBVIOUS
  <1>5. Injected(t, d, must, no) /\ t \in Tuples /\ t[2] = d /\ t[3] = svc
    BY <1>3, <1>4, InjectStep DEF FlowInv
  <1>6. /\ users' \in [Tuples -> SUBSET Addrs] /\ revoked' \subseteq Handlers /\ ConnTyped'
        /\ \A u \in Tuples : users[u] \subseteq users'[u]
    BY <1>5, InjectTyped DEF FlowInv
  <1>7. <<d, svc>> \in Dests
    BY DEF Dests
  <1>8. /\ prescribed' \in [Dests -> SUBSET Addrs] /\ d \in prescribed'[<<d, svc>>]
        /\ \A x \in Dests : prescribed[x] \subseteq prescribed'[x]
    BY <1>3, <1>7 DEF FlowInv, FlowTyped, GhostsTyped
  <1>9. FlowTyped'
    BY <1>3, <1>6, <1>8 DEF FlowInv, FlowTyped, TablesTyped, GhostsTyped, PacketTyped
  <1>10. Grows
    BY <1>3, <1>6, <1>8 DEF Grows
  <1>11. NatKept'
    BY <1>3, <1>10, NatFrame DEF FlowInv
  <1>12. PacketKept'
    BY <1>3 DEF PacketKept
  <1>13. must => <<d, svc>> \in resource'
    BY <1>1, <1>2, <1>3 DEF FlowInv, PacketKept
  <1>14. ConnKept'
    BY <1>3, <1>5, <1>8, <1>10, <1>13, InjectKept DEF FlowInv
  <1> QED
    BY <1>9, <1>11, <1>12, <1>14 DEF FlowInv

(* The pings, and everything else that leaves the connections alone.       *)
LEMMA EchoStep ==
  ASSUME FlowInv, UNCHANGED <<natVars, resolving, conn, ghostVars>>
  PROVE  FlowInv'
  <1>1. UNCHANGED <<nat, reverse, destRewrite, resource>>
    BY DEF natVars
  <1>2. PacketTyped' /\ PacketKept' /\ resource' \subseteq Dests
    BY <1>1 DEF FlowInv, FlowTyped, TablesTyped, PacketTyped, PacketKept
  <1> QED
    BY <1>1, <1>2, HeldStep

-----------------------------------------------------------------------------
(* The handlers.                                                           *)

(* A handler ends or goes on, and no table changes.                        *)
LEMMA HandlerFrame ==
  ASSUME FlowInv, NEW t \in Handlers, UNCHANGED <<natVars, resolving, ghostVars>>, ConnTyped',
         \A u \in Handlers \ {t} : conn'[u] = conn[u],
         conn'[t].stage = "none" \/ ConnOK(t)'
  PROVE  FlowInv'
  <1>1. UNCHANGED <<nat, reverse, destRewrite, resource, prescribed, users, revoked>>
    BY DEF natVars, ghostVars
  <1>2. Grows
    BY <1>1 DEF Grows
  <1>3. FlowTyped' /\ PacketKept'
    BY <1>1 DEF FlowInv, FlowTyped, TablesTyped, GhostsTyped, PacketTyped, PacketKept
  <1>4. NatKept'
    BY <1>1, <1>2, NatFrame DEF FlowInv
  <1>5. ASSUME NEW u \in Handlers, conn'[u].stage # "none" PROVE ConnOK(u)'
    <2>1. CASE u = t
      BY <1>5, <2>1
    <2>2. CASE u # t
      <3>1. conn'[u] = conn[u] /\ ConnOK(u)
        BY <1>5, <2>2 DEF FlowInv, ConnKept
      <3> QED
        BY <1>1, <1>2, <1>5, <3>1, ConnFrame DEF FlowInv
    <2> QED
      BY <2>1, <2>2
  <1>6. ConnKept'
    BY <1>5 DEF ConnKept
  <1> QED
    BY <1>3, <1>4, <1>6 DEF FlowInv

(* The record of a tuple without a connection.                             *)
LEMMA UnusedConn == Unused \in Conns /\ Unused.stage = "none"
  BY LogAssumption DEF Unused, Conns, Stages

(* A handler that is over gives up its NAT entry and the way back of the   *)
(* tuple after NAT.  Another entry with that way back is another           *)
(* destination's, so the tuple is shared; a connection that has it is      *)
(* marked.                                                                 *)
LEMMA ReleaseStep ==
  ASSUME FlowInv, NEW t \in Handlers, Release(t), conn' = [conn EXCEPT ![t] = Unused],
         UNCHANGED <<destRewrite, resource, resolving, prescribed, users>>, nat[t] # Nil
  PROVE  FlowInv'
  <1>1. t \in Tuples /\ t = <<t[1], t[2], t[3]>> /\ nat[t] \in Addrs
    BY HandlerTuple DEF FlowInv, FlowTyped, TablesTyped
  <1>2. PICK back \in Tuples : back = <<t[1], nat[t], t[3]>>
    BY <1>1, TupleParts
  <1>3. /\ nat' = [nat EXCEPT ![t] = Nil]
        /\ reverse' = [reverse EXCEPT ![back] = Nil]
        /\ revoked' = IF back \in Handlers \ {t} /\ conn[back].stage # "none"
                        THEN revoked \cup {back} ELSE revoked
    BY <1>2 DEF Release
  <1>4. /\ nat' \in [Tuples -> Addrs \cup {Nil}] /\ nat'[t] = Nil
        /\ \A u \in Tuples \ {t} : nat'[u] = nat[u]
    BY <1>1, <1>3 DEF FlowInv, FlowTyped, TablesTyped
  <1>5. /\ reverse' \in [Tuples -> Addrs \cup {Nil}] /\ reverse'[back] = Nil
        /\ \A u \in Tuples \ {back} : reverse'[u] = reverse[u]
    BY <1>1, <1>3 DEF FlowInv, FlowTyped, TablesTyped
  <1>6. /\ ConnTyped' /\ conn'[t].stage = "none"
        /\ \A u \in Handlers \ {t} : conn'[u] = conn[u]
    BY UnusedConn DEF FlowInv, FlowTyped, ConnTyped
  <1>7. revoked' \subseteq Handlers /\ revoked \subseteq revoked'
    BY <1>3 DEF FlowInv, FlowTyped, GhostsTyped
  <1>8. FlowTyped'
    BY <1>4, <1>5, <1>6, <1>7 DEF FlowInv, FlowTyped, TablesTyped, GhostsTyped, PacketTyped
  <1>9. PacketKept'
    BY DEF FlowInv, PacketKept
  <1>10. Grows
    BY DEF Grows
  <1>11. NatKept'
    <2>1. \A x \in Dests : destRewrite'[x] # Nil => destRewrite'[x] \in prescribed'[x]
      BY DEF FlowInv, NatKept
    <2>2. ASSUME NEW h \in Handlers, reverse'[h] # Nil PROVE reverse'[h] \in users'[h]
      <3>1. h \in Tuples
        BY HandlerTuple
      <3>2. h # back
        BY <1>5, <2>2
      <3> QED
        BY <1>5, <2>2, <3>1, <3>2 DEF FlowInv, NatKept
    <2>3. ASSUME NEW x \in Tuples, NEW xb \in Tuples, nat'[x] # Nil,
                 xb = <<x[1], nat'[x], x[3]>>
          PROVE  NatOK(x, xb)'
      <3>1. x # t /\ nat'[x] = nat[x]
        BY <1>4, <2>3
      <3>2. NatOK(x, xb)
        BY <2>3, <3>1 DEF FlowInv, NatKept
      <3>3. Shared(xb) => Shared(xb)'
        BY DEF Shared
      <3>4. CASE xb # back
        <4>1. reverse'[xb] = reverse[xb]
          BY <1>5, <3>4
        <4> QED
          BY <3>1, <3>2, <3>3, <4>1 DEF NatOK
      <3>5. CASE xb = back
        <4>1. x = <<x[1], x[2], x[3]>>
          BY TupleParts
        <4>2. x[1] = t[1] /\ x[3] = t[3] /\ nat[x] = nat[t]
          BY <1>2, <2>3, <3>1, <3>5
        <4>3. x[2] # t[2]
          BY <1>1, <3>1, <4>1, <4>2
        <4>4. NatOK(t, back)
          BY <1>1, <1>2 DEF FlowInv, NatKept
        <4>5. nat[x] \notin Loopback => x[2] \in users[xb] /\ t[2] \in users[xb]
          BY <3>2, <3>5, <4>2, <4>4 DEF NatOK
        <4>6. nat[x] \notin Loopback => Shared(xb)
          BY <4>3, <4>5 DEF Shared
        <4> QED
          BY <3>1, <3>2, <3>3, <4>6 DEF NatOK
      <3> QED
        BY <3>4, <3>5
    <2> QED
      BY <2>1, <2>2, <2>3 DEF NatKept
  <1>12. ASSUME NEW u \in Handlers, conn'[u].stage # "none" PROVE ConnOK(u)'
    <2>1. u # t
      BY <1>6, <1>12
    <2>2. conn'[u] = conn[u] /\ u \in Tuples
      BY <1>6, <2>1, HandlerTuple
    <2>3. ConnOK(u) /\ conn[u].stage # "none"
      BY <1>12, <2>2 DEF FlowInv, ConnKept
    <2>4. reverse[u] # Nil => reverse'[u] # Nil \/ u \in revoked'
      BY <1>3, <1>5, <2>1, <2>2, <2>3
    <2> QED
      BY <1>7, <1>10, <2>2, <2>3, <2>4, ConnFrame DEF FlowInv
  <1>13. ConnKept'
    BY <1>12 DEF ConnKept
  <1> QED
    BY <1>8, <1>9, <1>11, <1>13 DEF FlowInv

(* A handler is over: it is blocked, it releases what it had, or its HTTP  *)
(* connection has ended.                                                   *)
LEMMA OverStep ==
  ASSUME FlowInv, NEW t \in Handlers,
         HandlerBlocked(t) \/ HandlerReleases(t) \/ HttpEnds(t)
  PROVE  FlowInv'
  <1>1. conn' = [conn EXCEPT ![t] = Unused] /\ UNCHANGED <<destRewrite, resource, resolving, prescribed, users>>
        /\ (Release(t) \/ UNCHANGED <<nat, reverse, revoked>>)
    BY DEF HandlerBlocked, HandlerReleases, HttpEnds, natVars, ghostVars
  <1>2. CASE Release(t) /\ nat[t] # Nil
    BY <1>1, <1>2, ReleaseStep
  <1>3. CASE UNCHANGED <<nat, reverse, revoked>>
    <2>1. UNCHANGED <<natVars, resolving, ghostVars>>
      BY <1>1, <1>3 DEF natVars, ghostVars
    <2>2. /\ ConnTyped' /\ conn'[t].stage = "none"
          /\ \A u \in Handlers \ {t} : conn'[u] = conn[u]
      BY <1>1, UnusedConn DEF FlowInv, FlowTyped, ConnTyped
    <2> QED
      BY <2>1, <2>2, HandlerFrame
  <1> QED
    BY <1>1, <1>2, <1>3 DEF Release

(* Where a connection is, its stage apart.                                 *)
LEMMA StageStep ==
  ASSUME FlowInv, NEW t \in Handlers, UNCHANGED <<natVars, resolving, ghostVars>>,
         NEW stage \in {"http", "ending"}, conn[t].stage # "none", Stage(t, stage)
  PROVE  FlowInv'
  <1>1. PICK c \in Conns : c = conn[t]
    BY DEF FlowInv, FlowTyped, ConnTyped
  <1>2. PICK e \in Conns : e = [c EXCEPT !.stage = stage]
    BY DEF Conns, Stages
  <1>3. conn' = [conn EXCEPT ![t] = e]
    BY <1>1, <1>2 DEF Stage
  <1>4. e.stage = stage /\ e.orig = c.orig /\ e.must = c.must /\ e.tracked = c.tracked
    BY <1>2 DEF Conns
  <1>5. /\ ConnTyped' /\ conn'[t] = e
        /\ \A u \in Handlers \ {t} : conn'[u] = conn[u]
    BY <1>3 DEF FlowInv, FlowTyped, ConnTyped
  <1>6. UNCHANGED <<reverse, destRewrite, resource, prescribed, users, revoked>>
    BY DEF natVars, ghostVars
  <1>7. ConnOK(t)
    BY DEF FlowInv, ConnKept
  <1>8. Shared(t) => Shared(t)'
    BY <1>6 DEF Shared
  <1>9. ConnOK(t)'
    BY <1>1, <1>4, <1>5, <1>6, <1>7, <1>8 DEF ConnOK
  <1> QED
    BY <1>5, <1>9, HandlerFrame

(* A handler dials the target that was prescribed for what it serves.      *)
LEMMA DialStep ==
  ASSUME FlowInv, NEW t \in Handlers, HandlerDials(t)
  PROVE  FlowInv'
  <1>1. PICK c \in Conns : c = conn[t]
    BY DEF FlowInv, FlowTyped, ConnTyped
  <1>2. t[2] \in Addrs /\ <<t[2], t[3]>> \in Dests
    BY HandlerTuple
  <1>3. PICK a \in Addrs : a = Target(t)
    BY <1>2 DEF Target, FlowInv, FlowTyped, TablesTyped
  <1>4. UNCHANGED <<natVars, resolving, ghostVars>> /\ c.stage = "new"
    BY <1>1 DEF HandlerDials
  <1>5. PICK s \in 0 .. MaxSession :
          /\ conn' = [conn EXCEPT ![t] = [c EXCEPT !.stage = "dialled", !.target = a, !.session = s]]
          /\ <<t[2], t[3]>> \in resource => s # 0
    <2>1. CASE /\ ~ LookupResourceId(t)
               /\ conn' = [conn EXCEPT ![t].stage = "dialled", ![t].target = Target(t)]
      <3>1. conn' = [conn EXCEPT ![t] = [c EXCEPT !.stage = "dialled", !.target = a]]
        BY <1>1, <1>3, <2>1
      <3>2. c.session \in 0 .. MaxSession
        BY DEF Conns
      <3>3. [c EXCEPT !.stage = "dialled", !.target = a]
              = [c EXCEPT !.stage = "dialled", !.target = a, !.session = c.session]
        BY DEF Conns
      <3> QED
        BY <2>1, <3>1, <3>2, <3>3 DEF LookupResourceId
    <2>2. ASSUME NEW s \in Sessions,
                 conn' = [conn EXCEPT ![t].stage = "dialled", ![t].target = Target(t),
                                      ![t].session = s]
          PROVE  conn' = [conn EXCEPT ![t] =
                          [c EXCEPT !.stage = "dialled", !.target = a, !.session = s]]
      BY <1>1, <1>3, <2>2
    <2>3. \A s \in Sessions : s \in 0 .. MaxSession /\ s # 0
      BY LogAssumption DEF Sessions
    <2>4. \/ ~ LookupResourceId(t) /\ conn' = [conn EXCEPT ![t].stage = "dialled", ![t].target = Target(t)]
          \/ \E s \in Sessions :
               conn' = [conn EXCEPT ![t].stage = "dialled", ![t].target = Target(t), ![t].session = s]
      BY Zenon DEF HandlerDials
    <2> QED
      BY <2>1, <2>2, <2>3, <2>4
  <1>6. PICK e \in Conns : e = [c EXCEPT !.stage = "dialled", !.target = a, !.session = s]
    BY DEF Conns, Stages
  <1>7. e.stage = "dialled" /\ e.orig = c.orig /\ e.must = c.must /\ e.tracked = c.tracked /\ e.target = a /\ e.session = s
    BY <1>6 DEF Conns
  <1>8. /\ ConnTyped' /\ conn'[t] = e
        /\ \A u \in Handlers \ {t} : conn'[u] = conn[u]
    BY <1>5, <1>6 DEF FlowInv, FlowTyped, ConnTyped
  <1>9. UNCHANGED <<reverse, destRewrite, resource, prescribed, users, revoked>>
    BY <1>4 DEF natVars, ghostVars
  <1>10. ConnOK(t)
    BY <1>1, <1>4 DEF FlowInv, ConnKept
  <1>11. Shared(t) => Shared(t)'
    BY <1>9 DEF Shared
  <1>12. a \in prescribed[<<c.orig, t[3]>>] \cup prescribed[<<t[2], t[3]>>]
    BY <1>1, <1>2, <1>3, <1>10 DEF Target, ConnOK, FlowInv, NatKept
  <1>13. ConnOK(t)'
    BY <1>1, <1>5, <1>7, <1>8, <1>9, <1>10, <1>11, <1>12 DEF ConnOK
  <1> QED
    BY <1>4, <1>8, <1>13, HandlerFrame

-----------------------------------------------------------------------------
(* The log below the proxy.                                                *)

(* A packet opens a connection only where there is none.                   *)
LEMMA InjectOpens ==
  ASSUME ConnTyped, NEW p, NEW d, NEW a, NEW svc, NEW opening, NEW must, NEW tracked,
         Inject(p, d, a, svc, opening, must, tracked)
  PROVE  \A t \in Handlers : conn[t].stage # "none" => conn'[t] = conn[t]
  <1>1. PICK u : u = <<p, a, svc>>
    OBVIOUS
  <1>2. conn' = conn \/ (conn[u].stage = "none" /\ \E c : conn' = [conn EXCEPT ![u] = c])
    BY <1>1 DEF Inject, Opens
  <1> QED
    BY <1>2 DEF ConnTyped

(* So does everything the device and the resolver do.                      *)
LEMMA PacketOpens ==
  ASSUME ConnTyped, Packet \/ ProxyStep
  PROVE  \A t \in Handlers : conn[t].stage # "none" => conn'[t] = conn[t]
  <1>1. ASSUME NEW p, NEW d, NEW svc, NEW opening,
               \/ PacketDirect(p, d, svc, opening) \/ PacketTracked(p, d, svc, opening)
        PROVE  \A t \in Handlers : conn[t].stage # "none" => conn'[t] = conn[t]
    BY <1>1, InjectOpens DEF PacketDirect, PacketTracked
  <1>2. CASE UNCHANGED conn
    BY <1>2
  <1>3. CASE ResolveFails \/ \E a \in Addrs : Resolved(a)
    BY <1>3, InjectOpens DEF ResolveFails, Resolved
  <1> QED
    BY <1>1, <1>2, <1>3 DEF Packet, ProxyStep, PacketRewritten, EchoSent, EchoIgnored, EchoFails,
                            EchoAnswered

(* The log's own steps give no handler a flush it did not have.            *)
LEMMA LogBusy ==
  ASSUME LogInv, LogNext, NEW h \in Handlers, h \in due' \/ batch'[h] # {}
  PROVE  h \in due \/ batch[h] # {}
  <1>1. h \in Flushers /\ h # Loop /\ h # Closer
    BY LogAssumption DEF Flushers
  <1>2. batch \in [Flushers -> SUBSET SUBSET Sessions]
    BY DEF LogInv, LogTypes
  <1>3. CASE LoopFlush \/ CloseFlushes
    BY <1>1, <1>2, <1>3 DEF LoopFlush, CloseFlushes, TakeBatch
  <1>4. CASE \E g \in Handlers : HandlerFlush(g)
    BY <1>1, <1>2, <1>4 DEF HandlerFlush, TakeBatch
  <1>5. CASE LoopEnds \/ \E S \in SUBSET Sessions : Reap(S)
    BY <1>5 DEF LoopEnds, Reap
  <1>6. CASE \E f \in Flushers : SendOk(f) \/ SendFails(f)
    <2>1. PICK f \in Flushers : due' = due /\ batch' = [batch EXCEPT ![f] = {}]
      BY <1>6 DEF SendOk, SendFails
    <2> QED
      BY <1>1, <1>2, <2>1
  <1> QED
    BY <1>3, <1>4, <1>5, <1>6 DEF LogNext

(* A new connection is logged: a session of its own, or for UDP the one    *)
(* there is.                                                               *)
LEMMA DialLogged ==
  ASSUME LogInv, NEW t \in Handlers, HandlerDials(t)
  PROVE  LogInv' /\ LedgerStep /\ UNCHANGED <<due, batch>>
  <1>1. CASE UNCHANGED <<started, active, udp, completed, due, batch, closer, sent>>
    BY <1>1, LogFrame
  <1>2. CASE /\ UNCHANGED <<completed, due, batch, closer, sent>>
             /\ \E s \in Sessions : StartTCPSession(s, LogKey(t))
    <2>1. PICK s \in Sessions : StartTCPSession(s, LogKey(t))
      BY <1>2
    <2>2. UdpActive'
      BY <2>1 DEF StartTCPSession, UdpActive, LogInv
    <2> QED
      BY <1>2, <2>1, <2>2, SessionStarts DEF StartTCPSession
  <1>3. ASSUME NEW id, NEW s \in Sessions, UNCHANGED <<completed, due, batch, closer, sent>>,
               TrackUDPSession(s, LogKey(t), id)
        PROVE  LogInv' /\ LedgerStep /\ UNCHANGED <<due, batch>>
    <2>1. CASE UNCHANGED sessionVars
      BY <1>1, <1>3, <2>1 DEF sessionVars
    <2>2. CASE /\ s = started + 1 /\ started' = s /\ active' = active \cup {s}
               /\ udp' = udp \cup {[id |-> id, session |-> s]}
      <3>1. UdpActive'
        BY <2>2 DEF UdpActive, LogInv
      <3> QED
        BY <1>3, <2>2, <3>1, SessionStarts
    <2> QED
      BY <1>3, <2>1, <2>2 DEF TrackUDPSession
  <1>4. \/ UNCHANGED logVars
        \/ /\ UNCHANGED <<completed, due, batch, closer, sent>>
           /\ \E s \in Sessions :
                 \/ StartTCPSession(s, LogKey(t))
                 \/ TrackUDPSession(s, LogKey(t), <<t[1], Target(t), t[3]>>)
    BY DEF HandlerDials, closeVars
  <1> QED
    BY <1>1, <1>2, <1>3, <1>4 DEF logVars

(* Every step of the system is one of the ledger, and keeps a handler from *)
(* doing two flushes at a time.                                            *)
LEMMA LoggedStep ==
  ASSUME FlowInv, LogInv, Busy, [Next]_vars
  PROVE  LogInv' /\ LedgerStep /\ Busy'
  <1>0. ConnTyped
    BY DEF FlowInv, FlowTyped
  <1>1. UNCHANGED logVars => LogInv' /\ LedgerStep /\ UNCHANGED <<due, batch>>
    BY LogFrame DEF logVars
  <1>2. ASSUME UNCHANGED <<due, batch>>,
               \A t \in Handlers : conn[t].stage = "ending" =>
                   conn'[t].stage = "ending" \/ (t \notin due /\ batch[t] = {})
        PROVE  Busy'
    BY <1>2 DEF Busy
  <1>3. CASE ServiceStep
    <2>1. UNCHANGED conn /\ (UNCHANGED logVars \/ CloseLog)
      BY <1>3, ServiceFrame DEF flowVars
    <2>2. CloseLog => /\ UNCHANGED <<started, active, udp, completed, due, batch, sent>>
                      /\ closer' = "flushing" <=> closer = "flushing"
      BY DEF CloseLog, sessionVars
    <2>3. CloseLog => LogInv' /\ LedgerStep /\ UNCHANGED <<due, batch>>
      BY <2>2, LogFrame
    <2> QED
      BY <1>1, <1>2, <2>1, <2>3
  <1>4. CASE Packet \/ (ProxyStep /\ UNCHANGED logVars)
    <2>1. UNCHANGED logVars
      BY <1>4 DEF Packet
    <2>2. \A t \in Handlers : conn[t].stage # "none" => conn'[t] = conn[t]
      BY <1>0, <1>4, PacketOpens
    <2> QED
      BY <1>1, <1>2, <2>1, <2>2
  <1>5. ASSUME NEW t \in Handlers, HandlerStep(t) PROVE LogInv' /\ LedgerStep /\ Busy'
    <2>1. CASE HandlerBlocked(t) \/ HandlerHttp(t) \/ HandlerReleases(t) \/ HttpEnds(t)
      <3>1. UNCHANGED logVars /\ conn[t].stage # "none"
        BY <2>1 DEF HandlerBlocked, HandlerHttp, HandlerReleases, HttpEnds
      <3>2. conn[t].stage = "ending" => t \notin due /\ batch[t] = {}
        BY <2>1 DEF HandlerBlocked, HandlerHttp, HandlerReleases, HttpEnds
      <3>3. \A u \in Handlers \ {t} : conn'[u] = conn[u]
        BY <1>0, <2>1 DEF HandlerBlocked, HandlerHttp, HandlerReleases, HttpEnds, Stage, ConnTyped
      <3> QED
        BY <1>1, <1>2, <3>1, <3>2, <3>3
    <2>2. CASE HandlerDials(t)
      <3>1. conn[t].stage = "new" /\ \A u \in Handlers \ {t} : conn'[u] = conn[u]
        BY <1>0, <2>2 DEF HandlerDials, ConnTyped
      <3> QED
        BY <1>2, <2>2, <3>1, DialLogged
    <2>3. CASE Ends(t)
      <3>1. conn[t].stage = "dialled" /\ t \notin due /\ batch[t] = {}
        BY <2>3 DEF Ends, Busy
      <3>2. conn'[t].stage = "ending" /\ \A u \in Handlers \ {t} : conn'[u] = conn[u]
        BY <1>0, <2>3 DEF Ends, Stage, ConnTyped, Conns
      <3>3. CASE UNCHANGED logVars
        BY <1>1, <1>2, <3>1, <3>2, <3>3
      <3>4. CASE EndSession(t, conn[t].session)
        <4>1. LogInv' /\ LedgerStep
          BY <3>1, <3>4, EndSessionStep
        <4>2. batch' = batch /\ due' \subseteq due \cup {t}
          BY <3>4 DEF EndSession
        <4>3. Busy'
          BY <3>1, <3>2, <4>2 DEF Busy
        <4> QED
          BY <4>1, <4>3
      <3> QED
        BY <2>3, <3>3, <3>4 DEF Ends
    <2> QED
      BY <1>5, <2>1, <2>2, <2>3 DEF HandlerStep, TcpEnds, UdpEnds
  <1>6. CASE LogNext /\ UNCHANGED proxyVars
    <2>1. conn' = conn
      BY <1>6 DEF proxyVars
    <2>2. Busy'
      BY <1>6, <2>1, LogBusy DEF Busy
    <2> QED
      BY <1>6, <2>2, LogStep
  <1>7. CASE UNCHANGED vars
    <2>1. UNCHANGED logVars /\ UNCHANGED conn
      BY <1>7 DEF vars, proxyVars
    <2> QED
      BY <1>1, <1>2, <2>1
  <1> QED
    BY <1>3, <1>4, <1>5, <1>6, <1>7 DEF Next

(* Every step keeps what is known of the proxy's tables and connections.   *)
LEMMA FlowStep ==
  ASSUME FlowInv, RulesTyped, [Next]_vars
  PROVE  FlowInv'
  <1>1. CASE ServiceStep
    BY <1>1, ServiceFrame, EchoStep DEF flowVars
  <1>2. CASE Packet
    BY <1>2, DirectStep, TrackedStep, RewrittenStep DEF Packet
  <1>3. CASE ProxyStep
    BY <1>3, ResolvedStep, ResolveFailsStep, EchoStep
       DEF ProxyStep, EchoSent, EchoIgnored, EchoFails, EchoAnswered
  <1>4. ASSUME NEW t \in Handlers, HandlerStep(t) PROVE FlowInv'
    <2>1. CASE HandlerBlocked(t) \/ HandlerReleases(t) \/ HttpEnds(t)
      BY <2>1, OverStep
    <2>2. CASE HandlerHttp(t)
      BY <2>2, StageStep DEF HandlerHttp
    <2>3. CASE HandlerDials(t)
      BY <2>3, DialStep
    <2>4. CASE TcpEnds(t) \/ UdpEnds(t)
      BY <2>4, StageStep DEF TcpEnds, UdpEnds, Ends
    <2> QED
      BY <1>4, <2>1, <2>2, <2>3, <2>4 DEF HandlerStep
  <1>5. CASE UNCHANGED proxyVars
    BY <1>5, EchoStep DEF proxyVars
  <1> QED
    BY <1>1, <1>2, <1>3, <1>4, <1>5 DEF Next, vars

-----------------------------------------------------------------------------
(* The inductive invariant of the service.                                 *)
ServiceInv ==
    /\ NetTyped /\ NativeBare /\ RulesTyped
    /\ BlockTyped /\ BlockKept /\ BlockLoad
    /\ BandTyped /\ BandKept
    /\ FlowInv
    /\ LogInv /\ Busy

(* The service starts with it.                                             *)
LEMMA ServiceStarts ==
  ASSUME Init
  PROVE  ServiceInv
  <1>1. NetTyped /\ NativeBare
    BY DEF Init, NetTyped, NativeBare
  <1>2. RulesTyped
    BY DEF Init, ProxyInit, RulesTyped
  <1>3. BlockTyped /\ BlockKept /\ BlockLoad
    BY DEF Init, ProxyInit, BlockTyped, BlockKept, BlockLoad
  <1>4. BandTyped /\ BandKept
    BY DEF Init, BandTyped, BandKept, Readings, NoReading, Gain
  <1>5. FlowTyped
    <2>1. TablesTyped /\ GhostsTyped /\ PacketTyped
      BY DEF Init, ProxyInit, TablesTyped, GhostsTyped, PacketTyped, Dests
    <2>2. ConnTyped
      BY UnusedConn DEF Init, ProxyInit, ConnTyped
    <2> QED
      BY <2>1, <2>2 DEF FlowTyped
  <1>6. NatKept
    <2>1. /\ \A x \in Dests : destRewrite[x] = Nil
          /\ \A t \in Tuples : nat[t] = Nil /\ reverse[t] = Nil
      BY DEF Init, ProxyInit, Dests
    <2> QED
      BY <2>1, HandlerTuple DEF NatKept
  <1>7. PacketKept /\ ConnKept
    BY UnusedConn DEF Init, ProxyInit, PacketKept, ConnKept
  <1>8. LogInv
    BY LogStart DEF Init
  <1>9. Busy
    BY DEF Init, LogInit, Busy, Flushers
  <1> QED
    BY <1>1, <1>2, <1>3, <1>4, <1>5, <1>6, <1>7, <1>8, <1>9 DEF ServiceInv, FlowInv

(* Every step of the service, of its proxy and of the log preserves it,    *)
(* and is a step of the ledger.                                            *)
LEMMA ServiceSteps ==
  ASSUME ServiceInv, [Next]_vars
  PROVE  ServiceInv' /\ LedgerStep
  <1>1. NetTyped' /\ NativeBare' /\ RulesTyped'
    BY NetStep, NativeStep, RulesStep DEF ServiceInv
  <1>2. BlockTyped' /\ BlockKept' /\ BlockLoad'
    BY BlockStep DEF ServiceInv
  <1>3. BandTyped' /\ BandKept'
    BY BandStep DEF ServiceInv
  <1>4. FlowInv'
    BY FlowStep DEF ServiceInv
  <1>5. LogInv' /\ LedgerStep /\ Busy'
    BY LoggedStep DEF ServiceInv
  <1> QED
    BY <1>1, <1>2, <1>3, <1>4, <1>5 DEF ServiceInv

(* The invariant is inductive: every reachable state of the service        *)
(* satisfies it.                                                           *)
THEOREM ServiceInductive == Spec => []ServiceInv
  <1>1. ServiceInv /\ [Next]_vars => ServiceInv'
    BY ServiceSteps
  <1> QED
    BY <1>1, ServiceStarts, PTL DEF Spec

(* The access log implements the ledger of sessions: no session of a       *)
(* client is reported twice, and none vanishes unless as many as the       *)
(* buffer holds wait behind a failed send.                                 *)
THEOREM LogKeepsLedger == Spec => Ledger
  <1>1. Init => Promise!Init
    BY LogStart DEF Init
  <1>2. ServiceInv /\ [Next]_vars => [Promise!Next]_ledgerNow
    BY ServiceSteps DEF LedgerStep
  <1>3. Promise!Spec <=> Promise!Init /\ [][Promise!Next]_ledgerNow
    BY DEF Promise!Spec, ledgerNow
  <1> QED
    BY <1>1, <1>2, <1>3, ServiceInductive, PTL DEF Spec, Ledger

(* The proxy in use blocks connections exactly when the operator asked for *)
(* it, whenever handleConfig and SetBlocked are past it (BlockReaches).    *)
THEOREM BlockAlwaysReaches == Spec => []BlockReaches
  <1>1. ServiceInv => BlockReaches
    BY DEF ServiceInv, BlockKept, BlockReaches, Pending
  <1> QED
    BY <1>1, ServiceInductive, PTL

(* processPeerBandwidth reports no byte twice, whatever resets the         *)
(* counters, unless one check overtakes another (BandwidthOnce).           *)
THEOREM BandwidthNeverTwice == Spec => []BandwidthOnce
  <1>1. ASSUME ServiceInv PROVE BandwidthOnce
    <2>1. /\ counter \in Nat /\ last \in Nat \cup {-1} /\ reported \in Nat /\ carried \in Nat
          /\ overlapped \/ reported + Gain(counter, last) <= carried
      BY <1>1 DEF ServiceInv, BandTyped, BandKept
    <2>2. Gain(counter, last) \in Nat
      BY <2>1, Gains
    <2> QED
      BY <2>1, <2>2 DEF BandwidthOnce
  <1> QED
    BY <1>1, ServiceInductive, PTL

(* A set of addresses with two members has more than one.                  *)
LEMMA SharedCount ==
  ASSUME FlowTyped, NEW t \in Tuples, Shared(t)
  PROVE  Cardinality(users[t]) > 1
  <1>1. users[t] \subseteq Addrs
    BY DEF FlowTyped, GhostsTyped
  <1>2. IsFiniteSet(users[t])
    BY <1>1, FS_Subset
  <1>3. PICK d, e \in users[t] : d # e
    BY DEF Shared
  <1>4. PICK D : D = {e} \cup {d}
    OBVIOUS
  <1>5. D \subseteq users[t] /\ IsFiniteSet(D) /\ Cardinality(D) = 2
    <2>1. IsFiniteSet({e}) /\ Cardinality({e}) = 1
      BY FS_Singleton
    <2>2. IsFiniteSet(D) /\ Cardinality(D) = Cardinality({e}) + 1
      BY <1>3, <1>4, <2>1, FS_AddElement
    <2> QED
      BY <1>3, <1>4, <2>1, <2>2
  <1>6. Cardinality(D) <= Cardinality(users[t]) /\ Cardinality(users[t]) \in Nat
    BY <1>2, <1>5, FS_Subset, FS_CardinalityType
  <1> QED
    BY <1>5, <1>6

(* ReadOutgoingPacket gives the replies of a connection the address the    *)
(* client asked for, but for the two cases ReplyAddress names.             *)
THEOREM RepliesFindBack == Spec => []ReplyAddress
  <1>1. ASSUME ServiceInv PROVE ReplyAddress
    <2> SUFFICES ASSUME NEW t \in Handlers, conn[t].stage = "dialled"
                 PROVE  \/ ReplySource(t) = conn[t].orig
                        \/ Cardinality(users[t]) > 1
                        \/ t \in revoked
      BY DEF ReplyAddress
    <2>1. t \in Tuples
      BY HandlerTuple
    <2>2. ConnOK(t) /\ FlowTyped /\ (reverse[t] # Nil => reverse[t] \in users[t])
      BY <1>1 DEF ServiceInv, FlowInv, ConnKept, NatKept
    <2>3. CASE reverse[t] # Nil
      <3>1. ReplySource(t) = conn[t].orig \/ Shared(t)
        BY <2>2, <2>3 DEF ReplySource, ConnOK, Shared
      <3> QED
        BY <2>1, <2>2, <3>1, SharedCount
    <2>4. CASE reverse[t] = Nil
      BY <2>1, <2>2, <2>4, SharedCount DEF ReplySource, ConnOK
    <2> QED
      BY <2>3, <2>4
  <1> QED
    BY <1>1, ServiceInductive, PTL

(* A handler never dials an address no rule ever prescribed, and logs the  *)
(* connection when the rule of its first packet names a resource, but for  *)
(* a packet that an old NAT entry rewrote (DialledAsRuled).                *)
THEOREM DialsAsRuled == Spec => []DialledAsRuled
  <1>1. ServiceInv => DialledAsRuled
    BY DEF ServiceInv, FlowInv, ConnKept, ConnOK, DialledAsRuled
  <1> QED
    BY <1>1, ServiceInductive, PTL
=============================================================================
