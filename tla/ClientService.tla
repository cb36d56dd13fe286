--------------------------- MODULE ClientService ---------------------------
(***************************************************************************)
(* The WireGuard service for clients (clients/clients.go) with the proxy   *)
(* of its netstack and the access log below it: the configuration and its  *)
(* chain id, peers and their bandwidth, rules and certificates, the        *)
(* connection block, the relay from the main tunnel, and Close.            *)
(*                                                                         *)
(* Message handlers run one after the other (WSClient).  Beside them run   *)
(* the SIGHUP goroutine, the bandwidth checks, of which every              *)
(* LoadRemoteConfig starts one more, and the goroutines of NetProxy and    *)
(* AccessLog.  A configuration makes a new netstack and a new device and   *)
(* closes neither of the old ones.  With a native interface there are no   *)
(* rules and no proxy.  One peer is modelled.                              *)
(***************************************************************************)
EXTENDS NetProxy, Integers

CONSTANTS
    Configs,        \* what a configuration or a sync may hold
    Ips,            \* the allowed IPs the peer may have
    MaxCert,        \* bound on the versions of the certificate
    MaxCheck,       \* bound on the bandwidth checks that run
    Budgets         \* bounds on what comes from outside, by kind

ASSUME ServiceAssumption ==
    /\ MaxCert \in Nat /\ MaxCheck \in Nat
    /\ \A v \in BOOLEAN, n \in 0 .. MaxNet : Nil # [value |-> v, net |-> n]
    /\ \A c \in Configs :
          c.ips \in SUBSET Ips \cup {Nil} /\ c.cert \in 0 .. MaxCert /\ c.targets \in SUBSET Rules
    /\ \A b \in Budgets : b.connects <= MaxCheck

Targets == {c.targets : c \in Configs}

Checks == 1 .. MaxCheck
NoReading == [seen |-> FALSE, bytes |-> -1, overtaken |-> FALSE]

VARIABLES
    requests,       \* how often LoadRemoteConfig was called
    pending,        \* pendingConfigChainId, 0 when it is empty
    sender,         \* is stopGetConfig set?
    handler,        \* handleConfig: idle, or the step it is at
    msg,            \* the targets a handler has yet to add
    old,            \* the targets it has yet to remove, before that
    ips,            \* the peer of the configuration
    made,           \* how many netstacks or native interfaces there have been
    useNative,      \* s.useNativeInterface
    tnet,           \* s.tnet: a netstack, or 0
    device,         \* s.device: a device, by the number of its netstack, or 0
    open,           \* the devices that are up
    certs,          \* the version of the certificate in s.certs, 0 for none
    sBlocked,       \* s.blocked
    hup,            \* SetBlocked: the value and the netstack it will apply it to
    raced,          \* has a block been applied that was lifted meanwhile?
    peer,           \* the allowed IPs of the peer, or Nil
    relay,          \* the direct relay: off, on, or armed after a failed start
    closing,        \* Close: open, log, closed
    counter,        \* the bytes the device counts for the peer
    last,           \* lastReadings, -1 for none
    reading,        \* what a check has read and not processed
    carried,        \* all the bytes there have been
    reported,       \* the bytes that were reported
    overlapped,     \* has a check been overtaken by another?
    budget          \* what is left of the bounds

requestVars == <<requests, pending, sender>>
handlerVars == <<handler, msg, old, ips>>
netVars == <<useNative, made, tnet, device, open>>
configVars == <<requestVars, handlerVars, netVars>>
blockVars == <<sBlocked, hup, raced>>
reportVars == <<last, reading, carried, reported, overlapped>>
bandVars == <<counter, reportVars>>
flowVars == <<natVars, resolving, conn, echo, ghostVars>>
serviceVars == <<configVars, certs, blockVars, peer, relay, closing, bandVars>>
vars == <<serviceVars, proxyVars, logVars, budget>>

Init ==
    /\ LogInit /\ ProxyInit
    /\ requests = 0 /\ pending = 0 /\ sender = FALSE
    /\ handler = "idle" /\ msg = {} /\ old = {} /\ ips = Nil
    /\ useNative \in BOOLEAN
    /\ made = 0 /\ tnet = 0 /\ device = 0 /\ open = {}
    /\ certs = 0
    /\ sBlocked \in BOOLEAN /\ hup = Nil /\ raced = FALSE
    /\ peer = Nil /\ relay = "off" /\ closing = "open"
    /\ counter = 0 /\ last = -1 /\ reading = [g \in Checks |-> NoReading]
    /\ carried = 0 /\ reported = 0 /\ overlapped = FALSE
    /\ budget \in Budgets

Spend(what) ==
    /\ budget[what] > 0
    /\ budget' = [budget EXCEPT ![what] = @ - 1]

(* A message is dispatched when the handler before has returned, also when *)
(* Close is under way: the websocket client is closed after the service.   *)
(* One that changes the rules is a message here, any other one a note.     *)
Receive == handler = "idle" /\ Spend("messages")
Note == handler = "idle" /\ Spend("notes")

(* LoadRemoteConfig, when the websocket has connected: a new chain id, and *)
(* another goroutine that checks the bandwidth.                            *)
LoadRemoteConfig ==
    /\ handler = "idle" /\ Spend("connects")
    /\ requests' = requests + 1
    /\ pending' = requests'
    /\ sender' = TRUE
    /\ UNCHANGED <<handlerVars, netVars, certs, blockVars, peer, relay, closing,
                   bandVars, proxyVars, logVars>>

(* handleConfig, up to the interface.  A configuration that bears a chain  *)
(* id is the answer to the pending request, or it is discarded, as is one  *)
(* that does not parse.  One without (0) is taken at any time.             *)
ReceiveConfig(chain, config) ==
    /\ handler = "idle"
    /\ made < MaxNet
    /\ \/ chain # 0 /\ chain = pending /\ pending' = 0 /\ UNCHANGED budget
       \/ chain = 0 /\ Spend("messages") /\ UNCHANGED pending
    /\ sender' = FALSE
    /\ certs' = config.cert
    /\ handler' = "interface" /\ msg' = config.targets /\ ips' = config.ips
    /\ UNCHANGED <<requests, old, netVars, blockVars, peer, relay, closing, bandVars,
                   proxyVars, logVars>>

(* CreateNetTUNWithOptions: a new netstack with a proxy that has no rules  *)
(* and does not block; and a device on it, without peers.                  *)
NewNetstack ==
    /\ made' = made + 1
    /\ tnet' = made' /\ device' = made'
    /\ peer' = Nil /\ counter' = 0

(* ensureWireguardInterface, under s.mu.                                   *)
CreateInterface ==
    /\ handler = "interface" /\ ~useNative /\ closing # "closed"
    /\ NewNetstack
    /\ open' = open \cup {made'}
    /\ handler' = "block"
    /\ UNCHANGED <<requestVars, msg, old, ips, useNative, certs, blockVars, relay, closing,
                   reportVars, proxyVars, logVars, budget>>

(* The address does not parse and nothing is done; CreateNetTUNWithOptions *)
(* fails and leaves s.tnet nil; or the device cannot be configured or      *)
(* brought up.                                                             *)
CreateFails ==
    /\ handler = "interface" /\ ~useNative
    /\ \/ UNCHANGED <<made, tnet, device, peer, counter>>
       \/ tnet' = 0 /\ UNCHANGED <<made, device, peer, counter>>
       \/ closing # "closed" /\ NewNetstack
    /\ handler' = "idle" /\ msg' = {}
    /\ UNCHANGED <<requestVars, old, ips, useNative, open, certs, blockVars, relay, closing,
                   reportVars, proxyVars, logVars, budget>>

(* With a native interface CreateTUN may fail too, and does as long as the *)
(* device of an earlier configuration is there.  Else there is a new       *)
(* device, though it may not come up, and no netstack: nothing to block,   *)
(* no rules.                                                               *)
CreateNative ==
    /\ handler = "interface" /\ useNative
    /\ \/ /\ handler' = "idle" /\ msg' = {}
          /\ UNCHANGED <<made, device, open, peer, counter>>
       \/ /\ device = 0 /\ closing # "closed"
          /\ made' = made + 1 /\ device' = made'
          /\ peer' = Nil /\ counter' = 0
          /\ \/ handler' = "idle" /\ msg' = {} /\ UNCHANGED open
             \/ handler' = "peers" /\ open' = open \cup {made'} /\ UNCHANGED msg
    /\ UNCHANGED <<requestVars, old, ips, useNative, tnet, certs, blockVars, relay, closing,
                   reportVars, proxyVars, logVars, budget>>

(* Close has set s.sharedBind to nil: the new device would dereference it. *)
CreateCrashes ==
    /\ handler = "interface" /\ closing = "closed"
    /\ handler' = "crashed" /\ msg' = {}
    /\ UNCHANGED <<requestVars, old, ips, netVars, certs, blockVars, peer, relay, closing,
                   bandVars, proxyVars, logVars, budget>>

(* Variant: the new proxy does not take the block over.                    *)
LoadBlockedIgnores ==
    /\ handler = "block"
    /\ handler' = "peers"
    /\ raced' = FALSE
    /\ UNCHANGED <<requestVars, msg, old, ips, netVars, certs, sBlocked, hup, peer, relay,
                   closing, bandVars, proxyVars, logVars, budget>>

(* After the unlock: s.blocked is loaded, and later applied if it was true.*)
LoadBlocked ==
    /\ handler = "block"
    /\ handler' = IF sBlocked THEN "apply" ELSE "peers"
    /\ raced' = FALSE
    /\ UNCHANGED <<requestVars, msg, old, ips, netVars, certs, sBlocked, hup, peer,
                   relay, closing, bandVars, proxyVars, logVars, budget>>

ApplyBlocked ==
    /\ handler = "apply"
    /\ handler' = "peers"
    /\ blocked' = IF tnet = 0 THEN blocked ELSE [blocked EXCEPT ![tnet] = TRUE]
    /\ raced' = ~sBlocked
    /\ UNCHANGED <<requestVars, msg, old, ips, netVars, certs, sBlocked, hup, peer, relay,
                   closing, bandVars, rules, flowVars, logVars, budget>>

(* ensureWireguardPeers: all peers are removed and the ones of the message *)
(* added.                                                                  *)
EnsurePeers ==
    /\ handler = "peers"
    /\ handler' = "targets"
    /\ peer' = IF device = 0 THEN peer ELSE ips
    /\ counter' = IF device = 0 THEN counter ELSE 0
    /\ UNCHANGED <<requestVars, msg, old, ips, netVars, certs, blockVars, relay,
                   closing, reportVars, proxyVars, logVars, budget>>

(* The rule of a target: resolveTLS looks the certificate up now, and      *)
(* falls back to the one of the target.                                    *)
Installed(r) == [r EXCEPT !.tls = IF @ = 0 THEN 0 ELSE certs]

(* ensureTargets, handleAddTarget and the second half of                   *)
(* handleUpdateTarget: the rules are added one at a time.                  *)
AddRule(r) ==
    /\ handler = "targets" /\ old = {} /\ r \in msg /\ tnet # 0
    /\ msg' = msg \ {r}
    /\ rules' = [rules EXCEPT ![tnet] = AddSubnet(@, Installed(r))]
    /\ UNCHANGED <<requestVars, handler, old, ips, netVars, certs, blockVars, peer,
                   relay, closing, bandVars, blocked, flowVars, logVars, budget>>

(* handleRemoveTarget and the first half of handleUpdateTarget.            *)
RemoveRule(r) ==
    /\ handler = "targets" /\ r \in old /\ tnet # 0
    /\ old' = old \ {r}
    /\ rules' = [rules EXCEPT ![tnet] = RemoveSubnet(@, r)]
    /\ UNCHANGED <<requestVars, handler, msg, ips, netVars, certs, blockVars, peer,
                   relay, closing, bandVars, blocked, flowVars, logVars, budget>>

(* All is done, or there is no netstack: nothing is done with a native     *)
(* interface, and a handler from which Close takes the netstack away while *)
(* it is at work dereferences nil.                                         *)
TargetsDone ==
    /\ handler = "targets" /\ (old \cup msg = {} \/ tnet = 0)
    /\ \/ handler' = "idle"
       \/ handler' = "crashed" /\ closing = "closed" /\ old \cup msg # {}
    /\ msg' = {} /\ old' = {}
    /\ UNCHANGED <<requestVars, ips, netVars, certs, blockVars, peer, relay,
                   closing, bandVars, proxyVars, logVars, budget>>

(* A message with targets to remove, then targets to add.                  *)
Targeted(gone, new) ==
    /\ Receive /\ tnet # 0
    /\ handler' = "targets" /\ msg' = new /\ old' = gone
    /\ UNCHANGED <<requestVars, ips, netVars, certs, blockVars, peer, relay,
                   closing, bandVars, proxyVars, logVars>>

AddTargets(targets) == Targeted({}, targets)
RemoveTargets(targets) == Targeted(targets, {})
UpdateTargets(gone, new) == Targeted(gone, new)

(* The part of newt/sync that is the service's: SetCerts, syncPeers, which *)
(* leaves a peer it knows as it is, and syncTargets, which replaces all    *)
(* rules at once; each as far as there is a device, or a netstack.         *)
Sync(config) ==
    /\ Receive
    /\ certs' = config.cert
    /\ IF device = 0 THEN UNCHANGED <<peer, counter>>
       ELSE /\ peer' = IF config.ips = Nil \/ peer = Nil THEN config.ips ELSE peer
            /\ counter' = IF config.ips = Nil THEN 0 ELSE counter
    /\ rules' = IF tnet = 0 THEN rules
                ELSE [rules EXCEPT ![tnet] =
                      ReplaceAll({[r EXCEPT !.tls = IF @ = 0 THEN 0 ELSE certs'] : r \in config.targets})]
    /\ UNCHANGED <<configVars, blockVars, relay, closing, reportVars, blocked, flowVars, logVars>>

(* newt/certs/add and newt/certs/remove; the rules keep what they have.    *)
ChangeCert(cert) ==
    /\ Note
    /\ certs' = cert
    /\ UNCHANGED <<configVars, blockVars, peer, relay, closing, bandVars,
                   proxyVars, logVars>>

(* handleAddPeer adds the allowed IPs to those of a peer it knows,         *)
(* handleUpdatePeer replaces them and adds no peer, handleRemovePeer.      *)
ChangePeer(new) ==
    /\ Note /\ device # 0
    /\ peer' = new
    /\ counter' = IF new = Nil THEN 0 ELSE counter
    /\ UNCHANGED <<configVars, certs, blockVars, relay, closing, reportVars,
                   proxyVars, logVars>>

AddPeer(new) == ChangePeer(IF peer = Nil THEN new ELSE peer \cup new)
UpdatePeer(new) == peer # Nil /\ ChangePeer(IF new = {} THEN peer ELSE new)
RemovePeer == peer # Nil /\ ChangePeer(Nil)

(* SetBlocked, on SIGHUP: the value is stored, the netstack read, and the  *)
(* value applied to that one.  The store comes before s.mu is taken for    *)
(* the read; the two are one step, since whoever loads the new value in    *)
(* between applies what will be applied here.                              *)
StoreBlocked(v) ==
    /\ hup = Nil /\ closing # "closed" /\ Spend("hups")
    /\ sBlocked' = v
    /\ hup' = [value |-> v, net |-> tnet]
    /\ UNCHANGED <<raced, configVars, certs, peer, relay, closing, bandVars, proxyVars,
                   logVars>>

SetBlocked ==
    /\ hup # Nil
    /\ blocked' = IF hup.net = 0 THEN blocked ELSE [blocked EXCEPT ![hup.net] = hup.value]
    /\ hup' = Nil
    /\ raced' = (raced /\ hup.net # tnet)
    /\ UNCHANGED <<configVars, certs, sBlocked, peer, relay, closing,
                   bandVars, rules, flowVars, logVars, budget>>

(* StartDirectUDPRelay stops the relay there is; the listener may fail,    *)
(* and leaves the stop channel behind.                                     *)
StartDirectUDPRelay ==
    /\ Note
    /\ relay' \in {"on", "armed"}
    /\ UNCHANGED <<configVars, certs, blockVars, peer, closing, bandVars,
                   proxyVars, logVars>>

(* StopDirectUDPRelay: the stop channel is closed, its goroutine, which    *)
(* looks at it after every packet it injects or every 100 ms, is waited    *)
(* for, and the listener is closed.                                        *)
StopDirectUDPRelay == relay' = "off"

(* Close: the sender is stopped and the log of the netstack closed; when   *)
(* it has been flushed, the relay is stopped and the device closed.        *)
Close ==
    /\ closing = "open" /\ Spend("messages")
    /\ closing' = "log"
    /\ sender' = FALSE
    /\ IF tnet = Watched THEN CloseLog ELSE UNCHANGED logVars
    /\ UNCHANGED <<requests, pending, handlerVars, netVars, certs, blockVars, peer,
                   relay, bandVars, proxyVars>>

CloseDevice ==
    /\ closing = "log" /\ closer \in {"idle", "done"} /\ handler # "interface"
    /\ closing' = "closed"
    /\ StopDirectUDPRelay
    /\ open' = open \ {device}
    /\ tnet' = 0 /\ device' = 0
    /\ peer' = Nil /\ counter' = 0
    /\ UNCHANGED <<requestVars, handlerVars, useNative, made, certs, blockVars, reportVars,
                   proxyVars, logVars, budget>>
-----------------------------------------------------------------------------
(* A byte of the peer.                                                     *)
Traffic ==
    /\ peer # Nil /\ device \in open /\ Spend("traffic")
    /\ counter' = counter + 1
    /\ carried' = carried + 1
    /\ UNCHANGED <<configVars, certs, blockVars, peer, relay, closing, last,
                   reading, reported, overlapped, proxyVars, logVars>>

(* calculatePeerBandwidth: IpcGet, without s.mu.                           *)
CheckReads(g) ==
    /\ g <= requests /\ device # 0 /\ ~reading[g].seen /\ Spend("checks")
    /\ reading' = [reading EXCEPT ![g] =
                   [seen |-> TRUE, bytes |-> IF peer = Nil THEN -1 ELSE counter, overtaken |-> FALSE]]
    /\ UNCHANGED <<configVars, certs, blockVars, peer, relay, closing, counter,
                   last, carried, reported, overlapped, proxyVars, logVars>>

(* Variant: the count itself is reported, not what was added to it.        *)
DifferenceWhole(bytes, later) == IF last = -1 \/ ~later THEN 0 ELSE bytes

(* processPeerBandwidth: nothing is reported for a first reading, or when  *)
(* no time has passed; a smaller count is a counter that was reset.        *)
Difference(bytes, later) ==
    IF last = -1 \/ ~later THEN 0
    ELSE IF bytes < last THEN bytes ELSE bytes - last

(* The rest, under s.mu.  The time was taken after the reading, so it may  *)
(* be the later one although another check came between.                   *)
CheckProcesses(g, later) ==
    /\ reading[g].seen
    /\ ~reading[g].overtaken => later
    /\ last' = reading[g].bytes
    /\ overlapped' = (overlapped \/ reading[g].overtaken)
    /\ reading' = [h \in Checks |-> IF h = g THEN NoReading
                                    ELSE [reading[h] EXCEPT !.overtaken = reading[h].seen]]
    /\ \/ reported' = reported + (IF reading[g].bytes = -1 THEN 0
                                  ELSE Difference(reading[g].bytes, later))
       \/ UNCHANGED reported            \* the send fails
    /\ UNCHANGED <<configVars, certs, blockVars, peer, relay, closing, counter,
                   carried, proxyVars, logVars, budget>>
-----------------------------------------------------------------------------
(* The packets of the client, while the device of the netstack is up.      *)
Packet ==
    /\ Watched \in open /\ Spend("packets")
    /\ \E p \in Ports \cup {NoPort}, d \in Addrs, svc \in Services, opening \in BOOLEAN :
        \/ PacketDirect(p, d, svc, opening)
        \/ PacketTracked(p, d, svc, opening)
        \/ PacketRewritten(p, d, svc, opening)
    /\ UNCHANGED <<serviceVars, logVars>>

ProxyStep ==
    \/ \E a \in Addrs : Resolved(a) \/ EchoSent(a)
    \/ ResolveFails
    \/ EchoIgnored
    \/ EchoFails
    \/ EchoAnswered

HandlerStep(t) ==
    \/ HandlerBlocked(t)
    \/ HandlerHttp(t)
    \/ HandlerDials(t)
    \/ TcpEnds(t)
    \/ UdpEnds(t)
    \/ HandlerReleases(t)
    \/ HttpEnds(t)

ServiceStep ==
    \/ LoadRemoteConfig
    \/ \E chain \in 0 .. MaxCheck, c \in Configs : ReceiveConfig(chain, c)
    \/ CreateInterface
    \/ CreateFails
    \/ CreateNative
    \/ CreateCrashes
    \/ LoadBlocked
    \/ ApplyBlocked
    \/ EnsurePeers
    \/ \E r \in msg : AddRule(r)
    \/ \E r \in old : RemoveRule(r)
    \/ TargetsDone
    \/ \E L \in Targets : AddTargets(L) \/ RemoveTargets(L)
    \/ \E gone, new \in Targets : UpdateTargets(gone, new)
    \/ \E c \in Configs : Sync(c)
    \/ \E cert \in 0 .. MaxCert : ChangeCert(cert)
    \/ \E new \in SUBSET Ips \ {{}} : AddPeer(new)
    \/ \E new \in SUBSET Ips : UpdatePeer(new)
    \/ RemovePeer
    \/ \E v \in BOOLEAN : StoreBlocked(v)
    \/ SetBlocked
    \/ StartDirectUDPRelay
    \/ Close
    \/ CloseDevice
    \/ Traffic
    \/ \E g \in Checks : CheckReads(g) \/ \E later \in BOOLEAN : CheckProcesses(g, later)

Next ==
    \/ ServiceStep
    \/ Packet
    \/ ProxyStep /\ UNCHANGED <<serviceVars, logVars, budget>>
    \/ \E t \in Handlers : HandlerStep(t) /\ UNCHANGED <<serviceVars, budget>>
    \/ LogNext /\ UNCHANGED <<serviceVars, proxyVars, budget>>

Spec == Init /\ [][Next]_vars
-----------------------------------------------------------------------------
(* The access log keeps its promise (AccessLog.Promise): no order of       *)
(* flushes by the loop, by handlers and by Close, of failed sends and of   *)
(* sessions that are reaped, shared or ended twice makes a session be      *)
(* reported twice or vanish, except out of a full buffer.                  *)
Ledger == Promise!Spec

(* The replies of a connection bear the address the client asked for       *)
(* (ReadOutgoingPacket), unless the client has used the same port for two  *)
(* destinations with one target, or a connection that was opened under     *)
(* another rule released the entry of this one.                            *)
ReplyAddress ==
    \A t \in Handlers : conn[t].stage = "dialled" =>
        \/ ReplySource(t) = conn[t].orig
        \/ Cardinality(users[t]) > 1
        \/ t \in revoked

(* A handler never dials an address that no rule has ever prescribed, for  *)
(* the destination the client asked for or for its target when that is     *)
(* itself a destination; and the connection is in the access log when the  *)
(* rule its first packet matched names a resource.  Two cases are left     *)
(* open: whether the rule that prescribed the address is still in force    *)
(* (destRewriteTable is never cleared), and whether a connection is logged *)
(* whose first packet was rewritten by the NAT entry of an earlier one     *)
(* (HandleIncomingPacket stores its resource under the old destination).   *)
DialledAsRuled ==
    \A t \in Handlers : conn[t].stage = "dialled" =>
        /\ conn[t].target \in prescribed[<<conn[t].orig, t[3]>>] \cup prescribed[<<t[2], t[3]>>]
        /\ conn[t].must => conn[t].session # 0 \/ (conn[t].tracked /\ t[2] # conn[t].orig)

(* The proxy in use blocks connections exactly when the operator has asked *)
(* for it, once handleConfig and SetBlocked are past it, however they      *)
(* interleaved - except that ensureWireguardInterface may apply a block    *)
(* that was lifted after it had loaded it.                                 *)
BlockReaches ==
    /\ handler \in {"idle", "peers", "targets"} /\ hup = Nil /\ tnet \in open
    => blocked[tnet] = sBlocked \/ raced

(* No byte is reported twice by the bandwidth checks, whatever resets the  *)
(* counters, as long as no check is overtaken by the one of another        *)
(* LoadRemoteConfig between its reading and s.mu.                          *)
BandwidthOnce == reported <= carried \/ overlapped
=============================================================================
