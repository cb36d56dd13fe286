------------------------------ MODULE NetProxy ------------------------------
(***************************************************************************)
(* The proxy of the clients' netstack: how HandleIncomingPacket rewrites   *)
(* the packets of a client, how the TCP, UDP and ICMP handlers find the    *)
(* target of a connection, and how replies get their source back           *)
(* (netstack2/proxy.go and handlers.go).                                   *)
(*                                                                         *)
(* All tables are keyed by the client's address, so the packets of one     *)
(* client are modelled.  The device hands them over one at a time (one     *)
(* goroutine for each peer), and a name that is being resolved holds up    *)
(* the ones behind it.  The rules change meanwhile (ClientService).        *)
(***************************************************************************)
EXTENDS SubnetRules, AccessLog

CONSTANTS
    Ports,          \* source ports of the client; ICMP has NoPort
    NoPort,
    Tcp,            \* the services that are TCP
    Web,            \* those on port 80 or 443
    Loopback,       \* the loopback addresses
    Domains,        \* the names that have to be looked up, and may fail
    Resolve,        \* the addresses a name may stand for
    MaxNet,         \* bound on the netstacks of the service
    Nil

ASSUME NetProxyAssumption ==
    /\ IsFiniteSet(Addrs) /\ Nil \notin Addrs /\ MaxNet \in Nat \ {0}
    /\ Web \subseteq Tcp /\ Tcp \subseteq Services
    /\ Loopback \subseteq Addrs /\ Domains \subseteq Names
    /\ Resolve \in [Names -> SUBSET Addrs]
    /\ Icmp \in Services \ Tcp
    /\ Handlers = Ports \X (Addrs \ Loopback) \X (Services \ {Icmp})

Nets == 1 .. MaxNet

(* The netstack whose packets are modelled; a later one has its own tables *)
(* and its own log.                                                        *)
Watched == 1

(* A client's connection as the netstack sees it, or a NAT key.            *)
Tuples == (Ports \cup {NoPort}) \X Addrs \X Services

(* must: the rule its first packet matched names a resource; tracked: that *)
(* packet found a NAT entry of an earlier connection.                      *)
Unused == [stage |-> "none", orig |-> Nil, target |-> Nil, session |-> 0,
           must |-> FALSE, tracked |-> FALSE]

VARIABLES
    rules,          \* subnetLookup, of each netstack
    blocked,        \* ProxyHandler.blocked, of each netstack
    nat,            \* natTable: the rewritten address of a tuple, or Nil
    reverse,        \* reverseNatTable: the original one, by rewritten tuple
    destRewrite,    \* destRewriteTable
    resource,       \* resourceTable: the destinations of a resource
    resolving,      \* the packet whose rewrite target is being resolved
    conn,           \* the connections and their handlers
    echo,           \* the ping under way: whom it was for, whom it asks
    prescribed,     \* the targets the rules ever gave a destination
    users,          \* the destinations that ever used a tuple after NAT
    revoked         \* the connections whose reverse entry another one removed

natVars == <<nat, reverse, destRewrite, resource>>
ghostVars == <<prescribed, users, revoked>>
proxyVars == <<rules, blocked, natVars, resolving, conn, echo, ghostVars>>

ProxyInit ==
    /\ rules = [n \in Nets |-> {}]
    /\ blocked = [n \in Nets |-> FALSE]
    /\ nat = [t \in Tuples |-> Nil] /\ reverse = [t \in Tuples |-> Nil]
    /\ destRewrite = [d \in Addrs \X Services |-> Nil]
    /\ resource = {}
    /\ resolving = Nil
    /\ conn = [t \in Handlers |-> Unused]
    /\ echo = Nil
    /\ prescribed = [d \in Addrs \X Services |-> {}]
    /\ users = [t \in Tuples |-> {}]
    /\ revoked = {}

(* The forwarders of the stack (InstallTCPHandler, InstallUDPHandler)      *)
(* start a handler for a tuple that has none.                              *)
Opens(t, opening) == opening /\ conn[t].stage = "none"

(* A packet for d goes into the proxy's stack with destination a.  If it   *)
(* opens a connection, a handler is started for it; a ping goes to the     *)
(* ICMP handler.                                                           *)
Inject(p, d, a, svc, opening, must, tracked) ==
    LET t == <<p, a, svc>>
    IN  /\ users' = [users EXCEPT ![t] = @ \cup {d}]
        /\ IF svc = Icmp
             THEN echo' = [stage |-> "new", orig |-> d, dst |-> a] /\ UNCHANGED <<conn, revoked>>
           ELSE IF Opens(t, opening)
             THEN /\ conn' = [conn EXCEPT ![t] =
                              [Unused EXCEPT !.stage = "new", !.orig = d,
                                             !.must = must, !.tracked = tracked]]
                  /\ revoked' = revoked \ {t}
                  /\ UNCHANGED echo
             ELSE UNCHANGED <<conn, revoked, echo>>

(* What a packet may be: a SYN or a later segment, a datagram, or a ping   *)
(* when the one before has been dealt with.                                *)
Arrives(p, svc, opening) ==
    /\ resolving = Nil
    /\ svc \notin Tcp => opening
    /\ svc = Icmp <=> p = NoPort
    /\ svc = Icmp => echo = Nil

(* HandleIncomingPacket, for a packet from port p to d.  opening: a SYN,   *)
(* or any datagram.                                                        *)
PacketDirect(p, d, svc, opening) ==
    /\ Arrives(p, svc, opening)
    /\ \E r \in Match(rules[Watched], d, svc) :
        /\ r.rewriteTo = NoName
        /\ resource' = IF r.resource THEN resource \cup {<<d, svc>>} ELSE resource
        /\ prescribed' = [prescribed EXCEPT ![<<d, svc>>] = @ \cup {d}]
        /\ Inject(p, d, d, svc, opening, r.resource, FALSE)
    /\ UNCHANGED <<rules, blocked, nat, reverse, destRewrite, resolving>>

(* The destination the stack sees: gVisor drops packets to a loopback      *)
(* address, so these are left as they are.                                 *)
Rewritten(d, a) == IF a \in Loopback THEN d ELSE a

PacketTracked(p, d, svc, opening) ==
    /\ Arrives(p, svc, opening)
    /\ nat[<<p, d, svc>>] # Nil
    /\ \E r \in Match(rules[Watched], d, svc) :
        /\ r.rewriteTo # NoName
        /\ resource' = IF r.resource THEN resource \cup {<<d, svc>>} ELSE resource
        /\ Inject(p, d, Rewritten(d, nat[<<p, d, svc>>]), svc, opening, r.resource, TRUE)
    /\ UNCHANGED <<rules, blocked, nat, reverse, destRewrite, resolving, prescribed>>

PacketRewritten(p, d, svc, opening) ==
    /\ Arrives(p, svc, opening)
    /\ nat[<<p, d, svc>>] = Nil
    /\ \E r \in Match(rules[Watched], d, svc) :
        /\ r.rewriteTo # NoName
        /\ resource' = IF r.resource THEN resource \cup {<<d, svc>>} ELSE resource
        /\ resolving' = [port |-> p, dst |-> d, svc |-> svc, opening |-> opening,
                         name |-> r.rewriteTo, resource |-> r.resource]
    /\ UNCHANGED <<rules, blocked, nat, reverse, destRewrite, conn, echo, ghostVars>>

(* What a name may resolve to; an address resolves to itself.              *)
resolveRewriteAddress(name) == Resolve[name]

(* Variant: the reverse entry is stored under the original destination.    *)
ResolvedWrongKey(a) ==
    /\ resolving # Nil /\ a \in Resolve[resolving.name]
    /\ LET d == resolving.dst
           svc == resolving.svc
           p == resolving.port
       IN  /\ nat' = [nat EXCEPT ![<<p, d, svc>>] = a]
           /\ reverse' = [reverse EXCEPT ![<<p, d, svc>>] = d]
           /\ destRewrite' = [destRewrite EXCEPT ![<<d, svc>>] = a]
           /\ resource' = IF resolving.resource THEN resource \cup {<<a, svc>>} ELSE resource
           /\ prescribed' = [prescribed EXCEPT ![<<d, svc>>] = @ \cup {a}]
           /\ Inject(p, d, Rewritten(d, a), svc, resolving.opening, resolving.resource, FALSE)
    /\ resolving' = Nil
    /\ UNCHANGED <<rules, blocked>>

(* Variant: the resource is not stored under the rewritten destination.    *)
ResolvedUnlogged(a) ==
    /\ resolving # Nil /\ a \in Resolve[resolving.name]
    /\ LET d == resolving.dst
           svc == resolving.svc
           p == resolving.port
       IN  /\ nat' = [nat EXCEPT ![<<p, d, svc>>] = a]
           /\ reverse' = [reverse EXCEPT ![<<p, a, svc>>] = d]
           /\ destRewrite' = [destRewrite EXCEPT ![<<d, svc>>] = a]
           /\ UNCHANGED resource
           /\ prescribed' = [prescribed EXCEPT ![<<d, svc>>] = @ \cup {a}]
           /\ Inject(p, d, Rewritten(d, a), svc, resolving.opening, resolving.resource, FALSE)
    /\ resolving' = Nil
    /\ UNCHANGED <<rules, blocked>>

(* The name has been resolved to a, by the rule the packet matched.        *)
Resolved(a) ==
    /\ resolving # Nil /\ a \in resolveRewriteAddress(resolving.name)
    /\ LET d == resolving.dst
           svc == resolving.svc
           p == resolving.port
       IN  /\ nat' = [nat EXCEPT ![<<p, d, svc>>] = a]
           /\ reverse' = [reverse EXCEPT ![<<p, a, svc>>] = d]
           /\ destRewrite' = [destRewrite EXCEPT ![<<d, svc>>] = a]
           /\ resource' = IF resolving.resource THEN resource \cup {<<a, svc>>} ELSE resource
           /\ prescribed' = [prescribed EXCEPT ![<<d, svc>>] = @ \cup {a}]
           /\ Inject(p, d, Rewritten(d, a), svc, resolving.opening, resolving.resource, FALSE)
    /\ resolving' = Nil
    /\ UNCHANGED <<rules, blocked>>

(* It could not be: the packet is proxied as it is.                        *)
ResolveFails ==
    /\ resolving # Nil /\ resolving.name \in Domains
    /\ LET d == resolving.dst
           svc == resolving.svc
       IN  /\ prescribed' = [prescribed EXCEPT ![<<d, svc>>] = @ \cup {d}]
           /\ Inject(resolving.port, d, d, svc, resolving.opening, resolving.resource, FALSE)
    /\ resolving' = Nil
    /\ UNCHANGED <<rules, blocked, natVars>>

(* handleTCPConn and handleUDPConn, whose connection the stack knows by    *)
(* the destination after NAT.                                              *)
Stage(t, stage) == conn' = [conn EXCEPT ![t].stage = stage]

(* releaseConnectionState, with the destination the handler sees.          *)
Release(t) ==
    IF nat[t] = Nil THEN UNCHANGED <<nat, reverse, revoked>>
    ELSE LET back == <<t[1], nat[t], t[3]>>
         IN  /\ nat' = [nat EXCEPT ![t] = Nil]
             /\ reverse' = [reverse EXCEPT ![back] = Nil]
             /\ revoked' = IF back \in Handlers \ {t} /\ conn[back].stage # "none"
                             THEN revoked \cup {back} ELSE revoked

(* A TCP handler that drops the connection returns before it has deferred  *)
(* the release; a UDP handler after.                                       *)
HandlerBlocked(t) ==
    /\ conn[t].stage = "new" /\ blocked[Watched]
    /\ conn' = [conn EXCEPT ![t] = Unused]
    /\ IF t[3] \in Tcp THEN UNCHANGED <<nat, reverse, revoked>> ELSE Release(t)
    /\ UNCHANGED <<rules, blocked, destRewrite, resource, resolving, echo, prescribed, users, logVars>>

HttpRule(t) == t[3] \in Web /\ \E r \in Match(rules[Watched], t[2], t[3]) : r.http

(* The HTTP handler takes the connection over; it is not logged here.      *)
HandlerHttp(t) ==
    /\ conn[t].stage = "new" /\ ~blocked[Watched] /\ HttpRule(t)
    /\ Stage(t, "http")
    /\ UNCHANGED <<rules, blocked, natVars, resolving, echo, ghostVars, logVars>>

Target(t) ==
    LET a == destRewrite[<<t[2], t[3]>>]
    IN  IF a = Nil THEN t[2] ELSE a

LogKey(t) == <<Target(t), t[3]>>

LookupResourceId(t) == <<t[2], t[3]>> \in resource

(* The handler looks its target and its resource up, starts a session and  *)
(* dials.  Each takes a lock of its own and they are one step here: a rule *)
(* or an entry that changes between two of them leads to a session and a   *)
(* target that the handler had found before or after the change.           *)
HandlerDials(t) ==
    /\ conn[t].stage = "new" /\ ~blocked[Watched] /\ ~HttpRule(t)
    /\ \/ /\ ~LookupResourceId(t)
          /\ conn' = [conn EXCEPT ![t].stage = "dialled", ![t].target = Target(t)]
          /\ UNCHANGED logVars
       \/ /\ LookupResourceId(t)
          /\ \E s \in Sessions :
                /\ IF t[3] \in Tcp THEN StartTCPSession(s, LogKey(t))
                   ELSE TrackUDPSession(s, LogKey(t), <<t[1], Target(t), t[3]>>)
                /\ conn' = [conn EXCEPT ![t].stage = "dialled", ![t].target = Target(t),
                                        ![t].session = s]
          /\ UNCHANGED <<completed, due, batch, closeVars, sent>>
    /\ UNCHANGED <<rules, blocked, natVars, resolving, echo, ghostVars>>

(* A handler is over: the session is ended first.                          *)
Ends(t) ==
    /\ conn[t].stage = "dialled"
    /\ Stage(t, "ending")
    /\ IF conn[t].session = 0 THEN UNCHANGED logVars ELSE EndSession(t, conn[t].session)
    /\ UNCHANGED <<rules, blocked, natVars, resolving, echo, ghostVars>>

(* handleTCPConn: the dial fails, or both directions of pipeTCP have ended.*)
TcpEnds(t) == t[3] \in Tcp /\ Ends(t)

(* handleUDPConn: no socket for the target, or pipeUDP was idle too long.  *)
UdpEnds(t) == t[3] \notin Tcp /\ Ends(t)

(* The deferred release, after the flush the end of the session may have   *)
(* led to; the connection is closed last, in the same step: until then the *)
(* stack starts no other handler for the tuple.                            *)
HandlerReleases(t) ==
    /\ conn[t].stage = "ending" /\ t \notin due /\ batch[t] = {}
    /\ Release(t)
    /\ conn' = [conn EXCEPT ![t] = Unused]
    /\ UNCHANGED <<rules, blocked, destRewrite, resource, resolving, echo, prescribed, users, logVars>>

HttpEnds(t) ==
    /\ conn[t].stage = "http"
    /\ conn' = [conn EXCEPT ![t] = Unused]
    /\ UNCHANGED <<rules, blocked, natVars, resolving, echo, ghostVars, logVars>>

(* handleICMPPacket and proxyPing: the destination, after NAT, is matched  *)
(* once more, its rule's name resolved, and a goroutine pings the target.  *)
EchoSent(a) ==
    /\ echo # Nil /\ echo.stage = "new"
    /\ \E r \in Match(rules[Watched], echo.dst, Icmp) :
        \/ r.rewriteTo \in Names /\ a \in resolveRewriteAddress(r.rewriteTo)
        \/ r.rewriteTo \in Domains \cup {NoName} /\ a = echo.dst
    /\ echo' = [echo EXCEPT !.stage = "sent"]
    /\ UNCHANGED <<rules, blocked, natVars, resolving, conn, ghostVars>>

(* No rule matches it any more.                                            *)
EchoIgnored ==
    /\ echo # Nil /\ echo.stage = "new"
    /\ Match(rules[Watched], echo.dst, Icmp) = {}
    /\ echo' = Nil
    /\ UNCHANGED <<rules, blocked, natVars, resolving, conn, ghostVars>>

(* No host answers: not to a raw socket, an unprivileged one or ping.      *)
EchoFails ==
    /\ echo # Nil /\ echo.stage = "sent"
    /\ echo' = Nil
    /\ UNCHANGED <<rules, blocked, natVars, resolving, conn, ghostVars>>

(* injectICMPReply: the reply bears the address the handler saw, and no    *)
(* NAT is undone when it is read.                                          *)
EchoAnswered ==
    /\ echo # Nil /\ echo.stage = "sent"
    /\ echo' = Nil
    /\ UNCHANGED <<rules, blocked, natVars, resolving, conn, ghostVars>>
-----------------------------------------------------------------------------
(* ReadOutgoingPacket: the source address of a reply of connection t.      *)
ReplySource(t) == IF reverse[t] = Nil THEN t[2] ELSE reverse[t]
=============================================================================
