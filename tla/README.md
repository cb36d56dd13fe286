# newt: a verification project

newt is the site agent of Pangolin: it keeps a websocket to the server, asks
for a tunnel over it, brings a WireGuard device up in user space and proxies
connections from the tunnel to targets of the site. This directory holds TLA+
models of its concurrent core, configurations that check them with TLC, and
proofs, checked by TLAPS, that hold for every value of the constants.

`PROJECT.json` is the index: components, runs, mutants, the map from every
definition to the lines it models, findings, hazards and theorems. Paths below
are relative to the repository's source tree.

Check a model with `tlc -config ws.cfg WSClient` and the proofs with
`tlapm WSClient_proofs.tla`.

## 1. Inventory

What each part keeps, what it does, whom it meets, and what makes it correct.
Those up to the netstack are modelled; the others are planned or left out
(sections 6 and 7).

**Websocket client** (`websocket/client.go`). State: `conn`, `isConnected`,
`done`, `processingMessage`, and per connection a channel `connClosed`.
Operations: `Connect`, `connectWithRetry`, `establishConnection`, the read pump
and its deferred clean-up, `reconnect`, `pingMonitor`/`sendPing`,
`SendMessage`, `SendMessageInterval`, `Close`. Five kinds of goroutine share
`c.conn`; `writeMux` covers writes and some assignments, not all. Correct if a
pump touches its own connection only, a loss leads to exactly one reconnect, no
socket is forgotten, a dead peer is noticed and `Close` ends everything.

**Tunnel registration** (`newt/handlers.go`, `connect.go`, `tunnel.go`,
`ping.go`). State: `stopFunc`, `connected`, `pendingPingChainId`,
`pendingRegisterChainId`, the ping check. A handshake of two repeated requests
(ping/exitNodes, register/connect), told apart from stale answers by chain ids,
is started by `OnConnect`, by a server command or by the ping check, which run
in different goroutines and share the fields without a lock. Correct if a
registration builds one tunnel however often it is answered, and a site without
a tunnel keeps trying.

**Hole punch manager** (`holepunch/holepunch.go`). State: `running`,
`stopChan`, `updateChan`, `exitNodes`, the intervals. `Start`,
`StartMultipleExitNodes`, `Stop`, `AddExitNode`/`RemoveExitNode`/
`RemoveExitNodesByPeer`, `Set`/`ResetServerHolepunchInterval`, and one punching
goroutine per start. Driven by the client service. Correct if changes reach the
goroutine, the interval stays in its limits and `Stop` stops.

**Shared UDP bind** (`bind/shared_bind.go`). State: `udpConn`, `ipv4PC`,
`rebinding`, `refCount`, `closed`, `closeChan`, the queue of injected packets.
`Open`, `CloseSocket`, `Rebind`, `AddRef`/`Release`/`Close`, `InjectPacket` and
two receive functions. Shared by WireGuard, the hole punch manager and the
direct relay. Correct if sockets are neither leaked nor closed under a user, a
receiver survives a rebind, and the last reference closes everything.

**Health check monitor** (`healthcheck/healthcheck.go`). State: a table of
targets with configuration, status, counters of consecutive results and a
context. Add/replace, remove, enable, disable, sync, stop, and one goroutine per
enabled target. Correct if an enabled target is checked by one goroutine, a
removed or disabled one by none, and the status follows the counters.

**Proxy manager** (`proxy/manager.go`, `newt/targets.go`). State: target tables
per protocol and port, `running`, `blocked`, listeners with a goroutine each,
UDP flows with a reader each, `activeTCP`/`activeUDP`. `AddTarget`,
`RemoveTarget`, `Start`, `Stop`, `SetBlocked`, the accept and packet loops. A
new manager is made for every tunnel and the goroutines of the old one outlive
it. Correct if listeners match the table, what is open is counted, a flow that
is no longer mapped is closed, and the block is respected.

**Tunnel set-up and synchronisation** (`newt/connect.go`, `tunnel.go`,
`data.go`, `targets.go`, `handlers.go`). State: device, netstack, proxy
manager, `currentPM`, `connectionBlocked`, active subnets, browser gateway.
`handleConnect`, `closeWgTunnel`, `handleSync`, adding and removing targets and
subnets, the reload on SIGHUP and the shutdown. Correct if what is open belongs
to the present tunnel, and table and subnets are what the server last asked.

**Client WireGuard service** (`clients/clients.go`, `newt/clients.go`). State:
`pendingConfigChainId`, `stopGetConfig`, device, netstack, certificates, peers,
last bandwidth readings, `blocked`, the direct relay. A configuration replaces
netstack and device; peers and targets are added, changed, removed and
synchronised by messages; a bandwidth check runs every ten seconds. Correct if
the rules and the block reach the proxy that is in use and no byte is reported
twice.

**Netstack and its proxy handler** (`netstack2/`). State: the subnet rules,
three NAT tables (by connection, reversed, by destination), the resource table,
the sessions and the buffer of the access log. `HandleIncomingPacket` matches a
rule, resolves its rewrite target and rewrites; the TCP, UDP and ICMP handlers
look their target up, dial, and release; `ReadOutgoingPacket` restores the
source; the access log is flushed by its loop, by a handler that fills it and
by `Close`. Correct if replies bear the address the client asked for, a handler
dials what a rule prescribes, and each session is reported once.

**Configuration and provisioning** (`websocket/config.go`). Loading and saving
the configuration file and the one-time exchange of a provisioning key for
credentials.

**Others.** Hole punch tester (`holepunch/tester.go`), exit node latency test
(`exitnode/`), connectivity tester (`wgtester/`), browser gateway
(`browsergateway/`), SSH server (`nativessh/`), auth daemon (`authdaemon/`),
docker watcher (`docker/`), network configuration (`network/`), self update and
process start-up (`updates/`, `main.go`), telemetry and logging.

How they meet. The websocket client calls registration twice over: message
handlers run in the read pump (one at a time, the next read waits), the
`OnConnect` callback runs in the connector, after the pump has been started.
Registration creates the proxy manager and the ping check with a tunnel and
closes them with it. The SIGHUP goroutine reaches the proxy manager through
`currentPM` and the clients' proxy through the client service, beside whatever
handler is running. The client service and the hole punch manager hold one
reference each to the bind. The health monitor reports through
`SendMessage`.

What is hard here: shared fields without locks, locks released between a check
and its use, channels held in fields that others replace, `select` choosing
among several ready channels, answers duplicated by design, reconnects that
overlap with the end of what they replace. The hazards in `PROJECT.json` name
the line where each of these bites.

## 2. Modules

| module | models | state and steps |
|---|---|---|
| `WSClient` | websocket client | Session *s* is the *s*-th connection with its connector, pump and ping monitor; a program counter per goroutine. A section under `writeMux` is one step; the accesses to `c.conn` outside it are steps of their own. |
| `Registration` | tunnel registration | A chain id stands for one call of `SendMessageInterval` with its goroutine. A handler is split where it blocks (pinging exit nodes, setting a tunnel up) and between its call of `stopFunc` and the assignment of nil. |
| `HolePunch` | hole punch manager | Run *r* is the *r*-th successful start: its goroutine and its two channels. The fields `stopChan`/`updateChan` name a run or nil; the goroutine reads them on entering its select, as the code does. |
| `SharedBind` | shared UDP bind | A section under `b.mu` is one step; every use of the atomics and of `closeChan` outside it is another. |
| `HealthMonitor` | health check monitor, for one target id | An instance is one `*Target`; operations under `m.mutex` are one step, the goroutine holds no lock. |
| `ProxyManager` | proxy manager | Indexed by the tunnel it was made for. An operation under `pm.mutex` is one step, except `Start`, whose listeners accept before `running` is set. A listener includes its goroutine; a UDP flow its reader. |
| `Site` (extends `ProxyManager`) | tunnel set-up, targets, synchronisation, SIGHUP, shutdown | A handler is split where another goroutine can see the difference: the close of the old tunnel, the new device, the new manager, its publication, each call of the manager, the gateway. |
| `SubnetRules` | rule lookup | `Match`, as an operator on a set of rules. |
| `AccessLog` | access log | A record is the set of raw sessions consolidated in it. A section under `al.mu` is one step, so a flush is a take and later a success, a failure or a re-queue. |
| `SessionLedger` | what the access log promises | Each session is open, ended, reported once, or lost from a full buffer. |
| `NetProxy` (extends `SubnetRules`, `AccessLog`) | proxy handler | The packets of one client: match, resolve, rewrite, handler, release, reply. |
| `ClientService` (extends `NetProxy`) | client service | Request, configuration, peer, rules, certificates, block, relay, bandwidth checks, `Close`; its messages change the rules under `NetProxy`'s connections. |
| `MCHolePunch`, `MCSite`, `MCClients` | values for the runs | The interval pairs; the updown script and the message contents; rules, names and budgets. |
| `WSClient_proofs`, `Registration_proofs`, `HolePunch_proofs`, `SharedBind_proofs`, `HealthMonitor_proofs`, `Site_proofs`, `AccessLog_proofs`, `Clients_proofs` | proofs | See section 5. |

Operators whose comment begins with "Variant" (or that are introduced as
variants) are mutants: the definition that follows, with a slip in it. They are
not part of any next-state relation; `PROJECT.json` says which property each one
breaks.

Abstractions that matter:

- *WSClient.* A socket is up, reset, half-open, expired, late or closed.
  Provisioning, token request and dial are one step that succeeds or fails.
  Messages have no content. A nil dereference (`SendMessage` and `Close` check
  `c.conn` before they take the lock) ends the behaviour with `crashed`; the
  properties are stated up to it.
- *Registration.* The server answers every request that is sent on a live
  websocket; the answer bears the chain id of the request, or none for the
  requests in `Unmarked`, and handlers take one without for current. Answers are
  queued in order and lost with the websocket. The assumption that nothing else
  loses a request or an answer is the model's, not the code's, and it hides a
  case: if the requests of a live handshake go unanswered, a late duplicate of an
  earlier `exitNodes` stops its sender before the chain ids are compared
  (`handlers.go` 112-115), and `HandshakeAlive` would not hold. `OnConnect`
  callbacks of successive connections do not overlap. Comparing a chain id and
  clearing it is one step, and so is testing `stopFunc` and calling it: a store
  in between ends in the same panic as one of the two orders does. The body of
  `handleConnect` between its first lines and its end is a success or one of the
  early returns. `newt/wg/restart` and the end of the process are left out.
  `stray` is a ping check that was told to stop while it was pinging. `gaveUp`
  records that newt itself has stopped asking (terminated, no exit nodes, an
  `exitNodes` that does not parse, `handleConnect` failed). The instance ends
  when its chain ids are used up.
- *HolePunch.* Resolving may fail for any node, so the result is any subset of
  the rotation. Packets are not modelled.
- *SharedBind.* Starts with two references, as `NewWireGuardService` leaves it,
  and allows one `Release` too many. Routing of outgoing packets and the reply
  to magic packets change nothing the properties speak of. `DirectRebind`
  chooses whether `Rebind` may come without `CloseSocket`, which its comments
  allow; the run for the finding uses the documented order only.
- *HealthMonitor.* A result is recorded in two unlocked steps; once two
  goroutines have recorded results of one instance at the same time (`clash`)
  its status may be anything, and nothing is claimed of it. The timer, a field
  of the instance as well, may fire whenever a goroutine waits. Counters are kept up to their thresholds, which is all the
  code compares them with.
- *ProxyManager and Site.* An address is a name; that it is IPv6 matters to the
  sync, which splits on colons. The updown script maps an address to another or
  fails; what it returns need not parse (`Raw`), in which case a sync that finds
  it in the table skips its removal. A listen, dial, read or write may fail at any
  time, and a listen on a native interface does while another manager holds the
  port. `handleConnect` may fail to read its message, to create the device, to
  configure it or to bring it up. Chain ids
  and senders are `Registration`'s: here a connect message is one that passed
  its check. Byte counters and their flush loop, `ClearTunnelID` (called by
  nothing) and the gateway's list of allowed users are left out.
- *AccessLog.* The order in the buffer matters only when it overflows; then any
  records may be cut off that the code's order can put last. Consolidation is
  by key, for at least `MinMerge` records. The log also discards a batch when it
  has no sender or cannot compress it; neither occurs, since
  `ensureWireguardInterface` sets the sender before there is a device to bring a
  packet, and the compression writes to memory.
- *NetProxy.* One client (all tables are keyed by its address) and the packets
  of the first netstack. A service is a protocol and port. A packet that waits
  for a name holds up those behind it. Hand-off to the HTTP handler ends a
  connection's story. `HandlerDials` takes its look-ups, each under a lock of its
  own, together: they read tables that lose no entry and a block that may change just
  before or after. `HandlerReleases` takes the release with the close of the
  connection. `prescribed`, `users`, `revoked`, `must` and `tracked` are history
  for the properties. Pings, certificates and the relay are there because the
  handlers that change them are; no property rests on them.
- *ClientService.* One peer. A certificate is a version number. A configuration
  without a chain id is taken at any time. Rules are added and removed one at a
  time. Handlers may run while `Close` does: one that finds the bind or the
  netstack gone dereferences nil and the service is `crashed`. The store of
  `SetBlocked` and its read of the netstack are one step. The hole punch
  manager, its tester, the SSH server and the references to the bind are left
  out; `SharedBind` has the references.

## 3. Runs

Passing runs:

| run | bounds | shows |
|---|---|---|
| `ws` | 2 sessions, 1 sender, 1 Close | `PumpOwnsConn`, `SingleReconnect`, `NoOrphanSocket`, `FlagsExact`; `ShutdownCompletes`, `HalfOpenDetected`, `LossReconnects` |
| `reg` | 4 chain ids, of which the last ends the instance, 2 attempts per request, 2 messages in flight, 1 drop or command; any answer may lack its chain id | `TypeOK` (with the bound on attempts), `BuiltOnce`, `DoubleStopWindow`, `HandshakeAlive`; `EventuallyConnected` |
| `hp` | 2 starts, 1 exit node, 2 changes | `TypeOK` (with the limits of the interval), `RunningHasGoroutine`, `NoLostUpdate`; `UpdateServed` |
| `bind` | 3 sockets, 2 releasing goroutines, 3 releases, queue of 2 | `NoSocketLeak`, `PairCoherent`, `NoLostWakeup`, `LastReleaseCloses`, `NoResurrection`; `UnusedIsClosed`, `CloseEndsReceivers` |
| `hc` | 2 instances, 2 goroutines, thresholds of 2 | `StatusAgrees`, `EnabledIsMonitored`; `CancelledStops` |
| `site` | 2 tunnels, 3 listeners, 2 flows, 1 connection, 4 outside events; 1 TCP and 1 UDP port, 2 message contents | `TypeOK` (the counters never fall below zero), `ListenersFollowTable`, `FlowsAccounted`, `BlockApplied`, `TableAsAsked`, `TunnelResources` |
| `clients` | 3 sessions, buffer of 2, 2 netstacks, 2 checks, 3 configurations; five budgets | `ReplyAddress`, `DialledAsRuled`, `BlockReaches`, `BandwidthOnce`; `Ledger` |

The larger ones have 2.3 million (`site`), 0.9 million (`reg`) and 0.7 million
(`clients`) distinct states. A type invariant is a property of the runs only
where it bounds something the code computes; for `WSClient`, `SharedBind` and
`HealthMonitor` type correctness is proved, as part of the inductive invariant.

Why the bounds are enough: two sessions
let an old pump and monitor overlap with a new connector, pump and monitor, and
the sessions form a chain (proved in `WSClient_proofs`), so a third meets only
the second. The chain ids allow a complete handshake and the start of another, by
a recovery, a command or a reconnect, under the answers of the first; two attempts make every answer arrive twice and let a request run out of
attempts. Two starts make a late goroutine meet the channels of its successor;
one exit node suffices because nodes do not interact, and the pairs `<<1, 5>>`
and `<<3, 3>>` make the doubling hit a limit it does not divide. Three releases
are one more than there are references. Two instances and two goroutines give a
replacement, or a disable and enable, during a check. In `site` two tunnels
make the old manager's goroutines meet the new manager; the two contents differ
in every slot, so that one after the other adds, removes, changes and drops, and
the same one again is a sync without a change; four events are a connect, a
second message and two more (a packet, a connection, a SIGHUP, a shutdown). Both
kinds of interface are initial states. In `clients` a budget says how much of
each kind comes from outside (configurations, messages, notifications, packets,
reloads, traffic, checks) and each is explored to the end: a rule change under
two packets, three packets, two configurations with two reloads, two
configurations with traffic and three checks, two notifications with traffic.
The rules send two destinations to one host, a destination to a name with two
addresses (one of them loopback), a target that is itself a destination, and
change to no rewriting.

What `FlagsExact` and `CancelledStops` combine: `processingMessage` and
`isConnected`, the two flags other goroutines go by; a target replaced or
disabled, whose goroutines must end. `Ledger` is a refinement: `AccessLog`
implements `SessionLedger` under the mapping in `Promise`, which sees a session
in a batch or in the buffer as ended. A session that is active or sent
and still somewhere else would map to "twice", which is no state of the ledger,
so the refinement also says that this never happens.

What the properties set aside or leave open, because the code does have these
cases. None of them is asserted to happen: a change of the code that removes one
breaks no property.

- a failed `AddTarget` leaves its table entry, so later syncs see no difference
  and never retry (`failed`); a `Start` that fails half way strands its
  listeners, on a native interface also against the next tunnel (`strands`); a
  goroutine that meets an accept error before `running` is set ends for good
  (`early`);
- a `connect` without a chain id is acted on whenever it comes, so each duplicate
  of one builds the tunnel again: `BuiltOnce` counts the answers that bear the
  chain id of their request (`connect.go` 39);
- a receiver that already waits for a rebind when the bind is closed waits for
  ever, since `closeConnection` does not signal the condition, although the
  comments (`shared_bind.go` 142, 269) and the test of `closed` in the wait loop
  mean it to stop: `CloseEndsReceivers` speaks of receivers anywhere else;
- a failed dial leaves `activeTCP` raised (a connection "failed"), and a flow
  dropped by the listener's goroutine leaves `activeUDP` raised (`uncounted`), so
  that the metric does not count the "active connections" of its description:
  `FlowsAccounted` bounds the counters from both sides and leaves these open;
- a SIGHUP between the load of the block and the publication of the new manager
  is missed until the next change (`missed`, `connect.go` 237-238), and in the
  client service a block lifted after it was loaded may be applied (`raced`);
- a sync drops an IPv6 target and removes the running one, although
  `parseTargetString` and its tests accept such targets, and it leaves a target
  whose address the script made unreadable: `TableAsAsked` claims nothing of a
  slot after such a sync;
- an early return of `handleConnect` leaves the new device open (`left`); on a
  native interface the next `CreateTUN` fails until the tunnel is closed;
- two destinations of one client port with one target share a reverse entry
  (`users`), and the release of an older connection removes the entry of a newer
  one (`revoked`), although the comment at `releaseConnectionState` says that a
  tuple is not used again before it is closed;
- a stale `destRewriteTable` entry is used after the rule has changed, although
  the comment at `handlers.go` 169 has a change take effect with the next
  connection; a target that is itself a destination is dialled at its own
  rewrite; and a connection whose first packet is rewritten by an old NAT entry
  is not logged, because its resource is stored under the destination before the
  rewriting (`proxy.go` 605-620). `DialledAsRuled` says "ever prescribed", and
  leaves the logging of such a connection (`tracked`) open; in `clients` it
  happens;
- a bandwidth check that is overtaken between its reading and `s.mu` makes bytes
  be reported twice (`overlapped`).

Further observations from the modelling, none of them a property: a handler
sees the rewritten destination, so its release finds no entry for a destination
that was rewritten to a non-loopback address and those NAT entries stay; a
blocked TCP connection and one handed to the HTTP handler release nothing; a
full access log drops what came last, while its log line says "oldest"; a rule
that matches the address but forbids the port falls through to a broader one;
`handleUpdateTarget` leaves a moment without a rule; renewed certificates do not
reach rules already installed; `syncPeers` does not change the allowed IPs of a
known peer; with a native interface every configuration after the first fails
at `CreateTUN`, since the first device is still open, and returns before its
peers are set.

Runs that end in a counterexample; the finding in `PROJECT.json` quotes the
comment or message that the code contradicts:

- `ws_stale_close` (`PingClosesOwnConn`): a ping fails on one connection,
  `sendPing` releases `writeMux`, the read pump reconnects, and `sendPing`
  closes the new connection.
- `reg_recovery` (`RecoveryContinues`): after the ping check has declared the
  tunnel lost, a drop of the websocket or a stale duplicate leaves no request
  under way. `OnConnect` starts none because `connected` is still true, and the
  ping check fires only once.
- `hp_stop` (`StopEndsGoroutines`): `Stop` closes the stop channel and sets the
  field to nil while the goroutine punches; the goroutine's next select reads
  nil.
- `bind_rebind` (`ReceiverSurvivesRebind`): the receiver looks at `rebinding`
  after its read has failed; a `Rebind` that is quicker makes it end.
- `hc_enable` (`OneMonitor`): a goroutine that was checking during a disable and
  an enable waits on the new context, beside the new goroutine.

Deadlock is checked in `ws`, `reg` and `hp`, where resting states (after `Close`, after a
panic, with the bounds used up) are explicit steps. `bind`, `hc`, `site`
and `clients` switch it off: a bind nobody uses, a monitor without targets, and
a site or service that hears nothing more from outside rest, and nothing has to
happen.

## 4. Fairness

Weak fairness of a goroutine's steps stands for the Go scheduler: what can run
does. It is assumed of steps the code bounds in time (dials, handlers and checks
have timeouts, tickers tick, an armed read deadline passes), never of the
arrival of a message, of a user's call, of a broken link or of the success of a
dial. In `Registration` the websocket is dialled again after a drop
(`connectWithRetry` never gives up). Strong fairness is assumed of single
branches of a `select` (`MonitorExits`, `SelectStop`, `SelectUpdate`,
`NetRecvEnds`, `SelectDone`): Go chooses at random among the ready branches, so
a branch that is ready again and again is taken in the end although a ticker or
a queue competes with it. In `Registration` fairness is assumed of the senders
together and of the handlers together, not of each.

`site` and `clients` check safety only and assume no fairness.

## 5. Proofs

`WSClient_proofs`, for any `MaxSession >= 1` and any set of senders:
`TypeCorrect`, `PumpOwnership`, `OneReconnect`, `NoSocketLeak`,
`FlagsSound`. None of these invariants is inductive by
itself: that a pump's connection is `c.conn` depends on no other session
installing one in the meantime. `SessionChain` supplies this: a session exists
only if all earlier pumps have exited, a connector dials only while `c.conn` is
nil, and a pump that starts its successor has already set it to nil.
`ChainSingle` draws the consequence that while one session is connecting no
other has a connector or pump at work; `CoreStep` shows, action by action, that
the chain and what rests on it are kept (`CoreFrame` disposes of the steps that
touch none of its variables).

`SharedBind_proofs`, for any number of sockets, releasing goroutines, releases
and any queue capacity: `BindTypeCorrect`, `BindNoSocketLeak`,
`BindPairCoherent`, `BindNoLostWakeup`, `BindLastReleaseCloses`,
`BindNoResurrection`. The strengthening has two parts. `CountBound`: the count
falls short of the initial references by no more than the releases made, and is
found negative only after more releases than references, which bounds it from
below although it is reset to 0 without a lock. `SignalMarked`: whoever is past
the compare-and-swap has set `closed`, so a second caller cannot be.
`QuietStep` and `RefStep` are frame lemmas for steps that leave the references,
or the sockets, alone.

`HealthMonitor_proofs`, for any number of instances and goroutines and any
thresholds: `HcTypeCorrect`, `HcStatusAgrees`, `HcEnabledIsMonitored`. The status
follows the counters although a result is recorded in two unlocked steps, because
of `OneRecorder`: as long as an instance has not seen two goroutines record at
once, at most one is between the steps, and the streak it ends stays at zero
until it is done. `Fresh` says that contexts are never reused, so that cancelling
an old one cannot end a new goroutine.

`HolePunch_proofs`, for any rotation, any intervals in order and any number of
starts: `HpTypeCorrect` (with the limits of the interval), `HpRunningHasGoroutine`,
`HpNoLostUpdate`. `NewestRun` carries them: while `running` is set the two channel
fields are those of the newest run, and if its goroutine waits it waits on that
update channel, however many goroutines of earlier runs are still alive.

`Registration_proofs`, for any number of chain ids, attempts, messages in flight,
drops and commands, and any set of requests whose answers may lack the chain id:
`RegTypeCorrect`, `RegBuiltOnce`, `RegDoubleStopWindow`,
`RegHandshakeAlive`. `Once` says that a chain whose tunnel is being built is
waited for no longer, so a duplicate of its answer is turned away. `UnderWay` is
`HandshakeAlive` while handlers run as well: the pending request has not been
sent yet, its answer is in the inbox, or the handler at work will start the next
request or give up. The lemmas about the inbox (`InInbox`) say what a message
appended or taken leaves there.

`AccessLog_proofs` and `Clients_proofs`. The first has the invariant `LogInv` of
the access log, whose core is `OnePlace`: every session is active, sent, or in
exactly one record of the queue or of one batch. For each operation of the log it
shows that the operation keeps `LogInv` and is a step of `SessionLedger` or none;
`ConsolidationRecords` shows that consolidating loses and duplicates no session,
and `SendFailsStep` that what falls out of a full buffer is lost only while the
buffer's capacity of others waits. The second composes this with the proxy and the
service that make the calls, for any addresses, services, rules, names and
configurations and any number of connections, sessions, netstacks and checks:

- `LogKeepsLedger`: the refinement `Ledger`, initial states and every step;
- `RepliesFindBack` and `DialsAsRuled` (`ReplyAddress`, `DialledAsRuled`): every
  NAT entry leads to an address a rule prescribed, and the tuple after NAT leads
  back unless another destination has used it (`NatKept`); a connection is such
  that its replies find back through those tables (`ConnKept`), which is kept
  although rules change and other connections are released under it, and that its
  resource is in the table, unless an old NAT entry rewrote its first packet;
- `BlockAlwaysReaches` (`BlockReaches`): `BlockLoad` says that between its
  creation and the load of `s.blocked` the new proxy blocks only if it is to, and
  `BlockKept` holds for the old one while a configuration is on its way to a new
  one, since the creation may fail and leave the old one in use;
- `BandwidthNeverTwice` (`BandwidthOnce`): `BandKept` is the inequality between
  what was reported, what a reading under way will add (`Gain`, which knows of
  the reset of a counter), what the device has counted since and what was
  carried.

`Site_proofs`, for any ports, addresses, updown script and message contents and
any number of tunnels, listeners, flows, connections and outside events, with any
set of addresses that do not parse, as long as no message asks for one:
`SiteTypeCorrect`, `SiteListenersFollowTable`, `SiteFlowsAccounted`,
`SiteBlockApplied`, `SiteTableAsAsked`, `SiteTunnelResources`. `SiteInv` says what
holds at each stage of a handler, and falls into parts that are proved one after
the other. `Stage` and `Resources` (`TunnelStep`): a tunnel that does not count as
connected has no manager and no device but one that was given up, and the
handlers' stages imply `connected` or its negation. `BlockKept` (`BlockStep`)
extends `BlockApplied` to the manager that is about to be published. `Updating`,
`Fresh` and `Asked` (`ManagerStep`): a slot that waits for its `AddTarget` has been
cleared, a manager is untouched until it is published and started once, and the
work still to be done on a slot leads to what was asked. With these, `OneListener`,
`Starting` and `Serving` follow the listeners through `AddTarget`, `RemoveTarget`,
`Start`, `Stop` and the goroutines that give up. `Loops`, `Mapped`, `FlowsCounted`
and `ConnsCounted` (`FlowStep`, `ConnStep`) tie the counters to the flows and
connections there are; they need finite cardinalities (`CountUp`, `CountDown`).

The assumptions are the named `ASSUME`s of the component modules, which TLC
evaluates in every run: bounds are positive, or natural, numbers; intervals are in
order (`IntervalAssumption`); TCP and UDP ports are told apart and the names of
"nothing" are no addresses, ports, rules or packets (`SlotsAssumption`,
`AddrsAssumption`, `NetProxyAssumption`, `ServiceAssumption`, `LogAssumption`); a
message holds lists of targets, subnets and a gateway flag (`ContentsAssumption`)
and the script maps addresses to addresses (`SiteAssumption`). There are finitely
many addresses, and no more configurations than there is room for bandwidth
checks (each starts one).

Every invariant and action property of the passing runs, and the refinement of
`SessionLedger`, is stated by a theorem. Only model-checked: the liveness
properties (`ShutdownCompletes`, `HalfOpenDetected`, `LossReconnects`,
`EventuallyConnected`, `UpdateServed`, `UnusedIsClosed`, `CloseEndsReceivers`,
`CancelledStops`), since fairness and ENABLED are beyond the proof system, and the
five properties that end in a counterexample.

## 6. Plan

Done, in this order because each rests on the one before or is used by it:
`WSClient`, `Registration`, `HolePunch`, `SharedBind`, `HealthMonitor`; then
`ProxyManager` and `Site`, `SubnetRules`, `SessionLedger`, `AccessLog`, `NetProxy`
and `ClientService`; each with its proofs.

Theorems that could follow: lemmas about `Match` of `SubnetRules` for any set of
rules, and action properties of the proved modules (a context once cancelled is
never used for a new goroutine, a tunnel number is never given twice).

Modules that could follow: `Credentials` (loading, saving and the one-time
provisioning exchange, with a crash between its steps) and `HolePunchTester`
(request and response matching against timeouts). Abstract specifications worth
stating: a session manager implemented by `WSClient` under a mapping that
forgets the goroutines, and a reference-counted resource implemented by
`SharedBind`.

## 7. Not modelled

Left for the plan above: provisioning and the hole punch tester. Within the
modelled components: the health status callback and its order of arrival, the
HTTP handler behind its hand-off with its request log, the DNS and ping sockets
of the netstack, byte counters of the proxy manager, more than one client and
peer, the client service's calls of the hole punch manager.

Left out for good: the browser gateway, the SSH server and the auth daemon
(third-party protocols and operating system calls), network configuration (one
system call per line and operating system), docker queries, self update and
process start-up, telemetry and logging (write-only), exit node latency and
connectivity tests (stateless requests). TLS set-up, encryption and packet
formats inside the modelled components are likewise outside. Data races on a
single word (for example on `c.conn` or `target.ctx`) are modelled as atomic
reads and writes in any order.
