----------------------------- MODULE AccessLog -----------------------------
(***************************************************************************)
(* The access logger of a netstack (netstack2/access_log.go): sessions are *)
(* started and ended by the goroutines of the client connections, queued,  *)
(* consolidated and sent by whoever flushes - the background loop, a       *)
(* handler that fills the buffer, or Close - and queued again when the     *)
(* send fails.  A section under al.mu is one step.                         *)
(*                                                                         *)
(* The queue is a set of records, a record the set of the raw sessions     *)
(* consolidated in it.  Its order matters only to a buffer that overflows: *)
(* a failed batch goes in front of what was queued meanwhile, in the order *)
(* Go's map iteration gave its groups, and the end is cut off.             *)
(*                                                                         *)
(* flush also discards a batch when there is no sender or when it cannot   *)
(* be compressed.  Neither is modelled: the service sets the sender of a   *)
(* netstack before its device exists, and strings, numbers and times are   *)
(* encoded into a buffer in memory.                                        *)
(***************************************************************************)
EXTENDS Naturals, FiniteSets

CONSTANTS
    Handlers,       \* the connections, whose goroutines end sessions
    MaxSession,     \* bound on the sessions
    MaxBuffered,    \* maxBufferedSessions
    Cap,            \* maxBufferedSessions * 5
    MinMerge,       \* minConnectionsToConsolidate
    Loop, Closer    \* backgroundLoop and Close, as they flush

ASSUME LogAssumption ==
    /\ MaxSession \in Nat /\ MaxBuffered \in Nat /\ Cap \in Nat
    /\ Loop # Closer /\ {Loop, Closer} \cap Handlers = {}

Sessions == 1 .. MaxSession
Flushers == Handlers \cup {Loop, Closer}

VARIABLES
    started,        \* how many sessions there have been
    active,         \* al.sessions
    key,            \* the consolidation key of a session
    udp,            \* al.udpSessions: the session of a source and destination
    completed,      \* al.completedSessions
    due,            \* the goroutines that have filled the buffer and will flush
    batch,          \* what a flush has taken and not yet sent
    loop,           \* backgroundLoop: running or ended
    closer,         \* Close: idle, waiting for the loop, flushing, done
    sent            \* the sessions the server has been told of

logVars == <<started, active, key, udp, completed, due, batch, loop, closer, sent>>
sessionVars == <<started, active, key, udp>>
closeVars == <<loop, closer>>

LogInit ==
    /\ started = 0 /\ active = {}
    /\ key = [s \in Sessions |-> "none"]
    /\ udp = {}
    /\ completed = {} /\ due = {}
    /\ batch = [f \in Flushers |-> {}]
    /\ loop = "running" /\ closer = "idle"
    /\ sent = {}

(* StartTCPSession.                                                        *)
StartTCPSession(s, k) ==
    /\ s = started + 1
    /\ started' = s
    /\ active' = active \cup {s}
    /\ key' = [key EXCEPT ![s] = k]
    /\ UNCHANGED udp

(* TrackUDPSession: a session of the same two addresses is shared.  The    *)
(* consolidation key does not tell source ports apart, id does.            *)
TrackUDPSession(s, k, id) ==
    \/ /\ [id |-> id, session |-> s] \in udp
       /\ UNCHANGED sessionVars
    \/ /\ \A u \in udp : u.id # id
       /\ s = started + 1
       /\ started' = s
       /\ active' = active \cup {s}
       /\ key' = [key EXCEPT ![s] = k]
       /\ udp' = udp \cup {[id |-> id, session |-> s]}

(* The sessions of S leave the tables for the queue.                       *)
Complete(S) ==
    /\ active' = active \ S
    /\ udp' = {u \in udp : u.session \notin S}
    /\ completed' = completed \cup {{s} : s \in S}
    /\ UNCHANGED <<started, key>>

(* flush, up to the send, by f with the queue q.                           *)
TakeBatch(f, q) ==
    /\ batch' = [batch EXCEPT ![f] = q]
    /\ completed' = {}

(* The flush of a handler that found the buffer full: by now another may   *)
(* have taken it.                                                          *)
HandlerFlush(h) ==
    /\ h \in due
    /\ due' = due \ {h}
    /\ TakeBatch(h, completed)
    /\ UNCHANGED <<sessionVars, closeVars, sent>>

(* EndTCPSession and EndUDPSession by the goroutine h: the session may     *)
(* have been ended by Close, by the reaper or by a handler that shares it. *)
EndSession(h, s) ==
    /\ Complete({s} \cap active)
    /\ due' = IF Cardinality(completed') >= MaxBuffered THEN due \cup {h} ELSE due
    /\ UNCHANGED <<batch, closeVars, sent>>

(* The tick of flushTicker.                                                *)
LoopFlush ==
    /\ loop = "running" /\ batch[Loop] = {} /\ completed # {}
    /\ TakeBatch(Loop, completed)
    /\ UNCHANGED <<due, sessionVars, closeVars, sent>>

(* The tick of reapTicker: UDP sessions that are older than five minutes.  *)
Reap(S) ==
    /\ loop = "running" /\ batch[Loop] = {}
    /\ S # {} /\ S \subseteq {u.session : u \in udp}
    /\ Complete(S)
    /\ UNCHANGED <<due, batch, closeVars, sent>>

(* consolidateSessions: records of one key whose gaps are short are        *)
(* merged, when the key has MinMerge records or more.                      *)
KeyOf(r) == key[CHOOSE s \in r : TRUE]

Consolidations(b) ==
    {{UNION {r \in b : lead[r] = l} : l \in {lead[r] : r \in b}} :
        lead \in {f \in [b -> b] : \A r \in b :
                    /\ f[f[r]] = f[r]
                    /\ KeyOf(f[r]) = KeyOf(r)
                    /\ f[r] # r => Cardinality({x \in b : KeyOf(x) = KeyOf(r)}) >= MinMerge}}

(* The send succeeded: the server has the batch.                           *)
SendOk(f) ==
    /\ batch[f] # {}
    /\ sent' = sent \cup UNION batch[f]
    /\ batch' = [batch EXCEPT ![f] = {}]
    /\ closer' = IF f = Closer THEN "done" ELSE closer
    /\ UNCHANGED <<sessionVars, completed, due, loop>>

(* It failed: the batch, consolidated, goes back in front of the queue,    *)
(* which is cut off behind Cap records.                                    *)
Kept(front, rest) ==
    IF Cardinality(front \cup rest) <= Cap THEN {front \cup rest}
    ELSE {q \in SUBSET (front \cup rest) :
            Cardinality(q) = Cap /\ (front \subseteq q \/ q \subseteq front)}

(* Variant: the batch is not queued again.                                 *)
SendFailsDrops(f) ==
    /\ batch[f] # {}
    /\ batch' = [batch EXCEPT ![f] = {}]
    /\ closer' = IF f = Closer THEN "done" ELSE closer
    /\ UNCHANGED <<sessionVars, completed, due, loop, sent>>

SendFails(f) ==
    /\ batch[f] # {}
    /\ \E front \in Consolidations(batch[f]) : completed' \in Kept(front, completed)
    /\ batch' = [batch EXCEPT ![f] = {}]
    /\ closer' = IF f = Closer THEN "done" ELSE closer
    /\ UNCHANGED <<sessionVars, due, loop, sent>>

(* Close: signals the loop once, waits for it, ends what is active and     *)
(* flushes.                                                                *)
CloseLog ==
    /\ closer' = IF closer = "idle" THEN "waiting" ELSE closer
    /\ UNCHANGED <<sessionVars, completed, due, batch, loop, sent>>

LoopEnds ==
    /\ loop = "running" /\ closer = "waiting" /\ batch[Loop] = {}
    /\ loop' = "ended"
    /\ UNCHANGED <<sessionVars, completed, due, batch, closer, sent>>

CloseFlushes ==
    /\ closer = "waiting" /\ loop = "ended"
    /\ LET q == completed \cup {{s} : s \in active}
       IN  /\ TakeBatch(Closer, q)
           /\ closer' = IF q = {} THEN "done" ELSE "flushing"
    /\ active' = {} /\ udp' = {}
    /\ UNCHANGED <<started, key, due, loop, sent>>

LogNext ==
    \/ LoopFlush
    \/ \E h \in Handlers : HandlerFlush(h)
    \/ \E S \in SUBSET Sessions : Reap(S)
    \/ \E f \in Flushers : SendOk(f) \/ SendFails(f)
    \/ LoopEnds
    \/ CloseFlushes
-----------------------------------------------------------------------------
(* Where a session is.                                                     *)
Queued(s) ==
    \/ \E r \in completed : s \in r
    \/ \E f \in Flushers : \E r \in batch[f] : s \in r

(* A session that is in two places would be reported twice.                *)
Twice(s) ==
    \/ s \in active \cap sent
    \/ s \in active \cup sent /\ Queued(s)

LedgerOf(s) ==
    IF s > started THEN "none"
    ELSE IF Twice(s) THEN "twice"
    ELSE IF s \in active THEN "open"
    ELSE IF s \in sent THEN "reported"
    ELSE IF Queued(s) THEN "ended" ELSE "lost"

Promise == INSTANCE SessionLedger WITH ledger <- [s \in Sessions |-> LedgerOf(s)]
=============================================================================
