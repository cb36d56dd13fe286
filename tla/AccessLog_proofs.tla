-------------------------- MODULE AccessLog_proofs --------------------------
(***************************************************************************)
(* The access log implements SessionLedger, step by step, whoever calls    *)
(* it: the invariant of the log, and for each of its operations that it    *)
(* keeps this invariant and is a step of the ledger.  Clients_proofs       *)
(* composes these lemmas with the proxy that makes the calls.              *)
(***************************************************************************)
EXTENDS AccessLog, FiniteSetTheorems, TLAPS

(* Pairwise disjoint records of the sessions of P.                         *)
Records(R, P) ==
    /\ R \subseteq SUBSET P
    /\ {} \notin R
    /\ \A r, q \in R : r = q \/ r \cap q = {}

Apart(R, Q) == \A r \in R, q \in Q : r \cap q = {}

(* The sessions that may be waiting for a flush.                           *)
Past == (1 .. started) \ (active \cup sent)

LogTypes ==
    /\ started \in 0 .. MaxSession
    /\ active \subseteq 1 .. started
    /\ sent \subseteq 1 .. started
    /\ batch \in [Flushers -> SUBSET SUBSET Sessions]
    /\ due \subseteq Handlers

(* A session is in one place: active, sent, or in one record of the queue  *)
(* or of one flush.                                                        *)
OnePlace ==
    /\ active \cap sent = {}
    /\ Records(completed, Past)
    /\ \A f \in Flushers : Records(batch[f], Past) /\ Apart(batch[f], completed)
    /\ \A f, g \in Flushers : f # g => Apart(batch[f], batch[g])

(* The sessions in the table for UDP are active.                           *)
UdpActive == {u.session : u \in udp} \subseteq active

(* Nobody starts a flush before the last one is over.                      *)
OneFlush ==
    /\ \A h \in due : batch[h] = {}
    /\ closer # "flushing" => batch[Closer] = {}

LogInv == LogTypes /\ OnePlace /\ UdpActive /\ OneFlush

ledgerNow == [s \in Sessions |-> LedgerOf(s)]

(* A step of the ledger, or none.                                          *)
LedgerStep == Promise!Next \/ UNCHANGED ledgerNow

USE LogAssumption DEF Sessions, Flushers

-----------------------------------------------------------------------------
(* Records.                                                                *)

(* As many sessions as records, at least: the records are not empty and    *)
(* share none.                                                             *)
LEMMA RecordsCount ==
  ASSUME NEW R, Records(R, Sessions)
  PROVE  Cardinality(R) <= Cardinality(UNION R) /\ IsFiniteSet(R) /\ IsFiniteSet(UNION R)
  <1> DEFINE f == [r \in R |-> CHOOSE s \in r : TRUE]
  <1>1. IsFiniteSet(Sessions)
    BY FS_Interval
  <1>2. UNION R \in SUBSET Sessions
    BY DEF Records
  <1>3. IsFiniteSet(UNION R)
    BY <1>1, <1>2, FS_Subset
  <1>4. \A r \in R : f[r] \in r
    BY DEF Records
  <1>5. f \in [R -> UNION R]
    BY <1>4
  <1> HIDE DEF f
  <1>6. ASSUME NEW r \in R, NEW q \in R, f[r] = f[q] PROVE r = q
    <2>1. f[r] \in r \cap q
      BY <1>4, <1>6
    <2> QED
      BY <2>1 DEF Records
  <1>7. f \in Injection(R, UNION R)
    BY <1>5, <1>6 DEF Injection, IsInjective
  <1> QED
    BY <1>3, <1>7, FS_Injection

(* Consolidating loses no session and duplicates none.                     *)
LEMMA ConsolidationRecords ==
  ASSUME NEW P, NEW b, Records(b, P), NEW front \in Consolidations(b)
  PROVE  Records(front, P) /\ UNION front = UNION b
  <1>1. PICK lead \in [b -> b] :
           front = {UNION {r \in b : lead[r] = l} : l \in {lead[r] : r \in b}}
    BY DEF Consolidations
  <1>2. \A c \in front : \E l \in b : c = UNION {r \in b : lead[r] = l} /\ \E r \in b : l = lead[r]
    <2> SUFFICES ASSUME NEW c \in front
                 PROVE  \E l \in b : c = UNION {r \in b : lead[r] = l} /\ \E r \in b : l = lead[r]
      OBVIOUS
    <2>1. PICK l \in {lead[r] : r \in b} : c = UNION {r \in b : lead[r] = l}
      BY <1>1
    <2>2. PICK r \in b : l = lead[r]
      BY <2>1
    <2>3. l \in b
      BY <2>2
    <2> QED
      BY <2>1, <2>2, <2>3
  <1>3. ASSUME NEW r \in b PROVE UNION {q \in b : lead[q] = lead[r]} \in front
    <2>1. lead[r] \in {lead[q] : q \in b}
      OBVIOUS
    <2> QED
      BY <1>1, <2>1
  <1>4. \A c \in front : c \subseteq UNION b
    BY <1>2
  <1>5. UNION b \subseteq UNION front
    BY <1>3
  <1>6. front \subseteq SUBSET P
    BY <1>4 DEF Records
  <1>7. {} \notin front
    <2> SUFFICES ASSUME {} \in front PROVE FALSE
      OBVIOUS
    <2>1. PICK r \in b : {} = UNION {q \in b : lead[q] = lead[r]}
      BY <1>2
    <2>2. \A s \in r : s \in {}
      BY <2>1
    <2>3. r = {}
      BY <2>2
    <2> QED
      BY <2>1, <2>3 DEF Records
  <1>8. ASSUME NEW c \in front, NEW d \in front, NEW s, s \in c, s \in d
        PROVE  c = d
    <2>1. PICK l \in b : c = UNION {r \in b : lead[r] = l}
      BY <1>2
    <2>2. PICK m \in b : d = UNION {r \in b : lead[r] = m}
      BY <1>2
    <2>3. PICK r \in b : s \in r /\ lead[r] = l
      BY <1>8, <2>1
    <2>4. PICK q \in b : s \in q /\ lead[q] = m
      BY <1>8, <2>2
    <2>5. r = q
      BY <2>3, <2>4 DEF Records
    <2> QED
      BY <2>1, <2>2, <2>3, <2>4, <2>5
  <1>9. \A c, d \in front : c = d \/ c \cap d = {}
    BY <1>8
  <1> QED
    BY <1>4, <1>5, <1>6, <1>7, <1>9 DEF Records

(* Some of the records, of some of the sessions.                           *)
LEMMA RecordsSub ==
  ASSUME NEW P, NEW R, Records(R, P), NEW Q \in SUBSET R, NEW O, UNION Q \subseteq O
  PROVE  Records(Q, O)
  BY DEF Records

(* Two queues that share no session make one.                              *)
LEMMA RecordsUnion ==
  ASSUME NEW P, NEW R, NEW Q, Records(R, P), Records(Q, P), Apart(R, Q)
  PROVE  Records(R \cup Q, P)
  <1>1. R \cup Q \subseteq SUBSET P /\ {} \notin R \cup Q
    BY DEF Records
  <1>2. \A r, q \in R \cup Q : r = q \/ r \cap q = {}
    <2> SUFFICES ASSUME NEW r \in R \cup Q, NEW q \in R \cup Q PROVE r = q \/ r \cap q = {}
      OBVIOUS
    <2>1. CASE r \in R /\ q \in R
      BY <2>1 DEF Records
    <2>2. CASE r \in Q /\ q \in Q
      BY <2>2 DEF Records
    <2>3. CASE r \in R /\ q \in Q
      BY <2>3 DEF Apart
    <2>4. CASE r \in Q /\ q \in R
      BY <2>4 DEF Apart
    <2> QED
      BY <2>1, <2>2, <2>3, <2>4
  <1> QED
    BY <1>1, <1>2 DEF Records

(* The records of sessions that have just ended.                           *)
LEMMA RecordsSingle ==
  ASSUME NEW P, NEW S \in SUBSET P
  PROVE  Records({{s} : s \in S}, P) /\ UNION {{s} : s \in S} = S
  BY DEF Records

(* Being apart is about the sessions in the records.                       *)
LEMMA ApartUnion ==
  ASSUME NEW R, NEW Q
  PROVE  Apart(R, Q) <=> (UNION R) \cap (UNION Q) = {}
  BY DEF Apart

-----------------------------------------------------------------------------
(* The ledger.                                                             *)

(* Where a session is, if it is in one place only.                         *)
Place(s) ==
    IF s > started THEN "none"
    ELSE IF s \in active THEN "open"
    ELSE IF s \in sent THEN "reported"
    ELSE IF Queued(s) THEN "ended" ELSE "lost"

(* A session that waits is neither active nor sent.                        *)
LEMMA QueuedPast == LogTypes /\ OnePlace => \A s : Queued(s) => s \in Past /\ s \in Sessions
  <1> SUFFICES ASSUME LogTypes, OnePlace, NEW s, Queued(s) PROVE s \in Past /\ s \in Sessions
    OBVIOUS
  <1>1. s \in Past
    BY DEF OnePlace, Records, Queued
  <1>2. Past \subseteq Sessions
    BY DEF LogTypes, Past
  <1> QED
    BY <1>1, <1>2

(* No session is in two places.                                            *)
LEMMA Places == LogTypes /\ OnePlace => \A s \in Sessions : LedgerOf(s) = Place(s)
  <1> SUFFICES ASSUME LogTypes, OnePlace, NEW s \in Sessions PROVE LedgerOf(s) = Place(s)
    OBVIOUS
  <1>1. ~ Twice(s)
    BY QueuedPast DEF OnePlace, Past, Twice
  <1> QED
    BY <1>1 DEF LedgerOf, Place

(* The same after a step.                                                  *)
LEMMA PlacesAfter == (LogTypes /\ OnePlace => \A s \in Sessions : LedgerOf(s) = Place(s))'
  BY Places, PTL

(* The sessions the ledger has under a state.                              *)
LEMMA LedgerIn ==
  ASSUME LogInv
  PROVE  /\ Promise!In("open") = active
         /\ Promise!In("ended") = {s \in Sessions : Queued(s)}
  <1>1. \A s \in Sessions : ledgerNow[s] = Place(s)
    BY Places DEF LogInv, ledgerNow
  <1>2. active \subseteq Sessions /\ \A s \in active : ~ (s > started)
    BY DEF LogInv, LogTypes
  <1>3. Promise!In("open") = active
    BY <1>1, <1>2 DEF Promise!In, Place, ledgerNow
  <1>4. \A s \in Sessions : Queued(s) => s \notin active /\ s \notin sent /\ ~ (s > started)
    BY QueuedPast DEF LogInv, LogTypes, Past
  <1>5. Promise!In("ended") = {s \in Sessions : Queued(s)}
    BY <1>1, <1>4 DEF Promise!In, Place, ledgerNow
  <1> QED
    BY <1>3, <1>5

(* The sessions of S move, all others stay.                                *)
Moves(S, state) == \A s \in Sessions : Place(s)' = IF s \in S THEN state ELSE Place(s)

(* What the places say the ledger does.                                    *)
LEMMA LedgerMoves ==
  ASSUME LogInv, LogInv', NEW S, NEW state, Moves(S, state)
  PROVE  Promise!Move(S, state) /\ (S = {} => UNCHANGED ledgerNow)
  <1>1. \A s \in Sessions : LedgerOf(s) = Place(s)
    BY Places DEF LogInv
  <1>2. \A s \in Sessions : LedgerOf(s)' = Place(s)'
    BY PlacesAfter DEF LogInv
  <1>3. \A s \in Sessions : LedgerOf(s)' = IF s \in S THEN state ELSE LedgerOf(s)
    BY <1>1, <1>2 DEF Moves
  <1> QED
    BY <1>3 DEF Promise!Move, ledgerNow

(* A session is opened.                                                    *)
LEMMA LedgerOpens ==
  ASSUME LogInv, LogInv', NEW s \in Sessions, s > started, Moves({s}, "open")
  PROVE  LedgerStep
  <1>1. Promise!Move({s}, "open")
    BY LedgerMoves
  <1>2. LedgerOf(s) = "none"
    BY DEF LedgerOf
  <1>3. Promise!Open(s)
    BY <1>1, <1>2 DEF Promise!Open, Promise!Move
  <1> QED
    BY <1>3 DEF LedgerStep, Promise!Next

(* Active sessions end.                                                    *)
LEMMA LedgerEnds ==
  ASSUME LogInv, LogInv', NEW S \in SUBSET active, Moves(S, "ended")
  PROVE  LedgerStep
  <1>1. Promise!Move(S, "ended") /\ (S = {} => UNCHANGED ledgerNow)
    BY LedgerMoves
  <1>2. S \in SUBSET Promise!In("open")
    BY LedgerIn
  <1> QED
    BY <1>1, <1>2 DEF LedgerStep, Promise!Next, Promise!End

(* Sessions that wait are reported.                                        *)
LEMMA LedgerReports ==
  ASSUME LogInv, LogInv', NEW S \in SUBSET {s \in Sessions : Queued(s)}, Moves(S, "reported")
  PROVE  LedgerStep
  <1>1. Promise!Move(S, "reported") /\ (S = {} => UNCHANGED ledgerNow)
    BY LedgerMoves
  <1>2. S \in SUBSET Promise!In("ended")
    BY LedgerIn
  <1> QED
    BY <1>1, <1>2 DEF LedgerStep, Promise!Next, Promise!Report

(* Sessions that wait are lost while enough others go on waiting.          *)
LEMMA LedgerLoses ==
  ASSUME LogInv, LogInv', NEW S \in SUBSET {s \in Sessions : Queued(s)}, Moves(S, "lost"),
         S # {} => Cardinality({s \in Sessions : Queued(s)} \ S) >= Cap
  PROVE  LedgerStep
  <1>1. Promise!Move(S, "lost") /\ (S = {} => UNCHANGED ledgerNow)
    BY LedgerMoves
  <1>2. Promise!In("ended") = {s \in Sessions : Queued(s)}
    BY LedgerIn
  <1> QED
    <2>1. S \in SUBSET Promise!In("ended")
      BY <1>2
    <2>2. \A T : Promise!Cardinality(T) = Cardinality(T)
      BY DEF Promise!Cardinality, Cardinality
    <2>3. S # {} => Promise!Lose(S)
      BY <1>1, <1>2, <2>2 DEF Promise!Lose
    <2> QED
      BY <1>1, <2>1, <2>3 DEF LedgerStep, Promise!Next

-----------------------------------------------------------------------------
(* The operations.                                                         *)

(* A new session: StartTCPSession, and TrackUDPSession for two addresses   *)
(* it does not know.                                                       *)
LEMMA SessionStarts ==
  ASSUME LogInv, NEW s \in Sessions, s = started + 1, started' = s,
         active' = active \cup {s}, UdpActive',
         UNCHANGED <<completed, due, batch, closer, sent>>
  PROVE  LogInv' /\ LedgerStep
  <1>1. started \in Nat /\ active \subseteq 1 .. started /\ sent \subseteq 1 .. started
        /\ s \in Nat /\ s \notin 1 .. started /\ 1 .. s = (1 .. started) \cup {s}
    BY DEF LogInv, LogTypes
  <1>2. Past' = Past
    BY <1>1 DEF Past
  <1>3. LogTypes'
    BY <1>1 DEF LogInv, LogTypes
  <1>4. OnePlace'
    BY <1>1, <1>2 DEF LogInv, OnePlace
  <1>5. OneFlush'
    BY DEF LogInv, OneFlush
  <1>6. LogInv'
    BY <1>3, <1>4, <1>5 DEF LogInv
  <1>7. Moves({s}, "open")
    <2> SUFFICES ASSUME NEW t \in Sessions
                 PROVE  Place(t)' = IF t \in {s} THEN "open" ELSE Place(t)
      BY DEF Moves
    <2>1. Queued(t)' <=> Queued(t)
      BY DEF Queued
    <2>2. t > s <=> t > started /\ t # s
      BY <1>1
    <2>3. t > started => t \notin active
      BY <1>1
    <2> QED
      BY <1>1, <2>1, <2>2, <2>3 DEF Place
  <1> QED
    BY <1>1, <1>6, <1>7, LedgerOpens

(* Active sessions leave the tables for the queue, by EndSession or Reap.  *)
LEMMA SessionsEnd ==
  ASSUME LogInv, NEW S \in SUBSET active, Complete(S), UNCHANGED <<batch, sent, closer>>,
         due' \subseteq Handlers, \A h \in due' : batch[h] = {}
  PROVE  LogInv' /\ LedgerStep
  <1>1. /\ active' = active \ S /\ started' = started
        /\ udp' = {u \in udp : u.session \notin S}
        /\ completed' = completed \cup {{s} : s \in S}
    BY DEF Complete
  <1>2. OnePlace /\ active \subseteq 1 .. started /\ LogTypes
    BY DEF LogInv, LogTypes
  <1>3. Past' = Past \cup S
    BY <1>1, <1>2 DEF Past, OnePlace
  <1>4. LogTypes'
    BY <1>1, <1>2 DEF LogTypes
  <1>5. \A R : Records(R, Past) => Records(R, Past') /\ Apart(R, {{s} : s \in S})
    BY <1>2, <1>3 DEF Records, Apart, Past
  <1>6. OnePlace'
    <2>1. active' \cap sent' = {}
      BY <1>1, <1>2 DEF OnePlace
    <2>2. Records({{s} : s \in S}, Past')
      BY <1>3, RecordsSingle
    <2>3. Records(completed', Past')
      BY <1>1, <1>2, <1>5, <2>2, RecordsUnion DEF OnePlace
    <2>4. \A f \in Flushers : Records(batch'[f], Past') /\ Apart(batch'[f], completed')
      <3> SUFFICES ASSUME NEW f \in Flushers
                   PROVE  Records(batch[f], Past') /\ Apart(batch[f], completed')
        OBVIOUS
      <3>1. Records(batch[f], Past) /\ Apart(batch[f], completed)
        BY <1>2 DEF OnePlace
      <3> QED
        BY <1>1, <1>5, <3>1 DEF Apart
    <2> QED
      BY <1>2, <2>1, <2>3, <2>4 DEF OnePlace
  <1>7. UdpActive' /\ OneFlush'
    BY <1>1 DEF LogInv, UdpActive, OneFlush
  <1>8. LogInv'
    BY <1>4, <1>6, <1>7 DEF LogInv
  <1>9. Moves(S, "ended")
    <2> SUFFICES ASSUME NEW t \in Sessions
                 PROVE  Place(t)' = IF t \in S THEN "ended" ELSE Place(t)
      BY DEF Moves
    <2>1. Queued(t)' <=> Queued(t) \/ t \in S
      BY <1>1 DEF Queued
    <2>2. t \in S => t \notin sent /\ ~ (t > started)
      BY <1>2 DEF OnePlace, LogTypes
    <2> QED
      BY <1>1, <2>1, <2>2 DEF Place
  <1> QED
    BY <1>8, <1>9, LedgerEnds

(* EndSession, by a handler that has no flush to do.                       *)
LEMMA EndSessionStep ==
  ASSUME LogInv, NEW h \in Handlers, NEW s, batch[h] = {}, EndSession(h, s)
  PROVE  LogInv' /\ LedgerStep
  <1>1. due' \subseteq Handlers /\ \A g \in due' : batch[g] = {}
    BY DEF EndSession, LogInv, LogTypes, OneFlush
  <1>2. UNCHANGED <<batch, sent, closer>> /\ Complete({s} \cap active)
    BY DEF EndSession, closeVars
  <1> QED
    BY <1>1, <1>2, SessionsEnd

(* The reaper.                                                             *)
LEMMA ReapStep ==
  ASSUME LogInv, NEW S, Reap(S)
  PROVE  LogInv' /\ LedgerStep
  <1>1. S \subseteq active
    BY DEF Reap, LogInv, UdpActive
  <1>2. due' \subseteq Handlers /\ \A h \in due' : batch[h] = {}
    BY DEF Reap, LogInv, LogTypes, OneFlush
  <1>3. UNCHANGED <<batch, sent, closer>> /\ Complete(S)
    BY DEF Reap, closeVars
  <1> QED
    BY <1>1, <1>2, <1>3, SessionsEnd

(* A flush takes the queue, by the loop or by a handler.                   *)
LEMMA FlushTakes ==
  ASSUME LogInv, NEW f \in Flushers \ {Closer}, batch[f] = {}, TakeBatch(f, completed),
         due' \subseteq due \ {f}, UNCHANGED <<started, active, udp, sent, closer>>
  PROVE  LogInv' /\ LedgerStep
  <1>1. /\ batch' = [batch EXCEPT ![f] = completed] /\ completed' = {}
        /\ batch \in [Flushers -> SUBSET SUBSET Sessions]
    BY DEF TakeBatch, LogInv, LogTypes
  <1>2. batch'[f] = completed /\ \A g \in Flushers \ {f} : batch'[g] = batch[g]
    BY <1>1
  <1>3. OnePlace /\ Past' = Past
    BY DEF LogInv, Past
  <1>4. LogTypes'
    <2>1. completed \in SUBSET SUBSET Sessions
      BY <1>3 DEF OnePlace, Records, LogInv, LogTypes, Past
    <2>2. batch' \in [Flushers -> SUBSET SUBSET Sessions]
      BY <1>1, <2>1
    <2> QED
      BY <2>2 DEF LogInv, LogTypes
  <1>5. OnePlace'
    <2>1. Records(completed', Past') /\ \A g \in Flushers : Apart(batch'[g], completed')
      BY <1>1 DEF Records, Apart
    <2>2. \A g \in Flushers : Records(batch'[g], Past')
      BY <1>2, <1>3 DEF OnePlace
    <2>3. \A g, e \in Flushers : g # e => Apart(batch'[g], batch'[e])
      <3> SUFFICES ASSUME NEW g \in Flushers, NEW e \in Flushers, g # e
                   PROVE  Apart(batch'[g], batch'[e])
        OBVIOUS
      <3>1. CASE g # f /\ e # f
        BY <1>2, <1>3, <3>1 DEF OnePlace
      <3>2. CASE g = f
        BY <1>2, <1>3, <3>2 DEF OnePlace, Apart
      <3>3. CASE e = f
        BY <1>2, <1>3, <3>3 DEF OnePlace, Apart
      <3> QED
        BY <3>1, <3>2, <3>3
    <2> QED
      BY <1>3, <2>1, <2>2, <2>3 DEF OnePlace
  <1>6. UdpActive' /\ OneFlush'
    BY <1>2 DEF LogInv, LogTypes, UdpActive, OneFlush
  <1>7. LogInv'
    BY <1>4, <1>5, <1>6 DEF LogInv
  <1>8. Moves({}, "ended")
    <2> SUFFICES ASSUME NEW t \in Sessions PROVE Place(t)' = Place(t)
      BY DEF Moves
    <2>1. Queued(t)' <=> Queued(t)
      BY <1>1, <1>2 DEF Queued
    <2> QED
      BY <2>1 DEF Place
  <1> QED
    BY <1>7, <1>8, LedgerEnds

(* The flush of a handler that has found the buffer full.                  *)
LEMMA HandlerFlushStep ==
  ASSUME LogInv, NEW h \in Handlers, HandlerFlush(h)
  PROVE  LogInv' /\ LedgerStep
  <1>1. h \in Flushers \ {Closer} /\ batch[h] = {}
    BY DEF HandlerFlush, LogInv, OneFlush
  <1>2. due' = due \ {h} /\ TakeBatch(h, completed)
        /\ UNCHANGED <<started, active, udp, sent, closer>>
    BY DEF HandlerFlush, sessionVars, closeVars
  <1> QED
    BY <1>1, <1>2, FlushTakes

(* The tick of the loop.                                                   *)
LEMMA LoopFlushStep ==
  ASSUME LogInv, LoopFlush
  PROVE  LogInv' /\ LedgerStep
  <1>1. Loop \in Flushers \ {Closer} /\ batch[Loop] = {} /\ Loop \notin Handlers
    BY DEF LoopFlush
  <1>2. due' = due /\ TakeBatch(Loop, completed)
        /\ UNCHANGED <<started, active, udp, sent, closer>>
    BY DEF LoopFlush, sessionVars, closeVars
  <1>3. due' \subseteq due \ {Loop}
    BY <1>1, <1>2 DEF LogInv, LogTypes
  <1> QED
    BY <1>1, <1>2, <1>3, FlushTakes

(* The flush of Close, with the sessions that are still active.            *)
LEMMA CloseFlushesStep ==
  ASSUME LogInv, CloseFlushes
  PROVE  LogInv' /\ LedgerStep
  <1> DEFINE q == completed \cup {{s} : s \in active}
  <1>1. /\ batch' = [batch EXCEPT ![Closer] = q] /\ completed' = {}
        /\ active' = {} /\ udp' = {} /\ UNCHANGED <<started, due, sent>>
        /\ closer' = IF q = {} THEN "done" ELSE "flushing"
    BY DEF CloseFlushes, TakeBatch
  <1>2. OnePlace /\ LogTypes /\ batch[Closer] = {} /\ Closer \in Flushers
    BY DEF CloseFlushes, LogInv, OneFlush
  <1>3. Past' = Past \cup active /\ Past' \subseteq Sessions
    <2>1. active \subseteq 1 .. started /\ active \cap sent = {} /\ started \in 0 .. MaxSession
      BY <1>2 DEF OnePlace, LogTypes
    <2>2. Past' = (1 .. started) \ sent
      BY <1>1 DEF Past
    <2>3. Past' = Past \cup active
      BY <2>1, <2>2 DEF Past
    <2> QED
      BY <2>1, <2>2, <2>3
  <1>4. \A R : Records(R, Past) => Records(R, Past') /\ Apart(R, {{s} : s \in active})
    BY <1>3 DEF Records, Apart, Past
  <1>5. Records(q, Past') /\ UNION q = (UNION completed) \cup active
    <2>1. Records({{s} : s \in active}, Past')
      BY <1>3, RecordsSingle
    <2> QED
      BY <1>2, <1>4, <2>1, RecordsUnion DEF OnePlace
  <1>6. \A f \in Flushers : Records(batch[f], Past') /\ Apart(batch[f], q)
    <2> SUFFICES ASSUME NEW f \in Flushers PROVE Records(batch[f], Past') /\ Apart(batch[f], q)
      OBVIOUS
    <2>1. Records(batch[f], Past) /\ Apart(batch[f], completed)
      BY <1>2 DEF OnePlace
    <2> QED
      BY <1>4, <2>1 DEF Apart
  <1> HIDE DEF q
  <1>7. batch'[Closer] = q /\ \A f \in Flushers \ {Closer} : batch'[f] = batch[f]
    BY <1>1, <1>2 DEF LogTypes
  <1>8. LogTypes'
    <2>1. q \in SUBSET SUBSET Sessions
      BY <1>3, <1>5 DEF Records
    <2>2. batch' \in [Flushers -> SUBSET SUBSET Sessions]
      BY <1>1, <1>2, <2>1 DEF LogTypes
    <2> QED
      BY <1>1, <1>2, <2>2 DEF LogTypes
  <1>9. OnePlace'
    <2>1. Records(completed', Past') /\ \A f \in Flushers : Apart(batch'[f], completed')
      BY <1>1 DEF Records, Apart
    <2>2. \A f \in Flushers : Records(batch'[f], Past')
      BY <1>5, <1>6, <1>7
    <2>3. \A f, g \in Flushers : f # g => Apart(batch'[f], batch'[g])
      <3> SUFFICES ASSUME NEW f \in Flushers, NEW g \in Flushers, f # g
                   PROVE  Apart(batch'[f], batch'[g])
        OBVIOUS
      <3>1. CASE f # Closer /\ g # Closer
        BY <1>2, <1>7, <3>1 DEF OnePlace
      <3>2. CASE f = Closer
        BY <1>6, <1>7, <3>2 DEF Apart
      <3>3. CASE g = Closer
        BY <1>6, <1>7, <3>3 DEF Apart
      <3> QED
        BY <3>1, <3>2, <3>3
    <2>4. active' \cap sent' = {}
      BY <1>1
    <2> QED
      BY <2>1, <2>2, <2>3, <2>4 DEF OnePlace
  <1>10. UdpActive' /\ OneFlush'
    <2>1. \A h \in due : h \in Flushers \ {Closer}
      BY <1>2 DEF LogTypes
    <2>2. UdpActive'
      BY <1>1 DEF UdpActive
    <2> QED
      BY <1>1, <1>7, <2>1, <2>2 DEF LogInv, OneFlush
  <1>11. LogInv'
    BY <1>8, <1>9, <1>10 DEF LogInv
  <1>12. Moves(active, "ended")
    <2> SUFFICES ASSUME NEW t \in Sessions
                 PROVE  Place(t)' = IF t \in active THEN "ended" ELSE Place(t)
      BY DEF Moves
    <2>1. Queued(t)' <=> t \in UNION q \/ \E f \in Flushers \ {Closer} : \E r \in batch[f] : t \in r
      BY <1>1, <1>2, <1>7 DEF Queued
    <2>2. Queued(t)' <=> Queued(t) \/ t \in active
      BY <1>2, <1>5, <2>1 DEF Queued
    <2>3. t \in active => t \notin sent /\ ~ (t > started)
      BY <1>2 DEF OnePlace, LogTypes
    <2> QED
      BY <1>1, <2>2, <2>3 DEF Place
  <1> QED
    BY <1>11, <1>12, LedgerEnds

(* A batch is sent: none of its sessions is anywhere else.                 *)
LEMMA SendOkStep ==
  ASSUME LogInv, NEW f \in Flushers, SendOk(f)
  PROVE  LogInv' /\ LedgerStep
  <1>1. PICK T : T = UNION batch[f]
    OBVIOUS
  <1>2. /\ batch' = [batch EXCEPT ![f] = {}] /\ sent' = sent \cup T
        /\ UNCHANGED <<started, active, udp, completed, due>>
        /\ closer' = IF f = Closer THEN "done" ELSE closer
    BY <1>1 DEF SendOk, sessionVars
  <1>3. OnePlace /\ LogTypes
    BY DEF LogInv
  <1>4. T \subseteq Past /\ Past' = Past \ T
    BY <1>1, <1>2, <1>3 DEF OnePlace, Records, Past
  <1>5. batch'[f] = {} /\ \A g \in Flushers \ {f} : batch'[g] = batch[g]
    BY <1>2, <1>3 DEF LogTypes
  <1>6. \A g \in Flushers \ {f} : T \cap UNION batch[g] = {}
    BY <1>1, <1>3, ApartUnion DEF OnePlace
  <1>7. T \cap UNION completed = {}
    BY <1>1, <1>3, ApartUnion DEF OnePlace
  <1>8. LogTypes'
    <2>1. batch' \in [Flushers -> SUBSET SUBSET Sessions]
      BY <1>2, <1>3 DEF LogTypes
    <2> QED
      BY <1>2, <1>3, <1>4, <2>1 DEF LogTypes, Past
  <1>9. OnePlace'
    <2>1. active' \cap sent' = {}
      BY <1>2, <1>3, <1>4 DEF OnePlace, Past
    <2>2. Records(completed', Past')
      BY <1>2, <1>3, <1>4, <1>7 DEF OnePlace, Records
    <2>3. \A g \in Flushers : Records(batch'[g], Past')
      <3> SUFFICES ASSUME NEW g \in Flushers \ {f} PROVE Records(batch[g], Past')
        BY <1>5 DEF Records
      <3> QED
        BY <1>3, <1>4, <1>6 DEF OnePlace, Records
    <2>4. /\ \A g \in Flushers : Apart(batch'[g], completed')
          /\ \A g, e \in Flushers : g # e => Apart(batch'[g], batch'[e])
      BY <1>2, <1>3, <1>5 DEF OnePlace, Apart
    <2> QED
      BY <2>1, <2>2, <2>3, <2>4 DEF OnePlace
  <1>10. UdpActive' /\ OneFlush'
    <2>1. due \subseteq Flushers
      BY <1>3 DEF LogTypes
    <2>2. UdpActive'
      BY <1>2 DEF LogInv, UdpActive
    <2> QED
      BY <1>2, <1>5, <2>1, <2>2 DEF LogInv, OneFlush
  <1>11. LogInv'
    BY <1>8, <1>9, <1>10 DEF LogInv
  <1>12. T \subseteq {s \in Sessions : Queued(s)}
    BY <1>1, <1>3, <1>4, QueuedPast DEF Queued
  <1>13. Moves(T, "reported")
    <2> SUFFICES ASSUME NEW t \in Sessions
                 PROVE  Place(t)' = IF t \in T THEN "reported" ELSE Place(t)
      BY DEF Moves
    <2>1. t \notin T => (Queued(t)' <=> Queued(t))
      BY <1>1, <1>2, <1>5 DEF Queued
    <2>2. t \in T => t \notin active /\ t \notin sent /\ ~ (t > started)
      BY <1>3, <1>4 DEF Past, LogTypes
    <2> QED
      BY <1>2, <2>1, <2>2 DEF Place
  <1> QED
    BY <1>11, <1>12, <1>13, LedgerReports

(* A batch that could not be sent goes back: what does not fit any more is *)
(* lost, and then as many sessions as the buffer has room for wait.        *)
LEMMA SendFailsStep ==
  ASSUME LogInv, NEW f \in Flushers, SendFails(f)
  PROVE  LogInv' /\ LedgerStep
  <1>1. PICK front \in Consolidations(batch[f]) : completed' \in Kept(front, completed)
    BY DEF SendFails
  <1>2. /\ batch' = [batch EXCEPT ![f] = {}]
        /\ UNCHANGED <<started, active, udp, due, sent>>
        /\ closer' = IF f = Closer THEN "done" ELSE closer
    BY DEF SendFails, sessionVars
  <1>3. OnePlace /\ LogTypes /\ Past' = Past /\ Past \subseteq Sessions
    BY <1>2 DEF LogInv, LogTypes, Past
  <1>4. batch'[f] = {} /\ \A g \in Flushers \ {f} : batch'[g] = batch[g]
    BY <1>2, <1>3 DEF LogTypes
  <1>5. Records(front, Past) /\ UNION front = UNION batch[f]
    BY <1>1, <1>3, ConsolidationRecords DEF OnePlace
  <1>6. PICK all : all = front \cup completed
    OBVIOUS
  <1>7. Records(all, Past) /\ UNION all = (UNION batch[f]) \cup UNION completed
    <2>1. Records(completed, Past) /\ Apart(batch[f], completed)
      BY <1>3 DEF OnePlace
    <2>2. Apart(front, completed)
      BY <1>5, <2>1, ApartUnion
    <2>3. Records(all, Past)
      BY <1>5, <1>6, <2>1, <2>2, RecordsUnion
    <2> QED
      BY <1>5, <1>6, <2>3
  <1>8. /\ completed' \subseteq all
        /\ completed' # all => Cardinality(completed') = Cap
    BY <1>1, <1>6 DEF Kept
  <1>9. Records(completed', Past)
    <2>1. UNION completed' \subseteq Past
      BY <1>7, <1>8 DEF Records
    <2> QED
      BY <1>7, <1>8, <2>1, RecordsSub
  <1>10. \A g \in Flushers \ {f} : (UNION all) \cap (UNION batch[g]) = {}
    <2> SUFFICES ASSUME NEW g \in Flushers \ {f} PROVE (UNION all) \cap (UNION batch[g]) = {}
      OBVIOUS
    <2>1. Apart(batch[f], batch[g]) /\ Apart(batch[g], completed)
      BY <1>3 DEF OnePlace
    <2>2. (UNION batch[f]) \cap (UNION batch[g]) = {}
      BY <2>1, ApartUnion
    <2>3. (UNION batch[g]) \cap (UNION completed) = {}
      BY <2>1, ApartUnion
    <2> QED
      BY <1>7, <2>2, <2>3
  <1>11. LogTypes'
    <2>1. batch' \in [Flushers -> SUBSET SUBSET Sessions]
      BY <1>2, <1>3 DEF LogTypes
    <2> QED
      BY <1>2, <1>3, <2>1 DEF LogTypes
  <1>12. OnePlace'
    <2>1. active' \cap sent' = {} /\ Records(completed', Past')
      BY <1>2, <1>3, <1>9 DEF OnePlace
    <2>2. \A g \in Flushers : Records(batch'[g], Past')
      BY <1>3, <1>4 DEF OnePlace, Records
    <2>3. \A g \in Flushers : Apart(batch'[g], completed')
      <3> SUFFICES ASSUME NEW g \in Flushers \ {f} PROVE Apart(batch[g], completed')
        BY <1>4 DEF Apart
      <3>1. UNION completed' \subseteq UNION all
        BY <1>8
      <3>2. (UNION batch[g]) \cap (UNION completed') = {}
        BY <1>10, <3>1
      <3> QED
        BY <3>2, ApartUnion
    <2>4. \A g, e \in Flushers : g # e => Apart(batch'[g], batch'[e])
      BY <1>3, <1>4 DEF OnePlace, Apart
    <2> QED
      BY <2>1, <2>2, <2>3, <2>4 DEF OnePlace
  <1>13. UdpActive' /\ OneFlush'
    <2>1. due \subseteq Flushers
      BY <1>3 DEF LogTypes
    <2>2. UdpActive'
      BY <1>2 DEF LogInv, UdpActive
    <2> QED
      BY <1>2, <1>4, <2>1, <2>2 DEF LogInv, OneFlush
  <1>14. LogInv'
    BY <1>11, <1>12, <1>13 DEF LogInv
  <1>15. PICK S : S = (UNION all) \ UNION completed'
    OBVIOUS
  <1>16. S \subseteq {s \in Sessions : Queued(s)} /\ UNION all \subseteq {s \in Sessions : Queued(s)}
    <2>1. UNION all \subseteq {s \in Sessions : Queued(s)}
      BY <1>3, <1>7, QueuedPast DEF Queued
    <2> QED
      BY <1>15, <2>1
  <1>17. Moves(S, "lost")
    <2> SUFFICES ASSUME NEW t \in Sessions
                 PROVE  Place(t)' = IF t \in S THEN "lost" ELSE Place(t)
      BY DEF Moves
    <2>1. Queued(t) <=> t \in UNION all \/ \E g \in Flushers \ {f} : t \in UNION batch[g]
      BY <1>7 DEF Queued
    <2>2. Queued(t)' <=> t \in UNION completed' \/ \E g \in Flushers \ {f} : t \in UNION batch[g]
      BY <1>4 DEF Queued
    <2>3. UNION completed' \subseteq UNION all
      BY <1>8
    <2>4. Queued(t)' <=> Queued(t) /\ t \notin S
      BY <1>10, <1>15, <2>1, <2>2, <2>3
    <2>5. t \in S => t \notin active /\ t \notin sent /\ ~ (t > started)
      BY <1>3, <1>16, QueuedPast DEF Past, LogTypes
    <2> QED
      BY <1>2, <2>4, <2>5 DEF Place
  <1>18. S # {} => Cardinality({s \in Sessions : Queued(s)} \ S) >= Cap
    <2> SUFFICES ASSUME S # {} PROVE Cardinality({s \in Sessions : Queued(s)} \ S) >= Cap
      OBVIOUS
    <2>1. Cardinality(completed') = Cap
      BY <1>8, <1>15
    <2>2. Records(completed', Sessions)
      BY <1>3, <1>9 DEF Records
    <2>3. Cardinality(completed') <= Cardinality(UNION completed')
      BY <2>2, RecordsCount
    <2>4. PICK W : W = {s \in Sessions : Queued(s)} \ S
      OBVIOUS
    <2>5. IsFiniteSet(W)
      <3>1. IsFiniteSet(Sessions)
        BY FS_Interval
      <3>2. W \in SUBSET Sessions
        BY <2>4
      <3> QED
        BY <3>1, <3>2, FS_Subset
    <2>6. UNION completed' \in SUBSET W
      BY <1>8, <1>15, <1>16, <2>4
    <2>7. Cardinality(UNION completed') <= Cardinality(W) /\ Cardinality(W) \in Nat
          /\ Cardinality(UNION completed') \in Nat
      BY <2>5, <2>6, FS_Subset, FS_CardinalityType
    <2> QED
      BY <2>1, <2>3, <2>4, <2>7
  <1> QED
    BY <1>14, <1>16, <1>17, <1>18, LedgerLoses

(* What leaves the sessions alone: Close signals, the loop ends, a         *)
(* datagram finds its session.                                             *)
LEMMA LogFrame ==
  ASSUME LogInv, UNCHANGED <<started, active, udp, completed, due, batch, sent>>,
         closer' = "flushing" <=> closer = "flushing"
  PROVE  LogInv' /\ LedgerStep
  <1>1. LogTypes' /\ OnePlace' /\ UdpActive' /\ OneFlush'
    BY DEF LogInv, LogTypes, OnePlace, UdpActive, OneFlush, Past
  <1>2. \A s \in Sessions : LedgerOf(s)' = LedgerOf(s)
    BY DEF LedgerOf, Twice, Queued
  <1> QED
    BY <1>1, <1>2 DEF LogInv, LedgerStep, ledgerNow

(* Every step of the log by itself.                                        *)
LEMMA LogStep ==
  ASSUME LogInv, LogNext
  PROVE  LogInv' /\ LedgerStep
  <1>1. CASE LoopFlush
    BY <1>1, LoopFlushStep
  <1>2. CASE \E h \in Handlers : HandlerFlush(h)
    BY <1>2, HandlerFlushStep
  <1>3. CASE \E S \in SUBSET Sessions : Reap(S)
    BY <1>3, ReapStep
  <1>4. CASE \E f \in Flushers : SendOk(f) \/ SendFails(f)
    BY <1>4, SendOkStep, SendFailsStep
  <1>5. CASE LoopEnds
    BY <1>5, LogFrame DEF LoopEnds, sessionVars
  <1>6. CASE CloseFlushes
    BY <1>6, CloseFlushesStep
  <1> QED
    BY <1>1, <1>2, <1>3, <1>4, <1>5, <1>6 DEF LogNext

(* An empty log, and an empty ledger.                                      *)
LEMMA LogStart == LogInit => LogInv /\ Promise!Init
  <1> SUFFICES ASSUME LogInit PROVE LogInv /\ Promise!Init
    OBVIOUS
  <1>1. LogTypes
    BY DEF LogInit, LogTypes
  <1>2. OnePlace
    BY DEF LogInit, OnePlace, Records, Apart
  <1>3. UdpActive /\ OneFlush
    BY DEF LogInit, UdpActive, OneFlush
  <1>4. \A s \in Sessions : LedgerOf(s) = "none"
    BY DEF LogInit, LedgerOf
  <1> QED
    BY <1>1, <1>2, <1>3, <1>4 DEF LogInv, Promise!Init
=============================================================================
