------------------------ MODULE Registration_proofs ------------------------
(***************************************************************************)
(* Proofs about the registration of the tunnel, for any number of chains,  *)
(* attempts, messages, drops and commands.                                 *)
(***************************************************************************)
EXTENDS Registration, TLAPS

(* What the server sends: answers may bear a chain id, commands do not.    *)
Sent ==
    [kind : {"exitNodes", "connect"}, chain : Chains \cup {None}]
       \cup [kind : Commands, chain : {None}]

NetTyped ==
    /\ ws \in BOOLEAN /\ inbox \in Seq(Sent) /\ events \in 0 .. MaxEvents

SenderTyped ==
    /\ next \in 1 .. MaxChain + 1
    /\ kind \in [Chains -> {"none", "ping", "register"}]
    /\ sender \in [Chains -> {"off", "first", "wait", "ended"}]
    /\ count \in [Chains -> 0 .. MaxAttempts]
    /\ stopped \in [Chains -> BOOLEAN]
    /\ builds \in [Chains -> Nat]

FieldTyped ==
    /\ stopFunc \in 0 .. next - 1
    /\ pendingPing \in 0 .. next - 1
    /\ pendingRegister \in 0 .. next - 1

StateTyped ==
    /\ connected \in BOOLEAN /\ gaveUp \in BOOLEAN /\ crashed \in BOOLEAN
    /\ check \in {"off", "ok", "lost"} /\ stray \in BOOLEAN
    /\ handler \in {"idle", "stopping", "stopped", "pinging", "connecting"}
    /\ handling \in Sent \cup {NoMessage}
    /\ onConnect \in {"idle", "begin", "start"}

(* A chain id that has not been used has left no trace.                    *)
Fresh == \A c \in Chains : c >= next => ~ stopped[c] /\ builds[c] = 0

(* A sender that has not started, or not sent, has counted nothing.        *)
Uncounted ==
    \A c \in Chains : /\ c >= next => sender[c] = "off"
                      /\ sender[c] \in {"off", "first"} => count[c] = 0

(* The chain ids that are waited for are of the right kind.                *)
Kinds ==
    /\ pendingPing # None => kind[pendingPing] = "ping"
    /\ pendingRegister # None => kind[pendingRegister] = "register"

(* A chain whose tunnel is being built, or has been, is waited for no      *)
(* longer.                                                                 *)
Once ==
    /\ \A c \in Chains : builds[c] <= 1 /\ (builds[c] = 1 => c # pendingRegister)
    /\ (handling.kind = "connect" /\ handling.chain # None) =>
          builds[handling.chain] = 0 /\ handling.chain # pendingRegister /\ handling.chain < next

(* The request has not been sent yet, or an answer that will be acted on   *)
(* is in the inbox.                                                        *)
InInbox(c, what) ==
    \E i \in 1 .. Len(inbox) : inbox[i].kind = what /\ inbox[i].chain \in {c, None}

Answered(c, what) == c # None /\ (sender[c] = "first" \/ InInbox(c, what))

(* What the handler is at will lead to a handshake, to a tunnel, or to     *)
(* giving up.                                                              *)
Decides ==
    \/ handler \in {"pinging", "connecting"}
    \/ /\ handler \in {"stopping", "stopped"}
       /\ handling.kind = "exitNodes" => IsFor(handling.chain, pendingPing)

(* HandshakeAlive, while handlers run as well.                             *)
UnderWay ==
    (~ connected /\ ws /\ onConnect = "idle" /\ ~ gaveUp /\ ~ crashed /\ ~ Exhausted) =>
        \/ Answered(pendingPing, "exitNodes")
        \/ Answered(pendingRegister, "connect")
        \/ Decides

(* The inductive invariant.                                                *)
RegInv ==
    /\ NetTyped /\ SenderTyped /\ FieldTyped /\ StateTyped
    /\ Fresh /\ Uncounted /\ Kinds /\ Once
    /\ DoubleStopWindow
    /\ UnderWay

USE BoundsAssumption DEF Chains, None, Commands, Running, IsFor

-----------------------------------------------------------------------------
(* The inbox.                                                              *)

(* A message that is added is there, and so are the ones before it.        *)
LEMMA Added ==
  ASSUME NetTyped, NEW m \in Sent, inbox' = Append(inbox, m)
  PROVE  /\ inbox' \in Seq(Sent) /\ \A c : m.chain \in {c, None} => InInbox(c, m.kind)'
         /\ \A c, what : InInbox(c, what) => InInbox(c, what)'
  <1>1. inbox \in Seq(Sent) /\ Len(inbox) \in Nat
    BY DEF NetTyped
  <1>2. /\ inbox' \in Seq(Sent) /\ Len(inbox') = Len(inbox) + 1 /\ inbox'[Len(inbox) + 1] = m
        /\ \A i \in 1 .. Len(inbox) : inbox'[i] = inbox[i]
    BY <1>1
  <1>3. \A c : m.chain \in {c, None} => InInbox(c, m.kind)'
    BY <1>1, <1>2 DEF InInbox
  <1>4. ASSUME NEW c, NEW what, InInbox(c, what) PROVE InInbox(c, what)'
    <2>1. PICK i \in 1 .. Len(inbox) : inbox[i].kind = what /\ inbox[i].chain \in {c, None}
      BY <1>4 DEF InInbox
    <2>2. i \in 1 .. Len(inbox') /\ inbox'[i] = inbox[i]
      BY <1>1, <1>2
    <2> QED
      BY <2>1, <2>2 DEF InInbox
  <1> QED
    BY <1>2, <1>3, <1>4

(* The messages behind the first one stay when that is received.           *)
LEMMA Received ==
  ASSUME NetTyped, inbox # <<>>, inbox' = Tail(inbox)
  PROVE  /\ Head(inbox) \in Sent /\ inbox' \in Seq(Sent)
         /\ \A c, what : InInbox(c, what) =>
               InInbox(c, what)' \/ (Head(inbox).kind = what /\ Head(inbox).chain \in {c, None})
  <1>1. inbox \in Seq(Sent) /\ Len(inbox) \in Nat /\ Len(inbox) # 0
    BY DEF NetTyped
  <1>2. /\ inbox' \in Seq(Sent) /\ Head(inbox) = inbox[1] /\ Head(inbox) \in Sent
        /\ Len(inbox') = Len(inbox) - 1
        /\ \A i \in 1 .. Len(inbox') : inbox'[i] = inbox[i + 1]
    BY <1>1
  <1>3. ASSUME NEW c, NEW what, InInbox(c, what)
        PROVE  InInbox(c, what)' \/ (Head(inbox).kind = what /\ Head(inbox).chain \in {c, None})
    <2>1. PICK i \in 1 .. Len(inbox) : inbox[i].kind = what /\ inbox[i].chain \in {c, None}
      BY <1>3 DEF InInbox
    <2>2. CASE i = 1
      BY <1>2, <2>1, <2>2
    <2>3. CASE i # 1
      <3>1. i - 1 \in 1 .. Len(inbox') /\ inbox'[i - 1] = inbox[i]
        BY <1>1, <1>2, <2>3
      <3> QED
        BY <2>1, <3>1 DEF InInbox
    <2> QED
      BY <2>2, <2>3
  <1> QED
    BY <1>2, <1>3

(* What a message may be.                                                  *)
LEMMA SentParts ==
  ASSUME NEW m \in Sent
  PROVE  /\ m.kind \in {"exitNodes", "connect", "reconnect", "terminate"}
         /\ m.kind \in {"exitNodes", "connect"} => m.chain \in Chains \cup {None}
         /\ m # NoMessage
  BY DEF Sent, NoMessage

-----------------------------------------------------------------------------
(* A new sender, whoever starts it, has a fresh chain id: nothing is known *)
(* of it, and the handshake it is for is under way.                        *)
LEMMA Started ==
  ASSUME RegInv, NEW what \in {"ping", "register"}, StartSender(what),
         UNCHANGED <<netVars, stopped, builds>>, StateTyped',
         handling' \in {handling, NoMessage}, crashed' = crashed,
         \/ what = "ping" /\ pendingPing' = next /\ UNCHANGED pendingRegister
         \/ what = "register" /\ pendingRegister' = next /\ UNCHANGED pendingPing
  PROVE  RegInv'
  <1>1. /\ next \in Chains /\ next' = next + 1 /\ next + 1 \in 1 .. MaxChain + 1
        /\ stopFunc' = next /\ count' = count
    BY DEF StartSender, RegInv, SenderTyped
  <1>2. /\ kind' \in [Chains -> {"none", "ping", "register"}] /\ kind'[next] = what
        /\ \A c \in Chains \ {next} : kind'[c] = kind[c]
    BY <1>1 DEF StartSender, RegInv, SenderTyped
  <1>3. /\ sender' \in [Chains -> {"off", "first", "wait", "ended"}] /\ sender'[next] = "first"
        /\ \A c \in Chains \ {next} : sender'[c] = sender[c]
    BY <1>1 DEF StartSender, RegInv, SenderTyped
  <1>4. NetTyped' /\ SenderTyped'
    BY <1>1, <1>2, <1>3 DEF RegInv, NetTyped, netVars, SenderTyped
  <1>5. FieldTyped'
    BY <1>1 DEF RegInv, FieldTyped
  <1>6. Fresh' /\ Uncounted'
    BY <1>1, <1>3 DEF RegInv, Fresh, Uncounted, SenderTyped
  <1>7. Kinds'
    BY <1>1, <1>2 DEF RegInv, Kinds, FieldTyped
  <1>8. Once'
    <2>1. handling'.kind = "connect" => handling' = handling
      BY DEF NoMessage
    <2>2. pendingRegister' \in {pendingRegister, next} /\ builds[next] = 0
      BY <1>1 DEF RegInv, Fresh, SenderTyped
    <2>3. next \in Nat /\ pendingRegister \in Nat
      BY <1>1 DEF RegInv, FieldTyped
    <2>4. \A c \in Chains : builds'[c] <= 1 /\ (builds'[c] = 1 => c # pendingRegister')
      BY <2>2 DEF RegInv, Once
    <2>5. (handling'.kind = "connect" /\ handling'.chain # None) =>
            builds'[handling'.chain] = 0 /\ handling'.chain # pendingRegister' /\ handling'.chain < next'
      <3>1. (handling.kind = "connect" /\ handling.chain # None) => handling.chain \in Chains
        BY SentParts DEF RegInv, StateTyped, NoMessage
      <3> QED
        BY <1>1, <2>1, <2>2, <2>3, <3>1 DEF RegInv, Once
    <2> QED
      BY <2>4, <2>5 DEF Once
  <1>9. DoubleStopWindow'
    BY <1>1 DEF RegInv, Fresh, DoubleStopWindow
  <1>10. UnderWay'
    BY <1>1, <1>3 DEF UnderWay, Answered
  <1> QED
    BY <1>4, <1>5, <1>6, <1>7, <1>8, <1>9, <1>10 DEF RegInv

(* OnConnect, the commands of the server, the answer to a ping and the     *)
(* ping checks start one.                                                  *)
LEMMA StartSteps ==
  ASSUME RegInv, OnConnectStarts \/ ReconnectStarts \/ RegisterStarts
                 \/ PingCheckFails \/ StrayCheckFails
  PROVE  RegInv'
  <1>1. CASE OnConnectStarts
    <2>1. StateTyped'
      BY <1>1 DEF OnConnectStarts, RegInv, StateTyped, handlerVars
    <2> QED
      BY <1>1, <2>1, Started DEF OnConnectStarts, handlerVars
  <1>2. CASE ReconnectStarts
    <2>1. StateTyped'
      BY <1>2 DEF ReconnectStarts, Returns, RegInv, StateTyped
    <2> QED
      BY <1>2, <2>1, Started DEF ReconnectStarts, Returns
  <1>3. CASE RegisterStarts
    <2>1. StateTyped'
      BY <1>3 DEF RegisterStarts, Returns, RegInv, StateTyped
    <2> QED
      BY <1>3, <2>1, Started DEF RegisterStarts, Returns
  <1>4. CASE PingCheckFails \/ StrayCheckFails
    <2>1. StateTyped'
      BY <1>4 DEF PingCheckFails, StrayCheckFails, StartRecovery, RegInv, StateTyped, handlerVars
    <2> QED
      BY <1>4, <2>1, Started DEF PingCheckFails, StrayCheckFails, StartRecovery, handlerVars
  <1> QED
    BY <1>1, <1>2, <1>3, <1>4

(* No sender is started or stopped, and no handler begins: what is left to *)
(* show is that the handshake that is under way stays so.                  *)
LEMMA Calm ==
  ASSUME RegInv, UNCHANGED <<next, kind, stopped, builds, pendingRegister>>,
         NetTyped', SenderTyped', StateTyped',
         pendingPing' \in {pendingPing, None}, stopFunc' \in {stopFunc, None},
         handling' \in {handling, NoMessage}, crashed' = crashed,
         Uncounted',
         stopFunc' # None => /\ handler = "stopping" => handler' = "stopping"
                             /\ onConnect = "start" => onConnect' = "start",
         UnderWay'
  PROVE  RegInv'
  <1>1. FieldTyped'
    BY DEF RegInv, FieldTyped, SenderTyped
  <1>2. Fresh'
    BY DEF RegInv, Fresh
  <1>3. Kinds'
    BY DEF RegInv, Kinds
  <1>4. Once'
    BY DEF RegInv, Once, NoMessage
  <1>5. DoubleStopWindow'
    BY DEF RegInv, DoubleStopWindow
  <1> QED
    BY <1>1, <1>2, <1>3, <1>4, <1>5 DEF RegInv

-----------------------------------------------------------------------------
(* The goroutine of a chain: when it has sent its first request on a       *)
(* websocket, the answer is on its way.                                    *)
LEMMA SendStep ==
  ASSUME RegInv, NEW c \in Chains, SenderSends(c)
  PROVE  RegInv'
  <1>1. /\ UNCHANGED <<ws, events, next, kind, stopped, builds, stopFunc, pendingPing,
                       pendingRegister, connected, check, stray, handler, handling, onConnect,
                       gaveUp, crashed>>
        /\ sender' = [sender EXCEPT ![c] = "wait"]
    BY DEF SenderSends, handlerVars
  <1>2. /\ sender' \in [Chains -> {"off", "first", "wait", "ended"}]
        /\ sender'[c] = "wait" /\ \A d \in Chains \ {c} : sender'[d] = sender[d]
    BY <1>1 DEF RegInv, SenderTyped
  <1>3. StateTyped'
    BY <1>1 DEF RegInv, StateTyped
  <1>4. c < next
    BY DEF SenderSends, RegInv, Uncounted, SenderTyped
  <1>5. CASE ~ ws /\ UNCHANGED <<count, inbox>>
    <2>1. NetTyped' /\ SenderTyped'
      BY <1>1, <1>2, <1>5 DEF RegInv, NetTyped, SenderTyped
    <2>2. Uncounted'
      BY <1>1, <1>2, <1>4, <1>5 DEF RegInv, Uncounted, SenderTyped
    <2>3. UnderWay'
      BY <1>1, <1>5 DEF UnderWay
    <2> QED
      BY <1>1, <1>3, <2>1, <2>2, <2>3, Calm
  <1>6. ASSUME count' = [count EXCEPT ![c] = @ + 1], NEW what \in {"exitNodes", "connect"},
               what = IF kind[c] = "ping" THEN "exitNodes" ELSE "connect",
               NEW id \in {c, None}, inbox' = Append(inbox, [kind |-> what, chain |-> id])
        PROVE  RegInv'
    <2>1. PICK m \in Sent : m = [kind |-> what, chain |-> id]
      BY DEF Sent
    <2>2. m.kind = what /\ m.chain \in {c, None}
      BY <2>1
    <2>3. NetTyped
      BY DEF RegInv
    <2>4. /\ inbox' \in Seq(Sent) /\ InInbox(c, what)'
          /\ \A d, w : InInbox(d, w) => InInbox(d, w)'
      <3>1. inbox' = Append(inbox, m)
        BY <1>6, <2>1
      <3>2. /\ inbox' \in Seq(Sent) /\ \A d : m.chain \in {d, None} => InInbox(d, m.kind)'
            /\ \A d, w : InInbox(d, w) => InInbox(d, w)'
        BY <2>3, <3>1, Added
      <3>3. InInbox(c, m.kind)'
        BY <2>2, <3>2
      <3> QED
        BY <2>2, <3>2, <3>3
    <2>5. count[c] \in 0 .. MaxAttempts /\ count[c] < MaxAttempts
      BY DEF SenderSends, RegInv, Uncounted, SenderTyped
    <2>6. /\ count' \in [Chains -> 0 .. MaxAttempts]
          /\ \A d \in Chains \ {c} : count'[d] = count[d]
      BY <1>6, <2>5 DEF RegInv, SenderTyped
    <2>7. NetTyped' /\ SenderTyped'
      BY <1>1, <1>2, <2>4, <2>6 DEF RegInv, NetTyped, SenderTyped
    <2>8. Uncounted'
      BY <1>1, <1>2, <1>4, <2>6 DEF RegInv, Uncounted, SenderTyped
    <2>9. UnderWay'
      <3>1. /\ Answered(pendingPing, "exitNodes") => Answered(pendingPing, "exitNodes")'
            /\ Answered(pendingRegister, "connect") => Answered(pendingRegister, "connect")'
        <4>1. PICK pp \in 0 .. MaxChain, pr \in 0 .. MaxChain :
                 pp = pendingPing /\ pr = pendingRegister
          BY DEF RegInv, FieldTyped, SenderTyped
        <4>2. /\ pp = c => what = "exitNodes"
              /\ pr = c => what = "connect"
          BY <1>6, <4>1 DEF RegInv, Kinds
        <4>3. \A d \in Chains : sender'[d] = "first" \/ sender[d] # "first" \/ d = c
          BY <1>2
        <4>4. /\ Answered(pp, "exitNodes") => Answered(pp, "exitNodes")'
              /\ Answered(pr, "connect") => Answered(pr, "connect")'
          BY <2>4, <4>1, <4>2, <4>3 DEF Answered
        <4> QED
          BY <1>1, <4>1, <4>4 DEF Answered, InInbox
      <3>2. Decides => Decides'
        BY <1>1 DEF Decides
      <3> QED
        BY <1>1, <3>1, <3>2 DEF UnderWay, RegInv, Exhausted
    <2> QED
      BY <1>1, <1>3, <2>7, <2>8, <2>9, Calm
  <1>7. CASE ws /\ count' = [count EXCEPT ![c] = @ + 1]
             /\ \E m \in Answers(c) : inbox' = Append(inbox, m)
    <2>1. PICK m \in Answers(c) : inbox' = Append(inbox, m)
      BY <1>7
    <2>2. PICK what \in {"exitNodes", "connect"} :
             what = IF kind[c] = "ping" THEN "exitNodes" ELSE "connect"
      OBVIOUS
    <2>3. PICK id \in {c, None} : m = [kind |-> what, chain |-> id]
      BY <2>2 DEF Answers
    <2> QED
      BY <1>6, <1>7, <2>1, <2>2, <2>3
  <1> QED
    BY <1>5, <1>7 DEF SenderSends

(* A sender ends when it has been stopped, or has sent all its requests.   *)
LEMMA EndStep ==
  ASSUME RegInv, NEW c \in Chains, SenderEnds(c)
  PROVE  RegInv'
  <1>1. /\ UNCHANGED <<ws, inbox, events, next, kind, stopped, builds, stopFunc, pendingPing,
                       pendingRegister, connected, check, stray, handler, handling, onConnect,
                       gaveUp, crashed>>
        /\ sender' = [sender EXCEPT ![c] = "ended"] /\ count' = [count EXCEPT ![c] = 0]
        /\ sender[c] = "wait"
    BY DEF SenderEnds, netVars, handlerVars
  <1>2. /\ sender' \in [Chains -> {"off", "first", "wait", "ended"}]
        /\ count' \in [Chains -> 0 .. MaxAttempts]
        /\ sender'[c] = "ended" /\ count'[c] = 0
        /\ \A d \in Chains \ {c} : sender'[d] = sender[d] /\ count'[d] = count[d]
    BY <1>1 DEF RegInv, SenderTyped
  <1>3. NetTyped' /\ SenderTyped' /\ StateTyped'
    BY <1>1, <1>2 DEF RegInv, NetTyped, SenderTyped, StateTyped
  <1>4. Uncounted'
    BY <1>1, <1>2 DEF RegInv, Uncounted, SenderTyped
  <1>5. UnderWay'
    <2>1. /\ Answered(pendingPing, "exitNodes") => Answered(pendingPing, "exitNodes")'
          /\ Answered(pendingRegister, "connect") => Answered(pendingRegister, "connect")'
      BY <1>1, <1>2 DEF Answered, InInbox, RegInv, FieldTyped, SenderTyped
    <2>2. Decides => Decides'
      BY <1>1 DEF Decides
    <2> QED
      BY <1>1, <2>1, <2>2 DEF UnderWay, RegInv, Exhausted
  <1> QED
    BY <1>1, <1>3, <1>4, <1>5, Calm

(* No sender changes either.                                               *)
LEMMA Quiet ==
  ASSUME RegInv, UNCHANGED <<senderVars, builds, pendingRegister>>,
         NetTyped', StateTyped',
         pendingPing' \in {pendingPing, None}, stopFunc' \in {stopFunc, None},
         handling' \in {handling, NoMessage}, crashed' = crashed,
         stopFunc' # None => /\ handler = "stopping" => handler' = "stopping"
                             /\ onConnect = "start" => onConnect' = "start",
         UnderWay'
  PROVE  RegInv'
  <1>1. UNCHANGED <<next, kind, sender, count, stopped>>
    BY DEF senderVars
  <1>2. SenderTyped'
    BY <1>1 DEF RegInv, SenderTyped
  <1>3. Uncounted'
    BY <1>1 DEF RegInv, Uncounted
  <1> QED
    BY <1>1, <1>2, <1>3, Calm

(* The websocket and the server.                                           *)
LEMMA NetSteps ==
  ASSUME RegInv, WsConnects \/ WsDrops \/ ServerCommands
  PROVE  RegInv'
  <1>0. NetTyped /\ StateTyped
    BY DEF RegInv
  <1>1. CASE WsConnects \/ WsDrops
    <2>1. inbox' \in Seq(Sent) /\ events' \in 0 .. MaxEvents /\ ws' \in BOOLEAN
      <3>1. <<>> \in Seq(Sent)
        OBVIOUS
      <3>2. inbox' = inbox \/ inbox' = <<>>
        BY <1>1 DEF WsConnects, WsDrops
      <3>3. events' \in 0 .. MaxEvents
        BY <1>0, <1>1 DEF WsConnects, WsDrops, NetTyped
      <3>4. ws' \in BOOLEAN
        BY <1>1, Zenon DEF WsConnects, WsDrops
      <3> QED
        BY <1>0, <3>1, <3>2, <3>3, <3>4 DEF NetTyped
    <2>2. NetTyped' /\ StateTyped'
      BY <1>0, <1>1, <2>1 DEF WsConnects, WsDrops, NetTyped, StateTyped, handlerVars
    <2>3. UnderWay'
      BY <1>1 DEF UnderWay, WsConnects, WsDrops
    <2> QED
      BY <1>1, <2>2, <2>3, Quiet DEF WsConnects, WsDrops, handlerVars
  <1>2. CASE ServerCommands
    <2>1. PICK what \in Commands : inbox' = Append(inbox, [kind |-> what, chain |-> None])
      BY <1>2 DEF ServerCommands
    <2>2. PICK m \in Sent : m = [kind |-> what, chain |-> None]
      BY <2>1 DEF Sent
    <2>3. inbox' \in Seq(Sent) /\ \A d, w : InInbox(d, w) => InInbox(d, w)'
      BY <1>0, <2>1, <2>2, Added
    <2>4. UNCHANGED <<ws, sender, next, stopFunc, pendingPing, pendingRegister, connected, check,
                      stray, handler, handling, onConnect, gaveUp, crashed>>
          /\ UNCHANGED <<senderVars, builds>> /\ events' \in 0 .. MaxEvents
      BY <1>0, <1>2 DEF ServerCommands, senderVars, handlerVars, NetTyped
    <2>5. NetTyped' /\ StateTyped'
      BY <1>0, <2>3, <2>4 DEF NetTyped, StateTyped
    <2>6. UnderWay'
      BY <2>3, <2>4 DEF RegInv, UnderWay, Answered, Decides, Exhausted
    <2> QED
      BY <2>4, <2>5, <2>6, Quiet
  <1> QED
    BY <1>1, <1>2

(* A handler goes on, or OnConnect has nothing to do: the messages and the *)
(* senders stay as they are.                                               *)
LEMMA GoesOn ==
  ASSUME RegInv, UNCHANGED <<netVars, senderVars, builds, pendingRegister, crashed>>, StateTyped',
         pendingPing' \in {pendingPing, None}, stopFunc' \in {stopFunc, None},
         handling' \in {handling, NoMessage},
         stopFunc' # None => /\ handler = "stopping" => handler' = "stopping"
                             /\ onConnect = "start" => onConnect' = "start",
         \/ connected' \/ gaveUp' \/ Decides'
         \/ /\ pendingPing' = pendingPing /\ (Decides => Decides')
            /\ connected' = connected /\ gaveUp' = gaveUp
            /\ onConnect' = onConnect
  PROVE  RegInv'
  <1>1. UNCHANGED <<ws, inbox, events, next, sender>>
    BY DEF netVars, senderVars
  <1>2. NetTyped'
    BY <1>1 DEF RegInv, NetTyped
  <1>3. UnderWay'
    <2>1. CASE connected' \/ gaveUp' \/ Decides'
      BY <2>1 DEF UnderWay
    <2>2. CASE /\ pendingPing' = pendingPing /\ (Decides => Decides')
               /\ connected' = connected /\ gaveUp' = gaveUp
               /\ onConnect' = onConnect
      BY <1>1, <2>2 DEF RegInv, UnderWay, Answered, InInbox, Exhausted
    <2> QED
      BY <2>1, <2>2
  <1> QED
    BY <1>2, <1>3, Quiet

(* The steps of that kind.                                                 *)
LEMMA GoesOnSteps ==
  ASSUME RegInv, \/ ClearStop \/ StaleExitNodes \/ CurrentExitNodes \/ TerminateEnds
                 \/ MalformedExitNodes \/ NoExitNodes \/ ConnectSucceeds \/ ConnectFails
                 \/ OnConnectResumes \/ StrayCheckEnds \/ PingCheckRestored
  PROVE  RegInv'
  <1>0. StateTyped
    BY DEF RegInv
  <1>1. CASE ClearStop
    <2>1. StateTyped'
      BY <1>0, <1>1 DEF ClearStop, StateTyped
    <2>2. Decides => Decides'
      BY <1>1 DEF ClearStop, Decides
    <2> QED
      BY <1>1, <2>1, <2>2, GoesOn DEF ClearStop
  <1>2. CASE StaleExitNodes
    <2>1. StateTyped'
      BY <1>0, <1>2 DEF StaleExitNodes, Returns, StateTyped
    <2>2. ~ Decides
      BY <1>2 DEF StaleExitNodes, Continues, Decides
    <2> QED
      BY <1>2, <2>1, <2>2, GoesOn DEF StaleExitNodes, Continues, Returns
  <1>3. CASE CurrentExitNodes
    <2>1. StateTyped' /\ Decides'
      BY <1>0, <1>3 DEF CurrentExitNodes, StateTyped, Decides
    <2> QED
      BY <1>3, <2>1, GoesOn DEF CurrentExitNodes, Continues
  <1>4. CASE TerminateEnds \/ MalformedExitNodes \/ NoExitNodes \/ ConnectSucceeds \/ ConnectFails
    <2>1. StateTyped'
      BY <1>0, <1>4 DEF TerminateEnds, MalformedExitNodes, NoExitNodes, ConnectSucceeds,
                        ConnectFails, Returns, StateTyped
    <2> QED
      BY <1>4, <2>1, GoesOn DEF TerminateEnds, MalformedExitNodes, NoExitNodes, ConnectSucceeds,
                                ConnectFails, Continues, Returns
  <1>5. CASE OnConnectResumes
    <2>1. StateTyped'
      BY <1>0, <1>5 DEF OnConnectResumes, StateTyped, handlerVars
    <2> QED
      BY <1>5, <2>1, GoesOn DEF OnConnectResumes, handlerVars
  <1>6. CASE StrayCheckEnds \/ PingCheckRestored
    <2>1. StateTyped'
      BY <1>0, <1>6 DEF StrayCheckEnds, PingCheckRestored, StateTyped, handlerVars
    <2>2. Decides => Decides'
      BY <1>6 DEF StrayCheckEnds, PingCheckRestored, Decides, handlerVars
    <2> QED
      BY <1>6, <2>1, <2>2, GoesOn DEF StrayCheckEnds, PingCheckRestored, handlerVars
  <1> QED
    BY <1>1, <1>2, <1>3, <1>4, <1>5, <1>6

(* handleConnect builds the tunnel of a chain that has none yet, and that  *)
(* nobody waits for any more.                                              *)
LEMMA BuildStep ==
  ASSUME RegInv, BuildTunnel
  PROVE  RegInv'
  <1>0. NetTyped /\ SenderTyped /\ FieldTyped /\ StateTyped
    BY DEF RegInv
  <1>1. PICK c : c = handling.chain
    OBVIOUS
  <1>2. c # None => c \in Chains /\ builds[c] = 0 /\ c # pendingRegister /\ c < next
    BY <1>0, <1>1, SentParts DEF BuildTunnel, Continues, StateTyped, NoMessage, RegInv, Once
  <1>3. /\ UNCHANGED <<ws, inbox, events, next, kind, sender, count, stopped, stopFunc,
                       pendingPing, pendingRegister, onConnect, gaveUp, crashed>>
        /\ builds' = [d \in Chains |-> builds[d] + IF d = c THEN 1 ELSE 0]
        /\ handler = "stopped" /\ handler' = "connecting" /\ handling' = NoMessage
        /\ connected' = FALSE
    BY <1>1 DEF BuildTunnel, Continues, netVars, senderVars
  <1>4. check' \in {"off", "ok", "lost"} /\ stray' \in BOOLEAN
    BY <1>0 DEF BuildTunnel, CloseTunnel, StateTyped
  <1>5. builds' \in [Chains -> Nat] /\ (c # None => builds'[c] = 1)
        /\ \A d \in Chains \ {c} : builds'[d] = builds[d]
    BY <1>0, <1>2, <1>3 DEF SenderTyped
  <1>6. NetTyped' /\ SenderTyped' /\ FieldTyped' /\ StateTyped'
    BY <1>0, <1>3, <1>4, <1>5 DEF NetTyped, SenderTyped, FieldTyped, StateTyped
  <1>7. Fresh' /\ Uncounted' /\ Kinds'
    <2>1. \A d \in Chains : d >= next => d # c
      BY <1>0, <1>2 DEF SenderTyped
    <2>2. Fresh'
      BY <1>3, <1>5, <2>1 DEF RegInv, Fresh
    <2> QED
      BY <1>3, <2>2 DEF RegInv, Uncounted, Kinds
  <1>8. Once'
    BY <1>2, <1>3, <1>5 DEF RegInv, Once, NoMessage
  <1>9. DoubleStopWindow'
    BY <1>3 DEF RegInv, DoubleStopWindow
  <1>10. UnderWay'
    BY <1>3 DEF UnderWay, Decides
  <1> QED
    BY <1>6, <1>7, <1>8, <1>9, <1>10 DEF RegInv

-----------------------------------------------------------------------------
(* A sender is stopped: by OnConnect, or by a handler that begins.         *)

(* The call of stopFunc leaves a used one behind; who made it is about to  *)
(* assign the field.                                                       *)
LEMMA Stopped ==
  ASSUME RegInv, CallStop, UNCHANGED <<next, stopFunc, builds>>,
         stopFunc # None => onConnect' = "start" \/ handler' = "stopping"
  PROVE  /\ stopped' \in [Chains -> BOOLEAN] /\ Fresh' /\ DoubleStopWindow'
         /\ crashed' \in BOOLEAN
  <1>0. /\ stopped \in [Chains -> BOOLEAN] /\ next \in 1 .. MaxChain + 1
        /\ stopFunc \in 0 .. next - 1
    BY DEF RegInv, SenderTyped, FieldTyped
  <1>1. stopped' \in [Chains -> BOOLEAN]
    BY <1>0 DEF CallStop
  <1>2. crashed' \in BOOLEAN
    BY Zenon DEF CallStop
  <1>3. \A c \in Chains : c >= next => stopped'[c] = stopped[c]
    <2>1. CASE stopFunc = None
      BY <2>1 DEF CallStop
    <2>2. CASE stopFunc # None
      <3>1. stopFunc < next /\ stopped' = [stopped EXCEPT ![stopFunc] = TRUE]
        BY <1>0, <2>2 DEF CallStop
      <3>2. \A c \in Chains : c >= next => c # stopFunc
        BY <1>0, <3>1
      <3>3. \A c \in Chains : c # stopFunc => stopped'[c] = stopped[c]
        BY <1>0, <3>1, Zenon
      <3> QED
        BY <3>2, <3>3, Zenon
    <2> QED
      BY <2>1, <2>2
  <1>4. Fresh'
    BY <1>3 DEF RegInv, Fresh
  <1>5. DoubleStopWindow'
    BY DEF DoubleStopWindow
  <1> QED
    BY <1>1, <1>2, <1>4, <1>5

(* OnConnect without a tunnel.                                             *)
LEMMA OnConnectStopsStep ==
  ASSUME RegInv, OnConnectStops
  PROVE  RegInv'
  <1>0. NetTyped /\ SenderTyped /\ FieldTyped /\ StateTyped
    BY DEF RegInv
  <1>1. /\ UNCHANGED <<ws, inbox, events, next, kind, sender, count, stopFunc, pendingPing,
                       pendingRegister, connected, check, stray, handler, handling, builds, gaveUp>>
        /\ onConnect' = "start" /\ CallStop
    BY DEF OnConnectStops, netVars, handlerVars
  <1>2. stopped' \in [Chains -> BOOLEAN] /\ Fresh' /\ DoubleStopWindow' /\ crashed' \in BOOLEAN
    BY <1>1, Stopped
  <1>3. NetTyped' /\ SenderTyped' /\ FieldTyped' /\ StateTyped'
    BY <1>0, <1>1, <1>2 DEF NetTyped, SenderTyped, FieldTyped, StateTyped
  <1>4. Uncounted' /\ Kinds' /\ Once'
    BY <1>1 DEF RegInv, Uncounted, Kinds, Once
  <1>5. UnderWay'
    BY <1>1 DEF UnderWay
  <1> QED
    BY <1>2, <1>3, <1>4, <1>5 DEF RegInv

(* A handler begins: what remains to be shown is that the message it took  *)
(* from the inbox was not what the handshake waits for, unless it is what  *)
(* the handler is at.                                                      *)
LEMMA HandleSteps ==
  ASSUME RegInv, HandleExitNodes \/ HandleConnect \/ HandleReconnect \/ HandleTerminate
  PROVE  RegInv'
  <1>0. NetTyped /\ SenderTyped /\ FieldTyped /\ StateTyped
    BY DEF RegInv
  <1>1. PICK m : m = Head(inbox)
    OBVIOUS
  <1>2. /\ UNCHANGED <<ws, events, next, kind, sender, count, stopFunc, pendingPing, onConnect,
                       builds, gaveUp>>
        /\ BeginStop /\ inbox # <<>> /\ inbox' = Tail(inbox) /\ handler = "idle"
    BY DEF HandleExitNodes, HandleConnect, HandleReconnect, HandleTerminate, Receives
  <1>3. /\ m \in Sent /\ inbox' \in Seq(Sent)
        /\ \A c, what : InInbox(c, what) => InInbox(c, what)' \/ (m.kind = what /\ m.chain \in {c, None})
    BY <1>0, <1>1, <1>2, Received
  <1>4. /\ CallStop /\ handling' = m
        /\ handler' = IF stopFunc = None THEN "stopped" ELSE "stopping"
    BY <1>1, <1>2 DEF BeginStop
  <1>5. stopped' \in [Chains -> BOOLEAN] /\ Fresh' /\ DoubleStopWindow' /\ crashed' \in BOOLEAN
    BY <1>2, <1>4, Stopped
  <1>6. /\ check' \in {"off", "ok", "lost"} /\ stray' \in BOOLEAN /\ connected' \in BOOLEAN
        /\ pendingRegister' \in {pendingRegister, None}
    BY <1>0 DEF HandleExitNodes, HandleConnect, HandleReconnect, HandleTerminate, CloseTunnel,
                StateTyped
  <1>7. NetTyped' /\ SenderTyped' /\ FieldTyped' /\ StateTyped'
    <2>1. NetTyped' /\ SenderTyped'
      BY <1>0, <1>2, <1>3, <1>5 DEF NetTyped, SenderTyped
    <2>2. FieldTyped' /\ StateTyped'
      BY <1>0, <1>2, <1>3, <1>4, <1>5, <1>6 DEF FieldTyped, StateTyped, SenderTyped
    <2> QED
      BY <2>1, <2>2
  <1>8. Uncounted' /\ Kinds'
    BY <1>2, <1>6 DEF RegInv, Uncounted, Kinds
  <1>9. Once'
    <2>1. \A c \in Chains : builds'[c] <= 1 /\ (builds'[c] = 1 => c # pendingRegister')
      BY <1>2, <1>6 DEF RegInv, Once
    <2>2. CASE m.kind = "connect" /\ m.chain # None
      <3>1. m.chain \in Chains /\ m.chain = pendingRegister /\ pendingRegister' = None
        BY <1>1, <1>3, <2>2, SentParts
           DEF HandleExitNodes, HandleConnect, HandleReconnect, HandleTerminate, Receives
      <3>2. builds[m.chain] = 0 /\ m.chain < next
        BY <1>0, <3>1 DEF RegInv, Once, SenderTyped, FieldTyped
      <3> QED
        BY <1>2, <1>4, <2>1, <3>1, <3>2 DEF Once
    <2>3. CASE m.kind # "connect" \/ m.chain = None
      BY <1>4, <2>1, <2>3 DEF Once
    <2> QED
      BY <2>2, <2>3
  <1>10. UnderWay'
    <2>1. CASE m.kind # "exitNodes"
      BY <1>4, <2>1 DEF UnderWay, Decides
    <2>2. CASE m.kind = "exitNodes"
      <3>1. pendingRegister' = pendingRegister /\ connected' = connected /\ ~ crashed
        BY <1>1, <2>2 DEF HandleExitNodes, HandleConnect, HandleReconnect, HandleTerminate, Receives
      <3>2. IsFor(m.chain, pendingPing) => Decides'
        BY <1>2, <1>4 DEF Decides
      <3>3. ASSUME Answered(pendingPing, "exitNodes"), ~ IsFor(m.chain, pendingPing)
            PROVE  Answered(pendingPing, "exitNodes")'
        <4>1. PICK pp : pp = pendingPing
          OBVIOUS
        <4>2. Answered(pp, "exitNodes")'
          BY <1>2, <1>3, <3>3, <4>1 DEF Answered
        <4> QED
          BY <1>2, <4>1, <4>2 DEF Answered, InInbox
      <3>4. ASSUME Answered(pendingRegister, "connect")
            PROVE  Answered(pendingRegister, "connect")'
        <4>1. PICK pr : pr = pendingRegister
          OBVIOUS
        <4>2. Answered(pr, "connect")'
          BY <1>2, <1>3, <2>2, <3>4, <4>1 DEF Answered
        <4> QED
          BY <3>1, <4>1, <4>2 DEF Answered, InInbox
      <3>5. ~ Decides
        BY <1>2 DEF Decides
      <3> QED
        BY <1>2, <3>1, <3>2, <3>3, <3>4, <3>5 DEF RegInv, UnderWay, Exhausted
    <2> QED
      BY <2>1, <2>2
  <1> QED
    BY <1>5, <1>7, <1>8, <1>9, <1>10 DEF RegInv

(* A stale connect is dropped; the one that is waited for is another.      *)
LEMMA StaleConnectStep ==
  ASSUME RegInv, HandleStaleConnect
  PROVE  RegInv'
  <1>1. /\ UNCHANGED <<ws, events, senderVars, stopFunc, pendingPing, pendingRegister, connected,
                       check, stray, handler, handling, onConnect, builds, gaveUp, crashed>>
        /\ inbox # <<>> /\ inbox' = Tail(inbox)
        /\ Head(inbox).kind = "connect" /\ Head(inbox).chain \notin {pendingRegister, None}
    BY DEF HandleStaleConnect, Receives, handlerVars
  <1>2. /\ inbox' \in Seq(Sent)
        /\ \A c, what : InInbox(c, what) =>
              InInbox(c, what)' \/ (what = "connect" /\ c # pendingRegister)
    BY <1>1, Received DEF RegInv
  <1>3. NetTyped' /\ StateTyped'
    BY <1>1, <1>2 DEF RegInv, NetTyped, StateTyped
  <1>4. UnderWay'
    <2>1. UNCHANGED <<next, sender>>
      BY <1>1 DEF senderVars
    <2>2. /\ Answered(pendingPing, "exitNodes") => Answered(pendingPing, "exitNodes")'
          /\ Answered(pendingRegister, "connect") => Answered(pendingRegister, "connect")'
      <3>1. PICK pp, pr : pp = pendingPing /\ pr = pendingRegister
        OBVIOUS
      <3>2. /\ Answered(pp, "exitNodes") => Answered(pp, "exitNodes")'
            /\ Answered(pr, "connect") => Answered(pr, "connect")'
        BY <1>2, <2>1, <3>1 DEF Answered
      <3> QED
        BY <1>1, <3>1, <3>2 DEF Answered, InInbox
    <2>3. Decides => Decides'
      BY <1>1 DEF Decides
    <2> QED
      BY <1>1, <2>1, <2>2, <2>3 DEF RegInv, UnderWay, Exhausted
  <1> QED
    BY <1>1, <1>3, <1>4, Quiet

-----------------------------------------------------------------------------
(* Nothing has happened yet.                                               *)
LEMMA RegStarts ==
  ASSUME Init
  PROVE  RegInv
  <1>1. <<>> \in Seq(Sent)
    OBVIOUS
  <1>2. NetTyped /\ SenderTyped /\ FieldTyped /\ StateTyped
    <2>0. /\ ws \in BOOLEAN /\ connected \in BOOLEAN /\ gaveUp \in BOOLEAN /\ crashed \in BOOLEAN
          /\ stray \in BOOLEAN
      BY Zenon DEF Init
    <2>1. NetTyped
      <3>1. inbox = <<>> /\ events = 0
        BY DEF Init
      <3> QED
        BY <1>1, <2>0, <3>1 DEF NetTyped
    <2>2. SenderTyped
      BY DEF Init, SenderTyped
    <2>3. FieldTyped
      BY DEF Init, FieldTyped
    <2>4. StateTyped
      <3>1. check = "off" /\ handler = "idle" /\ handling = NoMessage /\ onConnect = "idle"
        BY DEF Init
      <3> QED
        BY <2>0, <3>1 DEF StateTyped
    <2> QED
      BY <2>1, <2>2, <2>3, <2>4
  <1>3. Fresh /\ Uncounted /\ Kinds /\ Once
    BY DEF Init, Fresh, Uncounted, Kinds, Once, NoMessage
  <1>4. DoubleStopWindow /\ UnderWay
    BY DEF Init, DoubleStopWindow, UnderWay
  <1> QED
    BY <1>2, <1>3, <1>4 DEF RegInv

(* Every step preserves the invariant.                                     *)
LEMMA RegSteps ==
  ASSUME RegInv, [Next]_vars
  PROVE  RegInv'
  <1>1. CASE \E c \in Chains : SenderSends(c) \/ SenderEnds(c)
    BY <1>1, SendStep, EndStep
  <1>2. CASE WsConnects \/ WsDrops \/ ServerCommands
    BY <1>2, NetSteps
  <1>3. CASE OnConnect
    BY <1>3, GoesOnSteps, OnConnectStopsStep, StartSteps DEF OnConnect
  <1>4. CASE Handle
    BY <1>4, HandleSteps, StaleConnectStep DEF Handle
  <1>5. CASE HandlerGoesOn
    BY <1>5, GoesOnSteps, BuildStep, StartSteps DEF HandlerGoesOn
  <1>6. CASE PingCheck
    BY <1>6, StartSteps, GoesOnSteps DEF PingCheck
  <1>7. CASE UNCHANGED vars
    <2>1. UNCHANGED <<netVars, senderVars, builds, pendingRegister, crashed, pendingPing, stopFunc,
                      handler, handling, onConnect, connected, gaveUp, check, stray>>
      BY <1>7 DEF vars
    <2>2. StateTyped' /\ (Decides => Decides')
      BY <2>1 DEF RegInv, StateTyped, Decides
    <2> QED
      BY <2>1, <2>2, GoesOn
  <1> QED
    BY <1>1, <1>2, <1>3, <1>4, <1>5, <1>6, <1>7 DEF Next, Rests

(* The invariant is inductive: every reachable state of the registration   *)
(* satisfies it.                                                           *)
THEOREM RegInductive == Spec => []RegInv
  <1>1. RegInv /\ [Next]_vars => RegInv'
    BY RegSteps
  <1> QED
    BY <1>1, RegStarts, PTL DEF Spec

(* Type correctness.                                                       *)
THEOREM RegTypeCorrect == Spec => []TypeOK
  <1>1. ASSUME RegInv PROVE TypeOK
    <2>1. NetTyped /\ SenderTyped /\ FieldTyped /\ StateTyped
      BY <1>1 DEF RegInv
    <2>2. Sent \subseteq Messages
      BY DEF Sent, Messages
    <2>3. inbox \in Seq(Messages) /\ handling \in Messages \cup {NoMessage}
      BY <2>1, <2>2 DEF NetTyped, StateTyped
    <2>4. /\ stopFunc \in Chains \cup {None} /\ pendingPing \in Chains \cup {None}
          /\ pendingRegister \in Chains \cup {None}
      BY <2>1 DEF FieldTyped, SenderTyped
    <2> QED
      BY <2>1, <2>3, <2>4 DEF TypeOK, NetTyped, SenderTyped, StateTyped
  <1> QED
    BY <1>1, RegInductive, PTL

(* However often a registration is repeated and answered, at most one of   *)
(* the answers that bear its chain id builds a tunnel (BuiltOnce), also    *)
(* when any answers come without one and are acted on unconditionally.     *)
THEOREM RegBuiltOnce == Spec => []BuiltOnce
  <1>1. RegInv => BuiltOnce
    BY DEF RegInv, Once, BuiltOnce
  <1> QED
    BY <1>1, RegInductive, PTL

(* n.stopFunc refers to a stopped sender only between its call and its     *)
(* next assignment (DoubleStopWindow).                                     *)
THEOREM RegDoubleStopWindow == Spec => []DoubleStopWindow
  <1>1. RegInv => DoubleStopWindow
    BY DEF RegInv
  <1> QED
    BY <1>1, RegInductive, PTL

(* Without a tunnel a handshake is under way, whatever stops its senders   *)
(* (HandshakeAlive): what is waited for has not been asked for yet, or its *)
(* answer is in the inbox.                                                 *)
THEOREM RegHandshakeAlive == Spec => []HandshakeAlive
  <1>1. ASSUME RegInv PROVE HandshakeAlive
    <2>1. ASSUME NEW c, NEW what, Answered(c, what), NetTyped PROVE Awaited(c, what)
      <3>1. CASE sender[c] = "first"
        BY <2>1, <3>1 DEF Answered, Awaited
      <3>2. CASE InInbox(c, what)
        BY <2>1, <3>2 DEF InInbox, Answered, Awaited
      <3> QED
        BY <2>1, <3>1, <3>2 DEF Answered
    <2>2. handler = "idle" => ~ Decides
      BY DEF Decides
    <2> QED
      BY <1>1, <2>1, <2>2 DEF RegInv, UnderWay, HandshakeAlive
  <1> QED
    BY <1>1, RegInductive, PTL
=============================================================================
