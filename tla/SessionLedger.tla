--------------------------- MODULE SessionLedger ---------------------------
(***************************************************************************)
(* What the access log promises about the sessions of the clients: each    *)
(* is recorded once it has ended, reported to the server at most once, and *)
(* lost only when as many others are waiting as the buffer may hold.       *)
(***************************************************************************)
EXTENDS Naturals, FiniteSets

CONSTANTS
    Sessions,       \* the sessions there can be
    Cap             \* how many records may wait for the server

VARIABLE ledger     \* what has become of a session

States == {"none", "open", "ended", "reported", "lost"}

In(state) == {s \in Sessions : ledger[s] = state}

Move(S, state) == ledger' = [s \in Sessions |-> IF s \in S THEN state ELSE ledger[s]]

Init == ledger = [s \in Sessions |-> "none"]

Open(s) == ledger[s] = "none" /\ Move({s}, "open")

End(S) == S # {} /\ Move(S, "ended")

Report(S) == S # {} /\ Move(S, "reported")

Lose(S) ==
    /\ S # {}
    /\ Cardinality(In("ended") \ S) >= Cap
    /\ Move(S, "lost")

Next ==
    \/ \E s \in Sessions : Open(s)
    \/ \E S \in SUBSET In("open") : End(S)
    \/ \E S \in SUBSET In("ended") : Report(S) \/ Lose(S)

Spec == Init /\ [][Next]_ledger
=============================================================================
