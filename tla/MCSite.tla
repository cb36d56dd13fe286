------------------------------- MODULE MCSite -------------------------------
(***************************************************************************)
(* Site with one TCP and one UDP port, two IPv4 addresses, for one of      *)
(* which the script returns a name without a port, an IPv6 address, and    *)
(* two message contents such that going from one to the other, and to the  *)
(* same again, adds, removes, changes and drops targets.                   *)
(***************************************************************************)
EXTENDS Site

MCScript == [a \in Addrs |-> IF a = "b" THEN "name" ELSE a]

List(t, u) == [s \in Slots |-> IF s \in TcpSlots THEN t ELSE u]

MCContents ==
    {[targets |-> List("b", "v6"), subnets |-> Subnets, gateway |-> FALSE],
     [targets |-> List(NoAddr, "a"), subnets |-> {}, gateway |-> TRUE]}
=============================================================================
