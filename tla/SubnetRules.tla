---------------------------- MODULE SubnetRules ----------------------------
(***************************************************************************)
(* The rules of a netstack's proxy and how a packet of the client is       *)
(* matched with them (netstack2/subnet_lookup.go and the SubnetRule of     *)
(* proxy.go).  A prefix is the set of addresses it covers, so the more     *)
(* specific of two prefixes that cover an address is the smaller one; a    *)
(* service is a destination port with its protocol.                        *)
(***************************************************************************)
EXTENDS Naturals, FiniteSets

CONSTANTS
    Client,         \* the address of the client whose packets are modelled
    Sources,        \* the source prefixes, each a set of addresses
    Addrs,          \* the addresses packets are sent to and targets have
    Services,       \* destination ports, and Icmp
    Icmp,
    Names,          \* the rewrite targets: addresses and domain names
    NoName          \* no rewriting

(* A rule.  No services means that every one is allowed; tls is the        *)
(* certificate resolveTLS found when the rule was installed.               *)
Rules == [src : Sources, dst : SUBSET Addrs, services : SUBSET Services,
          disableIcmp : BOOLEAN, rewriteTo : Names \cup {NoName},
          resource : BOOLEAN, http : BOOLEAN, tls : Nat]

SameKey(r, q) == r.src = q.src /\ r.dst = q.dst

(* addSubnetLocked: a rule replaces the one with its prefixes.             *)
AddSubnet(R, r) == {q \in R : ~SameKey(q, r)} \cup {r}

(* ReplaceAll adds the rules of the list to an empty table.  Of two with   *)
(* the same prefixes the later one stays; the lists here have no such two. *)
ReplaceAll(L) == L

RemoveSubnet(R, r) == {q \in R : ~SameKey(q, r)}

(* Supernets returns the longest prefix first.                             *)
Precedes(r, q) ==
    \/ r.src # q.src /\ r.src \subseteq q.src
    \/ r.src = q.src /\ r.dst \subseteq q.dst

First(R) == {r \in R : \A q \in R : Precedes(r, q)}

Covering(R, d) == {r \in R : Client \in r.src /\ d \in r.dst}

(* Match, for TCP and UDP: the first rule that allows the service, whether *)
(* or not a more specific one covers the address.  For ICMP the first rule *)
(* that covers the address decides.  A set of one rule, or of none for nil.*)
Match(R, d, svc) ==
    IF svc = Icmp THEN {r \in First(Covering(R, d)) : ~r.disableIcmp}
    ELSE First({r \in Covering(R, d) : r.services = {} \/ svc \in r.services})
=============================================================================
