----------------------------- MODULE MCClients -----------------------------
(***************************************************************************)
(* ClientService with a client that has one source port, two addresses it  *)
(* may ask for, a host and a loopback address behind them, a web and a     *)
(* datagram service.  The lists of rules rewrite both addresses to the     *)
(* host, one of them to a name, or leave them alone, and cover them by a   *)
(* broader rule.  A budget is a situation that is explored to the end.     *)
(***************************************************************************)
EXTENDS ClientService

MCSources == {{"c"}, {"c", "other"}}
MCHandlers == Ports \X (Addrs \ Loopback) \X (Services \ {Icmp})

MCResolve ==
    [n \in Names |-> CASE n = "host" -> {"h"} [] n = "local" -> {"lo"} [] n = "name" -> {"h", "lo"}]

Rule(src, dst, services, to, res) ==
    [src |-> src, dst |-> dst, services |-> services, disableIcmp |-> services # {},
     rewriteTo |-> to, resource |-> res, http |-> FALSE, tls |-> 0]

Both ==
    {[Rule({"c"}, {"d"}, {"dns"}, "host", TRUE) EXCEPT !.disableIcmp = FALSE],
     Rule({"c"}, {"d", "e"}, {"web"}, "host", TRUE)}
Plain == {Rule({"c"}, {"d"}, {}, NoName, TRUE)}
Named ==
    {Rule({"c"}, {"d"}, {"dns"}, "name", FALSE),
     Rule({"c"}, {"h"}, {"dns"}, "local", TRUE),
     [Rule({"c", "other"}, {"h"}, {"web"}, NoName, FALSE) EXCEPT !.http = TRUE, !.tls = 1]}

MCConfigs ==
    {[targets |-> Both, ips |-> {"x"}, cert |-> 0],
     [targets |-> Plain, ips |-> Nil, cert |-> 0],
     [targets |-> Named, ips |-> {"y"}, cert |-> 1]}

Budget(c, m, n, p, h, t, k) ==
    [connects |-> c, messages |-> m, notes |-> n, packets |-> p, hups |-> h,
     traffic |-> t, checks |-> k]

MCBudgets ==
    {Budget(1, 1, 0, 2, 0, 0, 0), Budget(1, 0, 0, 3, 0, 0, 0), Budget(2, 0, 0, 0, 2, 0, 0),
     Budget(2, 0, 0, 0, 0, 2, 3), Budget(1, 0, 2, 0, 0, 1, 1)}
=============================================================================
