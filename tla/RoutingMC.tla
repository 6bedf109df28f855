------------------------------ MODULE RoutingMC -----------------------------
(* Hosts a and b and a router with an interface for each.  Host a (0) and  *)
(* the router (1) are in one network of two addresses, the router (2) and  *)
(* b (3) in the other; b may also take the address of the router by        *)
(* mistake.  The routes hold a detour through b, a right route, and one    *)
(* back to a, which makes loops.                                           *)
EXTENDS Routing

Host(nics) == [role |-> "host", nics |-> nics]
MCNodes == ("a" :> Host(<<1>>)) @@ ("b" :> Host(<<1>>)) @@ ("r" :> Host(<<1, 1>>))
At(n, i, ip, plen) == [port |-> [node |-> n, name |-> Lan(i)], ip |-> ip, plen |-> plen]
MCPlan == {At("a", 0, 0, 1), At("r", 0, 1, 1), At("r", 1, 2, 1), At("b", 0, 3, 1), At("b", 0, 2, 1)}
Via(n, dest, plen, gateway) ==
  [node |-> n, dest |-> dest, plen |-> plen, gateway |-> gateway, iface |-> NoIface]
MCRoutes == {Via("a", 0, 0, 3), Via("a", 2, 1, 1), Via("r", 0, 0, 0)}

\* Two switches joined twice, so that paths of different lengths compete.
Box(ports) == [role |-> "network_switch", nics |-> <<ports>>]
MeshNodes == ("c" :> Host(<<1>>)) @@ ("d" :> Host(<<1>>)) @@ ("s" :> Box(3)) @@ ("t" :> Box(2))

AllNodes == MCNodes @@ MeshNodes
MCWorlds == {DOMAIN MCNodes, DOMAIN MeshNodes}
AllPlan == MCPlan \cup {At("c", 0, 0, 0), At("d", 0, 1, 0)}
=============================================================================
