------------------------------ MODULE Topology ------------------------------
(***************************************************************************)
(* NetworkTopology as a value: the ports the nodes offer and the edits of  *)
(* cables, addresses and routes.  `nodes` maps the ids to records with a   *)
(* role and nics, the port counts of the network interfaces in their       *)
(* order; roles are read live, because a topology keeps the Node objects   *)
(* themselves.  A topology is a record of                                  *)
(*   nodes      the ids it was made with                                   *)
(*   cables     a set of [ends, id], ends holding the two ports            *)
(*   addresses  a sequence of [port, ip, plen]                             *)
(*   routes     a set of [node, dest, plen, gateway, iface]                *)
(* and a port is a record [node, name].                                    *)
(***************************************************************************)
EXTENDS Naturals, SequencesExt, Collections

CONSTANTS
  Switch,   \* NodeRole.NETWORK_SWITCH
  NoIface   \* a route without an explicit interface

IsSwitch(node) == node.role = Switch

Lan(i) == <<"lan", i>>
SwitchPort(k) == <<"port", k>>
TotalPorts(node) == SumOf(node.nics)

\* In the order of the code: lan0, lan1, ... or port1, port2, ...
PortNames(node) ==
  IF IsSwitch(node) THEN [k \in 1 .. TotalPorts(node) |-> SwitchPort(k)]
                    ELSE [i \in 1 .. Len(node.nics) |-> Lan(i - 1)]

PortsOf(nodes, n) == {[node |-> n, name |-> PortNames(nodes[n])[i]] :
                        i \in DOMAIN PortNames(nodes[n])}
Ports(nodes, topo) == UNION {PortsOf(nodes, n) : n \in topo.nodes}

HasPort(nodes, topo, port) == port \in Ports(nodes, topo)

EmptyTopology(ids) == [nodes |-> ids, cables |-> {}, addresses |-> <<>>, routes |-> {}]

CablesAt(topo, port) == {c \in topo.cables : port \in c.ends}

\* Faulty: looks at one end only.
CanAddCableAtLeft(nodes, topo, a, b) ==
  /\ HasPort(nodes, topo, a) /\ HasPort(nodes, topo, b)
  /\ a # b
  /\ CablesAt(topo, a) = {}

CanAddCable(nodes, topo, a, b) ==
  /\ HasPort(nodes, topo, a) /\ HasPort(nodes, topo, b)
  /\ a # b
  /\ CablesAt(topo, a) = {} /\ CablesAt(topo, b) = {}

WithCable(topo, a, b, id) ==
  [topo EXCEPT !.cables = @ \cup {[ends |-> {a, b}, id |-> id]}]

WithoutCable(topo, cable) == [topo EXCEPT !.cables = @ \ {cable}]

Others(addresses, port) ==
  Kept(addresses, {i \in DOMAIN addresses : addresses[i].port # port})

\* A second address of a port replaces the first and goes to the end.
WithAddress(topo, address) ==
  [topo EXCEPT !.addresses = Append(Others(@, address.port), address)]

\* Faulty: takes any interface name.
CanAddRouteAnywhere(nodes, topo, route) == route.node \in topo.nodes

CanAddRoute(nodes, topo, route) ==
  /\ route.node \in topo.nodes
  /\ route.iface # NoIface =>
       HasPort(nodes, topo, [node |-> route.node, name |-> route.iface])

\* A second route of a node to the same network replaces the first.
WithRoute(topo, route) ==
  [topo EXCEPT !.routes =
     {old \in @ : <<old.node, old.dest, old.plen>> # <<route.node, route.dest, route.plen>>}
       \cup {route}]

-----------------------------------------------------------------------------
(* The ports a topology mentions, and what a load that repeats all its     *)
(* edits on fresh nodes asks of them.                                      *)

Mentioned(topo) ==
  (UNION {c.ends : c \in topo.cables})
    \cup {topo.addresses[i].port : i \in DOMAIN topo.addresses}
    \cup {[node |-> r.node, name |-> r.iface] :
            r \in {x \in topo.routes : x.iface # NoIface}}

Repeatable(nodes, topo) ==
  /\ Mentioned(topo) \subseteq Ports(nodes, topo)
  /\ \A c, d \in topo.cables : c # d => c.ends \cap d.ends = {}

\* The interface that a port name stands for: NIC i, for lan(i-1) or one of
\* the names its own ports have on a switch.
NicOf(node, name) ==
  IF name[1] = "lan" THEN name[2] + 1
  ELSE CHOOSE i \in DOMAIN node.nics :
         /\ SumOf(SubSeq(node.nics, 1, i - 1)) < name[2]
         /\ name[2] <= SumOf(SubSeq(node.nics, 1, i))
=============================================================================
