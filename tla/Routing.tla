------------------------------- MODULE Routing ------------------------------
(***************************************************************************)
(* NetworkTopology.resolve: which nodes a packet passes from one node to   *)
(* the first address of another, or that it cannot get there.  The edits   *)
(* are the actions; what resolve answers is compared in every topology     *)
(* they reach with definitions that do not search.                         *)
(*                                                                         *)
(* IPv4 addresses are numbers of Width bits, networks the numbers that     *)
(* share their leading plen bits; nothing depends on the 32.               *)
(***************************************************************************)
EXTENDS Topology, FiniteSets

CONSTANTS
  Nodes,      \* id -> [role, nics]; ids are strings
  Worlds,     \* the sets of ids a network may be made of
  Width,      \* bits of an address
  Plan,       \* the addresses that may be assigned, [port, ip, plen]
  RoutePlan   \* the routes that may be added, [node, dest, plen, gateway, iface]

VARIABLE net  \* the current topology

ASSUME RoutingAssumption ==
  /\ \A n \in DOMAIN Nodes : Nodes[n].nics \in Seq(Nat)
  /\ \A ids \in Worlds : ids \subseteq DOMAIN Nodes /\ IsFiniteSet(ids)
  /\ Width \in Nat
  /\ \A r \in RoutePlan : r.plen \in 0 .. Width /\ r.dest \in Nat
  \* ip_network clears the bits behind the prefix
  /\ \A r, s \in RoutePlan :
       r.plen = s.plen
         /\ r.dest \div 2 ^ (Width - r.plen) = s.dest \div 2 ^ (Width - s.plen) => r.dest = s.dest

NoPath == <<>>
Last1(s) == s[Len(s)]

\* `address in network`: the leading plen bits agree.
InNetwork(ip, base, plen) ==
  ip \div 2 ^ (Width - plen) = base \div 2 ^ (Width - plen)

Init == \E ids \in Worlds : net = EmptyTopology(ids)

Connect(a, b) ==
  /\ CanAddCable(Nodes, net, a, b)
  /\ net' = WithCable(net, a, b, "cable")

AddAddress(address) ==
  /\ HasPort(Nodes, net, address.port)
  /\ net' = WithAddress(net, address)

AddRoute(route) ==
  /\ CanAddRoute(Nodes, net, route)
  /\ net' = WithRoute(net, route)

Next ==
  \/ \E a, b \in Ports(Nodes, net) : Connect(a, b)
  \/ \E address \in Plan : AddAddress(address)
  \/ \E route \in RoutePlan : AddRoute(route)

Spec == Init /\ [][Next]_net

-----------------------------------------------------------------------------
(* The search.                                                             *)

AddressesFor(n) == {i \in DOMAIN net.addresses : net.addresses[i].port.node = n}
AddressByIp(ip) == {i \in DOMAIN net.addresses : net.addresses[i].ip = ip}
First(numbers) == net.addresses[Min(numbers)]

OtherEnd(cable, p) == CHOOSE q \in cable.ends : q # p

\* _l2_neighbors: across the cable, then the ports of a switch in their order.
L2Neighbors(p) ==
  LET node == Nodes[p.node]
      cables == CablesAt(net, p)
      names == IF IsSwitch(node) THEN PortNames(node) ELSE <<>>
  IN  (IF cables = {} THEN <<>> ELSE <<OtherEnd(CHOOSE c \in cables : TRUE, p)>>)
        \o [i \in DOMAIN names |-> [node |-> p.node, name |-> names[i]]]

\* The for loop of _l2_path; a port is no neighbor of itself.
Look(path, q, target, left) ==
  IF left.found # NoPath \/ q = Last1(path) \/ q \in left.visited THEN left
  ELSE IF q = target THEN [left EXCEPT !.found = Append(path, q)]
  ELSE [left EXCEPT !.queue = Append(@, Append(path, q)), !.visited = @ \cup {q}]

Extend(path, target, left) ==
  LET neighbors == L2Neighbors(Last1(path))
      looked[i \in Nat] == IF i = 0 THEN left ELSE Look(path, neighbors[i], target, looked[i - 1])
  IN  looked[Len(neighbors)]

\* Faulty: pop() where the code has popleft().
DepthFirst(target, left) ==
  IF left.queue = <<>> \/ left.found # NoPath THEN left
  ELSE Extend(Last1(left.queue), target, [left EXCEPT !.queue = Front(@)])

\* A round of the while loop; the queue holds the paths still to extend.
Search(target, left) ==
  IF left.queue = <<>> \/ left.found # NoPath THEN left
  ELSE Extend(Head(left.queue), target, [left EXCEPT !.queue = Tail(@)])

\* A port enters the queue once, so these rounds end the loop.
L2Path(p, q) ==
  LET left[k \in Nat] ==
        IF k = 0 THEN [queue |-> << <<p>> >>, visited |-> {p}, found |-> NoPath]
                 ELSE Search(q, left[k - 1])
  IN  IF p = q THEN <<p>> ELSE left[Cardinality(Ports(Nodes, net))].found

AppendAlways(s, n) == Append(s, n)      \* faulty: keeps the repetitions

\* _node_path and _append_unique drop repetitions side by side.
AppendUnique(s, n) == IF s # <<>> /\ Last1(s) = n THEN s ELSE Append(s, n)
Squeeze(s) ==
  LET out[i \in Nat] == IF i = 0 THEN <<>> ELSE AppendUnique(out[i - 1], s[i])
  IN  out[Len(s)]

NodePath(path) == Squeeze([i \in DOMAIN path |-> path[i].node])

\* _direct_path and _path_to_gateway: from the first address of n in whose
\* network the other one lies and from which there is a layer 2 path.
PathFrom(n, address) ==
  LET own == {i \in AddressesFor(n) :
                LET a == net.addresses[i]
                IN  InNetwork(address.ip, a.ip, a.plen) /\ L2Path(a.port, address.port) # NoPath}
  IN  IF own = {} THEN NoPath ELSE NodePath(L2Path(First(own).port, address.port))

\* Faulty: the shortest prefix wins.
ShortestPrefix(n, ip) ==
  {r \in net.routes : /\ r.node = n /\ InNetwork(ip, r.dest, r.plen)
                      /\ \A s \in net.routes :
                           s.node = n /\ InNetwork(ip, s.dest, s.plen) => r.plen <= s.plen}

\* _best_route: no route or one, because a second one to the same network
\* replaces the first.
BestRoute(n, ip) ==
  {r \in net.routes : /\ r.node = n /\ InNetwork(ip, r.dest, r.plen)
                      /\ \A s \in net.routes :
                           s.node = n /\ InNetwork(ip, s.dest, s.plen) => s.plen <= r.plen}

\* A round of the for loop of resolve; `end` tells how it was left.
Forward(target, left) ==
  LET direct == PathFrom(left.at, target)
      best == BestRoute(left.at, target.ip)
      gateways == IF best = {} THEN {} ELSE AddressByIp((CHOOSE r \in best : TRUE).gateway)
      path == IF gateways = {} THEN NoPath ELSE PathFrom(left.at, First(gateways))
      next == First(gateways).port.node
  IN  IF left.end # "none" THEN left
      ELSE IF direct # NoPath
        THEN [left EXCEPT !.hops = Squeeze(@ \o direct), !.end = "arrived"]
      ELSE IF path = NoPath \/ next \in left.visited THEN [left EXCEPT !.end = "error"]
      ELSE [at |-> next, hops |-> Squeeze(left.hops \o path),
            visited |-> left.visited \cup {next}, end |-> "none"]

\* NoPath stands for every ValueError.
Resolve(n, m) ==
  LET target == First(AddressesFor(m))
      left[k \in Nat] ==
        IF k = 0 THEN [at |-> n, hops |-> <<n>>, visited |-> {n}, end |-> "none"]
                 ELSE Forward(target, left[k - 1])
      last == left[Cardinality(net.nodes) + 1]
  IN  IF AddressesFor(m) # {} /\ last.end = "arrived" THEN last.hops ELSE NoPath

-----------------------------------------------------------------------------
(* The same without a search.                                              *)

Link(p, q) ==
  \/ \E c \in net.cables : c.ends = {p, q}
  \/ p # q /\ p.node = q.node /\ IsSwitch(Nodes[p.node])

Wire(p, q) == Link(p, q) /\ p # q

\* The ports a frame from p may arrive at in at most k steps.
Flood(ports) == ports \cup {q \in Ports(Nodes, net) : \E o \in ports : Wire(o, q)}
Within(p, k) ==
  LET ports[i \in Nat] == IF i = 0 THEN {p} ELSE Flood(ports[i - 1])
  IN  ports[k]

Segment(p) == Within(p, Cardinality(Ports(Nodes, net)))

Hears(n, address) ==
  \E i \in AddressesFor(n) :
    LET own == net.addresses[i]
    IN  InNetwork(address.ip, own.ip, own.plen) /\ address.port \in Segment(own.port)

\* The node that n hands a packet for ip to.
Handover(n, ip) ==
  {m \in net.nodes :
     \E r \in net.routes :
       /\ r.node = n /\ InNetwork(ip, r.dest, r.plen)
       /\ ~\E s \in net.routes :
             s.node = n /\ InNetwork(ip, s.dest, s.plen) /\ s.plen > r.plen
       /\ LET g == AddressByIp(r.gateway)
          IN  g # {} /\ First(g).port.node = m /\ Hears(n, First(g))}

\* The nodes from which a packet for the address arrives, however far.
Earlier(nodes, address) ==
  nodes \cup {n \in net.nodes : Handover(n, address.ip) \cap nodes # {}}
Delivering(address) ==
  LET nodes[i \in Nat] == IF i = 0 THEN {n \in net.nodes : Hears(n, address)}
                                   ELSE Earlier(nodes[i - 1], address)
  IN  nodes[Cardinality(net.nodes)]

-----------------------------------------------------------------------------
(* resolve succeeds exactly when repeated longest prefix forwarding        *)
(* arrives: neither the visited set nor the bound on the rounds rejects a  *)
(* packet that would arrive, and no loop is followed for ever.             *)
ResolveIsForwarding ==
  \A n, m \in net.nodes :
    Resolve(n, m) # NoPath <=>
      /\ AddressesFor(m) # {}
      /\ n \in Delivering(First(AddressesFor(m)))

(* What traceroute shows is a walk: it starts at the source, ends at the   *)
(* target, and each node shares a cable with the next one.                 *)
HopsAreAWalk ==
  \A n, m \in net.nodes : \A hops \in {Resolve(n, m)} \ {NoPath} :
    /\ hops[1] = n /\ Last1(hops) = m
    /\ \A i \in 1 .. Len(hops) - 1 :
         \E c \in net.cables : {p.node : p \in c.ends} = {hops[i], hops[i + 1]}

(* The layer 2 path is a shortest one.                                     *)
L2PathIsShortest ==
  \A p, q \in Ports(Nodes, net) : LET path == L2Path(p, q) IN
    IF path = NoPath THEN q \notin Segment(p)
    ELSE q \in Within(p, Len(path) - 1) /\ (Len(path) > 1 => q \notin Within(p, Len(path) - 2))
=============================================================================
