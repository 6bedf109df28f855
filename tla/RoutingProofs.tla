--------------------------- MODULE RoutingProofs ---------------------------
(***************************************************************************)
(* That resolve finds what is there, of the shortest length on layer 2,    *)
(* and nothing that is not.                                                *)
(***************************************************************************)
EXTENDS Routing, CollectionLemmas

AllPorts == Ports(Nodes, net)

Addressed == {address \in Plan : address.port \in AllPorts}

\* What the edits keep of a topology.
Sound ==
  /\ net \in [nodes : Worlds, cables : SUBSET [ends : SUBSET AllPorts, id : {"cable"}],
              addresses : Seq(Addressed), routes : SUBSET RoutePlan]
  /\ \A c \in net.cables : \E a, b \in AllPorts : a # b /\ c.ends = {a, b}
  /\ \A c, d \in net.cables : c.ends \cap d.ends # {} => c = d
  /\ \A r, s \in net.routes :
       r.node = s.node /\ r.dest = s.dest /\ r.plen = s.plen => r = s

-----------------------------------------------------------------------------
(* The topologies the edits reach                                          *)

\* A node's ports are numbered by the names they have.
LEMMA NamesOfNode ==
  ASSUME RoutingAssumption, NEW n \in DOMAIN Nodes
  PROVE  \E k \in Nat : DOMAIN PortNames(Nodes[n]) = 1 .. k /\ Len(PortNames(Nodes[n])) = k
<1> DEFINE nics == Nodes[n].nics
<1>1. nics \in Seq(Nat)
  BY DEF RoutingAssumption
<1> HIDE DEF nics
<1>2. Len(nics) \in Nat /\ nics \in [1 .. Len(nics) -> Nat]
  BY <1>1
<1>3. IsFiniteSet(1 .. Len(nics))
  BY <1>2, FS_Interval
<1>4. SumOf(nics) \in Nat
  BY <1>2, <1>3, SumType
<1>5. CASE IsSwitch(Nodes[n])
  <2>1. PortNames(Nodes[n]) = [k \in 1 .. SumOf(nics) |-> SwitchPort(k)]
    BY <1>5 DEF PortNames, TotalPorts, nics
  <2>2. Len([k \in 1 .. SumOf(nics) |-> SwitchPort(k)]) = SumOf(nics)
    BY <1>4, SMTT(30)
  <2> QED
    BY <1>4, <2>1, <2>2
<1>6. CASE ~IsSwitch(Nodes[n])
  <2>1. PortNames(Nodes[n]) = [i \in 1 .. Len(nics) |-> Lan(i - 1)]
    BY <1>6 DEF PortNames, nics
  <2>2. Len([i \in 1 .. Len(nics) |-> Lan(i - 1)]) = Len(nics)
    BY <1>2
  <2> QED
    BY <1>2, <2>1, <2>2, Zenon
<1> QED
  BY <1>5, <1>6

\* A topology has finitely many ports, each a name of one of its nodes.
LEMMA PortsOfTopology ==
  ASSUME RoutingAssumption, Sound
  PROVE  /\ IsFiniteSet(AllPorts)
         /\ IsFiniteSet(net.nodes)
         /\ \A p \in AllPorts :
              /\ p.node \in net.nodes
              /\ \E i \in DOMAIN PortNames(Nodes[p.node]) :
                   p = [node |-> p.node, name |-> PortNames(Nodes[p.node])[i]]
         /\ \A n \in net.nodes : \A i \in DOMAIN PortNames(Nodes[n]) :
              [node |-> n, name |-> PortNames(Nodes[n])[i]] \in AllPorts
<1>1. net.nodes \in Worlds /\ net.nodes \subseteq DOMAIN Nodes /\ IsFiniteSet(net.nodes)
  BY DEF Sound, RoutingAssumption
<1>2. ASSUME NEW n \in net.nodes PROVE IsFiniteSet(PortsOf(Nodes, n))
  <2> DEFINE Place(i) == [node |-> n, name |-> PortNames(Nodes[n])[i]]
             f == [i \in DOMAIN PortNames(Nodes[n]) |-> Place(i)]
  <2>1. IsFiniteSet(DOMAIN PortNames(Nodes[n]))
    <3>1. PICK k \in Nat : DOMAIN PortNames(Nodes[n]) = 1 .. k
      BY <1>1, NamesOfNode
    <3>2. IsFiniteSet(1 .. k)
      BY FS_Interval
    <3> QED
      BY <3>1, <3>2
  <2>2. f \in Surjection(DOMAIN PortNames(Nodes[n]), PortsOf(Nodes, n))
    BY DEF Surjection, PortsOf
  <2> HIDE DEF f
  <2> QED
    BY <2>1, <2>2, FS_Surjection
<1> DEFINE T == {PortsOf(Nodes, n) : n \in net.nodes}
<1>3. IsFiniteSet(T)
  <2> DEFINE g == [n \in net.nodes |-> PortsOf(Nodes, n)]
  <2>1. g \in Surjection(net.nodes, T)
    BY DEF Surjection
  <2> HIDE DEF g, T
  <2> QED
    BY <1>1, <2>1, FS_Surjection
<1>4. \A Z \in T : IsFiniteSet(Z)
  BY <1>2
<1>5. IsFiniteSet(UNION T)
  <2> HIDE DEF T
  <2> QED
    BY <1>3, <1>4, FS_UNION
<1>6. AllPorts = UNION T
  BY DEF AllPorts, Ports
<1>7. \A p \in AllPorts : \E n \in net.nodes : \E i \in DOMAIN PortNames(Nodes[n]) :
        p = [node |-> n, name |-> PortNames(Nodes[n])[i]]
  BY DEF AllPorts, Ports, PortsOf
<1>8. \A n \in net.nodes : \A i \in DOMAIN PortNames(Nodes[n]) :
        [node |-> n, name |-> PortNames(Nodes[n])[i]] \in AllPorts
  <2> TAKE n \in net.nodes
  <2> TAKE i \in DOMAIN PortNames(Nodes[n])
  <2>1. [node |-> n, name |-> PortNames(Nodes[n])[i]] \in PortsOf(Nodes, n)
    BY DEF PortsOf
  <2> QED
    BY <2>1 DEF AllPorts, Ports
<1>9. ASSUME NEW p \in AllPorts
      PROVE  /\ p.node \in net.nodes
             /\ \E i \in DOMAIN PortNames(Nodes[p.node]) :
                  p = [node |-> p.node, name |-> PortNames(Nodes[p.node])[i]]
  <2>1. PICK n \in net.nodes : \E i \in DOMAIN PortNames(Nodes[n]) :
               p = [node |-> n, name |-> PortNames(Nodes[n])[i]]
    BY <1>7
  <2>2. p.node = n
    BY <2>1
  <2> QED
    BY <2>1, <2>2
<1> QED
  BY <1>1, <1>5, <1>6, <1>8, <1>9

\* Every topology the edits reach is sound.
LEMMA SoundAlways ==
  ASSUME RoutingAssumption
  PROVE  Spec => []Sound
<1>1. Init => Sound
  <2> SUFFICES ASSUME NEW ids \in Worlds, net = EmptyTopology(ids) PROVE Sound
    BY DEF Init
  <2>1. /\ net.nodes = ids /\ net.cables = {} /\ net.addresses = <<>> /\ net.routes = {}
        /\ net = [nodes |-> ids, cables |-> {}, addresses |-> <<>>, routes |-> {}]
    BY DEF EmptyTopology
  <2>2. <<>> \in Seq(Addressed)
    OBVIOUS
  <2> QED
    BY <2>1, <2>2 DEF Sound
<1>2. ASSUME Sound, [Next]_net PROVE Sound'

  <2>1. ASSUME net'.nodes = net.nodes PROVE AllPorts' = AllPorts /\ Addressed' = Addressed
    BY <2>1 DEF AllPorts, Ports, Addressed
  <2>2. /\ net \in [nodes : Worlds, cables : SUBSET [ends : SUBSET AllPorts, id : {"cable"}],
                    addresses : Seq(Addressed), routes : SUBSET RoutePlan]
        /\ \A c \in net.cables : \E a, b \in AllPorts : a # b /\ c.ends = {a, b}
        /\ \A c, d \in net.cables : c.ends \cap d.ends # {} => c = d
        /\ \A r, s \in net.routes :
             r.node = s.node /\ r.dest = s.dest /\ r.plen = s.plen => r = s
    BY <1>2 DEF Sound
  <2>3. ASSUME NEW a \in AllPorts, NEW b \in AllPorts, Connect(a, b) PROVE Sound'
    <3> DEFINE new == [ends |-> {a, b}, id |-> "cable"]
    <3>1. /\ a # b /\ CablesAt(net, a) = {} /\ CablesAt(net, b) = {}
          /\ net' = [net EXCEPT !.cables = @ \cup {new}]
      BY <2>3 DEF Connect, CanAddCable, WithCable
    <3>2. /\ net'.nodes = net.nodes /\ net'.addresses = net.addresses /\ net'.routes = net.routes
          /\ net'.cables = net.cables \cup {new}
          /\ net' \in [nodes : Worlds, cables : SUBSET [ends : SUBSET AllPorts, id : {"cable"}],
                       addresses : Seq(Addressed), routes : SUBSET RoutePlan]
      BY <2>2, <3>1
    <3>3. AllPorts' = AllPorts /\ Addressed' = Addressed
      BY <2>1, <3>2
    <3>4. \A c \in net'.cables : \E x, y \in AllPorts : x # y /\ c.ends = {x, y}
      BY <2>2, <3>1, <3>2
    <3>5. \A c \in net.cables : a \notin c.ends /\ b \notin c.ends
      BY <3>1 DEF CablesAt
    <3>6. \A c \in net.cables : c.ends \cap new.ends = {}
      BY <3>5
    <3>7. \A c, d \in net'.cables : c.ends \cap d.ends # {} => c = d
      <4> HIDE DEF new
      <4> QED
        BY <2>2, <3>2, <3>6
    <3> QED
      BY <2>2, <3>2, <3>3, <3>4, <3>7 DEF Sound
  <2>4. ASSUME NEW address \in Plan, AddAddress(address) PROVE Sound'
    <3> DEFINE old == Others(net.addresses, address.port)
    <3>1. /\ address \in Addressed
          /\ net' = [net EXCEPT !.addresses = Append(old, address)]
      BY <2>4 DEF AddAddress, HasPort, WithAddress, Addressed, AllPorts
    <3>2. old \in Seq(Addressed)
      <4>1. net.addresses \in Seq(Addressed)
        BY <2>2
      <4> QED
        BY <4>1, KeptElements DEF Others
    <3> HIDE DEF old
    <3>3. Append(old, address) \in Seq(Addressed)
      BY <3>1, <3>2
    <3>4. /\ net'.nodes = net.nodes /\ net'.cables = net.cables /\ net'.routes = net.routes
          /\ net' \in [nodes : Worlds, cables : SUBSET [ends : SUBSET AllPorts, id : {"cable"}],
                       addresses : Seq(Addressed), routes : SUBSET RoutePlan]
      BY <2>2, <3>1, <3>3
    <3>5. AllPorts' = AllPorts /\ Addressed' = Addressed
      BY <2>1, <3>4
    <3> QED
      BY <2>2, <3>4, <3>5 DEF Sound
  <2>5. ASSUME NEW route \in RoutePlan, AddRoute(route) PROVE Sound'
    <3> DEFINE new == {old \in net.routes :
                         <<old.node, old.dest, old.plen>> # <<route.node, route.dest, route.plen>>}
                       \cup {route}
    <3>1. net' = [net EXCEPT !.routes = new]
      BY <2>5 DEF AddRoute, WithRoute
    <3>2. new \subseteq RoutePlan
      BY <2>2
    <3>3. \A r, s \in new : r.node = s.node /\ r.dest = s.dest /\ r.plen = s.plen => r = s
      BY <2>2
    <3> HIDE DEF new
    <3>4. /\ net'.nodes = net.nodes /\ net'.cables = net.cables /\ net'.addresses = net.addresses
          /\ net'.routes = new
          /\ net' \in [nodes : Worlds, cables : SUBSET [ends : SUBSET AllPorts, id : {"cable"}],
                       addresses : Seq(Addressed), routes : SUBSET RoutePlan]
      BY <2>2, <3>1, <3>2
    <3>5. AllPorts' = AllPorts /\ Addressed' = Addressed
      BY <2>1, <3>4
    <3> QED
      BY <2>2, <3>3, <3>4, <3>5 DEF Sound
  <2>6. CASE UNCHANGED net
    BY <1>2, <2>6 DEF Sound, AllPorts, Addressed
  <2> QED
    BY <1>2, <2>3, <2>4, <2>5, <2>6 DEF Next, AllPorts
<1> QED
  BY <1>1, <1>2, PTL DEF Spec

-----------------------------------------------------------------------------
(* Neighbors                                                               *)

\* _l2_neighbors lists the ports a wire away, and a switch's port itself.
LEMMA NeighborsAreWired ==
  ASSUME RoutingAssumption, Sound, NEW p \in AllPorts
  PROVE  /\ L2Neighbors(p) \in Seq(AllPorts)
         /\ \A q \in AllPorts \ {p} :
              Wire(p, q) <=> \E i \in 1 .. Len(L2Neighbors(p)) : L2Neighbors(p)[i] = q
<1> DEFINE node == Nodes[p.node]
           cables == CablesAt(net, p)
           names == IF IsSwitch(node) THEN PortNames(node) ELSE <<>>
           across == IF cables = {} THEN <<>>
                     ELSE <<OtherEnd(CHOOSE c \in cables : TRUE, p)>>
           inside == [i \in DOMAIN names |-> [node |-> p.node, name |-> names[i]]]
<1>1. p.node \in net.nodes /\ p.node \in DOMAIN Nodes
  BY PortsOfTopology DEF Sound, RoutingAssumption
<1>2. PICK k \in Nat : DOMAIN PortNames(node) = 1 .. k
  BY <1>1, NamesOfNode
<1>3. PICK m \in Nat : DOMAIN names = 1 .. m /\ inside \in Seq(AllPorts) /\ Len(inside) = m
  <2>1. CASE IsSwitch(node)
    <3>1. \A i \in 1 .. k : [node |-> p.node, name |-> PortNames(node)[i]] \in AllPorts
      BY <1>1, <1>2, PortsOfTopology
    <3>2. names = PortNames(node)
      BY <2>1
    <3>3. inside \in [1 .. k -> AllPorts]
      BY <1>2, <3>1, <3>2
    <3> HIDE DEF inside, names
    <3>4. inside \in Seq(AllPorts) /\ Len(inside) = k
      BY <3>3
    <3> QED
      BY <1>2, <3>2, <3>4
  <2>2. CASE ~IsSwitch(node)
    <3>1. names = <<>> /\ DOMAIN names = 1 .. 0
      BY <2>2
    <3>2. inside \in [1 .. 0 -> AllPorts]
      BY <3>1
    <3> HIDE DEF inside, names
    <3>3. inside \in Seq(AllPorts) /\ Len(inside) = 0
      BY <3>2
    <3> QED
      BY <3>1, <3>3
  <2> QED
    BY <2>1, <2>2
<1>4. \A q \in AllPorts \ {p} :
        (\E i \in 1 .. m : inside[i] = q) <=> q.node = p.node /\ IsSwitch(node)
  <2> TAKE q \in AllPorts \ {p}
  <2>1. CASE IsSwitch(node)
    <3>1. names = PortNames(node)
      BY <2>1
    <3>2. \A i \in 1 .. m : inside[i] = [node |-> p.node, name |-> names[i]]
      BY <1>3
    <3>3. ASSUME q.node = p.node PROVE \E i \in 1 .. m : inside[i] = q
      <4>1. PICK i \in DOMAIN PortNames(Nodes[q.node]) :
                   q = [node |-> q.node, name |-> PortNames(Nodes[q.node])[i]]
        BY PortsOfTopology
      <4>2. i \in 1 .. m
        BY <1>3, <3>1, <3>3, <4>1
      <4>3. inside[i] = q
        BY <3>1, <3>2, <3>3, <4>1, <4>2
      <4> QED
        BY <4>2, <4>3
    <3>4. ASSUME NEW i \in 1 .. m, inside[i] = q PROVE q.node = p.node
      <4>1. [node |-> p.node, name |-> names[i]].node = p.node
        OBVIOUS
      <4> HIDE DEF inside, names
      <4> QED
        BY <3>2, <3>4, <4>1
    <3> HIDE DEF inside, names, node
    <3> QED
      BY <2>1, <3>3, <3>4
  <2>2. CASE ~IsSwitch(node)
    <3>1. names = <<>> /\ DOMAIN names = {}
      BY <2>2
    <3> QED
      BY <1>3, <2>2, <3>1
  <2> QED
    BY <2>1, <2>2
<1>5. PICK l \in Nat :
        /\ across \in Seq(AllPorts) /\ Len(across) = l
        /\ \A q \in AllPorts \ {p} :
             (\E i \in 1 .. l : across[i] = q) <=> \E c \in net.cables : c.ends = {p, q}
  <2>1. CASE cables = {}
    <3>1. across = <<>> /\ <<>> \in Seq(AllPorts) /\ Len(<<>>) = 0
      BY <2>1
    <3>2. ~\E i \in 1 .. 0 : TRUE
      OBVIOUS
    <3>3. \A q : ~\E c \in net.cables : c.ends = {p, q}
      BY <2>1 DEF CablesAt
    <3> QED
      BY <3>1, <3>2, <3>3
  <2>2. CASE cables # {}
    <3> DEFINE c == CHOOSE d \in cables : TRUE
               o == OtherEnd(c, p)
    <3>1. c \in net.cables /\ p \in c.ends
      BY <2>2 DEF CablesAt
    <3>2. \A d \in net.cables : p \in d.ends => d = c
      <4> HIDE DEF c
      <4>1. ASSUME NEW d \in net.cables, p \in d.ends PROVE c.ends \cap d.ends # {}
        BY <3>1, <4>1
      <4> QED
        BY <3>1, <4>1 DEF Sound
    <3>3. PICK q \in AllPorts : q # p /\ c.ends = {p, q}
      <4> HIDE DEF c
      <4>1. PICK a \in AllPorts, b \in AllPorts : a # b /\ c.ends = {a, b}
        BY <3>1 DEF Sound
      <4>2. CASE p = a
        BY <4>1, <4>2
      <4>3. CASE p = b
        BY <4>1, <4>3
      <4> QED
        BY <3>1, <4>1, <4>2, <4>3
    <3>4. o = q
      BY <3>3 DEF OtherEnd
    <3>5. across = <<o>>
      BY <2>2
    <3> HIDE DEF c, across, cables
    <3>6. across \in Seq(AllPorts) /\ Len(across) = 1 /\ across[1] = q
      BY <3>4, <3>5
    <3>7. \A z : (\E i \in 1 .. 1 : across[i] = z) <=> z = q
      BY <3>6
    <3>8. ASSUME NEW z \in AllPorts \ {p}
          PROVE  z = q <=> \E d \in net.cables : d.ends = {p, z}
      <4>1. ASSUME NEW d \in net.cables, d.ends = {p, z} PROVE z = q
        BY <3>2, <3>3, <4>1
      <4> QED
        BY <3>1, <3>3, <4>1
    <3>9. /\ across \in Seq(AllPorts) /\ Len(across) = 1
          /\ \A z \in AllPorts \ {p} :
               (\E i \in 1 .. 1 : across[i] = z) <=> \E d \in net.cables : d.ends = {p, z}
      BY <3>6, <3>7, <3>8
    <3> QED
      BY <3>9
  <2> QED
    BY <2>1, <2>2
<1>6. L2Neighbors(p) = across \o inside
  BY DEF L2Neighbors
<1> HIDE DEF across, inside, names, cables
<1> DEFINE all == across \o inside
<1>7. /\ all \in Seq(AllPorts) /\ Len(all) = l + m
      /\ \A i \in 1 .. l : all[i] = across[i]
      /\ \A i \in 1 .. m : all[l + i] = inside[i]
  BY <1>3, <1>5, SMTT(30)
<1> HIDE DEF all
<1>8. ASSUME NEW q \in AllPorts \ {p}
      PROVE  Wire(p, q) <=> \E i \in 1 .. l + m : all[i] = q
  <2>1. (\E i \in 1 .. l + m : all[i] = q)
          <=> (\E i \in 1 .. l : across[i] = q) \/ (\E i \in 1 .. m : inside[i] = q)
    <3>1. ASSUME NEW i \in 1 .. l + m, all[i] = q
          PROVE  (\E j \in 1 .. l : across[j] = q) \/ (\E j \in 1 .. m : inside[j] = q)
      <4>1. CASE i <= l
        BY <1>7, <3>1, <4>1
      <4>2. CASE i > l
        <5>1. i - l \in 1 .. m /\ l + (i - l) = i
          BY <4>2
        <5> QED
          BY <1>7, <3>1, <5>1
      <4> QED
        BY <4>1, <4>2
    <3>2. \A j \in 1 .. l : j \in 1 .. l + m
      OBVIOUS
    <3>3. \A j \in 1 .. m : l + j \in 1 .. l + m
      OBVIOUS
    <3> QED
      BY <1>7, <3>1, <3>2, <3>3
  <2>2. Wire(p, q) <=> \/ \E c \in net.cables : c.ends = {p, q}
                      \/ (q.node = p.node /\ IsSwitch(node))
    BY DEF Wire, Link
  <2> QED
    BY <1>4, <1>5, <2>1, <2>2
<1> QED
  BY <1>6, <1>7, <1>8 DEF all

-----------------------------------------------------------------------------
(* Reach                                                                   *)

\* A set that only grows, each time by what it holds, has stopped growing
\* after as many rounds as there are elements.
LEMMA GrowthEnds ==
  ASSUME NEW S, IsFiniteSet(S), NEW w \in [Nat -> SUBSET S],
         \A k \in Nat : w[k] \subseteq w[k + 1],
         \A k \in Nat : w[k + 1] = w[k] => w[k + 2] = w[k + 1]
  PROVE  /\ Cardinality(S) \in Nat
         /\ w[Cardinality(S) + 1] = w[Cardinality(S)]
         /\ \A k \in Nat : w[k] \subseteq w[Cardinality(S)]
         /\ \A k \in Nat : \A j \in 0 .. k : w[j] \subseteq w[k]
<1> DEFINE N == Cardinality(S)
<1>1. N \in Nat
  BY FS_CardinalityType
<1>2. \A k \in Nat : IsFiniteSet(w[k]) /\ Cardinality(w[k]) \in Nat
  BY FS_Subset, FS_CardinalityType
<1>3. ASSUME NEW k \in Nat, w[k + 1] # w[k] PROVE Cardinality(w[k + 1]) > Cardinality(w[k])
  <2>1. k + 1 \in Nat /\ w[k] \subseteq w[k + 1]
    OBVIOUS
  <2>2. IsFiniteSet(w[k + 1]) /\ w[k] \in SUBSET w[k + 1]
    BY <1>2, <2>1
  <2>3. /\ Cardinality(w[k]) <= Cardinality(w[k + 1])
        /\ Cardinality(w[k + 1]) = Cardinality(w[k]) => w[k + 1] = w[k]
    BY <2>2, FS_Subset
  <2> QED
    BY <1>2, <1>3, <2>1, <2>3
<1> DEFINE P == {k \in Nat : w[k + 1] # w[k] => Cardinality(w[k]) >= k}
<1>4. 0 \in P
  BY <1>2
<1>5. ASSUME NEW k \in Nat, k \in P PROVE k + 1 \in P
  <2>1. k + 1 \in Nat /\ (k + 1) + 1 = k + 2
    OBVIOUS
  <2> SUFFICES ASSUME w[k + 2] # w[k + 1] PROVE Cardinality(w[k + 1]) >= k + 1
    BY <2>1
  <2>2. w[k + 1] # w[k]
    OBVIOUS
  <2>3. Cardinality(w[k]) >= k /\ Cardinality(w[k + 1]) > Cardinality(w[k])
    BY <1>3, <1>5, <2>2
  <2> QED
    BY <1>2, <2>1, <2>3
<1>6. \A k \in Nat : k \in P
  <2> HIDE DEF P
  <2> QED
    BY <1>4, <1>5, SetInduction
<1>7. w[N + 1] = w[N]
  <2> SUFFICES ASSUME w[N + 1] # w[N] PROVE FALSE
    OBVIOUS
  <2>1. Cardinality(w[N]) >= N
    BY <1>1, <1>6
  <2>2. w[N] = S
    <3>1. w[N] \in SUBSET S
      BY <1>1
    <3>2. /\ Cardinality(w[N]) <= Cardinality(S)
          /\ Cardinality(S) = Cardinality(w[N]) => S = w[N]
      BY <3>1, FS_Subset
    <3> QED
      BY <1>1, <1>2, <2>1, <3>2
  <2>3. w[N] \subseteq w[N + 1] /\ w[N + 1] \subseteq S
    BY <1>1
  <2> QED
    BY <2>2, <2>3
<1> DEFINE Q == {i \in Nat : w[N + i] = w[N] /\ w[N + i + 1] = w[N]}
<1>8. \A i \in Nat : i \in Q
  <2>1. 0 \in Q
    BY <1>1, <1>7
  <2>2. ASSUME NEW i \in Nat, i \in Q PROVE i + 1 \in Q
    <3>1. N + i \in Nat /\ N + (i + 1) = (N + i) + 1 /\ N + (i + 1) + 1 = (N + i) + 2
      BY <1>1
    <3>2. w[(N + i) + 1] = w[N + i]
      BY <2>2
    <3>3. w[(N + i) + 2] = w[(N + i) + 1]
      BY <3>1, <3>2
    <3> QED
      BY <2>2, <3>1, <3>3
  <2> HIDE DEF Q
  <2> QED
    BY <2>1, <2>2, SetInduction
<1> DEFINE R == {k \in Nat : \A j \in 0 .. k : w[j] \subseteq w[k]}
<1>9. \A k \in Nat : k \in R
  <2>1. 0 \in R
    OBVIOUS
  <2>2. ASSUME NEW k \in Nat, k \in R PROVE k + 1 \in R
    <3>1. \A j \in 0 .. k + 1 : j \in 0 .. k \/ j = k + 1
      OBVIOUS
    <3>2. w[k] \subseteq w[k + 1] /\ k + 1 \in Nat
      OBVIOUS
    <3> QED
      BY <2>2, <3>1, <3>2
  <2> HIDE DEF R
  <2> QED
    BY <2>1, <2>2, SetInduction
<1>10. ASSUME NEW k \in Nat PROVE w[k] \subseteq w[N]
  <2>1. CASE k <= N
    BY <1>1, <1>9, <2>1
  <2>2. CASE k > N
    <3>1. k - N \in Nat /\ N + (k - N) = k
      BY <1>1, <2>2
    <3>2. k - N \in Q
      BY <1>8, <3>1
    <3> QED
      BY <3>1, <3>2
  <2> QED
    BY <1>1, <2>1, <2>2
<1> QED
  BY <1>1, <1>7, <1>9, <1>10

\* What a round of flooding adds to.
LEMMA WithinStarts ==
  ASSUME Sound, NEW p \in AllPorts
  PROVE  /\ Within(p, 0) = {p}
         /\ \A k \in Nat : /\ Within(p, k) \subseteq AllPorts
                           /\ Within(p, k + 1) = Flood(Within(p, k))
<1> DEFINE step == [n \in Nat |-> [x \in SUBSET AllPorts |-> Flood(x)]]
           Loop(g) == g = [i \in Nat |-> IF i = 0 THEN {p} ELSE Flood(g[i - 1])]
           ports == CHOOSE g : Loop(g)
<1>1. \A x \in SUBSET AllPorts : Flood(x) \in SUBSET AllPorts
  BY DEF Flood, AllPorts
<1>2. step \in [Nat -> [SUBSET AllPorts -> SUBSET AllPorts]]
  BY <1>1
<1>3. PICK f \in [Nat -> SUBSET AllPorts] : IsLoop(f, {p}, step)
  <2> HIDE DEF step
  <2> QED
    BY <1>2, LoopComputes
<1>4. \A n \in Nat : f[n + 1] = Flood(f[n])
  BY <1>3 DEF IsLoop
<1>5. Loop(f)
  <2>1. ASSUME NEW i \in Nat PROVE f[i] = IF i = 0 THEN {p} ELSE Flood(f[i - 1])
    <3>1. CASE i = 0
      BY <1>3, <3>1 DEF IsLoop
    <3>2. CASE i # 0
      <4>1. i - 1 \in Nat /\ (i - 1) + 1 = i
        BY <3>2
      <4> QED
        BY <1>4, <3>2, <4>1
    <3> QED
      BY <3>1, <3>2
  <2>2. f = [i \in Nat |-> f[i]]
    BY <1>3
  <2> QED
    BY <2>1, <2>2
<1>6. Loop(ports)
  <2> HIDE DEF Loop
  <2> QED
    BY <1>5
<1>7. ports[0] = {p} /\ \A n \in Nat : ports[n + 1] = Flood(ports[n])
  <2> HIDE DEF ports
  <2>1. ports[0] = {p}
    BY <1>6
  <2>2. ASSUME NEW n \in Nat PROVE ports[n + 1] = Flood(ports[n])
    <3>1. n + 1 \in Nat /\ n + 1 # 0 /\ (n + 1) - 1 = n
      OBVIOUS
    <3> QED
      BY <1>6, <3>1
  <2> QED
    BY <2>1, <2>2
<1>8. \A k : Within(p, k) = ports[k]
  BY DEF Within
<1> HIDE DEF ports
<1> DEFINE P == {k \in Nat : ports[k] \in SUBSET AllPorts}
<1>9. \A k \in Nat : k \in P
  <2>1. 0 \in P
    BY <1>7
  <2>2. \A k \in Nat : k \in P => k + 1 \in P
    BY <1>1, <1>7
  <2> HIDE DEF P
  <2> QED
    BY <2>1, <2>2, SetInduction
<1> QED
  BY <1>7, <1>8, <1>9

\* The ports within reach only become more, and Segment has all of them.
LEMMA WithinGrows ==
  ASSUME RoutingAssumption, Sound, NEW p \in AllPorts
  PROVE  /\ Flood(Segment(p)) = Segment(p)
         /\ \A k \in Nat : Within(p, k) \subseteq Segment(p)
         /\ \A k \in Nat : \A j \in 0 .. k : Within(p, j) \subseteq Within(p, k)
<1> DEFINE w == [k \in Nat |-> Within(p, k)]
           N == Cardinality(AllPorts)
<1>1. \A k \in Nat : w[k] = Within(p, k) /\ w[k + 1] = Flood(w[k])
  BY WithinStarts
<1>2. w \in [Nat -> SUBSET AllPorts]
  BY WithinStarts
<1> HIDE DEF w
<1>3. \A k \in Nat : w[k] \subseteq w[k + 1]
  BY <1>1 DEF Flood
<1>4. ASSUME NEW k \in Nat, w[k + 1] = w[k] PROVE w[k + 2] = w[k + 1]
  <2>1. k + 1 \in Nat /\ (k + 1) + 1 = k + 2
    OBVIOUS
  <2> QED
    BY <1>1, <1>4, <2>1
<1>5. IsFiniteSet(AllPorts)
  BY PortsOfTopology
<1>6. /\ N \in Nat /\ w[N + 1] = w[N] /\ \A k \in Nat : w[k] \subseteq w[N]
      /\ \A k \in Nat : \A j \in 0 .. k : w[j] \subseteq w[k]
  BY <1>2, <1>3, <1>4, <1>5, GrowthEnds
<1>7. w[N] = Segment(p)
  BY <1>1, <1>6 DEF Segment, AllPorts
<1>8. Flood(Segment(p)) = Segment(p)
  BY <1>1, <1>6, <1>7
<1>9. \A k \in Nat : Within(p, k) \subseteq Segment(p)
  BY <1>1, <1>6, <1>7, ZenonT(60)
<1>10. ASSUME NEW k \in Nat, NEW j \in 0 .. k PROVE Within(p, j) \subseteq Within(p, k)
  <2>1. j \in Nat /\ w[j] \subseteq w[k]
    BY <1>6
  <2> QED
    BY <1>1, <2>1
<1> QED
  BY <1>8, <1>9, <1>10

\* No wire leads out of the ports within reach but to the ones a step further.
LEMMA WithinSpreads ==
  ASSUME Sound, NEW p \in AllPorts, NEW k \in Nat
  PROVE  /\ p \in Within(p, k)
         /\ \A x \in Within(p, k), y \in AllPorts : Wire(x, y) => y \in Within(p, k + 1)
         /\ \A y \in Within(p, k + 1) :
              y \in Within(p, k) \/ \E x \in Within(p, k) : Wire(x, y)
<1> DEFINE P == {i \in Nat : p \in Within(p, i)}
<1>1. \A i \in Nat : i \in P
  <2>1. 0 \in P
    BY WithinStarts
  <2>2. \A i \in Nat : i \in P => i + 1 \in P
    BY WithinStarts DEF Flood
  <2> HIDE DEF P
  <2> QED
    BY <2>1, <2>2, SetInduction
<1> QED
  BY <1>1, WithinStarts DEF Flood, AllPorts

\* A set of ports that no wire leaves has all that is within reach.
LEMMA WithinClosed ==
  ASSUME Sound, NEW p \in AllPorts, NEW V, p \in V,
         \A x \in V, y \in AllPorts : Wire(x, y) => y \in V
  PROVE  \A k \in Nat : Within(p, k) \subseteq V
<1> DEFINE P == {i \in Nat : Within(p, i) \subseteq V}
<1>1. 0 \in P
  BY WithinStarts
<1>2. \A i \in Nat : i \in P => i + 1 \in P
  BY WithinStarts DEF Flood, AllPorts
<1> HIDE DEF P
<1>3. \A i \in Nat : i \in P
  BY <1>1, <1>2, SetInduction
<1> QED
  BY <1>3 DEF P

-----------------------------------------------------------------------------
(* Walks                                                                   *)

\* A path from p to q, each of its steps along a wire.
IsWalk(path, p, q) ==
  /\ path \in Seq(AllPorts) /\ Len(path) >= 1
  /\ path[1] = p /\ path[Len(path)] = q
  /\ \A i \in 1 .. Len(path) - 1 : Wire(path[i], path[i + 1])

\* A walk goes on along a wire.
LEMMA WalkOn ==
  ASSUME NEW path, NEW p, NEW x, IsWalk(path, p, x), NEW y \in AllPorts, Wire(x, y)
  PROVE  IsWalk(Append(path, y), p, y) /\ Len(Append(path, y)) = Len(path) + 1
<1> DEFINE on == Append(path, y)
<1>1. /\ path \in Seq(AllPorts) /\ Len(path) \in Nat /\ Len(path) >= 1
      /\ path[1] = p /\ path[Len(path)] = x
      /\ \A i \in 1 .. Len(path) - 1 : Wire(path[i], path[i + 1])
  BY DEF IsWalk
<1>2. /\ on \in Seq(AllPorts) /\ Len(on) = Len(path) + 1
      /\ \A i \in 1 .. Len(path) : on[i] = path[i]
      /\ on[Len(path) + 1] = y
  BY <1>1, AppendPlaces
<1> HIDE DEF on
<1>3. ASSUME NEW i \in 1 .. Len(path) PROVE Wire(on[i], on[i + 1])
  <2>1. CASE i = Len(path)
    BY <1>1, <1>2, <2>1
  <2>2. CASE i < Len(path)
    <3>1. i \in 1 .. Len(path) - 1 /\ on[i] = path[i] /\ on[i + 1] = path[i + 1]
      BY <1>1, <1>2, <2>2
    <3> QED
      BY <1>1, <3>1
  <2> QED
    BY <1>1, <2>1, <2>2
<1>4. IsWalk(on, p, y)
  BY <1>1, <1>2, <1>3 DEF IsWalk
<1> QED
  BY <1>2, <1>4 DEF on

\* Where a walk ends is within reach, in the steps it has.
LEMMA WalkEnds ==
  ASSUME Sound, NEW p \in AllPorts, NEW path, NEW q, IsWalk(path, p, q)
  PROVE  /\ Len(path) - 1 \in Nat
         /\ q \in Within(p, Len(path) - 1)
         /\ q \in AllPorts
         /\ path # NoPath
<1>1. /\ path \in Seq(AllPorts) /\ Len(path) \in Nat /\ Len(path) >= 1
      /\ path[1] = p /\ path[Len(path)] = q
      /\ \A i \in 1 .. Len(path) - 1 : Wire(path[i], path[i + 1])
      /\ \A i \in 1 .. Len(path) : path[i] \in AllPorts
  BY DEF IsWalk
<1> DEFINE P == {i \in Nat : i < Len(path) => path[i + 1] \in Within(p, i)}
<1>2. 0 \in P
  BY <1>1, WithinSpreads
<1>3. ASSUME NEW i \in Nat, i \in P PROVE i + 1 \in P
  <2> SUFFICES ASSUME i + 1 < Len(path) PROVE path[i + 2] \in Within(p, i + 1)
    BY <1>1
  <2>1. path[i + 1] \in Within(p, i)
    BY <1>1, <1>3
  <2>2. i + 1 \in 1 .. Len(path) - 1 /\ i + 2 \in 1 .. Len(path) /\ (i + 1) + 1 = i + 2
    BY <1>1
  <2>3. Wire(path[i + 1], path[i + 2]) /\ path[i + 2] \in AllPorts
    BY <1>1, <2>2
  <2> QED
    BY <2>1, <2>3, WithinSpreads
<1>4. \A i \in Nat : i \in P
  <2> HIDE DEF P
  <2> QED
    BY <1>2, <1>3, SetInduction
<1>5. Len(path) - 1 \in Nat /\ (Len(path) - 1) + 1 = Len(path)
  BY <1>1
<1>6. q \in Within(p, Len(path) - 1)
  BY <1>1, <1>4, <1>5
<1>7. path # NoPath
  <2>1. Len(NoPath) = 0
    BY DEF NoPath
  <2> QED
    BY <1>1, <2>1
<1> QED
  BY <1>1, <1>5, <1>6, <1>7

\* The shortest walk.
LEMMA WalkStarts ==
  ASSUME NEW p \in AllPorts
  PROVE  IsWalk(<<p>>, p, p) /\ Len(<<p>>) = 1
<1> DEFINE w == <<p>>
<1>1. w \in Seq(AllPorts) /\ Len(w) = 1 /\ w[1] = p
  OBVIOUS
<1> HIDE DEF w
<1>2. IsWalk(w, p, p)
  BY <1>1 DEF IsWalk
<1> QED
  BY <1>1, <1>2 DEF w

-----------------------------------------------------------------------------
(* The breadth first search                                                *)

Lefts(S) == [queue : Seq(Seq(S)), visited : SUBSET S, found : Seq(S)]

\* A path of n ports to x is queued.
Waits(left, x, n) ==
  \E i \in 1 .. Len(left.queue) : Len(left.queue[i]) = n /\ Last1(left.queue[i]) = x

\* The search has visited all ports d steps away and none that is more than
\* a step further; the paths to the ports whose neighbors it has not looked
\* at are queued, the shorter ones first.  Of x the neighbors in rest are
\* still to be looked at.
Explored(left, p, q, d, x, rest) ==
  /\ left \in Lefts(AllPorts) /\ left.found = NoPath /\ q \notin left.visited
  /\ \A i \in 1 .. Len(left.queue) :
       /\ IsWalk(left.queue[i], p, Last1(left.queue[i]))
       /\ Len(left.queue[i]) \in {d + 1, d + 2}
  /\ \A i, j \in 1 .. Len(left.queue) : i < j => Len(left.queue[i]) <= Len(left.queue[j])
  /\ Within(p, d) \subseteq left.visited /\ left.visited \subseteq Within(p, d + 1)
  /\ \A z \in Within(p, d), y \in AllPorts :
       Wire(z, y) => y \in left.visited \/ Waits(left, z, d + 1) \/ (z = x /\ y \in rest)
  /\ \A z \in left.visited \ Within(p, d) : Waits(left, z, d + 2)

\* The search has found a walk to q, and none is shorter.
Reached(left, p, q) ==
  /\ left \in Lefts(AllPorts)
  /\ IsWalk(left.found, p, q) /\ Len(left.found) >= 2
  /\ q \notin Within(p, Len(left.found) - 2)

\* One of the two; of the ports visited all but c are queued.
Searching(left, p, q, d, x, rest, c) ==
  \/ Reached(left, p, q)
  \/ Explored(left, p, q, d, x, rest) /\ Len(left.queue) + c = Cardinality(left.visited)

\* Looking at one more neighbor.
LEMMA LookExplores ==
  ASSUME RoutingAssumption, Sound, NEW p \in AllPorts, NEW q \in AllPorts, NEW d \in Nat,
         NEW x \in Within(p, d), NEW path, IsWalk(path, p, x), Len(path) = d + 1,
         NEW y \in AllPorts, y = x \/ Wire(x, y),
         NEW more, NEW rest, more \subseteq rest \cup {y}, NEW c \in Nat,
         NEW left, NEW after, after = Look(path, y, q, left),
         Searching(left, p, q, d, x, more, c)
  PROVE  Searching(after, p, q, d, x, rest, c)
<1>1. CASE Reached(left, p, q)
  <2>1. left.found # NoPath
    BY <1>1, WalkEnds DEF Reached
  <2>2. after = left
    BY <2>1 DEF Look
  <2> QED
    BY <1>1, <2>2 DEF Searching
<1>2. ASSUME Explored(left, p, q, d, x, more), Len(left.queue) + c = Cardinality(left.visited)
      PROVE  Searching(after, p, q, d, x, rest, c)
  <2>1. /\ left \in Lefts(AllPorts) /\ left.found = NoPath /\ q \notin left.visited
        /\ Within(p, d) \subseteq left.visited /\ left.visited \subseteq Within(p, d + 1)
    BY <1>2 DEF Explored
  <2>2. Last1(path) = x
    BY DEF IsWalk, Last1
  <2>3. CASE y \in left.visited
    <3>1. after = left
      BY <2>3 DEF Look
    <3>2. \A z \in Within(p, d), v \in AllPorts :
            Wire(z, v) => v \in left.visited \/ Waits(left, z, d + 1) \/ (z = x /\ v \in rest)
      BY <1>2, <2>3 DEF Explored
    <3>3. Explored(left, p, q, d, x, rest)
      BY <1>2, <3>2 DEF Explored
    <3> QED
      BY <1>2, <3>1, <3>3 DEF Searching
  <2>4. ASSUME y \notin left.visited PROVE y # x /\ Wire(x, y)
    BY <2>1, <2>4
  <2>5. CASE y \notin left.visited /\ y = q
    <3>1. after = [left EXCEPT !.found = Append(path, q)]
      BY <2>1, <2>2, <2>4, <2>5 DEF Look
    <3>2. IsWalk(Append(path, q), p, q) /\ Len(Append(path, q)) = d + 2
      BY <2>4, <2>5, WalkOn
    <3>3. Append(path, q) \in Seq(AllPorts)
      BY <3>2 DEF IsWalk
    <3>4. after \in Lefts(AllPorts) /\ after.found = Append(path, q)
      BY <2>1, <3>1, <3>3 DEF Lefts
    <3>5. q \notin Within(p, d)
      BY <2>1
    <3>6. (d + 2) - 2 = d /\ d + 2 >= 2
      OBVIOUS
    <3> QED
      BY <3>2, <3>4, <3>5, <3>6 DEF Searching, Reached
  <2>6. CASE y \notin left.visited /\ y # q
    <3> DEFINE new == Append(path, y)
               queue == Append(left.queue, new)
    <3>1. after = [left EXCEPT !.queue = queue, !.visited = @ \cup {y}]
      BY <2>1, <2>2, <2>4, <2>6 DEF Look
    <3>2. IsWalk(new, p, y) /\ Len(new) = d + 2
      BY <2>4, <2>6, WalkOn
    <3>3. new \in Seq(AllPorts) /\ Last1(new) = y
      BY <3>2 DEF IsWalk, Last1
    <3>4. left.queue \in Seq(Seq(AllPorts)) /\ Len(left.queue) \in Nat
      BY <2>1 DEF Lefts
    <3> HIDE DEF new
    <3>5. /\ queue \in Seq(Seq(AllPorts)) /\ Len(queue) = Len(left.queue) + 1
          /\ \A i \in 1 .. Len(left.queue) : queue[i] = left.queue[i]
          /\ queue[Len(left.queue) + 1] = new
      BY <3>3, <3>4, AppendPlaces
    <3> HIDE DEF queue
    <3>6. /\ after \in Lefts(AllPorts) /\ after.found = NoPath
          /\ after.queue = queue /\ after.visited = left.visited \cup {y}
      <4>1. /\ left = [queue |-> left.queue, visited |-> left.visited, found |-> left.found]
            /\ left.visited \subseteq AllPorts /\ left.found \in Seq(AllPorts)
        BY <2>1 DEF Lefts
      <4>2. after = [queue |-> queue, visited |-> left.visited \cup {y}, found |-> left.found]
        BY <3>1, <4>1
      <4>3. after \in Lefts(AllPorts)
        BY <3>5, <4>1, <4>2 DEF Lefts
      <4> QED
        BY <2>1, <4>2, <4>3
    <3>7. q \notin after.visited
      BY <2>1, <2>6, <3>6
    <3>8. \A i \in 1 .. Len(queue) :
            \/ i \in 1 .. Len(left.queue) /\ queue[i] = left.queue[i]
            \/ i = Len(left.queue) + 1 /\ queue[i] = new
      BY <3>4, <3>5, SMTT(30)
    <3>9. \A i \in 1 .. Len(queue) :
            /\ IsWalk(queue[i], p, Last1(queue[i]))
            /\ Len(queue[i]) \in {d + 1, d + 2}
      BY <1>2, <3>2, <3>3, <3>8 DEF Explored
    <3>10. ASSUME NEW i \in 1 .. Len(queue), NEW j \in 1 .. Len(queue), i < j
           PROVE  Len(queue[i]) <= Len(queue[j])
      <4>1. CASE j \in 1 .. Len(left.queue)
        <5>1. i \in 1 .. Len(left.queue)
          BY <3>4, <3>10, <4>1
        <5> QED
          BY <1>2, <3>5, <3>10, <4>1, <5>1 DEF Explored
      <4>2. CASE j = Len(left.queue) + 1
        <5>1. Len(queue[j]) = d + 2
          BY <3>2, <3>5, <4>2
        <5> QED
          BY <3>9, <5>1, SMTT(30)
      <4> QED
        BY <3>8, <4>1, <4>2
    <3>11. Within(p, d) \subseteq after.visited /\ after.visited \subseteq Within(p, d + 1)
      BY <2>1, <2>4, <2>6, <3>6, WithinSpreads
    <3>12. \A z, n : Waits(left, z, n) => Waits(after, z, n)
      <4> SUFFICES ASSUME NEW z, NEW n, Waits(left, z, n) PROVE Waits(after, z, n)
        OBVIOUS
      <4>1. PICK i \in 1 .. Len(left.queue) :
                   Len(left.queue[i]) = n /\ Last1(left.queue[i]) = z
        BY DEF Waits
      <4>2. i \in 1 .. Len(queue) /\ queue[i] = left.queue[i]
        BY <3>4, <3>5
      <4> QED
        BY <3>6, <4>1, <4>2 DEF Waits
    <3>13. Waits(after, y, d + 2)
      <4>1. Len(left.queue) + 1 \in 1 .. Len(queue)
        BY <3>4, <3>5
      <4> QED
        BY <3>2, <3>3, <3>5, <3>6, <4>1 DEF Waits
    <3>14. \A z \in Within(p, d), v \in AllPorts :
             Wire(z, v) => v \in after.visited \/ Waits(after, z, d + 1) \/ (z = x /\ v \in rest)
      BY <1>2, <3>6, <3>12 DEF Explored
    <3>15. \A z \in after.visited \ Within(p, d) : Waits(after, z, d + 2)
      BY <1>2, <3>6, <3>12, <3>13 DEF Explored
    <3>16. Explored(after, p, q, d, x, rest)
      BY <3>6, <3>7, <3>9, <3>10, <3>11, <3>14, <3>15 DEF Explored
    <3>17. Len(after.queue) + c = Cardinality(after.visited)
      <4>1. IsFiniteSet(left.visited)
        <5>1. left.visited \subseteq AllPorts
          BY <2>1 DEF Lefts
        <5> QED
          BY <5>1, PortsOfTopology, FS_Subset
      <4>2. /\ Cardinality(left.visited) \in Nat
            /\ Cardinality(left.visited \cup {y}) = Cardinality(left.visited) + 1
        BY <2>6, <4>1, FS_CardinalityType, FS_AddElement
      <4> QED
        <5>1. /\ Len(left.queue) + c = Cardinality(left.visited)
              /\ Len(after.queue) = Len(left.queue) + 1
              /\ Cardinality(after.visited) = Cardinality(left.visited) + 1
          BY <1>2, <3>5, <3>6, <4>2
        <5> QED
          BY <3>4, <5>1
    <3> QED
      BY <3>16, <3>17 DEF Searching
  <2> QED
    BY <2>3, <2>5, <2>6
<1> QED
  BY <1>1, <1>2 DEF Searching

\* Looking at all the neighbors of the port at the end of a path.
LEMMA ExtendExplores ==
  ASSUME RoutingAssumption, Sound, NEW p \in AllPorts, NEW q \in AllPorts, NEW d \in Nat,
         NEW x \in Within(p, d), NEW path, IsWalk(path, p, x), Len(path) = d + 1, NEW c \in Nat,
         NEW left, Explored(left, p, q, d, x, AllPorts),
         Len(left.queue) + c = Cardinality(left.visited)
  PROVE  Searching(Extend(path, q, left), p, q, d, x, {}, c)
<1> DEFINE neighbors == L2Neighbors(Last1(path))
           A == AllPorts \cup {neighbors[i] : i \in Nat}
           step == [n \in Nat |-> [l \in Lefts(A) |-> Look(path, neighbors[n + 1], q, l)]]
           Loop(g) == g = [i \in Nat |-> IF i = 0 THEN left
                                         ELSE Look(path, neighbors[i], q, g[i - 1])]
           looked == CHOOSE g : Loop(g)
<1>1. /\ x \in AllPorts /\ Last1(path) = x /\ path \in Seq(AllPorts)
  BY WalkEnds DEF IsWalk, Last1
<1>2. /\ neighbors \in Seq(AllPorts)
      /\ \A y \in AllPorts \ {x} : Wire(x, y) <=> \E i \in 1 .. Len(neighbors) : neighbors[i] = y
  BY <1>1, NeighborsAreWired
<1>3. left \in Lefts(A)
  <2>1. left \in Lefts(AllPorts)
    BY DEF Explored
  <2>2. /\ left.queue \in Seq(Seq(A)) /\ left.visited \subseteq A /\ left.found \in Seq(A)
        /\ left = [queue |-> left.queue, visited |-> left.visited, found |-> left.found]
    <3> HIDE DEF neighbors
    <3>1. AllPorts \subseteq A
      OBVIOUS
    <3> HIDE DEF A
    <3>2. Seq(AllPorts) \subseteq Seq(A)
      BY <3>1
    <3>3. Seq(Seq(AllPorts)) \subseteq Seq(Seq(A))
      BY <3>2
    <3> QED
      BY <2>1, <3>1, <3>2, <3>3 DEF Lefts
  <2> HIDE DEF A
  <2> QED
    BY <2>2 DEF Lefts
<1>4. step \in [Nat -> [Lefts(A) -> Lefts(A)]]
  <2>1. ASSUME NEW n \in Nat, NEW l \in Lefts(A)
        PROVE  Look(path, neighbors[n + 1], q, l) \in Lefts(A)
    <3> DEFINE y == neighbors[n + 1]
    <3>1. y \in A /\ q \in A
      OBVIOUS
    <3>2. path \in Seq(A)
      <4> HIDE DEF neighbors
      <4>1. AllPorts \subseteq A
        OBVIOUS
      <4> HIDE DEF A
      <4> QED
        BY <1>1, <4>1
    <3> HIDE DEF A, y, neighbors
    <3>3. /\ l = [queue |-> l.queue, visited |-> l.visited, found |-> l.found]
          /\ l.queue \in Seq(Seq(A)) /\ l.visited \subseteq A /\ l.found \in Seq(A)
      BY DEF Lefts
    <3>4. Append(path, q) \in Seq(A) /\ Append(path, y) \in Seq(A)
      BY <3>1, <3>2
    <3>5. Append(l.queue, Append(path, y)) \in Seq(Seq(A))
      BY <3>3, <3>4
    <3>6. Look(path, y, q, l) \in
            {l, [queue |-> l.queue, visited |-> l.visited, found |-> Append(path, y)],
             [queue |-> Append(l.queue, Append(path, y)), visited |-> l.visited \cup {y},
              found |-> l.found]}
      BY <3>3 DEF Look
    <3>7. [queue |-> l.queue, visited |-> l.visited, found |-> Append(path, y)] \in Lefts(A)
      BY <3>3, <3>4 DEF Lefts
    <3>8. [queue |-> Append(l.queue, Append(path, y)), visited |-> l.visited \cup {y},
           found |-> l.found] \in Lefts(A)
      <4>1. l.visited \cup {y} \subseteq A
        BY <3>1, <3>3 DEF y
      <4> QED
        BY <3>3, <3>5, <4>1 DEF Lefts
    <3>9. Look(path, y, q, l) \in Lefts(A)
      BY <3>6, <3>7, <3>8
    <3> QED
      BY <3>9 DEF y
  <2> HIDE DEF A, neighbors
  <2> QED
    BY <2>1
<1>5. PICK f \in [Nat -> Lefts(A)] : IsLoop(f, left, step)
  <2> HIDE DEF A, step
  <2> QED
    BY <1>3, <1>4, LoopComputes
<1>6. f[0] = left /\ \A n \in Nat : f[n + 1] = Look(path, neighbors[n + 1], q, f[n])
  <2> HIDE DEF A, neighbors
  <2> QED
    BY <1>5 DEF IsLoop
<1>7. Loop(f)
  <2> HIDE DEF A, neighbors, step
  <2>1. ASSUME NEW i \in Nat
        PROVE  f[i] = IF i = 0 THEN left ELSE Look(path, neighbors[i], q, f[i - 1])
    <3>1. CASE i = 0
      BY <1>6, <3>1
    <3>2. CASE i # 0
      <4>1. i - 1 \in Nat /\ (i - 1) + 1 = i
        BY <3>2
      <4> QED
        BY <1>6, <3>2, <4>1
    <3> QED
      BY <3>1, <3>2
  <2>2. f = [i \in Nat |-> f[i]]
    BY <1>5
  <2> QED
    BY <2>1, <2>2
<1>8. Loop(looked)
  <2> HIDE DEF Loop
  <2> QED
    BY <1>7
<1>9. Extend(path, q, left) = looked[Len(neighbors)]
  BY DEF Extend
<1>10. looked[0] = left /\ \A n \in Nat : looked[n + 1] = Look(path, neighbors[n + 1], q, looked[n])
  <2> HIDE DEF looked, neighbors
  <2>1. looked[0] = left
    BY <1>8
  <2>2. ASSUME NEW n \in Nat PROVE looked[n + 1] = Look(path, neighbors[n + 1], q, looked[n])
    <3>1. n + 1 \in Nat /\ n + 1 # 0 /\ (n + 1) - 1 = n
      OBVIOUS
    <3> QED
      BY <1>8, <3>1
  <2> QED
    BY <2>1, <2>2
<1> HIDE DEF looked, neighbors, Loop, A, step
<1> DEFINE rest(i) == {neighbors[j] : j \in i + 1 .. Len(neighbors)}
           P == {i \in Nat : i <= Len(neighbors) =>
                               Searching(looked[i], p, q, d, x, rest(i), c)}
<1>11. Len(neighbors) \in Nat /\ \A i \in 1 .. Len(neighbors) : neighbors[i] \in AllPorts
  BY <1>2
<1>12. 0 \in P
  <2>1. \A y \in AllPorts : Wire(x, y) => y \in rest(0)
    <3>1. \A y \in AllPorts : Wire(x, y) => y # x
      BY DEF Wire
    <3>2. 0 + 1 = 1
      OBVIOUS
    <3> QED
      BY <1>2, <3>1, <3>2
  <2>2. \A z \in Within(p, d), y \in AllPorts :
          Wire(z, y) => y \in left.visited \/ Waits(left, z, d + 1) \/ (z = x /\ y \in rest(0))
    <3> HIDE DEF rest
    <3> QED
      BY <2>1 DEF Explored
  <2>3. Explored(left, p, q, d, x, rest(0))
    <3> HIDE DEF rest
    <3> QED
      BY <2>2 DEF Explored
  <2> QED
    BY <1>10, <2>3 DEF Searching
<1>13. ASSUME NEW i \in Nat, i \in P PROVE i + 1 \in P
  <2> SUFFICES ASSUME i + 1 <= Len(neighbors)
               PROVE  Searching(looked[i + 1], p, q, d, x, rest(i + 1), c)
    OBVIOUS
  <2> DEFINE y == neighbors[i + 1]
             after == looked[i + 1]
  <2>1. Searching(looked[i], p, q, d, x, rest(i), c)
    BY <1>11, <1>13
  <2>2. i + 1 \in 1 .. Len(neighbors) /\ y \in AllPorts
    BY <1>11
  <2>3. y = x \/ Wire(x, y)
    BY <1>2, <2>2
  <2>4. rest(i) \subseteq rest(i + 1) \cup {y}
    <3>1. \A j \in i + 1 .. Len(neighbors) : j = i + 1 \/ j \in (i + 1) + 1 .. Len(neighbors)
      BY <1>11
    <3> QED
      BY <3>1
  <2>5. after = Look(path, y, q, looked[i])
    BY <1>10
  <2> HIDE DEF y, rest, after
  <2>6. Searching(after, p, q, d, x, rest(i + 1), c)
    BY <2>1, <2>2, <2>3, <2>4, <2>5, LookExplores
  <2> QED
    BY <2>6 DEF after
<1>14. \A i \in Nat : i \in P
  <2> HIDE DEF P
  <2> QED
    BY <1>12, <1>13, SetInduction
<1>15. Searching(looked[Len(neighbors)], p, q, d, x, rest(Len(neighbors)), c)
  <2> HIDE DEF rest
  <2> QED
    BY <1>11, <1>14
<1>16. rest(Len(neighbors)) = {}
  <2>1. Len(neighbors) + 1 .. Len(neighbors) = {}
    BY <1>11
  <2> QED
    BY <2>1
<1> HIDE DEF rest
<1> QED
  BY <1>9, <1>15, <1>16

\* When no path of d + 1 ports is left, all ports d + 1 steps away are visited.
LEMMA NextDistance ==
  ASSUME RoutingAssumption, Sound, NEW p \in AllPorts, NEW q, NEW d \in Nat, NEW left,
         Explored(left, p, q, d, p, {}),
         \A i \in 1 .. Len(left.queue) : Len(left.queue[i]) = d + 2
  PROVE  Explored(left, p, q, d + 1, p, {})
<1>1. /\ left \in Lefts(AllPorts) /\ left.found = NoPath /\ q \notin left.visited
      /\ \A i \in 1 .. Len(left.queue) : IsWalk(left.queue[i], p, Last1(left.queue[i]))
      /\ \A i, j \in 1 .. Len(left.queue) : i < j => Len(left.queue[i]) <= Len(left.queue[j])
      /\ Within(p, d) \subseteq left.visited /\ left.visited \subseteq Within(p, d + 1)
      /\ \A z \in left.visited \ Within(p, d) : Waits(left, z, d + 2)
  BY DEF Explored
<1>2. \A z : ~Waits(left, z, d + 1)
  BY DEF Waits
<1>3. \A z \in Within(p, d), y \in AllPorts : Wire(z, y) => y \in left.visited
  BY <1>2 DEF Explored
<1>4. Within(p, d + 1) = left.visited
  <2>1. \A y \in Within(p, d + 1) :
          y \in Within(p, d) \/ \E z \in Within(p, d) : Wire(z, y)
    BY WithinSpreads
  <2>2. Within(p, d + 1) \subseteq AllPorts
    BY WithinStarts
  <2> QED
    BY <1>1, <1>3, <2>1, <2>2
<1>5. d + 1 \in Nat /\ (d + 1) + 1 = d + 2
  OBVIOUS
<1>6. left.visited \subseteq Within(p, (d + 1) + 1)
  <2>1. d + 1 \in 0 .. d + 2 /\ d + 2 \in Nat
    OBVIOUS
  <2>2. Within(p, d + 1) \subseteq Within(p, d + 2)
    BY <2>1, WithinGrows
  <2> QED
    BY <1>4, <1>5, <2>2
<1>7. \A i \in 1 .. Len(left.queue) : Len(left.queue[i]) \in {(d + 1) + 1, (d + 1) + 2}
  BY <1>5
<1>8. \A z \in Within(p, d + 1), y \in AllPorts :
        Wire(z, y) => y \in left.visited \/ Waits(left, z, (d + 1) + 1) \/ (z = p /\ y \in {})
  BY <1>1, <1>3, <1>4, <1>5
<1>9. \A z \in left.visited \ Within(p, d + 1) : Waits(left, z, (d + 1) + 2)
  BY <1>4
<1> QED
  BY <1>1, <1>4, <1>6, <1>7, <1>8, <1>9 DEF Explored

\* The state of the search after k rounds.
Searched(left, p, q, k) ==
  \/ Reached(left, p, q)
  \/ \E d \in Nat :
       /\ Explored(left, p, q, d, p, {})
       /\ left.queue = <<>> \/ Len(left.queue) + k = Cardinality(left.visited)

\* A round of the search.
LEMMA SearchExplores ==
  ASSUME RoutingAssumption, Sound, NEW p \in AllPorts, NEW q \in AllPorts, NEW k \in Nat,
         NEW left, Searched(left, p, q, k)
  PROVE  Searched(Search(q, left), p, q, k + 1)
<1>1. CASE Reached(left, p, q)
  <2>1. left.found # NoPath
    BY <1>1, WalkEnds DEF Reached
  <2>2. Search(q, left) = left
    BY <2>1 DEF Search
  <2> QED
    BY <1>1, <2>2 DEF Searched
<1>2. ASSUME left.queue = <<>>, ~Reached(left, p, q)
      PROVE  Searched(Search(q, left), p, q, k + 1)
  <2>1. Search(q, left) = left
    BY <1>2 DEF Search
  <2> QED
    BY <1>2, <2>1 DEF Searched
<1>3. ASSUME left.queue # <<>>, ~Reached(left, p, q)
      PROVE  Searched(Search(q, left), p, q, k + 1)
  <2>1. PICK e \in Nat : Explored(left, p, q, e, p, {})
    BY <1>3 DEF Searched
  <2>2. Len(left.queue) + k = Cardinality(left.visited)
    BY <1>3 DEF Searched
  <2> DEFINE path == Head(left.queue)
             x == Last1(path)
             popped == [left EXCEPT !.queue = Tail(@)]
             m == Len(left.queue)
  <2>3. /\ left.queue \in Seq(Seq(AllPorts)) /\ left.found = NoPath
        /\ m \in Nat /\ m >= 1 /\ path = left.queue[1]
    <3>1. left.queue \in Seq(Seq(AllPorts)) /\ left.found = NoPath
      BY <2>1 DEF Explored, Lefts
    <3> QED
      BY <1>3, <3>1
  <2>4. PICK d \in Nat : Explored(left, p, q, d, p, {}) /\ Len(path) = d + 1
    <3>1. /\ \A i \in 1 .. m : Len(left.queue[i]) \in {e + 1, e + 2}
          /\ \A i, j \in 1 .. m : i < j => Len(left.queue[i]) <= Len(left.queue[j])
      BY <2>1 DEF Explored
    <3>2. CASE Len(path) = e + 1
      BY <2>1, <3>2
    <3>3. CASE Len(path) # e + 1
      <4>1. Len(left.queue[1]) = e + 2
        BY <2>3, <3>1, <3>3
      <4>2. \A i \in 1 .. m : Len(left.queue[i]) = e + 2
        <5>1. ASSUME NEW i \in 1 .. m PROVE Len(left.queue[i]) = e + 2
          <6>1. CASE i = 1
            BY <4>1, <6>1
          <6>2. CASE i # 1
            <7>1. Len(left.queue[1]) <= Len(left.queue[i])
              BY <2>3, <3>1, <6>2
            <7>2. Len(left.queue[i]) \in {e + 1, e + 2}
              BY <3>1
            <7> QED
              BY <4>1, <7>1, <7>2
          <6> QED
            BY <6>1, <6>2
        <5> QED
          BY <5>1
      <4>3. Explored(left, p, q, e + 1, p, {})
        BY <2>1, <4>2, NextDistance
      <4>4. e + 1 \in Nat /\ Len(path) = (e + 1) + 1
        BY <2>3, <4>1
      <4> QED
        BY <4>3, <4>4
    <3> QED
      BY <3>2, <3>3
  <2>5. IsWalk(path, p, x)
    BY <2>3, <2>4 DEF Explored
  <2>6. x \in Within(p, d)
    <3>1. Len(path) - 1 = d
      BY <2>4
    <3> HIDE DEF path, x
    <3> QED
      BY <2>5, <3>1, WalkEnds
  <2>7. /\ popped \in Lefts(AllPorts) /\ popped.found = NoPath
        /\ popped.visited = left.visited
        /\ Len(popped.queue) = m - 1
        /\ \A i \in 1 .. m - 1 : popped.queue[i] = left.queue[i + 1]
    <3>1. /\ left = [queue |-> left.queue, visited |-> left.visited, found |-> left.found]
          /\ left.visited \subseteq AllPorts /\ left.found \in Seq(AllPorts)
      BY <2>1 DEF Explored, Lefts
    <3>2. popped = [queue |-> Tail(left.queue), visited |-> left.visited, found |-> left.found]
      <4> DEFINE tail == Tail(left.queue)
      <4>1. popped = [left EXCEPT !.queue = tail]
        OBVIOUS
      <4> HIDE DEF tail, popped
      <4>2. popped = [queue |-> tail, visited |-> left.visited, found |-> left.found]
        BY <3>1, <4>1
      <4> QED
        BY <4>2 DEF tail
    <3>3. Tail(left.queue) \in Seq(Seq(AllPorts)) /\ Len(Tail(left.queue)) = m - 1
      BY <1>3, <2>3
    <3>4. \A i \in 1 .. m - 1 : Tail(left.queue)[i] = left.queue[i + 1]
      BY <1>3, <2>3
    <3>5. popped \in Lefts(AllPorts)
      BY <3>1, <3>2, <3>3 DEF Lefts
    <3> QED
      BY <2>3, <3>2, <3>3, <3>4, <3>5
  <2> HIDE DEF popped
  <2>8. Explored(popped, p, q, d, x, AllPorts)
    <3>1. q \notin popped.visited
      BY <2>4, <2>7 DEF Explored
    <3>2. \A i \in 1 .. m - 1 : i + 1 \in 1 .. m
      BY <2>3
    <3>3. \A i \in 1 .. m - 1 :
            /\ IsWalk(popped.queue[i], p, Last1(popped.queue[i]))
            /\ Len(popped.queue[i]) \in {d + 1, d + 2}
      BY <2>4, <2>7, <3>2 DEF Explored
    <3>4. ASSUME NEW i \in 1 .. m - 1, NEW j \in 1 .. m - 1, i < j
          PROVE  Len(popped.queue[i]) <= Len(popped.queue[j])
      <4>1. i + 1 \in 1 .. m /\ j + 1 \in 1 .. m /\ i + 1 < j + 1
        <5> HIDE DEF m
        <5> QED
          BY <2>3, <3>4
      <4>2. Len(left.queue[i + 1]) <= Len(left.queue[j + 1])
        BY <2>4, <4>1 DEF Explored
      <4> QED
        BY <2>7, <4>2
    <3>5. Within(p, d) \subseteq popped.visited /\ popped.visited \subseteq Within(p, d + 1)
      BY <2>4, <2>7 DEF Explored
    <3>6. ASSUME NEW z, NEW n, Waits(left, z, n), n # d + 1 \/ z # x
          PROVE  Waits(popped, z, n)
      <4>1. PICK i \in 1 .. m : Len(left.queue[i]) = n /\ Last1(left.queue[i]) = z
        BY <3>6 DEF Waits
      <4>2. i # 1
        BY <2>3, <2>4, <3>6, <4>1
      <4>3. i - 1 \in 1 .. m - 1 /\ (i - 1) + 1 = i
        BY <2>3, <4>2
      <4>4. popped.queue[i - 1] = left.queue[i]
        BY <2>7, <4>3
      <4> QED
        BY <2>7, <4>1, <4>3, <4>4 DEF Waits
    <3>7. ASSUME NEW z \in Within(p, d), NEW y \in AllPorts, Wire(z, y), y \notin popped.visited
          PROVE  Waits(popped, z, d + 1) \/ (z = x /\ y \in AllPorts)
      <4>1. Waits(left, z, d + 1)
        BY <2>4, <2>7, <3>7 DEF Explored
      <4> QED
        BY <3>6, <4>1
    <3>8. ASSUME NEW z \in popped.visited \ Within(p, d) PROVE Waits(popped, z, d + 2)
      <4>1. Waits(left, z, d + 2)
        BY <2>4, <2>7 DEF Explored
      <4>2. d + 2 # d + 1
        OBVIOUS
      <4> QED
        BY <3>6, <4>1, <4>2
    <3> HIDE DEF x, path, m
    <3> QED
      BY <2>7, <3>1, <3>3, <3>4, <3>5, <3>7, <3>8 DEF Explored
  <2>9. Len(popped.queue) + (k + 1) = Cardinality(popped.visited)
    <3>1. /\ m + k = Cardinality(left.visited) /\ Len(popped.queue) = m - 1
          /\ popped.visited = left.visited
      BY <2>2, <2>7
    <3> HIDE DEF m
    <3> QED
      BY <2>3, <3>1
  <2>10. Search(q, left) = Extend(path, q, popped)
    BY <1>3, <2>3 DEF Search, popped
  <2> HIDE DEF path, x, m
  <2>11. k + 1 \in Nat
    OBVIOUS
  <2>12. Searching(Extend(path, q, popped), p, q, d, x, {}, k + 1)
    BY <2>4, <2>5, <2>6, <2>8, <2>9, <2>11, ExtendExplores
  <2>13. ASSUME NEW l, Explored(l, p, q, d, x, {}) PROVE Explored(l, p, q, d, p, {})
    BY <2>13 DEF Explored
  <2> QED
    BY <2>10, <2>12, <2>13 DEF Searching, Searched
<1> QED
  BY <1>1, <1>2, <1>3

\* The search starts with the path of one port.
LEMMA SearchStarts ==
  ASSUME RoutingAssumption, Sound, NEW p \in AllPorts, NEW q \in AllPorts, p # q,
         NEW start, start = [queue |-> << <<p>> >>, visited |-> {p}, found |-> NoPath]
  PROVE  Searched(start, p, q, 0)
<1> DEFINE walk == <<p>>
           queue == <<walk>>
<1>1. IsWalk(walk, p, p) /\ Len(walk) = 1 /\ walk \in Seq(AllPorts) /\ Last1(walk) = p
  BY WalkStarts DEF IsWalk, Last1
<1>2. start = [queue |-> queue, visited |-> {p}, found |-> NoPath]
  OBVIOUS
<1> HIDE DEF walk
<1>3. queue \in Seq(Seq(AllPorts)) /\ Len(queue) = 1 /\ queue[1] = walk
  BY <1>1
<1>4. NoPath \in Seq(AllPorts)
  BY DEF NoPath
<1> HIDE DEF queue
<1>5. /\ start.queue = queue /\ start.visited = {p} /\ start.found = NoPath
      /\ start \in Lefts(AllPorts)
  BY <1>2, <1>3, <1>4 DEF Lefts
<1>6. Within(p, 0) = {p} /\ Within(p, 0) \subseteq Within(p, 0 + 1)
  <2>1. 0 \in 0 .. 1
    OBVIOUS
  <2> QED
    BY <2>1, WithinStarts, WithinGrows
<1>7. Len(start.queue) = 1 /\ start.queue[1] = walk
  BY <1>3, <1>5
<1>8. Waits(start, p, 0 + 1)
  BY <1>1, <1>7 DEF Waits
<1>9. \A i \in 1 .. Len(start.queue) : i = 1
  BY <1>7
<1>10. \A i \in 1 .. Len(start.queue) :
         /\ IsWalk(start.queue[i], p, Last1(start.queue[i]))
         /\ Len(start.queue[i]) \in {0 + 1, 0 + 2}
  BY <1>1, <1>7, <1>9
<1>11. \A i, j \in 1 .. Len(start.queue) : i < j => Len(start.queue[i]) <= Len(start.queue[j])
  BY <1>9
<1>12. /\ q \notin start.visited
       /\ \A z \in start.visited \ Within(p, 0) : Waits(start, z, 0 + 2)
       /\ \A z \in Within(p, 0), y \in AllPorts :
            Wire(z, y) => y \in start.visited \/ Waits(start, z, 0 + 1) \/ (z = p /\ y \in {})
  BY <1>5, <1>6, <1>8
<1>13. Explored(start, p, q, 0, p, {})
  BY <1>5, <1>6, <1>10, <1>11, <1>12 DEF Explored
<1>14. Len(start.queue) + 0 = Cardinality(start.visited)
  <2>1. Cardinality({p}) = 1
    BY FS_Singleton
  <2> QED
    BY <1>5, <1>7, <2>1
<1> QED
  BY <1>13, <1>14 DEF Searched

\* What the search for another port comes to.
LEMMA SearchEnds ==
  ASSUME RoutingAssumption, Sound, NEW p \in AllPorts, NEW q \in AllPorts, p # q
  PROVE  \E left : /\ L2Path(p, q) = left.found
                   /\ Searched(left, p, q, Cardinality(AllPorts))
<1> DEFINE start == [queue |-> << <<p>> >>, visited |-> {p}, found |-> NoPath]
           X == {l \in Lefts(AllPorts) : \E k \in Nat : Searched(l, p, q, k)}
           step == [n \in Nat |-> [l \in X |-> Search(q, l)]]
           Loop(g) == g = [k \in Nat |-> IF k = 0 THEN start ELSE Search(q, g[k - 1])]
           left == CHOOSE g : Loop(g)
           N == Cardinality(AllPorts)
<1>1. \A l, k : Searched(l, p, q, k) => l \in Lefts(AllPorts)
  BY DEF Searched, Explored, Reached
<1>2. Searched(start, p, q, 0)
  BY SearchStarts
<1> HIDE DEF start
<1>3. start \in X
  BY <1>1, <1>2
<1>4. step \in [Nat -> [X -> X]]
  <2>1. ASSUME NEW l \in X PROVE Search(q, l) \in X
    <3>1. PICK k \in Nat : Searched(l, p, q, k)
      OBVIOUS
    <3>2. Searched(Search(q, l), p, q, k + 1) /\ k + 1 \in Nat
      BY <3>1, SearchExplores
    <3> QED
      BY <1>1, <3>2
  <2> HIDE DEF X
  <2> QED
    BY <2>1
<1>5. PICK f \in [Nat -> X] : IsLoop(f, start, step)
  <2> HIDE DEF X, step
  <2> QED
    BY <1>3, <1>4, LoopComputes
<1> HIDE DEF X
<1>6. f[0] = start /\ \A n \in Nat : f[n + 1] = Search(q, f[n])
  BY <1>5 DEF IsLoop
<1> HIDE DEF step
<1>7. Loop(f)
  <2>1. ASSUME NEW i \in Nat PROVE f[i] = IF i = 0 THEN start ELSE Search(q, f[i - 1])
    <3>1. CASE i = 0
      BY <1>6, <3>1
    <3>2. CASE i # 0
      <4>1. i - 1 \in Nat /\ (i - 1) + 1 = i
        BY <3>2
      <4> QED
        BY <1>6, <3>2, <4>1
    <3> QED
      BY <3>1, <3>2
  <2>2. f = [i \in Nat |-> f[i]]
    BY <1>5
  <2> QED
    BY <2>1, <2>2
<1>8. Loop(left)
  <2> HIDE DEF Loop
  <2> QED
    BY <1>7
<1>9. L2Path(p, q) = left[N].found
  BY DEF L2Path, AllPorts, start
<1>10. left[0] = start /\ \A n \in Nat : left[n + 1] = Search(q, left[n])
  <2> HIDE DEF left
  <2>1. left[0] = start
    BY <1>8
  <2>2. ASSUME NEW n \in Nat PROVE left[n + 1] = Search(q, left[n])
    <3>1. n + 1 \in Nat /\ n + 1 # 0 /\ (n + 1) - 1 = n
      OBVIOUS
    <3> QED
      BY <1>8, <3>1
  <2> QED
    BY <2>1, <2>2
<1> HIDE DEF left, Loop
<1> DEFINE P == {k \in Nat : Searched(left[k], p, q, k)}
<1>11. 0 \in P
  BY <1>2, <1>10
<1>12. \A k \in Nat : k \in P => k + 1 \in P
  BY <1>10, SearchExplores
<1>13. \A k \in Nat : k \in P
  <2> HIDE DEF P
  <2> QED
    BY <1>11, <1>12, SetInduction
<1>14. N \in Nat
  BY PortsOfTopology, FS_CardinalityType
<1> QED
  BY <1>9, <1>13, <1>14

\* _l2_path finds a walk, of the shortest length, or there is none.
LEMMA PathIsShortest ==
  ASSUME RoutingAssumption, Sound, NEW p \in AllPorts, NEW q \in AllPorts
  PROVE  \/ /\ L2Path(p, q) = NoPath
            /\ q \notin Segment(p)
         \/ /\ L2Path(p, q) # NoPath
            /\ q \in Segment(p)
            /\ IsWalk(L2Path(p, q), p, q)
            /\ q \in Within(p, Len(L2Path(p, q)) - 1)
            /\ Len(L2Path(p, q)) > 1 => q \notin Within(p, Len(L2Path(p, q)) - 2)
<1>1. ASSUME IsWalk(L2Path(p, q), p, q)
      PROVE  /\ L2Path(p, q) # NoPath /\ q \in Segment(p)
             /\ q \in Within(p, Len(L2Path(p, q)) - 1)
  BY <1>1, WalkEnds, WithinGrows
<1>2. CASE p = q
  <2>1. L2Path(p, q) = <<p>>
    BY <1>2 DEF L2Path
  <2>2. IsWalk(L2Path(p, q), p, q) /\ Len(L2Path(p, q)) = 1
    BY <1>2, <2>1, WalkStarts
  <2> QED
    BY <1>1, <2>2
<1>3. ASSUME p # q, NEW left, L2Path(p, q) = left.found, Reached(left, p, q)
      PROVE  /\ IsWalk(L2Path(p, q), p, q)
             /\ Len(L2Path(p, q)) > 1 => q \notin Within(p, Len(L2Path(p, q)) - 2)
  BY <1>3 DEF Reached
<1>4. ASSUME NEW left, L2Path(p, q) = left.found, NEW d \in Nat,
             Explored(left, p, q, d, p, {}),
             left.queue = <<>>
               \/ Len(left.queue) + Cardinality(AllPorts) = Cardinality(left.visited)
      PROVE  L2Path(p, q) = NoPath /\ q \notin Segment(p)
  <2>1. /\ left.queue \in Seq(Seq(AllPorts)) /\ left.visited \subseteq AllPorts
        /\ left.found = NoPath /\ q \notin left.visited
        /\ Within(p, d) \subseteq left.visited
    BY <1>4 DEF Explored, Lefts
  <2>2. Len(left.queue) = 0
    <3>1. IsFiniteSet(AllPorts) /\ left.visited \in SUBSET AllPorts
      BY <2>1, PortsOfTopology
    <3>2. /\ Cardinality(AllPorts) \in Nat /\ Cardinality(left.visited) \in Nat
          /\ Cardinality(left.visited) <= Cardinality(AllPorts)
      BY <3>1, FS_Subset, FS_CardinalityType
    <3>3. Len(<<>>) = 0 /\ Len(left.queue) \in Nat
      BY <2>1
    <3> QED
      BY <1>4, <3>2, <3>3
  <2>3. \A z, n : ~Waits(left, z, n)
    <3>1. 1 .. Len(left.queue) = {}
      BY <2>2
    <3> QED
      BY <3>1 DEF Waits
  <2>4. /\ \A z \in left.visited \ Within(p, d) : Waits(left, z, d + 2)
        /\ \A z \in Within(p, d), y \in AllPorts :
             Wire(z, y) => y \in left.visited \/ Waits(left, z, d + 1) \/ (z = p /\ y \in {})
    BY <1>4 DEF Explored
  <2>5. \A z \in left.visited, y \in AllPorts : Wire(z, y) => y \in left.visited
    BY <2>3, <2>4
  <2>6. p \in left.visited
    BY <2>1, WithinSpreads
  <2>7. \A k \in Nat : Within(p, k) \subseteq left.visited
    BY <2>5, <2>6, WithinClosed
  <2>8. Segment(p) \subseteq left.visited
    <3>1. Cardinality(AllPorts) \in Nat
      BY PortsOfTopology, FS_CardinalityType
    <3> QED
      BY <2>7, <3>1 DEF Segment, AllPorts
  <2> QED
    BY <1>4, <2>1, <2>8
<1>5. CASE p # q
  <2>1. PICK left : /\ L2Path(p, q) = left.found
                    /\ Searched(left, p, q, Cardinality(AllPorts))
    BY <1>5, SearchEnds
  <2>2. CASE Reached(left, p, q)
    BY <1>1, <1>3, <1>5, <2>1, <2>2
  <2>3. CASE ~Reached(left, p, q)
    BY <1>4, <2>1, <2>3 DEF Searched
  <2> QED
    BY <2>2, <2>3
<1> QED
  BY <1>2, <1>5

\* The layer 2 path is a shortest one, in every topology.
THEOREM ShortestPaths ==
  ASSUME RoutingAssumption
  PROVE  Spec => []L2PathIsShortest
<1>1. ASSUME Sound PROVE L2PathIsShortest
  <2>1. ASSUME NEW p \in AllPorts, NEW q \in AllPorts
        PROVE  LET path == L2Path(p, q) IN
               IF path = NoPath THEN q \notin Segment(p)
               ELSE /\ q \in Within(p, Len(path) - 1)
                    /\ Len(path) > 1 => q \notin Within(p, Len(path) - 2)
    BY <1>1, PathIsShortest
  <2> QED
    BY <2>1 DEF L2PathIsShortest, AllPorts
<1> QED
  BY <1>1, SoundAlways, PTL

-----------------------------------------------------------------------------
(* Hops                                                                    *)

Cabled(a, b) == \E c \in net.cables : {p.node : p \in c.ends} = {a, b}

\* Nodes from n to m, each with a cable to the next one.
IsRoute(hops, n, m) ==
  /\ hops \in Seq(net.nodes) /\ Len(hops) >= 1
  /\ hops[1] = n /\ hops[Len(hops)] = m
  /\ \A i \in 1 .. Len(hops) - 1 : Cabled(hops[i], hops[i + 1])

\* The same with nodes repeated side by side.
IsTrail(hops, n, m) ==
  /\ hops \in Seq(net.nodes) /\ Len(hops) >= 1
  /\ hops[1] = n /\ hops[Len(hops)] = m
  /\ \A i \in 1 .. Len(hops) - 1 : hops[i] = hops[i + 1] \/ Cabled(hops[i], hops[i + 1])

\* _append_unique goes on to the same node or over a cable.
LEMMA RouteOn ==
  ASSUME NEW hops, NEW n, NEW x, IsRoute(hops, n, x), NEW y \in net.nodes,
         x = y \/ Cabled(x, y)
  PROVE  IsRoute(AppendUnique(hops, y), n, y)
<1>1. /\ hops \in Seq(net.nodes) /\ Len(hops) \in Nat /\ Len(hops) >= 1
      /\ hops[1] = n /\ hops[Len(hops)] = x
      /\ \A i \in 1 .. Len(hops) - 1 : Cabled(hops[i], hops[i + 1])
  BY DEF IsRoute
<1>2. hops # <<>> /\ Last1(hops) = x
  <2>1. Len(<<>>) = 0
    OBVIOUS
  <2> QED
    BY <1>1, <2>1 DEF Last1
<1>3. CASE x = y
  BY <1>2, <1>3 DEF AppendUnique
<1>4. CASE x # y
  <2> DEFINE on == Append(hops, y)
  <2>1. AppendUnique(hops, y) = on
    BY <1>2, <1>4 DEF AppendUnique
  <2>2. /\ on \in Seq(net.nodes) /\ Len(on) = Len(hops) + 1
        /\ \A i \in 1 .. Len(hops) : on[i] = hops[i]
        /\ on[Len(hops) + 1] = y
    BY <1>1, AppendPlaces
  <2> HIDE DEF on
  <2>3. ASSUME NEW i \in 1 .. Len(hops) PROVE Cabled(on[i], on[i + 1])
    <3>1. CASE i = Len(hops)
      BY <1>1, <1>4, <2>2, <3>1
    <3>2. CASE i < Len(hops)
      <4>1. i \in 1 .. Len(hops) - 1 /\ on[i] = hops[i] /\ on[i + 1] = hops[i + 1]
        BY <1>1, <2>2, <3>2
      <4> QED
        BY <1>1, <4>1
    <3> QED
      BY <1>1, <3>1, <3>2
  <2>4. IsRoute(on, n, y)
    BY <1>1, <2>2, <2>3 DEF IsRoute
  <2> QED
    BY <2>1, <2>4
<1> QED
  BY <1>3, <1>4

\* A sequence of one element.
LEMMA OneElement ==
  ASSUME NEW S, NEW y \in S
  PROVE  <<y>> \in Seq(S) /\ Len(<<y>>) = 1 /\ <<y>>[1] = y
OBVIOUS

\* Without the repetitions a trail is a route with the same ends.
LEMMA SqueezeOfTrail ==
  ASSUME NEW s, NEW n, NEW m, IsTrail(s, n, m)
  PROVE  IsRoute(Squeeze(s), n, m)
<1> DEFINE A == net.nodes \cup {s[i] : i \in Nat}
           step == [i \in Nat |-> [x \in Seq(A) |-> AppendUnique(x, s[i + 1])]]
           Loop(g) == g = [i \in Nat |-> IF i = 0 THEN <<>> ELSE AppendUnique(g[i - 1], s[i])]
           out == CHOOSE g : Loop(g)
<1>1. /\ s \in Seq(net.nodes) /\ Len(s) \in Nat /\ Len(s) >= 1
      /\ s[1] = n /\ s[Len(s)] = m
      /\ \A i \in 1 .. Len(s) : s[i] \in net.nodes
      /\ \A i \in 1 .. Len(s) - 1 : s[i] = s[i + 1] \/ Cabled(s[i], s[i + 1])
  BY DEF IsTrail
<1>2. step \in [Nat -> [Seq(A) -> Seq(A)]]
  <2>1. \A i \in Nat, x \in Seq(A) : Append(x, s[i + 1]) \in Seq(A)
    OBVIOUS
  <2> HIDE DEF A
  <2> QED
    BY <2>1 DEF AppendUnique
<1>3. <<>> \in Seq(A)
  OBVIOUS
<1>4. PICK f \in [Nat -> Seq(A)] : IsLoop(f, <<>>, step)
  <2> HIDE DEF A, step
  <2> QED
    BY <1>2, <1>3, LoopComputes
<1> HIDE DEF A
<1>5. f[0] = <<>> /\ \A i \in Nat : f[i + 1] = AppendUnique(f[i], s[i + 1])
  BY <1>4 DEF IsLoop
<1> HIDE DEF step
<1>6. Loop(f)
  <2>1. ASSUME NEW i \in Nat PROVE f[i] = IF i = 0 THEN <<>> ELSE AppendUnique(f[i - 1], s[i])
    <3>1. CASE i = 0
      BY <1>5, <3>1
    <3>2. CASE i # 0
      <4>1. i - 1 \in Nat /\ (i - 1) + 1 = i
        BY <3>2
      <4> QED
        BY <1>5, <3>2, <4>1
    <3> QED
      BY <3>1, <3>2
  <2>2. f = [i \in Nat |-> f[i]]
    BY <1>4
  <2> QED
    BY <2>1, <2>2
<1>7. Loop(out)
  <2> HIDE DEF Loop
  <2> QED
    BY <1>6
<1>8. Squeeze(s) = out[Len(s)]
  BY DEF Squeeze
<1>9. out[0] = <<>> /\ \A i \in Nat : out[i + 1] = AppendUnique(out[i], s[i + 1])
  <2> HIDE DEF out
  <2>1. out[0] = <<>>
    BY <1>7
  <2>2. ASSUME NEW i \in Nat PROVE out[i + 1] = AppendUnique(out[i], s[i + 1])
    <3>1. i + 1 \in Nat /\ i + 1 # 0 /\ (i + 1) - 1 = i
      OBVIOUS
    <3> QED
      BY <1>7, <3>1
  <2> QED
    BY <2>1, <2>2
<1> HIDE DEF out, Loop
<1> DEFINE P == {i \in Nat : i + 1 <= Len(s) => IsRoute(out[i + 1], n, s[i + 1])}
<1>10. 0 \in P
  <2> DEFINE one == <<s[1]>>
  <2>1. out[0 + 1] = one
    <3>1. out[0 + 1] = AppendUnique(<<>>, s[0 + 1])
      BY <1>9
    <3>2. AppendUnique(<<>>, s[1]) = Append(<<>>, s[1])
      BY DEF AppendUnique
    <3> QED
      BY <3>1, <3>2
  <2>2. one \in Seq(net.nodes) /\ Len(one) = 1 /\ one[1] = s[1]
    <3>1. s[1] \in net.nodes
      BY <1>1, SMTT(30)
    <3> QED
      BY <3>1, OneElement
  <2> HIDE DEF one
  <2>3. IsRoute(one, n, s[1])
    BY <1>1, <2>2 DEF IsRoute
  <2> QED
    BY <2>1, <2>3
<1>11. ASSUME NEW i \in Nat, i \in P PROVE i + 1 \in P
  <2> SUFFICES ASSUME (i + 1) + 1 <= Len(s)
               PROVE  IsRoute(out[(i + 1) + 1], n, s[(i + 1) + 1])
    OBVIOUS
  <2>1. IsRoute(out[i + 1], n, s[i + 1])
    BY <1>1, <1>11
  <2>2. /\ i + 1 \in Nat /\ i + 1 \in 1 .. Len(s) - 1
        /\ (i + 1) + 1 \in 1 .. Len(s)
    BY <1>1
  <2>3. s[i + 1] = s[(i + 1) + 1] \/ Cabled(s[i + 1], s[(i + 1) + 1])
    BY <1>1, <2>2
  <2>4. s[(i + 1) + 1] \in net.nodes
    BY <1>1, <2>2
  <2>5. IsRoute(AppendUnique(out[i + 1], s[(i + 1) + 1]), n, s[(i + 1) + 1])
    BY <2>1, <2>3, <2>4, RouteOn
  <2> QED
    BY <1>9, <2>2, <2>5
<1>12. \A i \in Nat : i \in P
  <2> HIDE DEF P
  <2> QED
    BY <1>10, <1>11, SetInduction
<1>13. Len(s) - 1 \in Nat /\ (Len(s) - 1) + 1 = Len(s)
  BY <1>1
<1>14. Len(s) - 1 \in P
  BY <1>12, <1>13
<1> QED
  BY <1>1, <1>8, <1>13, <1>14

\* The nodes of a walk.
LEMMA NodesOfWalk ==
  ASSUME RoutingAssumption, Sound, NEW path, NEW p, NEW q, IsWalk(path, p, q)
  PROVE  IsRoute(NodePath(path), p.node, q.node) /\ NodePath(path) # NoPath
<1> DEFINE nodes == [i \in DOMAIN path |-> path[i].node]
<1>1. /\ path \in Seq(AllPorts) /\ Len(path) \in Nat /\ Len(path) >= 1
      /\ DOMAIN path = 1 .. Len(path)
      /\ path[1] = p /\ path[Len(path)] = q
      /\ \A i \in 1 .. Len(path) : path[i] \in AllPorts
      /\ \A i \in 1 .. Len(path) - 1 : Wire(path[i], path[i + 1])
  BY DEF IsWalk
<1>2. \A i \in 1 .. Len(path) : path[i].node \in net.nodes
  BY <1>1, PortsOfTopology
<1>3. /\ nodes \in [1 .. Len(path) -> net.nodes]
      /\ \A i \in 1 .. Len(path) : nodes[i] = path[i].node
  BY <1>1, <1>2
<1> HIDE DEF nodes
<1>4. nodes \in Seq(net.nodes) /\ Len(nodes) = Len(path)
  <2> DEFINE l == Len(path)
  <2>1. l \in Nat /\ nodes \in [1 .. l -> net.nodes]
    BY <1>1, <1>3
  <2> HIDE DEF l
  <2>2. nodes \in Seq(net.nodes) /\ Len(nodes) = l
    BY <2>1
  <2> QED
    BY <2>2 DEF l
<1>5. ASSUME NEW x, NEW y, Wire(x, y) PROVE x.node = y.node \/ Cabled(x.node, y.node)
  <2>1. ASSUME NEW c \in net.cables, c.ends = {x, y} PROVE Cabled(x.node, y.node)
    <3>1. {o.node : o \in c.ends} = {x.node, y.node}
      BY <2>1
    <3> QED
      BY <3>1 DEF Cabled
  <2> QED
    BY <1>5, <2>1 DEF Wire, Link
<1>6. \A i \in 1 .. Len(nodes) - 1 : nodes[i] = nodes[i + 1] \/ Cabled(nodes[i], nodes[i + 1])
  <2> TAKE i \in 1 .. Len(nodes) - 1
  <2>1. i \in 1 .. Len(path) - 1 /\ i \in 1 .. Len(path) /\ i + 1 \in 1 .. Len(path)
    BY <1>1, <1>4
  <2> QED
    BY <1>1, <1>3, <1>5, <2>1
<1>7. nodes[1] = p.node /\ nodes[Len(nodes)] = q.node
  BY <1>1, <1>3, <1>4
<1>8. IsTrail(nodes, p.node, q.node)
  BY <1>1, <1>4, <1>6, <1>7 DEF IsTrail
<1>9. IsRoute(Squeeze(nodes), p.node, q.node)
  BY <1>8, SqueezeOfTrail
<1>10. Squeeze(nodes) # NoPath
  <2>1. Len(NoPath) = 0
    BY DEF NoPath
  <2> QED
    BY <1>9, <2>1 DEF IsRoute
<1>11. NodePath(path) = Squeeze(nodes)
  BY DEF NodePath, nodes
<1> QED
  BY <1>9, <1>10, <1>11

\* Two routes one after the other.
LEMMA RoutesJoin ==
  ASSUME NEW a, NEW b, NEW n, NEW x, NEW m, IsRoute(a, n, x), IsRoute(b, x, m)
  PROVE  IsRoute(Squeeze(a \o b), n, m)
<1> DEFINE s == a \o b
<1>1. /\ a \in Seq(net.nodes) /\ Len(a) \in Nat /\ Len(a) >= 1
      /\ a[1] = n /\ a[Len(a)] = x
      /\ \A i \in 1 .. Len(a) - 1 : Cabled(a[i], a[i + 1])
  BY DEF IsRoute
<1>2. /\ b \in Seq(net.nodes) /\ Len(b) \in Nat /\ Len(b) >= 1
      /\ b[1] = x /\ b[Len(b)] = m
      /\ \A i \in 1 .. Len(b) - 1 : Cabled(b[i], b[i + 1])
  BY DEF IsRoute
<1>3. /\ s \in Seq(net.nodes) /\ Len(s) = Len(a) + Len(b)
      /\ \A i \in 1 .. Len(a) : s[i] = a[i]
      /\ \A i \in 1 .. Len(b) : s[Len(a) + i] = b[i]
  BY <1>1, <1>2
<1> HIDE DEF s
<1>4. ASSUME NEW i \in 1 .. Len(s) - 1
      PROVE  s[i] = s[i + 1] \/ Cabled(s[i], s[i + 1])
  <2>1. CASE i < Len(a)
    <3>1. i \in 1 .. Len(a) - 1 /\ i \in 1 .. Len(a) /\ i + 1 \in 1 .. Len(a)
      BY <1>1, <2>1
    <3> QED
      BY <1>1, <1>3, <3>1
  <2>2. CASE i = Len(a)
    <3>1. i \in 1 .. Len(a) /\ 1 \in 1 .. Len(b) /\ i + 1 = Len(a) + 1
      BY <1>1, <1>2, <2>2
    <3> QED
      BY <1>1, <1>2, <1>3, <2>2, <3>1
  <2>3. CASE i > Len(a)
    <3> DEFINE j == i - Len(a)
    <3>1. /\ j \in 1 .. Len(b) - 1 /\ j \in 1 .. Len(b) /\ j + 1 \in 1 .. Len(b)
          /\ Len(a) + j = i /\ Len(a) + (j + 1) = i + 1
      BY <1>1, <1>2, <1>3, <2>3
    <3> HIDE DEF j
    <3>2. s[i] = b[j] /\ s[i + 1] = b[j + 1]
      BY <1>3, <3>1
    <3> QED
      BY <1>2, <3>1, <3>2
  <2> QED
    BY <1>1, <2>1, <2>2, <2>3
<1>5. s[1] = n /\ s[Len(s)] = m
  <2>1. 1 \in 1 .. Len(a) /\ Len(b) \in 1 .. Len(b)
    BY <1>1, <1>2
  <2> QED
    BY <1>1, <1>2, <1>3, <2>1
<1>6. IsTrail(s, n, m)
  <2>1. Len(s) >= 1
    BY <1>1, <1>2, <1>3
  <2> QED
    BY <1>3, <1>4, <1>5, <2>1 DEF IsTrail
<1> QED
  BY <1>6, SqueezeOfTrail DEF s

-----------------------------------------------------------------------------
(* Forwarding                                                              *)

\* The first of some addresses is one of them.
LEMMA FirstAddress ==
  ASSUME Sound, NEW K, K \subseteq DOMAIN net.addresses, K # {}
  PROVE  /\ Min(K) \in K
         /\ \A i \in K : net.addresses[i].port \in AllPorts
         /\ First(K).port \in AllPorts
<1>1. net.addresses \in Seq(Addressed)
  BY DEF Sound
<1>2. K \subseteq Nat
  BY <1>1
<1>3. \E x \in K : \A y \in K : x <= y
  BY <1>2, HasLeast
<1>4. Min(K) \in K
  BY <1>3 DEF Min
<1>5. \A i \in K : net.addresses[i] \in Addressed
  BY <1>1
<1>6. \A i \in K : net.addresses[i].port \in AllPorts
  BY <1>5 DEF Addressed
<1> QED
  BY <1>4, <1>6 DEF First

\* A node has a path to an address exactly when it hears it.
LEMMA PathIsHearing ==
  ASSUME RoutingAssumption, Sound, NEW n, NEW address, address.port \in AllPorts
  PROVE  /\ PathFrom(n, address) # NoPath <=> Hears(n, address)
         /\ PathFrom(n, address) # NoPath =>
              IsRoute(PathFrom(n, address), n, address.port.node)
<1> DEFINE own == {i \in AddressesFor(n) :
                     LET a == net.addresses[i]
                     IN  /\ InNetwork(address.ip, a.ip, a.plen)
                         /\ L2Path(a.port, address.port) # NoPath}
<1>1. own \subseteq DOMAIN net.addresses /\ AddressesFor(n) \subseteq DOMAIN net.addresses
  BY DEF AddressesFor
<1>2. PathFrom(n, address) =
        IF own = {} THEN NoPath ELSE NodePath(L2Path(First(own).port, address.port))
  BY DEF PathFrom
<1>3. \A i \in AddressesFor(n) : net.addresses[i].port \in AllPorts
  <2>1. AddressesFor(n) = {} \/ AddressesFor(n) # {}
    OBVIOUS
  <2> QED
    BY <1>1, FirstAddress
<1>4. ASSUME NEW i \in AddressesFor(n)
      PROVE  L2Path(net.addresses[i].port, address.port) # NoPath
               <=> address.port \in Segment(net.addresses[i].port)
  BY <1>3, PathIsShortest
<1>5. own # {} <=> Hears(n, address)
  BY <1>4 DEF Hears
<1>6. ASSUME own # {}
      PROVE  /\ PathFrom(n, address) # NoPath
             /\ IsRoute(PathFrom(n, address), n, address.port.node)
  <2> DEFINE i == Min(own)
             from == net.addresses[i].port
  <2>1. i \in own
    BY <1>1, <1>6, FirstAddress
  <2>2. i \in AddressesFor(n) /\ L2Path(from, address.port) # NoPath
    BY <2>1, Zenon
  <2>3. from \in AllPorts /\ from.node = n
    BY <1>3, <2>2, Zenon DEF AddressesFor
  <2>4. PathFrom(n, address) = NodePath(L2Path(from, address.port))
    BY <1>2, <1>6 DEF First
  <2> HIDE DEF from, i
  <2>5. IsWalk(L2Path(from, address.port), from, address.port)
    BY <2>2, <2>3, PathIsShortest
  <2> QED
    BY <2>3, <2>4, <2>5, NodesOfWalk
<1> HIDE DEF own
<1> QED
  BY <1>2, <1>5, <1>6

\* There is one best route or none.
LEMMA OneBestRoute ==
  ASSUME RoutingAssumption, Sound, NEW n, NEW ip,
         NEW r \in BestRoute(n, ip), NEW s \in BestRoute(n, ip)
  PROVE  r = s
<1>1. /\ r \in net.routes /\ s \in net.routes /\ r.node = n /\ s.node = n
      /\ r.plen <= s.plen /\ s.plen <= r.plen
      /\ InNetwork(ip, r.dest, r.plen) /\ InNetwork(ip, s.dest, s.plen)
  BY DEF BestRoute
<1>2. r \in RoutePlan /\ s \in RoutePlan
  BY <1>1 DEF Sound
<1>3. r.plen \in Nat /\ s.plen \in Nat
  BY <1>2 DEF RoutingAssumption
<1>4. r.plen = s.plen
  BY <1>1, <1>3
<1>5. r.dest \div 2 ^ (Width - r.plen) = s.dest \div 2 ^ (Width - s.plen)
  BY <1>1, <1>4 DEF InNetwork
<1>6. r.dest = s.dest
  BY <1>2, <1>4, <1>5 DEF RoutingAssumption
<1> QED
  BY <1>1, <1>4, <1>6 DEF Sound

\* The first address at the gateway of the best route, as a set.
Gateways(n, ip) ==
  LET best == BestRoute(n, ip)
  IN  IF best = {} THEN {} ELSE AddressByIp((CHOOSE r \in best : TRUE).gateway)

\* The node a packet is handed over to is the one with that address.
LEMMA HandoverIsGateway ==
  ASSUME RoutingAssumption, Sound, NEW n, NEW ip
  PROVE  Handover(n, ip) =
           {m \in net.nodes : /\ Gateways(n, ip) # {}
                              /\ m = First(Gateways(n, ip)).port.node
                              /\ Hears(n, First(Gateways(n, ip)))}
<1> DEFINE Better(r) == \E s \in net.routes :
                           s.node = n /\ InNetwork(ip, s.dest, s.plen) /\ s.plen > r.plen
           Best(r) == r \in net.routes /\ r.node = n /\ InNetwork(ip, r.dest, r.plen) /\ ~Better(r)
<1>1. \A r \in net.routes : r.plen \in Nat
  BY DEF Sound, RoutingAssumption
<1>2. \A r : r \in BestRoute(n, ip) <=> Best(r)
  BY <1>1 DEF BestRoute
<1>3. Handover(n, ip) =
        {m \in net.nodes : \E r : /\ Best(r) /\ AddressByIp(r.gateway) # {}
                                  /\ First(AddressByIp(r.gateway)).port.node = m
                                  /\ Hears(n, First(AddressByIp(r.gateway)))}
  BY DEF Handover
<1> HIDE DEF Best
<1>4. CASE BestRoute(n, ip) = {}
  BY <1>2, <1>3, <1>4 DEF Gateways
<1>5. CASE BestRoute(n, ip) # {}
  <2> DEFINE r == CHOOSE b \in BestRoute(n, ip) : TRUE
  <2>1. r \in BestRoute(n, ip)
    BY <1>5
  <2>2. Gateways(n, ip) = AddressByIp(r.gateway)
    BY <1>5 DEF Gateways
  <2> HIDE DEF r
  <2>3. \A b : Best(b) <=> b = r
    BY <1>2, <2>1, OneBestRoute
  <2> QED
    BY <1>3, <2>2, <2>3
<1> QED
  BY <1>4, <1>5

Packets == [at : net.nodes, hops : Seq(net.nodes), visited : SUBSET net.nodes,
            end : {"none", "arrived", "error"}]

\* A packet sent from n to the target, underway or there.
Underway(left, n, target) ==
  /\ left \in Packets
  /\ left.end = "none" => IsRoute(left.hops, n, left.at)
  /\ left.end = "arrived" => IsRoute(left.hops, n, target.port.node)

\* A round of resolve: the packet arrives, is handed over to a node that it
\* has not visited, or gets lost.
LEMMA ForwardHandsOver ==
  ASSUME RoutingAssumption, Sound, NEW n, NEW target, target.port \in AllPorts,
         NEW left, Underway(left, n, target), left.end = "none",
         NEW after, after = Forward(target, left)
  PROVE  /\ Underway(after, n, target)
         /\ Hears(left.at, target) => after.end = "arrived"
         /\ ~Hears(left.at, target) =>
              \/ /\ after.end = "error"
                 /\ Handover(left.at, target.ip) \subseteq left.visited
              \/ /\ after.end = "none"
                 /\ Handover(left.at, target.ip) = {after.at}
                 /\ after.at \notin left.visited
                 /\ after.visited = left.visited \cup {after.at}
<1> DEFINE direct == PathFrom(left.at, target)
           gateways == Gateways(left.at, target.ip)
           path == IF gateways = {} THEN NoPath ELSE PathFrom(left.at, First(gateways))
           next == First(gateways).port.node
<1>1. /\ left.at \in net.nodes /\ left.hops \in Seq(net.nodes)
      /\ left.visited \subseteq net.nodes /\ IsRoute(left.hops, n, left.at)
      /\ left = [at |-> left.at, hops |-> left.hops, visited |-> left.visited, end |-> "none"]
  BY DEF Underway, Packets
<1>2. after = IF direct # NoPath
                THEN [left EXCEPT !.hops = Squeeze(@ \o direct), !.end = "arrived"]
              ELSE IF path = NoPath \/ next \in left.visited THEN [left EXCEPT !.end = "error"]
              ELSE [at |-> next, hops |-> Squeeze(left.hops \o path),
                    visited |-> left.visited \cup {next}, end |-> "none"]
  BY DEF Forward, Gateways
<1>3. /\ direct # NoPath <=> Hears(left.at, target)
      /\ direct # NoPath => IsRoute(direct, left.at, target.port.node)
  BY PathIsHearing
<1>4. ASSUME gateways # {}
      PROVE  /\ path # NoPath <=> Hears(left.at, First(gateways))
             /\ path # NoPath => IsRoute(path, left.at, next)
             /\ next \in net.nodes
  <2>1. gateways \subseteq DOMAIN net.addresses
    BY DEF Gateways, AddressByIp
  <2>2. First(gateways).port \in AllPorts
    BY <1>4, <2>1, FirstAddress
  <2>3. next \in net.nodes
    BY <2>2, PortsOfTopology
  <2> QED
    BY <1>4, <2>2, <2>3, PathIsHearing
<1>5. Handover(left.at, target.ip) =
        {m \in net.nodes : gateways # {} /\ m = next /\ Hears(left.at, First(gateways))}
  BY HandoverIsGateway
<1> HIDE DEF direct, gateways
<1>6. /\ path # NoPath => gateways # {}
      /\ path = NoPath => Handover(left.at, target.ip) = {}
      /\ path # NoPath => Handover(left.at, target.ip) = {next} /\ next \in net.nodes
      /\ path # NoPath => IsRoute(path, left.at, next)
  BY <1>4, <1>5
<1> HIDE DEF path, next
<1>7. CASE direct # NoPath
  <2> DEFINE hops == Squeeze(left.hops \o direct)
  <2>1. IsRoute(hops, n, target.port.node)
    BY <1>1, <1>3, <1>7, RoutesJoin
  <2>2. hops \in Seq(net.nodes)
    BY <2>1 DEF IsRoute
  <2>3. after = [at |-> left.at, hops |-> hops, visited |-> left.visited, end |-> "arrived"]
    BY <1>1, <1>2, <1>7
  <2> HIDE DEF hops
  <2>4. after \in Packets /\ after.end = "arrived" /\ after.hops = hops
    BY <1>1, <2>2, <2>3 DEF Packets
  <2> QED
    BY <1>3, <1>7, <2>1, <2>4 DEF Underway
<1>8. CASE direct = NoPath /\ (path = NoPath \/ next \in left.visited)
  <2>1. after = [at |-> left.at, hops |-> left.hops, visited |-> left.visited, end |-> "error"]
    BY <1>1, <1>2, <1>8
  <2>2. after \in Packets /\ after.end = "error"
    BY <1>1, <2>1 DEF Packets
  <2>3. Handover(left.at, target.ip) \subseteq left.visited
    BY <1>6, <1>8
  <2> QED
    BY <1>3, <1>8, <2>2, <2>3 DEF Underway
<1>9. CASE direct = NoPath /\ path # NoPath /\ next \notin left.visited
  <2> DEFINE hops == Squeeze(left.hops \o path)
  <2>1. IsRoute(hops, n, next)
    BY <1>1, <1>6, <1>9, RoutesJoin
  <2>2. hops \in Seq(net.nodes)
    BY <2>1 DEF IsRoute
  <2>3. after = [at |-> next, hops |-> hops, visited |-> left.visited \cup {next}, end |-> "none"]
    BY <1>2, <1>9
  <2> HIDE DEF hops
  <2>4. /\ after \in Packets /\ after.end = "none" /\ after.hops = hops /\ after.at = next
        /\ after.visited = left.visited \cup {next}
    BY <1>1, <1>6, <1>9, <2>2, <2>3 DEF Packets
  <2> QED
    BY <1>3, <1>6, <1>9, <2>1, <2>4 DEF Underway
<1> QED
  BY <1>7, <1>8, <1>9

\* The nodes from which a packet arrives with k handovers at most.
IsDelivery(f, address) ==
  /\ f \in [Nat -> SUBSET net.nodes]
  /\ f[0] = {n \in net.nodes : Hears(n, address)}
  /\ \A k \in Nat : f[k + 1] = Earlier(f[k], address)
  /\ Delivering(address) = f[Cardinality(net.nodes)]

\* Delivering is what its rounds make of the nodes that hear the address.
LEMMA DeliveryExists ==
  ASSUME NEW address
  PROVE  \E f : IsDelivery(f, address)
<1> DEFINE heard == {n \in net.nodes : Hears(n, address)}
           step == [k \in Nat |-> [x \in SUBSET net.nodes |-> Earlier(x, address)]]
           Loop(g) == g = [i \in Nat |-> IF i = 0 THEN heard ELSE Earlier(g[i - 1], address)]
           nodes == CHOOSE g : Loop(g)
<1>1. \A x \in SUBSET net.nodes : Earlier(x, address) \in SUBSET net.nodes
  BY DEF Earlier
<1>2. step \in [Nat -> [SUBSET net.nodes -> SUBSET net.nodes]] /\ heard \in SUBSET net.nodes
  BY <1>1
<1>3. PICK f \in [Nat -> SUBSET net.nodes] : IsLoop(f, heard, step)
  <2> HIDE DEF step, heard
  <2> QED
    BY <1>2, LoopComputes
<1>4. f[0] = heard /\ \A k \in Nat : f[k + 1] = Earlier(f[k], address)
  BY <1>3 DEF IsLoop
<1> HIDE DEF heard, step
<1>5. Loop(f)
  <2>1. ASSUME NEW i \in Nat
        PROVE  f[i] = IF i = 0 THEN heard ELSE Earlier(f[i - 1], address)
    <3>1. CASE i = 0
      BY <1>4, <3>1
    <3>2. CASE i # 0
      <4>1. i - 1 \in Nat /\ (i - 1) + 1 = i
        BY <3>2
      <4> QED
        BY <1>4, <3>2, <4>1
    <3> QED
      BY <3>1, <3>2
  <2>2. f = [i \in Nat |-> f[i]]
    BY <1>3
  <2> QED
    BY <2>1, <2>2
<1>6. Loop(nodes)
  <2> HIDE DEF Loop
  <2> QED
    BY <1>5
<1>7. Delivering(address) = nodes[Cardinality(net.nodes)]
  BY DEF Delivering, heard
<1> HIDE DEF nodes
<1>8. /\ DOMAIN nodes = Nat /\ nodes = [i \in Nat |-> nodes[i]]
      /\ nodes[0] = heard /\ \A k \in Nat : nodes[k + 1] = Earlier(nodes[k], address)
  <2>1. DOMAIN nodes = Nat /\ nodes = [i \in Nat |-> nodes[i]] /\ nodes[0] = heard
    BY <1>6
  <2>2. ASSUME NEW k \in Nat PROVE nodes[k + 1] = Earlier(nodes[k], address)
    <3>1. k + 1 \in Nat /\ k + 1 # 0 /\ (k + 1) - 1 = k
      OBVIOUS
    <3> QED
      BY <1>6, <3>1
  <2> QED
    BY <2>1, <2>2
<1> HIDE DEF Loop
<1> DEFINE P == {k \in Nat : nodes[k] \in SUBSET net.nodes}
<1>9. \A k \in Nat : k \in P
  <2>1. 0 \in P
    BY <1>2, <1>8
  <2>2. ASSUME NEW k \in Nat, k \in P PROVE k + 1 \in P
    <3>1. nodes[k] \in SUBSET net.nodes /\ nodes[k + 1] = Earlier(nodes[k], address)
      BY <1>8, <2>2
    <3>2. nodes[k + 1] \in SUBSET net.nodes /\ k + 1 \in Nat
      BY <1>1, <3>1
    <3> QED
      BY <3>2
  <2> HIDE DEF P
  <2> QED
    BY <2>1, <2>2, SetInduction
<1>10. nodes \in [Nat -> SUBSET net.nodes]
  BY <1>8, <1>9
<1>11. IsDelivery(nodes, address)
  BY <1>7, <1>8, <1>10 DEF IsDelivery, heard
<1> QED
  BY <1>11

\* Delivering has every node from which a packet arrives, however far.
LEMMA DeliveryEnds ==
  ASSUME RoutingAssumption, Sound, NEW address, NEW f, IsDelivery(f, address)
  PROVE  /\ Cardinality(net.nodes) \in Nat
         /\ Earlier(Delivering(address), address) = Delivering(address)
         /\ \A k \in Nat : f[k] \subseteq Delivering(address)
<1> DEFINE N == Cardinality(net.nodes)
<1>1. /\ f \in [Nat -> SUBSET net.nodes]
      /\ \A k \in Nat : f[k + 1] = Earlier(f[k], address)
      /\ Delivering(address) = f[N]
  BY DEF IsDelivery
<1>2. \A k \in Nat : f[k] \subseteq f[k + 1]
  BY <1>1 DEF Earlier
<1>3. ASSUME NEW k \in Nat, f[k + 1] = f[k] PROVE f[k + 2] = f[k + 1]
  <2>1. k + 1 \in Nat /\ (k + 1) + 1 = k + 2
    OBVIOUS
  <2> QED
    BY <1>1, <1>3, <2>1
<1>4. IsFiniteSet(net.nodes)
  BY PortsOfTopology
<1>5. N \in Nat /\ f[N + 1] = f[N] /\ \A k \in Nat : f[k] \subseteq f[N]
  BY <1>1, <1>2, <1>3, <1>4, GrowthEnds
<1> QED
  BY <1>1, <1>5

\* The rounds of resolve from n to m.
IsSending(f, n, m) ==
  LET target == First(AddressesFor(m))
      last == f[Cardinality(net.nodes) + 1]
  IN  /\ f[0] = [at |-> n, hops |-> <<n>>, visited |-> {n}, end |-> "none"]
      /\ \A k \in Nat : f[k + 1] = Forward(target, f[k])
      /\ \A k \in Nat : Underway(f[k], n, target)
      /\ Resolve(n, m) = IF last.end = "arrived" THEN last.hops ELSE NoPath

\* The first address of a node with addresses is at one of its ports.
LEMMA FirstOfNode ==
  ASSUME Sound, NEW m, AddressesFor(m) # {}
  PROVE  /\ First(AddressesFor(m)).port \in AllPorts
         /\ First(AddressesFor(m)).port.node = m
<1>1. AddressesFor(m) \subseteq DOMAIN net.addresses
  BY DEF AddressesFor
<1>2. Min(AddressesFor(m)) \in AddressesFor(m) /\ First(AddressesFor(m)).port \in AllPorts
  BY <1>1, FirstAddress
<1> QED
  BY <1>2 DEF First, AddressesFor

\* A packet that is not underway any more stays as it is.
LEMMA ForwardStays ==
  ASSUME NEW target, NEW left, left.end # "none"
  PROVE  Forward(target, left) = left
BY DEF Forward

\* resolve sends a packet.
LEMMA SendingExists ==
  ASSUME RoutingAssumption, Sound, NEW n \in net.nodes, NEW m, AddressesFor(m) # {}
  PROVE  \E f : IsSending(f, n, m)
<1> DEFINE target == First(AddressesFor(m))
           start == [at |-> n, hops |-> <<n>>, visited |-> {n}, end |-> "none"]
           X == {l \in Packets : Underway(l, n, target)}
           step == [k \in Nat |-> [l \in X |-> Forward(target, l)]]
           Loop(g) == g = [k \in Nat |-> IF k = 0 THEN start ELSE Forward(target, g[k - 1])]
           left == CHOOSE g : Loop(g)
<1>1. target.port \in AllPorts
  BY FirstOfNode
<1>2. Resolve(n, m) = LET last == left[Cardinality(net.nodes) + 1]
                      IN  IF last.end = "arrived" THEN last.hops ELSE NoPath
  BY DEF Resolve
<1> HIDE DEF target
<1>3. \A l : Underway(l, n, target) => l \in Packets
  BY DEF Underway
<1>4. Underway(start, n, target)
  <2> DEFINE one == <<n>>
  <2>1. one \in Seq(net.nodes) /\ Len(one) = 1 /\ one[1] = n
    BY OneElement
  <2>2. start = [at |-> n, hops |-> one, visited |-> {n}, end |-> "none"]
    OBVIOUS
  <2> HIDE DEF one
  <2>3. IsRoute(one, n, n)
    BY <2>1 DEF IsRoute
  <2> HIDE DEF start
  <2>4. start \in Packets /\ start.end = "none" /\ start.hops = one /\ start.at = n
    BY <2>1, <2>2 DEF Packets
  <2> QED
    BY <2>3, <2>4 DEF Underway
<1>5. ASSUME NEW l, Underway(l, n, target) PROVE Underway(Forward(target, l), n, target)
  <2>1. CASE l.end = "none"
    BY <1>1, <1>5, <2>1, ForwardHandsOver
  <2>2. CASE l.end # "none"
    BY <1>5, <2>2, ForwardStays
  <2> QED
    BY <2>1, <2>2
<1> HIDE DEF start
<1>6. start \in X /\ step \in [Nat -> [X -> X]]
  BY <1>3, <1>4, <1>5
<1>7. PICK f \in [Nat -> X] : IsLoop(f, start, step)
  <2> HIDE DEF X, step
  <2> QED
    BY <1>6, LoopComputes
<1> HIDE DEF X
<1>8. f[0] = start /\ \A k \in Nat : f[k + 1] = Forward(target, f[k])
  BY <1>7 DEF IsLoop
<1> HIDE DEF step
<1>9. Loop(f)
  <2>1. ASSUME NEW k \in Nat PROVE f[k] = IF k = 0 THEN start ELSE Forward(target, f[k - 1])
    <3>1. CASE k = 0
      BY <1>8, <3>1
    <3>2. CASE k # 0
      <4>1. k - 1 \in Nat /\ (k - 1) + 1 = k
        BY <3>2
      <4> QED
        BY <1>8, <3>2, <4>1
    <3> QED
      BY <3>1, <3>2
  <2>2. f = [k \in Nat |-> f[k]]
    BY <1>7
  <2> QED
    BY <2>1, <2>2
<1>10. Loop(left)
  <2> HIDE DEF Loop
  <2> QED
    BY <1>9
<1> HIDE DEF left
<1>11. left[0] = start /\ \A k \in Nat : left[k + 1] = Forward(target, left[k])
  <2>1. left[0] = start
    BY <1>10
  <2>2. ASSUME NEW k \in Nat PROVE left[k + 1] = Forward(target, left[k])
    <3>1. k + 1 \in Nat /\ k + 1 # 0 /\ (k + 1) - 1 = k
      OBVIOUS
    <3> QED
      BY <1>10, <3>1
  <2> QED
    BY <2>1, <2>2
<1> HIDE DEF Loop
<1> DEFINE P == {k \in Nat : Underway(left[k], n, target)}
<1>12. 0 \in P
  BY <1>4, <1>11
<1>13. \A k \in Nat : k \in P => k + 1 \in P
  BY <1>5, <1>11
<1>14. \A k \in Nat : k \in P
  <2> HIDE DEF P
  <2> QED
    BY <1>12, <1>13, SetInduction
<1>15. IsSending(left, n, m)
  BY <1>2, <1>11, <1>14 DEF IsSending, start, target
<1> QED
  BY <1>15

\* A packet that arrives was sent from a node from which packets arrive.
LEMMA ArrivedIsDelivered ==
  ASSUME RoutingAssumption, Sound, NEW n \in net.nodes, NEW m, AddressesFor(m) # {},
         NEW f, IsSending(f, n, m)
  PROVE  \A k \in Nat : f[k].end = "arrived" => n \in Delivering(First(AddressesFor(m)))
<1> DEFINE target == First(AddressesFor(m))
           D == Delivering(target)
           P == {k \in Nat : /\ f[k].end = "arrived" => n \in D
                             /\ f[k].end = "none" /\ f[k].at \in D => n \in D}
<1>1. target.port \in AllPorts
  BY FirstOfNode
<1>2. PICK d : IsDelivery(d, target)
  BY DeliveryExists
<1>3. /\ f[0] = [at |-> n, hops |-> <<n>>, visited |-> {n}, end |-> "none"]
      /\ \A k \in Nat : f[k + 1] = Forward(target, f[k]) /\ Underway(f[k], n, target)
  BY DEF IsSending
<1> HIDE DEF target
<1>4. /\ \A x \in net.nodes : Hears(x, target) => x \in D
      /\ Earlier(D, target) = D
  <2>1. d[0] = {x \in net.nodes : Hears(x, target)}
    BY <1>2 DEF IsDelivery
  <2> QED
    BY <1>2, <2>1, DeliveryEnds
<1> HIDE DEF D
<1>5. 0 \in P
  BY <1>3
<1>6. ASSUME NEW k \in Nat, k \in P PROVE k + 1 \in P
  <2> DEFINE left == f[k]
             after == f[k + 1]
  <2>1. Underway(left, n, target) /\ after = Forward(target, left)
    BY <1>3
  <2>2. /\ left.end = "arrived" => n \in D
        /\ left.end = "none" /\ left.at \in D => n \in D
    BY <1>6
  <2> HIDE DEF left, after
  <2>3. left.at \in net.nodes
    BY <2>1 DEF Underway, Packets
  <2>4. /\ after.end = "arrived" => n \in D
        /\ after.end = "none" /\ after.at \in D => n \in D
    <3>1. CASE left.end # "none"
      BY <2>1, <2>2, <3>1, ForwardStays
    <3>2. CASE left.end = "none"
      <4>1. CASE Hears(left.at, target)
        BY <1>4, <2>2, <2>3, <3>2, <4>1
      <4>2. CASE ~Hears(left.at, target)
        <5>1. \/ after.end = "error"
              \/ after.end = "none" /\ Handover(left.at, target.ip) = {after.at}
          BY <1>1, <2>1, <3>2, <4>2, ForwardHandsOver
        <5>2. ASSUME after.at \in D, Handover(left.at, target.ip) = {after.at}
              PROVE  left.at \in D
          BY <1>4, <2>3, <5>2 DEF Earlier
        <5> QED
          BY <2>2, <3>2, <5>1, <5>2
      <4> QED
        BY <4>1, <4>2
    <3> QED
      BY <3>1, <3>2
  <2> QED
    BY <2>4 DEF after
<1>7. \A k \in Nat : k \in P
  <2> HIDE DEF P
  <2> QED
    BY <1>5, <1>6, SetInduction
<1> QED
  BY <1>7 DEF D, target

\* A packet from such a node comes nearer with each handover, so that it meets
\* no node twice, and arrives before the rounds are over.
LEMMA DeliveredArrives ==
  ASSUME RoutingAssumption, Sound, NEW n \in net.nodes, NEW m, AddressesFor(m) # {},
         NEW f, IsSending(f, n, m), n \in Delivering(First(AddressesFor(m)))
  PROVE  f[Cardinality(net.nodes) + 1].end = "arrived"
<1> DEFINE target == First(AddressesFor(m))
           N == Cardinality(net.nodes)
<1>1. target.port \in AllPorts
  BY FirstOfNode
<1>2. PICK d : IsDelivery(d, target)
  BY DeliveryExists
<1>3. /\ f[0] = [at |-> n, hops |-> <<n>>, visited |-> {n}, end |-> "none"]
      /\ \A k \in Nat : f[k + 1] = Forward(target, f[k]) /\ Underway(f[k], n, target)
  BY DEF IsSending
<1>4. n \in d[N]
  BY <1>2 DEF IsDelivery
<1> HIDE DEF target
<1>5. /\ N \in Nat
      /\ d[0] = {x \in net.nodes : Hears(x, target)}
      /\ \A k \in Nat : d[k + 1] = Earlier(d[k], target)
  BY <1>2, DeliveryEnds DEF IsDelivery
<1> HIDE DEF N
\* j handovers are left, as few as there can be, and none of the nodes
\* visited was nearer.
<1> DEFINE Near(x, visited, j, k) ==
             /\ x \in d[j] /\ j + k <= N
             /\ \A i \in Nat : i < j => x \notin d[i] /\ visited \cap d[i] = {}
           P == {k \in Nat : \/ f[k].end = "arrived"
                             \/ /\ f[k].end = "none"
                                /\ \E j \in Nat : Near(f[k].at, f[k].visited, j, k)}
<1>6. ASSUME NEW x, NEW j \in Nat, x \in d[j]
      PROVE  \E i \in Nat : i <= j /\ x \in d[i] /\ \A h \in Nat : h < i => x \notin d[h]
  <2> DEFINE T == {i \in Nat : x \in d[i]}
  <2>1. j \in T /\ T \subseteq Nat
    BY <1>6
  <2>2. PICK i \in T : \A h \in T : i <= h
    BY <2>1, HasLeast
  <2>3. i \in Nat /\ i <= j /\ x \in d[i]
    BY <2>1, <2>2
  <2>4. \A h \in Nat : h < i => x \notin d[h]
    BY <2>2, <2>3
  <2> QED
    BY <2>3, <2>4
<1>7. 0 \in P
  <2>1. PICK i \in Nat : i <= N /\ n \in d[i] /\ \A h \in Nat : h < i => n \notin d[h]
    BY <1>4, <1>5, <1>6
  <2>2. Near(n, {n}, i, 0)
    <3>1. i + 0 <= N
      BY <2>1
    <3>2. \A h \in Nat : h < i => n \notin d[h] /\ {n} \cap d[h] = {}
      BY <2>1
    <3> QED
      BY <2>1, <3>1, <3>2
  <2> HIDE DEF Near
  <2>3. f[0].end = "none" /\ f[0].at = n /\ f[0].visited = {n}
    BY <1>3
  <2> QED
    BY <2>2, <2>3
<1>8. ASSUME NEW k \in Nat, k \in P PROVE k + 1 \in P
  <2> DEFINE left == f[k]
             after == f[k + 1]
  <2>1. Underway(left, n, target) /\ after = Forward(target, left)
    BY <1>3
  <2>2. \/ left.end = "arrived"
        \/ left.end = "none" /\ \E j \in Nat : Near(left.at, left.visited, j, k)
    BY <1>8
  <2> SUFFICES \/ after.end = "arrived"
               \/ after.end = "none" /\ \E j \in Nat : Near(after.at, after.visited, j, k + 1)
    OBVIOUS
  <2> HIDE DEF left, after
  <2>3. CASE left.end = "arrived"
    <3>1. after = left
      BY <2>1, <2>3, ForwardStays
    <3> QED
      BY <2>3, <3>1
  <2>4. CASE left.end = "none"
    <3>1. left.at \in net.nodes
      BY <2>1 DEF Underway, Packets
    <3>2. PICK j \in Nat : Near(left.at, left.visited, j, k)
      BY <2>2, <2>4
    <3>3. CASE Hears(left.at, target)
      BY <1>1, <2>1, <2>4, <3>3, ForwardHandsOver
    <3>4. CASE ~Hears(left.at, target)
      <4>1. j # 0
        BY <1>5, <3>2, <3>4
      <4> DEFINE i == j - 1
      <4>2. i \in Nat /\ i + 1 = j /\ i < j
        BY <4>1
      <4> HIDE DEF i
      <4>3. left.at \in Earlier(d[i], target) /\ left.at \notin d[i] /\ left.visited \cap d[i] = {}
        BY <1>5, <3>2, <4>2
      <4>4. Handover(left.at, target.ip) \cap d[i] # {}
        BY <4>3 DEF Earlier
      <4>5. /\ after.end = "none"
            /\ Handover(left.at, target.ip) = {after.at}
            /\ after.visited = left.visited \cup {after.at}
        <5>1. \/ /\ after.end = "error"
                 /\ Handover(left.at, target.ip) \subseteq left.visited
              \/ /\ after.end = "none"
                 /\ Handover(left.at, target.ip) = {after.at}
                 /\ after.visited = left.visited \cup {after.at}
          BY <1>1, <2>1, <2>4, <3>4, ForwardHandsOver
        <5> QED
          BY <4>3, <4>4, <5>1
      <4>6. after.at \in d[i]
        BY <4>4, <4>5
      <4>7. PICK h \in Nat : h <= i /\ after.at \in d[h] /\ \A g \in Nat : g < h => after.at \notin d[g]
        BY <1>6, <4>2, <4>6
      <4>8. Near(after.at, after.visited, h, k + 1)
        <5>1. j + k <= N /\ \A g \in Nat : g < j => left.visited \cap d[g] = {}
          BY <3>2
        <5>2. h + (k + 1) <= N
          BY <1>5, <4>2, <4>7, <5>1
        <5>3. ASSUME NEW g \in Nat, g < h
              PROVE  after.at \notin d[g] /\ after.visited \cap d[g] = {}
          <6>1. g < j /\ after.at \notin d[g]
            BY <4>2, <4>7, <5>3
          <6> QED
            BY <4>5, <5>1, <6>1
        <5> QED
          BY <4>7, <5>2, <5>3
      <4> HIDE DEF Near
      <4> QED
        BY <4>5, <4>8
    <3> QED
      BY <3>3, <3>4
  <2> HIDE DEF Near
  <2> QED
    BY <2>2, <2>3, <2>4
<1>9. \A k \in Nat : k \in P
  <2> HIDE DEF P
  <2> QED
    BY <1>7, <1>8, SetInduction
<1>10. N + 1 \in P
  BY <1>5, <1>9, SMTT(30)
<1>11. \A j \in Nat : ~(j + (N + 1) <= N)
  BY <1>5
<1>12. f[N + 1].end = "arrived"
  BY <1>10, <1>11
<1> QED
  BY <1>12 DEF N

\* resolve succeeds exactly where repeated longest prefix forwarding arrives,
\* in every topology.
THEOREM ResolveForwards ==
  ASSUME RoutingAssumption
  PROVE  Spec => []ResolveIsForwarding
<1>1. ASSUME Sound PROVE ResolveIsForwarding
  <2>1. ASSUME NEW n \in net.nodes, NEW m \in net.nodes
        PROVE  Resolve(n, m) # NoPath <=>
                 /\ AddressesFor(m) # {}
                 /\ n \in Delivering(First(AddressesFor(m)))
    <3>1. CASE AddressesFor(m) = {}
      BY <3>1 DEF Resolve
    <3>2. CASE AddressesFor(m) # {}
      <4> DEFINE target == First(AddressesFor(m))
                 N == Cardinality(net.nodes)
      <4>1. PICK f : IsSending(f, n, m)
        BY <1>1, <3>2, SendingExists
      <4>2. N + 1 \in Nat
        <5>1. N \in Nat
          BY <1>1, PortsOfTopology, FS_CardinalityType
        <5> QED
          BY <5>1
      <4>3. /\ Underway(f[N + 1], n, target)
            /\ Resolve(n, m) = IF f[N + 1].end = "arrived" THEN f[N + 1].hops ELSE NoPath
        BY <4>1, <4>2 DEF IsSending
      <4>4. f[N + 1].end = "arrived" => f[N + 1].hops # NoPath
        <5>1. Len(NoPath) = 0
          BY DEF NoPath
        <5> QED
          BY <4>3, <5>1 DEF Underway, IsRoute
      <4>5. f[N + 1].end = "arrived" <=> n \in Delivering(target)
        BY <1>1, <3>2, <4>1, <4>2, ArrivedIsDelivered, DeliveredArrives
      <4> QED
        BY <3>2, <4>3, <4>4, <4>5
    <3> QED
      BY <3>1, <3>2
  <2> QED
    BY <2>1 DEF ResolveIsForwarding
<1> QED
  BY <1>1, SoundAlways, PTL

\* What traceroute shows is a walk from the source to the target, in every
\* topology.
THEOREM HopsWalk ==
  ASSUME RoutingAssumption
  PROVE  Spec => []HopsAreAWalk
<1>1. ASSUME Sound PROVE HopsAreAWalk
  <2>1. ASSUME NEW n \in net.nodes, NEW m \in net.nodes, Resolve(n, m) # NoPath
        PROVE  IsRoute(Resolve(n, m), n, m)
    <3>1. AddressesFor(m) # {}
      BY <2>1 DEF Resolve
    <3> DEFINE target == First(AddressesFor(m))
               N == Cardinality(net.nodes)
    <3>2. PICK f : IsSending(f, n, m)
      BY <1>1, <3>1, SendingExists
    <3>3. N + 1 \in Nat
      <4>1. N \in Nat
        BY <1>1, PortsOfTopology, FS_CardinalityType
      <4> QED
        BY <4>1
    <3>4. /\ Underway(f[N + 1], n, target)
          /\ Resolve(n, m) = IF f[N + 1].end = "arrived" THEN f[N + 1].hops ELSE NoPath
      BY <3>2, <3>3 DEF IsSending
    <3>5. target.port.node = m
      BY <1>1, <3>1, FirstOfNode
    <3>6. IsRoute(f[N + 1].hops, n, m) /\ Resolve(n, m) = f[N + 1].hops
      BY <2>1, <3>4, <3>5 DEF Underway
    <3> QED
      BY <3>6
  <2> SUFFICES ASSUME NEW n \in net.nodes, NEW m \in net.nodes,
                      NEW hops \in {Resolve(n, m)} \ {NoPath}
               PROVE  /\ hops[1] = n /\ Last1(hops) = m
                      /\ \A i \in 1 .. Len(hops) - 1 :
                           \E c \in net.cables : {p.node : p \in c.ends} = {hops[i], hops[i + 1]}
    BY DEF HopsAreAWalk
  <2>2. hops = Resolve(n, m) /\ Resolve(n, m) # NoPath
    OBVIOUS
  <2>3. IsRoute(hops, n, m)
    BY <2>1, <2>2
  <2> QED
    BY <2>3 DEF IsRoute, Cabled, Last1
<1> QED
  BY <1>1, SoundAlways, PTL
=============================================================================
