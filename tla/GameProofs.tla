----------------------------- MODULE GameProofs -----------------------------
(***************************************************************************)
(* Theorems about Game for every catalog, every set of ids and every bound *)
(* on purchases, entries and versions.  The inductive invariant has four   *)
(* parts: the running game is what a load makes of its save (Agree), no    *)
(* two cables have an end in common (CablesApart), kits, cable ids and the *)
(* list of addresses are well formed (WellFormed), and each node has an    *)
(* entry of what was taken for it (Books).                                 *)
(***************************************************************************)
EXTENDS Game, CollectionLemmas

\* The live nodes are the build requests assembled anew, and the topology in
\* use is the one that a load makes.
Agree ==
  /\ \A n \in DOMAIN requests :
       requests[n] = [role |-> requests[n].role, name |-> requests[n].name,
                      kit |-> requests[n].kit]
  /\ nodes = [n \in DOMAIN requests |-> Assembled(requests[n])]
  /\ topo = [nodes |-> DOMAIN requests, cables |-> topo.cables,
             addresses |-> topo.addresses, routes |-> topo.routes]

\* No command puts two cables into one port.
CablesApart ==
  \A c, d \in topo.cables : c # d => c.ends \cap d.ends = {}

IInv == Agree /\ CablesApart

-----------------------------------------------------------------------------
(* The edits of a topology change one field of it.                         *)

Fields(t) == [nodes |-> t.nodes, cables |-> t.cables,
              addresses |-> t.addresses, routes |-> t.routes]

\* Agree says that topo has these fields and no others.
LEMMA AgreeFields ==
  Agree => /\ topo = Fields(topo) /\ topo.nodes = DOMAIN requests
           /\ DOMAIN nodes = DOMAIN requests
BY DEF Agree, Fields

\* The edits of the nodes and the cables.
LEMMA Edits ==
  ASSUME NEW t, t = Fields(t)
  PROVE  /\ \A a, b, id : WithCable(t, a, b, id) =
              [nodes |-> t.nodes, cables |-> t.cables \cup {[ends |-> {a, b}, id |-> id]},
               addresses |-> t.addresses, routes |-> t.routes]
         /\ \A cable : WithoutCable(t, cable) =
              [nodes |-> t.nodes, cables |-> t.cables \ {cable},
               addresses |-> t.addresses, routes |-> t.routes]
         /\ \A ids : [t EXCEPT !.nodes = ids] =
              [nodes |-> ids, cables |-> t.cables, addresses |-> t.addresses,
               routes |-> t.routes]
<1>1. \A a, b, id : WithCable(t, a, b, id) =
        [nodes |-> t.nodes, cables |-> t.cables \cup {[ends |-> {a, b}, id |-> id]},
         addresses |-> t.addresses, routes |-> t.routes]
  BY DEF WithCable, Fields
<1>2. \A cable : WithoutCable(t, cable) =
        [nodes |-> t.nodes, cables |-> t.cables \ {cable},
         addresses |-> t.addresses, routes |-> t.routes]
  BY DEF WithoutCable, Fields
<1>3. \A ids : [t EXCEPT !.nodes = ids] =
        [nodes |-> ids, cables |-> t.cables, addresses |-> t.addresses, routes |-> t.routes]
  BY DEF Fields
<1> QED
  BY <1>1, <1>2, <1>3

\* An address goes to the end of the others.
LEMMA AddressEdit ==
  ASSUME NEW t, t = Fields(t), NEW address, NEW u, u = WithAddress(t, address)
  PROVE  /\ u = Fields(u) /\ u.nodes = t.nodes /\ u.cables = t.cables
         /\ u.routes = t.routes
         /\ u.addresses = Append(Others(t.addresses, address.port), address)
<1>1. u = [t EXCEPT !.addresses = Append(Others(t.addresses, address.port), address)]
  BY DEF WithAddress, Fields
<1> QED
  BY <1>1 DEF Fields

\* The routes are what they were, but for the new one.
LEMMA RouteEdit ==
  ASSUME NEW t, t = Fields(t), NEW route, NEW u, u = WithRoute(t, route)
  PROVE  /\ u = Fields(u) /\ u.nodes = t.nodes /\ u.cables = t.cables
         /\ u.addresses = t.addresses
         /\ \A r \in u.routes : r \in t.routes \/ r = route
<1> DEFINE kept == {old \in t.routes : <<old.node, old.dest, old.plen>>
                                       # <<route.node, route.dest, route.plen>>}
<1>1. u = [t EXCEPT !.routes = kept \cup {route}]
  BY DEF WithRoute, Fields
<1>2. \A r \in kept : r \in t.routes
  OBVIOUS
<1> HIDE DEF kept
<1> QED
  BY <1>1, <1>2 DEF Fields

-----------------------------------------------------------------------------
(* The commands                                                            *)

\* A command that leaves the nodes alone and edits one field of the topology.
LEMMA NetworkStep ==
  ASSUME IInv, topo' = Fields(topo'), topo'.nodes = topo.nodes,
         \A c, d \in topo'.cables : c # d => c.ends \cap d.ends = {},
         UNCHANGED <<nodes, requests>>
  PROVE  IInv'
BY AgreeFields DEF IInv, Agree, CablesApart, Fields

\* A new node: the build request and the assembled node come together, and
\* the topology learns of the node.
LEMMA PlaceStep ==
  ASSUME IInv, NEW n, NEW role, NEW name, NEW kit,
         Place(n, [role |-> role, name |-> name, kit |-> kit])
  PROVE  IInv'
<1> DEFINE request == [role |-> role, name |-> name, kit |-> kit]
<1>1. /\ DOMAIN nodes = DOMAIN requests /\ topo = Fields(topo)
      /\ nodes = [m \in DOMAIN requests |-> Assembled(requests[m])]
      /\ \A m \in DOMAIN requests :
           requests[m] = [role |-> requests[m].role, name |-> requests[m].name,
                          kit |-> requests[m].kit]
  BY AgreeFields DEF IInv, Agree
<1>2. /\ nodes' = [m \in DOMAIN nodes \cup {n} |-> IF m = n THEN Assembled(request) ELSE nodes[m]]
      /\ requests' = [m \in DOMAIN requests \cup {n} |-> IF m = n THEN request ELSE requests[m]]
      /\ topo' = [topo EXCEPT !.nodes = DOMAIN nodes']
  BY DEF Place, With, RefreshTopology
<1>3. /\ request = [role |-> request.role, name |-> request.name, kit |-> request.kit]
  OBVIOUS
<1> HIDE DEF request
<1>4. \A m \in DOMAIN requests' :
        requests'[m] = [role |-> requests'[m].role, name |-> requests'[m].name,
                        kit |-> requests'[m].kit]
  BY <1>1, <1>2, <1>3
<1>5. nodes' = [m \in DOMAIN requests' |-> Assembled(requests'[m])]
  BY <1>1, <1>2
<1>6. topo' = [nodes |-> DOMAIN nodes', cables |-> topo.cables,
               addresses |-> topo.addresses, routes |-> topo.routes]
  BY <1>1, <1>2, Edits
<1>7. /\ topo'.cables = topo.cables /\ topo'.addresses = topo.addresses
      /\ topo'.routes = topo.routes /\ DOMAIN nodes' = DOMAIN requests'
  BY <1>1, <1>2, <1>6
<1> QED
  BY <1>4, <1>5, <1>6, <1>7 DEF IInv, Agree, CablesApart, Assembled

\* A change of the node is made to its build request as well.
LEMMA NodeEditStep ==
  ASSUME IInv, NEW n \in DOMAIN nodes, UNCHANGED topo,
         \/ \E r : /\ nodes' = [nodes EXCEPT ![n].role = r]
                  /\ requests' = [requests EXCEPT ![n].role = r]
         \/ \E name : /\ nodes' = [nodes EXCEPT ![n].name = name]
                     /\ requests' = [requests EXCEPT ![n].name = name]
  PROVE  IInv'
<1>1. /\ DOMAIN nodes = DOMAIN requests
      /\ nodes = [m \in DOMAIN requests |-> Assembled(requests[m])]
      /\ \A m \in DOMAIN requests :
           requests[m] = [role |-> requests[m].role, name |-> requests[m].name,
                          kit |-> requests[m].kit]
  BY AgreeFields DEF IInv, Agree
<1>2. /\ DOMAIN requests' = DOMAIN requests /\ DOMAIN nodes' = DOMAIN nodes
      /\ \A m \in DOMAIN requests \ {n} : requests'[m] = requests[m] /\ nodes'[m] = nodes[m]
      /\ \/ \E r : requests'[n] = [requests[n] EXCEPT !.role = r]
                    /\ nodes'[n] = [nodes[n] EXCEPT !.role = r]
         \/ \E name : requests'[n] = [requests[n] EXCEPT !.name = name]
                       /\ nodes'[n] = [nodes[n] EXCEPT !.name = name]
  BY <1>1, ZenonT(40)
<1>3. /\ requests[n] = [role |-> requests[n].role, name |-> requests[n].name,
                        kit |-> requests[n].kit]
      /\ nodes[n] = [role |-> requests[n].role, name |-> requests[n].name,
                     nics |-> KitNics[requests[n].kit]]
  BY <1>1 DEF Assembled
<1>4. /\ requests'[n] = [role |-> requests'[n].role, name |-> requests'[n].name,
                         kit |-> requests'[n].kit]
      /\ nodes'[n] = Assembled(requests'[n])
  <2>1. CASE \E r : /\ requests'[n] = [requests[n] EXCEPT !.role = r]
                    /\ nodes'[n] = [nodes[n] EXCEPT !.role = r]
    <3>1. PICK r : /\ requests'[n] = [requests[n] EXCEPT !.role = r]
                   /\ nodes'[n] = [nodes[n] EXCEPT !.role = r]
      BY <2>1
    <3>2. /\ requests'[n] = [role |-> r, name |-> requests[n].name, kit |-> requests[n].kit]
          /\ nodes'[n] = [role |-> r, name |-> requests[n].name,
                          nics |-> KitNics[requests[n].kit]]
      BY <1>3, <3>1
    <3> QED
      BY <3>2 DEF Assembled
  <2>2. CASE \E name : /\ requests'[n] = [requests[n] EXCEPT !.name = name]
                       /\ nodes'[n] = [nodes[n] EXCEPT !.name = name]
    <3>1. PICK name : /\ requests'[n] = [requests[n] EXCEPT !.name = name]
                      /\ nodes'[n] = [nodes[n] EXCEPT !.name = name]
      BY <2>2
    <3>2. /\ requests'[n] = [role |-> requests[n].role, name |-> name, kit |-> requests[n].kit]
          /\ nodes'[n] = [role |-> requests[n].role, name |-> name,
                          nics |-> KitNics[requests[n].kit]]
      BY <1>3, <3>1
    <3> QED
      BY <3>2 DEF Assembled
  <2> QED
    BY <1>2, <2>1, <2>2
<1>5. \A m \in DOMAIN requests' :
        /\ requests'[m] = [role |-> requests'[m].role, name |-> requests'[m].name,
                           kit |-> requests'[m].kit]
        /\ nodes'[m] = Assembled(requests'[m])
  BY <1>1, <1>2, <1>4
<1>6. nodes' = [m \in DOMAIN requests' |-> Assembled(requests'[m])]
  <2>1. nodes' = [m \in DOMAIN nodes' |-> nodes'[m]]
    OBVIOUS
  <2> QED
    BY <1>1, <1>2, <1>5, <2>1
<1> QED
  BY <1>2, <1>5, <1>6 DEF IInv, Agree, CablesApart, Assembled

\* A new cable ends in two ports that no cable ends in.
LEMMA ConnectStep ==
  ASSUME IInv, NEW a, NEW b, NEW id, Connect(a, b, id)
  PROVE  IInv'
<1>1. topo = Fields(topo)
  BY AgreeFields DEF IInv
<1>2. /\ topo' = [nodes |-> topo.nodes, cables |-> topo.cables \cup {[ends |-> {a, b}, id |-> id]},
                 addresses |-> topo.addresses, routes |-> topo.routes]
      /\ \A c \in topo.cables : a \notin c.ends /\ b \notin c.ends
      /\ UNCHANGED <<nodes, requests>>
  <2>1. WithCable(topo, a, b, id) =
          [nodes |-> topo.nodes, cables |-> topo.cables \cup {[ends |-> {a, b}, id |-> id]},
           addresses |-> topo.addresses, routes |-> topo.routes]
    BY <1>1, Edits
  <2> QED
    BY <2>1 DEF Connect, CanAddCable, CablesAt, NetworkChanged
<1>3. topo' = Fields(topo') /\ topo'.nodes = topo.nodes
  BY <1>2 DEF Fields
<1>4. \A c, d \in topo'.cables : c # d => c.ends \cap d.ends = {}
  <2> DEFINE new == [ends |-> {a, b}, id |-> id]
  <2>1. topo'.cables = topo.cables \cup {new} /\ new.ends = {a, b}
    BY <1>2
  <2> HIDE DEF new
  <2> QED
    BY <1>2, <2>1 DEF IInv, CablesApart
<1> QED
  BY <1>2, <1>3, <1>4, NetworkStep

\* The other edits put no cable anywhere.
LEMMA EditStep ==
  ASSUME IInv,
         \/ \E cable \in topo.cables : Disconnect(cable)
         \/ \E port, address : AddAddress(port, address)
         \/ \E n, r, iface : AddRoute(n, r, iface)
  PROVE  IInv'
<1>1. topo = Fields(topo) /\ \A c, d \in topo.cables : c # d => c.ends \cap d.ends = {}
  BY AgreeFields DEF IInv, CablesApart
<1>2. CASE \E cable \in topo.cables : Disconnect(cable)
  <2>1. PICK cable \in topo.cables : Disconnect(cable)
    BY <1>2
  <2>2. /\ topo' = [nodes |-> topo.nodes, cables |-> topo.cables \ {cable},
                   addresses |-> topo.addresses, routes |-> topo.routes]
        /\ UNCHANGED <<nodes, requests>>
    BY <1>1, <2>1, Edits DEF Disconnect, NetworkChanged
  <2>3. topo' = Fields(topo') /\ topo'.nodes = topo.nodes /\ topo'.cables = topo.cables \ {cable}
    BY <2>2 DEF Fields
  <2> QED
    BY <1>1, <2>2, <2>3, NetworkStep
<1>3. CASE \E port, address : AddAddress(port, address)
  <2>1. PICK address : topo' = WithAddress(topo, address)
    BY <1>3 DEF AddAddress
  <2>2. UNCHANGED <<nodes, requests>>
    BY <1>3 DEF AddAddress, NetworkChanged
  <2>3. topo' = Fields(topo') /\ topo'.nodes = topo.nodes /\ topo'.cables = topo.cables
    BY <1>1, <2>1, AddressEdit, ZenonT(40)
  <2> QED
    BY <1>1, <2>2, <2>3, NetworkStep
<1>4. CASE \E n, r, iface : AddRoute(n, r, iface)
  <2>1. PICK route : topo' = WithRoute(topo, route)
    BY <1>4 DEF AddRoute
  <2>2. UNCHANGED <<nodes, requests>>
    BY <1>4 DEF AddRoute, NetworkChanged
  <2>3. topo' = Fields(topo') /\ topo'.nodes = topo.nodes /\ topo'.cables = topo.cables
    BY <1>1, <2>1, RouteEdit
  <2> QED
    BY <1>1, <2>2, <2>3, NetworkStep
<1> QED
  BY <1>2, <1>3, <1>4

\* What a load makes of the save is what runs.
LEMMA LoadsWhatRuns ==
  IInv => /\ NodesOf(SaveData) = nodes /\ TopologyOf(SaveData) = topo
          /\ Loads(SaveData) <=> Mentioned(topo) \subseteq LivePorts
<1> SUFFICES ASSUME IInv
             PROVE  /\ NodesOf(SaveData) = nodes /\ TopologyOf(SaveData) = topo
                    /\ Loads(SaveData) <=> Mentioned(topo) \subseteq LivePorts
  OBVIOUS
<1>1. /\ SaveData.requests = requests /\ SaveData.cables = topo.cables
      /\ SaveData.addresses = topo.addresses /\ SaveData.routes = topo.routes
  BY DEF SaveData
<1>2. NodesOf(SaveData) = nodes /\ TopologyOf(SaveData) = topo
  BY <1>1 DEF NodesOf, TopologyOf, IInv, Agree
<1> QED
  BY <1>2 DEF Loads, Repeatable, LivePorts, IInv, CablesApart

\* Every command keeps the game and its save in agreement.
LEMMA Inductive == IInv /\ [Next]_vars => IInv'
<1> SUFFICES ASSUME IInv, [Next]_vars PROVE IInv'
  OBVIOUS
<1>1. CASE UNCHANGED <<nodes, requests, topo>>
  BY <1>1 DEF IInv, Agree, CablesApart, Assembled
<1>2. ASSUME NEW n \in Ids, NEW r \in Prebuilt, AddNode(n, r) PROVE IInv'
  BY <1>2, PlaceStep DEF AddNode, DefaultRequest
<1>3. ASSUME NEW n \in Ids, NEW k \in Kits, NEW r \in Roles, NEW name, BuildNode(n, k, r, name)
      PROVE  IInv'
  BY <1>3, PlaceStep DEF BuildNode
<1>4. ASSUME NEW n \in Ids, NEW r \in Roles, SetNodeRole(n, r) PROVE IInv'
  BY <1>4, NodeEditStep DEF SetNodeRole
<1>5. ASSUME NEW n \in Ids, NEW name \in GivenNames, RenameServer(n, name) PROVE IInv'
  BY <1>5, NodeEditStep DEF RenameServer
<1>6. CASE Reload
  BY <1>1, <1>6, LoadsWhatRuns DEF Reload
<1>7. ASSUME NEW a \in Assets, NEW q \in Quantities, Buy(a, q) PROVE IInv'
  BY <1>1, <1>7 DEF Buy
<1>8. CASE Unloadable \/ UNCHANGED vars
  BY <1>1, <1>8 DEF Unloadable, vars
<1> QED
  BY <1>2, <1>3, <1>4, <1>5, <1>6, <1>7, <1>8, ConnectStep, EditStep DEF Next

\* In the beginning there are no nodes and no cables.
LEMMA InitIInv == Init => IInv
<1> SUFFICES ASSUME Init PROVE IInv
  OBVIOUS
<1>1. requests = <<>> /\ nodes = <<>> /\ topo = EmptyTopology({})
  BY DEF Init
<1>2. DOMAIN requests = {} /\ nodes = [n \in DOMAIN requests |-> Assembled(requests[n])]
  BY <1>1
<1>3. topo = [nodes |-> {}, cables |-> {}, addresses |-> <<>>, routes |-> {}]
  BY <1>1 DEF EmptyTopology
<1> QED
  BY <1>2, <1>3 DEF IInv, Agree, CablesApart

-----------------------------------------------------------------------------
(* What the player bought                                                  *)

\* The books: amounts are natural numbers, the network is finite, each node
\* has an entry of what was taken for it, and nothing is lost or doubled.
Books ==
  /\ stock \in [Assets -> Nat] /\ bought \in [Assets -> Nat]
  /\ IsFiniteSet(DOMAIN origin) /\ IsFiniteSet(topo.cables)
  /\ DOMAIN origin = DOMAIN nodes
  /\ \A n \in DOMAIN origin : TakenFor(origin[n]) \in [Assets -> Nat]
  /\ AssetsConserved

\* The two parts of Used, each a natural number.
LEMMA UsedParts ==
  ASSUME Books, NEW a \in Assets
  PROVE  /\ [n \in DOMAIN origin |-> TakenFor(origin[n])[a]] \in [DOMAIN origin -> Nat]
         /\ SumOf([n \in DOMAIN origin |-> TakenFor(origin[n])[a]]) \in Nat
         /\ IsFiniteSet({c \in topo.cables : c.id = a})
         /\ Cardinality({c \in topo.cables : c.id = a}) \in Nat
         /\ Used(a) \in Nat
<1>1. [n \in DOMAIN origin |-> TakenFor(origin[n])[a]] \in [DOMAIN origin -> Nat]
  BY DEF Books
<1>2. SumOf([n \in DOMAIN origin |-> TakenFor(origin[n])[a]]) \in Nat
  <2> DEFINE f == [n \in DOMAIN origin |-> TakenFor(origin[n])[a]]
  <2>1. f \in [DOMAIN origin -> Nat] /\ IsFiniteSet(DOMAIN origin)
    BY <1>1 DEF Books
  <2> HIDE DEF f
  <2>2. SumOf(f) \in Nat
    BY <2>1, SumType
  <2> QED
    BY <2>2 DEF f
<1>3. IsFiniteSet({c \in topo.cables : c.id = a})
  BY FS_Subset DEF Books
<1>4. Cardinality({c \in topo.cables : c.id = a}) \in Nat
  BY <1>3, FS_CardinalityType
<1>5. Used(a) \in Nat
  <2> DEFINE x == SumOf([n \in DOMAIN origin |-> TakenFor(origin[n])[a]])
             y == Cardinality({c \in topo.cables : c.id = a})
  <2>1. Used(a) = x + y /\ x \in Nat /\ y \in Nat
    BY <1>2, <1>4 DEF Used
  <2> HIDE DEF x, y
  <2> QED
    BY <2>1
<1> QED
  BY <1>1, <1>2, <1>3, <1>4, <1>5

\* A new node takes from the stock what its entry says.
LEMMA TakeStep ==
  ASSUME Books, NEW n, NEW made, NEW amounts \in [Assets -> Nat],
         n \notin DOMAIN nodes, DOMAIN nodes' = DOMAIN nodes \cup {n},
         TakenFor(made) = amounts, Require(amounts), Consume(amounts),
         origin' = With(origin, n, made), topo'.cables = topo.cables, bought' = bought
  PROVE  Books'
<1> DEFINE D == DOMAIN origin
<1>1. /\ stock \in [Assets -> Nat] /\ bought \in [Assets -> Nat]
      /\ IsFiniteSet(D) /\ D = DOMAIN nodes /\ n \notin D
      /\ \A m \in D : TakenFor(origin[m]) \in [Assets -> Nat]
      /\ \A a \in Assets : bought[a] = stock[a] + Used(a)
  BY DEF Books, AssetsConserved
<1>2. /\ DOMAIN origin' = D \cup {n} /\ origin'[n] = made
      /\ \A m \in D : origin'[m] = origin[m]
  BY <1>1 DEF With
<1>3. IsFiniteSet(D \cup {n})
  BY <1>1, FS_AddElement
<1>4. \A m \in D \cup {n} : TakenFor(origin'[m]) \in [Assets -> Nat]
  BY <1>1, <1>2
<1>5. stock' \in [Assets -> Nat] /\ \A a \in Assets : stock'[a] = stock[a] - amounts[a]
  BY <1>1 DEF Require, Consume
<1>6. ASSUME NEW a \in Assets PROVE Used(a)' = Used(a) + amounts[a]
  <2> DEFINE g == [m \in D \cup {n} |-> TakenFor(origin'[m])[a]]
             f == [m \in D |-> TakenFor(origin[m])[a]]
  <2>1. g \in [D \cup {n} -> Nat] /\ g[n] = amounts[a]
    BY <1>2, <1>4
  <2>2. [m \in (D \cup {n}) \ {n} |-> g[m]] = f
    BY <1>1, <1>2
  <2>3. SumOf(f) \in Nat
    BY <1>1, UsedParts
  <2>4. SumOf(g) = SumOf(f) + amounts[a]
    <3> HIDE DEF g, f
    <3>1. SumOf(g) = SumOf([m \in (D \cup {n}) \ {n} |-> g[m]]) + g[n]
      BY <1>3, <2>1, SumSplit
    <3> QED
      BY <2>1, <2>2, <3>1
  <2>5. Used(a)' = SumOf(g) + Cardinality({c \in topo.cables : c.id = a})
    BY <1>2 DEF Used
  <2>6. Used(a) = SumOf(f) + Cardinality({c \in topo.cables : c.id = a})
    BY DEF Used
  <2>7. Cardinality({c \in topo.cables : c.id = a}) \in Nat /\ amounts[a] \in Nat
    BY UsedParts
  <2> HIDE DEF g, f
  <2> QED
    BY <2>3, <2>4, <2>5, <2>6, <2>7
<1>7. \A a \in Assets : Used(a) \in Nat
  BY UsedParts
<1>8. \A a \in Assets : bought'[a] = stock'[a] + Used(a)'
  <2> TAKE a \in Assets
  <2>1. stock[a] \in Nat /\ amounts[a] \in Nat /\ Used(a) \in Nat
    BY <1>1, <1>7
  <2> QED
    BY <1>1, <1>5, <1>6, <2>1
<1>9. AssetsConserved'
  BY <1>8 DEF AssetsConserved
<1> QED
  BY <1>1, <1>2, <1>3, <1>4, <1>5, <1>9 DEF Books

\* A cable that is laid leaves the stock, and comes back when it is taken up.
LEMMA CableStep ==
  ASSUME Books, NEW cable, cable.id \in Assets,
         UNCHANGED <<nodes, origin, bought>>,
         \/ /\ cable \notin topo.cables /\ topo'.cables = topo.cables \cup {cable}
            /\ Require(Some(cable.id, 1)) /\ Consume(Some(cable.id, 1))
         \/ /\ cable \in topo.cables /\ topo'.cables = topo.cables \ {cable}
            /\ Add(Some(cable.id, 1))
  PROVE  Books'
<1> DEFINE id == cable.id
           Of(a) == {c \in topo.cables : c.id = a}
           Then(a) == {c \in topo'.cables : c.id = a}
           Sum(a) == SumOf([n \in DOMAIN origin |-> TakenFor(origin[n])[a]])
<1>1. /\ stock \in [Assets -> Nat] /\ bought \in [Assets -> Nat]
      /\ IsFiniteSet(DOMAIN origin) /\ IsFiniteSet(topo.cables)
      /\ DOMAIN origin = DOMAIN nodes
      /\ \A m \in DOMAIN origin : TakenFor(origin[m]) \in [Assets -> Nat]
      /\ \A a \in Assets : bought[a] = stock[a] + Used(a)
  BY DEF Books, AssetsConserved
<1>2. IsFiniteSet(topo'.cables)
  BY <1>1, FS_AddElement, FS_RemoveElement
<1>3. \A a \in Assets : /\ Sum(a) \in Nat /\ IsFiniteSet(Of(a)) /\ Cardinality(Of(a)) \in Nat
  BY UsedParts
<1>4. \A a \in Assets : /\ Used(a) = Sum(a) + Cardinality(Of(a))
                        /\ Used(a)' = Sum(a) + Cardinality(Then(a))
  BY DEF Used
<1>5. ASSUME NEW a \in Assets, a # id
      PROVE  Cardinality(Then(a)) = Cardinality(Of(a)) /\ stock'[a] = stock[a]
  <2>1. Then(a) = Of(a)
    BY <1>5
  <2>2. stock'[a] = stock[a]
    BY <1>1, <1>5 DEF Some, Consume, Add
  <2> QED
    BY <2>1, <2>2
<1>6. \/ /\ Cardinality(Then(id)) = Cardinality(Of(id)) + 1
         /\ stock[id] >= 1 /\ stock'[id] = stock[id] - 1
      \/ /\ Cardinality(Then(id)) = Cardinality(Of(id)) - 1
         /\ stock'[id] = stock[id] + 1
  <2>1. CASE /\ cable \notin topo.cables /\ topo'.cables = topo.cables \cup {cable}
             /\ Require(Some(id, 1)) /\ Consume(Some(id, 1))
    <3>1. Then(id) = Of(id) \cup {cable} /\ cable \notin Of(id)
      BY <2>1
    <3>2. Cardinality(Of(id) \cup {cable}) = Cardinality(Of(id)) + 1
      <4> HIDE DEF Of
      <4> QED
        BY <1>3, <3>1, FS_AddElement
    <3>3. stock[id] >= 1 /\ stock'[id] = stock[id] - 1
      BY <1>1, <2>1 DEF Some, Require, Consume
    <3> QED
      BY <3>1, <3>2, <3>3
  <2>2. CASE /\ cable \in topo.cables /\ topo'.cables = topo.cables \ {cable}
             /\ Add(Some(id, 1))
    <3>1. Then(id) = Of(id) \ {cable} /\ cable \in Of(id)
      BY <2>2
    <3>2. Cardinality(Of(id) \ {cable}) = Cardinality(Of(id)) - 1
      <4> HIDE DEF Of
      <4> QED
        BY <1>3, <3>1, FS_RemoveElement
    <3>3. stock'[id] = stock[id] + 1
      BY <1>1, <2>2 DEF Some, Add
    <3> QED
      BY <3>1, <3>2, <3>3
  <2> QED
    BY <2>1, <2>2
<1>7. stock' \in [Assets -> Nat]
  BY <1>1 DEF Some, Require, Consume, Add
<1> HIDE DEF Of, Then, Sum
<1>8. \A a \in Assets : bought'[a] = stock'[a] + Used(a)'
  <2> TAKE a \in Assets
  <2>1. stock[a] \in Nat /\ Sum(a) \in Nat /\ Cardinality(Of(a)) \in Nat
    BY <1>1, <1>3
  <2>2. /\ bought[a] = stock[a] + Used(a) /\ Used(a) = Sum(a) + Cardinality(Of(a))
        /\ Used(a)' = Sum(a) + Cardinality(Then(a)) /\ bought' = bought
    BY <1>1, <1>4
  <2> QED
    BY <1>5, <1>6, <2>1, <2>2
<1>9. AssetsConserved'
  BY <1>8 DEF AssetsConserved
<1> QED
  BY <1>1, <1>2, <1>7, <1>9 DEF Books

\* A command that lays no cable and makes no node.
LEMMA BooksKept ==
  ASSUME Books, UNCHANGED <<stock, bought, origin>>, topo'.cables = topo.cables,
         DOMAIN nodes' = DOMAIN nodes
  PROVE  Books'
<1>1. AssetsConserved'
  <2>1. \A a \in Assets : Used(a)' = Used(a)
    BY DEF Used
  <2> QED
    BY <2>1 DEF Books, AssetsConserved
<1> QED
  BY <1>1 DEF Books

\* What is bought is on stock.
LEMMA BuyStep ==
  ASSUME Books, NEW a \in Assets, NEW q \in Quantities, Buy(a, q)
  PROVE  Books'
<1>1. /\ stock \in [Assets -> Nat] /\ bought \in [Assets -> Nat] /\ q \in Nat
      /\ \A x \in Assets : bought[x] = stock[x] + Used(x) /\ Used(x) \in Nat
  BY UsedParts, GameAssumption DEF Books, AssetsConserved
<1>2. /\ stock' \in [Assets -> Nat] /\ bought' \in [Assets -> Nat]
      /\ stock'[a] = stock[a] + q /\ bought'[a] = bought[a] + q
      /\ \A x \in Assets \ {a} : stock'[x] = stock[x] /\ bought'[x] = bought[x]
  BY <1>1 DEF Buy, Add, Some
<1>3. \A x \in Assets : Used(x)' = Used(x)
  BY DEF Buy, Used
<1>4. \A x \in Assets : bought'[x] = stock'[x] + Used(x)'
  <2> TAKE x \in Assets
  <2>1. stock[x] \in Nat /\ Used(x) \in Nat /\ bought[x] = stock[x] + Used(x)
    BY <1>1
  <2> QED
    BY <1>1, <1>2, <1>3, <2>1
<1>5. AssetsConserved'
  BY <1>4 DEF AssetsConserved
<1> QED
  BY <1>2, <1>5 DEF Books, Buy

\* A new node takes a server from the stock, or the parts of its kit.
LEMMA NewNodeStep ==
  ASSUME IInv, Books,
         \/ \E n \in Ids, r \in Prebuilt : AddNode(n, r)
         \/ \E n \in Ids, k \in Kits, r \in Roles, name \in GivenNames \cup {NoName} :
              BuildNode(n, k, r, name)
  PROVE  Books'
<1>1. ASSUME NEW n, NEW request, Place(n, request)
      PROVE  /\ n \notin DOMAIN nodes /\ DOMAIN nodes' = DOMAIN nodes \cup {n}
             /\ topo'.cables = topo.cables
  <2>1. topo' = [topo EXCEPT !.nodes = DOMAIN nodes']
    BY <1>1 DEF Place, RefreshTopology
  <2>2. topo'.cables = topo.cables
    BY <2>1, AgreeFields, Edits DEF IInv
  <2> QED
    BY <1>1, <2>2 DEF Place, With
<1>2. CASE \E n \in Ids, r \in Prebuilt : AddNode(n, r)
  <2>1. PICK n \in Ids, r \in Prebuilt : AddNode(n, r)
    BY <1>2
  <2>2. Some(r, 1) \in [Assets -> Nat] /\ TakenFor(<<"server", r>>) = Some(r, 1)
    BY DEF Some, TakenFor
  <2>3. /\ Require(Some(r, 1)) /\ Consume(Some(r, 1)) /\ bought' = bought
        /\ origin' = With(origin, n, <<"server", r>>)
        /\ Place(n, DefaultRequest(r))
    BY <2>1 DEF AddNode
  <2> QED
    BY <1>1, <2>2, <2>3, TakeStep
<1>3. CASE \E n \in Ids, k \in Kits, r \in Roles, name \in GivenNames \cup {NoName} :
              BuildNode(n, k, r, name)
  <2>1. PICK n \in Ids, k \in Kits, r \in Roles, name \in GivenNames \cup {NoName} :
         BuildNode(n, k, r, name)
    BY <1>3
  <2>2. /\ RequiredParts(k) \in [Assets -> Nat]
        /\ TakenFor(<<"kit", k>>) = RequiredParts(k)
    BY GameAssumption DEF RequiredParts, TakenFor
  <2>3. /\ Require(RequiredParts(k)) /\ Consume(RequiredParts(k)) /\ bought' = bought
        /\ origin' = With(origin, n, <<"kit", k>>)
        /\ Place(n, [role |-> r, name |-> NameFor(name, r), kit |-> k])
    BY <2>1 DEF BuildNode
  <2> QED
    BY <1>1, <2>2, <2>3, TakeStep
<1> QED
  BY <1>2, <1>3

\* Every command keeps the books.  Two cables never are the same record,
\* since a new one ends where no cable did.
LEMMA BooksStep ==
  ASSUME IInv, Books, [Next]_vars, \A c \in topo.cables : c.id \in CableIds
  PROVE  Books'
<1>1. CASE UNCHANGED <<stock, nodes, topo, bought, origin>>
  BY <1>1, BooksKept
<1>2. ASSUME NEW n, NEW r, SetNodeRole(n, r) PROVE Books'
  BY <1>2, BooksKept DEF SetNodeRole
<1>3. ASSUME NEW n, NEW name, RenameServer(n, name) PROVE Books'
  BY <1>3, BooksKept DEF RenameServer
<1>4. ASSUME NEW a, NEW b, NEW id \in CableIds, Connect(a, b, id) PROVE Books'
  <2> DEFINE cable == [ends |-> {a, b}, id |-> id]
  <2>1. /\ Require(Some(id, 1)) /\ Consume(Some(id, 1))
        /\ UNCHANGED <<nodes, origin, bought>>
        /\ topo' = WithCable(topo, a, b, id) /\ CablesAt(topo, a) = {}
    BY <1>4 DEF Connect, NetworkChanged, CanAddCable
  <2>2. topo'.cables = topo.cables \cup {cable}
    BY <2>1, AgreeFields, Edits DEF IInv
  <2>3. cable.id = id /\ id \in Assets /\ a \in cable.ends
    BY DEF Assets
  <2> HIDE DEF cable
  <2>4. cable \notin topo.cables
    BY <2>1, <2>3 DEF CablesAt
  <2> QED
    BY <2>1, <2>2, <2>3, <2>4, CableStep
<1>5. ASSUME NEW cable \in topo.cables, Disconnect(cable) PROVE Books'
  <2>1. /\ Add(Some(cable.id, 1)) /\ UNCHANGED <<nodes, origin, bought>>
        /\ topo' = WithoutCable(topo, cable)
    BY <1>5 DEF Disconnect, NetworkChanged
  <2>2. topo'.cables = topo.cables \ {cable}
    BY <2>1, AgreeFields, Edits DEF IInv
  <2>3. cable.id \in Assets
    BY DEF Assets
  <2> QED
    BY <2>1, <2>2, <2>3, CableStep
<1>6. ASSUME NEW port, NEW address, AddAddress(port, address) PROVE Books'
  <2>1. topo'.cables = topo.cables
    <3>1. PICK x : topo' = WithAddress(topo, x)
      BY <1>6 DEF AddAddress
    <3> QED
      BY <3>1, AgreeFields, AddressEdit, ZenonT(40) DEF IInv
  <2> QED
    BY <1>6, <2>1, BooksKept DEF AddAddress, NetworkChanged
<1>7. ASSUME NEW n, NEW r, NEW iface, AddRoute(n, r, iface) PROVE Books'
  <2>1. topo'.cables = topo.cables
    <3>1. PICK x : topo' = WithRoute(topo, x)
      BY <1>7 DEF AddRoute
    <3> QED
      BY <3>1, AgreeFields, RouteEdit DEF IInv
  <2> QED
    BY <1>7, <2>1, BooksKept DEF AddRoute, NetworkChanged
<1>8. CASE Reload
  BY <1>1, <1>8, LoadsWhatRuns DEF Reload
<1>9. CASE Unloadable \/ UNCHANGED vars
  BY <1>1, <1>9 DEF Unloadable, vars
<1> QED
  BY <1>2, <1>3, <1>4, <1>5, <1>6, <1>7, <1>8, <1>9, NewNodeStep, BuyStep DEF Next

\* In the beginning nothing was bought and nothing is there.
LEMMA InitBooks == Init => Books
<1> SUFFICES ASSUME Init PROVE Books
  OBVIOUS
<1>1. /\ stock = [a \in Assets |-> 0] /\ bought = [a \in Assets |-> 0]
      /\ DOMAIN origin = {} /\ DOMAIN nodes = {} /\ topo.cables = {}
  BY DEF Init, EmptyTopology
<1>2. \A a \in Assets : Used(a) = 0
  <2> TAKE a \in Assets
  <2> DEFINE f == [n \in DOMAIN origin |-> TakenFor(origin[n])[a]]
  <2>1. DOMAIN f = {} /\ {c \in topo.cables : c.id = a} = {}
    BY <1>1
  <2>2. Used(a) = SumOf(f) + Cardinality({})
    BY <2>1 DEF Used
  <2> HIDE DEF f
  <2>3. SumOf(f) = 0
    BY <2>1, SumOfZeros
  <2> QED
    BY <2>2, <2>3, FS_EmptySet
<1> QED
  BY <1>1, <1>2, FS_EmptySet DEF Books, AssetsConserved

-----------------------------------------------------------------------------
(* What the topology lists                                                 *)

\* What is left of the addresses was among them.
LEMMA OthersAreOld ==
  ASSUME NEW S, NEW s \in Seq(S), NEW port
  PROVE  Others(s, port) \in Seq(S)
BY KeptElements DEF Others

\* Kits come from the catalog, cables from the shop, and the addresses are a
\* sequence.
WellFormed ==
  /\ \A n \in DOMAIN requests : requests[n].kit \in Kits
  /\ \A c \in topo.cables : c.id \in CableIds
  /\ topo.addresses \in Seq(ToSet(topo.addresses))

\* After an edit each address is one of before or the new one.
LEMMA AddressesAfter ==
  ASSUME IInv, WellFormed, NEW address, topo' = WithAddress(topo, address)
  PROVE  /\ topo'.addresses \in Seq(ToSet(topo'.addresses))
         /\ \A i \in DOMAIN topo'.addresses :
              \/ topo'.addresses[i] = address
              \/ \E j \in DOMAIN topo.addresses : topo'.addresses[i] = topo.addresses[j]
<1> DEFINE Old == ToSet(topo.addresses)
           left == Others(topo.addresses, address.port)
<1>1. topo'.addresses = Append(left, address)
  BY AgreeFields, AddressEdit DEF IInv
<1>2. left \in Seq(Old)
  <2> HIDE DEF Old
  <2>1. topo.addresses \in Seq(Old)
    BY DEF WellFormed, Old
  <2> QED
    BY <2>1, OthersAreOld
<1>3. \A x \in Old : \E j \in DOMAIN topo.addresses : x = topo.addresses[j]
  BY DEF ToSet
<1> HIDE DEF Old, left
<1>4. left \in Seq(Old \cup {address}) /\ address \in Old \cup {address}
  BY <1>2
<1>5. topo'.addresses \in Seq(Old \cup {address})
  BY <1>1, <1>4
<1>6. topo'.addresses \in Seq(ToSet(topo'.addresses))
  BY <1>5, SetOfMembers
<1>7. \A i \in DOMAIN topo'.addresses : topo'.addresses[i] \in Old \cup {address}
  BY <1>5
<1> QED
  BY <1>3, <1>6, <1>7

\* Every command keeps the data well formed.
LEMMA WellFormedStep ==
  ASSUME IInv, WellFormed, [Next]_vars
  PROVE  WellFormed'
<1>1. /\ topo = Fields(topo) /\ DOMAIN nodes = DOMAIN requests
      /\ \A n \in DOMAIN requests : requests[n].kit \in Kits
      /\ \A c \in topo.cables : c.id \in CableIds
      /\ topo.addresses \in Seq(ToSet(topo.addresses))
  BY AgreeFields DEF IInv, WellFormed
<1>2. CASE UNCHANGED <<requests, topo>>
  BY <1>1, <1>2 DEF WellFormed
<1>3. ASSUME NEW n, NEW request, request.kit \in Kits, Place(n, request) PROVE WellFormed'
  <2>1. topo'.cables = topo.cables /\ topo'.addresses = topo.addresses
    <3>1. topo' = [topo EXCEPT !.nodes = DOMAIN nodes']
      BY <1>3 DEF Place, RefreshTopology
    <3> QED
      BY <1>1, <3>1, Edits
  <2>2. \A m \in DOMAIN requests' : requests'[m].kit \in Kits
    BY <1>1, <1>3 DEF Place, With
  <2> QED
    BY <1>1, <2>1, <2>2 DEF WellFormed
<1>4. ASSUME NEW n, NEW r \in Prebuilt, AddNode(n, r) PROVE WellFormed'
  <2>1. DefaultRequest(r).kit \in Kits
    BY GameAssumption DEF DefaultRequest
  <2> QED
    BY <1>3, <1>4, <2>1 DEF AddNode
<1>5. ASSUME NEW n, NEW k \in Kits, NEW r, NEW name, BuildNode(n, k, r, name) PROVE WellFormed'
  BY <1>3, <1>5 DEF BuildNode
<1>6. ASSUME NEW n, NEW r, SetNodeRole(n, r) \/ RenameServer(n, r) PROVE WellFormed'
  <2>1. /\ UNCHANGED topo
        /\ \/ requests' = [requests EXCEPT ![n].role = r]
           \/ requests' = [requests EXCEPT ![n].name = Given(r)]
    BY <1>6 DEF SetNodeRole, RenameServer
  <2>2. \A m \in DOMAIN requests : requests[m] = [role |-> requests[m].role,
          name |-> requests[m].name, kit |-> requests[m].kit]
    BY DEF IInv, Agree
  <2>3. DOMAIN requests' = DOMAIN requests /\ \A m \in DOMAIN requests : requests'[m].kit = requests[m].kit
    BY <2>1, <2>2
  <2> QED
    BY <1>1, <2>1, <2>3 DEF WellFormed
<1>7. ASSUME NEW a, NEW b, NEW id \in CableIds, Connect(a, b, id) PROVE WellFormed'
  <2>1. topo' = WithCable(topo, a, b, id) /\ UNCHANGED requests
    BY <1>7 DEF Connect, NetworkChanged
  <2>2. /\ topo'.cables = topo.cables \cup {[ends |-> {a, b}, id |-> id]}
        /\ topo'.addresses = topo.addresses
    BY <1>1, <2>1, Edits
  <2> QED
    BY <1>1, <2>1, <2>2 DEF WellFormed
<1>8. ASSUME NEW cable \in topo.cables, Disconnect(cable) PROVE WellFormed'
  <2>1. topo' = WithoutCable(topo, cable) /\ UNCHANGED requests
    BY <1>8 DEF Disconnect, NetworkChanged
  <2>2. topo'.cables = topo.cables \ {cable} /\ topo'.addresses = topo.addresses
    BY <1>1, <2>1, Edits
  <2> QED
    BY <1>1, <2>1, <2>2 DEF WellFormed
<1>9. ASSUME NEW port, NEW address, AddAddress(port, address) PROVE WellFormed'
  <2>1. PICK x : topo' = WithAddress(topo, x) /\ UNCHANGED requests
    BY <1>9 DEF AddAddress, NetworkChanged
  <2>2. topo'.cables = topo.cables
    BY <1>1, <2>1, AddressEdit
  <2> QED
    BY <1>1, <2>1, <2>2, AddressesAfter DEF WellFormed
<1>10. ASSUME NEW n, NEW r, NEW iface, AddRoute(n, r, iface) PROVE WellFormed'
  <2>1. PICK x : topo' = WithRoute(topo, x) /\ UNCHANGED requests
    BY <1>10 DEF AddRoute, NetworkChanged
  <2>2. topo'.cables = topo.cables /\ topo'.addresses = topo.addresses
    BY <1>1, <2>1, RouteEdit
  <2> QED
    BY <1>1, <2>1, <2>2 DEF WellFormed
<1>11. CASE Reload
  BY <1>2, <1>11, LoadsWhatRuns DEF Reload
<1>12. ASSUME NEW a, NEW q, Buy(a, q) PROVE WellFormed'
  BY <1>2, <1>12 DEF Buy
<1>13. CASE Unloadable \/ UNCHANGED vars
  BY <1>2, <1>13 DEF Unloadable, vars
<1> QED
  BY <1>4, <1>5, <1>6, <1>7, <1>8, <1>9, <1>10, <1>11, <1>12, <1>13 DEF Next

\* Nodes that keep role and interfaces keep their ports.
LEMMA PortsLast ==
  ASSUME NEW f, NEW g, NEW t, NEW u, t.nodes \subseteq u.nodes,
         \A n \in t.nodes : f[n].role = g[n].role /\ f[n].nics = g[n].nics
  PROVE  Ports(f, t) \subseteq Ports(g, u)
<1>1. ASSUME NEW n \in t.nodes PROVE PortNames(f[n]) = PortNames(g[n])
  BY DEF PortNames, IsSwitch, TotalPorts
<1>2. \A n \in t.nodes : PortsOf(f, n) = PortsOf(g, n)
  BY <1>1 DEF PortsOf
<1> QED
  BY <1>2 DEF Ports

\* The three ways in which a topology mentions a port.
LEMMA WaysToMention ==
  ASSUME NEW t, NEW q
  PROVE  q \in Mentioned(t) <=>
           \/ \E c \in t.cables : q \in c.ends
           \/ \E i \in DOMAIN t.addresses : q = t.addresses[i].port
           \/ \E r \in t.routes : r.iface # NoIface /\ q = [node |-> r.node, name |-> r.iface]
<1> DEFINE A == UNION {c.ends : c \in t.cables}
           B == {t.addresses[i].port : i \in DOMAIN t.addresses}
           C == {[node |-> r.node, name |-> r.iface] : r \in {x \in t.routes : x.iface # NoIface}}
<1>1. q \in A <=> \E c \in t.cables : q \in c.ends
  OBVIOUS
<1>2. q \in B <=> \E i \in DOMAIN t.addresses : q = t.addresses[i].port
  OBVIOUS
<1>3. q \in C <=> \E r \in t.routes : /\ r.iface # NoIface
                                       /\ q = [node |-> r.node, name |-> r.iface]
  OBVIOUS
<1>4. Mentioned(t) = A \cup B \cup C
  BY DEF Mentioned
<1> HIDE DEF A, B, C
<1> QED
  BY <1>1, <1>2, <1>3, <1>4

\* While every node keeps its role, no command strands a port.
LEMMA StrandStep ==
  ASSUME IInv, WellFormed, [Next]_vars, Mentioned(topo) \subseteq LivePorts,
         \A n \in DOMAIN nodes : nodes'[n].role = nodes[n].role
  PROVE  Mentioned(topo') \subseteq LivePorts'
<1>1. topo = Fields(topo) /\ topo.nodes = DOMAIN nodes
  BY AgreeFields DEF IInv
<1>2. CASE UNCHANGED <<nodes, topo>>
  BY <1>2 DEF LivePorts, Ports, PortsOf, PortNames
<1>3. ASSUME NEW n, NEW request, Place(n, request) PROVE Mentioned(topo') \subseteq LivePorts'
  <2>1. topo' = [topo EXCEPT !.nodes = DOMAIN nodes']
    BY <1>3 DEF Place, RefreshTopology
  <2>2. /\ topo'.cables = topo.cables /\ topo'.addresses = topo.addresses
        /\ topo'.routes = topo.routes /\ topo'.nodes = DOMAIN nodes'
    BY <1>1, <2>1, Edits
  <2>3. Mentioned(topo') = Mentioned(topo)
    BY <2>2 DEF Mentioned
  <2>4. DOMAIN nodes \subseteq DOMAIN nodes' /\ \A m \in DOMAIN nodes : nodes'[m] = nodes[m]
    BY <1>3 DEF Place, With
  <2>5. LivePorts \subseteq Ports(nodes', topo')
    BY <1>1, <2>2, <2>4, PortsLast DEF LivePorts
  <2> QED
    BY <2>3, <2>5 DEF LivePorts
<1>4. ASSUME NEW n, NEW r, SetNodeRole(n, r) PROVE FALSE
  <2>1. n \in DOMAIN nodes /\ r # nodes[n].role /\ nodes' = [nodes EXCEPT ![n].role = r]
    BY <1>4 DEF SetNodeRole
  <2>2. nodes[n] = Assembled(requests[n])
    BY <2>1, AgreeFields DEF IInv, Agree
  <2>3. nodes'[n].role = r
    BY <2>1, <2>2 DEF Assembled
  <2> QED
    BY <2>1, <2>3
<1>5. ASSUME NEW n, NEW name, RenameServer(n, name) PROVE Mentioned(topo') \subseteq LivePorts'
  <2>1. nodes' = [nodes EXCEPT ![n].name = Given(name)] /\ topo' = topo
    BY <1>5 DEF RenameServer
  <2>2. \A m \in DOMAIN nodes : nodes[m] = Assembled(requests[m])
    BY AgreeFields DEF IInv, Agree
  <2>3. \A m \in DOMAIN nodes : nodes'[m].role = nodes[m].role /\ nodes'[m].nics = nodes[m].nics
    BY <2>1, <2>2 DEF Assembled
  <2>4. LivePorts \subseteq Ports(nodes', topo')
    BY <1>1, <2>1, <2>3, PortsLast, ZenonT(40) DEF LivePorts
  <2> QED
    BY <2>1, <2>4 DEF LivePorts
<1>6. ASSUME topo'.nodes = topo.nodes, nodes' = nodes,
             \A q \in Mentioned(topo') : q \in Mentioned(topo) \/ q \in LivePorts
      PROVE  Mentioned(topo') \subseteq LivePorts'
  <2>1. LivePorts \subseteq Ports(nodes', topo')
    BY <1>6, PortsLast DEF LivePorts
  <2> QED
    BY <1>6, <2>1 DEF LivePorts
<1>7. ASSUME NEW a \in LivePorts, NEW b \in LivePorts, NEW id, Connect(a, b, id)
      PROVE  Mentioned(topo') \subseteq LivePorts'
  <2>1. topo' = WithCable(topo, a, b, id) /\ nodes' = nodes
    BY <1>7 DEF Connect, NetworkChanged
  <2>2. /\ topo'.cables = topo.cables \cup {[ends |-> {a, b}, id |-> id]}
        /\ topo'.nodes = topo.nodes
        /\ topo'.addresses = topo.addresses /\ topo'.routes = topo.routes
    BY <1>1, <2>1, Edits
  <2>3. \A q \in Mentioned(topo') : q \in Mentioned(topo) \/ q \in LivePorts
    BY <2>2, WaysToMention
  <2> QED
    BY <1>6, <2>1, <2>2, <2>3
<1>8. ASSUME NEW cable \in topo.cables, Disconnect(cable) PROVE Mentioned(topo') \subseteq LivePorts'
  <2>1. topo' = WithoutCable(topo, cable) /\ nodes' = nodes
    BY <1>8 DEF Disconnect, NetworkChanged
  <2>2. /\ topo'.cables = topo.cables \ {cable} /\ topo'.nodes = topo.nodes
        /\ topo'.addresses = topo.addresses /\ topo'.routes = topo.routes
    BY <1>1, <2>1, Edits
  <2>3. \A q \in Mentioned(topo') : q \in Mentioned(topo)
    BY <2>2, WaysToMention
  <2> QED
    BY <1>6, <2>1, <2>2, <2>3
<1>9. ASSUME NEW port \in LivePorts, NEW address, AddAddress(port, address)
      PROVE  Mentioned(topo') \subseteq LivePorts'
  <2> DEFINE new == [port |-> port, ip |-> address[1], plen |-> address[2]]
  <2>1. topo' = WithAddress(topo, new) /\ nodes' = nodes /\ new.port = port
    BY <1>9 DEF AddAddress, NetworkChanged
  <2> HIDE DEF new
  <2>2. topo'.nodes = topo.nodes /\ topo'.cables = topo.cables /\ topo'.routes = topo.routes
    BY <1>1, <2>1, AddressEdit, ZenonT(60)
  <2>3. \A i \in DOMAIN topo'.addresses :
          \/ topo'.addresses[i] = new
          \/ \E j \in DOMAIN topo.addresses : topo'.addresses[i] = topo.addresses[j]
    BY <2>1, AddressesAfter
  <2>4. ASSUME NEW q \in Mentioned(topo') PROVE q \in Mentioned(topo) \/ q \in LivePorts
    <3>1. \/ \E c \in topo.cables : q \in c.ends
          \/ \E i \in DOMAIN topo'.addresses : q = topo'.addresses[i].port
          \/ \E r \in topo.routes : r.iface # NoIface /\ q = [node |-> r.node, name |-> r.iface]
      BY <2>2, WaysToMention
    <3> QED
      BY <2>1, <2>3, <3>1, WaysToMention
  <2> QED
    BY <1>6, <2>1, <2>2, <2>4
<1>10. ASSUME NEW n \in DOMAIN nodes, NEW r, NEW iface, AddRoute(n, r, iface)
       PROVE  Mentioned(topo') \subseteq LivePorts'
  <2>1. PICK route : /\ topo' = WithRoute(topo, route) /\ CanAddRoute(nodes, topo, route)
                     /\ nodes' = nodes
    BY <1>10 DEF AddRoute, NetworkChanged
  <2>2. /\ topo'.nodes = topo.nodes /\ topo'.cables = topo.cables
        /\ topo'.addresses = topo.addresses
        /\ \A x \in topo'.routes : x \in topo.routes \/ x = route
    BY <1>1, <2>1, RouteEdit
  <2>3. route.iface # NoIface => [node |-> route.node, name |-> route.iface] \in LivePorts
    BY <2>1 DEF CanAddRoute, HasPort, LivePorts
  <2>4. \A q \in Mentioned(topo') : q \in Mentioned(topo) \/ q \in LivePorts
    BY <2>2, <2>3, WaysToMention
  <2> QED
    BY <1>6, <2>1, <2>2, <2>4
<1>11. CASE Reload
  BY <1>2, <1>11, LoadsWhatRuns DEF Reload
<1>12. ASSUME NEW a, NEW q, Buy(a, q) PROVE Mentioned(topo') \subseteq LivePorts'
  BY <1>2, <1>12 DEF Buy
<1>13. CASE Unloadable \/ UNCHANGED vars
  BY <1>2, <1>13 DEF Unloadable, vars
<1> QED
  BY <1>3, <1>4, <1>5, <1>7, <1>8, <1>9, <1>10, <1>11, <1>12, <1>13
  DEF Next, AddNode, BuildNode

-----------------------------------------------------------------------------
(* The cables of an interface                                              *)

Upto(nics, i) == SumOf(SubSeq(nics, 1, i))

\* Each interface adds its own ports to those of the ones before it.
LEMMA PortsAddUp ==
  ASSUME NEW nics \in Seq(Nat)
  PROVE  /\ \A i \in 0 .. Len(nics) : Upto(nics, i) \in Nat
         /\ Upto(nics, 0) = 0
         /\ \A i \in 1 .. Len(nics) : Upto(nics, i) = Upto(nics, i - 1) + nics[i]
         /\ Upto(nics, Len(nics)) = SumOf(nics)
<1>1. ASSUME NEW i \in 0 .. Len(nics)
      PROVE  /\ SubSeq(nics, 1, i) \in [1 .. i -> Nat] /\ IsFiniteSet(1 .. i)
             /\ SubSeq(nics, 1, i) = [j \in 1 .. i |-> nics[j]]
  <2>1. SubSeq(nics, 1, i) = [j \in 1 .. i |-> nics[j]]
    OBVIOUS
  <2>2. \A j \in 1 .. i : nics[j] \in Nat
    OBVIOUS
  <2>3. IsFiniteSet(1 .. i)
    BY FS_Interval
  <2> QED
    BY <2>1, <2>2, <2>3
<1>2. \A i \in 0 .. Len(nics) : Upto(nics, i) \in Nat
  <2> TAKE i \in 0 .. Len(nics)
  <2> DEFINE f == SubSeq(nics, 1, i)
  <2>1. f \in [1 .. i -> Nat] /\ IsFiniteSet(1 .. i)
    BY <1>1
  <2> HIDE DEF f
  <2>2. SumOf(f) \in Nat
    BY <2>1, SumType
  <2> QED
    BY <2>2 DEF f, Upto
<1>3. Upto(nics, 0) = 0
  <2> DEFINE f == SubSeq(nics, 1, 0)
  <2>1. DOMAIN f = {}
    BY <1>1
  <2> HIDE DEF f
  <2>2. SumOf(f) = 0
    BY <2>1, SumOfZeros
  <2> QED
    BY <2>2 DEF f, Upto
<1>4. ASSUME NEW i \in 1 .. Len(nics) PROVE Upto(nics, i) = Upto(nics, i - 1) + nics[i]
  <2> DEFINE f == SubSeq(nics, 1, i)
             g == SubSeq(nics, 1, i - 1)
  <2>0. i \in 0 .. Len(nics) /\ i - 1 \in 0 .. Len(nics) /\ i \in 1 .. i
    OBVIOUS
  <2>1. /\ f \in [1 .. i -> Nat] /\ IsFiniteSet(1 .. i) /\ f = [j \in 1 .. i |-> nics[j]]
        /\ g = [j \in 1 .. i - 1 |-> nics[j]]
    BY <1>1, <2>0
  <2>2. f[i] = nics[i] /\ 1 .. i - 1 = (1 .. i) \ {i}
    BY <2>0, <2>1
  <2>3. [j \in (1 .. i) \ {i} |-> f[j]] = g
    BY <2>1, <2>2
  <2> HIDE DEF f, g
  <2>4. SumOf(f) = SumOf([j \in (1 .. i) \ {i} |-> f[j]]) + f[i]
    BY <2>0, <2>1, SumSplit, ZenonT(60)
  <2> QED
    BY <2>2, <2>3, <2>4 DEF f, g, Upto
<1>5. SubSeq(nics, 1, Len(nics)) = nics
  OBVIOUS
<1> QED
  BY <1>2, <1>3, <1>4, <1>5 DEF Upto

\* Every port of a switch belongs to the interface that NicOf names.
LEMMA PortHasNic ==
  ASSUME NEW node, node.nics \in Seq(Nat), NEW k \in 1 .. SumOf(node.nics)
  PROVE  LET i == NicOf(node, SwitchPort(k)) IN
           /\ i \in 1 .. Len(node.nics)
           /\ Upto(node.nics, i - 1) < k
           /\ k <= Upto(node.nics, i)
<1> DEFINE nics == node.nics
           T == {i \in 1 .. Len(nics) : k <= Upto(nics, i)}
           Fits(i) == Upto(nics, i - 1) < k /\ k <= Upto(nics, i)
<1>1. /\ \A i \in 0 .. Len(nics) : Upto(nics, i) \in Nat
      /\ Upto(nics, 0) = 0 /\ Upto(nics, Len(nics)) = SumOf(nics) /\ Len(nics) \in Nat
  BY PortsAddUp
<1>2. k \in Nat /\ k >= 1 /\ k <= Upto(nics, Len(nics))
  BY <1>1
<1>3. Len(nics) # 0
  BY <1>1, <1>2
<1>4. Len(nics) \in T /\ T \subseteq Nat
  BY <1>1, <1>2, <1>3
<1>5. PICK i \in T : \A j \in T : i <= j
  BY <1>4, HasLeast
<1>6. Fits(i)
  <2>1. CASE i = 1
    BY <1>1, <1>2, <2>1, <1>5
  <2>2. CASE i # 1
    <3>1. i - 1 \in 1 .. Len(nics) /\ i - 1 \notin T
      BY <1>5, <2>2
    <3>2. ~(k <= Upto(nics, i - 1)) /\ Upto(nics, i - 1) \in Nat
      BY <1>1, <3>1
    <3> QED
      BY <1>2, <1>5, <3>2
  <2> QED
    BY <2>1, <2>2
<1>7. DOMAIN nics = 1 .. Len(nics)
  OBVIOUS
<1>8. NicOf(node, SwitchPort(k)) = CHOOSE j \in DOMAIN nics : Fits(j)
  BY DEF NicOf, SwitchPort, Upto
<1>9. (CHOOSE j \in DOMAIN nics : Fits(j)) \in DOMAIN nics
      /\ Fits(CHOOSE j \in DOMAIN nics : Fits(j))
  <2> HIDE DEF Fits
  <2> QED
    BY <1>5, <1>6, <1>7
<1> QED
  BY <1>7, <1>8, <1>9

\* A set of pairs with no second member twice is no larger than the set of
\* the second members.
LEMMA NoMoreThanPorts ==
  ASSUME NEW E, NEW Q, IsFiniteSet(Q), \A e \in E : e[2] \in Q,
         \A d, e \in E : d[2] = e[2] => d = e
  PROVE  IsFiniteSet(E) /\ Cardinality(E) <= Cardinality(Q)
<1> DEFINE f == [e \in E |-> e[2]]
<1>1. f \in Injection(E, Q)
  BY DEF Injection, IsInjective
<1> HIDE DEF f
<1> QED
  BY <1>1, FS_Injection

\* The ports of a switch that stand for its interface i.
LEMMA SwitchPortsOfNic ==
  ASSUME NEW n, NEW nics \in Seq(Nat), NEW i \in 1 .. Len(nics)
  PROVE  LET Q == {[node |-> n, name |-> SwitchPort(k)] :
                     k \in (Upto(nics, i - 1) + 1) .. Upto(nics, i)}
         IN  IsFiniteSet(Q) /\ Cardinality(Q) <= nics[i]
<1> DEFINE I == (Upto(nics, i - 1) + 1) .. Upto(nics, i)
           Q == {[node |-> n, name |-> SwitchPort(k)] : k \in I}
           f == [k \in I |-> [node |-> n, name |-> SwitchPort(k)]]
<1>0. i \in 0 .. Len(nics) /\ i - 1 \in 0 .. Len(nics) /\ nics[i] \in Nat
  OBVIOUS
<1>1. /\ Upto(nics, i) \in Nat /\ Upto(nics, i - 1) \in Nat
      /\ Upto(nics, i) = Upto(nics, i - 1) + nics[i]
  BY <1>0, PortsAddUp
<1>2. IsFiniteSet(I) /\ Cardinality(I) = nics[i]
  <2>1. \A x, y \in Nat : /\ IsFiniteSet((x + 1) .. (x + y))
                         /\ Cardinality((x + 1) .. (x + y)) = y
    <3> TAKE x, y \in Nat
    <3>1. /\ IsFiniteSet((x + 1) .. (x + y))
          /\ Cardinality((x + 1) .. (x + y)) = IF x + 1 > x + y THEN 0 ELSE x + y - (x + 1) + 1
      BY FS_Interval
    <3> QED
      BY <3>1
  <2>2. I = (Upto(nics, i - 1) + 1) .. (Upto(nics, i - 1) + nics[i])
    BY <1>1
  <2> HIDE DEF I
  <2> QED
    BY <1>0, <1>1, <2>1, <2>2
<1>3. f \in Surjection(I, Q)
  BY DEF Surjection
<1>4. IsFiniteSet(Q) /\ Cardinality(Q) <= Cardinality(I)
  <2> HIDE DEF I, Q, f
  <2> QED
    BY <1>2, <1>3, FS_Surjection
<1> QED
  BY <1>2, <1>4

\* Where nothing is stranded, the cable ends of an interface are at its ports.
LEMMA EndsAtPorts ==
  ASSUME IInv, WellFormed, ~Stranded, NEW n \in DOMAIN nodes, NEW i \in DOMAIN nodes[n].nics
  PROVE  \E Q : /\ IsFiniteSet(Q) /\ Cardinality(Q) <= nodes[n].nics[i]
                /\ \A e \in EndsOn(n, i) : e[2] \in Q
<1> DEFINE node == nodes[n]
           nics == nodes[n].nics
<1>1. nics \in Seq(Nat) /\ nics[i] \in Nat /\ nics[i] >= 1 /\ DOMAIN nics = 1 .. Len(nics)
  <2>1. requests[n].kit \in Kits /\ node = Assembled(requests[n])
    BY AgreeFields DEF IInv, Agree, WellFormed
  <2>2. nics = KitNics[requests[n].kit]
    BY <2>1 DEF Assembled
  <2>3. nics \in Seq(Nat \ {0})
    BY <2>1, <2>2, GameAssumption
  <2> HIDE DEF nics
  <2> QED
    BY <2>3 DEF nics
<1>2. ASSUME NEW e \in EndsOn(n, i)
      PROVE  /\ e[2].node = n /\ NicOf(node, e[2].name) = i
             /\ \E j \in DOMAIN PortNames(node) : e[2] = [node |-> n, name |-> PortNames(node)[j]]
  <2>1. PICK c, p : /\ c \in topo.cables /\ p \in c.ends /\ e = <<c, p>>
                    /\ p.node = n /\ NicOf(node, p.name) = i
    BY DEF EndsOn
  <2>2. p \in LivePorts
    BY <2>1, WaysToMention DEF Stranded
  <2>3. PICK m \in topo.nodes : p \in PortsOf(nodes, m)
    BY <2>2 DEF LivePorts, Ports
  <2>4. PICK j \in DOMAIN PortNames(nodes[m]) : p = [node |-> m, name |-> PortNames(nodes[m])[j]]
    BY <2>3 DEF PortsOf
  <2>5. m = n
    BY <2>1, <2>4
  <2> QED
    BY <2>1, <2>4, <2>5
<1>3. CASE IsSwitch(node)
  <2> DEFINE Q == {[node |-> n, name |-> SwitchPort(k)] :
                     k \in (Upto(nics, i - 1) + 1) .. Upto(nics, i)}
  <2>1. IsFiniteSet(Q) /\ Cardinality(Q) <= nics[i]
    BY <1>1, SwitchPortsOfNic
  <2>2. ASSUME NEW e \in EndsOn(n, i) PROVE e[2] \in Q
    <3>1. PICK j \in DOMAIN PortNames(node) : e[2] = [node |-> n, name |-> PortNames(node)[j]]
      BY <1>2
    <3>2. j \in 1 .. SumOf(nics) /\ PortNames(node)[j] = SwitchPort(j)
      BY <1>3 DEF PortNames, TotalPorts
    <3>3. NicOf(node, SwitchPort(j)) = i
      BY <1>2, <3>1, <3>2
    <3>4. Upto(nics, i - 1) < j /\ j <= Upto(nics, i)
      BY <1>1, <3>2, <3>3, PortHasNic
    <3>5. Upto(nics, i - 1) \in Nat /\ Upto(nics, i) \in Nat /\ j \in Nat
      <4>1. i \in 0 .. Len(nics) /\ i - 1 \in 0 .. Len(nics)
        BY <1>1
      <4>2. SumOf(nics) \in Nat
        BY <1>1, PortsAddUp, SMTT(30)
      <4> QED
        BY <1>1, <3>2, <4>1, PortsAddUp
    <3>6. j \in (Upto(nics, i - 1) + 1) .. Upto(nics, i)
      BY <3>4, <3>5
    <3> QED
      BY <3>1, <3>2, <3>6
  <2> QED
    BY <2>1, <2>2
<1>4. CASE ~IsSwitch(node)
  <2> DEFINE port == [node |-> n, name |-> Lan(i - 1)]
  <2>1. ASSUME NEW e \in EndsOn(n, i) PROVE e[2] = port
    <3>1. PICK j \in DOMAIN PortNames(node) : e[2] = [node |-> n, name |-> PortNames(node)[j]]
      BY <1>2
    <3>2. j \in 1 .. Len(nics) /\ PortNames(node)[j] = Lan(j - 1)
      BY <1>4 DEF PortNames
    <3>3. NicOf(node, Lan(j - 1)) = i
      BY <1>2, <3>1, <3>2
    <3>4. NicOf(node, Lan(j - 1)) = (j - 1) + 1
      BY DEF NicOf, Lan
    <3>5. j = i
      BY <1>1, <3>2, <3>3, <3>4
    <3> QED
      BY <3>1, <3>2, <3>5
  <2>2. IsFiniteSet({port}) /\ Cardinality({port}) = 1
    BY FS_Singleton
  <2>3. Cardinality({port}) <= nics[i]
    BY <1>1, <2>2
  <2> QED
    BY <2>1, <2>2, <2>3
<1> QED
  BY <1>3, <1>4

\* No two cables share a port, so an interface holds no more than it has.
LEMMA CablesFit == IInv /\ WellFormed => CablesFitUnlessStranded
<1> SUFFICES ASSUME IInv, WellFormed, ~Stranded,
                    NEW n \in DOMAIN nodes, NEW i \in DOMAIN nodes[n].nics
             PROVE  Cardinality(EndsOn(n, i)) <= nodes[n].nics[i]
  BY DEF CablesFitUnlessStranded
<1>1. PICK Q : /\ IsFiniteSet(Q) /\ Cardinality(Q) <= nodes[n].nics[i]
               /\ \A e \in EndsOn(n, i) : e[2] \in Q
  BY EndsAtPorts
<1>2. ASSUME NEW d \in EndsOn(n, i), NEW e \in EndsOn(n, i), d[2] = e[2] PROVE d = e
  <2>1. PICK c, p : c \in topo.cables /\ p \in c.ends /\ d = <<c, p>>
    BY DEF EndsOn
  <2>2. PICK b, q : b \in topo.cables /\ q \in b.ends /\ e = <<b, q>>
    BY DEF EndsOn
  <2>3. p = q
    BY <1>2, <2>1, <2>2
  <2>4. b = c
    BY <2>1, <2>2, <2>3 DEF IInv, CablesApart
  <2> QED
    BY <2>1, <2>2, <2>3, <2>4
<1>3. IsFiniteSet(EndsOn(n, i)) /\ Cardinality(EndsOn(n, i)) <= Cardinality(Q)
  BY <1>1, <1>2, NoMoreThanPorts
<1>4. nodes[n].nics[i] \in Nat
  <2>1. requests[n].kit \in Kits /\ nodes[n] = Assembled(requests[n])
    BY AgreeFields DEF IInv, Agree, WellFormed
  <2>2. nodes[n].nics \in Seq(Nat)
    <3>1. nodes[n].nics = KitNics[requests[n].kit]
      BY <2>1 DEF Assembled
    <3> QED
      BY <2>1, <3>1, GameAssumption
  <2> QED
    BY <2>2
<1> QED
  BY <1>1, <1>3, <1>4, FS_CardinalityType

-----------------------------------------------------------------------------
(* The theorems                                                            *)

\* The invariant holds in every reachable state.
THEOREM Invariance == Spec => []IInv
BY InitIInv, Inductive, PTL DEF Spec

\* A save that loads restores the running game exactly.
THEOREM LoadRestores == Spec => []RestoresAll
<1>1. IInv => RestoresAll
  BY LoadsWhatRuns DEF RestoresAll
<1> QED
  BY <1>1, Invariance, PTL

\* A save that does not load has a port that a role change stranded: the
\* commands keep every other condition of a load, whatever their order.
THEOREM OnlyStrandedSavesFail == Spec => []LoadableUnlessStranded
<1>1. IInv => LoadableUnlessStranded
  BY LoadsWhatRuns DEF LoadableUnlessStranded, Stranded
<1> QED
  BY <1>1, Invariance, PTL

\* Every step that changes what would be saved counts one version, so the
\* autosave never takes a changed game for a saved one.
THEOREM ChangesAreCounted == Spec => ChangesBumpVersion
<1>1. IInv /\ [Next]_vars => (SaveData' # SaveData => version' = version + 1)
  <2> SUFFICES ASSUME IInv, [Next]_vars, version' # version + 1 PROVE SaveData' = SaveData
    OBVIOUS
  <2>1. ~MarkChanged
    BY DEF MarkChanged
  <2>2. CASE Reload
    <3>1. UNCHANGED <<stock, requests>> /\ topo' = topo
      BY <2>2, LoadsWhatRuns DEF Reload
    <3> QED
      BY <3>1 DEF SaveData
  <2>3. CASE Unloadable \/ UNCHANGED vars
    BY <2>3 DEF Unloadable, vars, SaveData
  <2> QED
    BY <2>1, <2>2, <2>3
    DEF Next, Buy, AddNode, BuildNode, SetNodeRole, RenameServer, Connect, Disconnect,
        AddAddress, AddRoute, NetworkChanged
<1> QED
  BY <1>1, Invariance, PTL DEF Spec, ChangesBumpVersion

\* In the beginning there is nothing to be badly formed.
LEMMA InitWellFormed == Init => WellFormed
<1> SUFFICES ASSUME Init PROVE WellFormed
  OBVIOUS
<1>1. DOMAIN requests = {} /\ topo.cables = {} /\ topo.addresses = <<>>
  BY DEF Init, EmptyTopology
<1> QED
  BY <1>1 DEF WellFormed

\* The data stay well formed and the books in order.
THEOREM BooksInOrder == Spec => [](WellFormed /\ Books)
<1>1. Init => WellFormed /\ Books
  BY InitWellFormed, InitBooks
<1>2. IInv /\ WellFormed /\ Books /\ [Next]_vars => WellFormed' /\ Books'
  BY WellFormedStep, BooksStep DEF WellFormed
<1> QED
  BY <1>1, <1>2, Invariance, PTL DEF Spec

\* Nothing the player bought is lost or doubled: for every asset, what was
\* bought is on stock, in a node or between two ports.
THEOREM NothingLost == Spec => []AssetsConserved
<1>1. Books => AssetsConserved
  BY DEF Books
<1> QED
  BY <1>1, BooksInOrder, PTL

\* Where no port is stranded, no interface holds more cables than it has
\* ports: add_cable looks at port names only, and names determine interfaces.
THEOREM InterfacesHold == Spec => []CablesFitUnlessStranded
BY CablesFit, BooksInOrder, Invariance, PTL

\* No command but a role change takes a port away from what mentions it.
THEOREM RolesStrand == Spec => OnlyRolesStrand
<1>1. IInv /\ WellFormed /\ [Next]_vars =>
        (~Stranded /\ Stranded' => \E n \in DOMAIN nodes : nodes'[n].role # nodes[n].role)
  <2> SUFFICES ASSUME IInv, WellFormed, [Next]_vars, ~Stranded,
                      \A n \in DOMAIN nodes : nodes'[n].role = nodes[n].role
               PROVE  ~Stranded'
    OBVIOUS
  <2>1. Mentioned(topo') \subseteq LivePorts'
    BY StrandStep DEF Stranded
  <2> QED
    BY <2>1 DEF Stranded
<1>2. [](IInv /\ WellFormed) /\ [][Next]_vars => OnlyRolesStrand
  BY <1>1, PTL DEF OnlyRolesStrand
<1> QED
  BY <1>2, BooksInOrder, Invariance, PTL DEF Spec
=============================================================================
