-------------------------------- MODULE Game --------------------------------
(***************************************************************************)
(* ComputeTycoonGame: the inventory, the nodes with the build requests     *)
(* they are saved as, and the topology.  Every command runs under the game *)
(* lock, so it is one action.  A command that raises changes nothing and   *)
(* is a stuttering step, a role change refused by a busy node included.    *)
(*                                                                         *)
(* A kit stands for the part ids of a build request: what it takes from    *)
(* the inventory, the interfaces the assembled node has (the onboard ones  *)
(* first) and whether the assembly rules accept it.                        *)
(***************************************************************************)
EXTENDS Topology, FiniteSets

CONSTANTS
  Ids,          \* node ids a player types
  Roles,
  GivenNames,   \* names a player types
  NoName,       \* a build request without a name
  Kits, Parts,
  KitParts,     \* per kit, how many of each part it takes
  KitNics,      \* per kit, the port counts of the interfaces
  Compatible,   \* kits the assembly rules accept
  Prebuilt,     \* roles with a server in the shop
  PrebuiltKit,  \* DEFAULT_NODE_PARTS
  CableIds,
  Addresses,    \* <<ip, prefix length>> a player types
  Routes,       \* records [dest, plen, gateway] a player types
  Quantities,
  MaxPort,      \* bound: the highest port number a player types
  MaxBought,    \* bound: purchases of one asset
  MaxEntries,   \* bound: addresses and routes of the network
  MaxVersion    \* bound: state changes of one process

Assets == Parts \cup Prebuilt \cup CableIds

ASSUME GameAssumption ==
  /\ Switch \in Roles /\ NoName \notin GivenNames
  /\ KitParts \in [Kits -> [Parts -> Nat]]
  /\ KitNics \in [Kits -> Seq(Nat \ {0})]
  /\ Compatible \subseteq Kits /\ Prebuilt \subseteq Roles
  /\ PrebuiltKit \in [Prebuilt -> Compatible]
  /\ Quantities \subseteq Nat \ {0}
  /\ MaxPort \in Nat /\ MaxBought \in Nat /\ MaxEntries \in Nat /\ MaxVersion \in Nat

VARIABLES
  stock,     \* Inventory: how many of each asset are unused
  nodes,     \* _nodes: the id's role, name and interfaces
  requests,  \* _build_requests: the id's role, name and kit
  topo,      \* topology
  version,   \* _state_version
  loadable,  \* FALSE once a start has raised SaveDataError
  bought,    \* history: purchases of each asset
  origin     \* history: what each node was made of

vars == <<stock, nodes, requests, topo, version, loadable, bought, origin>>

Default(r) == <<"default", r>>      \* _default_name
Given(name) == <<"given", name>>

Assembled(request) == [role |-> request.role, name |-> request.name,
                       nics |-> KitNics[request.kit]]

Init ==
  /\ stock = [a \in Assets |-> 0]
  /\ nodes = <<>> /\ requests = <<>>
  /\ topo = EmptyTopology({})
  /\ version = 0
  /\ loadable = TRUE
  /\ bought = [a \in Assets |-> 0]
  /\ origin = <<>>

MarkChanged == loadable /\ version < MaxVersion /\ version' = version + 1

With(f, n, value) == [m \in DOMAIN f \cup {n} |-> IF m = n THEN value ELSE f[m]]

-----------------------------------------------------------------------------
(* Inventory                                                               *)

Some(a, q) == [x \in Assets |-> IF x = a THEN q ELSE 0]

Add(amounts) == stock' = [a \in Assets |-> stock[a] + amounts[a]]

Require(amounts) == \A a \in Assets : stock[a] >= amounts[a]
Consume(amounts) == stock' = [a \in Assets |-> stock[a] - amounts[a]]

Buy(a, q) ==
  /\ bought[a] + q <= MaxBought
  /\ Add(Some(a, q))
  /\ bought' = [bought EXCEPT ![a] = @ + q]
  /\ MarkChanged
  /\ UNCHANGED <<nodes, requests, topo, loadable, origin>>

-----------------------------------------------------------------------------
(* Nodes                                                                   *)

RefreshTopology == topo' = [topo EXCEPT !.nodes = DOMAIN nodes']

\* Faulty: leaves the topology with the nodes it was made with.
PlaceUnrefreshed(n, request) ==
  /\ n \notin DOMAIN nodes
  /\ request.kit \in Compatible
  /\ nodes' = With(nodes, n, Assembled(request))
  /\ requests' = With(requests, n, request)
  /\ UNCHANGED topo

\* _build_node
Place(n, request) ==
  /\ n \notin DOMAIN nodes
  /\ request.kit \in Compatible
  /\ nodes' = With(nodes, n, Assembled(request))
  /\ requests' = With(requests, n, request)
  /\ RefreshTopology

DefaultRequest(r) == [role |-> r, name |-> Default(r), kit |-> PrebuiltKit[r]]

AddNode(n, r) ==
  /\ Require(Some(r, 1))
  /\ Place(n, DefaultRequest(r))
  /\ Consume(Some(r, 1))
  /\ origin' = With(origin, n, <<"server", r>>)
  /\ MarkChanged
  /\ UNCHANGED <<loadable, bought>>

RequiredParts(k) == [a \in Assets |-> IF a \in Parts THEN KitParts[k][a] ELSE 0]

NameFor(name, r) == IF name = NoName THEN Default(r) ELSE Given(name)

\* Faulty: takes the parts before it knows that they can be assembled.
BuildNodeConsumingFirst(n, k, r, name) ==
  /\ Require(RequiredParts(k))
  /\ Consume(RequiredParts(k))
  /\ MarkChanged
  /\ IF n \notin DOMAIN nodes /\ k \in Compatible
       THEN /\ Place(n, [role |-> r, name |-> NameFor(name, r), kit |-> k])
            /\ origin' = With(origin, n, <<"kit", k>>)
       ELSE UNCHANGED <<nodes, requests, topo, origin>>
  /\ UNCHANGED <<loadable, bought>>

BuildNode(n, k, r, name) ==
  /\ Require(RequiredParts(k))
  /\ Place(n, [role |-> r, name |-> NameFor(name, r), kit |-> k])
  /\ Consume(RequiredParts(k))
  /\ origin' = With(origin, n, <<"kit", k>>)
  /\ MarkChanged
  /\ UNCHANGED <<loadable, bought>>

SetNodeRole(n, r) ==
  /\ n \in DOMAIN nodes
  /\ r # nodes[n].role
  /\ nodes' = [nodes EXCEPT ![n].role = r]
  /\ requests' = [requests EXCEPT ![n].role = r]
  /\ MarkChanged
  /\ UNCHANGED <<stock, topo, loadable, bought, origin>>

\* Faulty: forgets to mark the change.
RenameSilently(n, name) ==
  /\ n \in DOMAIN nodes
  /\ nodes' = [nodes EXCEPT ![n].name = Given(name)]
  /\ requests' = [requests EXCEPT ![n].name = Given(name)]
  /\ UNCHANGED <<stock, topo, version, loadable, bought, origin>>

RenameServer(n, name) ==
  /\ n \in DOMAIN nodes
  /\ nodes' = [nodes EXCEPT ![n].name = Given(name)]
  /\ requests' = [requests EXCEPT ![n].name = Given(name)]
  /\ MarkChanged
  /\ UNCHANGED <<stock, topo, loadable, bought, origin>>

-----------------------------------------------------------------------------
(* Cables, addresses and routes.  connect without a cable id takes the     *)
(* first one in stock, one of the choices for id here.                     *)

\* Faulty: the version stays.
NetworkUnmarked == UNCHANGED <<nodes, requests, version, loadable, bought, origin>>

NetworkChanged == MarkChanged /\ UNCHANGED <<nodes, requests, loadable, bought, origin>>

Connect(a, b, id) ==
  /\ Require(Some(id, 1))
  /\ CanAddCable(nodes, topo, a, b)
  /\ topo' = WithCable(topo, a, b, id)
  /\ Consume(Some(id, 1))
  /\ NetworkChanged

\* Faulty: a default cable comes back.
DisconnectDefault(cable) ==
  /\ topo' = WithoutCable(topo, cable)
  /\ Add(Some(CHOOSE id \in CableIds : TRUE, 1))
  /\ NetworkChanged

Disconnect(cable) ==
  /\ topo' = WithoutCable(topo, cable)
  /\ Add(Some(cable.id, 1))
  /\ NetworkChanged

Entries(t) == Len(t.addresses) + Cardinality(t.routes)

AddAddress(port, address) ==
  /\ HasPort(nodes, topo, port)
  /\ topo' = WithAddress(topo, [port |-> port, ip |-> address[1], plen |-> address[2]])
  /\ Entries(topo') <= MaxEntries
  /\ NetworkChanged
  /\ UNCHANGED stock

AddRoute(n, r, iface) ==
  /\ LET route == [node |-> n, dest |-> r.dest, plen |-> r.plen,
                   gateway |-> r.gateway, iface |-> iface]
     IN  /\ CanAddRoute(nodes, topo, route)
         /\ topo' = WithRoute(topo, route)
  /\ Entries(topo') <= MaxEntries
  /\ NetworkChanged
  /\ UNCHANGED stock

-----------------------------------------------------------------------------
(* What to_save_data writes and what _load makes of it.                    *)

SaveData == [stock |-> stock, requests |-> requests, cables |-> topo.cables,
             addresses |-> topo.addresses, routes |-> topo.routes]

NodesOf(data) == [n \in DOMAIN data.requests |-> Assembled(data.requests[n])]
TopologyOf(data) == [nodes |-> DOMAIN data.requests, cables |-> data.cables,
                     addresses |-> data.addresses, routes |-> data.routes]

Loads(data) == Repeatable(NodesOf(data), TopologyOf(data))

\* The game is left, with its state saved, and started again.
Reload ==
  /\ loadable
  /\ IF Loads(SaveData)
       THEN /\ nodes' = NodesOf(SaveData)
            /\ topo' = TopologyOf(SaveData)
            /\ version' = 0
            /\ UNCHANGED loadable
       ELSE loadable' = FALSE /\ UNCHANGED <<nodes, topo, version>>
  /\ UNCHANGED <<stock, requests, bought, origin>>

Unloadable == ~loadable /\ UNCHANGED vars

-----------------------------------------------------------------------------
LivePorts == Ports(nodes, topo)
IfaceNames == {Lan(i - 1) : i \in 1 .. MaxPort} \cup {SwitchPort(k) : k \in 1 .. MaxPort}
                \cup {NoIface}

Next ==
  \/ \E a \in Assets, q \in Quantities : Buy(a, q)
  \/ \E n \in Ids, r \in Prebuilt : AddNode(n, r)
  \/ \E n \in Ids, k \in Kits, r \in Roles, name \in GivenNames \cup {NoName} :
       BuildNode(n, k, r, name)
  \/ \E n \in Ids, r \in Roles : SetNodeRole(n, r)
  \/ \E n \in Ids, name \in GivenNames : RenameServer(n, name)
  \/ \E a, b \in LivePorts, id \in CableIds : Connect(a, b, id)
  \/ \E cable \in topo.cables : Disconnect(cable)
  \/ \E port \in LivePorts, address \in Addresses : AddAddress(port, address)
  \/ \E n \in DOMAIN nodes, r \in Routes, iface \in IfaceNames : AddRoute(n, r, iface)
  \/ Reload
  \/ Unloadable

Spec == Init /\ [][Next]_vars

-----------------------------------------------------------------------------
\* What the inventory gave for a node.
TakenFor(made) ==
  IF made[1] = "server" THEN Some(made[2], 1) ELSE RequiredParts(made[2])

Used(a) == SumOf([n \in DOMAIN origin |-> TakenFor(origin[n])[a]])
             + Cardinality({c \in topo.cables : c.id = a})

(* Nothing the player bought is lost or doubled, by failed builds, by      *)
(* cables that come back under the id they were bought as, or by restarts. *)
AssetsConserved == \A a \in Assets : bought[a] = stock[a] + Used(a)

(* A save that loads restores the running game exactly: the live nodes     *)
(* agree with the build requests that stand for them in the file, and the  *)
(* topology in use knows every node.                                       *)
RestoresAll ==
  loadable /\ Loads(SaveData) =>
    NodesOf(SaveData) = nodes /\ TopologyOf(SaveData) = topo

(* A port mentioned by the topology that its node no longer has.           *)
Stranded == ~(Mentioned(topo) \subseteq LivePorts)

(* The only saves that do not load are those a role change stranded ports  *)
(* in; in particular no command makes two cables meet in one port name.    *)
LoadableUnlessStranded == Loads(SaveData) \/ Stranded

EndsOn(n, i) ==
  UNION {{<<c, p>> : p \in {q \in c.ends : q.node = n /\ NicOf(nodes[n], q.name) = i}} :
           c \in topo.cables}

(* Without stranded ports an interface holds no more cables than ports.    *)
CablesFitUnlessStranded ==
  Stranded \/ \A n \in DOMAIN nodes : \A i \in DOMAIN nodes[n].nics :
                Cardinality(EndsOn(n, i)) <= nodes[n].nics[i]

(* Nothing but a role change takes a port away from what mentions it.      *)
OnlyRolesStrand ==
  [][~Stranded /\ Stranded' => \E n \in DOMAIN nodes : nodes'[n].role # nodes[n].role]_vars

(* Whatever a command changes in the save data, the version says so; a     *)
(* change without it would never be written by the autosave.               *)
ChangesBumpVersion == [][SaveData' # SaveData => version' = version + 1]_vars

-----------------------------------------------------------------------------
(* What the documents and tests say without the condition.                 *)

(* tests/test_persistence_contract.py:22: a save is read back as it was.   *)
SaveAlwaysLoads == loadable
=============================================================================
