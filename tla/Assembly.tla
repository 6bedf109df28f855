------------------------------ MODULE Assembly ------------------------------
(***************************************************************************)
(* NodeBuilder: whether a motherboard takes a list of parts, and which     *)
(* network interfaces the node has.  A kit is a record of part ids: its    *)
(* motherboard (NoPart before one is selected) and sequences of            *)
(*   processors, memory_modules, storage_devices, gpus, network_interfaces *)
(* A type below is a socket type, a memory type or a connector type.       *)
(***************************************************************************)
EXTENDS Naturals, SequencesExt, Collections

CONSTANTS
  Catalog,   \* part id -> record, with the fields of its kind:
             \*   motherboard: sockets, memory, connectors, sequences of
             \*     [type, count] (memory slots with a limit too, 0 for none),
             \*     slots, a sequence of [generation, lanes, count], lan, the
             \*     counts of the onboard ports, maxMemory (0: none) and ecc
             \*   processor, storage: type     memory: type, capacity, ecc
             \*   gpu, network interface: generation, lanes (0: needs no slot);
             \*     an interface has ports
  NoPart

Lists == {"processors", "memory_modules", "storage_devices", "gpus", "network_interfaces"}

PartsOf(ids) == [i \in DOMAIN ids |-> Catalog[ids[i]]]
BoardOf(kit) == Catalog[kit.motherboard]

-----------------------------------------------------------------------------
(* _count_by_key and _ensure_counts_fit                                    *)

Available(entries, type) ==
  SumOf([i \in DOMAIN entries |-> IF entries[i].type = type THEN entries[i].count ELSE 0])
Requested(parts, type) == Cardinality({i \in DOMAIN parts : parts[i].type = type})

CountsFit(parts, entries) ==
  \A i \in DOMAIN parts :
    Requested(parts, parts[i].type) <= Available(entries, parts[i].type)

ProcessorsFit(kit) == CountsFit(PartsOf(kit.processors), BoardOf(kit).sockets)
StorageFits(kit) == CountsFit(PartsOf(kit.storage_devices), BoardOf(kit).connectors)

\* Against the largest limit among the entries of its type, if one has a limit.
WithinSlotLimit(module, entries) ==
  LET limits == {e.limit : e \in {x \in ToSet(entries) : x.type = module.type /\ x.limit > 0}}
  IN  limits # {} => \E limit \in limits : module.capacity <= limit

MemoryFits(kit) ==
  LET modules == PartsOf(kit.memory_modules)
      board == BoardOf(kit)
  IN  /\ CountsFit(modules, board.memory)
      /\ board.maxMemory > 0 =>
           SumOf([i \in DOMAIN modules |-> modules[i].capacity]) <= board.maxMemory
      /\ \A i \in DOMAIN modules :
           /\ modules[i].ecc => board.ecc
           /\ WithinSlotLimit(modules[i], board.memory)

-----------------------------------------------------------------------------
(* _validate_pcie: card after card, in the order of their lanes, takes of  *)
(* the slots that suit it the first in the order of generation and lanes.  *)
(* Slot n of entry i of a board is the pair <<i, n>>; two slots of an      *)
(* entry are alike.                                                        *)

Suits(slot, card) == slot.generation >= card.generation /\ slot.lanes >= card.lanes

Places(entries) == UnitsOf([i \in DOMAIN entries |-> entries[i].count])

\* What needs a slot: graphics cards, and then network cards that have lanes.
CardsOf(kit) ==
  LET cards == PartsOf(kit.gpus) \o PartsOf(kit.network_interfaces)
  IN  [i \in {j \in DOMAIN cards : j <= Len(kit.gpus) \/ cards[j].lanes > 0} |-> cards[i]]

Less(a, b) == a.generation < b.generation \/ (a.generation = b.generation /\ a.lanes < b.lanes)

FirstSlot(entries, free) ==
  CHOOSE u \in free : \A v \in free : ~Less(entries[v[1]], entries[u[1]])

FirstCard(cards, waiting) ==
  CHOOSE i \in waiting : \A j \in waiting :
    cards[i].lanes < cards[j].lanes \/ (cards[i].lanes = cards[j].lanes /\ i <= j)

\* Faulty: the slot stays free.
Reuse(entries, cards, left) ==
  LET card == FirstCard(cards, left.waiting)
  IN  [left EXCEPT !.waiting = @ \ {card},
                   !.ok = @ /\ \E u \in left.free : Suits(entries[u[1]], cards[card])]

\* Faulty: the last slot that suits is taken.
Waste(entries, cards, left) ==
  LET card == FirstCard(cards, left.waiting)
      suiting == {u \in left.free : Suits(entries[u[1]], cards[card])}
      last == CHOOSE u \in suiting : \A v \in suiting : ~Less(entries[u[1]], entries[v[1]])
  IN  [waiting |-> left.waiting \ {card}, free |-> left.free \ {u \in suiting : u = last},
       ok |-> left.ok /\ suiting # {}]

Insert(entries, cards, left) ==
  LET card == FirstCard(cards, left.waiting)
      suiting == {u \in left.free : Suits(entries[u[1]], cards[card])}
  IN  [waiting |-> left.waiting \ {card},
       free |-> left.free \ {u \in suiting : u = FirstSlot(entries, suiting)},
       ok |-> left.ok /\ suiting # {}]

Assigned(entries, cards) ==
  LET left[k \in Nat] ==
        IF k = 0 THEN [waiting |-> DOMAIN cards, free |-> Places(entries), ok |-> TRUE]
                 ELSE Insert(entries, cards, left[k - 1])
  IN  left[Cardinality(DOMAIN cards)]

PcieFits(kit) == Assigned(BoardOf(kit).slots, CardsOf(kit)).ok

-----------------------------------------------------------------------------
(* _build_devices: it raises, or the node has these interfaces.            *)

Complete(kit) ==
  /\ kit.motherboard # NoPart
  /\ \A list \in {"processors", "memory_modules", "storage_devices"} : kit[list] # <<>>

Accepts(kit) ==
  /\ Complete(kit)
  /\ ProcessorsFit(kit) /\ MemoryFits(kit) /\ StorageFits(kit) /\ PcieFits(kit)

\* The port counts: one interface with one port for each onboard port, then
\* the expansion cards in their order.
Interfaces(kit) ==
  [i \in 1 .. SumOf(BoardOf(kit).lan) |-> 1]
    \o [i \in DOMAIN kit.network_interfaces |-> Catalog[kit.network_interfaces[i]].ports]

-----------------------------------------------------------------------------
(* Fitting, as a player with a screwdriver sees it: every part gets a      *)
(* place of its own that suits it.                                         *)

Mountable(parts, entries, suits(_, _)) ==
  \E place \in [DOMAIN parts -> Places(entries)] :
    /\ IsInjective(place)
    /\ \A i \in DOMAIN parts : suits(entries[place[i][1]], parts[i])

OfType(unit, part) == unit.type = part.type
Holds(unit, module) == OfType(unit, module) /\ (unit.limit = 0 \/ module.capacity <= unit.limit)

CardsMountable(kit) == Mountable(CardsOf(kit), BoardOf(kit).slots, Suits)

Fits(kit) ==
  LET board == BoardOf(kit)
      modules == PartsOf(kit.memory_modules)
  IN  /\ Mountable(PartsOf(kit.processors), board.sockets, OfType)
      /\ Mountable(PartsOf(kit.storage_devices), board.connectors, OfType)
      /\ Mountable(modules, board.memory, Holds)
      /\ board.maxMemory = 0 \/ SumOf([i \in DOMAIN modules |-> modules[i].capacity])
                                  <= board.maxMemory
      /\ board.ecc \/ ~\E i \in DOMAIN modules : modules[i].ecc
      /\ CardsMountable(kit)

\* Boards of which one PCIe slot suits whatever another does, and the slots of
\* each memory type have one limit; all boards of the shipped catalog are.
Regular(board) ==
  /\ \A s, t \in ToSet(board.slots) : Suits(s, t) \/ Suits(t, s)
  /\ \A i, j \in DOMAIN board.memory :
       board.memory[i].type = board.memory[j].type => board.memory[i].limit = board.memory[j].limit
=============================================================================
