----------------------------- MODULE BuildShell -----------------------------
(***************************************************************************)
(* The draft of the shell in which a player puts a server together, and    *)
(* the check of each part against the inventory.  Session has the shell    *)
(* around it.  No other command runs beside the shell, so the inventory is *)
(* a constant; the node id is one that is not taken.  Role, name and       *)
(* workers of the draft have no part in the checks, and `validate` answers *)
(* as `commit` does.                                                       *)
(***************************************************************************)
EXTENDS Assembly

CONSTANTS
  Boards,       \* ids of the motherboards
  PartsIn,      \* per list of a kit the ids of its kind
  Owned,        \* part id -> purchased and unused
  MaxList       \* bound: the length of a list of parts

ASSUME BuildShellAssumption ==
  /\ NoPart \notin Boards
  /\ PartsIn \in [Lists -> SUBSET DOMAIN Catalog]
  /\ Owned \in [DOMAIN Catalog -> Nat]
  /\ MaxList \in Nat

\* The numbers of the catalog are natural.
ASSUME CatalogAssumption ==
  /\ \A board \in {Catalog[id] : id \in Boards} :
       /\ board.maxMemory \in Nat /\ board.ecc \in BOOLEAN
       /\ \A i \in DOMAIN board.memory : board.memory[i].limit \in Nat
       /\ \A i \in DOMAIN board.slots :
            board.slots[i].generation \in Nat /\ board.slots[i].lanes \in Nat
       /\ \A entries \in {board.sockets, board.memory, board.connectors, board.slots} :
            IsFiniteSet(DOMAIN entries) /\ \A i \in DOMAIN entries : entries[i].count \in Nat
  /\ \A module \in {Catalog[id] : id \in PartsIn["memory_modules"]} :
       module.capacity \in Nat /\ module.ecc \in BOOLEAN
  /\ \A card \in {Catalog[id] : id \in PartsIn["gpus"] \cup PartsIn["network_interfaces"]} :
       card.generation \in Nat /\ card.lanes \in Nat

VARIABLE draft   \* BuildDraft

NewDraft == [x \in Lists \cup {"motherboard"} |-> IF x \in Lists THEN <<>> ELSE NoPart]

Times(ids, id) == Len(SelectSeq(ids, LAMBDA x : x = id))

Count(kit, id) ==
  (IF kit.motherboard = id THEN 1 ELSE 0)
    + FoldSet(LAMBDA list, sum : sum + Times(kit[list], id), 0, Lists)

Select(board) ==
  /\ Owned[board] >= 1
  /\ draft' = [draft EXCEPT !.motherboard = board]

AddPart(list, id) ==
  /\ Len(draft[list]) < MaxList
  /\ Owned[id] >= Times(draft[list], id) + 1
  /\ draft' = [draft EXCEPT ![list] = Append(@, id)]

RemovePart(list, id) ==
  /\ Contains(draft[list], id)
  /\ draft' = [draft EXCEPT ![list] = RemoveFirst(@, id)]

\* validate_build_request, and build_node before it builds.
Valid(kit) ==
  /\ \A id \in DOMAIN Catalog : Count(kit, id) <= Owned[id]
  /\ Accepts(kit)

EditDraft ==
  \/ \E board \in Boards : Select(board)
  \/ \E list \in Lists : \E id \in PartsIn[list] : AddPart(list, id) \/ RemovePart(list, id)

-----------------------------------------------------------------------------
(* What may be built stands on a board, its cards on slots of their own,   *)
(* whatever the board: the greedy assignment of _validate_pcie never lets  *)
(* two cards share a slot or a card into one that is too small for it.     *)
BuiltCardsHaveSlots == Valid(draft) => CardsMountable(draft)

(* On a regular board the verdict is exact, although the assignment never  *)
(* reconsiders a slot and counts stand for places: a draft that has the    *)
(* parts a node needs is accepted if and only if everything finds a place. *)
VerdictIsExact ==
  /\ Complete(draft)
  /\ Regular(BoardOf(draft))
  => (Accepts(draft) <=> Fits(draft))
=============================================================================
