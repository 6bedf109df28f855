------------------------------- MODULE GameMC -------------------------------
(* A motherboard, which stands for itself and for the processor, memory    *)
(* and storage on it, and a network card.  Kit "duo" has an onboard port   *)
(* and the card; kit "bare" has no processor, so the builder refuses it.   *)
(* Whether a kit can be assembled and which interfaces the node then has   *)
(* is what Assembly says.                                                  *)
EXTENDS Game

Catalog ==
     "board" :> [sockets |-> <<[type |-> "AM4", count |-> 1]>>,
                 memory |-> <<[type |-> "D4", count |-> 1, limit |-> 1]>>,
                 connectors |-> <<[type |-> "SATA", count |-> 1]>>,
                 slots |-> <<[generation |-> 3, lanes |-> 4, count |-> 1]>>,
                 lan |-> <<1>>, maxMemory |-> 0, ecc |-> FALSE]
  @@ "nic" :> [generation |-> 2, lanes |-> 1, ports |-> 1]
  @@ "cpu" :> [type |-> "AM4"] @@ "disk" :> [type |-> "SATA"]
  @@ "ram" :> [type |-> "D4", capacity |-> 1, ecc |-> FALSE]

Builder == INSTANCE Assembly WITH NoPart <- "none"

Kit == [k \in Kits |->
  [motherboard |-> "board", memory_modules |-> <<"ram">>, storage_devices |-> <<"disk">>,
   processors |-> IF k = "bare" THEN <<>> ELSE <<"cpu">>, gpus |-> <<>>,
   network_interfaces |-> IF k = "duo" THEN <<"nic">> ELSE <<>>]]

MCKitParts == [k \in Kits |-> [p \in Parts |->
                 IF p = "board" THEN 1 ELSE Len(Kit[k].network_interfaces)]]
MCKitNics == [k \in Kits |-> Builder!Interfaces(Kit[k])]
MCCompatible == {k \in Kits : Builder!Accepts(Kit[k])}
MCPrebuiltKit == [r \in Prebuilt |-> "duo"]
MCAddresses == {<<1, 1>>}
MCRoutes == {[dest |-> 0, plen |-> 0, gateway |-> 1]}
MCSymmetry == Permutations(Ids)
MCNone == {}
=============================================================================
