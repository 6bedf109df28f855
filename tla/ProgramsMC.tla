----------------------------- MODULE ProgramsMC -----------------------------
(* A HardwareModule with two workers, a Node that stands alone, and three  *)
(* nodes of infrastructures and games, one of which has the id of another. *)
(* Three workload files, one of which does not load: in `good` every draw  *)
(* succeeds, in `poor` works lack what they need, a step names a node that *)
(* is not there, and ranges are turned round, reach below the least value  *)
(* or stand for nothing.                                                   *)
EXTENDS Programs

MCUnits == {"module", "solo", "n1", "n2", "twin"}
MCCrew == "module" :> {"m1", "m2"} @@ "solo" :> {"s"} @@ "n1" :> {"a"} @@ "n2" :> {"b"}
       @@ "twin" :> {"c"}
MCIds == "module" :> 0 @@ "solo" :> 0 @@ "n1" :> 1 @@ "n2" :> 2 @@ "twin" :> 1
MCPlans == {<<"module">>, <<"solo">>, <<"n1", "n2">>, <<"n1", "twin">>}
MCSaves == {<<>>, <<"n2", "n1">>}

Cpu(low, high) == "cpu" :> [required_clocks |-> <<low, high>>, clock_usage_hz |-> <<1, 1>>]
Memory == "memory" :> [capacity |-> <<1, 2>>]
Disk(low, high) == "storage" :> [read |-> <<0, 1>>, write |-> <<low, high>>]
Net(fields) == "network" :> fields
Plain(name, requirements) == [kind |-> name, requirements |-> requirements]
Step(node, requirements) == [node |-> node, requirements |-> requirements]
Page(pre, delegated) ==
  [kind |-> "page", pre |-> pre, post |-> NoPhase,
   delegations |-> <<[role |-> "database_server", requirements |-> delegated]>>]

Good == [profiles |-> <<Plain("web", Cpu(1, 2) @@ Memory @@ Disk(0, 1))>>,
         infrastructure_profiles |->
           <<[kind |-> "spread", steps |-> <<Step(1, Cpu(1, 1)), Step(2, Net(<<>>))>>]>>,
         application_profiles |-> <<Page(Cpu(1, 1), Memory)>>]
Poor == [profiles |-> <<Plain("web", Memory), Plain("web", Cpu(1, 1) @@ Memory),
                        Plain("web", Cpu(0, 1))>>,
         infrastructure_profiles |->
           <<[kind |-> "spread", steps |-> <<Step(1, Memory), Step(9, Memory)>>],
             [kind |-> "torn", steps |-> <<Step(1, Memory), Step(2, Disk(2, 1))>>]>>,
         application_profiles |-> <<Page(NoPhase, [none \in {} |-> <<>>])>>]
Torn == [Good EXCEPT !.profiles = <<Plain("web", "memory" :> [capacity |-> <<1>>])>>]
MCFiles == {Good, Poor, Torn}
MCKinds == {NoKind, "spread", "page"}

\* The boards and parts of the build shell: a regular board whose PCIe slots,
\* two narrow ones and a wide one, have to be kept for the cards that need
\* them, and one that is not regular, with a narrow slot of a newer generation;
\* memory of two sizes and one with error correction.
Of(type, count) == [type |-> type, count |-> count]
Slot(generation, lanes, count) == [generation |-> generation, lanes |-> lanes, count |-> count]
Ram(type, count, limit) == [type |-> type, count |-> count, limit |-> limit]
Board(slots, memory, ecc) ==
  [sockets |-> <<Of("AM4", 1)>>, memory |-> memory, connectors |-> <<Of("SATA", 1), Of("M2", 1)>>,
   slots |-> slots, lan |-> <<1, 2>>, maxMemory |-> 5, ecc |-> ecc]
MCCatalog ==
     "even" :> Board(<<Slot(4, 16, 1), Slot(3, 4, 1), Slot(3, 8, 1)>>, <<Ram("D4", 2, 3)>>, FALSE)
  @@ "odd" :> Board(<<Slot(5, 4, 1), Slot(4, 8, 1)>>, <<Ram("D4", 1, 2), Ram("D4", 1, 4)>>, TRUE)
  @@ "cpu" :> [type |-> "AM4"]
  @@ "big" :> [type |-> "D4", capacity |-> 4, ecc |-> FALSE]
  @@ "ram" :> [type |-> "D4", capacity |-> 2, ecc |-> FALSE]
  @@ "safe" :> [type |-> "D4", capacity |-> 1, ecc |-> TRUE]
  @@ "sata" :> [type |-> "SATA"]
  @@ "gpu" :> [generation |-> 3, lanes |-> 8]
  @@ "fast" :> [generation |-> 4, lanes |-> 4]
  @@ "nic" :> [generation |-> 2, lanes |-> 4, ports |-> 2]
  @@ "usb" :> [generation |-> 0, lanes |-> 0, ports |-> 1]
MCBoards == {"even", "odd"}
MCPartsIn == "processors" :> {"cpu"} @@ "memory_modules" :> {"big", "ram", "safe"}
          @@ "storage_devices" :> {"sata"} @@ "gpus" :> {"gpu", "fast"}
          @@ "network_interfaces" :> {"nic", "usb"}
MCOwned == [part \in DOMAIN MCCatalog |-> IF part \in {"usb", "safe"} THEN 1 ELSE 2]
=============================================================================
