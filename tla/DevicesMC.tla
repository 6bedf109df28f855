------------------------------ MODULE DevicesMC -----------------------------
(* Works of three roles that do not fit side by side.  Two parents, which *)
(* need the memory in turn, one of which asks for more than there is after *)
(* its children; a work of the database for which, or for a parent, there  *)
(* is no room to write; two works of the GPU worker, which need the same   *)
(* GPU memory and one and a half of the two cores, and one that asks for   *)
(* too much of it; and one that is refused.                                *)
EXTENDS Devices, TLC

Needs(fields) == [f \in DOMAIN NoNeeds |-> IF f \in DOMAIN fields THEN fields[f] ELSE 0]
MCRole == [w \in Works |->
             CASE w \in {"p1", "p2"} -> "application_server"
               [] w = "d" -> "database_server"
               [] w \in {"g1", "g2", "big"} -> "gpu_worker"
               [] OTHER -> "unassigned"]
MCPhases == [w \in Works |->
  CASE w = "p1" -> <<Needs([memory |-> 2, clock |-> 1]), Needs([memory |-> 1, write |-> 1])>>
    [] w = "p2" -> <<Needs([memory |-> 1, ingress |-> 1]), Needs([memory |-> 3, clock |-> 1])>>
    [] w = "d" -> <<Needs([memory |-> 2, read |-> 1, clock |-> 4, write |-> 1, egress |-> 1])>>
    [] w \in {"g1", "g2"} -> <<Needs([memory |-> 1, gpu |-> 1, clock |-> 3])>>
    [] w = "big" -> <<Needs([memory |-> 1, gpu |-> 2])>>
    [] OTHER -> <<Needs([clock |-> 1])>>]
MCQueueDepth == [kind \in {"storage", "nic"} |-> 1]
=============================================================================
