----------------------------- MODULE Simulation -----------------------------
(***************************************************************************)
(* main.main: build the units of the configuration, start the monitor, put *)
(* a drawn work after every interval, and in the end wait for the works,   *)
(* stop the monitor and stop the units, whatever was raised on the way.    *)
(*                                                                         *)
(* `pc` goes through "build", "monitor", "flag", "loop", "put" and, in the *)
(* finally clause, "wait", "ask", "joinHelper", "stop", "join" to "over".  *)
(* The configuration is a sequence of units, of one unit when it names no  *)
(* infrastructure: the HardwareModule, or the default Node.                *)
(***************************************************************************)
EXTENDS Process

CONSTANT
  Plans       \* configurations: sequences of units, whose ids may be the same

ASSUME SimulationAssumption == \A p \in Plans : p \in Seq(Units) /\ p # <<>>

VARIABLES
  plan,   \* the configuration
  todo    \* the steps of the drawn work that are not put yet

simulationVars == <<plan, todo>>

Infrastructure == plan[1] \notin Alone

SimulationInit ==
  /\ plan \in Plans
  /\ todo = <<>>

\* Faulty: goes straight to the units, as if the monitor had not started.
SkipWait == Goto("stop")
Finally == Goto("wait")

-----------------------------------------------------------------------------
(* create_runtime_module, outside the try clause                           *)

\* A node whose id is taken replaces the node that has it.
Known(u) ==
  LET same == {i \in DOMAIN owned : Ids[owned[i]] = Ids[u]}
  IN  IF same = {} THEN Append(owned, u) ELSE [owned EXCEPT ![CHOOSE i \in same : TRUE] = u]

BuildUnit ==
  /\ pc = "build" /\ k <= Len(plan)
  /\ Launch(plan[k])
  /\ owned' = Known(plan[k])
  /\ holes' = holes \cup IF Len(owned') = Len(owned) THEN {"duplicate"} ELSE {}
  /\ k' = k + 1
  /\ UNCHANGED <<helper, pc, error, draws, bounds, simulationVars>>

\* Nobody stops the units before the one whose constructor is cut short.
BuildCutShort ==
  /\ pc = "build" /\ k <= Len(plan)
  /\ \E d \in Disruptions : CutShort(plan[k], d, owned = <<>>) /\ error' \in Raised(d)
  /\ Goto("over")
  /\ UNCHANGED <<helper, owned, draws, simulationVars>>

Built ==
  /\ pc = "build" /\ k > Len(plan)
  /\ Goto("monitor")
  /\ UNCHANGED <<units, helper, owned, error, draws, holes, bounds, simulationVars>>

-----------------------------------------------------------------------------
(* The try clause                                                          *)

StartMonitor ==
  /\ pc = "monitor"
  /\ helper' = "running"
  /\ Goto("flag")
  /\ UNCHANGED <<units, owned, error, draws, holes, bounds, simulationVars>>

\* Without the monitor the finally clause stops the units and waits for none.
MonitorFails ==
  /\ pc = "monitor"
  /\ Fault
  /\ Goto("stop") /\ error' = "error"
  /\ UNCHANGED <<units, helper, owned, draws, holes, simulationVars>>

MonitorStarted ==
  /\ pc = "flag"
  /\ Goto("loop")
  /\ UNCHANGED <<units, helper, owned, error, draws, holes, bounds, simulationVars>>

\* A unit refuses what no device operation can be done for: HardwareModule
\* wants all three requirements, and no unit takes a composite work whole.
Sound(step) == {"cpu", "memory", "storage"} \subseteq DOMAIN step.requirements
WorksOf(profile) ==
  IF Infrastructure \/ "steps" \notin DOMAIN profile
    THEN [i \in DOMAIN StepsOf(profile) |->
            [node |-> StepsOf(profile)[i].node,
             work |-> <<id, i, plan[1] \in Classic => Sound(StepsOf(profile)[i])>>]]
    ELSE <<[node |-> Nowhere, work |-> <<id, 0, FALSE>>]>>

Draw ==
  /\ pc = "loop" /\ id <= MaxJobs
  /\ \E profile \in WorkCandidates(file, kind) :
       /\ WorkMayDraw(profile)
       /\ "steps" \notin DOMAIN profile => "cpu" \in DOMAIN profile.requirements
       /\ todo' = WorksOf(profile)
  /\ Goto("put")
  /\ UNCHANGED <<units, helper, owned, error, draws, holes, bounds, plan>>

\* No profile, or one that raises; describe_work asks a plain work for its cpu.
DrawRaises ==
  /\ pc = "loop" /\ id <= MaxJobs
  /\ LET profiles == WorkCandidates(file, kind)
     IN  \/ profiles = {}
         \/ \E profile \in profiles :
              \/ WorkMayRaise(profile)
              \/ "steps" \notin DOMAIN profile /\ WorkMayDraw(profile)
                   /\ "cpu" \notin DOMAIN profile.requirements
  /\ Finally /\ error' = "error"
  /\ UNCHANGED <<units, helper, owned, draws, holes, bounds, simulationVars>>

LoopEnds ==
  /\ pc = "loop" /\ id > MaxJobs
  /\ Finally
  /\ UNCHANGED <<units, helper, owned, error, draws, holes, bounds, simulationVars>>

\* put_work: the steps go to the nodes they name, a plain work to the first.
Targets ==
  {u \in ToSet(owned) :
     IF Head(todo).node = Nowhere THEN u = owned[1] ELSE Ids[u] = Head(todo).node}

PutStep ==
  /\ pc = "put" /\ todo # <<>>
  /\ \E u \in Targets : Put(u, Head(todo).work)
  /\ todo' = Tail(todo)
  /\ UNCHANGED <<helper, owned, main, draws, holes, bounds, plan>>

UnknownNode ==
  /\ pc = "put" /\ todo # <<>>
  /\ Targets = {}
  /\ Finally /\ error' = "error"
  /\ UNCHANGED <<units, helper, owned, draws, holes, bounds, simulationVars>>

NextId ==
  /\ pc = "put" /\ todo = <<>>
  /\ id' = id + 1
  /\ Goto("loop")
  /\ UNCHANGED <<units, helper, owned, error, file, kind, holes, bounds, simulationVars>>

-----------------------------------------------------------------------------
(* The finally clause                                                      *)

AllWaited ==
  /\ pc = "wait" /\ ~AtUnit
  /\ Goto("ask")
  /\ UNCHANGED <<units, helper, owned, error, draws, holes, bounds, simulationVars>>

AskMonitor ==
  /\ pc = "ask"
  /\ AskHelper
  /\ Goto("joinHelper")
  /\ UNCHANGED <<units, owned, error, draws, holes, bounds, simulationVars>>

MonitorJoined == JoinHelper("stop") /\ UNCHANGED simulationVars

AllStopped ==
  /\ pc = "stop" /\ ~AtUnit
  /\ Goto("over")
  /\ UNCHANGED <<units, helper, owned, error, draws, holes, bounds, simulationVars>>

-----------------------------------------------------------------------------
(* A KeyboardInterrupt in the try clause is caught; one in the finally     *)
(* clause goes on to the next part of it, and is raised at the end. One    *)
(* before the try clause is raised at once: BuildCutShort has those that   *)
(* find a unit still to be built.                                          *)

\* Where the main thread goes, and what it has not done by then.
AfterInterrupt ==
  CASE pc \in {"build", "stop", "join"} -> "over"
    [] pc \in {"monitor", "flag", "ask", "joinHelper"} -> "stop"
    [] pc = "wait" -> "ask"
    [] OTHER -> "wait"
HoleAt ==
  CASE pc = "build" -> {"constructor"}
    [] pc \in {"flag", "ask"} -> {"monitor"}
    [] pc \in {"stop", "join"} /\ AtUnit -> {"shutdown"}
    [] OTHER -> {}

Interrupt ==
  /\ pc # "over" /\ (pc = "build" => k > Len(plan))
  /\ Interrupted
  /\ Goto(AfterInterrupt)
  /\ holes' = holes \cup HoleAt
  /\ error' = IF pc \in {"monitor", "flag", "loop", "put"} THEN error ELSE "interrupt"
  /\ LeaveWait
  /\ UNCHANGED <<works, crews, stopped, helper, owned, draws, simulationVars>>

MainStep ==
  \/ BuildUnit \/ Built \/ StartMonitor \/ MonitorStarted
  \/ Draw \/ DrawRaises \/ LoopEnds \/ PutStep \/ UnknownNode \/ NextId
  \/ AllWaited \/ AskMonitor \/ MonitorJoined \/ AllStopped

SimulationNext == MainStep \/ BuildCutShort \/ MonitorFails \/ Interrupt
=============================================================================
