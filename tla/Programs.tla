------------------------------ MODULE Programs ------------------------------
(***************************************************************************)
(* The two programs of main.py, the simulation loop and the command line   *)
(* game: which one is started is decided at the beginning.                 *)
(***************************************************************************)
EXTENDS Simulation, Session

VARIABLE program   \* "simulation" or "game"

vars == <<processVars, simulationVars, sessionVars, program>>

Init ==
  /\ ProcessInit /\ SimulationInit /\ SessionInit
  /\ program \in {"simulation", "game"}
  \* what the other program does not look at has one value
  /\ IF program = "simulation"
       THEN pc = "build" /\ saved = <<>>
       ELSE pc = "load" /\ kind = NoKind /\ plan = CHOOSE p \in Plans : TRUE

\* The threads are daemons: they end with the process.
Shared == pc # "over" /\ Background /\ UNCHANGED <<simulationVars, sessionVars, program>>
Simulate ==
  /\ program = "simulation" /\ SimulationNext
  /\ UNCHANGED <<sessionVars, program>>
Play ==
  /\ program = "game" /\ SessionNext
  /\ UNCHANGED <<simulationVars, program>>
Over == pc = "over" /\ UNCHANGED vars

Next == Shared \/ Simulate \/ Play \/ Over

(* Threads run when they can, executions end, and the main thread goes on; *)
(* no player has to type a command, and nothing has to fail.               *)
Fairness ==
  /\ \A u \in Units : \A t \in Crew[u] :
       WF_vars(pc # "over" /\ Worker(u, t) /\ UNCHANGED <<simulationVars, sessionVars, program>>)
  /\ WF_vars(pc # "over" /\ HelperEnds /\ UNCHANGED <<simulationVars, sessionVars, program>>)
  /\ WF_vars((WaitSleeps \/ WaitReturns \/ StopUnit \/ JoinUnit)
               /\ UNCHANGED <<simulationVars, sessionVars, program>>)
  /\ WF_vars(program = "simulation" /\ MainStep /\ UNCHANGED <<sessionVars, program>>)
  /\ WF_vars(program = "game" /\ SessionStep /\ UNCHANGED <<simulationVars, program>>)

Spec == Init /\ [][Next]_vars /\ Fairness

-----------------------------------------------------------------------------
(* When a program is over, nothing it started is left to itself: every     *)
(* unit is stopped with all its threads gone, and the monitor or autosave  *)
(* thread was told to end, whatever failed or was interrupted on the way,  *)
(* except in the places that `holes` names: a constructor that is cut      *)
(* short with threads of its own, or beside units or an autosave thread    *)
(* that nobody stops yet; a node that replaces another of its id; the      *)
(* monitor before its flag is set or its event; the stop of the nodes of a *)
(* failed load; and the last stop of all.                                  *)
NothingLeftBehind ==
  pc = "over" /\ holes = {} =>
    /\ \A u \in Units :
         (\E t \in Crew[u] : place[t] # "new") =>
           stopped[u] /\ \A t \in Crew[u] : place[t] = "ended"
    /\ helper # "running"

(* The simulation ends without an error when nothing fails, nobody         *)
(* interrupts and the catalog is sound: the kind exists, no range is empty *)
(* or reaches below what a requirement accepts, and each step names a node *)
(* there is.                                                               *)
RangesSound(requirements) ==
  /\ DOMAIN requirements # {}
  /\ \A r \in RangesOf(requirements) : Least(r[1]) <= r[2][1] /\ r[2][1] <= r[2][2]
ProfileSound(profile) ==
  IF "steps" \in DOMAIN profile
    THEN /\ profile.steps # <<>>
         /\ \A step \in ToSet(profile.steps) :
              /\ RangesSound(step.requirements)
              /\ Infrastructure => \E u \in ToSet(plan) : Ids[u] = step.node
    ELSE RangesSound(profile.requirements) /\ "cpu" \in DOMAIN profile.requirements
FileSound ==
  LET profiles == ToSet(file.profiles \o file.infrastructure_profiles)
  IN  /\ profiles # {}
      /\ kind # NoKind => \E profile \in profiles : profile.kind = kind
      /\ \A profile \in profiles : ProfileSound(profile)

SoundRunsReturn ==
  program = "simulation" /\ pc = "over" /\ faults = 0 /\ interrupts = 0 /\ FileSound
    => error = "none" /\ id = MaxJobs + 1

(* The simulation ends, and every command returns to a prompt or ends the  *)
(* session: no wait, join or loop of the main thread is without an end,    *)
(* also when a second stop follows one that was cut short.                 *)
Resting == Prompts \cup {"over"}
ProgramGoesOn == (pc \notin Resting) ~> (pc \in Resting)
=============================================================================
