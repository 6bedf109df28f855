------------------------------- MODULE Session -------------------------------
(***************************************************************************)
(* run_cli: the game is loaded and its autosave started, a player types    *)
(* commands into the shells, and stop_all ends it all: once from the exit  *)
(* command and again from the finally clause of run_cli.                   *)
(*                                                                         *)
(* `pc` is "load" and "start" in the constructor of the game, "shell" from *)
(* there to the try clause of run_cli, the shell that reads the next       *)
(* command ("top", "shop", "assemble", "ssh"), "draw" and "await" in       *)
(* run_workload, and "flush", "joinHelper", "wait", "stop" and "join" in   *)
(* stop_all.  `round` tells which stops the nodes: the failed    *)
(* load, the exit command or the finally clause.                           *)
(*                                                                         *)
(* The other commands leave threads and draft alone; module Game has those *)
(* that change the game state, Delegation what a run does inside a node,   *)
(* Autosave what a flush does.  A command that prints an error and changes *)
(* nothing is a stuttering step.                                           *)
(***************************************************************************)
EXTENDS Process, BuildShell

CONSTANTS
  Saves,       \* what the save file may hold: sequences of Nodes
  Racks,       \* the Nodes a player can add
  MaxServers   \* bound: nodes of the save file and servers bought

ASSUME SessionAssumption == /\ \A s \in Saves : s \in Seq(Units)
                            /\ Racks \subseteq Units /\ MaxServers \in Nat

Prompts == {"top", "shop", "assemble", "ssh"}

VARIABLES
  saved,       \* the nodes of the save file
  serving,     \* the nodes whose role is application_server
  servers,     \* purchased application servers that are not placed
  bought,      \* history: servers bought
  jobs,        \* the jobs run_workload has not run yet
  autosaving,  \* _autosave_worker is not None
  round        \* "load", "exit" or "finally"

sessionVars == <<saved, serving, servers, bought, jobs, autosaving, round, draft>>
game == <<saved, serving, servers, bought>>

SessionInit ==
  /\ saved \in Saves
  /\ serving = {} /\ servers = 0 /\ bought = 0
  /\ jobs = 0
  /\ autosaving = FALSE
  /\ round = "load"
  /\ draft = NewDraft

\* The steps of the main thread that no worker and no bound knows of.
Quiet == UNCHANGED <<units, helper, owned, error, holes, bounds>>

-----------------------------------------------------------------------------
(* The constructor of the game                                             *)

LoadNode ==
  /\ pc = "load" /\ k <= Len(saved)
  /\ Launch(saved[k])
  /\ owned' = Append(owned, saved[k])
  /\ serving' \in {serving, serving \cup {saved[k]}}
  /\ k' = k + 1
  /\ UNCHANGED <<helper, pc, error, draws, holes, bounds,
                 saved, servers, bought, jobs, autosaving, round, draft>>

Loaded ==
  /\ pc = "load" /\ k > Len(saved)
  /\ Goto("start")
  /\ Quiet /\ UNCHANGED <<draws, sessionVars>>

\* Faulty: gives up without stopping the nodes that are staged.
LoadGivesUp ==
  /\ pc = "load"
  /\ Fault
  /\ Goto("over") /\ error' = "error"
  /\ UNCHANGED <<units, helper, owned, draws, holes, sessionVars>>

\* A node, the network or the file itself is not as it should be.
LoadFails ==
  /\ pc = "load"
  /\ Fault
  /\ Goto("stop") /\ error' = "error"
  /\ UNCHANGED <<units, helper, owned, draws, holes, sessionVars>>

StartAutosave ==
  /\ pc = "start"
  /\ helper' = "running" /\ autosaving' = TRUE
  /\ Goto("shell")
  /\ UNCHANGED <<units, owned, error, draws, holes, bounds, game, jobs, round, draft>>

\* The constructors return, and run_cli enters its try clause.
OpenShell ==
  /\ pc = "shell"
  /\ Goto("top")
  /\ Quiet /\ UNCHANGED <<draws, sessionVars>>

\* The game is not constructed, and nobody stops its nodes.
AutosaveFails ==
  /\ pc = "start"
  /\ Fault
  /\ Goto("over") /\ error' = "error"
  /\ holes' = IF owned = <<>> THEN holes ELSE holes \cup {"constructor"}
  /\ UNCHANGED <<units, helper, owned, draws, sessionVars>>

-----------------------------------------------------------------------------
(* Commands                                                                *)

Enter(shell) ==
  /\ pc = "top"
  /\ shell = "ssh" => owned # <<>>
  /\ Goto(shell)
  /\ Quiet /\ UNCHANGED <<draws, sessionVars>>

\* exit, back, logout or the end of the input in the shop or on a node.
Leave ==
  /\ pc \in {"shop", "ssh"}
  /\ Goto("top")
  /\ Quiet /\ UNCHANGED <<draws, sessionVars>>

\* The draft goes with the build shell.
Cancel ==
  /\ pc = "assemble"
  /\ Goto("top")
  /\ draft' = NewDraft
  /\ Quiet /\ UNCHANGED <<draws, game, jobs, autosaving, round>>

BuyServer ==
  /\ pc = "shop" /\ Len(saved) + bought < MaxServers
  /\ bought' = bought + 1 /\ servers' = servers + 1
  /\ Quiet /\ UNCHANGED <<pc, k, draws, saved, serving, jobs, autosaving, round, draft>>

\* A new node with its threads, unless its id is taken.
PlaceNode(u) ==
  /\ u \in Racks \ ToSet(owned)
  /\ Launch(u)
  /\ owned' = Append(owned, u)
  /\ Goto("top")
  /\ UNCHANGED <<helper, error, draws, holes, bounds, saved, bought, jobs, autosaving, round>>

AddNode(u) ==
  /\ pc = "top" /\ servers > 0
  /\ PlaceNode(u)
  /\ servers' = servers - 1
  /\ serving' = serving \cup {u}
  /\ UNCHANGED draft

\* bound: a player who builds does so before anything else happens.
BuildFirst == /\ pc = "assemble" /\ owned = <<>> /\ bought = 0
              /\ helper = "running" /\ error = "none" /\ id = 1

Edit ==
  /\ BuildFirst
  /\ EditDraft
  /\ Quiet /\ UNCHANGED <<pc, k, draws, game, jobs, autosaving, round>>

Commit(u) ==
  /\ BuildFirst
  /\ Valid(draft)
  /\ PlaceNode(u)
  /\ draft' = NewDraft
  /\ UNCHANGED <<servers, serving>>

SetRole(u) ==
  /\ pc = "top" /\ u \in ToSet(owned)
  /\ ~stopped[u] /\ ~Busy(u)
  /\ serving' = IF u \in serving THEN serving \ {u} ELSE serving \cup {u}
  /\ Quiet /\ UNCHANGED <<pc, k, draws, saved, servers, bought, jobs, autosaving, round, draft>>

-----------------------------------------------------------------------------
(* run workload KIND --jobs N                                              *)

RunWorkload(n) ==
  /\ pc = "top" /\ id + n - 1 <= MaxJobs
  /\ \E asked \in Kinds \ {NoKind} : kind' = asked
  /\ jobs' = n
  /\ Goto("draw")
  /\ Quiet /\ UNCHANGED <<file, id, game, autosaving, round, draft>>

\* The profile is drawn before an ingress is looked for: the one with the
\* lowest id among those that serve.  Without one the job has failed.
RunJob ==
  /\ pc = "draw" /\ jobs > 0
  /\ \E profile \in ApplicationCandidates(file, kind) : ApplicationMayDraw(profile)
  /\ id' = id + 1
  /\ IF serving = {}
       THEN jobs' = jobs - 1 /\ UNCHANGED <<units, pc, k>>
       ELSE \E i \in DOMAIN owned :
              /\ owned[i] \in serving
              /\ \A u \in serving : Ids[owned[i]] <= Ids[u]
              /\ Put(owned[i], <<id, 0, TRUE>>)
              /\ pc' = "await" /\ k' = i
              /\ UNCHANGED jobs
  /\ UNCHANGED <<helper, owned, error, file, kind, holes, bounds,
                 game, autosaving, round, draft>>

\* The shell prints the error; the results of the jobs before are lost.
JobRaises ==
  /\ pc = "draw" /\ jobs > 0
  /\ LET profiles == ApplicationCandidates(file, kind)
     IN  profiles = {} \/ \E profile \in profiles : ApplicationMayRaise(profile)
  /\ id' = id + 1
  /\ jobs' = 0 /\ kind' = NoKind
  /\ Goto("top")
  /\ Quiet /\ UNCHANGED <<file, game, autosaving, round, draft>>

Awaited == \E w \in current[Here] \cup ToSet(pool[Here]) : w[1] = id - 1

AwaitSleeps ==
  /\ pc = "await" /\ Awaited /\ ~Asleep(Main, Here)
  /\ Wait(Main, Here)
  /\ UNCHANGED <<works, crews, stopped, helper, owned, main, draws, holes, bounds, sessionVars>>

AwaitReturns ==
  /\ pc = "await" /\ ~Awaited /\ ~Asleep(Main, Here)
  /\ jobs' = jobs - 1
  /\ Goto("draw")
  /\ Quiet /\ UNCHANGED <<draws, game, autosaving, round, draft>>

RunEnds ==
  /\ pc = "draw" /\ jobs = 0
  /\ kind' = NoKind
  /\ Goto("top")
  /\ Quiet /\ UNCHANGED <<file, id, sessionVars>>

-----------------------------------------------------------------------------
(* The end: stop_all from the exit command, and then, or after whatever    *)
(* was raised, stop_all from the finally clause.                           *)

StopAll(r) == round' = r /\ Goto("flush")

Exit ==
  /\ pc = "top"
  /\ StopAll("exit")
  /\ Quiet /\ UNCHANGED <<draws, game, jobs, autosaving, draft>>

\* do_logs splits its argument outside any try clause.
UnbalancedQuote ==
  /\ pc = "top"
  /\ StopAll("finally")
  /\ error' = "error"
  /\ UNCHANGED <<units, helper, owned, holes, bounds, draws, game, jobs, autosaving, draft>>

\* AutosaveWorker.stop flushes, sets the event and joins.
Flushed ==
  /\ pc = "flush" /\ autosaving
  /\ AskHelper
  /\ Goto("joinHelper")
  /\ UNCHANGED <<units, owned, error, draws, holes, bounds, sessionVars>>

\* The exception skips the nodes; the second time nothing is left to catch it.
FlushFails ==
  /\ pc = "flush" /\ autosaving
  /\ Fault
  /\ error' = "error"
  /\ IF round = "exit"
       THEN StopAll("finally") /\ UNCHANGED holes
       ELSE Goto("over") /\ holes' = holes \cup {"shutdown"} /\ UNCHANGED round
  /\ UNCHANGED <<units, helper, owned, draws, game, jobs, autosaving, draft>>

NoAutosave ==
  /\ pc = "flush" /\ ~autosaving
  /\ Goto("wait")
  /\ Quiet /\ UNCHANGED <<draws, sessionVars>>

AutosaveJoined ==
  /\ JoinHelper("wait")
  /\ autosaving' = FALSE
  /\ UNCHANGED <<game, jobs, round, draft>>

NodesWaited ==
  /\ pc = "wait" /\ ~AtUnit
  /\ Goto("stop")
  /\ Quiet /\ UNCHANGED <<draws, sessionVars>>

NodesStopped ==
  /\ pc = "stop" /\ ~AtUnit
  /\ IF round = "exit" THEN StopAll("finally") ELSE Goto("over") /\ UNCHANGED round
  /\ Quiet /\ UNCHANGED <<draws, game, jobs, autosaving, draft>>

-----------------------------------------------------------------------------
(* No command catches a KeyboardInterrupt: it ends every shell.            *)

\* The nodes before this one are stopped; this one is not among them yet.
LoadCutShort ==
  /\ pc = "load" /\ k <= Len(saved)
  /\ \E d \in Disruptions : CutShort(saved[k], d, TRUE) /\ error' \in Raised(d)
  /\ Goto("stop")
  /\ UNCHANGED <<helper, owned, draws, sessionVars>>

\* Until the try clause of run_cli nobody stops what is loaded and started.
LoadInterrupted ==
  /\ \/ pc = "load" /\ k > Len(saved) /\ Goto("stop") /\ UNCHANGED holes
     \/ /\ pc \in {"start", "shell"}
        /\ Goto("over")
        /\ holes' = IF owned = <<>> /\ ~autosaving THEN holes ELSE holes \cup {"constructor"}
  /\ Interrupted
  /\ error' = "interrupt"
  /\ UNCHANGED <<units, helper, owned, draws, sessionVars>>

\* The handler swallows what stop raises and goes on with the next node, but
\* an interrupt between two nodes ends it.
GiveUpInterrupted ==
  /\ round = "load" /\ pc \in {"stop", "join"} /\ AtUnit
  /\ Interrupted
  /\ \/ pc' = "stop" /\ k' = k + 1 /\ UNCHANGED error
     \/ pc = "stop" /\ Goto("over") /\ error' = "interrupt"
  /\ holes' = holes \cup {"load"}
  /\ UNCHANGED <<units, helper, owned, draws, sessionVars>>

\* The node that a command adds has its threads before the game knows it.
PlaceCutShort(u) ==
  /\ u \in Racks \ ToSet(owned)
  /\ (pc = "top" /\ servers > 0) \/ (BuildFirst /\ Valid(draft))
  /\ \E d \in Disruptions : "interrupt" \in Raised(d) /\ CutShort(u, d, TRUE)
  /\ StopAll("finally") /\ error' = "interrupt"
  /\ draft' = NewDraft
  /\ UNCHANGED <<helper, owned, draws, game, jobs, autosaving>>

CommandInterrupted ==
  /\ pc \in Prompts \cup {"draw", "await"} \/ round = "exit"
  /\ pc # "over"
  /\ Interrupted
  /\ StopAll("finally") /\ error' = "interrupt"
  /\ LeaveWait
  /\ draft' = NewDraft /\ jobs' = 0 /\ kind' = NoKind
  /\ UNCHANGED <<works, crews, stopped, helper, owned, holes, file, id, game, autosaving>>

ShutdownInterrupted ==
  /\ round = "finally" /\ pc # "over"
  /\ Interrupted
  /\ Goto("over") /\ error' = "interrupt"
  /\ holes' = holes \cup {"shutdown"}
  /\ LeaveWait
  /\ UNCHANGED <<works, crews, stopped, helper, owned, draws, sessionVars>>

-----------------------------------------------------------------------------
\* What the program does by itself, and what needs a player or a failure.
SessionStep ==
  \/ LoadNode \/ Loaded \/ StartAutosave \/ OpenShell
  \/ RunJob \/ JobRaises \/ AwaitSleeps \/ AwaitReturns \/ RunEnds
  \/ Flushed \/ NoAutosave \/ AutosaveJoined \/ NodesWaited \/ NodesStopped

Command ==
  \/ \E shell \in Prompts \ {"top"} : Enter(shell)
  \/ Leave \/ Cancel \/ BuyServer \/ Edit \/ Exit \/ UnbalancedQuote
  \/ \E u \in Units : AddNode(u) \/ Commit(u) \/ SetRole(u)
  \/ \E n \in 1 .. MaxJobs : RunWorkload(n)

SessionNext ==
  \/ SessionStep \/ Command
  \/ LoadFails \/ AutosaveFails \/ FlushFails
  \/ LoadCutShort \/ LoadInterrupted \/ GiveUpInterrupted
  \/ \E u \in Units : PlaceCutShort(u)
  \/ CommandInterrupted \/ ShutdownInterrupted
==============================================================================
