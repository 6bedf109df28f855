------------------------------ MODULE Delegation ----------------------------
(***************************************************************************)
(* run_workload: callers submit parent works to an Application Server,     *)
(* whose worker runs pre, hands the delegations of the plan one after the  *)
(* other to backend nodes through the game's dispatcher, waits for each    *)
(* child, and runs post.  Meanwhile the player changes roles and rewires   *)
(* the network, and stop_all may take the nodes down.                      *)
(*                                                                         *)
(* The nodes are taken as their contract describes them (NodeContract,     *)
(* which module Node implements): a queue, works in execution, a role and  *)
(* a stop flag, each call one step.  What a step of a submission or of the *)
(* dispatcher does under the game lock is one action where no step of a    *)
(* thread without the lock can come in between; no lock is held while      *)
(* anyone waits.  Whether resolve finds a route is `reach`.                *)
(***************************************************************************)
EXTENDS Naturals, SequencesExt, FiniteSets

CONSTANTS
  Nodes,       \* node ids: numbers in the order of the ids
  Roles, App,  \* the NodeRole members, APPLICATION_SERVER
  NoRole,
  StartRoles,  \* role of each node when the calls begin
  Workers,     \* worker threads of each node
  Jobs,        \* parent works
  Plan,        \* per job a sequence of [role, node], node 0 when not pinned
  Callers,
  RunOf,       \* per caller the jobs of its run_workload, in order
  Networks,    \* the sets of pairs that may be routable
  StopOrder    \* the order of the nodes in _nodes

Children == UNION {{<<j, i>> : i \in DOMAIN Plan[j]} : j \in Jobs}
Works == {<<j, 0>> : j \in Jobs} \cup Children
Root(j) == <<j, 0>>
Demand(w) == Plan[w[1]][w[2]].role      \* the role a child is meant for

ASSUME DelegationAssumption ==
  /\ Nodes \subseteq Nat \ {0} /\ App \in Roles
  /\ StartRoles \in [Nodes -> Roles] /\ Workers \in [Nodes -> Nat \ {0}]
  /\ \A j \in Jobs : Plan[j] \in Seq([role : Roles \ {App}, node : Nat])
  /\ RunOf \in [Callers -> Seq(Jobs)]
  \* a job is one submission, whose ids nobody else draws
  /\ \A c, d \in Callers : \A x \in DOMAIN RunOf[c], y \in DOMAIN RunOf[d] :
       RunOf[c][x] = RunOf[d][y] => c = d /\ x = y
  /\ \A n \in Networks : n \subseteq Nodes \X Nodes

VARIABLES
  role, stopped,
  pool,        \* per node the accepted works that wait
  current,     \* per node the works in execution
  outcome,     \* per work "none", "completed" or "failed"
  acceptedAs,  \* history: the role of the node that accepted the work
  placed,      \* the node that accepted the work, 0 before
  reach,       \* the pairs of nodes with a route
  phase,       \* per job, what its worker does
  steps,       \* per job the StepResults of its delegations so far
  code,        \* per job the failure code of its outcome
  results,     \* per caller the JobResults so far
  waiting,     \* per caller: it is in wait_for
  chosen,      \* per caller the node it is about to put its job to, 0 when none;
               \* it holds the game lock from the choice to the put
  keeper       \* the thread of stop_all: <<what, position in StopOrder>>

nodeVars == <<role, stopped, pool, current, outcome, acceptedAs, placed>>
jobVars == <<phase, steps, code>>
vars == <<role, stopped, pool, current, outcome, acceptedAs, placed, reach,
          phase, steps, code, results, waiting, chosen, keeper>>

Init ==
  /\ role = StartRoles
  /\ stopped = [n \in Nodes |-> FALSE]
  /\ pool = [n \in Nodes |-> <<>>]
  /\ current = [n \in Nodes |-> {}]
  /\ outcome = [w \in Works |-> "none"]
  /\ acceptedAs = [w \in Works |-> NoRole]
  /\ placed = [w \in Works |-> 0]
  /\ reach \in Networks
  /\ phase = [j \in Jobs |-> "new"]
  /\ steps = [j \in Jobs |-> <<>>]
  /\ code = [j \in Jobs |-> "none"]
  /\ results = [c \in Callers |-> <<>>]
  /\ waiting = [c \in Callers |-> FALSE]
  /\ chosen = [c \in Callers |-> 0]
  /\ keeper = <<"play", 1>>

-----------------------------------------------------------------------------
(* The nodes, as NodeContract has them.                                    *)

NeverBusy(n) == FALSE          \* faulty: no look at queued and running works
Busy(n) == current[n] # {} \/ pool[n] # <<>>

Put(n, w) ==
  /\ pool' = [pool EXCEPT ![n] = Append(@, w)]
  /\ acceptedAs' = [acceptedAs EXCEPT ![w] = role[n]]
  /\ placed' = [placed EXCEPT ![w] = n]
  /\ UNCHANGED <<role, stopped, current, outcome>>

Finish(w, o) ==
  /\ current' = [current EXCEPT ![placed[w]] = @ \ {w}]
  /\ outcome' = [outcome EXCEPT ![w] = o]
  /\ UNCHANGED <<role, stopped, pool, acceptedAs, placed>>

Take(n) ==
  /\ pool[n] # <<>>
  /\ Cardinality(current[n]) < Workers[n]
  /\ LET w == Head(pool[n]) IN
       /\ pool' = [pool EXCEPT ![n] = Tail(@)]
       /\ current' = [current EXCEPT ![n] = @ \cup {w}]
       /\ phase' = IF w[2] = 0 THEN [phase EXCEPT ![w[1]] = "pre"] ELSE phase
  /\ UNCHANGED <<role, stopped, outcome, acceptedAs, placed, reach, steps, code,
                 results, waiting, chosen, keeper>>

\* A backend executes a child.
RunChild(n) ==
  /\ \E w \in current[n] \cap Children, o \in {"completed", "failed"} : Finish(w, o)
  /\ UNCHANGED <<reach, jobVars, results, waiting, chosen, keeper>>

-----------------------------------------------------------------------------
(* run_workload                                                            *)

NextJob(c) == RunOf[c][Len(results[c]) + 1]
Calling(c) == Len(results[c]) < Len(RunOf[c])

Ingresses == {n \in Nodes : role[n] = App /\ ~stopped[n]}

LockFree == \A c \in Callers : chosen[c] = 0

Lowest(ns) == CHOOSE n \in ns : \A m \in ns : n <= m

JobResult(j, status, why, node, children) ==
  [job |-> j, status |-> status, code |-> why, node |-> node, children |-> children]

NoIngress(c) ==
  /\ results' = [results EXCEPT ![c] =
       Append(@, JobResult(NextJob(c), "failed", "no_ingress", 0, <<>>))]
  /\ UNCHANGED <<nodeVars, waiting>>

ChooseIngress(c) ==
  /\ Calling(c) /\ ~waiting[c]
  /\ LockFree
  /\ IF Ingresses = {}
       THEN NoIngress(c) /\ UNCHANGED chosen
       ELSE /\ chosen' = [chosen EXCEPT ![c] = Lowest(Ingresses)]
            /\ UNCHANGED <<nodeVars, waiting, results>>
  /\ UNCHANGED <<reach, jobVars, keeper>>

\* stop_all needs no lock, so the node may have been stopped since.
PutRoot(c) ==
  /\ chosen[c] # 0
  /\ chosen' = [chosen EXCEPT ![c] = 0]
  /\ IF stopped[chosen[c]]
       THEN NoIngress(c)
       ELSE /\ Put(chosen[c], Root(NextJob(c)))
            /\ waiting' = [waiting EXCEPT ![c] = TRUE]
            /\ UNCHANGED results
  /\ UNCHANGED <<reach, jobVars, keeper>>

Collect(c) ==
  /\ waiting[c]
  /\ LET j == NextJob(c) IN
       /\ outcome[Root(j)] # "none"
       /\ results' = [results EXCEPT ![c] =
            Append(@, JobResult(j, outcome[Root(j)], code[j], placed[Root(j)], steps[j]))]
  /\ waiting' = [waiting EXCEPT ![c] = FALSE]
  /\ UNCHANGED <<nodeVars, reach, jobVars, chosen, keeper>>

-----------------------------------------------------------------------------
(* ApplicationServerExecutor, on a worker of the application server        *)

EndJob(j, o, why) ==
  /\ Finish(Root(j), o)
  /\ phase' = [phase EXCEPT ![j] = "ended"]
  /\ code' = [code EXCEPT ![j] = why]

Goto(j, p) == phase' = [phase EXCEPT ![j] = p] /\ UNCHANGED <<nodeVars, code>>

Pre(j) ==
  /\ phase[j] = "pre"
  /\ \/ Goto(j, "delegate")
     \/ EndJob(j, "failed", "node_execution_failed")
  /\ UNCHANGED <<reach, steps, results, waiting, chosen, keeper>>

PlanDone(j) == Len(steps[j]) = Len(Plan[j])

Post(j) ==
  /\ phase[j] = "delegate"
  /\ PlanDone(j)
  /\ \/ EndJob(j, "completed", "none")
     \/ EndJob(j, "failed", "node_execution_failed")
  /\ UNCHANGED <<reach, steps, results, waiting, chosen, keeper>>

Step(j, node, status, why) ==
  [role |-> Plan[j][Len(steps[j]) + 1].role, node |-> node, status |-> status, code |-> why]

\* Faulty: the failure of a child does not end the plan.
GoOn(j, step) ==
  /\ steps' = [steps EXCEPT ![j] = Append(@, step)]
  /\ Goto(j, "delegate")

\* A child's result is added; the plan goes on only when it completed.
AddStep(j, step) ==
  /\ steps' = [steps EXCEPT ![j] = Append(@, step)]
  /\ IF step.status = "completed" THEN Goto(j, "delegate")
                                  ELSE EndJob(j, "failed", "delegation_failed")

Fails(j, node, why) == AddStep(j, Step(j, node, "failed", why))

\* _dispatch_application_delegation up to the put, under the game lock.
Dispatch(j) ==
  /\ phase[j] = "delegate"
  /\ ~PlanDone(j)
  /\ LockFree
  /\ LET demand == Plan[j][Len(steps[j]) + 1]
         pin == demand.node
         source == placed[Root(j)]
         child == <<j, Len(steps[j]) + 1>>
         able == {n \in Nodes : role[n] = demand.role /\ pin \in {0, n}}
         near == {n \in able : <<source, n>> \in reach}
     IN  \/ pin \notin Nodes \cup {0} /\ Fails(j, pin, "node_not_found")
         \/ pin \in Nodes \ able /\ Fails(j, pin, "role_mismatch")
         \/ pin = 0 /\ able = {} /\ Fails(j, 0, "no_eligible_node")
         \/ able # {} /\ near = {} /\ Fails(j, Lowest(able), "route_unreachable")
         \/ /\ near # {} /\ stopped[Lowest(near)]
            /\ Fails(j, Lowest(near), "node_execution_failed")
         \/ /\ near # {} /\ ~stopped[Lowest(near)]
            /\ Put(Lowest(near), child)
            /\ phase' = [phase EXCEPT ![j] = "await"]
            /\ UNCHANGED <<steps, code>>
  /\ UNCHANGED <<reach, results, waiting, chosen, keeper>>

\* wait_for(child) returned.
AwaitChild(j) ==
  /\ phase[j] = "await"
  /\ LET child == <<j, Len(steps[j]) + 1>> IN
       /\ outcome[child] # "none"
       /\ AddStep(j, Step(j, placed[child], outcome[child],
                          IF outcome[child] = "failed" THEN "node_execution_failed" ELSE "none"))
  /\ UNCHANGED <<reach, results, waiting, chosen, keeper>>

-----------------------------------------------------------------------------
(* The player and stop_all                                                 *)

SetRole(n, r) ==
  /\ LockFree
  /\ r # role[n]
  /\ ~stopped[n] /\ ~Busy(n)
  /\ role' = [role EXCEPT ![n] = r]
  /\ UNCHANGED <<stopped, pool, current, outcome, acceptedAs, placed, reach, jobVars,
                 results, waiting, chosen, keeper>>

Rewire ==
  /\ LockFree
  /\ reach' \in Networks
  /\ UNCHANGED <<nodeVars, jobVars, results, waiting, chosen, keeper>>

Advance(what, next) ==
  keeper' = IF keeper[2] < Len(StopOrder) THEN <<what, keeper[2] + 1>> ELSE <<next, 1>>

StopAll ==
  /\ keeper[1] = "play"
  /\ keeper' = <<"wait", 1>>
  /\ UNCHANGED <<nodeVars, reach, jobVars, results, waiting, chosen>>

WaitAllReturns ==
  /\ keeper[1] = "wait"
  /\ ~Busy(StopOrder[keeper[2]])
  /\ Advance("wait", "stop")
  /\ UNCHANGED <<nodeVars, reach, jobVars, results, waiting, chosen>>

\* Faulty: the works that wait are dropped.
StopDropping ==
  /\ keeper[1] = "stop"
  /\ ~stopped[StopOrder[keeper[2]]]
  /\ stopped' = [stopped EXCEPT ![StopOrder[keeper[2]]] = TRUE]
  /\ pool' = [pool EXCEPT ![StopOrder[keeper[2]]] = <<>>]
  /\ UNCHANGED <<role, current, outcome, acceptedAs, placed, reach, jobVars,
                 results, waiting, chosen, keeper>>

StopNode ==
  /\ keeper[1] = "stop"
  /\ ~stopped[StopOrder[keeper[2]]]
  /\ stopped' = [stopped EXCEPT ![StopOrder[keeper[2]]] = TRUE]
  /\ UNCHANGED <<role, pool, current, outcome, acceptedAs, placed, reach, jobVars,
                 results, waiting, chosen, keeper>>

JoinReturns ==
  /\ keeper[1] = "stop"
  /\ stopped[StopOrder[keeper[2]]] /\ ~Busy(StopOrder[keeper[2]])
  /\ Advance("stop", "gone")
  /\ UNCHANGED <<nodeVars, reach, jobVars, results, waiting, chosen>>

AllDone == (\A c \in Callers : ~Calling(c)) /\ keeper[1] = "gone" /\ UNCHANGED vars

-----------------------------------------------------------------------------
NodeStep(n) == Take(n) \/ RunChild(n)
JobStep(j) == Pre(j) \/ Dispatch(j) \/ AwaitChild(j) \/ Post(j)
CallerStep(c) == ChooseIngress(c) \/ PutRoot(c) \/ Collect(c)
KeeperStep == WaitAllReturns \/ StopNode \/ JoinReturns

Next ==
  \/ \E n \in Nodes : NodeStep(n)
  \/ \E j \in Jobs : JobStep(j)
  \/ \E c \in Callers : CallerStep(c)
  \/ \E n \in Nodes, r \in Roles : SetRole(n, r)
  \/ Rewire
  \/ StopAll \/ KeeperStep
  \/ AllDone

Spec == Init /\ [][Next]_vars

\* Every thread that can run does; works end.  The player owes nothing.
FairSpec ==
  /\ Spec
  /\ \A n \in Nodes : WF_vars(Take(n)) /\ WF_vars(RunChild(n))
  /\ \A j \in Jobs : WF_vars(JobStep(j))
  /\ \A c \in Callers : WF_vars(CallerStep(c))
  /\ WF_vars(KeeperStep)

-----------------------------------------------------------------------------
(* While a work is queued or executed, its node has the role the work is   *)
(* meant for, whatever roles the player changes in between.                *)
WorkRunsInItsRole ==
  \A n \in Nodes : \A w \in current[n] \cup ToSet(pool[n]) :
    role[n] = IF w[2] = 0 THEN App ELSE Demand(w)

(* docs/adr/0007: the wait graph of the delegations has no cycle.  No node *)
(* whose worker waits for a child executes or queues a child of another.   *)
WaitGraphIsFlat ==
  \A j, k \in Jobs : phase[j] = "await" =>
    \A i \in DOMAIN Plan[k] :
      outcome[<<k, i>>] = "none" => placed[<<k, i>>] # placed[Root(j)]

(* The structured results: a job is reported completed only when every     *)
(* delegation of its plan completed on a node; the steps before the last   *)
(* one tried completed; completed has no failure code, failed has one, and *)
(* a failed step is the reason of its job.                                 *)
ResultsAreTrue ==
  \A c \in Callers : \A x \in DOMAIN results[c] : LET r == results[c][x] IN
    /\ r.job = RunOf[c][x]
    /\ r.status = "completed" <=> r.code = "none"
    /\ r.status = "completed" => Len(r.children) = Len(Plan[r.job])
    /\ r.code = "delegation_failed" <=>
         r.children # <<>> /\ Last(r.children).status = "failed"
    /\ \A i \in DOMAIN r.children :
         /\ i < Len(r.children) => r.children[i].status = "completed"
         /\ r.children[i].status = "completed" <=> outcome[<<r.job, i>>] = "completed"
         /\ r.children[i].status = "completed" <=> r.children[i].code = "none"

(* Every run_workload returns, also beside a stop_all that has begun.      *)
EveryRunReturns == \A c \in Callers : <>~Calling(c)

(* stop_all ends although workers wait for one another's nodes.            *)
StopAllEnds == keeper[1] = "wait" ~> keeper[1] = "gone"

-----------------------------------------------------------------------------
(* Each node keeps to the contract of a Node.                              *)

StatusOn(n, w) ==
  IF placed[w] # n THEN "new"
  ELSE IF outcome[w] # "none" THEN outcome[w]
  ELSE IF w \in current[n] THEN "running" ELSE "queued"

Contract(n) == INSTANCE NodeContract WITH
  Clients <- {}, answer <- <<>>,
  queue <- pool[n],
  status <- [w \in Works |-> StatusOn(n, w)],
  role <- role[n],
  acceptedAs <- [w \in Works |-> IF placed[w] = n THEN acceptedAs[w] ELSE NoRole],
  stopped <- stopped[n]

\* Contract(n)!Spec for every node.
NodesBegin == \A n \in Nodes : Contract(n)!Init
NodesStep == \A n \in Nodes : [Contract(n)!Next]_(Contract(n)!vars)
NodesKeepContract == NodesBegin /\ [][NodesStep]_vars
=============================================================================
