-------------------------- MODULE DelegationProofs --------------------------
(***************************************************************************)
(* Theorems about Delegation for every set of nodes, roles, jobs and       *)
(* callers, every plan and every network.  The inductive invariant IInv    *)
(* says that a work is on at most one node and on it until it has an       *)
(* outcome (Placing), where the worker of a job stands (JobPhases), which  *)
(* children of a job have been put to a node and what has become of them   *)
(* (Steps), which jobs a caller has submitted (Callings), and that a role  *)
(* waits for the works accepted under it (InRole).  Outcomes says why the  *)
(* results that a caller gets are true.                                    *)
(***************************************************************************)
EXTENDS Delegation, CollectionLemmas, TLAPS

Phases == {"new", "pre", "delegate", "await", "ended"}
Active == {"pre", "delegate", "await"}
Codes == {"none", "no_ingress", "node_execution_failed", "delegation_failed",
          "node_not_found", "role_mismatch", "no_eligible_node", "route_unreachable"}
StepResults ==
  [role : Roles, node : Nat, status : {"completed", "failed"}, code : Codes]
JobResults ==
  [job : Jobs, status : {"completed", "failed"}, code : Codes, node : Nat,
   children : Seq(StepResults)]

TypeOK ==
  /\ role \in [Nodes -> Roles] /\ stopped \in [Nodes -> BOOLEAN]
  /\ pool \in [Nodes -> Seq(Works)] /\ current \in [Nodes -> SUBSET Works]
  /\ outcome \in [Works -> {"none", "completed", "failed"}]
  /\ acceptedAs \in [Works -> Roles \cup {NoRole}]
  /\ placed \in [Works -> Nodes \cup {0}]
  /\ phase \in [Jobs -> Phases] /\ code \in [Jobs -> Codes]
  /\ steps \in [Jobs -> Seq(StepResults)]
  /\ results \in [Callers -> Seq(JobResults)]
  /\ waiting \in [Callers -> BOOLEAN] /\ chosen \in [Callers -> Nodes \cup {0}]

\* The work is queued or executed on the node.
On(n, w) == w \in current[n] \/ Contains(pool[n], w)

\* An accepted work is in one place, once, until it has an outcome.
Placing ==
  /\ \A n \in Nodes, w \in Works : On(n, w) => placed[w] = n /\ outcome[w] = "none"
  /\ \A w \in Works : placed[w] # 0 /\ outcome[w] = "none" => On(placed[w], w)
  /\ \A w \in Works : placed[w] = 0 => outcome[w] = "none"
  /\ \A n \in Nodes : IsInjective(pool[n])
  /\ \A n \in Nodes : \A w \in current[n] : ~Contains(pool[n], w)

\* A job is active exactly while a worker executes its parent work.
JobPhases ==
  \A j \in Jobs :
    /\ phase[j] \in Active <=> \E n \in Nodes : Root(j) \in current[n]
    /\ phase[j] = "ended" <=> outcome[Root(j)] # "none"

\* Children are put one after the other, each when the steps before it are
\* over, and the one awaited is the only one that may be unfinished.
Steps ==
  \A j \in Jobs :
    /\ Len(steps[j]) <= Len(Plan[j])
    /\ phase[j] = "await" => Len(steps[j]) < Len(Plan[j])
    /\ \A i \in DOMAIN Plan[j] : placed[<<j, i>>] # 0 =>
         \/ i <= Len(steps[j]) /\ outcome[<<j, i>>] # "none"
         \/ i = Len(steps[j]) + 1 /\ phase[j] = "await"

\* A caller submits its jobs in order and waits for the last one submitted.
Callings ==
  \A c \in Callers :
    /\ Len(results[c]) <= Len(RunOf[c])
    /\ waiting[c] \/ chosen[c] # 0 => Len(results[c]) < Len(RunOf[c])
    /\ ~(waiting[c] /\ chosen[c] # 0)
    /\ \A x \in DOMAIN RunOf[c] : placed[Root(RunOf[c][x])] # 0 =>
         x <= Len(results[c]) \/ (waiting[c] /\ x = Len(results[c]) + 1)

MeantFor(w) == IF w[2] = 0 THEN App ELSE Demand(w)

\* A role is kept for the works on the node and for the one about to be put.
InRole ==
  /\ \A n \in Nodes, w \in Works :
       On(n, w) => role[n] = MeantFor(w) /\ acceptedAs[w] = role[n]
  /\ \A c \in Callers : chosen[c] # 0 => role[chosen[c]] = App

IInv == TypeOK /\ Placing /\ JobPhases /\ Steps /\ Callings /\ InRole

\* The steps of a job say what became of its children, and while the job is
\* not ended all of them completed; its code says why it ended.
StepsTold ==
  \A j \in Jobs :
    /\ \A i \in DOMAIN steps[j] :
         /\ steps[j][i].status = "completed" <=> outcome[<<j, i>>] = "completed"
         /\ steps[j][i].status = "completed" <=> steps[j][i].code = "none"
         /\ i < Len(steps[j]) \/ phase[j] # "ended" => steps[j][i].status = "completed"
    /\ phase[j] = "ended" =>
         /\ outcome[Root(j)] = "completed" <=> code[j] = "none"
         /\ outcome[Root(j)] = "completed" => PlanDone(j)
         /\ code[j] = "delegation_failed" <=>
              steps[j] # <<>> /\ Last(steps[j]).status = "failed"

\* A caller's result is a copy of how its job ended, or no_ingress.
ResultsTold ==
  \A c \in Callers : \A x \in DOMAIN results[c] : LET r == results[c][x] IN
    /\ r.job = RunOf[c][x]
    /\ \/ r.status = "failed" /\ r.code = "no_ingress" /\ r.children = <<>>
       \/ /\ phase[r.job] = "ended" /\ r.status = outcome[Root(r.job)]
          /\ r.code = code[r.job] /\ r.children = steps[r.job]

Outcomes == StepsTold /\ ResultsTold

-----------------------------------------------------------------------------
(* Works                                                                   *)

\* A work is the parent of its job or one child of its plan.
LEMMA WorkIds ==
  /\ \A j \in Jobs : /\ Root(j) \in Works /\ Root(j)[1] = j /\ Root(j)[2] = 0
                     /\ Root(j) \notin Children
  /\ \A j \in Jobs : \A i \in DOMAIN Plan[j] :
       /\ i \in Nat /\ i # 0
       /\ <<j, i>> \in Works /\ <<j, i>> \in Children /\ <<j, i>>[1] = j /\ <<j, i>>[2] = i
       /\ <<j, i>> # Root(j)
  /\ \A w \in Works : \/ \E j \in Jobs : w = Root(j)
                      \/ \E j \in Jobs : \E i \in DOMAIN Plan[j] : w = <<j, i>>
  /\ \A w \in Children : \E j \in Jobs : \E i \in DOMAIN Plan[j] : w = <<j, i>>
  /\ \A w \in Children : w \in Works /\ w[2] # 0
<1>1. \A j \in Jobs : \A i \in DOMAIN Plan[j] : i \in Nat /\ i # 0
  BY DelegationAssumption
<1>2. \A j \in Jobs : \A i \in DOMAIN Plan[j] : <<j, i>> \in Children
  BY DEF Children
<1>3. \A w \in Children : \E j \in Jobs : \E i \in DOMAIN Plan[j] : w = <<j, i>>
  BY DEF Children
<1>4. \A j \in Jobs : Root(j) \in Works /\ Root(j)[1] = j /\ Root(j)[2] = 0
  BY DEF Works, Root
<1>5. \A w \in Works : w \in Children \/ \E j \in Jobs : w = Root(j)
  BY DEF Works, Root
<1>6. \A w \in Children : w \in Works /\ w[2] # 0
  BY <1>1, <1>3 DEF Works
<1> QED
  BY <1>1, <1>2, <1>3, <1>4, <1>5, <1>6

\* The role of a parent and of a child, which are never the same.
LEMMA Demands ==
  /\ \A j \in Jobs : MeantFor(Root(j)) = App
  /\ \A j \in Jobs : \A i \in DOMAIN Plan[j] :
       /\ MeantFor(<<j, i>>) = Plan[j][i].role
       /\ Plan[j][i].role \in Roles /\ Plan[j][i].role # App
       /\ Plan[j][i].node \in Nat
<1> DEFINE D == [role : Roles \ {App}, node : Nat]
<1>1. \A j \in Jobs : \A i \in DOMAIN Plan[j] : Plan[j][i] \in D
  <2>1. \A j \in Jobs : Plan[j] \in Seq(D)
    BY DelegationAssumption
  <2> HIDE DEF D
  <2> QED
    BY <2>1
<1> QED
  BY <1>1, WorkIds DEF MeantFor, Demand

\* Lowest picks from a set that is not empty, and no id is 0.
LEMMA LowestIsOne ==
  ASSUME NEW ns, ns \subseteq Nodes, ns # {}
  PROVE  Lowest(ns) \in ns /\ Lowest(ns) \in Nodes /\ Lowest(ns) \in Nat /\ Lowest(ns) # 0
<1>1. Nodes \subseteq Nat \ {0}
  BY DelegationAssumption
<1>2. \E x \in ns : \A y \in ns : x <= y
  BY <1>1, HasLeast
<1>3. Lowest(ns) \in ns
  BY <1>2 DEF Lowest
<1> QED
  BY <1>1, <1>3

-----------------------------------------------------------------------------
(* What the operations of a node do to the works on it                     *)

\* put adds one work to one node.
LEMMA PutPlaces ==
  ASSUME TypeOK, NEW n \in Nodes, NEW w \in Works, Put(n, w)
  PROVE  /\ \A m \in Nodes : \A v : On(m, v)' <=> On(m, v) \/ (m = n /\ v = w)
         /\ \A m \in Nodes \ {n} : pool'[m] = pool[m]
         /\ \A v : Contains(pool'[n], v) <=> Contains(pool[n], v) \/ v = w
         /\ IsInjective(pool[n]) /\ ~Contains(pool[n], w) => IsInjective(pool'[n])
         /\ pool' \in [Nodes -> Seq(Works)]
<1>1. /\ pool'[n] = Append(pool[n], w) /\ pool[n] \in Seq(Works) /\ current' = current
      /\ \A m \in Nodes \ {n} : pool'[m] = pool[m]
  BY DEF Put, TypeOK
<1>2. /\ \A v : Contains(pool'[n], v) <=> Contains(pool[n], v) \/ v = w
      /\ IsInjective(pool[n]) /\ ~Contains(pool[n], w) => IsInjective(pool'[n])
      /\ pool'[n] \in Seq(Works)
  BY <1>1, AppendMembers
<1>3. pool' \in [Nodes -> Seq(Works)]
  BY <1>2 DEF Put, TypeOK
<1>4. \A m \in Nodes : \A v : On(m, v)' <=> On(m, v) \/ (m = n /\ v = w)
  BY <1>1, <1>2 DEF On
<1> QED
  BY <1>1, <1>2, <1>3, <1>4

\* The worker of a node takes the head of its queue.
Takes(n) ==
  /\ pool[n] # <<>>
  /\ pool' = [pool EXCEPT ![n] = Tail(@)]
  /\ current' = [current EXCEPT ![n] = @ \cup {Head(pool[n])}]
  /\ UNCHANGED <<role, stopped, outcome, acceptedAs, placed>>

\* Taking a work keeps it on the node.
LEMMA TakePlaces ==
  ASSUME TypeOK, Placing, NEW n \in Nodes, Takes(n)
  PROVE  /\ Head(pool[n]) \in Works /\ Contains(pool[n], Head(pool[n]))
         /\ \A m \in Nodes : \A v : On(m, v)' <=> On(m, v)
         /\ \A m \in Nodes \ {n} : pool'[m] = pool[m] /\ current'[m] = current[m]
         /\ IsInjective(pool'[n])
         /\ \A v : Contains(pool'[n], v) <=> Contains(pool[n], v) /\ v # Head(pool[n])
         /\ pool' \in [Nodes -> Seq(Works)] /\ current' \in [Nodes -> SUBSET Works]
<1> DEFINE w == Head(pool[n])
<1>1. /\ pool'[n] = Tail(pool[n]) /\ pool[n] \in Seq(Works) /\ pool[n] # <<>>
      /\ current'[n] = current[n] \cup {w}
      /\ \A m \in Nodes \ {n} : pool'[m] = pool[m] /\ current'[m] = current[m]
      /\ IsInjective(pool[n])
  BY DEF Takes, TypeOK, Placing
<1>2. /\ Tail(pool[n]) \in Seq(Works) /\ w \in Works /\ Contains(pool[n], w)
      /\ IsInjective(Tail(pool[n]))
      /\ \A v : Contains(Tail(pool[n]), v) <=> Contains(pool[n], v) /\ v # w
  BY <1>1, TailMembers
<1>3. pool' \in [Nodes -> Seq(Works)] /\ current' \in [Nodes -> SUBSET Works]
  BY <1>2 DEF Takes, TypeOK
<1> HIDE DEF w
<1>4. \A m \in Nodes : \A v : On(m, v)' <=> On(m, v)
  BY <1>1, <1>2 DEF On
<1> QED
  BY <1>1, <1>2, <1>3, <1>4 DEF w

\* A work that ends leaves the only node it was on.
LEMMA FinishPlaces ==
  ASSUME TypeOK, Placing, NEW w \in Works, NEW o, Finish(w, o),
         placed[w] # 0, w \in current[placed[w]]
  PROVE  /\ \A m \in Nodes : \A v \in Works : On(m, v)' <=> On(m, v) /\ v # w
         /\ \A m \in Nodes : current'[m] \subseteq current[m]
         /\ current' \in [Nodes -> SUBSET Works]
         /\ \A m \in Nodes : \A v \in Works : v # w => (v \in current'[m] <=> v \in current[m])
         /\ outcome[w] = "none" /\ placed[w] \in Nodes
<1>1. placed[w] \in Nodes /\ On(placed[w], w)
  BY DEF TypeOK, On
<1>2. /\ \A m \in Nodes : m # placed[w] => ~On(m, w) /\ current'[m] = current[m]
      /\ current'[placed[w]] = current[placed[w]] \ {w}
      /\ current' \in [Nodes -> SUBSET Works]
      /\ pool' = pool /\ outcome[w] = "none" /\ ~Contains(pool[placed[w]], w)
  BY <1>1 DEF Finish, TypeOK, Placing
<1> QED
  BY <1>1, <1>2 DEF On

-----------------------------------------------------------------------------
(* Every step treats the nodes in one of six ways.                         *)

Accepts(n, w) ==
  /\ ~stopped[n] /\ placed[w] = 0 /\ role[n] = MeantFor(w)
  /\ Put(n, w)

Ends(w, o) ==
  /\ placed[w] # 0 /\ w \in current[placed[w]]
  /\ Finish(w, o)

Changes(n, r) ==
  /\ ~stopped[n] /\ ~Busy(n) /\ LockFree
  /\ role' = [role EXCEPT ![n] = r]
  /\ UNCHANGED <<stopped, pool, current, outcome, acceptedAs, placed>>

Stops(n) ==
  /\ stopped' = [stopped EXCEPT ![n] = TRUE]
  /\ UNCHANGED <<role, pool, current, outcome, acceptedAs, placed>>

NodeEffect ==
  \/ \E n \in Nodes, w \in Works : Accepts(n, w)
  \/ \E w \in Works, o \in {"completed", "failed"} : Ends(w, o)
  \/ \E n \in Nodes : Takes(n)
  \/ \E n \in Nodes, r \in Roles : Changes(n, r)
  \/ \E n \in Nodes : Stops(n)
  \/ UNCHANGED nodeVars

\* The worker of an active job is on the node that accepted the job.
LEMMA ActiveIsPlaced ==
  ASSUME IInv, NEW j \in Jobs, phase[j] \in Active
  PROVE  /\ placed[Root(j)] \in Nodes /\ placed[Root(j)] # 0
         /\ Root(j) \in current[placed[Root(j)]] /\ On(placed[Root(j)], Root(j))
         /\ outcome[Root(j)] = "none"
<1>1. PICK n \in Nodes : Root(j) \in current[n]
  BY DEF IInv, JobPhases
<1>2. On(n, Root(j)) /\ placed[Root(j)] = n /\ outcome[Root(j)] = "none"
  BY <1>1, WorkIds DEF IInv, Placing, On
<1>3. n # 0
  BY DelegationAssumption
<1> QED
  BY <1>1, <1>2, <1>3

\* The next child of a plan has not been put to any node.
LEMMA NextChild ==
  ASSUME IInv, NEW j \in Jobs, Len(steps[j]) < Len(Plan[j])
  PROVE  /\ Len(steps[j]) + 1 \in DOMAIN Plan[j] /\ Len(steps[j]) \in Nat
         /\ <<j, Len(steps[j]) + 1>> \in Works
         /\ phase[j] # "await" => placed[<<j, Len(steps[j]) + 1>>] = 0
<1>1. steps[j] \in Seq(StepResults) /\ Plan[j] \in Seq([role : Roles \ {App}, node : Nat])
  BY DelegationAssumption DEF IInv, TypeOK
<1>2. Len(steps[j]) \in Nat /\ Len(Plan[j]) \in Nat /\ DOMAIN Plan[j] = 1 .. Len(Plan[j])
  BY <1>1
<1>3. Len(steps[j]) + 1 \in DOMAIN Plan[j]
  BY <1>2
<1>4. phase[j] # "await" => placed[<<j, Len(steps[j]) + 1>>] = 0
  BY <1>2, <1>3 DEF IInv, Steps
<1> QED
  BY <1>2, <1>3, <1>4, WorkIds

\* A caller's next job is a job nobody has submitted.
LEMMA NextIsFresh ==
  ASSUME IInv, NEW c \in Callers, Len(results[c]) < Len(RunOf[c])
  PROVE  /\ NextJob(c) \in Jobs /\ Len(results[c]) + 1 \in DOMAIN RunOf[c]
         /\ Len(results[c]) \in Nat
         /\ ~waiting[c] => placed[Root(NextJob(c))] = 0
<1>1. results[c] \in Seq(JobResults) /\ RunOf[c] \in Seq(Jobs)
  BY DelegationAssumption DEF IInv, TypeOK
<1>2. Len(results[c]) + 1 \in DOMAIN RunOf[c] /\ Len(results[c]) \in Nat
  BY <1>1
<1>3. NextJob(c) \in Jobs
  BY <1>1, <1>2 DEF NextJob
<1>4. ~waiting[c] => placed[Root(NextJob(c))] = 0
  BY <1>2, SMTT(30) DEF IInv, Callings, NextJob
<1> QED
  BY <1>2, <1>3, <1>4

NextStep(j) == Len(steps[j]) + 1

\* What Dispatch comes to: a failed step that ends the job, or a child put to
\* a node of the role it demands.
DispatchFails(j) ==
  \E node \in Nat, why \in Codes \ {"none"} :
    /\ steps' = [steps EXCEPT ![j] = Append(@, Step(j, node, "failed", why))]
    /\ EndJob(j, "failed", "delegation_failed")

DispatchPuts(j) ==
  /\ \E n \in Nodes : Accepts(n, <<j, NextStep(j)>>)
  /\ phase' = [phase EXCEPT ![j] = "await"]
  /\ UNCHANGED <<steps, code>>

\* The outcome that wait_for returned ends the job or lets the plan go on.
AwaitEnds(j) ==
  /\ outcome[<<j, NextStep(j)>>] = "failed"
  /\ steps' = [steps EXCEPT ![j] =
       Append(@, Step(j, placed[<<j, NextStep(j)>>], "failed", "node_execution_failed"))]
  /\ EndJob(j, "failed", "delegation_failed")

AwaitGoesOn(j) ==
  /\ outcome[<<j, NextStep(j)>>] = "completed"
  /\ steps' = [steps EXCEPT ![j] =
       Append(@, Step(j, placed[<<j, NextStep(j)>>], "completed", "none"))]
  /\ Goto(j, "delegate")

\* The cases of the two actions of a job that look at a child.
LEMMA DispatchCases ==
  ASSUME IInv, NEW j \in Jobs, Dispatch(j)
  PROVE  /\ phase[j] = "delegate" /\ Len(steps[j]) < Len(Plan[j]) /\ LockFree
         /\ DispatchFails(j) \/ DispatchPuts(j)
<1>1. phase[j] = "delegate" /\ ~PlanDone(j) /\ LockFree
  BY Zenon DEF Dispatch
<1>2. Len(steps[j]) < Len(Plan[j])
  <2>1. Len(steps[j]) <= Len(Plan[j]) /\ Len(steps[j]) # Len(Plan[j])
    BY <1>1 DEF IInv, Steps, PlanDone
  <2>2. steps[j] \in Seq(StepResults) /\ Plan[j] \in Seq([role : Roles \ {App}, node : Nat])
    BY DelegationAssumption DEF IInv, TypeOK
  <2>3. Len(steps[j]) \in Nat /\ Len(Plan[j]) \in Nat
    BY <2>2
  <2> QED
    BY <2>1, <2>3
<1> DEFINE demand == Plan[j][NextStep(j)]
           able == {n \in Nodes : role[n] = demand.role /\ demand.node \in {0, n}}
           near == {n \in able : <<placed[Root(j)], n>> \in reach}
<1>3. /\ demand.node \in Nat /\ <<j, NextStep(j)>> \in Works
      /\ demand.role = MeantFor(<<j, NextStep(j)>>)
      /\ placed[<<j, NextStep(j)>>] = 0
  BY <1>1, <1>2, NextChild, Demands DEF NextStep
<1>4. ASSUME NEW node \in Nat, NEW why \in Codes \ {"none"}, Fails(j, node, why)
      PROVE  DispatchFails(j)
  BY <1>4 DEF Fails, AddStep, Step, DispatchFails
<1>5. able # {} => Lowest(able) \in Nat
  BY LowestIsOne
<1>6. near # {} => Lowest(near) \in near /\ Lowest(near) \in Nat /\ Lowest(near) \in Nodes
  BY LowestIsOne, Zenon
<1>7. \/ Fails(j, demand.node, "node_not_found")
      \/ Fails(j, demand.node, "role_mismatch")
      \/ Fails(j, 0, "no_eligible_node")
      \/ able # {} /\ Fails(j, Lowest(able), "route_unreachable")
      \/ near # {} /\ Fails(j, Lowest(near), "node_execution_failed")
      \/ /\ near # {} /\ ~stopped[Lowest(near)]
         /\ Put(Lowest(near), <<j, NextStep(j)>>)
         /\ phase' = [phase EXCEPT ![j] = "await"]
         /\ UNCHANGED <<steps, code>>
  BY Zenon DEF Dispatch, NextStep
<1>8. ASSUME near # {}, ~stopped[Lowest(near)], Put(Lowest(near), <<j, NextStep(j)>>)
      PROVE  \E n \in Nodes : Accepts(n, <<j, NextStep(j)>>)
  BY <1>8, <1>6, <1>3 DEF Accepts
<1> HIDE DEF demand, able, near
<1>9. {"node_not_found", "role_mismatch", "no_eligible_node", "route_unreachable",
       "node_execution_failed"} \subseteq Codes \ {"none"}
  BY DEF Codes
<1>10. DispatchFails(j) \/ DispatchPuts(j)
  BY <1>3, <1>4, <1>5, <1>6, <1>7, <1>8, <1>9 DEF DispatchPuts
<1> QED
  BY <1>1, <1>2, <1>10

\* A job that learns how its child ended appends the step and either goes on
\* or ends, and it had a step to wait for.
LEMMA AwaitCases ==
  ASSUME IInv, NEW j \in Jobs, AwaitChild(j)
  PROVE  /\ phase[j] = "await" /\ Len(steps[j]) < Len(Plan[j])
         /\ AwaitEnds(j) \/ AwaitGoesOn(j)
<1>1. phase[j] = "await" /\ Len(steps[j]) < Len(Plan[j])
  BY DEF AwaitChild, IInv, Steps
<1>2. outcome[<<j, NextStep(j)>>] \in {"completed", "failed"}
  BY <1>1, NextChild DEF AwaitChild, IInv, TypeOK, NextStep
<1>3. AddStep(j, Step(j, placed[<<j, NextStep(j)>>], outcome[<<j, NextStep(j)>>],
              IF outcome[<<j, NextStep(j)>>] = "failed" THEN "node_execution_failed" ELSE "none"))
  BY DEF AwaitChild, NextStep
<1> QED
  BY <1>1, <1>2, <1>3 DEF AddStep, Step, AwaitEnds, AwaitGoesOn

\* Ending a job is the end of its parent work.
LEMMA EndJobEnds ==
  ASSUME IInv, NEW j \in Jobs, phase[j] \in Active, NEW o, NEW why, EndJob(j, o, why)
  PROVE  Ends(Root(j), o)
BY ActiveIsPlaced DEF EndJob, Ends

\* Whatever the system does to pool and current is one of the five movements
\* of a work that NodeEffect lists, or nothing.
LEMMA Effects == IInv /\ [Next]_vars => NodeEffect
<1> SUFFICES ASSUME IInv, [Next]_vars PROVE NodeEffect
  OBVIOUS
<1>1. ASSUME NEW n \in Nodes, Take(n) PROVE NodeEffect
  BY <1>1 DEF Take, Takes, NodeEffect
<1>2. ASSUME NEW n \in Nodes, RunChild(n) PROVE NodeEffect
  <2>1. PICK w \in current[n] \cap Children, o \in {"completed", "failed"} : Finish(w, o)
    BY <1>2 DEF RunChild
  <2>2. w \in Works /\ On(n, w) /\ n # 0
    BY WorkIds, DelegationAssumption DEF On
  <2>3. Ends(w, o)
    BY <2>1, <2>2 DEF IInv, Placing, Ends
  <2> QED
    BY <2>2, <2>3 DEF NodeEffect
<1>3. ASSUME NEW j \in Jobs, JobStep(j) PROVE NodeEffect
  <2>1. ASSUME NEW o \in {"completed", "failed"}, NEW why, EndJob(j, o, why), phase[j] \in Active
        PROVE  NodeEffect
    BY <2>1, EndJobEnds, WorkIds DEF NodeEffect
  <2>2. CASE Pre(j)
    BY <2>2, <2>1 DEF Pre, Goto, NodeEffect, Active
  <2>3. CASE Post(j)
    BY <2>3, <2>1 DEF Post, Active
  <2>4. CASE Dispatch(j)
    <3>1. phase[j] \in Active /\ <<j, NextStep(j)>> \in Works
      BY <2>4, DispatchCases, NextChild DEF Active, NextStep
    <3> QED
      BY <2>4, <2>1, <3>1, DispatchCases DEF DispatchFails, DispatchPuts, NodeEffect
  <2>5. CASE AwaitChild(j)
    <3>1. phase[j] \in Active
      BY <2>5, AwaitCases DEF Active
    <3> QED
      BY <2>5, <2>1, <3>1, AwaitCases DEF AwaitEnds, AwaitGoesOn, Goto, NodeEffect
  <2> QED
    BY <1>3, <2>2, <2>3, <2>4, <2>5 DEF JobStep
<1>4. ASSUME NEW c \in Callers, CallerStep(c) PROVE NodeEffect
  <2>1. CASE ChooseIngress(c)
    BY <2>1 DEF ChooseIngress, NoIngress, NodeEffect
  <2>2. CASE PutRoot(c)
    <3>1. /\ chosen[c] \in Nodes /\ role[chosen[c]] = App
          /\ NextJob(c) \in Jobs /\ placed[Root(NextJob(c))] = 0
      BY <2>2, NextIsFresh DEF PutRoot, IInv, TypeOK, Callings, InRole
    <3>2. CASE stopped[chosen[c]]
      BY <2>2, <3>2 DEF PutRoot, NoIngress, NodeEffect
    <3>3. CASE ~stopped[chosen[c]]
      <4>1. Accepts(chosen[c], Root(NextJob(c)))
        BY <2>2, <3>1, <3>3, Demands DEF PutRoot, Accepts
      <4> QED
        BY <4>1, <3>1, WorkIds DEF NodeEffect
    <3> QED
      BY <3>2, <3>3
  <2>3. CASE Collect(c)
    BY <2>3 DEF Collect, NodeEffect
  <2> QED
    BY <1>4, <2>1, <2>2, <2>3 DEF CallerStep
<1>5. ASSUME NEW n \in Nodes, NEW r \in Roles, SetRole(n, r) PROVE NodeEffect
  BY <1>5 DEF SetRole, Changes, NodeEffect
<1>6. CASE StopNode
  <2>1. CASE StopOrder[keeper[2]] \in Nodes
    BY <1>6, <2>1 DEF StopNode, Stops, NodeEffect
  <2>2. CASE StopOrder[keeper[2]] \notin Nodes
    BY <1>6, <2>2 DEF StopNode, NodeEffect, nodeVars, IInv, TypeOK
  <2> QED
    BY <2>1, <2>2
<1>7. CASE Rewire \/ StopAll \/ WaitAllReturns \/ JoinReturns \/ AllDone \/ UNCHANGED vars
  BY <1>7 DEF Rewire, StopAll, WaitAllReturns, JoinReturns, AllDone, vars, nodeVars, NodeEffect
<1> QED
  BY <1>1, <1>2, <1>3, <1>4, <1>5, <1>6, <1>7 DEF Next, NodeStep, KeeperStep

-----------------------------------------------------------------------------
(* Each part of the invariant                                              *)

\* The delegation starts in the invariant.
LEMMA IInvInit == Init => IInv /\ Outcomes
<1> SUFFICES ASSUME Init PROVE IInv /\ Outcomes
  OBVIOUS
<1>0. StartRoles \in [Nodes -> Roles]
  BY DelegationAssumption
<1>1. TypeOK
  BY <1>0 DEF Init, TypeOK, Phases, Codes
<1>2. \A n \in Nodes : \A w : ~On(n, w)
  BY EmptyMembers DEF Init, On
<1>3. Placing
  BY <1>2, EmptyMembers DEF Init, Placing
<1>4. JobPhases
  BY WorkIds DEF Init, JobPhases, Active
<1>5. \A j \in Jobs : Len(steps[j]) = 0 /\ Len(Plan[j]) \in Nat
  BY DelegationAssumption DEF Init
<1>6. Steps
  BY <1>5, WorkIds DEF Init, Steps
<1>7. \A c \in Callers : Len(results[c]) = 0 /\ Len(RunOf[c]) \in Nat
  BY DelegationAssumption DEF Init
<1>8. \A c \in Callers : \A x \in DOMAIN RunOf[c] : RunOf[c][x] \in Jobs
  BY DelegationAssumption
<1>9. Callings
  BY <1>7, <1>8, WorkIds DEF Init, Callings
<1>10. InRole
  BY <1>2 DEF Init, InRole
<1>11. Outcomes
  BY DEF Init, Outcomes, StepsTold, ResultsTold
<1> QED
  BY <1>1, <1>3, <1>4, <1>6, <1>9, <1>10, <1>11 DEF IInv

\* The variables of the nodes keep their types under every effect.
LEMMA NodeTypes ==
  ASSUME IInv, NodeEffect
  PROVE  /\ role' \in [Nodes -> Roles] /\ stopped' \in [Nodes -> BOOLEAN]
         /\ pool' \in [Nodes -> Seq(Works)] /\ current' \in [Nodes -> SUBSET Works]
         /\ outcome' \in [Works -> {"none", "completed", "failed"}]
         /\ acceptedAs' \in [Works -> Roles \cup {NoRole}]
         /\ placed' \in [Works -> Nodes \cup {0}]
<1> USE DEF IInv, TypeOK
<1>1. ASSUME NEW n \in Nodes, NEW w \in Works, Accepts(n, w)
      PROVE  /\ pool' \in [Nodes -> Seq(Works)]
             /\ acceptedAs' \in [Works -> Roles \cup {NoRole}]
             /\ placed' \in [Works -> Nodes \cup {0}]
             /\ UNCHANGED <<role, stopped, current, outcome>>
  BY <1>1, PutPlaces DEF Accepts, Put
<1>2. ASSUME NEW w \in Works, NEW o \in {"completed", "failed"}, Ends(w, o)
      PROVE  /\ current' \in [Nodes -> SUBSET Works]
             /\ outcome' \in [Works -> {"none", "completed", "failed"}]
             /\ UNCHANGED <<role, stopped, pool, acceptedAs, placed>>
  BY <1>2, FinishPlaces DEF Ends, Finish
<1>3. ASSUME NEW n \in Nodes, Takes(n)
      PROVE  /\ pool' \in [Nodes -> Seq(Works)] /\ current' \in [Nodes -> SUBSET Works]
             /\ UNCHANGED <<role, stopped, outcome, acceptedAs, placed>>
  BY <1>3, TakePlaces DEF Takes
<1>4. ASSUME NEW n \in Nodes, NEW r \in Roles, Changes(n, r)
      PROVE  /\ role' \in [Nodes -> Roles]
             /\ UNCHANGED <<stopped, pool, current, outcome, acceptedAs, placed>>
  BY <1>4 DEF Changes
<1>5. ASSUME NEW n \in Nodes, Stops(n)
      PROVE  /\ stopped' \in [Nodes -> BOOLEAN]
             /\ UNCHANGED <<role, pool, current, outcome, acceptedAs, placed>>
  BY <1>5 DEF Stops
<1> HIDE DEF IInv
<1> QED
  BY <1>1, <1>2, <1>3, <1>4, <1>5 DEF NodeEffect, nodeVars, IInv

\* A step result and a job result have the fields they should.
LEMMA ResultTypes ==
  /\ \A j \in Jobs, node \in Nat, status \in {"completed", "failed"}, why \in Codes :
       IInv /\ Len(steps[j]) < Len(Plan[j]) => Step(j, node, status, why) \in StepResults
  /\ \A j \in Jobs, status \in {"completed", "failed"}, why \in Codes, node \in Nat,
        children \in Seq(StepResults) :
       JobResult(j, status, why, node, children) \in JobResults
<1>1. ASSUME NEW j \in Jobs, NEW node \in Nat, NEW status \in {"completed", "failed"},
             NEW why \in Codes, IInv, Len(steps[j]) < Len(Plan[j])
      PROVE  Step(j, node, status, why) \in StepResults
  <2>1. Plan[j][Len(steps[j]) + 1].role \in Roles
    BY <1>1, NextChild, Demands
  <2> QED
    BY <2>1 DEF Step, StepResults
<1>2. \A j \in Jobs, status \in {"completed", "failed"}, why \in Codes, node \in Nat,
        children \in Seq(StepResults) :
       JobResult(j, status, why, node, children) \in JobResults
  BY DEF JobResult, JobResults
<1> QED
  BY <1>1, <1>2

\* What the player and stop_all do is no business of jobs and callers.
LEMMA OtherSteps ==
  (\/ \E n \in Nodes, r \in Roles : SetRole(n, r)
   \/ Rewire \/ StopAll \/ KeeperStep \/ AllDone \/ UNCHANGED vars)
  => UNCHANGED <<phase, code, steps, results, waiting, chosen, current, outcome, placed>>
<1>1. ASSUME NEW n \in Nodes, NEW r \in Roles, SetRole(n, r)
      PROVE  UNCHANGED <<phase, code, steps, results, waiting, chosen, current, outcome, placed>>
  BY <1>1 DEF SetRole, jobVars
<1>2. Rewire \/ StopAll \/ WaitAllReturns \/ JoinReturns =>
        UNCHANGED <<phase, code, steps, results, waiting, chosen, current, outcome, placed>>
  BY DEF Rewire, StopAll, WaitAllReturns, JoinReturns, jobVars, nodeVars
<1>3. StopNode \/ AllDone \/ UNCHANGED vars =>
        UNCHANGED <<phase, code, steps, results, waiting, chosen, current, outcome, placed>>
  BY DEF StopNode, AllDone, vars, jobVars
<1> QED
  BY <1>1, <1>2, <1>3 DEF KeeperStep

\* The variables of the jobs and of the callers keep theirs.
LEMMA TypeStep == IInv /\ [Next]_vars => TypeOK'
<1> SUFFICES ASSUME IInv, [Next]_vars PROVE TypeOK'
  OBVIOUS
<1> DEFINE JobTypes ==
      /\ phase' \in [Jobs -> Phases] /\ code' \in [Jobs -> Codes]
      /\ steps' \in [Jobs -> Seq(StepResults)]
    CallerTypes ==
      /\ results' \in [Callers -> Seq(JobResults)]
      /\ waiting' \in [Callers -> BOOLEAN] /\ chosen' \in [Callers -> Nodes \cup {0}]
<1>0. /\ phase \in [Jobs -> Phases] /\ code \in [Jobs -> Codes]
      /\ steps \in [Jobs -> Seq(StepResults)]
      /\ results \in [Callers -> Seq(JobResults)]
      /\ waiting \in [Callers -> BOOLEAN] /\ chosen \in [Callers -> Nodes \cup {0}]
      /\ outcome \in [Works -> {"none", "completed", "failed"}]
      /\ \A w \in Works : placed[w] \in Nat
  <2>1. Nodes \cup {0} \subseteq Nat
    BY DelegationAssumption
  <2> QED
    BY <2>1 DEF IInv, TypeOK
<1>1. ASSUME NEW n \in Nodes, NodeStep(n) PROVE JobTypes /\ CallerTypes
  <2>1. CASE Take(n)
    <3>1. Head(pool[n]) \in Works
      BY <2>1, TakePlaces DEF Take, Takes, IInv
    <3> QED
      BY <2>1, <1>0 DEF Take, Phases
  <2> QED
    BY <2>1, <1>1, <1>0 DEF NodeStep, RunChild, jobVars
<1>2. ASSUME NEW j \in Jobs, JobStep(j) PROVE JobTypes /\ CallerTypes
  <2>1. UNCHANGED <<results, waiting, chosen>>
    BY <1>2, Zenon DEF JobStep, Pre, Post, Dispatch, AwaitChild
  <2>2. ASSUME NEW o, NEW why \in Codes, EndJob(j, o, why)
        PROVE  phase' \in [Jobs -> Phases] /\ code' \in [Jobs -> Codes]
    BY <2>2, <1>0 DEF EndJob, Phases
  <2>3. ASSUME NEW r \in StepResults, steps' = [steps EXCEPT ![j] = Append(@, r)]
        PROVE  steps' \in [Jobs -> Seq(StepResults)]
    BY <2>3, <1>0
  <2>4. {"none", "node_execution_failed", "delegation_failed"} \subseteq Codes
    BY DEF Codes
  <2>5. \A p \in Phases : Goto(j, p) => phase' \in [Jobs -> Phases] /\ code' \in [Jobs -> Codes]
    BY <1>0 DEF Goto
  <2>6. CASE Pre(j) \/ Post(j)
    BY <2>6, <2>1, <2>2, <2>4, <2>5, <1>0 DEF Pre, Post, Phases
  <2>7. CASE Dispatch(j)
    <3>1. DispatchFails(j) => JobTypes
      <4> SUFFICES ASSUME DispatchFails(j) PROVE JobTypes
        OBVIOUS
      <4>1. PICK node \in Nat, why \in Codes \ {"none"} :
              /\ steps' = [steps EXCEPT ![j] = Append(@, Step(j, node, "failed", why))]
              /\ EndJob(j, "failed", "delegation_failed")
        BY DEF DispatchFails
      <4>2. Step(j, node, "failed", why) \in StepResults
        BY <2>7, DispatchCases, ResultTypes
      <4> QED
        BY <4>1, <4>2, <2>2, <2>3, <2>4
    <3>2. DispatchPuts(j) => JobTypes
      BY <1>0 DEF DispatchPuts, Phases
    <3> QED
      BY <3>1, <3>2, <2>1, <2>7, <1>0, DispatchCases
  <2>8. CASE AwaitChild(j)
    <3> DEFINE child == <<j, NextStep(j)>>
    <3>1. placed[child] \in Nat /\ Len(steps[j]) < Len(Plan[j])
      BY <2>8, <1>0, AwaitCases, NextChild DEF NextStep
    <3>2. /\ Step(j, placed[child], "failed", "node_execution_failed") \in StepResults
          /\ Step(j, placed[child], "completed", "none") \in StepResults
      BY <3>1, <2>4, ResultTypes
    <3> HIDE DEF child
    <3>3. AwaitEnds(j) => JobTypes
      BY <3>2, <2>2, <2>3, <2>4 DEF AwaitEnds, child
    <3>4. AwaitGoesOn(j) => JobTypes
      BY <3>2, <2>3, <2>5 DEF AwaitGoesOn, child, Phases
    <3> QED
      BY <3>3, <3>4, <2>1, <2>8, <1>0, AwaitCases
  <2> QED
    BY <1>2, <2>6, <2>7, <2>8 DEF JobStep
<1>3. ASSUME NEW c \in Callers, CallerStep(c) PROVE JobTypes /\ CallerTypes
  <2>1. UNCHANGED jobVars
    BY <1>3 DEF CallerStep, ChooseIngress, PutRoot, Collect
  <2>2. CASE NoIngress(c) /\ Len(results[c]) < Len(RunOf[c])
    <3>1. NextJob(c) \in Jobs /\ <<>> \in Seq(StepResults)
      BY <2>2, NextIsFresh
    <3>2. JobResult(NextJob(c), "failed", "no_ingress", 0, <<>>) \in JobResults
      BY <3>1, ResultTypes DEF Codes
    <3>3. results' \in [Callers -> Seq(JobResults)]
      BY <2>2, <3>2, <1>0 DEF NoIngress
    <3>4. chosen' \in [Callers -> Nodes \cup {0}]
      <4>1. Ingresses # {} => Lowest(Ingresses) \in Nodes
        BY LowestIsOne DEF Ingresses
      <4>2. ChooseIngress(c) => chosen' \in [Callers -> Nodes \cup {0}]
        BY <4>1, <1>0 DEF ChooseIngress
      <4>3. PutRoot(c) \/ Collect(c) => chosen' \in [Callers -> Nodes \cup {0}]
        BY <1>0 DEF PutRoot, Collect
      <4> QED
        BY <1>3, <4>2, <4>3 DEF CallerStep
    <3> QED
      BY <2>1, <2>2, <3>3, <3>4, <1>0 DEF NoIngress, jobVars
  <2>3. CASE ChooseIngress(c) /\ ~NoIngress(c)
    <3>1. Ingresses # {} => Lowest(Ingresses) \in Nodes
      BY LowestIsOne DEF Ingresses
    <3> QED
      BY <2>1, <2>3, <3>1, <1>0 DEF ChooseIngress, jobVars
  <2>4. CASE PutRoot(c) /\ ~NoIngress(c)
    BY <2>1, <2>4, <1>0 DEF PutRoot, jobVars
  <2>5. CASE Collect(c)
    <3>1. NextJob(c) \in Jobs
      BY <2>5, NextIsFresh DEF Collect, IInv, Callings
    <3>2. /\ outcome[Root(NextJob(c))] \in {"completed", "failed"}
          /\ placed[Root(NextJob(c))] \in Nat
      BY <2>5, <3>1, <1>0, WorkIds DEF Collect
    <3>3. JobResult(NextJob(c), outcome[Root(NextJob(c))], code[NextJob(c)],
                    placed[Root(NextJob(c))], steps[NextJob(c)]) \in JobResults
      BY <3>1, <3>2, <1>0, ResultTypes
    <3> QED
      BY <2>1, <2>5, <3>3, <1>0 DEF Collect, jobVars
  <2>6. (ChooseIngress(c) \/ PutRoot(c)) => Len(results[c]) < Len(RunOf[c])
    BY DEF ChooseIngress, Calling, PutRoot, IInv, Callings
  <2> QED
    BY <1>3, <2>2, <2>3, <2>4, <2>5, <2>6 DEF CallerStep
<1>4. ASSUME \/ \E n \in Nodes, r \in Roles : SetRole(n, r)
             \/ Rewire \/ StopAll \/ KeeperStep \/ AllDone \/ UNCHANGED vars
      PROVE  JobTypes /\ CallerTypes
  <2>1. /\ phase' = phase /\ code' = code /\ steps' = steps
        /\ results' = results /\ waiting' = waiting /\ chosen' = chosen
    BY <1>4, OtherSteps
  <2> QED
    BY <2>1, <1>0
<1> HIDE DEF JobTypes, CallerTypes
<1>5. JobTypes /\ CallerTypes
  BY <1>1, <1>2, <1>3, <1>4 DEF Next
<1> USE DEF JobTypes, CallerTypes
<1> QED
  BY <1>5, NodeTypes, Effects DEF TypeOK

\* No effect on the nodes loses, doubles or moves a work, and none leaves it
\* on a node of another role.
LEMMA PlacingStep ==
  ASSUME IInv, NodeEffect
  PROVE  /\ Placing'
         /\ \A n \in Nodes, w \in Works :
              On(n, w)' => role'[n] = MeantFor(w) /\ acceptedAs'[w] = role'[n]
<1> DEFINE RolesKept == \A n \in Nodes, w \in Works :
             On(n, w)' => role'[n] = MeantFor(w) /\ acceptedAs'[w] = role'[n]
<1> SUFFICES Placing' /\ RolesKept
  OBVIOUS
<1>0. /\ TypeOK /\ Placing /\ 0 \notin Nodes
      /\ \A n \in Nodes, w \in Works :
           On(n, w) => role[n] = MeantFor(w) /\ acceptedAs[w] = role[n]
  BY DelegationAssumption DEF IInv, InRole
<1>1. ASSUME NEW n \in Nodes, NEW w \in Works, Accepts(n, w) PROVE Placing' /\ RolesKept
  <2>1. /\ \A m \in Nodes : \A v : On(m, v)' <=> On(m, v) \/ (m = n /\ v = w)
        /\ \A m \in Nodes \ {n} : pool'[m] = pool[m]
        /\ \A v : Contains(pool'[n], v) <=> Contains(pool[n], v) \/ v = w
        /\ IsInjective(pool[n]) /\ ~Contains(pool[n], w) => IsInjective(pool'[n])
    BY <1>0, <1>1, PutPlaces DEF Accepts
  <2>2. /\ current' = current /\ outcome' = outcome /\ role' = role
        /\ placed' = [placed EXCEPT ![w] = n] /\ acceptedAs' = [acceptedAs EXCEPT ![w] = role[n]]
        /\ placed[w] = 0 /\ outcome[w] = "none" /\ role[n] = MeantFor(w)
        /\ \A m \in Nodes : ~On(m, w)
    BY <1>0, <1>1 DEF Accepts, Put, Placing
  <2>3. /\ \A v \in Works : placed'[v] = IF v = w THEN n ELSE placed[v]
        /\ \A v \in Works : acceptedAs'[v] = IF v = w THEN role[n] ELSE acceptedAs[v]
    BY <1>0, <2>2 DEF TypeOK
  <2>4. \A m \in Nodes : w \notin current[m] /\ ~Contains(pool[m], w)
    BY <2>2 DEF On
  <2>5. \A m \in Nodes : IsInjective(pool'[m]) /\ \A v \in current'[m] : ~Contains(pool'[m], v)
    BY <1>0, <2>1, <2>2, <2>4 DEF Placing
  <2>6. \A m \in Nodes, v \in Works : On(m, v)' => placed'[v] = m /\ outcome'[v] = "none"
    BY <1>0, <2>1, <2>2, <2>3 DEF Placing
  <2>7. \A v \in Works : placed'[v] # 0 /\ outcome'[v] = "none" => On(placed[v], v)'
    BY <1>0, <2>1, <2>2, <2>3 DEF Placing, TypeOK, On
  <2>8. \A v \in Works : placed'[v] = 0 => outcome'[v] = "none"
    BY <1>0, <2>2, <2>3 DEF Placing
  <2>9. RolesKept
    BY <1>0, <2>1, <2>2, <2>3
  <2> QED
    BY <2>5, <2>6, <2>7, <2>8, <2>9 DEF Placing
<1>2. ASSUME NEW w \in Works, NEW o \in {"completed", "failed"}, Ends(w, o)
      PROVE  Placing' /\ RolesKept
  <2>1. /\ \A m \in Nodes : \A v \in Works : On(m, v)' <=> On(m, v) /\ v # w
        /\ \A m \in Nodes : current'[m] \subseteq current[m]
    BY <1>0, <1>2, FinishPlaces DEF Ends
  <2>2. /\ pool' = pool /\ placed' = placed /\ role' = role /\ acceptedAs' = acceptedAs
        /\ placed[w] # 0
        /\ \A v \in Works : outcome'[v] = IF v = w THEN o ELSE outcome[v]
    BY <1>0, <1>2 DEF Ends, Finish, TypeOK
  <2>3. \A m \in Nodes : IsInjective(pool'[m]) /\ \A v \in current'[m] : ~Contains(pool'[m], v)
    BY <1>0, <2>1, <2>2 DEF Placing
  <2>4. \A m \in Nodes, v \in Works : On(m, v)' => placed'[v] = m /\ outcome'[v] = "none"
    BY <1>0, <2>1, <2>2 DEF Placing
  <2>5. ASSUME NEW v \in Works, placed'[v] # 0, outcome'[v] = "none"
        PROVE  On(placed[v], v)'
    <3>1. v # w /\ placed'[v] = placed[v] /\ placed[v] \in Nodes
      BY <1>0, <2>2, <2>5 DEF TypeOK
    <3>2. On(placed[v], v)
      BY <1>0, <2>2, <2>5, <3>1 DEF Placing
    <3> DEFINE m == placed[v]
    <3>3. v \in current'[m] \/ Contains(pool'[m], v)
      BY <2>1, <3>1, <3>2 DEF On
    <3> QED
      BY <2>2, <3>3 DEF On
  <2>6. \A v \in Works : placed'[v] = 0 => outcome'[v] = "none"
    BY <1>0, <2>2 DEF Placing
  <2>7. RolesKept
    BY <1>0, <2>1, <2>2
  <2> QED
    BY <2>3, <2>4, <2>5, <2>6, <2>7 DEF Placing
<1>3. ASSUME NEW n \in Nodes, Takes(n) PROVE Placing' /\ RolesKept
  <2> DEFINE w == Head(pool[n])
  <2>1. /\ w \in Works /\ Contains(pool[n], w)
        /\ \A m \in Nodes : \A v : On(m, v)' <=> On(m, v)
        /\ \A m \in Nodes \ {n} : pool'[m] = pool[m] /\ current'[m] = current[m]
        /\ IsInjective(pool'[n])
        /\ \A v : Contains(pool'[n], v) <=> Contains(pool[n], v) /\ v # w
    BY <1>0, <1>3, TakePlaces
  <2>2. /\ placed' = placed /\ role' = role /\ acceptedAs' = acceptedAs /\ outcome' = outcome
        /\ current'[n] = current[n] \cup {w}
    BY <1>0, <1>3 DEF Takes, TypeOK
  <2> HIDE DEF w
  <2>3. \A m \in Nodes : IsInjective(pool'[m]) /\ \A v \in current'[m] : ~Contains(pool'[m], v)
    BY <1>0, <2>1, <2>2 DEF Placing
  <2>4. RolesKept
    BY <1>0, <2>1, <2>2
  <2>5. /\ \A m \in Nodes, v \in Works : On(m, v)' => placed'[v] = m /\ outcome'[v] = "none"
        /\ \A v \in Works : placed'[v] # 0 /\ outcome'[v] = "none" => On(placed[v], v)'
        /\ \A v \in Works : placed'[v] = 0 => outcome'[v] = "none"
    BY <1>0, <2>1, <2>2 DEF Placing, TypeOK, On
  <2> QED
    BY <2>3, <2>4, <2>5 DEF Placing
<1>4. ASSUME NEW n \in Nodes, NEW r \in Roles, Changes(n, r) PROVE Placing' /\ RolesKept
  <2>1. /\ \A m \in Nodes \ {n} : role'[m] = role[m]
        /\ UNCHANGED <<pool, current, outcome, acceptedAs, placed>>
        /\ current[n] = {} /\ pool[n] = <<>>
    BY <1>0, <1>4 DEF Changes, Busy, TypeOK
  <2>2. \A v : ~On(n, v)
    BY <2>1, EmptyMembers DEF On
  <2>3. \A m \in Nodes : \A v : On(m, v)' <=> On(m, v)
    BY <2>1 DEF On
  <2>4. Placing'
    BY <1>0, <2>1, <2>3 DEF Placing, TypeOK
  <2>5. RolesKept
    BY <1>0, <2>1, <2>2, <2>3
  <2> QED
    BY <2>4, <2>5
<1>5. CASE UNCHANGED <<role, pool, current, outcome, acceptedAs, placed>>
  <2>1. \A m \in Nodes : \A v : On(m, v)' <=> On(m, v)
    BY <1>5 DEF On
  <2> QED
    BY <1>0, <1>5, <2>1 DEF Placing, TypeOK
<1>6. (\E n \in Nodes : Stops(n)) \/ UNCHANGED nodeVars =>
        UNCHANGED <<role, pool, current, outcome, acceptedAs, placed>>
  BY DEF Stops, nodeVars
<1> HIDE DEF RolesKept
<1> QED
  BY <1>1, <1>2, <1>3, <1>4, <1>5, <1>6 DEF NodeEffect

\* A role changes under the lock only, so the node a caller has chosen is an
\* application server until the put.
LEMMA InRoleStep ==
  ASSUME IInv, [Next]_vars
  PROVE  InRole'
<1>1. NodeEffect
  BY Effects
<1>2. ASSUME NEW c \in Callers, chosen'[c] # 0 PROVE role'[chosen'[c]] = App
  <2>0. TypeOK /\ InRole /\ TypeOK'
    BY TypeStep DEF IInv
  <2>1. ASSUME NEW d \in Callers, CallerStep(d) PROVE role'[chosen'[c]] = App
    <3>1. role' = role
      BY <2>1 DEF CallerStep, ChooseIngress, PutRoot, Collect, NoIngress, Put, nodeVars
    <3>2. Ingresses # {} => role[Lowest(Ingresses)] = App
      BY LowestIsOne DEF Ingresses
    <3>3. chosen'[c] = chosen[c] \/ (Ingresses # {} /\ chosen'[c] = Lowest(Ingresses))
      BY <1>2, <2>0, <2>1 DEF CallerStep, ChooseIngress, PutRoot, Collect, TypeOK
    <3> QED
      BY <1>2, <2>0, <3>1, <3>2, <3>3 DEF InRole
  <2>2. ASSUME NEW n \in Nodes, NEW r \in Roles, SetRole(n, r) PROVE role'[chosen'[c]] = App
    BY <1>2, <2>2 DEF SetRole, LockFree
  <2>3. CASE role' = role /\ chosen' = chosen
    BY <1>2, <2>0, <2>3 DEF InRole
  <2>4. ASSUME NEW n \in Nodes, NodeStep(n) PROVE role' = role /\ chosen' = chosen
    BY <2>4 DEF NodeStep, Take, RunChild, Finish
  <2>5. ASSUME NEW j \in Jobs, JobStep(j) PROVE role' = role /\ chosen' = chosen
    <3>1. chosen' = chosen
      BY <2>5, Zenon DEF JobStep, Pre, Post, Dispatch, AwaitChild
    <3>2. CASE Pre(j) \/ Post(j)
      BY <3>1, <3>2 DEF Pre, Post, Goto, EndJob, Finish, nodeVars
    <3>3. CASE Dispatch(j)
      BY <3>1, <3>3, DispatchCases DEF DispatchFails, DispatchPuts, EndJob, Finish, Accepts, Put
    <3>4. CASE AwaitChild(j)
      BY <3>1, <3>4, AwaitCases DEF AwaitEnds, AwaitGoesOn, EndJob, Finish, Goto, nodeVars
    <3> QED
      BY <2>5, <3>2, <3>3, <3>4, SMTT(30) DEF JobStep
  <2>6. Rewire \/ StopAll \/ WaitAllReturns \/ StopNode \/ JoinReturns \/ AllDone
        \/ UNCHANGED vars => role' = role /\ chosen' = chosen
    BY DEF Rewire, StopAll, WaitAllReturns, StopNode, JoinReturns, AllDone, vars, nodeVars
  <2> QED
    BY <2>1, <2>2, <2>3, <2>4, <2>5, <2>6 DEF Next, KeeperStep
<1> QED
  BY <1>1, <1>2, PlacingStep DEF InRole

\* What the end of a work means for the worker that executed it and for others.
LEMMA EndsWhat ==
  ASSUME IInv, NEW w \in Works, NEW o \in {"completed", "failed"}, Ends(w, o)
  PROVE  /\ \A v \in Works : outcome'[v] = IF v = w THEN o ELSE outcome[v]
         /\ placed' = placed /\ outcome[w] = "none" /\ placed[w] # 0
         /\ \A v \in Works : (\E n \in Nodes : v \in current'[n])
                               <=> v # w /\ \E n \in Nodes : v \in current[n]
<1>1. TypeOK /\ Placing
  BY DEF IInv
<1>2. /\ \A v \in Works : outcome'[v] = IF v = w THEN o ELSE outcome[v]
      /\ placed' = placed /\ placed[w] # 0
  BY <1>1 DEF Ends, Finish, TypeOK
<1>3. /\ outcome[w] = "none"
      /\ \A m \in Nodes : \A v \in Works : v # w => (v \in current'[m] <=> v \in current[m])
      /\ \A m \in Nodes : \A v \in Works : On(m, v)' <=> On(m, v) /\ v # w
  BY <1>1, FinishPlaces DEF Ends
<1>4. \A m \in Nodes : w \notin current'[m]
  BY <1>3 DEF On
<1> QED
  BY <1>2, <1>3, <1>4

\* And what a put means for the placement of every work.
LEMMA AcceptsWhat ==
  ASSUME IInv, NEW n \in Nodes, NEW w \in Works, Accepts(n, w)
  PROVE  /\ \A v \in Works : placed'[v] = IF v = w THEN n ELSE placed[v]
         /\ outcome' = outcome /\ current' = current /\ placed[w] = 0 /\ n # 0
         /\ outcome[w] = "none"
<1>1. n # 0
  BY DelegationAssumption
<1> QED
  BY <1>1 DEF Accepts, Put, IInv, TypeOK, Placing

\* Only the works of other jobs keep their outcome when a job ends.
LEMMA EndJobWhat ==
  ASSUME IInv, NEW j \in Jobs, NEW o \in {"completed", "failed"}, NEW why,
         phase[j] \in Active, EndJob(j, o, why)
  PROVE  /\ phase' = [phase EXCEPT ![j] = "ended"] /\ code' = [code EXCEPT ![j] = why]
         /\ placed' = placed
         /\ \A v \in Works : outcome'[v] = IF v = Root(j) THEN o ELSE outcome[v]
         /\ \A v \in Works : (\E n \in Nodes : v \in current'[n])
                               <=> v # Root(j) /\ \E n \in Nodes : v \in current[n]
<1>1. Ends(Root(j), o) /\ Root(j) \in Works
  BY EndJobEnds, WorkIds
<1> QED
  BY <1>1, EndsWhat DEF EndJob

\* Every step keeps the phase of a job in agreement with where its parent work is.
LEMMA JobPhasesStep ==
  ASSUME IInv, [Next]_vars
  PROVE  JobPhases'
<1>0. /\ TypeOK /\ JobPhases /\ TypeOK'
      /\ \A j, k \in Jobs : Root(j) = Root(k) => j = k
      /\ \A j \in Jobs : Root(j) \in Works
  BY TypeStep, WorkIds DEF IInv
<1>1. ASSUME NEW n \in Nodes, Take(n) PROVE JobPhases'
  <2> DEFINE w == Head(pool[n])
  <2>1. Takes(n) /\ phase' = IF w[2] = 0 THEN [phase EXCEPT ![w[1]] = "pre"] ELSE phase
    BY <1>1 DEF Take, Takes
  <2>2. /\ w \in Works /\ On(n, w) /\ outcome' = outcome
        /\ \A m \in Nodes : current'[m] = IF m = n THEN current[n] \cup {w} ELSE current[m]
    BY <2>1, TakePlaces DEF IInv, TypeOK, Takes, On
  <2>3. outcome[w] = "none"
    BY <2>2 DEF IInv, Placing
  <2> HIDE DEF w
  <2>4. CASE \E k \in Jobs : w = Root(k)
    <3>1. PICK k \in Jobs : w = Root(k)
      BY <2>4
    <3>2. \A j \in Jobs : phase'[j] = IF j = k THEN "pre" ELSE phase[j]
      BY <1>0, <2>1, <3>1, WorkIds DEF TypeOK
    <3> QED
      BY <1>0, <2>2, <2>3, <3>1, <3>2 DEF JobPhases, Active
  <2>5. CASE \E k \in Jobs : \E i \in DOMAIN Plan[k] : w = <<k, i>>
    <3>1. phase' = phase /\ \A j \in Jobs : Root(j) # w
      BY <2>1, <2>5, WorkIds
    <3> QED
      BY <1>0, <2>2, <3>1 DEF JobPhases
  <2> QED
    BY <2>2, <2>4, <2>5, WorkIds
<1>2. ASSUME NEW n \in Nodes, RunChild(n) PROVE JobPhases'
  <2>1. PICK w \in current[n] \cap Children, o \in {"completed", "failed"} : Finish(w, o)
    BY <1>2 DEF RunChild
  <2>2. w \in Works /\ On(n, w) /\ n # 0 /\ \A j \in Jobs : Root(j) # w
    BY WorkIds, DelegationAssumption DEF On
  <2>3. Ends(w, o)
    BY <2>1, <2>2 DEF IInv, Placing, Ends
  <2>4. phase' = phase
    BY <1>2 DEF RunChild, jobVars
  <2> QED
    BY <1>0, <2>2, <2>3, <2>4, EndsWhat DEF JobPhases
<1>3. ASSUME NEW j \in Jobs, JobStep(j) PROVE JobPhases'
  <2>1. ASSUME NEW o \in {"completed", "failed"}, NEW why, EndJob(j, o, why), phase[j] \in Active
        PROVE  JobPhases'
    <3>1. \A k \in Jobs : phase'[k] = IF k = j THEN "ended" ELSE phase[k]
      BY <1>0, <2>1, EndJobWhat DEF TypeOK
    <3>2. \A k \in Jobs : outcome'[Root(k)] = IF k = j THEN o ELSE outcome[Root(k)]
      BY <1>0, <2>1, EndJobWhat
    <3>3. \A k \in Jobs : (\E n \in Nodes : Root(k) \in current'[n])
                            <=> k # j /\ \E n \in Nodes : Root(k) \in current[n]
      BY <1>0, <2>1, EndJobWhat
    <3> QED
      BY <1>0, <3>1, <3>2, <3>3 DEF JobPhases, Active
  <2>2. ASSUME phase[j] \in Active, NEW p \in Active, phase' = [phase EXCEPT ![j] = p],
               UNCHANGED <<current, outcome>>
        PROVE  JobPhases'
    <3>1. \A k \in Jobs : phase'[k] = IF k = j THEN p ELSE phase[k]
      BY <1>0, <2>2 DEF TypeOK
    <3> QED
      BY <1>0, <2>2, <3>1 DEF JobPhases, Active
  <2>3. CASE Pre(j)
    BY <2>3, <2>1, <2>2 DEF Pre, Goto, nodeVars, Active
  <2>4. CASE Post(j)
    BY <2>4, <2>1 DEF Post, Active
  <2>5. CASE Dispatch(j)
    <3>1. phase[j] \in Active
      BY <2>5, DispatchCases DEF Active
    <3>2. DispatchFails(j) => JobPhases'
      BY <2>1, <3>1 DEF DispatchFails
    <3>3. DispatchPuts(j) => JobPhases'
      BY <2>2, <3>1 DEF DispatchPuts, Accepts, Put, Active
    <3> QED
      BY <2>5, <3>2, <3>3, DispatchCases
  <2>6. CASE AwaitChild(j)
    BY <2>6, <2>1, <2>2, AwaitCases DEF AwaitEnds, AwaitGoesOn, Goto, nodeVars, Active
  <2> QED
    BY <1>3, <2>3, <2>4, <2>5, <2>6 DEF JobStep
<1>4. CASE UNCHANGED <<phase, current, outcome>>
  BY <1>0, <1>4 DEF JobPhases
<1>5. ASSUME NEW c \in Callers, CallerStep(c) PROVE UNCHANGED <<phase, current, outcome>>
  BY <1>5 DEF CallerStep, ChooseIngress, PutRoot, Collect, NoIngress, Put, nodeVars, jobVars
<1> QED
  BY <1>1, <1>2, <1>3, <1>4, <1>5, OtherSteps DEF Next, NodeStep

\* A parent work in a queue has no worker yet.
LEMMA QueuedIsNew ==
  ASSUME IInv, NEW n \in Nodes, NEW j \in Jobs, Contains(pool[n], Root(j))
  PROVE  phase[j] = "new"
<1>1. Root(j) \in Works /\ On(n, Root(j))
  BY WorkIds DEF On
<1>2. outcome[Root(j)] = "none" /\ \A m \in Nodes : Root(j) \notin current[m]
  BY <1>1 DEF IInv, Placing, On
<1> QED
  BY <1>2 DEF IInv, JobPhases, TypeOK, Phases, Active

\* The lengths that the plan and the callers count with.
LEMMA Lengths ==
  /\ \A j \in Jobs : Len(Plan[j]) \in Nat /\ DOMAIN Plan[j] = 1 .. Len(Plan[j])
  /\ \A c \in Callers : Len(RunOf[c]) \in Nat /\ DOMAIN RunOf[c] = 1 .. Len(RunOf[c])
  /\ TypeOK => \A j \in Jobs : Len(steps[j]) \in Nat /\ DOMAIN steps[j] = 1 .. Len(steps[j])
  /\ TypeOK => \A c \in Callers :
       Len(results[c]) \in Nat /\ DOMAIN results[c] = 1 .. Len(results[c])
<1>1. /\ \A j \in Jobs : Plan[j] \in Seq([role : Roles \ {App}, node : Nat])
      /\ \A c \in Callers : RunOf[c] \in Seq(Jobs)
  BY DelegationAssumption
<1>2. TypeOK => /\ \A j \in Jobs : steps[j] \in Seq(StepResults)
                /\ \A c \in Callers : results[c] \in Seq(JobResults)
  BY DEF TypeOK
<1>3. \A S : \A s \in Seq(S) : Len(s) \in Nat /\ DOMAIN s = 1 .. Len(s)
  OBVIOUS
<1> QED
  BY <1>1, <1>2, <1>3

\* One more step of one job, and all others as they were.
LEMMA MoreSteps ==
  ASSUME TypeOK, NEW j \in Jobs, NEW r \in StepResults,
         steps' = [steps EXCEPT ![j] = Append(@, r)]
  PROVE  /\ \A k \in Jobs \ {j} : steps'[k] = steps[k]
         /\ Len(steps'[j]) = Len(steps[j]) + 1
         /\ DOMAIN steps'[j] = 1 .. Len(steps[j]) + 1
         /\ \A i \in 1 .. Len(steps[j]) : steps'[j][i] = steps[j][i]
         /\ steps'[j][Len(steps[j]) + 1] = r
         /\ steps'[j] # <<>> /\ Last(steps'[j]) = r
<1>1. steps'[j] = Append(steps[j], r) /\ steps[j] \in Seq(StepResults)
      /\ \A k \in Jobs \ {j} : steps'[k] = steps[k]
  BY DEF TypeOK
<1> QED
  BY <1>1, AppendPlaces, AppendMembers

\* The step that Dispatch or AwaitChild adds is a step result.
LEMMA NewStep ==
  ASSUME IInv, NEW j \in Jobs
  PROVE  /\ Dispatch(j) => \A node \in Nat, why \in Codes \ {"none"} :
              Step(j, node, "failed", why) \in StepResults
         /\ AwaitChild(j) =>
              LET node == placed[<<j, NextStep(j)>>] IN
              /\ Step(j, node, "failed", "node_execution_failed") \in StepResults
              /\ Step(j, node, "completed", "none") \in StepResults
<1>1. "node_execution_failed" \in Codes /\ "none" \in Codes
  BY DEF Codes
<1>2. ASSUME AwaitChild(j) PROVE placed[<<j, NextStep(j)>>] \in Nat
  <2>1. <<j, NextStep(j)>> \in Works
    BY <1>2, AwaitCases, NextChild DEF NextStep
  <2>2. Nodes \cup {0} \subseteq Nat
    BY DelegationAssumption
  <2> QED
    BY <2>1, <2>2 DEF IInv, TypeOK
<1> QED
  BY <1>1, <1>2, DispatchCases, AwaitCases, ResultTypes

\* Every step keeps the steps of a job in order: those before the current one
\* have ended, the ones after it have no work yet.
LEMMA StepsStep ==
  ASSUME IInv, [Next]_vars
  PROVE  Steps'
<1> DEFINE Ok(k, ph, st, pl, out) ==
      /\ Len(st[k]) <= Len(Plan[k])
      /\ ph[k] = "await" => Len(st[k]) < Len(Plan[k])
      /\ \A i \in DOMAIN Plan[k] : pl[<<k, i>>] # 0 =>
           \/ i <= Len(st[k]) /\ out[<<k, i>>] # "none"
           \/ i = Len(st[k]) + 1 /\ ph[k] = "await"
<1>0. /\ TypeOK /\ Steps /\ TypeOK'
      /\ \A k \in Jobs : Len(steps[k]) \in Nat /\ Len(Plan[k]) \in Nat
      /\ \A k \in Jobs : \A i \in DOMAIN Plan[k] :
           /\ i \in Nat /\ <<k, i>> \in Works
           /\ \A j \in Jobs : <<k, i>> # Root(j)
           /\ \A j \in Jobs, l \in Nat : <<k, i>> = <<j, l>> => j = k /\ i = l
  BY TypeStep, WorkIds, Lengths DEF IInv
<1>1. ASSUME NEW k \in Jobs, phase'[k] = phase[k] \/ "await" \notin {phase[k], phase'[k]},
             steps'[k] = steps[k], placed' = placed,
             \A w \in Works : outcome[w] # "none" => outcome'[w] # "none"
      PROVE  Ok(k, phase', steps', placed', outcome')
  BY <1>0, <1>1 DEF Steps
<1>2. ASSUME NEW n \in Nodes, NodeStep(n) PROVE Steps'
  <2>1. CASE RunChild(n)
    <3>1. PICK w \in current[n] \cap Children, o \in {"completed", "failed"} : Finish(w, o)
      BY <2>1 DEF RunChild
    <3>2. /\ phase' = phase /\ steps' = steps /\ placed' = placed
          /\ \A v \in Works : outcome[v] # "none" => outcome'[v] # "none"
      BY <1>0, <2>1, <3>1 DEF RunChild, Finish, jobVars, TypeOK
    <3> QED
      BY <1>1, <3>2 DEF Steps
  <2>2. CASE Take(n)
    <3>1. /\ steps' = steps /\ placed' = placed /\ outcome' = outcome
          /\ Head(pool[n]) \in Works /\ Contains(pool[n], Head(pool[n]))
      BY <2>2, TakePlaces DEF Take, Takes, IInv
    <3>2. ASSUME NEW k \in Jobs
          PROVE  phase'[k] = phase[k] \/ "await" \notin {phase[k], phase'[k]}
      <4> DEFINE w == Head(pool[n])
      <4>1. /\ phase' = IF w[2] = 0 THEN [phase EXCEPT ![w[1]] = "pre"] ELSE phase
            /\ w \in Works /\ (w = Root(k) => phase[k] = "new")
        BY <2>2, <3>1, QueuedIsNew DEF Take
      <4> HIDE DEF w
      <4>2. CASE w = Root(k)
        BY <1>0, <4>1, <4>2, WorkIds DEF TypeOK
      <4>3. CASE \E l \in Jobs \ {k} : w = Root(l)
        BY <1>0, <4>1, <4>3, WorkIds DEF TypeOK
      <4>4. CASE w \in Children
        BY <4>1, <4>4, WorkIds
      <4> QED
        BY <4>1, <4>2, <4>3, <4>4, WorkIds
    <3> QED
      BY <1>1, <3>1, <3>2 DEF Steps
  <2> QED
    BY <1>2, <2>1, <2>2 DEF NodeStep
<1>3. ASSUME NEW j \in Jobs, JobStep(j) PROVE Steps'
  <2>1. ASSUME NEW o \in {"completed", "failed"}, NEW why, EndJob(j, o, why),
               phase[j] \in {"pre", "delegate"}, steps' = steps
        PROVE  Steps'
    <3>1. /\ placed' = placed /\ \A v \in Works : outcome[v] # "none" => outcome'[v] # "none"
          /\ \A k \in Jobs : phase'[k] = IF k = j THEN "ended" ELSE phase[k]
      BY <1>0, <2>1, EndJobWhat DEF TypeOK, Active
    <3> QED
      BY <1>1, <2>1, <3>1 DEF Steps
  <2>2. CASE Pre(j)
    <3>1. CASE Goto(j, "delegate")
      <4>1. /\ placed' = placed /\ outcome' = outcome /\ steps' = steps
            /\ \A k \in Jobs : phase'[k] = IF k = j THEN "delegate" ELSE phase[k]
        BY <1>0, <2>2, <3>1 DEF Pre, Goto, nodeVars, TypeOK
      <4> QED
        BY <1>1, <2>2, <4>1 DEF Steps, Pre
    <3> QED
      BY <2>1, <2>2, <3>1 DEF Pre
  <2>3. CASE Post(j)
    BY <2>1, <2>3 DEF Post
  <2>4. ASSUME NEW r \in StepResults, steps' = [steps EXCEPT ![j] = Append(@, r)],
               NEW p \in {"ended", "delegate"}, phase' = [phase EXCEPT ![j] = p],
               placed' = placed, Len(steps[j]) < Len(Plan[j]),
               \A v \in Works : outcome[v] # "none" => outcome'[v] # "none",
               placed[<<j, NextStep(j)>>] = 0 \/ outcome[<<j, NextStep(j)>>] # "none"
        PROVE  Steps'
    <3>1. /\ \A k \in Jobs \ {j} : steps'[k] = steps[k] /\ phase'[k] = phase[k]
          /\ Len(steps'[j]) = Len(steps[j]) + 1 /\ phase'[j] = p
      BY <1>0, <2>4, MoreSteps DEF TypeOK
    <3>2. ASSUME NEW i \in DOMAIN Plan[j], placed'[<<j, i>>] # 0
          PROVE  i <= Len(steps'[j]) /\ outcome'[<<j, i>>] # "none"
      <4>1. placed[<<j, i>>] # 0 /\ <<j, i>> \in Works /\ i \in Nat
        BY <1>0, <2>4, <3>2
      <4>2. CASE i <= Len(steps[j]) /\ outcome[<<j, i>>] # "none"
        BY <1>0, <2>4, <3>1, <4>1, <4>2
      <4>3. CASE i = Len(steps[j]) + 1
        BY <1>0, <2>4, <3>1, <4>1, <4>3 DEF NextStep
      <4> QED
        BY <1>0, <4>1, <4>2, <4>3 DEF Steps
    <3>4. Ok(j, phase', steps', placed', outcome')
      BY <1>0, <2>4, <3>1, <3>2
    <3>3. \A k \in Jobs \ {j} : Ok(k, phase', steps', placed', outcome')
      BY <1>1, <2>4, <3>1
    <3> QED
      BY <3>3, <3>4 DEF Steps
  <2>5. CASE Dispatch(j)
    <3>0. /\ phase[j] = "delegate" /\ Len(steps[j]) < Len(Plan[j])
          /\ placed[<<j, NextStep(j)>>] = 0 /\ <<j, NextStep(j)>> \in Works
          /\ NextStep(j) \in DOMAIN Plan[j]
      BY <2>5, DispatchCases, NextChild DEF NextStep
    <3>1. CASE DispatchFails(j)
      <4>1. PICK node \in Nat, why \in Codes \ {"none"} :
              /\ steps' = [steps EXCEPT ![j] = Append(@, Step(j, node, "failed", why))]
              /\ EndJob(j, "failed", "delegation_failed")
        BY <3>1 DEF DispatchFails
      <4>2. Step(j, node, "failed", why) \in StepResults
        BY <2>5, NewStep
      <4>3. /\ phase' = [phase EXCEPT ![j] = "ended"] /\ placed' = placed
            /\ \A v \in Works : outcome[v] # "none" => outcome'[v] # "none"
        BY <3>0, <4>1, EndJobWhat DEF Active
      <4> QED
        BY <2>4, <3>0, <4>1, <4>2, <4>3
    <3>2. CASE DispatchPuts(j)
      <4>1. PICK n \in Nodes : Accepts(n, <<j, NextStep(j)>>)
        BY <3>2 DEF DispatchPuts
      <4>2. /\ \A v \in Works : placed'[v] = IF v = <<j, NextStep(j)>> THEN n ELSE placed[v]
            /\ outcome' = outcome
        BY <3>0, <4>1, AcceptsWhat
      <4>3. /\ steps' = steps
            /\ \A k \in Jobs : phase'[k] = IF k = j THEN "await" ELSE phase[k]
        BY <1>0, <3>2 DEF DispatchPuts, TypeOK
      <4>4. \A k \in Jobs : Ok(k, phase', steps', placed', outcome')
        BY <1>0, <3>0, <4>2, <4>3 DEF Steps, NextStep
      <4> QED
        BY <4>4 DEF Steps
    <3> QED
      BY <2>5, <3>1, <3>2, DispatchCases
  <2>6. CASE AwaitChild(j)
    <3>0. phase[j] = "await" /\ Len(steps[j]) < Len(Plan[j])
      BY <2>6, AwaitCases
    <3>1. CASE AwaitEnds(j)
      <4>1. /\ phase' = [phase EXCEPT ![j] = "ended"] /\ placed' = placed
            /\ \A v \in Works : outcome[v] # "none" => outcome'[v] # "none"
        BY <3>0, <3>1, EndJobWhat DEF AwaitEnds, Active
      <4> QED
        BY <2>4, <2>6, <3>0, <3>1, <4>1, NewStep DEF AwaitEnds
    <3>2. CASE AwaitGoesOn(j)
      BY <2>4, <2>6, <3>0, <3>2, NewStep DEF AwaitGoesOn, Goto, nodeVars
    <3> QED
      BY <2>6, <3>1, <3>2, AwaitCases
  <2> QED
    BY <1>3, <2>2, <2>3, <2>5, <2>6 DEF JobStep
<1>4. ASSUME NEW c \in Callers, CallerStep(c) PROVE Steps'
  <2>1. phase' = phase /\ steps' = steps
    BY <1>4 DEF CallerStep, ChooseIngress, PutRoot, Collect, jobVars
  <2>2. CASE placed' = placed /\ outcome' = outcome
    BY <1>1, <2>1, <2>2 DEF Steps
  <2>3. CASE PutRoot(c) /\ ~stopped[chosen[c]]
    <3>1. NextJob(c) \in Jobs
      BY <2>3, NextIsFresh DEF PutRoot, IInv, Callings
    <3>2. /\ outcome' = outcome
          /\ \A w \in Works : w # Root(NextJob(c)) => placed'[w] = placed[w]
      BY <1>0, <2>3, <3>1, WorkIds DEF PutRoot, Put, TypeOK
    <3>3. \A k \in Jobs : \A i \in DOMAIN Plan[k] : placed'[<<k, i>>] = placed[<<k, i>>]
      BY <1>0, <3>1, <3>2
    <3> QED
      BY <1>0, <2>1, <3>2, <3>3 DEF Steps
  <2> QED
    BY <1>4, <2>2, <2>3 DEF CallerStep, ChooseIngress, PutRoot, Collect, NoIngress, nodeVars
<1>5. CASE UNCHANGED <<phase, steps, placed, outcome>>
  BY <1>1, <1>5 DEF Steps
<1> QED
  BY <1>2, <1>3, <1>4, <1>5, OtherSteps DEF Next

\* One more result of one caller, and all others as they were.
LEMMA MoreResults ==
  ASSUME TypeOK, NEW c \in Callers, NEW r \in JobResults,
         results' = [results EXCEPT ![c] = Append(@, r)]
  PROVE  /\ \A d \in Callers \ {c} : results'[d] = results[d]
         /\ Len(results'[c]) = Len(results[c]) + 1
         /\ DOMAIN results'[c] = 1 .. Len(results[c]) + 1
         /\ \A x \in 1 .. Len(results[c]) : results'[c][x] = results[c][x]
         /\ results'[c][Len(results[c]) + 1] = r
<1>1. results'[c] = Append(results[c], r) /\ results[c] \in Seq(JobResults)
      /\ \A d \in Callers \ {c} : results'[d] = results[d]
  BY DEF TypeOK
<1> QED
  BY <1>1, AppendPlaces

\* What a caller adds to its results: the outcome of its job, or no_ingress.
LEMMA NewResult ==
  ASSUME IInv, NEW c \in Callers
  PROVE  /\ Len(results[c]) < Len(RunOf[c]) =>
              JobResult(NextJob(c), "failed", "no_ingress", 0, <<>>) \in JobResults
         /\ Collect(c) =>
              /\ NextJob(c) \in Jobs
              /\ outcome[Root(NextJob(c))] \in {"completed", "failed"}
              /\ JobResult(NextJob(c), outcome[Root(NextJob(c))], code[NextJob(c)],
                           placed[Root(NextJob(c))], steps[NextJob(c)]) \in JobResults
<1>1. Nodes \cup {0} \subseteq Nat /\ "no_ingress" \in Codes
  BY DelegationAssumption DEF Codes
<1>2. ASSUME Len(results[c]) < Len(RunOf[c])
      PROVE  JobResult(NextJob(c), "failed", "no_ingress", 0, <<>>) \in JobResults
  <2>1. NextJob(c) \in Jobs /\ <<>> \in Seq(StepResults)
    BY <1>2, NextIsFresh
  <2> QED
    BY <1>1, <2>1, ResultTypes
<1>3. ASSUME Collect(c)
      PROVE  /\ NextJob(c) \in Jobs
             /\ outcome[Root(NextJob(c))] \in {"completed", "failed"}
             /\ JobResult(NextJob(c), outcome[Root(NextJob(c))], code[NextJob(c)],
                          placed[Root(NextJob(c))], steps[NextJob(c)]) \in JobResults
  <2>1. NextJob(c) \in Jobs
    BY <1>3, NextIsFresh DEF Collect, IInv, Callings
  <2>2. /\ outcome[Root(NextJob(c))] \in {"completed", "failed"}
        /\ placed[Root(NextJob(c))] \in Nat /\ code[NextJob(c)] \in Codes
        /\ steps[NextJob(c)] \in Seq(StepResults)
    BY <1>1, <1>3, <2>1, WorkIds DEF Collect, IInv, TypeOK
  <2> QED
    BY <2>1, <2>2, ResultTypes
<1> QED
  BY <1>2, <1>3

\* Every step keeps the jobs of a caller in order: only those whose result it has
\* and the one it waits for were ever submitted.
LEMMA CallingsStep ==
  ASSUME IInv, [Next]_vars
  PROVE  Callings'
<1> DEFINE Ok(d, res, wait, cho, pl) ==
      /\ Len(res[d]) <= Len(RunOf[d])
      /\ wait[d] \/ cho[d] # 0 => Len(res[d]) < Len(RunOf[d])
      /\ ~(wait[d] /\ cho[d] # 0)
      /\ \A x \in DOMAIN RunOf[d] : pl[Root(RunOf[d][x])] # 0 =>
           x <= Len(res[d]) \/ (wait[d] /\ x = Len(res[d]) + 1)
<1>0. /\ TypeOK /\ TypeOK' /\ Callings
      /\ \A d \in Callers :
           /\ Len(results[d]) \in Nat /\ Len(RunOf[d]) \in Nat
           /\ \A x \in DOMAIN RunOf[d] : /\ RunOf[d][x] \in Jobs /\ x \in Nat
                                         /\ Root(RunOf[d][x]) \in Works
  <2>1. \A d \in Callers : \A x \in DOMAIN RunOf[d] : RunOf[d][x] \in Jobs /\ x \in Nat
    BY DelegationAssumption
  <2> QED
    BY <2>1, TypeStep, Lengths, WorkIds DEF IInv
<1>1. ASSUME NEW d \in Callers, results'[d] = results[d], waiting'[d] = waiting[d],
             chosen'[d] = chosen[d],
             \A x \in DOMAIN RunOf[d] :
               placed'[Root(RunOf[d][x])] = placed[Root(RunOf[d][x])]
      PROVE  Ok(d, results', waiting', chosen', placed')
  BY <1>0, <1>1 DEF Callings
<1>2. CASE /\ UNCHANGED <<results, waiting, chosen>>
           /\ \A j \in Jobs : placed'[Root(j)] = placed[Root(j)]
  BY <1>0, <1>1, <1>2 DEF Callings
<1>3. ASSUME NEW c \in Callers, CallerStep(c) PROVE Callings'
  <2>1. ASSUME NEW r \in JobResults, results' = [results EXCEPT ![c] = Append(@, r)],
               Len(results[c]) < Len(RunOf[c]), ~waiting'[c], chosen'[c] = 0, placed' = placed,
               \A d \in Callers \ {c} : waiting'[d] = waiting[d] /\ chosen'[d] = chosen[d]
        PROVE  Callings'
    <3>1. /\ \A d \in Callers \ {c} : results'[d] = results[d]
          /\ Len(results'[c]) = Len(results[c]) + 1
      BY <1>0, <2>1, MoreResults
    <3>2. Ok(c, results', waiting', chosen', placed')
      BY <1>0, <2>1, <3>1 DEF Callings
    <3>3. \A d \in Callers \ {c} : Ok(d, results', waiting', chosen', placed')
      BY <1>1, <2>1, <3>1
    <3> QED
      BY <3>2, <3>3 DEF Callings
  <2>2. CASE ChooseIngress(c)
    <3>1. Calling(c) /\ ~waiting[c] /\ chosen[c] = 0 /\ Len(results[c]) < Len(RunOf[c])
      BY <2>2 DEF ChooseIngress, Calling, LockFree
    <3>2. CASE Ingresses = {}
      BY <1>0, <2>1, <2>2, <3>1, <3>2, NewResult DEF ChooseIngress, NoIngress, nodeVars, TypeOK
    <3>3. CASE Ingresses # {}
      <4>1. /\ results' = results /\ waiting' = waiting /\ placed' = placed
            /\ \A d \in Callers \ {c} : chosen'[d] = chosen[d]
        BY <1>0, <2>2, <3>3 DEF ChooseIngress, nodeVars, TypeOK
      <4>2. Ok(c, results', waiting', chosen', placed')
        BY <1>0, <3>1, <4>1 DEF Callings
      <4>3. \A d \in Callers \ {c} : Ok(d, results', waiting', chosen', placed')
        BY <1>1, <4>1
      <4> QED
        BY <4>2, <4>3 DEF Callings
    <3> QED
      BY <3>2, <3>3
  <2>3. CASE PutRoot(c)
    <3>1. ~waiting[c] /\ Len(results[c]) < Len(RunOf[c])
      BY <1>0, <2>3 DEF PutRoot, Callings
    <3>2. CASE stopped[chosen[c]]
      BY <1>0, <2>1, <2>3, <3>1, <3>2, NewResult DEF PutRoot, NoIngress, nodeVars, TypeOK
    <3>3. CASE ~stopped[chosen[c]]
      <4>1. /\ results' = results /\ waiting'[c] /\ chosen'[c] = 0
            /\ \A d \in Callers \ {c} : waiting'[d] = waiting[d] /\ chosen'[d] = chosen[d]
        BY <1>0, <2>3, <3>3 DEF PutRoot, TypeOK
      <4>2. /\ \A w \in Works : w # Root(NextJob(c)) => placed'[w] = placed[w]
        BY <1>0, <2>3, <3>3 DEF PutRoot, Put, TypeOK
      <4>3. /\ Len(results[c]) + 1 \in DOMAIN RunOf[c] /\ NextJob(c) \in Jobs
        BY <3>1, NextIsFresh
      <4>4. ASSUME NEW d \in Callers, NEW x \in DOMAIN RunOf[d],
                   d # c \/ x # Len(results[c]) + 1
            PROVE  placed'[Root(RunOf[d][x])] = placed[Root(RunOf[d][x])]
        <5>1. RunOf[d][x] # NextJob(c)
          BY <4>3, <4>4, DelegationAssumption DEF NextJob
        <5>2. Root(RunOf[d][x]) # Root(NextJob(c))
          BY <1>0, <4>3, <5>1, WorkIds
        <5> QED
          BY <1>0, <4>2, <5>2
      <4>5. Ok(c, results', waiting', chosen', placed')
        BY <1>0, <3>1, <4>1, <4>4 DEF Callings
      <4>6. \A d \in Callers \ {c} : Ok(d, results', waiting', chosen', placed')
        BY <1>1, <4>1, <4>4
      <4> QED
        BY <4>5, <4>6 DEF Callings
    <3> QED
      BY <3>2, <3>3
  <2>4. CASE Collect(c)
    BY <1>0, <2>1, <2>4, NewResult DEF Collect, Callings, nodeVars, TypeOK
  <2> QED
    BY <1>3, <2>2, <2>3, <2>4 DEF CallerStep
<1>4. ASSUME NEW n \in Nodes, NodeStep(n)
      PROVE  UNCHANGED <<results, waiting, chosen, placed>>
  BY <1>4 DEF NodeStep, Take, RunChild, Finish
<1>5. ASSUME NEW j \in Jobs, JobStep(j)
      PROVE  /\ UNCHANGED <<results, waiting, chosen>>
             /\ \A k \in Jobs : placed'[Root(k)] = placed[Root(k)]
  <2>1. UNCHANGED <<results, waiting, chosen>>
    BY <1>5 DEF JobStep, Pre, Post, Dispatch, AwaitChild
  <2>2. CASE Pre(j) \/ Post(j)
    BY <2>1, <2>2 DEF Pre, Post, Goto, EndJob, Finish, nodeVars
  <2>3. CASE AwaitChild(j)
    BY <2>1, <2>3, AwaitCases DEF AwaitEnds, AwaitGoesOn, Goto, EndJob, Finish, nodeVars
  <2>4. CASE Dispatch(j)
    <3>1. CASE DispatchFails(j)
      BY <2>1, <3>1 DEF DispatchFails, EndJob, Finish
    <3>2. CASE DispatchPuts(j)
      <4>1. PICK n \in Nodes : Accepts(n, <<j, NextStep(j)>>)
        BY <3>2 DEF DispatchPuts
      <4>2. NextStep(j) \in DOMAIN Plan[j]
        BY <2>4, DispatchCases, NextChild DEF NextStep
      <4>3. /\ <<j, NextStep(j)>> \in Works
            /\ \A k \in Jobs : Root(k) # <<j, NextStep(j)>> /\ Root(k) \in Works
        BY <4>2, WorkIds
      <4>4. \A v \in Works : placed'[v] = IF v = <<j, NextStep(j)>> THEN n ELSE placed[v]
        BY <4>1, <4>3, AcceptsWhat
      <4> QED
        BY <2>1, <4>3, <4>4
    <3> QED
      BY <2>4, <3>1, <3>2, DispatchCases
  <2> QED
    BY <1>5, <2>2, <2>3, <2>4 DEF JobStep
<1> QED
  BY <1>2, <1>3, <1>4, <1>5, OtherSteps DEF Next

-----------------------------------------------------------------------------
(* The theorems about roles and waiting                                    *)

\* The invariant holds in every reachable state.
THEOREM Invariance == Spec => []IInv
<1>1. IInv /\ [Next]_vars => IInv'
  <2> SUFFICES ASSUME IInv, [Next]_vars PROVE IInv'
    OBVIOUS
  <2> QED
    BY Effects, TypeStep, PlacingStep, JobPhasesStep, StepsStep, CallingsStep, InRoleStep DEF IInv
<1> QED
  BY <1>1, IInvInit, PTL DEF Spec

\* Whatever roles the player changes, a work that is queued or executed is on
\* a node of the role it is meant for.
THEOREM RolesAreKept == Spec => []WorkRunsInItsRole
<1>1. ASSUME IInv PROVE WorkRunsInItsRole
  <2>1. \A n \in Nodes : pool[n] \in Seq(Works) /\ current[n] \subseteq Works
    BY <1>1 DEF IInv, TypeOK
  <2>2. \A n \in Nodes : \A w \in current[n] \cup ToSet(pool[n]) : On(n, w)
    BY <2>1, SetOfMembers DEF On
  <2>3. \A n \in Nodes : \A w \in current[n] \cup ToSet(pool[n]) : w \in Works
    BY <2>1 DEF ToSet
  <2> QED
    BY <1>1, <2>2, <2>3 DEF IInv, InRole, MeantFor, WorkRunsInItsRole
<1> QED
  BY <1>1, Invariance, PTL

\* A work without an outcome that a node has accepted holds that node to the
\* role the work is meant for.
LEMMA UnfinishedInRole ==
  ASSUME IInv, NEW v \in Works, placed[v] # 0, outcome[v] = "none"
  PROVE  placed[v] \in Nodes /\ role[placed[v]] = MeantFor(v)
<1>1. placed[v] \in Nodes
  BY DEF IInv, TypeOK
<1>2. On(placed[v], v)
  BY DEF IInv, Placing
<1> QED
  BY <1>1, <1>2 DEF IInv, InRole

\* A worker that waits for a child is on an application server, and a child is
\* never on one: nobody waits for a node whose worker waits.
THEOREM WaitingIsFlat == Spec => []WaitGraphIsFlat
<1>1. ASSUME IInv, NEW j \in Jobs, NEW k \in Jobs, phase[j] = "await",
             NEW i \in DOMAIN Plan[k], outcome[<<k, i>>] = "none"
      PROVE  placed[<<k, i>>] # placed[Root(j)]
  <2> DEFINE n == placed[Root(j)]
  <2>1. n \in Nodes /\ n # 0 /\ role[n] = App
    BY <1>1, ActiveIsPlaced, Demands, WorkIds DEF Active, IInv, InRole
  <2>2. <<k, i>> \in Works /\ MeantFor(<<k, i>>) # App
    BY Demands, WorkIds
  <2> QED
    BY <1>1, <2>1, <2>2, UnfinishedInRole
<1>2. IInv => WaitGraphIsFlat
  BY <1>1 DEF WaitGraphIsFlat
<1> QED
  BY <1>2, Invariance, PTL

-----------------------------------------------------------------------------
(* What became of the works, and what the callers are told                 *)

\* The outcome of a work is written once, and only when it was on a node.
LEMMA OutcomeOnce ==
  ASSUME IInv, [Next]_vars, NEW w \in Works, placed[w] = 0 \/ outcome[w] # "none"
  PROVE  outcome'[w] = outcome[w]
<1>1. ASSUME NEW v \in Works, NEW o \in {"completed", "failed"}, Ends(v, o)
      PROVE  outcome'[w] = outcome[w]
  BY <1>1, EndsWhat
<1> QED
  BY <1>1, Effects DEF NodeEffect, Accepts, Put, Takes, Changes, Stops, nodeVars

\* The children a job has got a step for keep their outcome.
LEMMA ChildrenStay ==
  ASSUME IInv, [Next]_vars, NEW j \in Jobs, NEW i \in DOMAIN steps[j]
  PROVE  /\ i \in DOMAIN Plan[j] /\ i \in Nat /\ i <= Len(steps[j])
         /\ outcome'[<<j, i>>] = outcome[<<j, i>>]
<1>1. i \in DOMAIN Plan[j] /\ i \in Nat /\ i <= Len(steps[j])
  BY Lengths DEF IInv, Steps
<1>2. <<j, i>> \in Works /\ Len(steps[j]) \in Nat
  BY <1>1, WorkIds, Lengths DEF IInv
<1>3. placed[<<j, i>>] # 0 => outcome[<<j, i>>] # "none"
  BY <1>1, <1>2 DEF IInv, Steps
<1> QED
  BY <1>1, <1>2, <1>3, OutcomeOnce

\* Only a step of its own worker, or the worker that takes it, moves a job.
LEMMA OtherJobs ==
  ASSUME IInv, [Next]_vars, NEW j \in Jobs
  PROVE  \/ JobStep(j)
         \/ /\ steps'[j] = steps[j] /\ code'[j] = code[j]
            /\ phase'[j] = phase[j] \/ (phase[j] = "new" /\ phase'[j] = "pre")
<1> DEFINE Stay == /\ steps'[j] = steps[j] /\ code'[j] = code[j]
                   /\ phase'[j] = phase[j] \/ (phase[j] = "new" /\ phase'[j] = "pre")
<1>1. ASSUME NEW n \in Nodes, NodeStep(n) PROVE Stay
  <2>1. CASE RunChild(n)
    BY <2>1 DEF RunChild, jobVars
  <2>2. CASE Take(n)
    <3> DEFINE w == Head(pool[n])
    <3>1. /\ steps' = steps /\ code' = code
          /\ phase' = IF w[2] = 0 THEN [phase EXCEPT ![w[1]] = "pre"] ELSE phase
          /\ w \in Works /\ Contains(pool[n], w)
      BY <2>2, TakePlaces DEF Take, Takes, IInv
    <3>2. w = Root(j) => phase[j] = "new"
      BY <3>1, QueuedIsNew
    <3> HIDE DEF w
    <3>3. CASE w = Root(j)
      BY <3>1, <3>2, <3>3, WorkIds DEF IInv, TypeOK
    <3>4. CASE \E l \in Jobs \ {j} : w = Root(l)
      BY <3>1, <3>4, WorkIds DEF IInv, TypeOK
    <3>5. CASE w \in Children
      BY <3>1, <3>5, WorkIds
    <3> QED
      BY <3>1, <3>3, <3>4, <3>5, WorkIds
  <2> QED
    BY <1>1, <2>1, <2>2 DEF NodeStep
<1>2. ASSUME NEW k \in Jobs \ {j}, JobStep(k) PROVE Stay
  <2>0. /\ phase \in [Jobs -> Phases] /\ code \in [Jobs -> Codes]
        /\ steps \in [Jobs -> Seq(StepResults)]
    BY DEF IInv, TypeOK
  <2>1. CASE Pre(k) \/ Post(k)
    BY <2>0, <2>1 DEF Pre, Post, Goto, EndJob
  <2>2. ASSUME DispatchFails(k) \/ AwaitEnds(k) PROVE Stay
    <3>1. PICK r : steps' = [steps EXCEPT ![k] = Append(@, r)]
      BY <2>2 DEF DispatchFails, AwaitEnds
    <3>2. EndJob(k, "failed", "delegation_failed")
      BY <2>2 DEF DispatchFails, AwaitEnds
    <3> QED
      BY <2>0, <3>1, <3>2 DEF EndJob
  <2>3. ASSUME DispatchPuts(k) PROVE Stay
    BY <2>0, <2>3 DEF DispatchPuts
  <2>4. ASSUME AwaitGoesOn(k) PROVE Stay
    BY <2>0, <2>4 DEF AwaitGoesOn, Goto
  <2> QED
    BY <1>2, <2>1, <2>2, <2>3, <2>4, DispatchCases, AwaitCases DEF JobStep
<1>3. ASSUME NEW c \in Callers, CallerStep(c) PROVE Stay
  BY <1>3 DEF CallerStep, ChooseIngress, PutRoot, Collect, jobVars
<1> QED
  BY <1>1, <1>2, <1>3, OtherSteps DEF Next, jobVars

\* A job that has ended is never touched again.
LEMMA EndedStays ==
  ASSUME IInv, [Next]_vars, NEW j \in Jobs, phase[j] = "ended"
  PROVE  /\ phase'[j] = "ended" /\ steps'[j] = steps[j] /\ code'[j] = code[j]
         /\ outcome'[Root(j)] = outcome[Root(j)]
<1>1. ~JobStep(j)
  BY DEF JobStep, Pre, Dispatch, AwaitChild, Post
<1>2. outcome[Root(j)] # "none" /\ Root(j) \in Works
  BY WorkIds DEF IInv, JobPhases
<1> QED
  BY <1>1, <1>2, OtherJobs, OutcomeOnce

Told(j, ph, st, out, co) ==
  /\ \A i \in DOMAIN st[j] :
       /\ st[j][i].status = "completed" <=> out[<<j, i>>] = "completed"
       /\ st[j][i].status = "completed" <=> st[j][i].code = "none"
       /\ i < Len(st[j]) \/ ph[j] # "ended" => st[j][i].status = "completed"
  /\ ph[j] = "ended" =>
       /\ out[Root(j)] = "completed" <=> co[j] = "none"
       /\ out[Root(j)] = "completed" => Len(st[j]) = Len(Plan[j])
       /\ co[j] = "delegation_failed" <=> st[j] # <<>> /\ Last(st[j]).status = "failed"

\* A job that ends without a new step: all its steps completed.
LEMMA EndsTold ==
  ASSUME IInv, StepsTold, [Next]_vars, NEW j \in Jobs, phase[j] \in {"pre", "delegate"},
         NEW o \in {"completed", "failed"}, NEW why \in {"none", "node_execution_failed"},
         EndJob(j, o, why), steps' = steps,
         o = "completed" <=> why = "none", o = "completed" => PlanDone(j)
  PROVE  Told(j, phase', steps', outcome', code')
<1>0. /\ phase \in [Jobs -> Phases] /\ code \in [Jobs -> Codes]
      /\ steps[j] \in Seq(StepResults) /\ Root(j) \in Works
  BY WorkIds DEF IInv, TypeOK
<1>1. phase'[j] = "ended" /\ code'[j] = why /\ outcome'[Root(j)] = o
  BY <1>0, EndJobWhat DEF Active
<1>2. \A i \in DOMAIN steps[j] :
        /\ steps[j][i].status = "completed" <=> outcome[<<j, i>>] = "completed"
        /\ steps[j][i].status = "completed" <=> steps[j][i].code = "none"
        /\ steps[j][i].status = "completed" /\ outcome'[<<j, i>>] = outcome[<<j, i>>]
  BY ChildrenStay DEF StepsTold
<1>3. steps[j] # <<>> => Last(steps[j]).status = "completed"
  <2>1. steps[j] # <<>> => Len(steps[j]) \in DOMAIN steps[j]
    BY <1>0
  <2> QED
    BY <1>2, <2>1 DEF Last
<1> QED
  BY <1>1, <1>2, <1>3 DEF Told, PlanDone

\* A job that gets a step, which completed or which ends it.
LEMMA NewStepTold ==
  ASSUME IInv, StepsTold, [Next]_vars, NEW j \in Jobs, phase[j] \in {"delegate", "await"},
         NEW r \in StepResults, steps' = [steps EXCEPT ![j] = Append(@, r)],
         Len(steps[j]) < Len(Plan[j]),
         r.status = "completed" <=> r.code = "none",
         r.status = "completed" <=> outcome'[<<j, NextStep(j)>>] = "completed",
         \/ phase'[j] = "delegate" /\ r.status = "completed"
         \/ /\ r.status = "failed" /\ EndJob(j, "failed", "delegation_failed")
  PROVE  Told(j, phase', steps', outcome', code')
<1>0. /\ phase \in [Jobs -> Phases] /\ code \in [Jobs -> Codes]
      /\ steps[j] \in Seq(StepResults) /\ Root(j) \in Works /\ TypeOK
      /\ Len(steps[j]) \in Nat /\ DOMAIN steps[j] = 1 .. Len(steps[j])
  BY WorkIds, Lengths DEF IInv, TypeOK
<1>1. /\ Len(steps'[j]) = Len(steps[j]) + 1
      /\ DOMAIN steps'[j] = 1 .. Len(steps[j]) + 1
      /\ \A i \in 1 .. Len(steps[j]) : steps'[j][i] = steps[j][i]
      /\ steps'[j][Len(steps[j]) + 1] = r
      /\ steps'[j] # <<>> /\ Last(steps'[j]) = r
  BY <1>0, MoreSteps
<1>2. \A i \in DOMAIN steps[j] :
        /\ steps[j][i].status = "completed" <=> outcome[<<j, i>>] = "completed"
        /\ steps[j][i].status = "completed" <=> steps[j][i].code = "none"
        /\ steps[j][i].status = "completed" /\ outcome'[<<j, i>>] = outcome[<<j, i>>]
  BY ChildrenStay DEF StepsTold
<1>3. \A i \in DOMAIN steps'[j] :
        /\ steps'[j][i].status = "completed" <=> outcome'[<<j, i>>] = "completed"
        /\ steps'[j][i].status = "completed" <=> steps'[j][i].code = "none"
        /\ i < Len(steps'[j]) \/ r.status = "completed" => steps'[j][i].status = "completed"
  <2>1. ASSUME NEW i \in 1 .. Len(steps[j])
        PROVE  /\ steps'[j][i].status = "completed" <=> outcome'[<<j, i>>] = "completed"
               /\ steps'[j][i].status = "completed" <=> steps'[j][i].code = "none"
               /\ steps'[j][i].status = "completed"
    BY <1>0, <1>1, <1>2, <2>1
  <2>2. \A i \in DOMAIN steps'[j] : i \in 1 .. Len(steps[j]) \/ i = Len(steps[j]) + 1
    BY <1>0, <1>1
  <2>3. /\ r.status = "completed" <=> outcome'[<<j, Len(steps[j]) + 1>>] = "completed"
        /\ r.status = "completed" <=> r.code = "none"
    BY DEF NextStep
  <2>4. ~(Len(steps[j]) + 1 < Len(steps'[j]))
    BY <1>0, <1>1
  <2> QED
    BY <1>1, <2>1, <2>2, <2>3, <2>4
<1>4. CASE phase'[j] = "delegate" /\ r.status = "completed"
  BY <1>3, <1>4 DEF Told
<1>5. CASE r.status = "failed" /\ EndJob(j, "failed", "delegation_failed")
  <2>1. phase'[j] = "ended" /\ code'[j] = "delegation_failed" /\ outcome'[Root(j)] = "failed"
    BY <1>0, <1>5, EndJobWhat DEF Active
  <2> QED
    BY <1>1, <1>3, <1>5, <2>1 DEF Told
<1> QED
  BY <1>4, <1>5

\* The steps and the code of a job stay true.
LEMMA StepsToldStep ==
  ASSUME IInv, StepsTold, [Next]_vars
  PROVE  StepsTold'
<1>0. /\ phase \in [Jobs -> Phases] /\ steps \in [Jobs -> Seq(StepResults)]
      /\ code \in [Jobs -> Codes]
  BY DEF IInv, TypeOK
<1>1. ASSUME NEW j \in Jobs, steps'[j] = steps[j], code'[j] = code[j],
             \/ phase'[j] = phase[j]
             \/ phase[j] # "ended" /\ phase'[j] # "ended"
      PROVE  Told(j, phase', steps', outcome', code')
  BY <1>1, ChildrenStay, EndedStays DEF StepsTold, Told, PlanDone
<1>2. ASSUME NEW j \in Jobs, JobStep(j)
      PROVE  Told(j, phase', steps', outcome', code')
  <2>1. CASE Pre(j)
    <3>1. CASE Goto(j, "delegate")
      BY <1>0, <1>1, <2>1, <3>1 DEF Pre, Goto
    <3>2. CASE EndJob(j, "failed", "node_execution_failed")
      BY <2>1, <3>2, EndsTold DEF Pre
    <3> QED
      BY <2>1, <3>1, <3>2 DEF Pre
  <2>2. CASE Post(j)
    BY <2>2, EndsTold DEF Post
  <2>3. CASE Dispatch(j)
    <3>0. /\ phase[j] = "delegate" /\ Len(steps[j]) < Len(Plan[j])
          /\ <<j, NextStep(j)>> \in Works
          /\ placed[<<j, NextStep(j)>>] = 0 /\ outcome[<<j, NextStep(j)>>] = "none"
      BY <2>3, DispatchCases, NextChild DEF NextStep, IInv, Placing
    <3>1. CASE DispatchFails(j)
      <4>1. PICK node \in Nat, why \in Codes \ {"none"} :
              /\ steps' = [steps EXCEPT ![j] = Append(@, Step(j, node, "failed", why))]
              /\ EndJob(j, "failed", "delegation_failed")
        BY <3>1 DEF DispatchFails
      <4>2. /\ Step(j, node, "failed", why) \in StepResults
            /\ Step(j, node, "failed", why).status = "failed"
            /\ Step(j, node, "failed", why).code # "none"
        BY <2>3, NewStep DEF Step
      <4>3. outcome'[<<j, NextStep(j)>>] = "none"
        BY <3>0, OutcomeOnce
      <4> QED
        BY <3>0, <4>1, <4>2, <4>3, NewStepTold
    <3>2. CASE DispatchPuts(j)
      BY <1>0, <1>1, <3>0, <3>2 DEF DispatchPuts
    <3> QED
      BY <2>3, <3>1, <3>2, DispatchCases
  <2>4. CASE AwaitChild(j)
    <3> DEFINE node == placed[<<j, NextStep(j)>>]
    <3>0. /\ phase[j] = "await" /\ Len(steps[j]) < Len(Plan[j])
          /\ <<j, NextStep(j)>> \in Works
          /\ Step(j, node, "failed", "node_execution_failed") \in StepResults
          /\ Step(j, node, "completed", "none") \in StepResults
          /\ Step(j, node, "failed", "node_execution_failed").status = "failed"
          /\ Step(j, node, "failed", "node_execution_failed").code # "none"
          /\ Step(j, node, "completed", "none").status = "completed"
          /\ Step(j, node, "completed", "none").code = "none"
      BY <2>4, AwaitCases, NextChild, NewStep DEF NextStep, Step
    <3>1. CASE AwaitEnds(j)
      <4>1. outcome'[<<j, NextStep(j)>>] = "failed"
        BY <3>0, <3>1, OutcomeOnce DEF AwaitEnds
      <4> QED
        BY <3>0, <3>1, <4>1, NewStepTold DEF AwaitEnds
    <3>2. CASE AwaitGoesOn(j)
      <4>1. outcome'[<<j, NextStep(j)>>] = "completed" /\ phase'[j] = "delegate"
        BY <1>0, <3>0, <3>2, OutcomeOnce DEF AwaitGoesOn, Goto
      <4> QED
        BY <3>0, <3>2, <4>1, NewStepTold DEF AwaitGoesOn
    <3> QED
      BY <2>4, <3>1, <3>2, AwaitCases
  <2> QED
    BY <1>2, <2>1, <2>2, <2>3, <2>4 DEF JobStep
<1>3. \A j \in Jobs : Told(j, phase', steps', outcome', code')
  BY <1>1, <1>2, OtherJobs
<1> QED
  BY <1>3 DEF StepsTold, Told, PlanDone

\* The results of the callers stay true, and a new one is a true copy.
LEMMA ResultsToldStep ==
  ASSUME IInv, ResultsTold, [Next]_vars
  PROVE  ResultsTold'
<1> DEFINE True(c, x, r) ==
      /\ r.job = RunOf[c][x]
      /\ \/ r.status = "failed" /\ r.code = "no_ingress" /\ r.children = <<>>
         \/ /\ phase'[r.job] = "ended" /\ r.status = outcome'[Root(r.job)]
            /\ r.code = code'[r.job] /\ r.children = steps'[r.job]
<1>0. TypeOK
  BY DEF IInv
<1>1. ASSUME NEW c \in Callers, NEW x \in DOMAIN results[c]
      PROVE  True(c, x, results[c][x])
  <2>1. results[c][x] \in JobResults
    BY <1>0 DEF TypeOK
  <2>2. results[c][x].job \in Jobs
    BY <2>1 DEF JobResults
  <2> DEFINE r == results[c][x]
  <2>3. /\ r.job = RunOf[c][x]
        /\ \/ r.status = "failed" /\ r.code = "no_ingress" /\ r.children = <<>>
           \/ /\ phase[r.job] = "ended" /\ r.status = outcome[Root(r.job)]
              /\ r.code = code[r.job] /\ r.children = steps[r.job]
    BY DEF ResultsTold
  <2> HIDE DEF r
  <2>4. r.job \in Jobs
    BY <2>2 DEF r
  <2>5. True(c, x, r)
    BY <2>3, <2>4, EndedStays
  <2> QED
    BY <2>5 DEF r
<1>2. ASSUME NEW c \in Callers, NEW r \in JobResults,
             results' = [results EXCEPT ![c] = Append(@, r)],
             True(c, Len(results[c]) + 1, r)
      PROVE  ResultsTold'
  <2>1. /\ \A d \in Callers \ {c} : results'[d] = results[d]
        /\ DOMAIN results'[c] = 1 .. Len(results[c]) + 1
        /\ \A x \in 1 .. Len(results[c]) : results'[c][x] = results[c][x]
        /\ results'[c][Len(results[c]) + 1] = r
        /\ Len(results[c]) \in Nat /\ DOMAIN results[c] = 1 .. Len(results[c])
    BY <1>0, <1>2, MoreResults, Lengths
  <2>2. \A x \in DOMAIN results'[c] : x \in 1 .. Len(results[c]) \/ x = Len(results[c]) + 1
    BY <2>1
  <2>3. ASSUME NEW d \in Callers, NEW x \in DOMAIN results'[d] PROVE True(d, x, results'[d][x])
    <3> HIDE DEF True
    <3>1. CASE d # c
      BY <1>1, <2>1, <3>1
    <3>2. CASE d = c /\ x \in 1 .. Len(results[c])
      BY <1>1, <2>1, <3>2
    <3>3. CASE d = c /\ x = Len(results[c]) + 1
      BY <1>2, <2>1, <3>3
    <3> QED
      BY <2>2, <3>1, <3>2, <3>3
  <2> QED
    BY <2>3 DEF ResultsTold
<1>3. CASE results' = results
  BY <1>1, <1>3 DEF ResultsTold
<1>4. ASSUME NEW c \in Callers, NoIngress(c), Len(results[c]) < Len(RunOf[c])
      PROVE  ResultsTold'
  <2> DEFINE r == JobResult(NextJob(c), "failed", "no_ingress", 0, <<>>)
  <2>1. /\ r \in JobResults /\ r.job = RunOf[c][Len(results[c]) + 1] /\ r.status = "failed"
        /\ r.code = "no_ingress" /\ r.children = <<>>
        /\ results' = [results EXCEPT ![c] = Append(@, r)]
    BY <1>4, NewResult DEF NoIngress, JobResult, NextJob
  <2> HIDE DEF r
  <2> QED
    BY <1>2, <2>1
<1>5. ASSUME NEW c \in Callers, Collect(c) PROVE ResultsTold'
  <2> DEFINE j == NextJob(c)
             r == JobResult(j, outcome[Root(j)], code[j], placed[Root(j)], steps[j])
  <2>1. /\ r \in JobResults /\ j \in Jobs /\ j = RunOf[c][Len(results[c]) + 1]
        /\ r.job = j /\ r.status = outcome[Root(j)]
        /\ r.code = code[j] /\ r.children = steps[j] /\ outcome[Root(j)] # "none"
        /\ results' = [results EXCEPT ![c] = Append(@, r)]
    BY <1>5, NewResult DEF Collect, JobResult, NextJob
  <2> HIDE DEF r, j
  <2>2. phase[j] = "ended"
    BY <2>1 DEF IInv, JobPhases
  <2>3. True(c, Len(results[c]) + 1, r)
    BY <2>1, <2>2, EndedStays
  <2> QED
    BY <1>2, <2>1, <2>3
<1>6. ASSUME NEW c \in Callers, CallerStep(c) PROVE ResultsTold'
  <2>1. CASE ChooseIngress(c)
    BY <1>3, <1>4, <2>1 DEF ChooseIngress, Calling, nodeVars
  <2>2. CASE PutRoot(c)
    BY <1>3, <1>4, <2>2 DEF PutRoot, IInv, Callings
  <2> QED
    BY <1>5, <1>6, <2>1, <2>2 DEF CallerStep
<1>7. ASSUME NEW n \in Nodes, NodeStep(n) PROVE results' = results
  BY <1>7, SMTT(30) DEF NodeStep, Take, RunChild
<1>8. ASSUME NEW j \in Jobs, JobStep(j) PROVE results' = results
  BY <1>8, Zenon DEF JobStep, Pre, Post, Dispatch, AwaitChild
<1> QED
  BY <1>3, <1>6, <1>7, <1>8, OtherSteps DEF Next

\* Every result a run_workload returns is true: completed means that all its
\* delegations completed, and a failed child is the reason of its job.
THEOREM ResultsTellTheTruth == Spec => []ResultsAreTrue
<1>1. IInv /\ Outcomes /\ [Next]_vars => Outcomes'
  BY StepsToldStep, ResultsToldStep DEF Outcomes
<1>2. ASSUME IInv, Outcomes, NEW c \in Callers, NEW x \in DOMAIN results[c]
      PROVE  LET r == results[c][x] IN
        /\ r.job = RunOf[c][x]
        /\ r.status = "completed" <=> r.code = "none"
        /\ r.status = "completed" => Len(r.children) = Len(Plan[r.job])
        /\ r.code = "delegation_failed" <=>
             r.children # <<>> /\ Last(r.children).status = "failed"
        /\ \A i \in DOMAIN r.children :
             /\ i < Len(r.children) => r.children[i].status = "completed"
             /\ r.children[i].status = "completed" <=> outcome[<<r.job, i>>] = "completed"
             /\ r.children[i].status = "completed" <=> r.children[i].code = "none"
  <2> DEFINE r == results[c][x]
  <2>1. r.job \in Jobs
    <3>1. r \in JobResults
      BY <1>2 DEF IInv, TypeOK
    <3> QED
      BY <3>1 DEF JobResults
  <2>2. /\ r.job = RunOf[c][x]
        /\ \/ r.status = "failed" /\ r.code = "no_ingress" /\ r.children = <<>>
           \/ /\ phase[r.job] = "ended" /\ r.status = outcome[Root(r.job)]
              /\ r.code = code[r.job] /\ r.children = steps[r.job]
    BY <1>2 DEF Outcomes, ResultsTold
  <2> HIDE DEF r
  <2>3. CASE r.status = "failed" /\ r.code = "no_ingress" /\ r.children = <<>>
    BY <2>2, <2>3 DEF r
  <2>4. CASE /\ phase[r.job] = "ended" /\ r.status = outcome[Root(r.job)]
             /\ r.code = code[r.job] /\ r.children = steps[r.job]
    BY <1>2, <2>1, <2>2, <2>4 DEF Outcomes, StepsTold, PlanDone, r
  <2> QED
    BY <2>2, <2>3, <2>4
<1>3. IInv /\ Outcomes => ResultsAreTrue
  BY <1>2 DEF ResultsAreTrue
<1> QED
  BY <1>1, <1>3, IInvInit, Invariance, PTL DEF Spec

-----------------------------------------------------------------------------
(* The nodes keep to the contract of module NodeContract, which module     *)
(* Node implements with its threads and its lock.                          *)

\* The status that the contract of a node sees, before and after a step.
LEMMA StatusCases ==
  \A n, w :
    /\ placed[w] # n => StatusOn(n, w) = "new"
    /\ placed[w] = n /\ outcome[w] # "none" => StatusOn(n, w) = outcome[w]
    /\ placed[w] = n /\ outcome[w] = "none" /\ w \in current[n] => StatusOn(n, w) = "running"
    /\ placed[w] = n /\ outcome[w] = "none" /\ w \notin current[n] => StatusOn(n, w) = "queued"
    /\ placed'[w] # n => StatusOn(n, w)' = "new"
    /\ placed'[w] = n /\ outcome'[w] # "none" => StatusOn(n, w)' = outcome'[w]
    /\ placed'[w] = n /\ outcome'[w] = "none" /\ w \in current'[n] => StatusOn(n, w)' = "running"
    /\ placed'[w] = n /\ outcome'[w] = "none" /\ w \notin current'[n] => StatusOn(n, w)' = "queued"
BY DEF StatusOn

\* A work whose place, outcome and execution do not change keeps its status.
LEMMA StatusStays ==
  ASSUME NEW n, NEW w,
         \/ placed[w] # n /\ placed'[w] # n
         \/ /\ placed'[w] = placed[w] /\ outcome'[w] = outcome[w]
            /\ w \in current'[n] <=> w \in current[n]
  PROVE  StatusOn(n, w)' = StatusOn(n, w)
BY StatusCases

\* The contract of a node sees nothing of a step that leaves the node alone.
LEMMA ContractStutters ==
  ASSUME NEW n \in Nodes, \A w \in Works : StatusOn(n, w)' = StatusOn(n, w),
         pool'[n] = pool[n], role'[n] = role[n], stopped'[n] = stopped[n],
         \A w \in Works : /\ placed'[w] = n <=> placed[w] = n
                          /\ placed[w] = n => acceptedAs'[w] = acceptedAs[w]
  PROVE  UNCHANGED Contract(n)!vars
<1>1. [w \in Works |-> StatusOn(n, w)]' = [w \in Works |-> StatusOn(n, w)]
  OBVIOUS
<1>2. [w \in Works |-> IF placed[w] = n THEN acceptedAs[w] ELSE NoRole]'
        = [w \in Works |-> IF placed[w] = n THEN acceptedAs[w] ELSE NoRole]
  OBVIOUS
<1> QED
  BY <1>1, <1>2 DEF Contract!vars

\* put is Accept for its node and nothing for the others.
LEMMA AcceptRefines ==
  ASSUME IInv, NEW n \in Nodes, NEW w \in Works, Accepts(n, w), NEW m \in Nodes
  PROVE  [Contract(m)!Next]_(Contract(m)!vars)
<1>1. TypeOK /\ n # 0 /\ m # 0
  BY DelegationAssumption DEF IInv
<1>2. /\ \A v \in Works : placed'[v] = IF v = w THEN n ELSE placed[v]
      /\ outcome' = outcome /\ current' = current /\ placed[w] = 0 /\ outcome[w] = "none"
      /\ ~stopped[n] /\ stopped' = stopped /\ role' = role
      /\ pool'[n] = Append(pool[n], w) /\ \A k \in Nodes \ {n} : pool'[k] = pool[k]
      /\ \A v \in Works : acceptedAs'[v] = IF v = w THEN role[n] ELSE acceptedAs[v]
      /\ w \notin current[n]
  <2>1. w \notin current[n]
    BY <1>1 DEF Accepts, IInv, Placing, On
  <2>2. /\ \A v \in Works : placed'[v] = IF v = w THEN n ELSE placed[v]
        /\ outcome' = outcome /\ current' = current /\ placed[w] = 0 /\ outcome[w] = "none"
    BY AcceptsWhat
  <2>3. /\ ~stopped[n] /\ stopped' = stopped /\ role' = role
        /\ pool' = [pool EXCEPT ![n] = Append(@, w)]
        /\ acceptedAs' = [acceptedAs EXCEPT ![w] = role[n]]
    BY DEF Accepts, Put
  <2> QED
    BY <1>1, <2>1, <2>2, <2>3 DEF TypeOK
<1>3. CASE m # n
  <2>1. \A v \in Works : StatusOn(m, v)' = StatusOn(m, v)
    BY <1>1, <1>2, <1>3, StatusStays
  <2> QED
    BY <1>1, <1>2, <1>3, <2>1, ContractStutters
<1>4. CASE m = n
  <2>1. StatusOn(n, w) = "new" /\ StatusOn(n, w)' = "queued"
    BY <1>1, <1>2, StatusCases
  <2>2. \A v \in Works \ {w} : StatusOn(n, v)' = StatusOn(n, v)
    BY <1>2, StatusStays
  <2>3. [v \in Works |-> StatusOn(n, v)]'
          = [[v \in Works |-> StatusOn(n, v)] EXCEPT ![w] = "queued"]
    BY <2>1, <2>2
  <2>4. [v \in Works |-> IF placed[v] = n THEN acceptedAs[v] ELSE NoRole]'
          = [[v \in Works |-> IF placed[v] = n THEN acceptedAs[v] ELSE NoRole]
               EXCEPT ![w] = role[n]]
    BY <1>2
  <2>5. Contract(n)!Accept(w)
    BY <1>2, <2>1, <2>3, <2>4 DEF Contract!Accept
  <2> QED
    BY <1>4, <2>5 DEF Contract!Next
<1> QED
  BY <1>3, <1>4

\* A worker that takes the head of the queue is Begin.
LEMMA TakeRefines ==
  ASSUME IInv, NEW n \in Nodes, Takes(n), NEW m \in Nodes
  PROVE  [Contract(m)!Next]_(Contract(m)!vars)
<1>0. PICK w : w = Head(pool[n])
  OBVIOUS
<1>1. /\ w \in Works /\ Contains(pool[n], w) /\ w = Head(pool[n])
      /\ pool[n] # <<>> /\ pool'[n] = Tail(pool[n]) /\ current'[n] = current[n] \cup {w}
      /\ \A k \in Nodes \ {n} : pool'[k] = pool[k] /\ current'[k] = current[k]
      /\ UNCHANGED <<role, stopped, outcome, acceptedAs, placed>>
  BY <1>0, TakePlaces DEF Takes, IInv, TypeOK
<1>2. /\ placed[w] = n /\ outcome[w] = "none" /\ w \notin current[n]
      /\ acceptedAs[w] = role[n]
  <2>1. On(n, w)
    BY <1>1 DEF On
  <2> QED
    BY <1>1, <2>1 DEF IInv, Placing, InRole
<1>3. CASE m # n
  BY <1>1, <1>3, StatusStays, ContractStutters
<1>4. CASE m = n
  <2>1. StatusOn(n, w) = "queued" /\ StatusOn(n, w)' = "running"
    BY <1>1, <1>2, StatusCases
  <2>2. \A v \in Works \ {w} : StatusOn(n, v)' = StatusOn(n, v)
    BY <1>1, StatusStays
  <2>3. [v \in Works |-> StatusOn(n, v)]'
          = [[v \in Works |-> StatusOn(n, v)] EXCEPT ![w] = "running"]
    BY <2>1, <2>2
  <2>4. [v \in Works |-> IF placed[v] = n THEN acceptedAs[v] ELSE NoRole]'
          = [v \in Works |-> IF placed[v] = n THEN acceptedAs[v] ELSE NoRole]
    BY <1>1
  <2>5. Contract(n)!Begin(w)
    BY <1>1, <1>2, <2>1, <2>3, <2>4 DEF Contract!Begin
  <2> QED
    BY <1>1, <1>4, <2>5 DEF Contract!Next
<1> QED
  BY <1>3, <1>4

\* The end of a work is Finish on the node that executed it.
LEMMA EndRefines ==
  ASSUME IInv, NEW w \in Works, NEW o \in {"completed", "failed"}, Ends(w, o), NEW m \in Nodes
  PROVE  [Contract(m)!Next]_(Contract(m)!vars)
<1>0. PICK n : n = placed[w]
  OBVIOUS
<1>1. /\ n \in Nodes /\ placed[w] = n /\ w \in current[n] /\ outcome[w] = "none"
      /\ \A k \in Nodes : \A v \in Works : v # w => (v \in current'[k] <=> v \in current[k])
      /\ \A v \in Works : outcome'[v] = IF v = w THEN o ELSE outcome[v]
      /\ UNCHANGED <<role, stopped, pool, acceptedAs, placed>>
  <2>1. placed[w] # 0 /\ w \in current[placed[w]] /\ Finish(w, o) /\ TypeOK /\ Placing
    BY DEF Ends, IInv
  <2>2. \A v \in Works : outcome'[v] = IF v = w THEN o ELSE outcome[v]
    BY EndsWhat
  <2> QED
    BY <1>0, <2>1, <2>2, FinishPlaces DEF Finish
<1>2. \A k \in Nodes : \A v \in Works \ {w} : StatusOn(k, v)' = StatusOn(k, v)
  BY <1>1, StatusStays
<1>3. CASE m # n
  <2>1. StatusOn(m, w)' = StatusOn(m, w)
    BY <1>1, <1>3, StatusStays
  <2> QED
    BY <1>1, <1>2, <2>1, ContractStutters
<1>4. CASE m = n
  <2>1. StatusOn(n, w) = "running" /\ StatusOn(m, w)' = o
    BY <1>1, <1>4, StatusCases
  <2>2. [v \in Works |-> StatusOn(m, v)]'
          = [[v \in Works |-> StatusOn(m, v)] EXCEPT ![w] = o]
    BY <1>2, <2>1
  <2>3. [v \in Works |-> IF placed[v] = m THEN acceptedAs[v] ELSE NoRole]'
          = [v \in Works |-> IF placed[v] = m THEN acceptedAs[v] ELSE NoRole]
    BY <1>1
  <2>4. Contract(m)!Finish(w, o) /\ o \in Contract(m)!Outcomes
    BY <1>1, <1>4, <2>1, <2>2, <2>3 DEF Contract!Finish, Contract!Outcomes
  <2> QED
    BY <2>4 DEF Contract!Next
<1> QED
  BY <1>3, <1>4

\* A role changes where nothing is accepted and unfinished.
LEMMA ChangeRefines ==
  ASSUME IInv, NEW n \in Nodes, NEW r \in Roles, Changes(n, r), NEW m \in Nodes
  PROVE  [Contract(m)!Next]_(Contract(m)!vars)
<1>1. /\ ~stopped[n] /\ role'[n] = r /\ \A k \in Nodes \ {n} : role'[k] = role[k]
      /\ UNCHANGED <<stopped, pool, current, outcome, acceptedAs, placed>>
      /\ current[n] = {} /\ pool[n] = <<>>
  BY DEF Changes, Busy, IInv, TypeOK
<1>2. \A k \in Nodes : \A v \in Works : StatusOn(k, v)' = StatusOn(k, v)
  BY <1>1, StatusStays
<1>3. CASE m # n
  BY <1>1, <1>2, <1>3, ContractStutters
<1>4. CASE m = n
  <2>1. \A v \in Works : StatusOn(n, v) \notin {"queued", "running"}
    <3> SUFFICES ASSUME NEW v \in Works, placed[v] = n, outcome[v] = "none" PROVE FALSE
      BY StatusCases, ZenonT(40) DEF IInv, TypeOK
    <3>1. n # 0
      BY DelegationAssumption
    <3>2. On(n, v)
      BY <3>1 DEF IInv, Placing
    <3> QED
      BY <1>1, <3>2, EmptyMembers DEF On
  <2>2. ~Contract(n)!Busy
    BY <2>1 DEF Contract!Busy
  <2>3. Contract(n)!ChangeRole(r)
    <3>1. [v \in Works |-> StatusOn(n, v)]' = [v \in Works |-> StatusOn(n, v)]
      BY <1>2
    <3>2. [v \in Works |-> IF placed[v] = n THEN acceptedAs[v] ELSE NoRole]'
            = [v \in Works |-> IF placed[v] = n THEN acceptedAs[v] ELSE NoRole]
      BY <1>1
    <3> QED
      BY <1>1, <2>2, <3>1, <3>2 DEF Contract!ChangeRole
  <2> QED
    BY <1>4, <2>3 DEF Contract!Next
<1> QED
  BY <1>3, <1>4

\* A stop flag is Stop, whatever is queued or executed.
LEMMA StopRefines ==
  ASSUME IInv, NEW n \in Nodes, Stops(n), NEW m \in Nodes
  PROVE  [Contract(m)!Next]_(Contract(m)!vars)
<1>1. /\ stopped'[n] = TRUE /\ \A k \in Nodes \ {n} : stopped'[k] = stopped[k]
      /\ UNCHANGED <<role, pool, current, outcome, acceptedAs, placed>>
  BY DEF Stops, IInv, TypeOK
<1>2. \A k \in Nodes : \A v \in Works : StatusOn(k, v)' = StatusOn(k, v)
  BY <1>1, StatusStays
<1>3. CASE m # n
  BY <1>1, <1>2, <1>3, ContractStutters
<1>4. CASE m = n
  <2>1. [v \in Works |-> StatusOn(n, v)]' = [v \in Works |-> StatusOn(n, v)]
    BY <1>2
  <2>2. [v \in Works |-> IF placed[v] = n THEN acceptedAs[v] ELSE NoRole]'
          = [v \in Works |-> IF placed[v] = n THEN acceptedAs[v] ELSE NoRole]
    BY <1>1
  <2>3. Contract(n)!Stop
    BY <1>1, <2>1, <2>2 DEF Contract!Stop
  <2> QED
    BY <1>4, <2>3 DEF Contract!Next
<1> QED
  BY <1>3, <1>4

\* The nodes begin as their contract says.
LEMMA ContractInit == Init => NodesBegin
<1> SUFFICES ASSUME Init, NEW n \in Nodes PROVE Contract(n)!Init
  BY DEF NodesBegin
<1>1. n # 0 /\ StartRoles[n] \in Roles
  BY DelegationAssumption
<1>2. \A w \in Works : placed[w] # n
  BY <1>1 DEF Init
<1>3. \A w \in Works : StatusOn(n, w) = "new"
  BY <1>2, StatusCases
<1> QED
  BY <1>1, <1>2, <1>3 DEF Init, Contract!Init

\* Every node that callers, workers, the player and stop_all use behaves as
\* the contract of a Node says: the delegation relies on nothing else.
THEOREM ContractsAreKept == Spec => NodesKeepContract
<1>1. IInv /\ [Next]_vars => NodesStep
  <2> SUFFICES ASSUME IInv, [Next]_vars, NEW n \in Nodes
               PROVE  [Contract(n)!Next]_(Contract(n)!vars)
    BY DEF NodesStep
  <2>1. CASE UNCHANGED nodeVars
    BY <2>1, StatusStays, ContractStutters DEF nodeVars
  <2> QED
    BY <2>1, Effects, AcceptRefines, TakeRefines, EndRefines, ChangeRefines, StopRefines
    DEF NodeEffect
<1> QED
  BY <1>1, ContractInit, Invariance, PTL DEF Spec, NodesKeepContract
=============================================================================
