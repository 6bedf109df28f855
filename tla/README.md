# Compute Tycoon in TLA+

TLA+ modules, model checking runs and machine-checked proofs for the core of
Compute Tycoon: a game in which a player buys parts, assembles server nodes,
cables them into a network and runs workloads on them. Each node is simulated
with real threads, the game state is saved by a thread of its own, and one
node's worker waits for another node's work. Those are the parts that tests
reach least, and the ones modelled first.

All paths below are relative to the root of the repository.

## 1. Inventory

| Part | State it keeps | Operations | Correct when |
|---|---|---|---|
| Node, `hardware_sim/node.py` | role and executor, `_work_pool`, `_current_works`, `_worked`, `_failed`, `_is_stopped`, all under one Condition | constructor, `put`, `wait_for`, `wait_all`, `set_role`, `stop`, the worker loop `_run` | accepted work is executed once, in order, by the executor of the role that accepted it; every call returns once the work it waits for can end |
| Devices, `hardware_sim/devices/` | memory in use, busy cores and clock, GPU memory, stored bytes, queue slots | `allocate`/`release`, `process`, `read`/`write`, `receive`/`send` | never beyond capacity; what a work took for a time comes back, also when it fails (except a memory sink that raises, see section 6); nobody sleeps beside enough room |
| Role executors, `hardware_sim/executors.py` | none | one fixed order of device operations per role; the Application Server delegates between two phases | a failure on the way leaves nothing taken and no child behind |
| Game, `hardware_sim/game.py` | `Inventory`, `_nodes`, `_build_requests`, `topology`, `_state_version`, under one RLock | buy, add or build a node, set role, rename, connect, disconnect, address, route, run workload, save, load | what was bought is in stock or in use; a save restores the running game; each change has its version |
| NetworkTopology, `hardware_sim/networking.py` | cables, addresses, routes, a reference to the nodes | the edits, `resolve`, `ping`, `traceroute` | a port has one cable; `resolve` answers as longest prefix forwarding does |
| Autosave, `hardware_sim/persistence.py`, `main.py` | `_last_saved_version`, `_stop_event`, the save file and its `.tmp` | the thread, `flush`, `stop` | the file is whole at every instant and holds what is believed saved |
| Assembly, `hardware_sim/assembly.py`, `catalog.py`, `parts.py` | none | checks of sockets, slots, connectors, PCIe; construction | what is accepted fits on the board, and what fits is accepted |
| Build shell, `hardware_sim/shell.py` | the draft of a build | `select`, `add`, `remove`, `validate`, `commit`, `cancel` | a commit builds what the draft says or reports why not |
| HardwareModule, `hardware_sim/module.py` | as Node, older and without roles | `put`, `wait_all`, `stop`, the worker loop | what `wait_all` has waited for is recorded, once |
| Infrastructure, `hardware_sim/infrastructure.py` | a map of ids to Nodes | the builder; `put`, `wait_all`, `stop` | every node that was started is known and stopped |
| HardwareMonitor, `hardware_sim/monitor.py` | `_stop_event`, its thread | `start`, `stop`, the loop | it ends when told to |
| Simulation loop, `main.py` | the units, the monitor, `monitor_started`, the next id | `main.main` | it ends, and stops what it started, whatever is raised |
| Session, `hardware_sim/shell.py`, `main.py` | the shell that reads, the game behind it | `run_cli`, the commands of four shells | as the loop; every command comes back |
| Workload catalog, `hardware_sim/workloads.py`, `work.py` | none | `load_workload_catalog`, `create_work`, `create_application_work` | a sound file never raises in the middle of a run |
| EventLog, configuration, localization | a bounded log; none; none | | see section 9 |

How they interact. The shells call one game command at a time; every command
runs under the game's lock. `run_workload` takes the lock only to choose an
Application Server and to put a work, then waits on that node without it. The
node's worker calls back into the game (the dispatcher), which takes the lock
to choose a backend, puts the child there and waits for it on the backend's
Condition. `save_snapshot` takes the lock for the autosave thread. `stop_all`
stops the autosave first and then every node in order; it runs from the exit
command and once more from the `finally` clause of `run_cli`. `main.main` is the
other program: it draws works, puts them to a HardwareModule, a Node or the
nodes of an Infrastructure, and a monitor thread looks at their snapshots.

What is hard: workers and waiting clients sleep on one Condition; a role may
change between acceptance and execution; workers of one node wait for another
node without a timeout; two threads flush to the same temporary path; the
inventory is serialised after the lock is released; ports are names derived
from a role that may change; devices are held while others are waited for;
threads start in constructors that may fail after them, and the shutdown of
both programs is a chain of waits of which any may raise or be interrupted.
`PROJECT.json` lists each of these under `hazards`, at its line, with the
properties that would catch it.

## 2. Modules

```
NodeContract <--implements-- Node <-- NodeProofs       (proofs)
      ^
      +-----keeps to-------- Delegation <-- DelegationMC
      |
      +-----keeps to-------- Process <-- Simulation <-- Programs <-- ProgramsMC
                                ^  ^                       |
Workloads <---------------------+  +---- Session <---------+
Assembly <-- BuildShell <------------------+
    ^
  GameMC --> Game --> Topology <-- Routing <-- RoutingMC
Autosave
Devices <-- DevicesMC
```

The proofs are in modules of their own, each of which extends the module it is
about: `NodeProofs`, `AutosaveProofs`, `GameProofs`, `RoutingProofs`,
`DelegationProofs`, `DevicesProofs` and `ProgramsProofs` (about Process,
Simulation, Session, Programs and the two modules of the build shell together).

**Collections** holds two operators that Assembly, Devices, Topology and what
extends them share: the sum of a function, as the number of units it counts, and
the selection of some elements of a sequence. Library folds would do the
same, but nothing can be proved of a fold. **CollectionLemmas** has what the
proofs need of sums, selections and loops.

**NodeContract** is what a node promises its callers: works accepted once,
begun in order under the accepting role, ended with one outcome; the role
changes only while nothing is unfinished; a stopped node accepts nothing; an
answer of `wait_for` is the recorded outcome.

**Node** is the implementation. `waiters` is the list of threads inside
`Condition.wait`, oldest first, as CPython keeps it. Each `with
self._condition` block is one action, cut where it calls `wait`:
`WaitForSleeps`/`WaitForReturns`, `WaitAllSleeps`/`WaitAllReturns`,
`WorkerSleeps`/`WorkerExits`/`Take`, and `Finish` for the `finally` clause of
`_run`. `StartThread`, `StartFails` and `CleanupJoins` are the constructor.
Calls that raise change nothing and are stuttering steps.

**Autosave** has the autosave thread and the main thread, which after some
commands runs `stop_all` (and runs it again from the `finally` clause of
`run_cli` when the first one raised). Both may be at any step of `flush`:
capture the snapshot, compare versions, open the temporary file, dump, replace,
record. Files are inodes behind two paths, so that a thread can go on writing an
inode that the other one has already put in place. A save is named by two
versions, that of the inventory and that of the rest, because `to_dict` hands
out the live dictionaries.

**Topology** holds the operators of `NetworkTopology` that edit and that name
ports; **Game** has one action per command and `Reload`, which saves, ends the
process and starts it again. `bought` and `origin` are history variables.
**Routing** has the edits as actions and `resolve` as operators. Each loop of
the code is a function of the number of its rounds: `Extend` looks at the neighbors of
one port in their order (`Look` is the body of the `for`), `Search` is a round
of the `while` of `_l2_path`, `Forward` a round of `resolve`. The number of rounds
is the number of ports, or of nodes and one more, and after that a finished loop
stays as it is. The reference definitions beside them do not search, they
saturate sets: `Within` floods ports, `Delivering` goes back from the nodes
that hear the target to those that hand over to them.

**Assembly** holds the checks of `NodeBuilder` as operators, each with the
order in which the code goes through parts and slots: a round of `Assigned`
(`Insert`) takes the next card in the order of lanes and gives it the least free slot
that suits it. Slots are pairs of an entry and a number, so that there are as
many as the board counts.
Beside them stands `Fits`, which asks for an injective placement and knows
nothing of an order. **BuildShell** is the draft that a player makes in the
build shell: each part is checked against the inventory when it is added, and
`Valid` runs all checks, as `validate` and `commit` do. `GameMC` takes Assembly for its kits: whether a
kit can be built (`Compatible`) and which interfaces the node has (`KitNics`)
are computed there and not assumed.

**Delegation** runs several `run_workload` calls with their jobs in order. A
submission is `ChooseIngress` and `PutRoot`, between which the game lock is
held (`chosen`); `Dispatch` is the dispatcher. `keeper` is the thread inside
`stop_all`.

**Devices** takes one node with its worker threads. The program of a work is
the order of device operations in its executor; `Finally` is what an exception
leaves to do. Each critical section of a device is one action, a thread that
does not fit sleeps until its device notifies.

**Workloads** holds the catalog as operators: which files load, which profiles
a kind leads to, and for a profile whether a draw may succeed and whether it may
raise. A range is a pair; both answers can be yes.

**Process** is what the two programs share. A unit is a Node or a
HardwareModule; its workers are `Sleeps`, `Leaves`, `Takes` and the end of the
execution, which a Node records in one critical section (`Succeeds`,
`FailsAtOnce`) and a HardwareModule, when it fails, in two (`RecordsFailure`,
`Discards`). The main thread goes through the units it owns by `WaitSleeps`,
`WaitReturns`, `StopUnit` and `JoinUnit`; `k` is its position. `helper` is the
monitor or the autosave thread. Each unit is coarser than module Node (nobody
changes its role, and the constructor is one step) and is shown to keep
NodeContract as well. A constructor that a failure or an interrupt cuts short is
`CutShort`: which threads run then, and whether they were told to stop, for a
HardwareModule, which has no clean-up, and for a Node, whose clean-up a second
disruption may strike. The program does not know such a unit, since all
callers record it after the constructor has returned.

**Simulation** is `main.main`: build, start the monitor, draw and put, and the
nested `finally` clauses. **Session** is `run_cli`: load and construct the game,
the four prompts, `run workload`, and the two rounds of `stop_all`. What a
command does to the game state beyond that is in Game, what a run does inside
the nodes in Delegation, what a flush does in Autosave; here a flush succeeds or
raises and a run puts one work to the ingress node. **Programs** starts
either.

An interrupt is a KeyboardInterrupt in the main thread; CPython raises it
between two bytecodes, so it can fall between any two calls, before a call or in
one. The model has a place for each of these that makes a difference to what is
left: before `monitor.start`, between it and the flag, before the event is set or
in the join, before the flag of a unit is set or in the join of its workers,
within a constructor, between a constructor and the line that records the unit
(`BuildCutShort`, `LoadCutShort`, `PlaceCutShort`), between the assignments at the
end of a load and `AutosaveWorker.start` ("start"), and from there through the
rest of both constructors to the `try` of `run_cli` ("shell"). `AfterInterrupt`
says where the nested clauses of `main.main` lead from each place,
`GiveUpInterrupted` where those of a failed load do. An interrupt that finds a
command after the node is recorded is one that comes right after the command, as
far as threads go. One case is left out: a command whose node
fails to start a thread and is interrupted while it joins the others. The
constructor swallows that interrupt, the command prints the failure and the
session goes on, while a thread that was told to stop and not waited for ends by
itself. `holes` is a history variable: it names the places of the code at which
a thread gets out of everyone's hands (see section 7).

Operators whose comment begins with "Faulty" are variants of the one below
them as a plausible slip would write it. No specification uses them; they show
that the properties tell the two apart.

## 3. Runs

| Run | Bounds | What it shows |
|---|---|---|
| NodePromises | 2 workers, 2 clients, 2 works, 2 roles | type and accounting invariants, no deaf client, a taker for every queue, the contract, and the four liveness promises |
| NodeLostWakeup | 3 works, one of them endless | `wait_for` of one work can hang on another: violated |
| AutosaveSaves | 2 changes, 1 failed write, 1 crash | file and bookkeeping agree, `stop` ends, changes are saved |
| AutosavePartialFile, AutosaveTornSnapshot | 2 changes, no failure | violated, see section 6 |
| Game | 2 ids, 2 roles, 2 kits (one refused), a prebuilt server, 2 kinds of cable, 1 purchase per asset, 1 address or route, 2 changes between restarts | conservation of assets; a load restores the game; only role changes strand ports; a version for each change |
| GameSaveLost | as Game, one kit, no address, 3 changes between restarts | violated, see section 6 |
| Routing | 2 hosts and a router; 2 hosts and 2 switches of 3 and 2 ports | `resolve` is longest prefix forwarding; hops are a walk; the layer 2 path is a shortest one |
| Programs | a HardwareModule with 2 workers, 4 Nodes with 1, two of them with the same id; 4 configurations, 3 workload files, 2 saves; 2 works of at most 2 steps, or 2 jobs; 1 failure and 1 interrupt anywhere; 2 boards, 3 kinds of memory, 2 of graphics cards, 2 of network cards, at most 2 parts in each list | waited is recorded; nothing is left behind; sound catalogs run; programs and commands end; units keep the contract; cards have slots of their own; the verdict is exact on regular boards |
| DelegationSafety | 3 nodes, 2 callers, 2 jobs with 1 and 2 delegations | work in its role, flat wait graph, true results |
| DelegationFair | 2 nodes, 3 jobs, one to a node that does not exist | runs return, `stop_all` ends, nodes keep the contract |
| Devices | 2 threads, 7 works of 4 roles | capacities, exact bookkeeping, no needless sleep, everything released, every work ends |

Why these bounds are enough to be interesting. Two workers and two clients are
the least in which a notify can meet the wrong sleeper, and in which a stop
overlaps a wait. Two versions and one overlap of flushes show every order of
two snapshots. Two nodes with two interfaces have every relation between a port
name before and after a role change; restarts reset the version, so `MaxVersion`
bounds the changes between two restarts and not the length of a behaviour. The
routed network has addresses that lie in one another's networks, a default
route, a loop, and one address given twice; the switched one has paths of
different lengths. In Programs one failure and one interrupt meet in every
order, among them an interrupt of the first `stop_all` with a failing flush in
the second. (With two interrupts and one work or job all seven properties hold
as well.) Two
works are enough for one to fail while the other runs, and for a second job that
raises after a first that has finished. A player builds a server only in a game
that has nothing else yet (`BuildFirst`), since a draft and other nodes
do not touch; a saved game buys no server. The boards have slots of which one must be
kept for the card that needs it, and one board has slots of which neither
replaces the other. The works of Devices do not fit side by side in memory,
cores or GPU memory, one asks for more memory and one for more GPU memory than
there is, and there is room for one write only.

`CHECK_DEADLOCK FALSE` is used by Routing alone, whose edits run out. In the
other modules a place where the system may rest is a named stuttering action
(`NoNode`, `Over`, `AllDone`, `Unloadable`), so that every other deadlock is
an error.

## 4. Fairness

* Node: weak fairness of each worker's next step, of each call already made,
  and of the end of each execution that is not in `Slow`. The operating system
  runs runnable threads; executions end because the executors are finite. No
  call is ever required to be made. A woken thread has to get the lock: weak
  fairness per thread says that it does, which is right because no thread of
  the code holds the lock without end.
* Autosave: both threads go on, writes end; nobody has to type a command.
* Delegation: workers, dispatchers and `stop_all` go on; callers go on with a
  run they have begun.
* Devices: each thread that can take a step does, transfers and computations
  end. A thread in `Condition.wait` is not runnable until it is notified, and a
  semaphore admits one of the threads that want it.
* Programs: workers run and executions end, the helper thread sees its event,
  the main thread goes on in what it has begun. Nobody has to type a command;
  no failure or interrupt has to happen. The simulation has an end because it is
  given a number of works (`max_jobs`), as the tests give it; without one it
  runs until it is interrupted.

## 5. Proofs

The theorems hold for every value of the constants that satisfies the named
assumption of each module. Every safety theorem follows from one inductive
invariant of its module, called `IInv` (`Sound` in RoutingProofs; in GameProofs
`WellFormed` and `Books` stand beside it, in ProgramsProofs `KitType`); hardly any of the checked invariants is
inductive by itself, and what has to be added says why the code works.

| Module | Theorems | State a property of the run |
|---|---|---|
| NodeProofs | TypeCorrect, NoWorkLostOrDoubled, ClientsAreWoken, PoolIsServed, NodeImplementsContract; RoleStable, StopReachesWorkers, AnswersHold, SingleWorkerConserves | NodePromises |
| AutosaveProofs | SaveSurvives, ExitLosesNothing; NextStartLoads | AutosaveSaves |
| GameProofs | LoadRestores, OnlyStrandedSavesFail, ChangesAreCounted, NothingLost, InterfacesHold, RolesStrand | Game |
| RoutingProofs | ShortestPaths, HopsWalk, ResolveForwards | Routing |
| DelegationProofs | RolesAreKept, WaitingIsFlat, ResultsTellTheTruth, ContractsAreKept | DelegationSafety, DelegationFair |
| DevicesProofs | CapacityKept, CountersAreHeld, NoLostWakeup, AllGivenBack | Devices |
| ProgramsProofs | WaitingRecords, UnitsAreNodes, EndsClean, SoundRunsEnd, CardsHaveSlots, VerdictsAreExact | Programs |

In the passing runs every invariant and every action property that does not
depend on fairness is stated by one of these theorems.

**CollectionLemmas.** The provers know no sum and no loop. A sum is therefore
the cardinality of a set of units: changing one term adds or removes the units
of that term, and the library's theorems on cardinality do the rest
(`SumSplit`, `SumChange`, `TermWithinSum`). A loop is a function of the
number of its rounds. That such a function exists, and is the one defined, is
`LoopComputes`; the step is a function there and not an operator, and the induction
is over a set of numbers, as the argument that a set without a least element is empty
(`HasLeast`). An invariant of a loop
is then shown by looking at the least round at which it would fail.

**NodeProofs.** `NodeAssumption`: there is a worker; threads are not both; the
two null values are none of the others. `IInv` adds four facts to the checked
invariants.
`Placement`: which program places, locals and sleeping belong together (only a
thread in a waiting place sleeps, a worker that executes holds a work).
`Construction`: before the constructor has returned no client has called, and
after it every worker was started. `OneSleep`: a thread is in `waiters` at most once, so that
removing the head wakes it. `RoleFrozen`: while any work is queued or running,
the node's role and executor are the ones it was accepted under; this is what
makes the late reading of the executor in `_run` harmless.

`QueueHasTaker` is the delicate one. `notify` may go to a client, so the
argument is not that a put wakes a worker. It is that not all living workers
sleep while the pool is filled: a worker that goes to sleep found the pool
empty, and a put into an empty pool with all workers asleep wakes the head of
`waiters`, which then is a worker, because a client that sleeps has unfinished
work to wait for (`NoDeafClient`), and there is none. `SingleWorkerConserves`
says that with one worker no work waits beside a sleeping worker; with two that
is false, which is the finding NodeLostWakeup. `NodeImplementsContract` is
`Spec => Contract!Spec` under the mapping of pool to queue, sets of works to a
status, and `_is_stopped` to `stopped`.

**AutosaveProofs.** `AutosaveAssumption`: the three bounds are natural numbers,
so the theorems hold for any number of commands, failures and crashes. The
invariant follows one flush: a flush works on a version that was current and not
older than the recorded one (`Ahead`); as long as flushes never overlapped
(`Alone`), the temporary file has one writer, and from the replacement on what
is at `save_path` is that writer's text (`Own`). `Loadable` is
`SavedIsDurable` with an upper bound: the file is never newer than the game. A
kill between any two steps keeps all of it, since only `os.replace` touches
`save_path`. `Flushed` is what the exit needs: after the main thread's own flush
the autosave thread, wherever it is in its round, finds nothing to write.

**GameProofs.** `GameAssumption` types the catalog. `RestoresAll` is inductive
once it is said of the state and not of the file: the live nodes are the build
requests assembled anew (`Agree`), whatever became of role and name, and no two
cables share a port (`CablesApart`). A save is then refused for one reason only,
a port that the topology mentions and its node does not have, which is
`LoadableUnlessStranded`. `ChangesBumpVersion` goes through the commands one by
one.

`AssetsConserved` needs `Books`: each node has an entry in `origin`, so that a
build adds one term to a sum, and cables and nodes are finitely many. A
connect takes one cable from stock and puts one with its id between two ports,
and `WellFormed` says that the id is that of a cable. `InterfacesHold` is about names:
`add_cable` compares port names and knows no interface, so two cables at one
interface have two names there. On a host the name determines the interface. On
a switch interface *i* has the names between two partial sums, found as the
least index whose sum reaches the number, and there are as many as the interface
has ports. `RolesStrand` shows for every other command that
what the topology mentions afterwards is on a node that has it.

**RoutingProofs.** `RoutingAssumption` types nodes and plans, and says of routes
what `ip_network` does: it clears the bits behind the prefix, so that two
networks of one length to which an address belongs are the same one. With
`Sound`, which all edits keep (a port has one cable, a node one route to a
network), there is one best route and the `CHOOSE` in `Forward` has one
candidate.

The search: `Explored` says of the state in the midst of the loop that for
some distance *d* the queue holds first paths of *d + 1* ports and then paths of *d + 2*
ports, that all ports within *d* steps are visited and none farther than *d + 1*,
and that a port whose neighbors are not all visited is still queued. When the queue
is empty, the visited ports are closed under wires and so are all of
`Segment`; when the target is met, it was not within *d*. The rounds suffice because
paths taken out and paths queued together are as many as the visited ports.
`Segment` is all there is, since a set of ports that grows in each round is larger
than their number after that many rounds (`GrowthEnds`).

`HopsAreAWalk`: a layer 2 path changes its node only over a cable, so its nodes,
with the repetitions side by side dropped, are a walk, and so are two walks that
meet in a node. `ResolveIsForwarding`: what arrives was handed from node to node,
each with one best gateway. Conversely a node from which the packet arrives has
a least number of handovers, and `Forward` lowers it by one each time; so the
next node is never one that was visited, and the packet arrives before the
rounds are over. That is the reason why neither the visited set nor the
bound rejects a packet that would arrive.

**DelegationProofs.** `DelegationAssumption` types plans, runs, workers and
networks, and says that a job is submitted once: the ids that `run_workload`
draws are its own. `Placing` puts a work in one place until it has an outcome;
`JobPhases`, `Steps` and `Callings` say where each of the three nested
orders stands: a job is active while a worker executes its parent, it puts one
child at a time, a caller submits one job at a time. `InRole` is `WorkRunsInItsRole`
with the node that a caller has chosen under the lock and not yet put to, which
no change of role may pass. `WaitGraphIsFlat` follows without a look at the
graph: a parent is on a node with the role of an Application Server, and a child
never asks for that role. `ResultsAreTrue` needs an invariant of its own
(`Outcomes`) that carries each child's outcome through steps, job and result.

**DevicesProofs.** `DevicesAssumption`: finitely many threads, capacities that are
not zero (a node without a GPU has no GPU memory), works of one or two phases. A
program is well bracketed: every allocation is followed by its
release before anything else happens to memory, and a parent delegates outside
(`Bracketed`, shown of every executor's program and kept by each step, the
exceptional ones included). Each counter is then a sum over threads of what a
thread holds at its place in its program (`Balanced`), of which a step changes
one term. Capacity follows from the guards and sleeping threads from the
notifications once the counters are known. `TemporariesReleased` is the sum with
all terms zero.

Memory has a condition. When the sink raises in `MemoryModule.allocate`, the
memory stays counted (section 6). `CapacityKept` holds in that case too,
with at least what the threads hold; the other three theorems assume
`"memory" \notin Raising`, as the run does, since they are false without it.

**ProgramsProofs.** The assumptions of Process, Simulation and Session: units
share no threads; files hold lists of profiles, with lists of steps of at most
`MaxSteps`, whose ranges are pairs of numbers when the loader accepts them;
a configuration is a sequence of units that is not empty, a save a
sequence of units. The invariant has a part for the units, which only
`UnitEffect` can disturb (a put, a step of a worker, or steps that leave
works alone), and a part for the main thread. `Accounted` and `InHand` are the
bookkeeping that HardwareModule's two critical sections for a failure put at
risk: a failed work stays in the running ones until its thread has discarded
it. `Waited` holds because after `wait_all` has returned from a unit nothing is
put any more. `Fresh` says why two works never have one id. `Stopping` and `Helped` carry the
order of the shutdown, helper first and units in order, through
every place from which an error or an interrupt can enter it. `SoundRunsEnd`
adds `SoundRun`, about a simulation that nothing disturbs: a lookup in a sound
file comes to a profile, no range of it makes a draw raise, and every step finds
its node because a node that replaces another has the same id.

`UnitsKeepContract` and `NodesKeepContract` are, as NodeImplementsContract, step
simulations: `Keeps` and its lemmas show each movement of a work to be a step of
NodeContract for the unit it happens in and a stutter for every other.

The build shell needs little of the programs: at any time the draft is made of
parts of the catalog, each in its list (`KitType`), and `CatalogAssumption` says that
counts, lanes, generations and capacities are natural numbers. The rest is about
`NodeBuilder`. `CardsHaveSlots` needs that rounds which succeed give out slots that differ,
on any board. `VerdictsAreExact` compares with any placement at all. For slots
it is an exchange: whenever the waiting cards can be placed on the free slots, so can
the rest after the round, because a placement that gave the chosen slot to
another card gives that one the slot of the chosen card, which on a regular
board suits it as well. For sockets, connectors and memory, which a
player matches by type, it is counting: parts of a type have places of their
own exactly if they are not more than the places. And as the entries of
a memory type have one limit, the largest limit that the code compares
with is the limit of the slot.

Only model-checked, and why:

* liveness (`AcceptedWorkFinishes`, `StopTerminates`, `FailedStartLeavesNoThread`,
  `WaitForIsIndependent`, `StopEnds`, `AliveAutosaveCatchesUp`, and those of
  Delegation, Devices and Programs): fairness and ENABLED are outside the proof
  system. `StopReachesWorkers` is the part of
  `StopTerminates` that is about safety: no worker sleeps in a stopped node.

## 6. Disagreements between code and documents

Four runs end in a counterexample on purpose; `findings` in `PROJECT.json`
quotes the lines.

1. *Lost wakeup* (`node.py:139`). `put` uses `notify` on the Condition on which
   clients sleep too. When the oldest sleeper is a client in `wait_for`, it is
   woken, goes back to sleep, and an idle worker sleeps beside a queued work.
2. *Partial file* (`persistence.py:47`). `stop` flushes while the autosave thread may be in
   `flush`; both use one temporary path, and one may replace the save with the
   file the other one has truncated.
3. *Torn snapshot* (`game.py:175`). The inventory in a file may be newer than
   its nodes.
4. *Save that does not load* (`game.py:288`). A role change between switch and
   host renames ports under cables, addresses and routes.

Observed while modelling, outside the runs: after an overlapping exit the
autosave thread may put its older file over the one the exit wrote; one failed
write ends the autosave thread for good; after a role change an interface may
hold two cables under two names; and `MemoryModule.allocate` calls its sink
after it has counted the memory and before the executor's `try`, so with
`"memory"` added to `Raising` the property `TemporariesReleased` fails. On a
board with several memory entries of one type and different limits,
`_validate_memory` compares each module with the largest limit only, so two
modules that need the one large slot are accepted, and on a board with a newer
narrow and an older wide slot the greedy assignment refuses cards that fit in
another order; no board of the shipped catalog is of either kind, which is what
`Regular` says.

In the programs: `do_logs` is the only command of the main shell that splits its
argument outside a `try` clause, so an unbalanced quote after `logs` ends the
session (`shell.py:676`). A profile that cannot be drawn raises out of
`run_workload` and takes the results of the jobs before it along
(`game.py:428`), while a job that fails does not. The first of two nodes with one id is
built, started and forgotten by InfrastructureBuilder. A `print` that raises in
the `except` clause of HardwareModule's worker loses the work and ends the
worker.

## 7. Conditions on the properties

`SavedIsDurable` and `QuietExitSavesAll` assume that no two
flushes ran at once (`overlapped`), `LoadableUnlessStranded` and
`CablesFitUnlessStranded` that no port is stranded. Both conditions are exactly
what findings 2 and 4 are about: the runs show that nothing else goes wrong.
`VerdictIsExact` assumes a regular board, as above.

`NothingLeftBehind` assumes that `holes` is empty. The holes are places of the
code, each visible in a line, at which a thread outlives its program's care:

| Hole | Where | What is left |
|---|---|---|
| constructor | `module.py:54-55` | the workers of a HardwareModule that are started before one that fails, or before an interrupt |
| constructor | `node.py:92-106` | the worker of a Node whose start is interrupted before it counts as started: it is told to stop and not joined; all of them, when something strikes the clean-up as well |
| constructor | `infrastructure.py:71`, `main.py:163-168` | the nodes built before one whose constructor is cut short, or before an interrupt that comes ahead of the `try` clause |
| constructor | `game.py:335-342`, `game.py:869-874` | a node that is complete when an interrupt comes and is not recorded yet |
| constructor | `game.py:224-228`, `shell.py:464-466`, `main.py:265` | the loaded nodes, and the autosave thread once it has started, until the `try` of `main.py:266` |
| duplicate | `infrastructure.py:72` | the first of two nodes with one id |
| monitor | `main.py:172`, `monitor.py:35` | the monitor, when an interrupt comes between its start and the flag, or before the event is set |
| load | `game.py:903-907` | a staged node whose `stop` was interrupted; all that are left, when the interrupt comes between two of them |
| shutdown | `main.py:204`, `main.py:269` | whatever the last stop of all had not reached when it was interrupted or its flush failed |

The threads are daemons, so none of this keeps the process alive; the property
says that these are all such places, and that after any other error or interrupt
every thread has ended and none was skipped. An interrupt of a constructor is
an exception only if it leaves a thread: one that comes before the first thread of
a Node, or whose clean-up has joined those there were, records no hole.

`SoundRunsReturn` assumes a sound catalog (`FileSound`): ranges in order and
not below the least value, requirements and steps that are not empty, a kind
that exists, nodes that exist. The loader checks none of these.

## 8. Plan

The plan is carried out: all invariants that the runs check are proved. What would
follow next:

1. Liveness of Node and Delegation from the theorems about safety, should a
   prover for fairness become available. The facts it would rest on are there:
   `QueueHasTaker`, `StopReachesWorkers`, `SleepersDoNotFit`, `WaitGraphIsFlat`.
2. The entries of several limits in `_validate_memory`, if the catalog ever gets
   a board that is not regular.

## 9. Not modelled

Times, speeds and latencies (no property depends on them); the texts of
messages, addresses and ports; the statistics of devices apart from the total
written; the numbers a draw returns; what the monitor prints. The EventLog is a
bounded deque whose operations are single critical sections, and nothing reads
it but the listings. The runtime configuration is read and checked once by a
loader that keeps no state. Localization looks up texts. Of the shells, the
parsing of lines, help and listings are pure input and output; the commands
that edit the network or a name are modelled in Game and not again in
Session, because they touch neither threads nor draft. `snapshot`, `is_worked`
and `is_failed` only read.

A command is one step in Game. An interrupt inside one ends the session too, but
the flush on exit may then save what the command had done by then (`game.py:247`
under `hazards`); AssetsConserved is about refusals and not about that.

Apart from Node, no module has a type invariant among its checked
properties: types of the others follow from the actions, and the runs are kept
for properties that could fail.
