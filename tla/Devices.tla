------------------------------- MODULE Devices ------------------------------
(***************************************************************************)
(* The devices of one Node and the role executors that use them.  Worker   *)
(* threads execute works side by side; an execution is a program of device *)
(* operations in the order of its role, those without a need left out, and *)
(* the finally clause that releases the memory.  An operation can raise:   *)
(* a need above the capacity, a full storage, or the sink a device reports *)
(* to.  Each critical section of a device is one action; a thread asleep   *)
(* in Condition.wait runs its test again when its device notifies.         *)
(***************************************************************************)
EXTENDS Naturals, SequencesExt, FiniteSets, Collections

CONSTANTS
  Threads,       \* worker threads of the Node
  Works, NoWork,
  Role,          \* the role each work is accepted under
  Phases,        \* per work its ResourceRequirements, records as in NoNeeds;
                 \* a parent of the Application Server has two, pre and post
  Memory, Cores, Frequency, GpuMemory, Storage, \* capacities
  QueueDepth,    \* of "storage" and of "nic"
  Raising        \* devices whose sink may raise

Kinds == {"storage", "nic"}
NoNeeds == [memory |-> 0, clock |-> 0, gpu |-> 0, read |-> 0, write |-> 0,
            ingress |-> 0, egress |-> 0]

Executors == {"application_server", "database_server", "storage_server",
              "network_switch", "router", "gpu_worker", "unassigned"}

ASSUME DevicesAssumption ==
  /\ IsFiniteSet(Threads)
  /\ NoWork \notin Works
  /\ Role \in [Works -> Executors]
  /\ \A c \in {Memory, Cores, Frequency, Storage} : c \in Nat \ {0}
  /\ GpuMemory \in Nat     \* 0: the Node has no GPU
  /\ QueueDepth \in [Kinds -> Nat \ {0}]
  /\ \A w \in Works : /\ Phases[w] \in Seq([DOMAIN NoNeeds -> Nat])
                      /\ Len(Phases[w]) \in {1, 2}
  /\ Raising \subseteq {"memory", "cpu", "gpu"} \cup Kinds

VARIABLES
  task,     \* the work each thread executes
  todo,     \* what is left of its program, a sequence of <<operation, need>>
  at,       \* how far it is in the first operation
  failing,  \* an exception is on its way out of the executor
  asleep,   \* threads in Condition.wait
  used,     \* MemoryModule._used
  cores,    \* Processor._active_cores
  clock,    \* Processor._used_clock_hz
  gpuUsed,  \* GpuDevice._memory_used
  stored,   \* StorageDevice._used
  written,  \* StorageDevice._total_written
  slots,    \* the free _queue_slots of the storage and of the interface
  outcome   \* what the Node records of each work

counters == <<used, cores, clock, gpuUsed, stored, written, slots>>
vars == <<task, todo, at, failing, asleep, used, cores, clock, gpuUsed,
          stored, written, slots, outcome>>

Init ==
  /\ task = [t \in Threads |-> NoWork]
  /\ todo = [t \in Threads |-> <<>>]
  /\ at = [t \in Threads |-> "ask"]
  /\ failing = [t \in Threads |-> FALSE]
  /\ asleep = {}
  /\ used = 0 /\ cores = 0 /\ clock = 0 /\ gpuUsed = 0
  /\ stored = 0 /\ written = 0
  /\ slots = QueueDepth
  /\ outcome = [w \in Works |-> "none"]

-----------------------------------------------------------------------------
(* Programs: the operations in the order of each RoleExecutor.             *)

\* An operation that nothing is needed of is left out.
Op(name, need) == IF need > 0 THEN <<<<name, need>>>> ELSE <<>>

\* The steps in the try whose finally clause releases the memory.
Allocating(needs, steps) ==
  Op("allocate", needs.memory) \o steps \o Op("release", needs.memory)

Phase(role, needs) ==
  LET receive == Op("receive", needs.ingress)
      send == Op("send", needs.egress)
      read == Op("read", needs.read)
      write == Op("write", needs.write)
      cpu == Op("cpu", needs.clock)
      gpu == Op("gpu", needs.gpu)
  IN  CASE role \in {"application_server", "database_server"} ->
             receive \o Allocating(needs, read \o cpu \o write \o send)
        [] role = "storage_server" -> receive \o read \o write \o send
        [] role = "network_switch" -> receive \o send
        [] role = "router" -> receive \o cpu \o send
        [] role = "gpu_worker" -> Allocating(needs, read \o gpu \o cpu \o write)
        [] role = "unassigned" -> <<>>

\* Faulty: the memory of a parent is released when the parent ends.
ReleaseAtEnd(w) ==
  LET full == FoldLeft(LAMBDA done, needs : done \o Phase(Role[w], needs), <<>>, Phases[w])
      early(step) == step[1] # "release"
  IN  SelectSeq(full, early) \o (IF Len(Phases[w]) = 2 THEN <<<<"delegate", 0>>>> ELSE <<>>)
        \o SelectSeq(full, LAMBDA step : ~early(step))

\* What an execution of w does; "refuse" is the UnassignedExecutor.
Program(w) ==
  IF Role[w] = "unassigned" THEN <<<<"refuse", 0>>>>
  ELSE IF Len(Phases[w]) = 2
    THEN Phase(Role[w], Phases[w][1]) \o <<<<"delegate", 0>>>> \o Phase(Role[w], Phases[w][2])
    ELSE Phase(Role[w], Phases[w][1])

Doing(t, op, stage) ==
  /\ todo[t] # <<>>
  /\ todo[t][1][1] = op
  /\ at[t] = stage
  /\ t \notin asleep
Need(t) == todo[t][1][2]

Stage(t, stage) == at' = [at EXCEPT ![t] = stage] /\ UNCHANGED <<todo, failing>>

Advance(t) ==
  /\ todo' = [todo EXCEPT ![t] = Tail(@)]
  /\ at' = [at EXCEPT ![t] = "ask"]
  /\ UNCHANGED failing

\* The release of the try that the steps begin in: their next operation on
\* memory, if that is a release.
Closing(steps) ==
  {i \in DOMAIN steps : /\ steps[i][1] = "release"
                        /\ \A j \in 1 .. i - 1 : steps[j][1] \notin {"allocate", "release"}}

Closer(steps) == steps[CHOOSE i \in Closing(steps) : TRUE]

\* What an exception in the first of the steps leaves to be done: inside the
\* try, the finally clause.
Finally(steps) ==
  IF steps[1][1] = "release" \/ Closing(steps) = {} THEN <<>>
  ELSE <<Closer(steps)>>

Raise(t) ==
  /\ todo' = [todo EXCEPT ![t] = Finally(@)]
  /\ at' = [at EXCEPT ![t] = "ask"]
  /\ failing' = [failing EXCEPT ![t] = TRUE]

\* The device reports to its sink.
Report(t, device) == Advance(t) \/ (device \in Raising /\ Raise(t))

NotifyAll(op) == asleep' = {t \in asleep : todo[t][1][1] # op}
Sleep(t) == asleep' = asleep \cup {t}

-----------------------------------------------------------------------------
(* Node._run around the executor                                           *)

\* The works of one Node run under one role at a time (NodeProofs, RoleStable).
Begin(t, w) ==
  /\ task[t] = NoWork
  /\ outcome[w] = "none"
  /\ \A u \in Threads : task[u] # NoWork => task[u] # w /\ Role[task[u]] = Role[w]
  /\ task' = [task EXCEPT ![t] = w]
  /\ todo' = [todo EXCEPT ![t] = Program(w)]
  /\ UNCHANGED <<at, failing, asleep, counters, outcome>>

End(t) ==
  /\ task[t] # NoWork /\ todo[t] = <<>>
  /\ outcome' = [outcome EXCEPT ![task[t]] = IF failing[t] THEN "failed" ELSE "completed"]
  /\ task' = [task EXCEPT ![t] = NoWork]
  /\ failing' = [failing EXCEPT ![t] = FALSE]
  /\ UNCHANGED <<todo, at, asleep, counters>>

Refuse(t) ==
  /\ Doing(t, "refuse", "ask")
  /\ Raise(t)
  /\ UNCHANGED <<task, asleep, counters, outcome>>

\* The children of a parent end, or one of them fails.
Delegate(t) ==
  /\ Doing(t, "delegate", "ask")
  /\ Advance(t) \/ Raise(t)
  /\ UNCHANGED <<task, asleep, counters, outcome>>

-----------------------------------------------------------------------------
(* MemoryModule; its sink is called with the lock held                     *)

Allocate(t) ==
  /\ Doing(t, "allocate", "ask")
  /\ \/ /\ Need(t) > Memory
        /\ Raise(t)
        /\ UNCHANGED <<asleep, used>>
     \/ /\ Need(t) <= Memory /\ used + Need(t) > Memory
        /\ Sleep(t)
        /\ UNCHANGED <<todo, at, failing, used>>
     \/ /\ used + Need(t) <= Memory
        /\ used' = used + Need(t)
        /\ Report(t, "memory")
        /\ UNCHANGED asleep
  /\ UNCHANGED <<task, cores, clock, gpuUsed, stored, written, slots, outcome>>

Release(t) ==
  /\ Doing(t, "release", "ask")
  /\ used' = used - Need(t)
  /\ \/ Advance(t) /\ NotifyAll("allocate")
     \/ "memory" \in Raising /\ Raise(t) /\ UNCHANGED asleep
  /\ UNCHANGED <<task, cores, clock, gpuUsed, stored, written, slots, outcome>>

-----------------------------------------------------------------------------
(* Processor                                                               *)

LesserOf(a, b) == IF a < b THEN a ELSE b
ClockFor(hz) == LesserOf(hz, Cores * Frequency)

\* Faulty: a started core does not count.
CoresDown(hz) == ClockFor(hz) \div Frequency
\* _cores_for_clock_usage of the allocated clock
CoresFor(hz) == (ClockFor(hz) + Frequency - 1) \div Frequency

CpuAcquire(t) ==
  /\ Doing(t, "cpu", "ask")
  /\ IF cores + CoresFor(Need(t)) > Cores
       THEN Sleep(t) /\ UNCHANGED <<cores, clock, todo, at, failing>>
       ELSE /\ cores' = cores + CoresFor(Need(t))
            /\ clock' = clock + ClockFor(Need(t))
            /\ Stage(t, "hold")
            /\ UNCHANGED asleep
  /\ UNCHANGED <<task, used, gpuUsed, stored, written, slots, outcome>>

CpuEnd(t) ==
  /\ Doing(t, "cpu", "hold")
  /\ cores' = cores - CoresFor(Need(t))
  /\ clock' = clock - ClockFor(Need(t))
  /\ NotifyAll("cpu")
  /\ Report(t, "cpu")
  /\ UNCHANGED <<task, used, gpuUsed, stored, written, slots, outcome>>

-----------------------------------------------------------------------------
(* GpuDevice; the Node without one raises too                              *)

GpuAcquire(t) ==
  /\ Doing(t, "gpu", "ask")
  /\ \/ Need(t) > GpuMemory /\ Raise(t) /\ UNCHANGED <<asleep, gpuUsed>>
     \/ /\ Need(t) <= GpuMemory /\ gpuUsed + Need(t) > GpuMemory
        /\ Sleep(t)
        /\ UNCHANGED <<todo, at, failing, gpuUsed>>
     \/ /\ gpuUsed + Need(t) <= GpuMemory
        /\ gpuUsed' = gpuUsed + Need(t)
        /\ Stage(t, "hold")
        /\ UNCHANGED asleep
  /\ UNCHANGED <<task, used, cores, clock, stored, written, slots, outcome>>

\* Faulty: does not notify.
GpuEndQuietly(t) ==
  /\ Doing(t, "gpu", "hold")
  /\ gpuUsed' = gpuUsed - Need(t)
  /\ Report(t, "gpu")
  /\ UNCHANGED <<asleep, task, used, cores, clock, stored, written, slots, outcome>>

GpuEnd(t) ==
  /\ Doing(t, "gpu", "hold")
  /\ gpuUsed' = gpuUsed - Need(t)
  /\ NotifyAll("gpu")
  /\ Report(t, "gpu")
  /\ UNCHANGED <<task, used, cores, clock, stored, written, slots, outcome>>

-----------------------------------------------------------------------------
(* StorageDevice and NetworkInterface.  A write reserves the space first,  *)
(* then transfers, then books it, or gives it back when the transfer       *)
(* raised; each of these takes the lock anew.                              *)

KindOf(op) == IF op \in {"read", "write"} THEN "storage" ELSE "nic"

Reserve(t) ==
  /\ Doing(t, "write", "ask")
  /\ IF stored + Need(t) > Storage
       THEN Raise(t) /\ UNCHANGED stored
       ELSE stored' = stored + Need(t) /\ Stage(t, "slot")
  /\ UNCHANGED <<task, asleep, used, cores, clock, gpuUsed, written, slots, outcome>>

\* The semaphore admits the transfer.
TransferStart(t) ==
  /\ \/ Doing(t, "write", "slot")
     \/ \E op \in {"read", "receive", "send"} : Doing(t, op, "ask")
  /\ LET kind == KindOf(todo[t][1][1]) IN
       /\ slots[kind] > 0
       /\ slots' = [slots EXCEPT ![kind] = @ - 1]
  /\ Stage(t, "hold")
  /\ UNCHANGED <<task, asleep, used, cores, clock, gpuUsed, stored, written, outcome>>

TransferEnd(t) ==
  /\ \E op \in {"read", "write", "receive", "send"} : Doing(t, op, "hold")
  /\ LET op == todo[t][1][1] IN
       /\ slots' = [slots EXCEPT ![KindOf(op)] = @ + 1]
       /\ IF op # "write" THEN Report(t, KindOf(op))
          ELSE Stage(t, "book") \/ ("storage" \in Raising /\ Stage(t, "undo"))
  /\ UNCHANGED <<task, asleep, used, cores, clock, gpuUsed, stored, written, outcome>>

Book(t) ==
  /\ Doing(t, "write", "book")
  /\ written' = written + Need(t)
  /\ Advance(t)
  /\ UNCHANGED <<task, asleep, used, cores, clock, gpuUsed, stored, slots, outcome>>

\* Faulty: the space of a failed write stays taken.
UndoNothing(t) ==
  /\ Doing(t, "write", "undo")
  /\ Raise(t)
  /\ UNCHANGED <<stored, task, asleep, used, cores, clock, gpuUsed, written, slots, outcome>>

Undo(t) ==
  /\ Doing(t, "write", "undo")
  /\ stored' = stored - Need(t)
  /\ Raise(t)
  /\ UNCHANGED <<task, asleep, used, cores, clock, gpuUsed, written, slots, outcome>>

-----------------------------------------------------------------------------
Step(t) ==
  \/ Refuse(t) \/ Delegate(t) \/ Allocate(t) \/ Release(t)
  \/ CpuAcquire(t) \/ CpuEnd(t) \/ GpuAcquire(t) \/ GpuEnd(t)
  \/ Reserve(t) \/ TransferStart(t) \/ TransferEnd(t) \/ Book(t) \/ Undo(t)
  \/ End(t)

\* Every work has been executed.
AllDone == (\A w \in Works : outcome[w] # "none") /\ UNCHANGED vars

Next ==
  \/ \E t \in Threads, w \in Works : Begin(t, w)
  \/ \E t \in Threads : Step(t)
  \/ AllDone

Spec == Init /\ [][Next]_vars

\* Every thread that can run does, and transfers, computations and children
\* end.
FairSpec == Spec /\ \A t \in Threads : WF_vars(Step(t))

-----------------------------------------------------------------------------
(* No device is used beyond what it has, however the works interleave, and *)
(* no semaphore is released more often than it was acquired (for a         *)
(* BoundedSemaphore that is an error).                                     *)
WithinCapacity ==
  /\ used <= Memory /\ gpuUsed <= GpuMemory /\ stored <= Storage
  /\ cores <= Cores /\ clock <= cores * Frequency
  /\ \A kind \in Kinds : slots[kind] <= QueueDepth[kind]

In(t, ops, stages) == todo[t] # <<>> /\ todo[t][1][1] \in ops /\ at[t] \in stages

\* What the threads hold: the memory of the try they are in, the need of the
\* operation they have taken a device for, and a slot.
MemoryHeld ==
  [t \in Threads |-> IF Closing(todo[t]) = {} THEN 0 ELSE Closer(todo[t])[2]]
Held(ops, stages) == [t \in Threads |-> IF In(t, ops, stages) THEN Need(t) ELSE 0]
ClockHeld == [t \in Threads |-> IF In(t, {"cpu"}, {"hold"}) THEN ClockFor(Need(t)) ELSE 0]
CoresHeld == [t \in Threads |-> IF In(t, {"cpu"}, {"hold"}) THEN CoresFor(Need(t)) ELSE 0]
SlotsHeld(ops) == [t \in Threads |-> IF In(t, ops, {"hold"}) THEN 1 ELSE 0]

(* Every counter of every device is the sum of what the threads hold at    *)
(* the place they have reached, failing ones included: nothing leaks, and  *)
(* nothing is given back twice.  What the storage holds is what was        *)
(* written and what is being written.                                      *)
ReservationsAreHeld ==
  /\ used = SumOf(MemoryHeld)
  /\ cores = SumOf(CoresHeld)
  /\ clock = SumOf(ClockHeld)
  /\ gpuUsed = SumOf(Held({"gpu"}, {"hold"}))
  /\ stored = written + SumOf(Held({"write"}, {"slot", "hold", "book", "undo"}))
  /\ slots["storage"] + SumOf(SlotsHeld({"read", "write"})) = QueueDepth["storage"]
  /\ slots["nic"] + SumOf(SlotsHeld({"receive", "send"})) = QueueDepth["nic"]

(* Whoever sleeps at a device has to: what it needs is not free.  A thread *)
(* that failed wakes the others as one that succeeded does.                *)
SleepersDoNotFit ==
  \A t \in asleep :
    \/ In(t, {"allocate"}, {"ask"}) /\ used + Need(t) > Memory
    \/ In(t, {"cpu"}, {"ask"}) /\ cores + CoresFor(Need(t)) > Cores
    \/ In(t, {"gpu"}, {"ask"}) /\ gpuUsed + Need(t) > GpuMemory

Bare(t) == task[t] = NoWork \/ In(t, {"delegate"}, {"ask"})

(* docs/design/workload-execution.md:40-42 and 45-48: whatever a work took *)
(* for a time is given back, also when it failed, and a parent holds       *)
(* nothing of its Node while it waits for its children.                    *)
TemporariesReleased ==
  (\A t \in Threads : Bare(t)) =>
    /\ used = 0 /\ cores = 0 /\ clock = 0 /\ gpuUsed = 0
    /\ slots = QueueDepth
    /\ stored = written

(* A work that was begun ends: no works wait for one another's devices.    *)
BegunWorkEnds ==
  \A w \in Works : (\E t \in Threads : task[t] = w) ~> outcome[w] # "none"
=============================================================================
