------------------------------- MODULE Process -------------------------------
(***************************************************************************)
(* What the two programs of main.py have in common: the units they start,  *)
(* each with its worker threads, one more thread beside them (the monitor  *)
(* or the autosave), and the main thread, which puts works, waits for all  *)
(* of a unit's and stops the units one after the other.                    *)
(*                                                                         *)
(* A unit is a Node, or a HardwareModule, which has the same Condition and *)
(* loop but records a failure in one critical section and takes the work   *)
(* off the running ones in another.  Each `with self._condition` block is  *)
(* an action.  Module Node has the constructor and wait_for in detail.     *)
(*                                                                         *)
(* An interrupt is a KeyboardInterrupt, which Python raises in the main    *)
(* thread only.                                                            *)
(***************************************************************************)
EXTENDS Workloads, FiniteSets

CONSTANTS
  Units,          \* Nodes and HardwareModules
  Crew,           \* their worker threads, a function of the unit
  Classic,        \* those that are HardwareModules
  Main,           \* the main thread
  Alone,          \* those that are put to without a node id
  Ids,            \* unit -> node id, a number in the order of ids
  Files,          \* workload files
  Kinds,          \* the kinds of workload a user asks for
  MaxJobs,        \* bound: works drawn in one process
  MaxSteps,       \* bound: steps of a work
  MaxFaults,      \* bound: failures of the system in one process
  MaxInterrupts   \* bound: interrupts of one process

ASSUME ProcessAssumption ==
  /\ \A u, v \in Units : u # v => Crew[u] \cap Crew[v] = {}
  /\ Classic \subseteq Alone /\ Alone \subseteq Units
  /\ Ids \in [Units -> Nat]
  /\ Main \notin UNION {Crew[u] : u \in Units}
  /\ MaxJobs \in Nat /\ MaxSteps \in Nat \ {0} /\ MaxFaults \in Nat /\ MaxInterrupts \in Nat
  \* what json.load gives: lists of profiles, and lists of steps
  /\ \A f \in Files :
       /\ f.profiles \in Seq(ToSet(f.profiles))
       /\ f.infrastructure_profiles \in Seq(ToSet(f.infrastructure_profiles))
       /\ \A profile \in ToSet(f.profiles) \cup ToSet(f.infrastructure_profiles) :
            "steps" \in DOMAIN profile =>
              /\ profile.steps \in Seq(ToSet(profile.steps))
              /\ Len(profile.steps) <= MaxSteps
  \* and what _to_range makes of a range
  /\ \A f \in Files : Loads(f) =>
       \A profile \in ToSet(f.profiles) \cup ToSet(f.infrastructure_profiles) :
         \A step \in ToSet(StepsOf(profile)) :
           \A r \in RangesOf(step.requirements) : r[2] \in Int \X Int

Threads == UNION {Crew[u] : u \in Units}

\* A submission: its id, its step, and whether its unit can execute it at all.
Works == (1 .. MaxJobs) \X (0 .. MaxSteps) \X BOOLEAN

VARIABLES
  pool, current, worked, failed, stopped,  \* of each unit, as in Node
  asleep,     \* of each unit, the threads in Condition.wait, oldest first
  place,      \* of each worker: "new", "ready", "running", "failing", "ended"
  held,       \* of each worker, {} or the set of the work it executes
  accepted,   \* history: the works put into each unit
  helper,     \* the monitor or autosave thread: "none", "running", "asked", "ended"
  owned,      \* the units the program knows, in order
  pc, k,      \* the main thread, and its position in a loop over the units
  error,      \* what is being raised: "none", "error" or "interrupt"
  file, kind, \* the workload file read at the start, and the kind asked for
  id,         \* of the next work
  holes,      \* history: the places where a unit or thread got out of hand
  faults, interrupts

works == <<pool, current, worked, failed, accepted>>
crews == <<place, held>>
units == <<pool, current, worked, failed, stopped, asleep, place, held, accepted>>
main == <<pc, k, error>>
draws == <<file, kind, id>>
bounds == <<faults, interrupts>>
processVars == <<pool, current, worked, failed, stopped, asleep, place, held, accepted,
                 helper, owned, pc, k, error, file, kind, id, holes, faults, interrupts>>

ProcessInit ==
  /\ pool = [u \in Units |-> <<>>]
  /\ current = [u \in Units |-> {}]
  /\ worked = [u \in Units |-> {}]
  /\ failed = [u \in Units |-> {}]
  /\ stopped = [u \in Units |-> FALSE]
  /\ asleep = [u \in Units |-> <<>>]
  /\ place = [t \in Threads |-> "new"]
  /\ held = [t \in Threads |-> {}]
  /\ accepted = [u \in Units |-> {}]
  /\ helper = "none"
  /\ owned = <<>>
  /\ k = 1
  /\ error = "none"
  /\ file \in {f \in Files : Loads(f)}
  /\ kind \in Kinds
  /\ id = 1
  /\ holes = {}
  /\ faults = 0 /\ interrupts = 0

OnlyQueued(u) == pool[u] # <<>>         \* faulty: forgets the running works
Busy(u) == current[u] # {} \/ pool[u] # <<>>
Asleep(t, u) == Contains(asleep[u], t)
Wait(t, u) == asleep' = [asleep EXCEPT ![u] = Append(@, t)]
NotifyAll(u) == asleep' = [asleep EXCEPT ![u] = <<>>]
Goto(place_) == pc' = place_ /\ k' = 1

Fault == faults < MaxFaults /\ faults' = faults + 1 /\ UNCHANGED interrupts
Interrupted == interrupts < MaxInterrupts /\ interrupts' = interrupts + 1 /\ UNCHANGED faults

\* Failures and interrupts that meet in one constructor, a number of each.
Disruptions == {<<1, 0>>, <<0, 1>>, <<1, 1>>, <<0, 2>>}
Raised(d) == (IF d[1] > 0 THEN {"error"} ELSE {}) \cup (IF d[2] > 0 THEN {"interrupt"} ELSE {})

-----------------------------------------------------------------------------
(* The workers of a unit                                                   *)

Sleeps(u, t) ==
  /\ place[t] = "ready" /\ ~Asleep(t, u)
  /\ pool[u] = <<>> /\ ~stopped[u]
  /\ Wait(t, u)
  /\ UNCHANGED <<works, crews, stopped>>

Leaves(u, t) ==
  /\ place[t] = "ready" /\ ~Asleep(t, u)
  /\ pool[u] = <<>> /\ stopped[u]
  /\ place' = [place EXCEPT ![t] = "ended"]
  /\ UNCHANGED <<works, held, stopped, asleep>>

Takes(u, t) ==
  /\ place[t] = "ready" /\ ~Asleep(t, u)
  /\ pool[u] # <<>>
  /\ pool' = [pool EXCEPT ![u] = Tail(@)]
  /\ current' = [current EXCEPT ![u] = @ \cup {Head(pool[u])}]
  /\ place' = [place EXCEPT ![t] = "running"]
  /\ held' = [held EXCEPT ![t] = {Head(pool[u])}]
  /\ UNCHANGED <<worked, failed, accepted, stopped, asleep>>

\* _execute, or the executor of the Node, returned.
Succeeds(u, t) ==
  /\ place[t] = "running"
  /\ \A w \in held[t] : w[3]
  /\ current' = [current EXCEPT ![u] = @ \ held[t]]
  /\ worked' = [worked EXCEPT ![u] = @ \cup held[t]]
  /\ NotifyAll(u)
  /\ place' = [place EXCEPT ![t] = "ready"]
  /\ held' = [held EXCEPT ![t] = {}]
  /\ UNCHANGED <<pool, failed, accepted, stopped>>

\* It raised: a Node records the failure as it records a success.
FailsAtOnce(u, t) ==
  /\ place[t] = "running" /\ u \notin Classic
  /\ current' = [current EXCEPT ![u] = @ \ held[t]]
  /\ failed' = [failed EXCEPT ![u] = @ \cup held[t]]
  /\ NotifyAll(u)
  /\ place' = [place EXCEPT ![t] = "ready"]
  /\ held' = [held EXCEPT ![t] = {}]
  /\ UNCHANGED <<pool, worked, accepted, stopped>>

\* Faulty: the except clause discards the work instead of recording it.
Forgets(u, t) ==
  /\ place[t] = "running" /\ u \in Classic
  /\ current' = [current EXCEPT ![u] = @ \ held[t]]
  /\ place' = [place EXCEPT ![t] = "failing"]
  /\ UNCHANGED <<pool, worked, failed, accepted, held, stopped, asleep>>

\* A HardwareModule first records it, in the except clause...
RecordsFailure(u, t) ==
  /\ place[t] = "running" /\ u \in Classic
  /\ failed' = [failed EXCEPT ![u] = @ \cup held[t]]
  /\ place' = [place EXCEPT ![t] = "failing"]
  /\ UNCHANGED <<pool, current, worked, accepted, held, stopped, asleep>>

\* ...and takes it off the running works in the finally clause.
Discards(u, t) ==
  /\ place[t] = "failing"
  /\ current' = [current EXCEPT ![u] = @ \ held[t]]
  /\ NotifyAll(u)
  /\ place' = [place EXCEPT ![t] = "ready"]
  /\ held' = [held EXCEPT ![t] = {}]
  /\ UNCHANGED <<pool, worked, failed, accepted, stopped>>

Executes(u, t) == Succeeds(u, t) \/ FailsAtOnce(u, t) \/ RecordsFailure(u, t)

Worker(u, t) ==
  /\ Sleeps(u, t) \/ Leaves(u, t) \/ Takes(u, t) \/ Executes(u, t) \/ Discards(u, t)
  /\ UNCHANGED <<helper, owned, main, draws, holes, bounds>>

-----------------------------------------------------------------------------
(* The monitor and the autosave thread loop until they are asked to stop;  *)
(* an exception in the loop ends them without anyone noticing.             *)

HelperEnds ==
  /\ helper = "asked"
  /\ helper' = "ended"
  /\ UNCHANGED <<units, owned, main, draws, holes, bounds>>

HelperDies ==
  /\ helper = "running"
  /\ helper' = "ended"
  /\ Fault
  /\ UNCHANGED <<units, owned, main, draws, holes>>

AskHelper == helper' = IF helper = "running" THEN "asked" ELSE helper

-----------------------------------------------------------------------------
(* What the main thread does to a unit: the constructor, and put.          *)

Launch(u) ==
  /\ place' = [t \in Threads |-> IF t \in Crew[u] THEN "ready" ELSE place[t]]
  /\ UNCHANGED <<works, held, stopped, asleep>>

\* A constructor that is cut short before the program knows the unit. A
\* HardwareModule leaves the threads it has started to themselves. A Node tells
\* them to stop and joins them, except one whose start is interrupted, which
\* is not among the started ones yet; and it has nothing to clean up when the
\* interrupt finds it complete. A second disruption strikes that clean-up.
CutShort(u, d, alone) ==
  /\ faults + d[1] <= MaxFaults /\ faults' = faults + d[1]
  /\ interrupts + d[2] <= MaxInterrupts /\ interrupts' = interrupts + d[2]
  /\ d[1] + d[2] > 1 => u \notin Classic
  /\ \E started \in SUBSET Crew[u], told \in BOOLEAN :
       /\ d[1] > 0 => started # Crew[u]
       /\ told => u \notin Classic /\ started # {}
       /\ u \notin Classic /\ started # {} /\ d[1] + d[2] = 1 =>
            d[2] = 1 /\ IF told THEN Cardinality(started) = 1 ELSE started = Crew[u]
       /\ place' = [t \in Threads |-> IF t \in started THEN "ready" ELSE place[t]]
       /\ stopped' = [stopped EXCEPT ![u] = @ \/ told]
       /\ holes' = IF started = {} /\ alone THEN holes ELSE holes \cup {"constructor"}
  /\ UNCHANGED <<works, held, asleep>>

\* put: no caller puts a work into a stopped unit here.
Put(u, w) ==
  /\ ~stopped[u]
  /\ pool' = [pool EXCEPT ![u] = Append(@, w)]
  /\ accepted' = [accepted EXCEPT ![u] = @ \cup {w}]
  /\ asleep' = [asleep EXCEPT ![u] = IF @ = <<>> THEN @ ELSE Tail(@)]
  /\ UNCHANGED <<current, worked, failed, crews, stopped>>

-----------------------------------------------------------------------------
(* The main thread goes through the units it owns: wait_all on each, or    *)
(* stop, which joins the workers.  What comes after the last unit is up to *)
(* the program.                                                            *)

Here == owned[k]
AtUnit == k <= Len(owned)

WaitSleeps ==
  /\ pc = "wait" /\ AtUnit
  /\ Busy(Here) /\ ~Asleep(Main, Here)
  /\ Wait(Main, Here)
  /\ UNCHANGED <<works, crews, stopped, helper, owned, main, draws, holes, bounds>>

WaitReturns ==
  /\ pc = "wait" /\ AtUnit
  /\ ~Busy(Here) /\ ~Asleep(Main, Here)
  /\ k' = k + 1
  /\ UNCHANGED <<units, helper, owned, pc, error, draws, holes, bounds>>

\* Faulty: sets the flag and wakes nobody.
StopQuietly ==
  /\ pc = "stop" /\ AtUnit
  /\ stopped' = [stopped EXCEPT ![Here] = TRUE]
  /\ pc' = "join"
  /\ UNCHANGED <<works, crews, asleep, helper, owned, k, error, draws, holes, bounds>>

StopUnit ==
  /\ pc = "stop" /\ AtUnit
  /\ stopped' = [stopped EXCEPT ![Here] = TRUE]
  /\ NotifyAll(Here)
  /\ pc' = "join"
  /\ UNCHANGED <<works, crews, helper, owned, k, error, draws, holes, bounds>>

JoinUnit ==
  /\ pc = "join"
  /\ \A t \in Crew[Here] : place[t] = "ended"
  /\ pc' = "stop" /\ k' = k + 1
  /\ UNCHANGED <<units, helper, owned, error, draws, holes, bounds>>

JoinHelper(next) ==
  /\ pc = "joinHelper"
  /\ helper = "ended"
  /\ Goto(next)
  /\ UNCHANGED <<units, helper, owned, error, draws, holes, bounds>>

\* An interrupt ends Condition.wait; the thread gets the lock and leaves.
LeaveWait == asleep' = [u \in Units |-> SelectSeq(asleep[u], LAMBDA t : t # Main)]

\* What goes on whatever the program does.
Background ==
  \/ \E u \in Units : \E t \in Crew[u] : Worker(u, t)
  \/ HelperEnds \/ HelperDies
  \/ WaitSleeps \/ WaitReturns \/ StopUnit \/ JoinUnit

-----------------------------------------------------------------------------
(* Every unit is a node of NodeContract as far as works go: a failure that *)
(* a HardwareModule has recorded counts as running until it is discarded.  *)

Status(u) ==
  [w \in Works |-> IF w \in current[u] THEN "running"
                   ELSE IF w \in failed[u] THEN "failed"
                   ELSE IF w \in worked[u] THEN "completed"
                   ELSE IF Contains(pool[u], w) THEN "queued" ELSE "new"]

Contract(u) == INSTANCE NodeContract WITH
  Clients <- {}, Roles <- {"its own"}, NoRole <- "none", role <- "its own",
  queue <- pool[u], status <- Status(u), stopped <- stopped[u], answer <- <<>>,
  acceptedAs <- [w \in Works |-> IF w \in accepted[u] THEN "its own" ELSE "none"]

UnitsBegin == \A u \in Units : Contract(u)!Init
UnitsStep ==
  \A u \in Units :
    \/ UNCHANGED <<pool[u], current[u], worked[u], failed[u], stopped[u], accepted[u]>>
    \/ [Contract(u)!Next]_(Contract(u)!vars)
UnitsKeepContract == UnitsBegin /\ [][UnitsStep]_units

(* When wait_all has returned from a unit, each of the works put into it   *)
(* is recorded, with one outcome: nothing is running, queued or between    *)
(* the two critical sections of a HardwareModule, which clears the running *)
(* works last for that reason.                                             *)
WaitedMeansRecorded ==
  pc = "wait" => \A i \in 1 .. k - 1 :
    LET u == owned[i]
    IN  /\ accepted[u] = worked[u] \cup failed[u]
        /\ worked[u] \cap failed[u] = {}
        /\ \A t \in Crew[u] : place[t] \notin {"running", "failing"}
==============================================================================
