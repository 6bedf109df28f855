-------------------------------- MODULE Node --------------------------------
(***************************************************************************)
(* A Node: a work pool served by worker threads, and the clients that put  *)
(* work, wait for it, change the role and stop the Node.  Everything the   *)
(* threads share is guarded by ONE Condition, on which workers and waiting *)
(* clients sleep together; every critical section of the code is one       *)
(* action, because nothing inside it blocks except Condition.wait itself.  *)
(*                                                                         *)
(* Condition.wait releases the lock and queues the thread in `waiters`;    *)
(* notify wakes the thread that has waited longest, notify_all all of      *)
(* them.  A thread that was woken runs its loop test again.                *)
(***************************************************************************)
EXTENDS Naturals, SequencesExt

CONSTANTS
  Workers,  (* worker threads of the Node                          *)
  Clients,  (* other threads: game commands, dispatching workers   *)
  Works,    (* submissions; ids are fresh, so each is put once     *)
  Roles,    (* NodeRole members                                    *)
  NoWork, NoRole,
  Slow      (* works whose execution is not assumed to terminate   *)

ASSUME NodeAssumption ==
  /\ Workers # {}
  /\ Workers \cap Clients = {}
  /\ NoWork \notin Works
  /\ NoRole \notin Roles
  /\ Slow \subseteq Works

VARIABLES
  role,        \* _role
  executor,    \* _executor, named by the role it was built for
  pool,        \* _work_pool
  current,     \* _current_works
  worked,      \* _worked (and the keys of _results)
  failed,      \* keys of _failed
  isStopped,   \* _is_stopped
  waiters,     \* the threads asleep in Condition.wait, oldest first
  ctor,        \* progress of __init__: "starting", "ready", "cleanup", "raised"
  pc,          \* where each thread is
  job,         \* the work_info local of _run; the argument of wait_for
  captured,    \* the executor local of _run
  answer,      \* what a client's last wait_for returned, <<>> before the first
  acceptedAs   \* history: the role when put accepted the work

shared == <<role, executor, pool, current, worked, failed, isStopped>>
vars == <<role, executor, pool, current, worked, failed, isStopped,
          waiters, ctor, pc, job, captured, answer, acceptedAs>>

Threads == Workers \cup Clients
Outcomes == {"completed", "failed"}

Asleep(t) == Contains(waiters, t)
Pooled(w) == Contains(pool, w)
OnlyPooled(w) == Pooled(w)              \* faulty: forgets the running works
Unfinished(w) == w \in current \/ Pooled(w)
OnlyRunning == current # {}             \* faulty: forgets the queued works
IsBusy == current # {} \/ pool # <<>>

Wait(t) == waiters' = Append(waiters, t)
NoNotify == UNCHANGED waiters           \* faulty: wakes nobody
Notify == waiters' = IF waiters = <<>> THEN waiters ELSE Tail(waiters)
NotifyAll == waiters' = <<>>

Init ==
  /\ role \in Roles
  /\ executor = role
  /\ pool = <<>>
  /\ current = {}
  /\ worked = {}
  /\ failed = {}
  /\ isStopped = FALSE
  /\ waiters = <<>>
  /\ ctor = "starting"
  /\ pc = [t \in Threads |-> IF t \in Workers THEN "unborn" ELSE "idle"]
  /\ job = [t \in Threads |-> NoWork]
  /\ captured = [t \in Workers |-> NoRole]
  /\ answer = [c \in Clients |-> <<>>]
  /\ acceptedAs = [w \in Works |-> NoRole]

-----------------------------------------------------------------------------
(* The constructor starts the workers and tears them down when one fails   *)
(* to start; no client has the Node before the constructor returns.        *)

StartThread(t) ==
  /\ ctor = "starting"
  /\ pc[t] = "unborn"
  /\ pc' = [pc EXCEPT ![t] = "loop"]
  /\ ctor' = IF \A u \in Workers \ {t} : pc[u] # "unborn" THEN "ready" ELSE ctor
  /\ UNCHANGED <<shared, waiters, job, captured, answer, acceptedAs>>

StartFails ==
  /\ ctor = "starting"
  /\ isStopped' = TRUE
  /\ NotifyAll
  /\ ctor' = "cleanup"
  /\ UNCHANGED <<role, executor, pool, current, worked, failed,
                 pc, job, captured, answer, acceptedAs>>

CleanupJoins ==
  /\ ctor = "cleanup"
  /\ \A t \in Workers : pc[t] \in {"unborn", "exited"}
  /\ ctor' = "raised"
  /\ UNCHANGED <<shared, waiters, pc, job, captured, answer, acceptedAs>>

\* The caller has no Node: nothing happens any more.
NoNode == ctor = "raised" /\ UNCHANGED vars

-----------------------------------------------------------------------------
(* Clients.  The calls that raise and change nothing (put and set_role on  *)
(* a stopped Node, set_role on a busy one, wait_for of unknown work) are   *)
(* stuttering steps.                                                       *)

Calling(c) == ctor = "ready" /\ pc[c] = "idle"
Fresh(w) == ~Unfinished(w) /\ w \notin worked \cup failed

Put(c, w) ==
  /\ Calling(c)
  /\ ~isStopped
  /\ Fresh(w)
  /\ pool' = Append(pool, w)
  /\ Notify
  /\ acceptedAs' = [acceptedAs EXCEPT ![w] = role]
  /\ UNCHANGED <<role, executor, current, worked, failed, isStopped,
                 ctor, pc, job, captured, answer>>

SetRole(c, r) ==
  /\ Calling(c)
  /\ r # role
  /\ ~isStopped
  /\ ~IsBusy
  /\ role' = r
  /\ executor' = r
  /\ UNCHANGED <<pool, current, worked, failed, isStopped, waiters,
                 ctor, pc, job, captured, answer, acceptedAs>>

CallWaitFor(c, w) ==
  /\ Calling(c)
  /\ ~Fresh(w)
  /\ pc' = [pc EXCEPT ![c] = "waitFor"]
  /\ job' = [job EXCEPT ![c] = w]
  /\ UNCHANGED <<shared, waiters, ctor, captured, answer, acceptedAs>>

WaitForSleeps(c) ==
  /\ pc[c] = "waitFor"
  /\ ~Asleep(c)
  /\ Unfinished(job[c])
  /\ Wait(c)
  /\ UNCHANGED <<shared, ctor, pc, job, captured, answer, acceptedAs>>

WaitForReturns(c) ==
  /\ pc[c] = "waitFor"
  /\ ~Asleep(c)
  /\ ~Unfinished(job[c])
  /\ answer' = [answer EXCEPT ![c] =
                  <<job[c], IF job[c] \in failed THEN "failed" ELSE "completed">>]
  /\ pc' = [pc EXCEPT ![c] = "idle"]
  /\ job' = [job EXCEPT ![c] = NoWork]
  /\ UNCHANGED <<shared, waiters, ctor, captured, acceptedAs>>

CallWaitAll(c) ==
  /\ Calling(c)
  /\ pc' = [pc EXCEPT ![c] = "waitAll"]
  /\ UNCHANGED <<shared, waiters, ctor, job, captured, answer, acceptedAs>>

WaitAllSleeps(c) ==
  /\ pc[c] = "waitAll"
  /\ ~Asleep(c)
  /\ IsBusy
  /\ Wait(c)
  /\ UNCHANGED <<shared, ctor, pc, job, captured, answer, acceptedAs>>

WaitAllReturns(c) ==
  /\ pc[c] = "waitAll"
  /\ ~Asleep(c)
  /\ ~IsBusy
  /\ pc' = [pc EXCEPT ![c] = "idle"]
  /\ UNCHANGED <<shared, waiters, ctor, job, captured, answer, acceptedAs>>

Stop(c) ==
  /\ Calling(c)
  /\ isStopped' = TRUE
  /\ NotifyAll
  /\ pc' = [pc EXCEPT ![c] = "join"]
  /\ UNCHANGED <<role, executor, pool, current, worked, failed,
                 ctor, job, captured, answer, acceptedAs>>

StopReturns(c) ==
  /\ pc[c] = "join"
  /\ \A t \in Workers : pc[t] = "exited"
  /\ pc' = [pc EXCEPT ![c] = "idle"]
  /\ UNCHANGED <<shared, waiters, ctor, job, captured, answer, acceptedAs>>

-----------------------------------------------------------------------------
(* Workers                                                                 *)

WorkerSleeps(t) ==
  /\ pc[t] = "loop"
  /\ ~Asleep(t)
  /\ pool = <<>>
  /\ ~isStopped
  /\ Wait(t)
  /\ UNCHANGED <<shared, ctor, pc, job, captured, answer, acceptedAs>>

\* Faulty: leaves on stop although works are queued.
WorkerExitsAtOnce(t) ==
  /\ pc[t] = "loop"
  /\ ~Asleep(t)
  /\ isStopped
  /\ pc' = [pc EXCEPT ![t] = "exited"]
  /\ UNCHANGED <<shared, waiters, ctor, job, captured, answer, acceptedAs>>

WorkerExits(t) ==
  /\ pc[t] = "loop"
  /\ ~Asleep(t)
  /\ pool = <<>>
  /\ isStopped
  /\ pc' = [pc EXCEPT ![t] = "exited"]
  /\ UNCHANGED <<shared, waiters, ctor, job, captured, answer, acceptedAs>>

\* Faulty: peeks at the oldest work and pops only after executing it.
TakeByPeeking(t) ==
  /\ pc[t] = "loop"
  /\ ~Asleep(t)
  /\ pool # <<>>
  /\ current' = current \cup {Head(pool)}
  /\ job' = [job EXCEPT ![t] = Head(pool)]
  /\ captured' = [captured EXCEPT ![t] = executor]
  /\ pc' = [pc EXCEPT ![t] = "execute"]
  /\ UNCHANGED <<role, executor, pool, worked, failed, isStopped,
                 waiters, ctor, answer, acceptedAs>>

\* Faulty: pop() where the code has popleft().
TakeNewest(t) ==
  /\ pc[t] = "loop"
  /\ ~Asleep(t)
  /\ pool # <<>>
  /\ pool' = Front(pool)
  /\ current' = current \cup {Last(pool)}
  /\ job' = [job EXCEPT ![t] = Last(pool)]
  /\ captured' = [captured EXCEPT ![t] = executor]
  /\ pc' = [pc EXCEPT ![t] = "execute"]
  /\ UNCHANGED <<role, executor, worked, failed, isStopped,
                 waiters, ctor, answer, acceptedAs>>

Take(t) ==
  /\ pc[t] = "loop"
  /\ ~Asleep(t)
  /\ pool # <<>>
  /\ pool' = Tail(pool)
  /\ current' = current \cup {Head(pool)}
  /\ job' = [job EXCEPT ![t] = Head(pool)]
  /\ captured' = [captured EXCEPT ![t] = executor]
  /\ pc' = [pc EXCEPT ![t] = "execute"]
  /\ UNCHANGED <<role, executor, worked, failed, isStopped,
                 waiters, ctor, answer, acceptedAs>>

\* Faulty: clears the work_info local before recording it.
FinishForgetful(t, outcome) ==
  /\ pc[t] = "execute"
  /\ job' = [job EXCEPT ![t] = NoWork]
  /\ current' = current \ {job[t]}
  /\ IF outcome = "completed"
       THEN worked' = worked \cup {job'[t]} /\ UNCHANGED failed
       ELSE failed' = failed \cup {job'[t]} /\ UNCHANGED worked
  /\ NotifyAll
  /\ pc' = [pc EXCEPT ![t] = "loop"]
  /\ captured' = [captured EXCEPT ![t] = NoRole]
  /\ UNCHANGED <<role, executor, pool, isStopped, ctor, answer, acceptedAs>>

\* executor.execute returned or raised; the finally block records it.
Finish(t, outcome) ==
  /\ pc[t] = "execute"
  /\ current' = current \ {job[t]}
  /\ IF outcome = "completed"
       THEN worked' = worked \cup {job[t]} /\ UNCHANGED failed
       ELSE failed' = failed \cup {job[t]} /\ UNCHANGED worked
  /\ NotifyAll
  /\ pc' = [pc EXCEPT ![t] = "loop"]
  /\ job' = [job EXCEPT ![t] = NoWork]
  /\ captured' = [captured EXCEPT ![t] = NoRole]
  /\ UNCHANGED <<role, executor, pool, isStopped, ctor, answer, acceptedAs>>

-----------------------------------------------------------------------------
WorkerStep(t) == WorkerSleeps(t) \/ WorkerExits(t) \/ Take(t)

\* The steps of a call a client has already made.
ClientStep(c) ==
  \/ WaitForSleeps(c) \/ WaitForReturns(c)
  \/ WaitAllSleeps(c) \/ WaitAllReturns(c)
  \/ StopReturns(c)

Next ==
  \/ StartFails
  \/ CleanupJoins
  \/ NoNode
  \/ \E t \in Workers : StartThread(t) \/ WorkerStep(t)
  \/ \E t \in Workers, outcome \in Outcomes : Finish(t, outcome)
  \/ \E c \in Clients : CallWaitAll(c) \/ Stop(c) \/ ClientStep(c)
  \/ \E c \in Clients, w \in Works : Put(c, w) \/ CallWaitFor(c, w)
  \/ \E c \in Clients, r \in Roles : SetRole(c, r)

Spec == Init /\ [][Next]_vars

(* The operating system runs every thread that can run, and an execution   *)
(* that is not in Slow ends.  Nobody is obliged to call the Node.          *)
Fairness ==
  /\ WF_vars(CleanupJoins)
  /\ \A t \in Workers :
       /\ WF_vars(WorkerStep(t))
       /\ WF_vars(job[t] \notin Slow /\ \E o \in Outcomes : Finish(t, o))
  /\ \A c \in Clients : WF_vars(ClientStep(c))

FairSpec == Spec /\ Fairness

-----------------------------------------------------------------------------
TypeOK ==
  /\ role \in Roles /\ executor \in Roles
  /\ pool \in Seq(Works)
  /\ current \subseteq Works /\ worked \subseteq Works /\ failed \subseteq Works
  /\ isStopped \in BOOLEAN
  /\ waiters \in Seq(Threads)
  /\ ctor \in {"starting", "ready", "cleanup", "raised"}
  /\ pc \in [Threads -> {"unborn", "loop", "execute", "exited",
                         "idle", "waitFor", "waitAll", "join"}]
  /\ job \in [Threads -> Works \cup {NoWork}]
  /\ captured \in [Workers -> Roles \cup {NoRole}]
  /\ answer \in [Clients -> {<<>>} \cup (Works \X Outcomes)]
  /\ acceptedAs \in [Works -> Roles \cup {NoRole}]

(* A submission is in exactly one place: queued once, executed by exactly  *)
(* one worker, or recorded with one outcome; so no work is run twice,      *)
(* dropped, or reported both completed and failed.                         *)
WorkAccounting ==
  /\ IsInjective(pool)
  /\ \A w \in Works : Pooled(w) => w \notin current \cup worked \cup failed
  /\ current \cap (worked \cup failed) = {}
  /\ worked \cap failed = {}
  /\ \A w \in current : \E t \in Workers : pc[t] = "execute" /\ job[t] = w
  /\ \A t, u \in Workers :
       pc[t] = "execute" /\ pc[u] = "execute" /\ job[t] = job[u] => t = u
  /\ \A t \in Workers : pc[t] = "execute" => job[t] \in current

(* A work runs on the executor of the role the Node had when it accepted   *)
(* the work, although the worker reads the executor only when it takes it. *)
RunsAsAccepted ==
  \A t \in Workers : pc[t] = "execute" => captured[t] = acceptedAs[job[t]]

(* No client sleeps through the end of what it waits for: a thread asleep  *)
(* in wait_for or wait_all still has a reason to sleep.                    *)
NoDeafClient ==
  \A c \in Clients : Asleep(c) =>
    \/ pc[c] = "waitFor" /\ Unfinished(job[c])
    \/ pc[c] = "waitAll" /\ IsBusy

(* Queued work is never abandoned, not even by stop: while the pool holds  *)
(* something, some worker is awake and on its way to the pool or will come *)
(* back to it after the work it executes.                                  *)
QueueHasTaker ==
  pool # <<>> =>
    \E t \in Workers : pc[t] \in {"loop", "execute"} /\ ~Asleep(t)

(* A stop cannot be missed: once the Node is stopped no worker sleeps, so  *)
(* that the joins of stop end when the accepted work does.                 *)
StoppedWakesWorkers == isStopped => \A t \in Workers : ~Asleep(t)

(* While a single worker serves the Node, work waits only behind the work  *)
(* that worker is executing: it never sleeps beside a filled pool.         *)
WorkConserving ==
  pool # <<>> => \A t \in Workers : ~Asleep(t)

(* A wait_for answer agrees with the record of the work, also later on.    *)
AnswersAreTrue ==
  \A c \in Clients : answer[c] # <<>> =>
    IF answer[c][2] = "failed" THEN answer[c][1] \in failed
                               ELSE answer[c][1] \in worked

(* Every accepted work is eventually recorded, also after stop.            *)
AcceptedWorkFinishes ==
  \A w \in Works : Pooled(w) ~> w \in worked \cup failed
(* stop returns, with every worker gone.                                   *)
StopTerminates ==
  \A c \in Clients : pc[c] = "join" ~> pc[c] = "idle"
(* wait_for returns once its own work can finish; it does not wait for     *)
(* other queued or running works (docs/design/workload-execution.md, the   *)
(* structured results of put and wait_for).                                *)
WaitForIsIndependent ==
  \A c \in Clients, w \in Works \ Slow :
    (pc[c] = "waitFor" /\ job[c] = w) ~> pc[c] = "idle"
(* A constructor whose thread start fails ends with no worker running.     *)
FailedStartLeavesNoThread ==
  ctor = "cleanup" ~> (ctor = "raised" /\ \A t \in Workers : pc[t] \in {"unborn", "exited"})

-----------------------------------------------------------------------------
(* Refinement of NodeContract.                                             *)

StatusOf(w) ==
  CASE w \in failed -> "failed"
    [] w \in worked -> "completed"
    [] w \in current -> "running"
    [] Pooled(w) -> "queued"
    [] OTHER -> "new"

Status == [w \in Works |-> StatusOf(w)]

Contract == INSTANCE NodeContract WITH queue <- pool, status <- Status,
                                       stopped <- isStopped

ImplementsContract == Contract!Spec
=============================================================================
