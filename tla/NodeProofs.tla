----------------------------- MODULE NodeProofs -----------------------------
(***************************************************************************)
(* Theorems about Node for every number of workers, clients and works.     *)
(* The safety properties of Node are proved from the inductive invariant   *)
(* IInv, which adds to them where each thread may be (Placement), what the *)
(* life of the constructor allows (Construction), that nobody sleeps twice *)
(* (OneSleep) and that the role is frozen while work is unfinished         *)
(* (RoleFrozen).                                                           *)
(***************************************************************************)
EXTENDS Node, CollectionLemmas, TLAPS

WorkerPlaces == {"unborn", "loop", "execute", "exited"}
ClientPlaces == {"idle", "waitFor", "waitAll", "join"}

Placement ==
  /\ \A t \in Workers : pc[t] \in WorkerPlaces
  /\ \A c \in Clients : pc[c] \in ClientPlaces
  /\ \A t \in Workers : pc[t] = "execute" <=> job[t] # NoWork
  /\ \A t \in Workers : Asleep(t) => pc[t] = "loop" /\ ~isStopped
  /\ \A c \in Clients : pc[c] = "waitFor" => job[c] \in Works /\ ~Fresh(job[c])

Construction ==
  /\ ctor # "ready" => pool = <<>> /\ current = {} /\ \A c \in Clients : pc[c] = "idle"
  /\ ctor = "ready" => \A t \in Workers : pc[t] # "unborn"
  /\ ctor = "starting" => ~isStopped
  /\ ctor \in {"cleanup", "raised"} => isStopped
  /\ \A t \in Workers : pc[t] = "exited" => isStopped /\ pool = <<>>

OneSleep == IsInjective(waiters)

RoleFrozen ==
  /\ executor = role
  /\ \A w \in Works : Unfinished(w) => acceptedAs[w] = role

IInv ==
  /\ TypeOK
  /\ Placement
  /\ Construction
  /\ OneSleep
  /\ WorkAccounting
  /\ RoleFrozen
  /\ RunsAsAccepted
  /\ NoDeafClient
  /\ QueueHasTaker
  /\ StoppedWakesWorkers
  /\ AnswersAreTrue

-----------------------------------------------------------------------------
(* What the operations on the condition and on the pool do to Asleep and   *)
(* Pooled; the proofs below use these facts and never look at positions.   *)

\* What wait adds to and notify takes from the threads that sleep.
LEMMA SleepFacts ==
  ASSUME waiters \in Seq(Threads), OneSleep
  PROVE  /\ \A t \in Threads : Wait(t) =>
              \A u : Asleep(u)' <=> Asleep(u) \/ u = t
         /\ \A t \in Threads : Wait(t) /\ ~Asleep(t) => OneSleep'
         /\ Notify /\ waiters = <<>> => \A u : Asleep(u)' <=> Asleep(u)
         /\ Notify /\ waiters # <<>> =>
              /\ Head(waiters) \in Threads
              /\ Asleep(Head(waiters))
              /\ \A u : Asleep(u)' <=> Asleep(u) /\ u # Head(waiters)
         /\ Notify => OneSleep'
         /\ NotifyAll => OneSleep' /\ \A u : ~Asleep(u)'
         /\ waiters = <<>> => \A u : ~Asleep(u)
         /\ UNCHANGED waiters => OneSleep' /\ \A u : Asleep(u)' <=> Asleep(u)
<1>1. \A u : ~Contains(<<>>, u)
  BY DEF Contains
<1>2. IsInjective(<<>>)
  BY DEF IsInjective
<1>3. ASSUME NEW t \in Threads, Wait(t)
      PROVE  /\ \A u : Asleep(u)' <=> Asleep(u) \/ u = t
             /\ ~Asleep(t) => OneSleep'
  BY <1>3, AppendMembers DEF Wait, Asleep, OneSleep
<1>4. ASSUME Notify, waiters # <<>>
      PROVE  /\ Head(waiters) \in Threads
             /\ Asleep(Head(waiters))
             /\ \A u : Asleep(u)' <=> Asleep(u) /\ u # Head(waiters)
             /\ OneSleep'
  BY <1>4, TailMembers DEF Notify, Asleep, OneSleep
<1>5. ASSUME Notify, waiters = <<>>
      PROVE  OneSleep' /\ \A u : Asleep(u)' <=> Asleep(u)
  BY <1>5 DEF Notify, Asleep, OneSleep
<1>6. ASSUME NotifyAll PROVE OneSleep' /\ \A u : ~Asleep(u)'
  BY <1>6, <1>1, <1>2 DEF NotifyAll, Asleep, OneSleep
<1>7. waiters = <<>> => \A u : ~Asleep(u)
  BY <1>1 DEF Asleep
<1>8. UNCHANGED waiters => OneSleep' /\ \A u : Asleep(u)' <=> Asleep(u)
  BY DEF OneSleep, Asleep
<1> QED
  BY <1>3, <1>4, <1>5, <1>6, <1>7, <1>8

\* What put adds to and a worker takes from the queued works.
LEMMA PoolFacts ==
  ASSUME pool \in Seq(Works), IsInjective(pool)
  PROVE  /\ \A w \in Works : pool' = Append(pool, w) =>
              /\ \A u : Pooled(u)' <=> Pooled(u) \/ u = w
              /\ ~Pooled(w) => IsInjective(pool')
              /\ pool' # <<>>
         /\ pool # <<>> =>
              /\ Head(pool) \in Works
              /\ Pooled(Head(pool))
              /\ pool' = Tail(pool) =>
                   /\ \A u : Pooled(u)' <=> Pooled(u) /\ u # Head(pool)
                   /\ IsInjective(pool')
         /\ pool = <<>> => \A u : ~Pooled(u)
         /\ UNCHANGED pool => IsInjective(pool') /\ \A u : Pooled(u)' <=> Pooled(u)
<1>1. \A u : ~Contains(<<>>, u)
  BY DEF Contains
<1>2. ASSUME NEW w \in Works, pool' = Append(pool, w)
      PROVE  /\ \A u : Pooled(u)' <=> Pooled(u) \/ u = w
             /\ ~Pooled(w) => IsInjective(pool')
             /\ pool' # <<>>
  BY <1>2, AppendMembers DEF Pooled
<1>3. ASSUME pool # <<>>
      PROVE  Head(pool) \in Works /\ Pooled(Head(pool))
  BY <1>3, TailMembers DEF Pooled
<1>4. ASSUME pool # <<>>, pool' = Tail(pool)
      PROVE  /\ \A u : Pooled(u)' <=> Pooled(u) /\ u # Head(pool)
             /\ IsInjective(pool')
  BY <1>4, TailMembers DEF Pooled
<1>5. pool = <<>> => \A u : ~Pooled(u)
  BY <1>1 DEF Pooled
<1>6. UNCHANGED pool => IsInjective(pool') /\ \A u : Pooled(u)' <=> Pooled(u)
  BY DEF Pooled
<1> QED
  BY <1>2, <1>3, <1>4, <1>5, <1>6

-----------------------------------------------------------------------------
(* One lemma per part of IInv: a step of Node preserves it.                *)

\* Every step keeps the variables in their types.
LEMMA TypeStep == IInv /\ [Next]_vars => TypeOK'
<1> SUFFICES ASSUME IInv, [Next]_vars PROVE TypeOK'
  OBVIOUS
<1> USE NodeAssumption DEF IInv, TypeOK, shared, Threads, Outcomes, Wait, Notify, NotifyAll
<1>1. CASE StartFails
  BY <1>1 DEF StartFails
<1>2. CASE CleanupJoins
  BY <1>2 DEF CleanupJoins
<1>3. CASE NoNode
  BY <1>3 DEF NoNode, vars, shared
<1>4. ASSUME NEW t \in Workers, StartThread(t) PROVE TypeOK'
  BY <1>4 DEF StartThread
<1>5. ASSUME NEW t \in Workers, WorkerSleeps(t) PROVE TypeOK'
  BY <1>5 DEF WorkerSleeps
<1>6. ASSUME NEW t \in Workers, WorkerExits(t) PROVE TypeOK'
  BY <1>6 DEF WorkerExits
<1>7. ASSUME NEW t \in Workers, Take(t) PROVE TypeOK'
  BY <1>7 DEF Take
<1>8. ASSUME NEW t \in Workers, NEW outcome \in Outcomes, Finish(t, outcome) PROVE TypeOK'
  <2>1. job[t] \in Works
    BY <1>8 DEF Finish, Placement
  <2>2. worked' \subseteq Works /\ failed' \subseteq Works
    BY <1>8, <2>1 DEF Finish
  <2> QED
    BY <1>8, <2>2 DEF Finish
<1>9. ASSUME NEW c \in Clients, CallWaitAll(c) PROVE TypeOK'
  BY <1>9 DEF CallWaitAll
<1>10. ASSUME NEW c \in Clients, Stop(c) PROVE TypeOK'
  BY <1>10 DEF Stop
<1>11. ASSUME NEW c \in Clients, WaitForSleeps(c) PROVE TypeOK'
  BY <1>11 DEF WaitForSleeps
<1>12. ASSUME NEW c \in Clients, WaitForReturns(c) PROVE TypeOK'
  <2>1. job[c] \in Works
    BY <1>12 DEF WaitForReturns, Placement
  <2> QED
    BY <1>12, <2>1 DEF WaitForReturns
<1>13. ASSUME NEW c \in Clients, WaitAllSleeps(c) PROVE TypeOK'
  BY <1>13 DEF WaitAllSleeps
<1>14. ASSUME NEW c \in Clients, WaitAllReturns(c) PROVE TypeOK'
  BY <1>14 DEF WaitAllReturns
<1>15. ASSUME NEW c \in Clients, StopReturns(c) PROVE TypeOK'
  BY <1>15 DEF StopReturns
<1>16. ASSUME NEW c \in Clients, NEW w \in Works, Put(c, w) PROVE TypeOK'
  BY <1>16 DEF Put
<1>17. ASSUME NEW c \in Clients, NEW w \in Works, CallWaitFor(c, w) PROVE TypeOK'
  BY <1>17 DEF CallWaitFor
<1>18. ASSUME NEW c \in Clients, NEW r \in Roles, SetRole(c, r) PROVE TypeOK'
  BY <1>18 DEF SetRole
<1>19. CASE UNCHANGED vars
  BY <1>19 DEF vars, shared
<1> QED
  BY <1>1, <1>2, <1>3, <1>4, <1>5, <1>6, <1>7, <1>8, <1>9, <1>10, <1>11, <1>12, <1>13, <1>14, <1>15, <1>16, <1>17, <1>18, <1>19, ZenonT(40) DEF Next, WorkerStep, ClientStep

\* Threads stay in their places.
LEMMA PlacementStep == IInv /\ [Next]_vars => Placement'
<1> SUFFICES ASSUME IInv, [Next]_vars PROVE Placement'
  OBVIOUS
<1> USE NodeAssumption DEF IInv, TypeOK, shared, Threads
<1>a. waiters \in Seq(Threads) /\ OneSleep /\ pool \in Seq(Works) /\ IsInjective(pool)
  BY DEF WorkAccounting
<1> USE <1>a
<1>1. CASE StartFails
  BY <1>1, SleepFacts, PoolFacts DEF StartFails, Placement, Construction, Fresh, Unfinished, WorkerPlaces, ClientPlaces
<1>2. CASE CleanupJoins
  BY <1>2, SleepFacts, PoolFacts DEF CleanupJoins, Placement, Construction, Fresh, Unfinished, WorkerPlaces, ClientPlaces
<1>3. CASE NoNode
  BY <1>3, SleepFacts, PoolFacts DEF NoNode, vars, Placement, Construction, Fresh, Unfinished, WorkerPlaces, ClientPlaces
<1>4. ASSUME NEW t \in Workers, StartThread(t) PROVE Placement'
  BY <1>4, SleepFacts, PoolFacts DEF StartThread, Placement, Construction, Fresh, Unfinished, WorkerPlaces, ClientPlaces
<1>5. ASSUME NEW t \in Workers, WorkerSleeps(t) PROVE Placement'
  BY <1>5, SleepFacts, PoolFacts DEF WorkerSleeps, Placement, Construction, Fresh, Unfinished, WorkerPlaces, ClientPlaces
<1>6. ASSUME NEW t \in Workers, WorkerExits(t) PROVE Placement'
  BY <1>6, SleepFacts, PoolFacts DEF WorkerExits, Placement, Construction, Fresh, Unfinished, WorkerPlaces, ClientPlaces
<1>7. ASSUME NEW t \in Workers, Take(t) PROVE Placement'
  BY <1>7, SleepFacts, PoolFacts DEF Take, Placement, Construction, Fresh, Unfinished, WorkerPlaces, ClientPlaces
<1>8. ASSUME NEW t \in Workers, NEW outcome \in Outcomes, Finish(t, outcome) PROVE Placement'
  BY <1>8, SleepFacts, PoolFacts DEF Finish, Placement, Construction, Fresh, Unfinished, WorkerPlaces, ClientPlaces
<1>9. ASSUME NEW c \in Clients, CallWaitAll(c) PROVE Placement'
  BY <1>9, SleepFacts, PoolFacts DEF CallWaitAll, Placement, Construction, Fresh, Unfinished, WorkerPlaces, ClientPlaces
<1>10. ASSUME NEW c \in Clients, Stop(c) PROVE Placement'
  BY <1>10, SleepFacts, PoolFacts DEF Stop, Placement, Construction, Fresh, Unfinished, WorkerPlaces, ClientPlaces
<1>11. ASSUME NEW c \in Clients, WaitForSleeps(c) PROVE Placement'
  BY <1>11, SleepFacts, PoolFacts DEF WaitForSleeps, Placement, Construction, Fresh, Unfinished, WorkerPlaces, ClientPlaces
<1>12. ASSUME NEW c \in Clients, WaitForReturns(c) PROVE Placement'
  BY <1>12, SleepFacts, PoolFacts DEF WaitForReturns, Placement, Construction, Fresh, Unfinished, WorkerPlaces, ClientPlaces
<1>13. ASSUME NEW c \in Clients, WaitAllSleeps(c) PROVE Placement'
  BY <1>13, SleepFacts, PoolFacts DEF WaitAllSleeps, Placement, Construction, Fresh, Unfinished, WorkerPlaces, ClientPlaces
<1>14. ASSUME NEW c \in Clients, WaitAllReturns(c) PROVE Placement'
  BY <1>14, SleepFacts, PoolFacts DEF WaitAllReturns, Placement, Construction, Fresh, Unfinished, WorkerPlaces, ClientPlaces
<1>15. ASSUME NEW c \in Clients, StopReturns(c) PROVE Placement'
  BY <1>15, SleepFacts, PoolFacts DEF StopReturns, Placement, Construction, Fresh, Unfinished, WorkerPlaces, ClientPlaces
<1>16. ASSUME NEW c \in Clients, NEW w \in Works, Put(c, w) PROVE Placement'
  BY <1>16, SleepFacts, PoolFacts DEF Put, Placement, Construction, Fresh, Unfinished, WorkerPlaces, ClientPlaces
<1>17. ASSUME NEW c \in Clients, NEW w \in Works, CallWaitFor(c, w) PROVE Placement'
  BY <1>17, SleepFacts, PoolFacts DEF CallWaitFor, Placement, Construction, Fresh, Unfinished, WorkerPlaces, ClientPlaces
<1>18. ASSUME NEW c \in Clients, NEW r \in Roles, SetRole(c, r) PROVE Placement'
  BY <1>18, SleepFacts, PoolFacts DEF SetRole, Placement, Construction, Fresh, Unfinished, WorkerPlaces, ClientPlaces
<1>19. CASE UNCHANGED vars
  BY <1>19, SleepFacts, PoolFacts DEF vars, shared, Placement, Construction, Fresh, Unfinished, WorkerPlaces, ClientPlaces
<1> QED
  BY <1>1, <1>2, <1>3, <1>4, <1>5, <1>6, <1>7, <1>8, <1>9, <1>10, <1>11, <1>12, <1>13, <1>14, <1>15, <1>16, <1>17, <1>18, <1>19 DEF Next, WorkerStep, ClientStep

\* No client has the Node before its constructor returned.
LEMMA ConstructionStep == IInv /\ [Next]_vars => Construction'
<1> SUFFICES ASSUME IInv, [Next]_vars PROVE Construction'
  OBVIOUS
<1> USE NodeAssumption DEF IInv, TypeOK, shared, Threads
<1>a. waiters \in Seq(Threads) /\ OneSleep /\ pool \in Seq(Works) /\ IsInjective(pool)
  BY DEF WorkAccounting
<1> USE <1>a
<1>1. CASE StartFails
  BY <1>1, SleepFacts, PoolFacts DEF StartFails, Placement, Construction, WorkerPlaces, Calling
<1>2. CASE CleanupJoins
  BY <1>2, SleepFacts, PoolFacts DEF CleanupJoins, Placement, Construction, WorkerPlaces, Calling
<1>3. CASE NoNode
  BY <1>3, SleepFacts, PoolFacts DEF NoNode, vars, Placement, Construction, WorkerPlaces, Calling
<1>4. ASSUME NEW t \in Workers, StartThread(t) PROVE Construction'
  BY <1>4, SleepFacts, PoolFacts DEF StartThread, Placement, Construction, WorkerPlaces, Calling
<1>5. ASSUME NEW t \in Workers, WorkerSleeps(t) PROVE Construction'
  BY <1>5, SleepFacts, PoolFacts DEF WorkerSleeps, Placement, Construction, WorkerPlaces, Calling
<1>6. ASSUME NEW t \in Workers, WorkerExits(t) PROVE Construction'
  BY <1>6, SleepFacts, PoolFacts DEF WorkerExits, Placement, Construction, WorkerPlaces, Calling
<1>7. ASSUME NEW t \in Workers, Take(t) PROVE Construction'
  BY <1>7, SleepFacts, PoolFacts DEF Take, Placement, Construction, WorkerPlaces, Calling
<1>8. ASSUME NEW t \in Workers, NEW outcome \in Outcomes, Finish(t, outcome) PROVE Construction'
  BY <1>8, SleepFacts, PoolFacts DEF Finish, Placement, Construction, WorkerPlaces, Calling
<1>9. ASSUME NEW c \in Clients, CallWaitAll(c) PROVE Construction'
  BY <1>9, SleepFacts, PoolFacts DEF CallWaitAll, Placement, Construction, WorkerPlaces, Calling
<1>10. ASSUME NEW c \in Clients, Stop(c) PROVE Construction'
  BY <1>10, SleepFacts, PoolFacts DEF Stop, Placement, Construction, WorkerPlaces, Calling
<1>11. ASSUME NEW c \in Clients, WaitForSleeps(c) PROVE Construction'
  BY <1>11, SleepFacts, PoolFacts DEF WaitForSleeps, Placement, Construction, WorkerPlaces, Calling
<1>12. ASSUME NEW c \in Clients, WaitForReturns(c) PROVE Construction'
  BY <1>12, SleepFacts, PoolFacts DEF WaitForReturns, Placement, Construction, WorkerPlaces, Calling
<1>13. ASSUME NEW c \in Clients, WaitAllSleeps(c) PROVE Construction'
  BY <1>13, SleepFacts, PoolFacts DEF WaitAllSleeps, Placement, Construction, WorkerPlaces, Calling
<1>14. ASSUME NEW c \in Clients, WaitAllReturns(c) PROVE Construction'
  BY <1>14, SleepFacts, PoolFacts DEF WaitAllReturns, Placement, Construction, WorkerPlaces, Calling
<1>15. ASSUME NEW c \in Clients, StopReturns(c) PROVE Construction'
  BY <1>15, SleepFacts, PoolFacts DEF StopReturns, Placement, Construction, WorkerPlaces, Calling
<1>16. ASSUME NEW c \in Clients, NEW w \in Works, Put(c, w) PROVE Construction'
  BY <1>16, SleepFacts, PoolFacts DEF Put, Placement, Construction, WorkerPlaces, Calling
<1>17. ASSUME NEW c \in Clients, NEW w \in Works, CallWaitFor(c, w) PROVE Construction'
  BY <1>17, SleepFacts, PoolFacts DEF CallWaitFor, Placement, Construction, WorkerPlaces, Calling
<1>18. ASSUME NEW c \in Clients, NEW r \in Roles, SetRole(c, r) PROVE Construction'
  BY <1>18, SleepFacts, PoolFacts DEF SetRole, Placement, Construction, WorkerPlaces, Calling
<1>19. CASE UNCHANGED vars
  BY <1>19, SleepFacts, PoolFacts DEF vars, shared, Placement, Construction, WorkerPlaces, Calling
<1> QED
  BY <1>1, <1>2, <1>3, <1>4, <1>5, <1>6, <1>7, <1>8, <1>9, <1>10, <1>11, <1>12, <1>13, <1>14, <1>15, <1>16, <1>17, <1>18, <1>19 DEF Next, WorkerStep, ClientStep

\* No thread is queued twice on the condition.
LEMMA OneSleepStep == IInv /\ [Next]_vars => OneSleep'
<1> SUFFICES ASSUME IInv, [Next]_vars PROVE OneSleep'
  OBVIOUS
<1> USE NodeAssumption DEF IInv, TypeOK, shared, Threads
<1>a. waiters \in Seq(Threads) /\ OneSleep /\ pool \in Seq(Works) /\ IsInjective(pool)
  BY DEF WorkAccounting
<1> USE <1>a
<1>1. CASE StartFails
  BY <1>1, SleepFacts DEF StartFails, Placement
<1>2. CASE CleanupJoins
  BY <1>2, SleepFacts DEF CleanupJoins, Placement
<1>3. CASE NoNode
  BY <1>3, SleepFacts DEF NoNode, vars, Placement
<1>4. ASSUME NEW t \in Workers, StartThread(t) PROVE OneSleep'
  BY <1>4, SleepFacts DEF StartThread, Placement
<1>5. ASSUME NEW t \in Workers, WorkerSleeps(t) PROVE OneSleep'
  BY <1>5, SleepFacts DEF WorkerSleeps, Placement
<1>6. ASSUME NEW t \in Workers, WorkerExits(t) PROVE OneSleep'
  BY <1>6, SleepFacts DEF WorkerExits, Placement
<1>7. ASSUME NEW t \in Workers, Take(t) PROVE OneSleep'
  BY <1>7, SleepFacts DEF Take, Placement
<1>8. ASSUME NEW t \in Workers, NEW outcome \in Outcomes, Finish(t, outcome) PROVE OneSleep'
  BY <1>8, SleepFacts DEF Finish, Placement
<1>9. ASSUME NEW c \in Clients, CallWaitAll(c) PROVE OneSleep'
  BY <1>9, SleepFacts DEF CallWaitAll, Placement
<1>10. ASSUME NEW c \in Clients, Stop(c) PROVE OneSleep'
  BY <1>10, SleepFacts DEF Stop, Placement
<1>11. ASSUME NEW c \in Clients, WaitForSleeps(c) PROVE OneSleep'
  BY <1>11, SleepFacts DEF WaitForSleeps, Placement
<1>12. ASSUME NEW c \in Clients, WaitForReturns(c) PROVE OneSleep'
  BY <1>12, SleepFacts DEF WaitForReturns, Placement
<1>13. ASSUME NEW c \in Clients, WaitAllSleeps(c) PROVE OneSleep'
  BY <1>13, SleepFacts DEF WaitAllSleeps, Placement
<1>14. ASSUME NEW c \in Clients, WaitAllReturns(c) PROVE OneSleep'
  BY <1>14, SleepFacts DEF WaitAllReturns, Placement
<1>15. ASSUME NEW c \in Clients, StopReturns(c) PROVE OneSleep'
  BY <1>15, SleepFacts DEF StopReturns, Placement
<1>16. ASSUME NEW c \in Clients, NEW w \in Works, Put(c, w) PROVE OneSleep'
  BY <1>16, SleepFacts DEF Put, Placement
<1>17. ASSUME NEW c \in Clients, NEW w \in Works, CallWaitFor(c, w) PROVE OneSleep'
  BY <1>17, SleepFacts DEF CallWaitFor, Placement
<1>18. ASSUME NEW c \in Clients, NEW r \in Roles, SetRole(c, r) PROVE OneSleep'
  BY <1>18, SleepFacts DEF SetRole, Placement
<1>19. CASE UNCHANGED vars
  BY <1>19, SleepFacts DEF vars, shared, Placement
<1> QED
  BY <1>1, <1>2, <1>3, <1>4, <1>5, <1>6, <1>7, <1>8, <1>9, <1>10, <1>11, <1>12, <1>13, <1>14, <1>15, <1>16, <1>17, <1>18, <1>19 DEF Next, WorkerStep, ClientStep

\* A work stays in exactly one place.
LEMMA AccountingStep == IInv /\ [Next]_vars => WorkAccounting'
<1> SUFFICES ASSUME IInv, [Next]_vars PROVE WorkAccounting'
  OBVIOUS
<1> USE NodeAssumption DEF IInv, TypeOK, shared, Threads
<1>a. waiters \in Seq(Threads) /\ OneSleep /\ pool \in Seq(Works) /\ IsInjective(pool)
  BY DEF WorkAccounting
<1> USE <1>a
<1>1. CASE StartFails
  BY <1>1, PoolFacts DEF StartFails, WorkAccounting, Placement, Fresh, Unfinished
<1>2. CASE CleanupJoins
  BY <1>2, PoolFacts DEF CleanupJoins, WorkAccounting, Placement, Fresh, Unfinished
<1>3. CASE NoNode
  BY <1>3, PoolFacts DEF NoNode, vars, WorkAccounting, Placement, Fresh, Unfinished
<1>4. ASSUME NEW t \in Workers, StartThread(t) PROVE WorkAccounting'
  BY <1>4, PoolFacts DEF StartThread, WorkAccounting, Placement, Fresh, Unfinished
<1>5. ASSUME NEW t \in Workers, WorkerSleeps(t) PROVE WorkAccounting'
  BY <1>5, PoolFacts DEF WorkerSleeps, WorkAccounting, Placement, Fresh, Unfinished
<1>6. ASSUME NEW t \in Workers, WorkerExits(t) PROVE WorkAccounting'
  BY <1>6, PoolFacts DEF WorkerExits, WorkAccounting, Placement, Fresh, Unfinished
<1>7. ASSUME NEW t \in Workers, Take(t) PROVE WorkAccounting'
  BY <1>7, PoolFacts DEF Take, WorkAccounting, Placement, Fresh, Unfinished
<1>8. ASSUME NEW t \in Workers, NEW outcome \in Outcomes, Finish(t, outcome) PROVE WorkAccounting'
  BY <1>8, PoolFacts DEF Finish, WorkAccounting, Placement, Fresh, Unfinished
<1>9. ASSUME NEW c \in Clients, CallWaitAll(c) PROVE WorkAccounting'
  BY <1>9, PoolFacts DEF CallWaitAll, WorkAccounting, Placement, Fresh, Unfinished
<1>10. ASSUME NEW c \in Clients, Stop(c) PROVE WorkAccounting'
  BY <1>10, PoolFacts DEF Stop, WorkAccounting, Placement, Fresh, Unfinished
<1>11. ASSUME NEW c \in Clients, WaitForSleeps(c) PROVE WorkAccounting'
  BY <1>11, PoolFacts DEF WaitForSleeps, WorkAccounting, Placement, Fresh, Unfinished
<1>12. ASSUME NEW c \in Clients, WaitForReturns(c) PROVE WorkAccounting'
  BY <1>12, PoolFacts DEF WaitForReturns, WorkAccounting, Placement, Fresh, Unfinished
<1>13. ASSUME NEW c \in Clients, WaitAllSleeps(c) PROVE WorkAccounting'
  BY <1>13, PoolFacts DEF WaitAllSleeps, WorkAccounting, Placement, Fresh, Unfinished
<1>14. ASSUME NEW c \in Clients, WaitAllReturns(c) PROVE WorkAccounting'
  BY <1>14, PoolFacts DEF WaitAllReturns, WorkAccounting, Placement, Fresh, Unfinished
<1>15. ASSUME NEW c \in Clients, StopReturns(c) PROVE WorkAccounting'
  BY <1>15, PoolFacts DEF StopReturns, WorkAccounting, Placement, Fresh, Unfinished
<1>16. ASSUME NEW c \in Clients, NEW w \in Works, Put(c, w) PROVE WorkAccounting'
  BY <1>16, PoolFacts DEF Put, WorkAccounting, Placement, Fresh, Unfinished
<1>17. ASSUME NEW c \in Clients, NEW w \in Works, CallWaitFor(c, w) PROVE WorkAccounting'
  BY <1>17, PoolFacts DEF CallWaitFor, WorkAccounting, Placement, Fresh, Unfinished
<1>18. ASSUME NEW c \in Clients, NEW r \in Roles, SetRole(c, r) PROVE WorkAccounting'
  BY <1>18, PoolFacts DEF SetRole, WorkAccounting, Placement, Fresh, Unfinished
<1>19. CASE UNCHANGED vars
  BY <1>19, PoolFacts DEF vars, shared, WorkAccounting, Placement, Fresh, Unfinished
<1> QED
  BY <1>1, <1>2, <1>3, <1>4, <1>5, <1>6, <1>7, <1>8, <1>9, <1>10, <1>11, <1>12, <1>13, <1>14, <1>15, <1>16, <1>17, <1>18, <1>19 DEF Next, WorkerStep, ClientStep

\* The role does not change under accepted work.
LEMMA RoleFrozenStep == IInv /\ [Next]_vars => RoleFrozen'
<1> SUFFICES ASSUME IInv, [Next]_vars PROVE RoleFrozen'
  OBVIOUS
<1> USE NodeAssumption DEF IInv, TypeOK, shared, Threads
<1>a. waiters \in Seq(Threads) /\ OneSleep /\ pool \in Seq(Works) /\ IsInjective(pool)
  BY DEF WorkAccounting
<1> USE <1>a
<1>1. CASE StartFails
  BY <1>1, PoolFacts DEF StartFails, RoleFrozen, Unfinished, IsBusy
<1>2. CASE CleanupJoins
  BY <1>2, PoolFacts DEF CleanupJoins, RoleFrozen, Unfinished, IsBusy
<1>3. CASE NoNode
  BY <1>3, PoolFacts DEF NoNode, vars, RoleFrozen, Unfinished, IsBusy
<1>4. ASSUME NEW t \in Workers, StartThread(t) PROVE RoleFrozen'
  BY <1>4, PoolFacts DEF StartThread, RoleFrozen, Unfinished, IsBusy
<1>5. ASSUME NEW t \in Workers, WorkerSleeps(t) PROVE RoleFrozen'
  BY <1>5, PoolFacts DEF WorkerSleeps, RoleFrozen, Unfinished, IsBusy
<1>6. ASSUME NEW t \in Workers, WorkerExits(t) PROVE RoleFrozen'
  BY <1>6, PoolFacts DEF WorkerExits, RoleFrozen, Unfinished, IsBusy
<1>7. ASSUME NEW t \in Workers, Take(t) PROVE RoleFrozen'
  BY <1>7, PoolFacts DEF Take, RoleFrozen, Unfinished, IsBusy
<1>8. ASSUME NEW t \in Workers, NEW outcome \in Outcomes, Finish(t, outcome) PROVE RoleFrozen'
  BY <1>8, PoolFacts DEF Finish, RoleFrozen, Unfinished, IsBusy
<1>9. ASSUME NEW c \in Clients, CallWaitAll(c) PROVE RoleFrozen'
  BY <1>9, PoolFacts DEF CallWaitAll, RoleFrozen, Unfinished, IsBusy
<1>10. ASSUME NEW c \in Clients, Stop(c) PROVE RoleFrozen'
  BY <1>10, PoolFacts DEF Stop, RoleFrozen, Unfinished, IsBusy
<1>11. ASSUME NEW c \in Clients, WaitForSleeps(c) PROVE RoleFrozen'
  BY <1>11, PoolFacts DEF WaitForSleeps, RoleFrozen, Unfinished, IsBusy
<1>12. ASSUME NEW c \in Clients, WaitForReturns(c) PROVE RoleFrozen'
  BY <1>12, PoolFacts DEF WaitForReturns, RoleFrozen, Unfinished, IsBusy
<1>13. ASSUME NEW c \in Clients, WaitAllSleeps(c) PROVE RoleFrozen'
  BY <1>13, PoolFacts DEF WaitAllSleeps, RoleFrozen, Unfinished, IsBusy
<1>14. ASSUME NEW c \in Clients, WaitAllReturns(c) PROVE RoleFrozen'
  BY <1>14, PoolFacts DEF WaitAllReturns, RoleFrozen, Unfinished, IsBusy
<1>15. ASSUME NEW c \in Clients, StopReturns(c) PROVE RoleFrozen'
  BY <1>15, PoolFacts DEF StopReturns, RoleFrozen, Unfinished, IsBusy
<1>16. ASSUME NEW c \in Clients, NEW w \in Works, Put(c, w) PROVE RoleFrozen'
  BY <1>16, PoolFacts DEF Put, RoleFrozen, Unfinished, IsBusy
<1>17. ASSUME NEW c \in Clients, NEW w \in Works, CallWaitFor(c, w) PROVE RoleFrozen'
  BY <1>17, PoolFacts DEF CallWaitFor, RoleFrozen, Unfinished, IsBusy
<1>18. ASSUME NEW c \in Clients, NEW r \in Roles, SetRole(c, r) PROVE RoleFrozen'
  BY <1>18, PoolFacts DEF SetRole, RoleFrozen, Unfinished, IsBusy
<1>19. CASE UNCHANGED vars
  BY <1>19, PoolFacts DEF vars, shared, RoleFrozen, Unfinished, IsBusy
<1> QED
  BY <1>1, <1>2, <1>3, <1>4, <1>5, <1>6, <1>7, <1>8, <1>9, <1>10, <1>11, <1>12, <1>13, <1>14, <1>15, <1>16, <1>17, <1>18, <1>19 DEF Next, WorkerStep, ClientStep

\* A taken work is run by the executor of the role that accepted it.
LEMMA RunsAsAcceptedStep == IInv /\ [Next]_vars => RunsAsAccepted'
<1> SUFFICES ASSUME IInv, [Next]_vars PROVE RunsAsAccepted'
  OBVIOUS
<1> USE NodeAssumption DEF IInv, TypeOK, shared, Threads
<1>a. waiters \in Seq(Threads) /\ OneSleep /\ pool \in Seq(Works) /\ IsInjective(pool)
  BY DEF WorkAccounting
<1> USE <1>a
<1>1. CASE StartFails
  BY <1>1, PoolFacts DEF StartFails, RunsAsAccepted, RoleFrozen, Placement, Unfinished, WorkAccounting, Fresh
<1>2. CASE CleanupJoins
  BY <1>2, PoolFacts DEF CleanupJoins, RunsAsAccepted, RoleFrozen, Placement, Unfinished, WorkAccounting, Fresh
<1>3. CASE NoNode
  BY <1>3, PoolFacts DEF NoNode, vars, RunsAsAccepted, RoleFrozen, Placement, Unfinished, WorkAccounting, Fresh
<1>4. ASSUME NEW t \in Workers, StartThread(t) PROVE RunsAsAccepted'
  BY <1>4, PoolFacts DEF StartThread, RunsAsAccepted, RoleFrozen, Placement, Unfinished, WorkAccounting, Fresh
<1>5. ASSUME NEW t \in Workers, WorkerSleeps(t) PROVE RunsAsAccepted'
  BY <1>5, PoolFacts DEF WorkerSleeps, RunsAsAccepted, RoleFrozen, Placement, Unfinished, WorkAccounting, Fresh
<1>6. ASSUME NEW t \in Workers, WorkerExits(t) PROVE RunsAsAccepted'
  BY <1>6, PoolFacts DEF WorkerExits, RunsAsAccepted, RoleFrozen, Placement, Unfinished, WorkAccounting, Fresh
<1>7. ASSUME NEW t \in Workers, Take(t) PROVE RunsAsAccepted'
  BY <1>7, PoolFacts DEF Take, RunsAsAccepted, RoleFrozen, Placement, Unfinished, WorkAccounting, Fresh
<1>8. ASSUME NEW t \in Workers, NEW outcome \in Outcomes, Finish(t, outcome) PROVE RunsAsAccepted'
  BY <1>8, PoolFacts DEF Finish, RunsAsAccepted, RoleFrozen, Placement, Unfinished, WorkAccounting, Fresh
<1>9. ASSUME NEW c \in Clients, CallWaitAll(c) PROVE RunsAsAccepted'
  BY <1>9, PoolFacts DEF CallWaitAll, RunsAsAccepted, RoleFrozen, Placement, Unfinished, WorkAccounting, Fresh
<1>10. ASSUME NEW c \in Clients, Stop(c) PROVE RunsAsAccepted'
  BY <1>10, PoolFacts DEF Stop, RunsAsAccepted, RoleFrozen, Placement, Unfinished, WorkAccounting, Fresh
<1>11. ASSUME NEW c \in Clients, WaitForSleeps(c) PROVE RunsAsAccepted'
  BY <1>11, PoolFacts DEF WaitForSleeps, RunsAsAccepted, RoleFrozen, Placement, Unfinished, WorkAccounting, Fresh
<1>12. ASSUME NEW c \in Clients, WaitForReturns(c) PROVE RunsAsAccepted'
  BY <1>12, PoolFacts DEF WaitForReturns, RunsAsAccepted, RoleFrozen, Placement, Unfinished, WorkAccounting, Fresh
<1>13. ASSUME NEW c \in Clients, WaitAllSleeps(c) PROVE RunsAsAccepted'
  BY <1>13, PoolFacts DEF WaitAllSleeps, RunsAsAccepted, RoleFrozen, Placement, Unfinished, WorkAccounting, Fresh
<1>14. ASSUME NEW c \in Clients, WaitAllReturns(c) PROVE RunsAsAccepted'
  BY <1>14, PoolFacts DEF WaitAllReturns, RunsAsAccepted, RoleFrozen, Placement, Unfinished, WorkAccounting, Fresh
<1>15. ASSUME NEW c \in Clients, StopReturns(c) PROVE RunsAsAccepted'
  BY <1>15, PoolFacts DEF StopReturns, RunsAsAccepted, RoleFrozen, Placement, Unfinished, WorkAccounting, Fresh
<1>16. ASSUME NEW c \in Clients, NEW w \in Works, Put(c, w) PROVE RunsAsAccepted'
  BY <1>16, PoolFacts DEF Put, RunsAsAccepted, RoleFrozen, Placement, Unfinished, WorkAccounting, Fresh
<1>17. ASSUME NEW c \in Clients, NEW w \in Works, CallWaitFor(c, w) PROVE RunsAsAccepted'
  BY <1>17, PoolFacts DEF CallWaitFor, RunsAsAccepted, RoleFrozen, Placement, Unfinished, WorkAccounting, Fresh
<1>18. ASSUME NEW c \in Clients, NEW r \in Roles, SetRole(c, r) PROVE RunsAsAccepted'
  BY <1>18, PoolFacts DEF SetRole, RunsAsAccepted, RoleFrozen, Placement, Unfinished, WorkAccounting, Fresh
<1>19. CASE UNCHANGED vars
  BY <1>19, PoolFacts DEF vars, shared, RunsAsAccepted, RoleFrozen, Placement, Unfinished, WorkAccounting, Fresh
<1> QED
  BY <1>1, <1>2, <1>3, <1>4, <1>5, <1>6, <1>7, <1>8, <1>9, <1>10, <1>11, <1>12, <1>13, <1>14, <1>15, <1>16, <1>17, <1>18, <1>19 DEF Next, WorkerStep, ClientStep

\* A client that sleeps has a reason to.
LEMMA NoDeafClientStep == IInv /\ [Next]_vars => NoDeafClient'
<1> SUFFICES ASSUME IInv, [Next]_vars PROVE NoDeafClient'
  OBVIOUS
<1> USE NodeAssumption DEF IInv, TypeOK, shared, Threads
<1>a. waiters \in Seq(Threads) /\ OneSleep /\ pool \in Seq(Works) /\ IsInjective(pool)
  BY DEF WorkAccounting
<1> USE <1>a
<1>1. CASE StartFails
  BY <1>1, SleepFacts, PoolFacts DEF StartFails, NoDeafClient, Placement, Unfinished, IsBusy, Construction, Calling
<1>2. CASE CleanupJoins
  BY <1>2, SleepFacts, PoolFacts DEF CleanupJoins, NoDeafClient, Placement, Unfinished, IsBusy, Construction, Calling
<1>3. CASE NoNode
  BY <1>3, SleepFacts, PoolFacts DEF NoNode, vars, NoDeafClient, Placement, Unfinished, IsBusy, Construction, Calling
<1>4. ASSUME NEW t \in Workers, StartThread(t) PROVE NoDeafClient'
  BY <1>4, SleepFacts, PoolFacts DEF StartThread, NoDeafClient, Placement, Unfinished, IsBusy, Construction, Calling
<1>5. ASSUME NEW t \in Workers, WorkerSleeps(t) PROVE NoDeafClient'
  BY <1>5, SleepFacts, PoolFacts DEF WorkerSleeps, NoDeafClient, Placement, Unfinished, IsBusy, Construction, Calling
<1>6. ASSUME NEW t \in Workers, WorkerExits(t) PROVE NoDeafClient'
  BY <1>6, SleepFacts, PoolFacts DEF WorkerExits, NoDeafClient, Placement, Unfinished, IsBusy, Construction, Calling
<1>7. ASSUME NEW t \in Workers, Take(t) PROVE NoDeafClient'
  BY <1>7, SleepFacts, PoolFacts DEF Take, NoDeafClient, Placement, Unfinished, IsBusy, Construction, Calling
<1>8. ASSUME NEW t \in Workers, NEW outcome \in Outcomes, Finish(t, outcome) PROVE NoDeafClient'
  BY <1>8, SleepFacts, PoolFacts DEF Finish, NoDeafClient, Placement, Unfinished, IsBusy, Construction, Calling
<1>9. ASSUME NEW c \in Clients, CallWaitAll(c) PROVE NoDeafClient'
  BY <1>9, SleepFacts, PoolFacts DEF CallWaitAll, NoDeafClient, Placement, Unfinished, IsBusy, Construction, Calling
<1>10. ASSUME NEW c \in Clients, Stop(c) PROVE NoDeafClient'
  BY <1>10, SleepFacts, PoolFacts DEF Stop, NoDeafClient, Placement, Unfinished, IsBusy, Construction, Calling
<1>11. ASSUME NEW c \in Clients, WaitForSleeps(c) PROVE NoDeafClient'
  BY <1>11, SleepFacts, PoolFacts DEF WaitForSleeps, NoDeafClient, Placement, Unfinished, IsBusy, Construction, Calling
<1>12. ASSUME NEW c \in Clients, WaitForReturns(c) PROVE NoDeafClient'
  BY <1>12, SleepFacts, PoolFacts DEF WaitForReturns, NoDeafClient, Placement, Unfinished, IsBusy, Construction, Calling
<1>13. ASSUME NEW c \in Clients, WaitAllSleeps(c) PROVE NoDeafClient'
  BY <1>13, SleepFacts, PoolFacts DEF WaitAllSleeps, NoDeafClient, Placement, Unfinished, IsBusy, Construction, Calling
<1>14. ASSUME NEW c \in Clients, WaitAllReturns(c) PROVE NoDeafClient'
  BY <1>14, SleepFacts, PoolFacts DEF WaitAllReturns, NoDeafClient, Placement, Unfinished, IsBusy, Construction, Calling
<1>15. ASSUME NEW c \in Clients, StopReturns(c) PROVE NoDeafClient'
  BY <1>15, SleepFacts, PoolFacts DEF StopReturns, NoDeafClient, Placement, Unfinished, IsBusy, Construction, Calling
<1>16. ASSUME NEW c \in Clients, NEW w \in Works, Put(c, w) PROVE NoDeafClient'
  BY <1>16, SleepFacts, PoolFacts DEF Put, NoDeafClient, Placement, Unfinished, IsBusy, Construction, Calling
<1>17. ASSUME NEW c \in Clients, NEW w \in Works, CallWaitFor(c, w) PROVE NoDeafClient'
  BY <1>17, SleepFacts, PoolFacts DEF CallWaitFor, NoDeafClient, Placement, Unfinished, IsBusy, Construction, Calling
<1>18. ASSUME NEW c \in Clients, NEW r \in Roles, SetRole(c, r) PROVE NoDeafClient'
  BY <1>18, SleepFacts, PoolFacts DEF SetRole, NoDeafClient, Placement, Unfinished, IsBusy, Construction, Calling
<1>19. CASE UNCHANGED vars
  BY <1>19, SleepFacts, PoolFacts DEF vars, shared, NoDeafClient, Placement, Unfinished, IsBusy, Construction, Calling
<1> QED
  BY <1>1, <1>2, <1>3, <1>4, <1>5, <1>6, <1>7, <1>8, <1>9, <1>10, <1>11, <1>12, <1>13, <1>14, <1>15, <1>16, <1>17, <1>18, <1>19 DEF Next, WorkerStep, ClientStep

\* A stopped Node has no sleeping worker.
LEMMA StoppedWakesStep == IInv /\ [Next]_vars => StoppedWakesWorkers'
<1> SUFFICES ASSUME IInv, [Next]_vars PROVE StoppedWakesWorkers'
  OBVIOUS
<1> USE NodeAssumption DEF IInv, TypeOK, shared, Threads
<1>a. waiters \in Seq(Threads) /\ OneSleep /\ pool \in Seq(Works) /\ IsInjective(pool)
  BY DEF WorkAccounting
<1> USE <1>a
<1>1. CASE StartFails
  BY <1>1, SleepFacts DEF StartFails, StoppedWakesWorkers, Placement
<1>2. CASE CleanupJoins
  BY <1>2, SleepFacts DEF CleanupJoins, StoppedWakesWorkers, Placement
<1>3. CASE NoNode
  BY <1>3, SleepFacts DEF NoNode, vars, StoppedWakesWorkers, Placement
<1>4. ASSUME NEW t \in Workers, StartThread(t) PROVE StoppedWakesWorkers'
  BY <1>4, SleepFacts DEF StartThread, StoppedWakesWorkers, Placement
<1>5. ASSUME NEW t \in Workers, WorkerSleeps(t) PROVE StoppedWakesWorkers'
  BY <1>5, SleepFacts DEF WorkerSleeps, StoppedWakesWorkers, Placement
<1>6. ASSUME NEW t \in Workers, WorkerExits(t) PROVE StoppedWakesWorkers'
  BY <1>6, SleepFacts DEF WorkerExits, StoppedWakesWorkers, Placement
<1>7. ASSUME NEW t \in Workers, Take(t) PROVE StoppedWakesWorkers'
  BY <1>7, SleepFacts DEF Take, StoppedWakesWorkers, Placement
<1>8. ASSUME NEW t \in Workers, NEW outcome \in Outcomes, Finish(t, outcome) PROVE StoppedWakesWorkers'
  BY <1>8, SleepFacts DEF Finish, StoppedWakesWorkers, Placement
<1>9. ASSUME NEW c \in Clients, CallWaitAll(c) PROVE StoppedWakesWorkers'
  BY <1>9, SleepFacts DEF CallWaitAll, StoppedWakesWorkers, Placement
<1>10. ASSUME NEW c \in Clients, Stop(c) PROVE StoppedWakesWorkers'
  BY <1>10, SleepFacts DEF Stop, StoppedWakesWorkers, Placement
<1>11. ASSUME NEW c \in Clients, WaitForSleeps(c) PROVE StoppedWakesWorkers'
  BY <1>11, SleepFacts DEF WaitForSleeps, StoppedWakesWorkers, Placement
<1>12. ASSUME NEW c \in Clients, WaitForReturns(c) PROVE StoppedWakesWorkers'
  BY <1>12, SleepFacts DEF WaitForReturns, StoppedWakesWorkers, Placement
<1>13. ASSUME NEW c \in Clients, WaitAllSleeps(c) PROVE StoppedWakesWorkers'
  BY <1>13, SleepFacts DEF WaitAllSleeps, StoppedWakesWorkers, Placement
<1>14. ASSUME NEW c \in Clients, WaitAllReturns(c) PROVE StoppedWakesWorkers'
  BY <1>14, SleepFacts DEF WaitAllReturns, StoppedWakesWorkers, Placement
<1>15. ASSUME NEW c \in Clients, StopReturns(c) PROVE StoppedWakesWorkers'
  BY <1>15, SleepFacts DEF StopReturns, StoppedWakesWorkers, Placement
<1>16. ASSUME NEW c \in Clients, NEW w \in Works, Put(c, w) PROVE StoppedWakesWorkers'
  BY <1>16, SleepFacts DEF Put, StoppedWakesWorkers, Placement
<1>17. ASSUME NEW c \in Clients, NEW w \in Works, CallWaitFor(c, w) PROVE StoppedWakesWorkers'
  BY <1>17, SleepFacts DEF CallWaitFor, StoppedWakesWorkers, Placement
<1>18. ASSUME NEW c \in Clients, NEW r \in Roles, SetRole(c, r) PROVE StoppedWakesWorkers'
  BY <1>18, SleepFacts DEF SetRole, StoppedWakesWorkers, Placement
<1>19. CASE UNCHANGED vars
  BY <1>19, SleepFacts DEF vars, shared, StoppedWakesWorkers, Placement
<1> QED
  BY <1>1, <1>2, <1>3, <1>4, <1>5, <1>6, <1>7, <1>8, <1>9, <1>10, <1>11, <1>12, <1>13, <1>14, <1>15, <1>16, <1>17, <1>18, <1>19 DEF Next, WorkerStep, ClientStep

\* Answers agree with the record.
LEMMA AnswersStep == IInv /\ [Next]_vars => AnswersAreTrue'
<1> SUFFICES ASSUME IInv, [Next]_vars PROVE AnswersAreTrue'
  OBVIOUS
<1> USE NodeAssumption DEF IInv, TypeOK, shared, Threads
<1>a. waiters \in Seq(Threads) /\ OneSleep /\ pool \in Seq(Works) /\ IsInjective(pool)
  BY DEF WorkAccounting
<1> USE <1>a
<1>1. CASE StartFails
  BY <1>1 DEF StartFails, AnswersAreTrue, Placement, Unfinished, Fresh, WorkAccounting
<1>2. CASE CleanupJoins
  BY <1>2 DEF CleanupJoins, AnswersAreTrue, Placement, Unfinished, Fresh, WorkAccounting
<1>3. CASE NoNode
  BY <1>3 DEF NoNode, vars, AnswersAreTrue, Placement, Unfinished, Fresh, WorkAccounting
<1>4. ASSUME NEW t \in Workers, StartThread(t) PROVE AnswersAreTrue'
  BY <1>4 DEF StartThread, AnswersAreTrue, Placement, Unfinished, Fresh, WorkAccounting
<1>5. ASSUME NEW t \in Workers, WorkerSleeps(t) PROVE AnswersAreTrue'
  BY <1>5 DEF WorkerSleeps, AnswersAreTrue, Placement, Unfinished, Fresh, WorkAccounting
<1>6. ASSUME NEW t \in Workers, WorkerExits(t) PROVE AnswersAreTrue'
  BY <1>6 DEF WorkerExits, AnswersAreTrue, Placement, Unfinished, Fresh, WorkAccounting
<1>7. ASSUME NEW t \in Workers, Take(t) PROVE AnswersAreTrue'
  BY <1>7 DEF Take, AnswersAreTrue, Placement, Unfinished, Fresh, WorkAccounting
<1>8. ASSUME NEW t \in Workers, NEW outcome \in Outcomes, Finish(t, outcome) PROVE AnswersAreTrue'
  BY <1>8 DEF Finish, AnswersAreTrue, Placement, Unfinished, Fresh, WorkAccounting
<1>9. ASSUME NEW c \in Clients, CallWaitAll(c) PROVE AnswersAreTrue'
  BY <1>9 DEF CallWaitAll, AnswersAreTrue, Placement, Unfinished, Fresh, WorkAccounting
<1>10. ASSUME NEW c \in Clients, Stop(c) PROVE AnswersAreTrue'
  BY <1>10 DEF Stop, AnswersAreTrue, Placement, Unfinished, Fresh, WorkAccounting
<1>11. ASSUME NEW c \in Clients, WaitForSleeps(c) PROVE AnswersAreTrue'
  BY <1>11 DEF WaitForSleeps, AnswersAreTrue, Placement, Unfinished, Fresh, WorkAccounting
<1>12. ASSUME NEW c \in Clients, WaitForReturns(c) PROVE AnswersAreTrue'
  BY <1>12 DEF WaitForReturns, AnswersAreTrue, Placement, Unfinished, Fresh, WorkAccounting
<1>13. ASSUME NEW c \in Clients, WaitAllSleeps(c) PROVE AnswersAreTrue'
  BY <1>13 DEF WaitAllSleeps, AnswersAreTrue, Placement, Unfinished, Fresh, WorkAccounting
<1>14. ASSUME NEW c \in Clients, WaitAllReturns(c) PROVE AnswersAreTrue'
  BY <1>14 DEF WaitAllReturns, AnswersAreTrue, Placement, Unfinished, Fresh, WorkAccounting
<1>15. ASSUME NEW c \in Clients, StopReturns(c) PROVE AnswersAreTrue'
  BY <1>15 DEF StopReturns, AnswersAreTrue, Placement, Unfinished, Fresh, WorkAccounting
<1>16. ASSUME NEW c \in Clients, NEW w \in Works, Put(c, w) PROVE AnswersAreTrue'
  BY <1>16 DEF Put, AnswersAreTrue, Placement, Unfinished, Fresh, WorkAccounting
<1>17. ASSUME NEW c \in Clients, NEW w \in Works, CallWaitFor(c, w) PROVE AnswersAreTrue'
  BY <1>17 DEF CallWaitFor, AnswersAreTrue, Placement, Unfinished, Fresh, WorkAccounting
<1>18. ASSUME NEW c \in Clients, NEW r \in Roles, SetRole(c, r) PROVE AnswersAreTrue'
  BY <1>18 DEF SetRole, AnswersAreTrue, Placement, Unfinished, Fresh, WorkAccounting
<1>19. CASE UNCHANGED vars
  BY <1>19 DEF vars, shared, AnswersAreTrue, Placement, Unfinished, Fresh, WorkAccounting
<1> QED
  BY <1>1, <1>2, <1>3, <1>4, <1>5, <1>6, <1>7, <1>8, <1>9, <1>10, <1>11, <1>12, <1>13, <1>14, <1>15, <1>16, <1>17, <1>18, <1>19 DEF Next, WorkerStep, ClientStep

\* A filled pool has a worker coming to it.
LEMMA QueueHasTakerStep == IInv /\ [Next]_vars => QueueHasTaker'
<1> SUFFICES ASSUME IInv, [Next]_vars PROVE QueueHasTaker'
  OBVIOUS
<1> USE NodeAssumption DEF IInv, TypeOK, shared, Threads
<1>a. waiters \in Seq(Threads) /\ OneSleep /\ pool \in Seq(Works) /\ IsInjective(pool)
  BY DEF WorkAccounting
<1> USE <1>a
<1>1. CASE StartFails
  BY <1>1, SleepFacts, PoolFacts DEF StartFails, QueueHasTaker, Placement, Construction, WorkerPlaces, WorkAccounting, NoDeafClient, IsBusy
<1>2. CASE CleanupJoins
  BY <1>2, SleepFacts, PoolFacts DEF CleanupJoins, QueueHasTaker, Placement, Construction, WorkerPlaces, WorkAccounting, NoDeafClient, IsBusy
<1>3. CASE NoNode
  BY <1>3, SleepFacts, PoolFacts DEF NoNode, vars, QueueHasTaker, Placement, Construction, WorkerPlaces, WorkAccounting, NoDeafClient, IsBusy
<1>4. ASSUME NEW t \in Workers, StartThread(t) PROVE QueueHasTaker'
  BY <1>4, SleepFacts, PoolFacts DEF StartThread, QueueHasTaker, Placement, Construction, WorkerPlaces, WorkAccounting, NoDeafClient, IsBusy
<1>5. ASSUME NEW t \in Workers, WorkerSleeps(t) PROVE QueueHasTaker'
  BY <1>5, SleepFacts, PoolFacts DEF WorkerSleeps, QueueHasTaker, Placement, Construction, WorkerPlaces, WorkAccounting, NoDeafClient, IsBusy
<1>6. ASSUME NEW t \in Workers, WorkerExits(t) PROVE QueueHasTaker'
  BY <1>6, SleepFacts, PoolFacts DEF WorkerExits, QueueHasTaker, Placement, Construction, WorkerPlaces, WorkAccounting, NoDeafClient, IsBusy
<1>7. ASSUME NEW t \in Workers, Take(t) PROVE QueueHasTaker'
  BY <1>7, SleepFacts, PoolFacts DEF Take, QueueHasTaker, Placement, Construction, WorkerPlaces, WorkAccounting, NoDeafClient, IsBusy
<1>8. ASSUME NEW t \in Workers, NEW outcome \in Outcomes, Finish(t, outcome) PROVE QueueHasTaker'
  BY <1>8, SleepFacts, PoolFacts DEF Finish, QueueHasTaker, Placement, Construction, WorkerPlaces, WorkAccounting, NoDeafClient, IsBusy
<1>9. ASSUME NEW c \in Clients, CallWaitAll(c) PROVE QueueHasTaker'
  BY <1>9, SleepFacts, PoolFacts DEF CallWaitAll, QueueHasTaker, Placement, Construction, WorkerPlaces, WorkAccounting, NoDeafClient, IsBusy
<1>10. ASSUME NEW c \in Clients, Stop(c) PROVE QueueHasTaker'
  BY <1>10, SleepFacts, PoolFacts DEF Stop, QueueHasTaker, Placement, Construction, WorkerPlaces, WorkAccounting, NoDeafClient, IsBusy
<1>11. ASSUME NEW c \in Clients, WaitForSleeps(c) PROVE QueueHasTaker'
  BY <1>11, SleepFacts, PoolFacts DEF WaitForSleeps, QueueHasTaker, Placement, Construction, WorkerPlaces, WorkAccounting, NoDeafClient, IsBusy
<1>12. ASSUME NEW c \in Clients, WaitForReturns(c) PROVE QueueHasTaker'
  BY <1>12, SleepFacts, PoolFacts DEF WaitForReturns, QueueHasTaker, Placement, Construction, WorkerPlaces, WorkAccounting, NoDeafClient, IsBusy
<1>13. ASSUME NEW c \in Clients, WaitAllSleeps(c) PROVE QueueHasTaker'
  BY <1>13, SleepFacts, PoolFacts DEF WaitAllSleeps, QueueHasTaker, Placement, Construction, WorkerPlaces, WorkAccounting, NoDeafClient, IsBusy
<1>14. ASSUME NEW c \in Clients, WaitAllReturns(c) PROVE QueueHasTaker'
  BY <1>14, SleepFacts, PoolFacts DEF WaitAllReturns, QueueHasTaker, Placement, Construction, WorkerPlaces, WorkAccounting, NoDeafClient, IsBusy
<1>15. ASSUME NEW c \in Clients, StopReturns(c) PROVE QueueHasTaker'
  BY <1>15, SleepFacts, PoolFacts DEF StopReturns, QueueHasTaker, Placement, Construction, WorkerPlaces, WorkAccounting, NoDeafClient, IsBusy
<1>16. ASSUME NEW c \in Clients, NEW w \in Works, Put(c, w) PROVE QueueHasTaker'
  <2>1. ctor = "ready" /\ ~isStopped /\ UNCHANGED pc
    BY <1>16 DEF Put, Calling
  <2>2. \A t \in Workers : pc[t] \in {"loop", "execute"}
    BY <2>1 DEF Construction, Placement, WorkerPlaces
  <2>3. CASE \E t \in Workers : ~Asleep(t)
    <3>1. \A t \in Threads : Asleep(t)' => Asleep(t)
      BY <1>16, SleepFacts DEF Put
    <3> QED
      BY <2>1, <2>2, <2>3, <3>1 DEF QueueHasTaker
  <2>4. CASE \A t \in Workers : Asleep(t)
    <3>1. pool = <<>> /\ current = {}
      BY <2>4 DEF QueueHasTaker, WorkAccounting, Placement
    <3>2. \A c1 \in Clients : ~Asleep(c1)
      BY <3>1, PoolFacts DEF NoDeafClient, Unfinished, IsBusy
    <3>3. waiters # <<>>
      BY <2>4, SleepFacts
    <3>4. PICK h \in Threads : h = Head(waiters)
      BY <1>16, <3>3, SleepFacts DEF Put
    <3>5. Asleep(h) /\ ~Asleep(h)'
      BY <1>16, <3>3, <3>4, SleepFacts DEF Put
    <3>6. h \in Workers
      BY <3>2, <3>5
    <3> QED
      BY <2>1, <2>2, <3>5, <3>6 DEF QueueHasTaker
  <2> QED
    BY <2>3, <2>4
<1>17. ASSUME NEW c \in Clients, NEW w \in Works, CallWaitFor(c, w) PROVE QueueHasTaker'
  BY <1>17, SleepFacts, PoolFacts DEF CallWaitFor, QueueHasTaker, Placement, Construction, WorkerPlaces, WorkAccounting, NoDeafClient, IsBusy
<1>18. ASSUME NEW c \in Clients, NEW r \in Roles, SetRole(c, r) PROVE QueueHasTaker'
  BY <1>18, SleepFacts, PoolFacts DEF SetRole, QueueHasTaker, Placement, Construction, WorkerPlaces, WorkAccounting, NoDeafClient, IsBusy
<1>19. CASE UNCHANGED vars
  BY <1>19, SleepFacts, PoolFacts DEF vars, shared, QueueHasTaker, Placement, Construction, WorkerPlaces, WorkAccounting, NoDeafClient, IsBusy
<1> QED
  BY <1>1, <1>2, <1>3, <1>4, <1>5, <1>6, <1>7, <1>8, <1>9, <1>10, <1>11, <1>12, <1>13, <1>14, <1>15, <1>16, <1>17, <1>18, <1>19 DEF Next, WorkerStep, ClientStep
-----------------------------------------------------------------------------
\* The invariant holds at the start ...
LEMMA InitIInv == Init => IInv
<1> SUFFICES ASSUME Init PROVE IInv
  OBVIOUS
<1> USE NodeAssumption DEF Init, Threads
<1>1. TypeOK
  <2>1. pool \in Seq(Works) /\ waiters \in Seq(Threads)
    OBVIOUS
  <2>2. answer \in [Clients -> {<<>>} \cup (Works \X Outcomes)]
    OBVIOUS
  <2>3. job \in [Threads -> Works \cup {NoWork}] /\ acceptedAs \in [Works -> Roles \cup {NoRole}]
    OBVIOUS
  <2> QED
    BY <2>1, <2>2, <2>3 DEF TypeOK
<1>2. /\ \A t : ~Asleep(t)
      /\ \A w : ~Pooled(w)
      /\ OneSleep /\ IsInjective(pool)
  BY DEF Asleep, Pooled, Contains, OneSleep, IsInjective
<1>3. Placement
  BY <1>2 DEF Placement, WorkerPlaces, ClientPlaces
<1>4. Construction
  BY DEF Construction
<1>5. WorkAccounting /\ RoleFrozen /\ RunsAsAccepted
  BY <1>2 DEF WorkAccounting, RoleFrozen, RunsAsAccepted, Unfinished
<1>6. NoDeafClient /\ QueueHasTaker /\ StoppedWakesWorkers /\ AnswersAreTrue
  BY <1>2 DEF NoDeafClient, QueueHasTaker, StoppedWakesWorkers, AnswersAreTrue
<1> QED
  BY <1>1, <1>2, <1>3, <1>4, <1>5, <1>6 DEF IInv

\* ... every step preserves it ...
LEMMA StepIInv == IInv /\ [Next]_vars => IInv'
  BY TypeStep, PlacementStep, ConstructionStep, OneSleepStep, AccountingStep,
     RoleFrozenStep, RunsAsAcceptedStep, NoDeafClientStep, QueueHasTakerStep,
     StoppedWakesStep, AnswersStep
  DEF IInv

\* ... so it holds of every reachable state.
LEMMA Invariance == Spec => []IInv
  BY InitIInv, StepIInv, PTL DEF Spec

\* The variables of Node keep their types (the state built by Node.__init__).
THEOREM TypeCorrect == Spec => []TypeOK
  BY Invariance, PTL DEF IInv

\* No submission is lost, run twice or recorded with two outcomes, however
\* many threads put and take work (put, _run and its finally block).
THEOREM NoWorkLostOrDoubled == Spec => []WorkAccounting
  BY Invariance, PTL DEF IInv

\* The executor that _run reads when it takes a work is the one of the role
\* that accepted the work, because set_role refuses a busy Node.
THEOREM RoleStable == Spec => []RunsAsAccepted
  BY Invariance, PTL DEF IInv

\* No client sleeps in wait_for or wait_all when what it waits for is over.
THEOREM ClientsAreWoken == Spec => []NoDeafClient
  BY Invariance, PTL DEF IInv

\* The single notify of put may wake a client, yet queued work always has a
\* worker that is awake: a client sleeps only while work is unfinished.
THEOREM PoolIsServed == Spec => []QueueHasTaker
  BY Invariance, PTL DEF IInv

\* stop wakes every worker and none falls asleep after it.
THEOREM StopReachesWorkers == Spec => []StoppedWakesWorkers
  BY Invariance, PTL DEF IInv

\* What wait_for returned agrees with _worked and _failed for ever after.
THEOREM AnswersHold == Spec => []AnswersAreTrue
  BY Invariance, PTL DEF IInv

\* With one worker thread the pool never waits beside a sleeping worker: the
\* lost wakeup of put needs two workers.
THEOREM SingleWorkerConserves ==
  ASSUME \A t, u \in Workers : t = u
  PROVE  Spec => []WorkConserving
<1>1. IInv => WorkConserving
  BY DEF IInv, QueueHasTaker, WorkConserving
<1> QED
  BY <1>1, Invariance, PTL

-----------------------------------------------------------------------------
(* Node implements NodeContract.                                           *)

\* StatusOf names the one place a work is in.
LEMMA StatusFacts ==
  ASSUME WorkAccounting, NEW w \in Works
  PROVE  /\ Status[w] = "queued" <=> Pooled(w)
         /\ Status[w] = "running" <=> w \in current
         /\ Status[w] = "completed" <=> w \in worked
         /\ Status[w] = "failed" <=> w \in failed
         /\ Status[w] = "new" <=> Fresh(w)
         /\ Status[w] = StatusOf(w)
<1>1. Pooled(w) => w \notin current \cup worked \cup failed
  BY DEF WorkAccounting
<1>2. /\ w \in current => w \notin worked \cup failed
      /\ w \in worked => w \notin failed
  BY DEF WorkAccounting
<1>3. Status[w] = StatusOf(w)
  BY DEF Status
<1> QED
  BY <1>1, <1>2, <1>3 DEF StatusOf, Fresh, Unfinished

\* A step that moves only the work w changes Status only at w.
LEMMA StatusMoves ==
  ASSUME NEW w \in Works, NEW new,
         StatusOf(w)' = new,
         \A u \in Works \ {w} : StatusOf(u)' = StatusOf(u)
  PROVE  Status' = [Status EXCEPT ![w] = new]
  BY DEF Status

\* A new Node is a new contract.
LEMMA InitRefines == Init => Contract!Init
<1> SUFFICES ASSUME Init PROVE Contract!Init
  OBVIOUS
<1>1. \A w \in Works : StatusOf(w) = "new"
  BY DEF Init, StatusOf, Pooled, Contains
<1> QED
  BY <1>1 DEF Init, Contract!Init, Status

\* A step of a thread is a step of the contract or changes nothing in it.
LEMMA StepRefines == IInv /\ [Next]_vars => [Contract!Next]_(Contract!vars)
<1> SUFFICES ASSUME IInv, [Next]_vars PROVE [Contract!Next]_(Contract!vars)
  OBVIOUS
<1> USE DEF shared
<1>a. /\ pool \in Seq(Works) /\ IsInjective(pool) /\ WorkAccounting /\ TypeOK
  BY DEF IInv, TypeOK, WorkAccounting
<1>1. ASSUME UNCHANGED <<shared, answer, acceptedAs>>
      PROVE  UNCHANGED Contract!vars
  <2>1. Status' = Status
    BY <1>1 DEF Status, StatusOf, Pooled
  <2> QED
    BY <1>1, <2>1 DEF Contract!vars
<1>2. ASSUME isStopped' = TRUE,
             UNCHANGED <<role, pool, current, worked, failed, answer, acceptedAs>>
      PROVE  Contract!Next
  <2>1. Status' = Status
    BY <1>2 DEF Status, StatusOf, Pooled
  <2> QED
    BY <1>2, <2>1 DEF Contract!Next, Contract!Stop
<1>3. ASSUME NEW c \in Clients, NEW w \in Works, Put(c, w) PROVE Contract!Next
  <2>1. Status[w] = "new"
    BY <1>3, <1>a, StatusFacts DEF Put
  <2>2. StatusOf(w)' = "queued"
    BY <1>3, <1>a, PoolFacts DEF Put, StatusOf, Fresh, Unfinished
  <2>3. \A u \in Works \ {w} : StatusOf(u)' = StatusOf(u)
    BY <1>3, <1>a, PoolFacts DEF Put, StatusOf
  <2>4. Status' = [Status EXCEPT ![w] = "queued"]
    BY <2>2, <2>3, StatusMoves
  <2>5. Contract!Accept(w)
    BY <1>3, <2>1, <2>4 DEF Put, Contract!Accept
  <2> QED
    BY <2>5 DEF Contract!Next
<1>4. ASSUME NEW t \in Workers, Take(t) PROVE Contract!Next
  <2>1. PICK w \in Works : w = Head(pool) /\ Pooled(w)
    BY <1>4, <1>a, PoolFacts DEF Take
  <2>2. Status[w] = "queued" /\ acceptedAs[w] = role
    BY <2>1, <1>a, StatusFacts DEF IInv, RoleFrozen, Unfinished
  <2>3. w \notin worked \cup failed
    BY <2>1, <1>a DEF WorkAccounting
  <2>4. StatusOf(w)' = "running"
    <3>1. w \in current' /\ w \notin worked' /\ w \notin failed' /\ ~Pooled(w)'
      BY <1>4, <1>a, <2>1, <2>3, PoolFacts DEF Take
    <3> QED
      BY <3>1 DEF StatusOf
  <2>5. \A u \in Works \ {w} : StatusOf(u)' = StatusOf(u)
    BY <1>4, <1>a, <2>1, PoolFacts DEF Take, StatusOf
  <2>6. Status' = [Status EXCEPT ![w] = "running"]
    BY <2>4, <2>5, StatusMoves
  <2>7. Contract!Begin(w)
    BY <1>4, <2>1, <2>2, <2>6 DEF Take, Contract!Begin
  <2> QED
    BY <2>7 DEF Contract!Next
<1>5. ASSUME NEW t \in Workers, NEW outcome \in Outcomes, Finish(t, outcome)
      PROVE  Contract!Next
  <2>1. PICK w \in Works : w = job[t] /\ w \in current
    BY <1>5, <1>a DEF Finish, WorkAccounting, TypeOK
  <2>2. Status[w] = "running" /\ w \notin worked \cup failed /\ ~Pooled(w)
    BY <2>1, <1>a, StatusFacts DEF WorkAccounting
  <2>3. StatusOf(w)' = outcome
    <3>1. w \notin current' /\ ~Pooled(w)'
      BY <1>5, <1>a, <2>1, <2>2, PoolFacts DEF Finish
    <3>2. CASE outcome = "completed"
      <4>1. w \in worked' /\ w \notin failed'
        BY <1>5, <2>1, <2>2, <3>2 DEF Finish
      <4> QED
        BY <3>1, <3>2, <4>1 DEF StatusOf
    <3>3. CASE outcome = "failed"
      <4>1. w \in failed' /\ w \notin worked'
        BY <1>5, <2>1, <2>2, <3>3 DEF Finish
      <4> QED
        BY <3>1, <3>3, <4>1 DEF StatusOf
    <3> QED
      BY <1>5, <3>2, <3>3 DEF Outcomes
  <2>4. \A u \in Works \ {w} : StatusOf(u)' = StatusOf(u)
    BY <1>5, <2>1 DEF Finish, StatusOf, Pooled
  <2>5. Status' = [Status EXCEPT ![w] = outcome]
    BY <2>3, <2>4, StatusMoves
  <2>6. Contract!Finish(w, outcome) /\ outcome \in Contract!Outcomes
    BY <1>5, <2>2, <2>5 DEF Finish, Contract!Finish, Outcomes, Contract!Outcomes
  <2> QED
    BY <2>6 DEF Contract!Next
<1>6. ASSUME NEW c \in Clients, NEW r \in Roles, SetRole(c, r) PROVE Contract!Next
  <2>1. ~Contract!Busy
    BY <1>6, <1>a, StatusFacts, PoolFacts DEF SetRole, IsBusy, Contract!Busy
  <2>2. Status' = Status
    BY <1>6 DEF SetRole, Status, StatusOf, Pooled
  <2> QED
    BY <1>6, <2>1, <2>2 DEF SetRole, Contract!ChangeRole, Contract!Next
<1>7. ASSUME NEW c \in Clients, WaitForReturns(c) PROVE Contract!Next
  <2>1. PICK w \in Works : w = job[c] /\ w \in worked \cup failed
    BY <1>7 DEF WaitForReturns, IInv, Placement, Fresh
  <2>2. Status[w] \in Outcomes
        /\ Status[w] = IF w \in failed THEN "failed" ELSE "completed"
    BY <2>1, <1>a, StatusFacts DEF Outcomes
  <2>3. Status' = Status
    BY <1>7 DEF WaitForReturns, Status, StatusOf, Pooled
  <2>4. Contract!Answer(c, w)
    BY <1>7, <2>1, <2>2, <2>3
    DEF WaitForReturns, Contract!Answer, Outcomes, Contract!Outcomes
  <2> QED
    BY <2>4 DEF Contract!Next
<1>8. ASSUME NEW t \in Workers, StartThread(t) \/ WorkerSleeps(t) \/ WorkerExits(t)
      PROVE  UNCHANGED Contract!vars
  BY <1>1, <1>8 DEF StartThread, WorkerSleeps, WorkerExits
<1>9. ASSUME NEW c \in Clients,
             \/ CallWaitAll(c) \/ WaitForSleeps(c) \/ WaitAllSleeps(c)
             \/ WaitAllReturns(c) \/ StopReturns(c)
      PROVE  UNCHANGED Contract!vars
  BY <1>1, <1>9
  DEF CallWaitAll, WaitForSleeps, WaitAllSleeps, WaitAllReturns, StopReturns
<1>10. ASSUME NEW c \in Clients, NEW w \in Works, CallWaitFor(c, w)
       PROVE  UNCHANGED Contract!vars
  BY <1>1, <1>10 DEF CallWaitFor
<1>11. CleanupJoins \/ NoNode \/ UNCHANGED vars => UNCHANGED Contract!vars
  BY <1>1 DEF CleanupJoins, NoNode, vars
<1>12. StartFails => Contract!Next
  BY <1>2 DEF StartFails
<1>13. ASSUME NEW c \in Clients, Stop(c) PROVE Contract!Next
  BY <1>2, <1>13 DEF Stop
<1> QED
  BY <1>3, <1>4, <1>5, <1>6, <1>7, <1>8, <1>9, <1>10, <1>11, <1>12, <1>13
  DEF Next, WorkerStep, ClientStep

\* Node implements NodeContract: to its callers the Node with its threads and
\* its condition variable is a FIFO of works with one outcome each.
THEOREM NodeImplementsContract == Spec => ImplementsContract
  BY InitRefines, StepRefines, Invariance, PTL
  DEF Spec, ImplementsContract, Contract!Spec

=============================================================================
