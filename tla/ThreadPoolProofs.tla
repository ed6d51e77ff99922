-------------------------- MODULE ThreadPoolProofs --------------------------
(***************************************************************************)
(* Proofs about ThreadPool, for any number of threads and tasks and any     *)
(* thread-workers and thread-limit the constructor accepts: it never waits  *)
(* for a lost wake-up, and built without NDEBUG it implements TaskPool.     *)
(***************************************************************************)
EXTENDS ThreadPool, QueueFacts, FiniteSetTheorems, FunctionTheorems, TLAPS

-----------------------------------------------------------------------------
(* The arithmetic of CheckResize.                                           *)

\* size_t subtraction gives a size_t, and the difference when it does not wrap.
LEMMA MinusFact ==
    ASSUME NEW a \in Nat, NEW b \in Nat
    PROVE  /\ Minus(a, b) \in Nat
           /\ b <= a /\ a < SizeMod => Minus(a, b) = a - b
<1>1. SizeMod \in Nat /\ SizeMod > 0
  <2>1. Cardinality(Task) \in Nat /\ Cardinality(Worker) \in Nat
    BY PoolAssumption, SizeAssumption, FS_CardinalityType
  <2> QED BY <2>1, PoolAssumption, SizeAssumption
<1>2. (a - b) % SizeMod \in Nat
  BY <1>1
<1>3. ASSUME b <= a, a < SizeMod PROVE (a - b) % SizeMod = a - b
  BY <1>1, <1>3
<1> QED BY <1>2, <1>3 DEF Minus

\* CheckResize asks for a number of workers.
LEMMA NewWorkerCountType ==
    ASSUME NEW n \in Nat, NEW t \in Nat, NEW b \in Nat
    PROVE  /\ Shortage(n, t, b) \in Nat
           /\ NewWorkerCount(n, t, b) \in Nat
<1> DEFINE available == Minus(n, b)
<1>1. available \in Nat
  BY MinusFact
<1>2. Minus(t, available) \in Nat /\ Minus(PoolMaxWorkers, n) \in Nat
  BY <1>1, MinusFact, PoolAssumption
<1>3. ASSUME NEW k \in Nat
      PROVE  ((k + (PoolInitWorkers - 1)) \div PoolInitWorkers) * PoolInitWorkers \in Nat
  <2>1. (k + (PoolInitWorkers - 1)) \in Nat
    BY PoolAssumption
  <2>2. (k + (PoolInitWorkers - 1)) \div PoolInitWorkers \in Nat
    BY <2>1, PoolAssumption
  <2> QED BY <2>2, PoolAssumption
<1>4. Shortage(n, t, b) \in Nat
  BY <1>1, <1>2, <1>3 DEF Shortage
<1> QED BY <1>2, <1>4 DEF NewWorkerCount

\* It never asks for more than the limit leaves.
LEMMA NewWorkerCountBound ==
    ASSUME NEW n \in Nat, NEW t \in Nat, NEW b \in Nat, n <= PoolMaxWorkers
    PROVE  n + NewWorkerCount(n, t, b) <= PoolMaxWorkers
<1>1. PoolMaxWorkers < SizeMod
  <2>1. Cardinality(Task) \in Nat /\ Cardinality(Worker) \in Nat
    BY PoolAssumption, SizeAssumption, FS_CardinalityType
  <2> QED BY <2>1, PoolAssumption, SizeAssumption
<1>2. Minus(PoolMaxWorkers, n) = PoolMaxWorkers - n
  BY <1>1, MinusFact, PoolAssumption
<1>3. Shortage(n, t, b) \in Nat
  BY NewWorkerCountType
<1> QED BY <1>2, <1>3, PoolAssumption DEF NewWorkerCount

-----------------------------------------------------------------------------
(* Sets of threads.                                                         *)

\* There are finitely many threads.
LEMMA ThreadsFinite ==
    ASSUME NEW S
    PROVE  IsFiniteSet(ThreadsIn(S)) /\ Cardinality(ThreadsIn(S)) \in Nat
<1>1. ThreadsIn(S) \in SUBSET Worker
  BY DEF ThreadsIn
<1>2. IsFiniteSet(ThreadsIn(S))
  BY <1>1, PoolAssumption, FS_Subset
<1> QED BY <1>2, FS_CardinalityType

\* A worker that moves from a state in S to a state in T moves from one set to
\* the other.
LEMMA ThreadMoves ==
    ASSUME NEW w \in Worker, NEW s, NEW S,
           thread \in [Worker -> ThreadState],
           thread' = [thread EXCEPT ![w] = s]
    PROVE  ThreadsIn(S)' = IF s \in S THEN ThreadsIn(S) \cup {w} ELSE ThreadsIn(S) \ {w}
BY DEF ThreadsIn

-----------------------------------------------------------------------------
(* Type correctness.  PoolBusyWorkers stays a natural number because it     *)
(* counts the workers between their increment and their decrement.          *)

Busy == ThreadsIn({"running", "returned"})
BusyCount == PoolBusyWorkers = Cardinality(Busy)

\* A worker that popped a task holds it until task() returns.
HasTask == \A w \in Worker : thread[w] \in {"popped", "running"} => task[w] \in Task

TypeInv == TypeOK /\ BusyCount /\ HasTask

\* The constructor of the pool establishes the type invariant.
LEMMA InitTypeInv == Init => TypeInv
<1> SUFFICES ASSUME Init PROVE TypeInv
  OBVIOUS
<1>1. TypeOK
  <2>1. PoolYet \in BOOLEAN /\ aborted \in BOOLEAN
    BY DEF Init
  <2>2. PoolTasks \in Seq(Task) /\ PoolWorkers \subseteq Worker /\ done \subseteq Task
    BY DEF Init
  <2>3. thread \in [Worker -> ThreadState]
    BY DEF Init, ThreadState
  <2>4. type \in [Worker -> WorkerType] /\ task \in [Worker -> Task \cup {NoTask}]
    BY DEF Init, WorkerType
  <2>5. main \in MainState /\ PoolBusyWorkers \in Nat /\ numWorkers \in Nat
        /\ numTasks \in Nat /\ newWorkerCount \in Nat
    BY DEF Init, MainState
  <2> QED BY <2>1, <2>2, <2>3, <2>4, <2>5 DEF TypeOK
<1>2. Busy = {}
  BY DEF Init, Busy, ThreadsIn
<1>3. BusyCount
  BY <1>2, FS_EmptySet DEF Init, BusyCount
<1>4. HasTask
  BY DEF Init, HasTask
<1> QED BY <1>1, <1>3, <1>4 DEF TypeInv

\* A step of a worker that leaves the counter alone leaves the set it counts.
LEMMA BusyKept ==
    ASSUME TypeInv, NEW w \in Worker, NEW s \in ThreadState,
           thread' = [thread EXCEPT ![w] = s],
           thread[w] \in {"running", "returned"} <=> s \in {"running", "returned"},
           UNCHANGED PoolBusyWorkers
    PROVE  BusyCount'
<1>1. Busy' = Busy
  BY DEF TypeInv, TypeOK, Busy, ThreadsIn
<1> QED BY <1>1 DEF TypeInv, BusyCount

\* Every step of Enqueue, CheckResize, Hire, Join and of a worker keeps it.
LEMMA NextTypeInv == TypeInv /\ [Next]_vars => TypeInv'
<1> SUFFICES ASSUME TypeInv, [Next]_vars PROVE TypeInv'
  OBVIOUS
<1> USE DEF TypeInv
<1>1. ASSUME NEW t \in Task, EnqueueLocked(t) PROVE TypeInv'
  <2>1. Cardinality(PoolWorkers) \in Nat
    BY PoolAssumption, FS_Subset, FS_CardinalityType DEF TypeOK
  <2>2. TypeOK'
    BY <1>1, <2>1 DEF EnqueueLocked, TypeOK, MainState, workerVars
  <2>3. BusyCount' /\ HasTask'
    BY <1>1 DEF EnqueueLocked, BusyCount, HasTask, Busy, ThreadsIn, workerVars
  <2> QED BY <2>2, <2>3
<1>2. CASE CheckResize
  <2>1. NewWorkerCount(numWorkers, numTasks, PoolBusyWorkers) \in Nat
    BY NewWorkerCountType DEF TypeOK
  <2>2. TypeOK'
    BY <1>2, <2>1 DEF CheckResize, TypeOK, MainState, workerVars, poolVars
  <2>3. BusyCount' /\ HasTask'
    BY <1>2 DEF CheckResize, BusyCount, HasTask, Busy, ThreadsIn, workerVars, poolVars
  <2> QED BY <2>2, <2>3
<1>3. CASE Hire
  <2>1. PICK S \in SUBSET ThreadsIn({"none"}) :
           /\ PoolWorkers' = PoolWorkers \cup S
           /\ thread' = [w \in Worker |-> IF w \in S THEN "ready" ELSE thread[w]]
           /\ type' = [w \in Worker |-> IF w \in S THEN "sExtended" ELSE type[w]]
           /\ aborted' = (S \cap PoolWorkers # {})
    BY <1>3 DEF Hire
  <2>2. TypeOK'
    BY <1>3, <2>1 DEF Hire, TypeOK, MainState, ThreadsIn, ThreadState, WorkerType
  <2>3. Busy' = Busy
    BY <2>1 DEF Busy, ThreadsIn, TypeOK
  <2>4. BusyCount'
    BY <1>3, <2>3 DEF Hire, BusyCount
  <2>5. HasTask'
    BY <1>3, <2>1 DEF Hire, HasTask, TypeOK
  <2> QED BY <2>2, <2>4, <2>5
<1>4. CASE NotifyOne
  <2>1. CASE UNCHANGED thread
    BY <1>4, <2>1 DEF NotifyOne, TypeOK, MainState, poolVars, BusyCount, HasTask, Busy,
                         ThreadsIn
  <2>2. ASSUME NEW w \in ThreadsIn({"waiting"}), thread' = [thread EXCEPT ![w] = "ready"]
        PROVE  TypeInv'
    <3>1. w \in Worker /\ thread[w] = "waiting"
      BY <2>2 DEF ThreadsIn
    <3>2. TypeOK'
      BY <1>4, <2>2, <3>1 DEF NotifyOne, TypeOK, MainState, poolVars, ThreadState
    <3>3. BusyCount'
      BY <1>4, <2>2, <3>1, BusyKept DEF NotifyOne, poolVars, ThreadState
    <3>4. HasTask'
      BY <1>4, <2>2, <3>1 DEF NotifyOne, HasTask, TypeOK
    <3> QED BY <3>2, <3>3, <3>4
  <2> QED BY <1>4, <2>1, <2>2 DEF NotifyOne
<1>5. CASE GetStateLocked
  <2>1. Cardinality(PoolWorkers) \in Nat
    BY PoolAssumption, FS_Subset, FS_CardinalityType DEF TypeOK
  <2>2. TypeOK'
    BY <1>5, <2>1 DEF GetStateLocked, TypeOK, MainState, workerVars, poolVars
  <2>3. BusyCount' /\ HasTask'
    BY <1>5 DEF GetStateLocked, BusyCount, HasTask, Busy, ThreadsIn, workerVars, poolVars
  <2> QED BY <2>2, <2>3
<1>6. CASE GetStateBusy \/ JoinStop \/ JoinWait
  BY <1>6 DEF GetStateBusy, JoinStop, JoinWait, TypeOK, MainState, workerVars, poolVars,
              BusyCount, HasTask, Busy, ThreadsIn
<1>7. CASE NotifyAll
  <2>1. TypeOK'
    BY <1>7 DEF NotifyAll, TypeOK, MainState, poolVars, ThreadState
  <2>2. Busy' = Busy
    BY <1>7 DEF NotifyAll, Busy, ThreadsIn, TypeOK
  <2>3. HasTask'
    BY <1>7 DEF NotifyAll, HasTask, TypeOK
  <2> QED BY <1>7, <2>1, <2>2, <2>3 DEF NotifyAll, BusyCount, poolVars
<1>8. ASSUME NEW w \in Worker, Terminate(w) \/ Wait(w) \/ Linger(w) \/ Timeout(w) \/ Spurious(w)
      PROVE  TypeInv'
  <2>1. TypeOK'
    BY <1>8 DEF Terminate, Wait, Linger, Timeout, Spurious, TypeOK, poolVars, mainVars, ThreadState
  <2>2. BusyCount'
    BY <1>8, BusyKept
       DEF Terminate, Wait, Linger, Timeout, Spurious, poolVars, ThreadState, Awake
  <2>3. HasTask'
    BY <1>8 DEF Terminate, Wait, Linger, Timeout, Spurious, HasTask, TypeOK
  <2> QED BY <2>1, <2>2, <2>3
<1>9. ASSUME NEW w \in Worker, TakeTask(w) PROVE TypeInv'
  <2>1. Head(PoolTasks) \in Task /\ Tail(PoolTasks) \in Seq(Task)
    BY <1>9 DEF TakeTask, TypeOK
  <2>2. TypeOK'
    BY <1>9, <2>1 DEF TakeTask, TypeOK, mainVars, ThreadState
  <2>3. BusyCount'
    BY <1>9, BusyKept DEF TakeTask, ThreadState, Awake
  <2>4. HasTask'
    BY <1>9, <2>1 DEF TakeTask, HasTask, TypeOK
  <2> QED BY <2>2, <2>3, <2>4
<1>10. ASSUME NEW w \in Worker, Leave(w) PROVE TypeInv'
  <2>1. TypeOK'
    BY <1>10 DEF Leave, TypeOK, mainVars, ThreadState
  <2>2. BusyCount'
    BY <1>10, BusyKept DEF Leave, ThreadState
  <2>3. HasTask'
    BY <1>10 DEF Leave, HasTask, TypeOK
  <2> QED BY <2>1, <2>2, <2>3
<1>11. ASSUME NEW w \in Worker, BusyUp(w) PROVE TypeInv'
  <2>1. TypeOK'
    BY <1>11 DEF BusyUp, TypeOK, mainVars, ThreadState
  <2>2. Busy' = Busy \cup {w} /\ w \notin Busy
    BY <1>11 DEF BusyUp, Busy, ThreadsIn, TypeOK
  <2>3. Cardinality(Busy') = Cardinality(Busy) + 1
    BY <2>2, ThreadsFinite, FS_AddElement DEF Busy
  <2>4. HasTask'
    BY <1>11 DEF BusyUp, HasTask, TypeOK
  <2> QED BY <1>11, <2>1, <2>3, <2>4 DEF BusyUp, BusyCount
<1>12. ASSUME NEW w \in Worker, Return(w) PROVE TypeInv'
  <2>1. task[w] \in Task
    BY <1>12 DEF Return, HasTask
  <2>2. TypeOK'
    BY <1>12, <2>1 DEF Return, TypeOK, poolVars, mainVars, ThreadState
  <2>3. BusyCount'
    BY <1>12, BusyKept DEF Return, ThreadState, poolVars
  <2>4. HasTask'
    BY <1>12 DEF Return, HasTask, TypeOK
  <2> QED BY <2>2, <2>3, <2>4
<1>13. ASSUME NEW w \in Worker, BusyDown(w) PROVE TypeInv'
  <2>1. Busy' = Busy \ {w} /\ w \in Busy
    BY <1>13 DEF BusyDown, Busy, ThreadsIn, TypeOK
  <2>2. Cardinality(Busy') = Cardinality(Busy) - 1 /\ Cardinality(Busy') \in Nat
    BY <2>1, ThreadsFinite, FS_RemoveElement, FS_CardinalityType DEF Busy
  <2>3. BusyCount' /\ PoolBusyWorkers' \in Nat
    BY <1>13, <2>2 DEF BusyDown, BusyCount
  <2>4. TypeOK'
    BY <1>13, <2>3 DEF BusyDown, TypeOK, mainVars, ThreadState
  <2>5. HasTask'
    BY <1>13 DEF BusyDown, HasTask, TypeOK
  <2> QED BY <2>3, <2>4, <2>5
<1>14. CASE UNCHANGED vars
  BY <1>14 DEF vars, poolVars, workerVars, mainVars, TypeOK, BusyCount, HasTask, Busy,
               ThreadsIn
<1> QED
  BY <1>1, <1>2, <1>3, <1>4, <1>5, <1>6, <1>7, <1>8, <1>9, <1>10, <1>11, <1>12, <1>13, <1>14
     DEF Next, Enqueue, Finished

\* Every variable of the pool keeps its type; in particular the busy counter is
\* never negative and CheckResize never asks for a negative number of workers.
THEOREM TypeCorrect == Spec => []TypeOK
<1>1. TypeInv => TypeOK
  BY DEF TypeInv
<1> QED BY <1>1, InitTypeInv, NextTypeInv, PTL DEF Spec

-----------------------------------------------------------------------------
(* The registry of threads and its limit, in a build without NDEBUG.  The   *)
(* sizes main read under the lock stay valid until it hires: only main adds *)
(* threads, so the map can only shrink meanwhile.                           *)

Snapshot ==
    /\ main \in {"resize", "hire", "state"} =>
          Cardinality(PoolWorkers) <= numWorkers /\ numWorkers <= PoolMaxWorkers
    /\ main = "hire" => numWorkers + newWorkerCount <= PoolMaxWorkers

Phase == PoolYet <=> main \notin {"stopping", "joining", "joined"}

SafeInv == RegistryExact /\ WorkerLimit /\ Snapshot /\ Phase /\ JoinQuiesces

Persistent == {w \in PoolWorkers : type[w] = "sPersistent"}

\* The map of threads is finite.
LEMMA RegistryFinite ==
    ASSUME TypeOK
    PROVE  IsFiniteSet(PoolWorkers) /\ Cardinality(PoolWorkers) \in Nat
BY PoolAssumption, FS_Subset, FS_CardinalityType DEF TypeOK

\* The constructor of the pool establishes the safety invariant.
LEMMA InitSafeInv == Init => SafeInv
<1> SUFFICES ASSUME Init PROVE SafeInv
  OBVIOUS
<1>1. RegistryExact
  BY DEF Init, RegistryExact, ThreadsIn, ThreadState
<1>2. WorkerLimit
  <2>1. Persistent = PoolWorkers
    BY DEF Init, Persistent
  <2>2. Cardinality(PoolWorkers) = PoolInitWorkers
    BY DEF Init
  <2> QED BY <2>1, <2>2, PoolAssumption DEF WorkerLimit, Persistent
<1>3. Snapshot /\ Phase /\ JoinQuiesces
  BY DEF Init, Snapshot, Phase, JoinQuiesces
<1> QED BY <1>1, <1>2, <1>3 DEF SafeInv

\* A step of a worker that stays in the map.
LEMMA WorkerStepSafe ==
    ASSUME TypeOK, SafeInv, NEW w \in Worker, NEW s \in ThreadState \ {"none"},
           thread[w] \notin {"none", "exited"},
           thread' = [thread EXCEPT ![w] = s],
           UNCHANGED <<PoolYet, PoolWorkers, type, mainVars, aborted>>
    PROVE  SafeInv'
<1>1. RegistryExact'
  BY DEF SafeInv, RegistryExact, ThreadsIn, TypeOK
<1>2. WorkerLimit' /\ Snapshot' /\ Phase'
  BY DEF SafeInv, WorkerLimit, Snapshot, Phase, mainVars
<1>3. main' # "joined"
  BY DEF SafeInv, JoinQuiesces, ThreadsIn, TypeOK, mainVars
<1> QED BY <1>1, <1>2, <1>3 DEF SafeInv, JoinQuiesces

\* Every step keeps the safety invariant, in a build without NDEBUG.
LEMMA NextSafeInv ==
    ASSUME ~NDEBUG
    PROVE  TypeInv /\ SafeInv /\ [Next]_vars => SafeInv'
<1> SUFFICES ASSUME TypeInv, SafeInv, [Next]_vars PROVE SafeInv'
  OBVIOUS
<1>0. TypeOK /\ IsFiniteSet(PoolWorkers) /\ Cardinality(PoolWorkers) \in Nat
  BY RegistryFinite DEF TypeInv
<1>1. CASE Enqueue \/ GetStateLocked
  <2>0. UNCHANGED <<PoolWorkers, thread, type, aborted>>
    BY <1>1 DEF Enqueue, EnqueueLocked, GetStateLocked, workerVars, poolVars
  <2>1. RegistryExact' /\ WorkerLimit'
    BY <2>0 DEF SafeInv, RegistryExact, WorkerLimit, ThreadsIn
  <2>2. Snapshot'
    BY <1>0, <1>1 DEF Enqueue, EnqueueLocked, GetStateLocked, SafeInv, WorkerLimit, Snapshot,
                poolVars
  <2>3. Phase' /\ JoinQuiesces'
    BY <1>1 DEF Enqueue, EnqueueLocked, GetStateLocked, SafeInv, Phase, JoinQuiesces, poolVars
  <2> QED BY <2>1, <2>2, <2>3 DEF SafeInv
<1>2. CASE CheckResize
  <2>1. RegistryExact' /\ WorkerLimit'
    BY <1>2 DEF CheckResize, SafeInv, RegistryExact, WorkerLimit, ThreadsIn, workerVars, poolVars
  <2>2. numWorkers \in Nat /\ numTasks \in Nat /\ PoolBusyWorkers \in Nat
    BY <1>0 DEF TypeOK
  <2>3. numWorkers <= PoolMaxWorkers /\ Cardinality(PoolWorkers) <= numWorkers
    BY <1>2 DEF CheckResize, SafeInv, Snapshot
  <2>4. numWorkers + NewWorkerCount(numWorkers, numTasks, PoolBusyWorkers) <= PoolMaxWorkers
    BY <2>2, <2>3, NewWorkerCountBound
  <2>5. Snapshot'
    BY <1>2, <2>3, <2>4 DEF CheckResize, Snapshot, poolVars
  <2>6. Phase' /\ JoinQuiesces'
    BY <1>2 DEF CheckResize, SafeInv, Phase, JoinQuiesces, poolVars
  <2> QED BY <2>1, <2>5, <2>6 DEF SafeInv
<1>3. CASE Hire
  <2>1. PICK S \in SUBSET ThreadsIn({"none"}) :
           /\ Cardinality(S) = newWorkerCount
           /\ PoolWorkers' = PoolWorkers \cup S
           /\ thread' = [w \in Worker |-> IF w \in S THEN "ready" ELSE thread[w]]
           /\ type' = [w \in Worker |-> IF w \in S THEN "sExtended" ELSE type[w]]
           /\ aborted' = (S \cap PoolWorkers # {})
    BY <1>3 DEF Hire
  <2>2. S \cap PoolWorkers = {} /\ S \subseteq Worker
    BY <2>1 DEF SafeInv, RegistryExact, ThreadsIn
  <2>3. RegistryExact'
    BY <1>0, <2>1, <2>2 DEF SafeInv, RegistryExact, ThreadsIn, ThreadState, TypeOK
  <2>4. Cardinality(PoolWorkers') <= PoolMaxWorkers
    <3>1. /\ IsFiniteSet(S) /\ Cardinality(S) \in Nat
          /\ PoolWorkers \cap S = {} /\ Cardinality(PoolWorkers \cap S) = 0
      <4>1. IsFiniteSet(S)
        BY <2>1, ThreadsFinite, FS_Subset
      <4>2. PoolWorkers \cap S = {}
        BY <2>2
      <4> QED BY <4>1, <4>2, FS_EmptySet, FS_CardinalityType
    <3>2. Cardinality(PoolWorkers') = Cardinality(PoolWorkers) + Cardinality(S)
      <4>1. Cardinality(PoolWorkers \cup S)
              = Cardinality(PoolWorkers) + Cardinality(S) - Cardinality(PoolWorkers \cap S)
        BY <1>0, <3>1, FS_Union
      <4> QED BY <1>0, <2>1, <3>1, <4>1
    <3>3. /\ Cardinality(PoolWorkers) <= numWorkers
          /\ numWorkers + newWorkerCount <= PoolMaxWorkers
      BY <1>3 DEF Hire, SafeInv, Snapshot
    <3> QED BY <1>0, <2>1, <3>2, <3>3, PoolAssumption DEF TypeOK
  <2>5. Persistent' = Persistent
    BY <1>0, <2>1, <2>2 DEF Persistent, TypeOK
  <2>6. WorkerLimit'
    BY <2>4, <2>5 DEF SafeInv, WorkerLimit, Persistent
  <2>7. Snapshot' /\ Phase' /\ JoinQuiesces'
    BY <1>3 DEF Hire, SafeInv, Snapshot, Phase, JoinQuiesces
  <2> QED BY <2>3, <2>6, <2>7 DEF SafeInv
<1>4. CASE NotifyOne \/ NotifyAll
  <2>1. ThreadsIn(ThreadState \ {"none"})' = ThreadsIn(ThreadState \ {"none"})
    BY <1>0, <1>4 DEF NotifyOne, NotifyAll, ThreadsIn, ThreadState, TypeOK
  <2>2. RegistryExact'
    BY <1>4, <2>1 DEF NotifyOne, NotifyAll, SafeInv, RegistryExact, poolVars
  <2>3. WorkerLimit'
    BY <1>4 DEF NotifyOne, NotifyAll, SafeInv, WorkerLimit, poolVars
  <2>4. Snapshot' /\ Phase' /\ JoinQuiesces'
    BY <1>4 DEF NotifyOne, NotifyAll, SafeInv, Snapshot, Phase, JoinQuiesces, poolVars
  <2> QED BY <2>2, <2>3, <2>4 DEF SafeInv
<1>5. CASE GetStateBusy \/ JoinStop
  <2>1. RegistryExact' /\ WorkerLimit'
    BY <1>5 DEF GetStateBusy, JoinStop, SafeInv, RegistryExact, WorkerLimit, ThreadsIn,
                workerVars, poolVars
  <2>2. Snapshot' /\ Phase' /\ JoinQuiesces'
    BY <1>5 DEF GetStateBusy, JoinStop, SafeInv, Snapshot, Phase, JoinQuiesces, poolVars
  <2> QED BY <2>1, <2>2 DEF SafeInv
<1>6. CASE JoinWait
  <2>1. RegistryExact' /\ WorkerLimit'
    BY <1>6 DEF JoinWait, SafeInv, RegistryExact, WorkerLimit, ThreadsIn, workerVars, poolVars
  <2>2. Snapshot' /\ Phase'
    BY <1>6 DEF JoinWait, SafeInv, Snapshot, Phase, poolVars
  <2>3. ThreadsIn(ThreadState \ {"none", "exited"}) = {}
    BY <1>6 DEF JoinWait, SafeInv, RegistryExact, ThreadsIn
  <2>4. JoinQuiesces'
    BY <1>6, <2>3 DEF JoinWait, JoinQuiesces, ThreadsIn, workerVars
  <2> QED BY <2>1, <2>2, <2>4 DEF SafeInv
<1>7. ASSUME NEW w \in Worker,
             \/ Terminate(w) \/ TakeTask(w) \/ Wait(w) \/ Linger(w)
             \/ Timeout(w) \/ Spurious(w) \/ BusyUp(w) \/ Return(w) \/ BusyDown(w)
      PROVE  SafeInv'
  <2>1. /\ thread[w] \notin {"none", "exited"}
        /\ UNCHANGED <<PoolYet, PoolWorkers, type, mainVars, aborted>>
    BY <1>7 DEF Terminate, TakeTask, Wait, Linger, Timeout, Spurious, BusyUp, Return, BusyDown,
                Awake, poolVars
  <2>2. PICK s \in ThreadState \ {"none"} : thread' = [thread EXCEPT ![w] = s]
    BY <1>7 DEF Terminate, TakeTask, Wait, Linger, Timeout, Spurious, BusyUp, Return, BusyDown,
                ThreadState
  <2> QED BY <1>0, <2>1, <2>2, WorkerStepSafe
<1>8. ASSUME NEW w \in Worker, Leave(w) PROVE SafeInv'
  <2>1. PoolWorkers' = PoolWorkers \ {w} /\ type[w] = "sExtended" /\ UNCHANGED type
    BY <1>8 DEF Leave
  <2>2. RegistryExact'
    BY <1>0, <1>8, <2>1 DEF Leave, SafeInv, RegistryExact, ThreadsIn, TypeOK
  <2>3. Cardinality(PoolWorkers') <= Cardinality(PoolWorkers) /\ Cardinality(PoolWorkers') \in Nat
    BY <1>0, <2>1, FS_Subset, FS_CardinalityType
  <2>4. Persistent' = Persistent
    BY <2>1 DEF Persistent
  <2>5. WorkerLimit'
    BY <1>0, <2>3, <2>4, PoolAssumption DEF SafeInv, WorkerLimit, Persistent
  <2>6. Snapshot'
    BY <1>0, <1>8, <2>3 DEF Leave, SafeInv, Snapshot, mainVars, TypeOK
  <2>7. Phase' /\ JoinQuiesces'
    BY <1>8 DEF Leave, SafeInv, Phase, JoinQuiesces, mainVars
  <2> QED BY <2>2, <2>5, <2>6, <2>7 DEF SafeInv
<1>9. CASE UNCHANGED vars
  BY <1>9 DEF vars, poolVars, workerVars, mainVars, SafeInv, RegistryExact, WorkerLimit,
              Snapshot, Phase, JoinQuiesces, ThreadsIn
<1> QED
  BY <1>1, <1>2, <1>3, <1>4, <1>5, <1>6, <1>7, <1>8, <1>9 DEF Next, Finished

\* The invariant that carries the theorems below.
LEMMA SafeInvHolds == ASSUME ~NDEBUG PROVE Spec => [](TypeInv /\ SafeInv)
BY InitTypeInv, NextTypeInv, InitSafeInv, NextSafeInv, PTL DEF Spec

\* In a build without NDEBUG the map holds exactly the threads that exist, and
\* hiring never destroys a joinable thread.
THEOREM RegistryIsExact == ASSUME ~NDEBUG PROVE Spec => []RegistryExact
<1>1. SafeInv => RegistryExact
  BY DEF SafeInv
<1> QED BY <1>1, SafeInvHolds, PTL

\* The number of workers stays within thread-limit and never below
\* thread-workers.
THEOREM WorkersWithinLimit == ASSUME ~NDEBUG PROVE Spec => []WorkerLimit
<1>1. SafeInv => WorkerLimit
  BY DEF SafeInv
<1> QED BY <1>1, SafeInvHolds, PTL

\* CheckResize's unsigned subtraction never wraps around and GetState never
\* reports more busy workers than workers.
THEOREM BusyNeverExceedsWorkers == ASSUME ~NDEBUG PROVE Spec => []BusyWithinWorkers
<1>1. TypeInv /\ SafeInv => BusyWithinWorkers
  <2> SUFFICES ASSUME TypeInv, SafeInv, main \in {"resize", "state"}
               PROVE  PoolBusyWorkers <= numWorkers /\ numWorkers <= PoolMaxWorkers
    BY DEF BusyWithinWorkers
  <2>1. IsFiniteSet(PoolWorkers) /\ Cardinality(PoolWorkers) \in Nat
    BY RegistryFinite DEF TypeInv
  <2>2. Busy \subseteq PoolWorkers
    BY DEF Busy, SafeInv, RegistryExact, ThreadsIn, ThreadState
  <2>3. Cardinality(Busy) <= Cardinality(PoolWorkers)
    BY <2>1, <2>2, FS_Subset
  <2>4. PoolBusyWorkers \in Nat /\ PoolBusyWorkers = Cardinality(Busy) /\ numWorkers \in Nat
    BY DEF TypeInv, TypeOK, BusyCount
  <2> QED BY <2>1, <2>3, <2>4 DEF SafeInv, Snapshot
<1> QED BY <1>1, SafeInvHolds, PTL

\* No task is executing when Join returns.
THEOREM JoinLeavesNothingRunning == ASSUME ~NDEBUG PROVE Spec => []JoinQuiesces
<1>1. SafeInv => JoinQuiesces
  BY DEF SafeInv
<1> QED BY <1>1, SafeInvHolds, PTL

\* Nothing changes the map Join walks over.
THEOREM JoinWalkIsSafe == ASSUME ~NDEBUG PROVE Spec => JoinWalksStableMap
<1>1. SafeInv /\ [Next]_vars => (~PoolYet => PoolWorkers' = PoolWorkers)
  <2> SUFFICES ASSUME SafeInv, [Next]_vars, ~PoolYet PROVE PoolWorkers' = PoolWorkers
    OBVIOUS
  <2>1. main \in {"stopping", "joining", "joined"}
    BY DEF SafeInv, Phase
  <2> QED
    BY <2>1 DEF Next, vars, poolVars, Enqueue, EnqueueLocked, CheckResize, Hire, NotifyOne,
                GetStateLocked, GetStateBusy, JoinStop, NotifyAll, JoinWait, Terminate, TakeTask,
                Wait, Linger, Leave, Timeout, Spurious, BusyUp, Return, BusyDown, Finished
<1> QED BY <1>1, SafeInvHolds, PTL DEF Spec, JoinWalksStableMap

-----------------------------------------------------------------------------
(* Wake-ups.  NoLostWakeup is inductive: a worker goes to sleep only when   *)
(* it sees an empty queue, and a task is added only by main, which notifies *)
(* before it does anything else.                                            *)

Notifying == IF main \in {"resize", "hire", "notify"} THEN 1 ELSE 0

\* At the start no task is queued, so no wake-up can be lost.
LEMMA InitNoLostWakeup == Init => NoLostWakeup
<1> SUFFICES ASSUME Init PROVE ThreadsIn({"waiting"}) = {}
  BY DEF NoLostWakeup
<1> QED BY DEF Init, ThreadsIn

\* Every step leaves an awake worker or a notification for each queued task.
LEMMA NextNoLostWakeup == TypeInv /\ NoLostWakeup /\ [Next]_vars => NoLostWakeup'
<1> DEFINE A == ThreadsIn(Awake)
<1> SUFFICES ASSUME TypeInv, NoLostWakeup, [Next]_vars,
                    PoolYet', ThreadsIn({"waiting"})' # {}
             PROVE  Len(PoolTasks') <= Cardinality(A') + Notifying'
  BY DEF NoLostWakeup, Notifying
<1> HIDE DEF A
<1>0. /\ TypeOK /\ Len(PoolTasks) \in Nat
      /\ IsFiniteSet(A) /\ Cardinality(A) \in Nat
      /\ IsFiniteSet(A') /\ Cardinality(A') \in Nat
  <2>1. IsFiniteSet(A) /\ Cardinality(A) \in Nat
    BY ThreadsFinite DEF A
  <2>2. A' \in SUBSET Worker
    BY DEF A, ThreadsIn
  <2>3. IsFiniteSet(A') /\ Cardinality(A') \in Nat
    BY <2>2, PoolAssumption, FS_Subset, FS_CardinalityType
  <2> QED BY <2>1, <2>3 DEF TypeInv, TypeOK
<1>1. Notifying \in {0, 1} /\ Notifying' \in {0, 1}
  BY DEF Notifying
<1>2. ASSUME PoolYet, ThreadsIn({"waiting"}) # {}
      PROVE  Len(PoolTasks) <= Cardinality(A) + Notifying
  BY <1>2 DEF NoLostWakeup, Notifying, A
<1>3. ASSUME NEW t \in Task, EnqueueLocked(t) PROVE Len(PoolTasks') <= Cardinality(A') + Notifying'
  <2>1. A' = A /\ ThreadsIn({"waiting"})' = ThreadsIn({"waiting"}) /\ PoolYet
    BY <1>3 DEF EnqueueLocked, A, ThreadsIn, workerVars
  <2>2. Notifying = 0 /\ Notifying' = 1
    BY <1>3 DEF EnqueueLocked, Notifying
  <2>3. Len(PoolTasks') = Len(PoolTasks) + 1
    BY <1>0, <1>3 DEF EnqueueLocked, TypeOK
  <2>4. Len(PoolTasks) <= Cardinality(A)
    BY <1>0, <1>2, <2>1, <2>2
  <2> QED BY <1>0, <2>1, <2>2, <2>3, <2>4
<1>4. CASE CheckResize \/ GetStateLocked \/ GetStateBusy \/ JoinWait
  <2>1. /\ A' = A /\ ThreadsIn({"waiting"})' = ThreadsIn({"waiting"})
        /\ PoolYet' = PoolYet /\ PoolTasks' = PoolTasks
    BY <1>4 DEF CheckResize, GetStateLocked, GetStateBusy, JoinWait, A, ThreadsIn, workerVars,
                poolVars
  <2>2. Notifying' = Notifying
    BY <1>4 DEF CheckResize, GetStateLocked, GetStateBusy, JoinWait, Notifying
  <2> QED BY <1>2, <2>1, <2>2
<1>5. CASE Hire
  <2>1. PICK S \in SUBSET ThreadsIn({"none"}) :
           thread' = [w \in Worker |-> IF w \in S THEN "ready" ELSE thread[w]]
    BY <1>5 DEF Hire
  <2>2. A \subseteq A' /\ ThreadsIn({"waiting"})' = ThreadsIn({"waiting"})
    BY <1>0, <2>1 DEF A, ThreadsIn, Awake, TypeOK
  <2>3. Cardinality(A) <= Cardinality(A')
    BY <1>0, <2>2, FS_Subset
  <2>4. PoolYet' = PoolYet /\ PoolTasks' = PoolTasks /\ Notifying' = Notifying
    BY <1>5 DEF Hire, Notifying
  <2> QED BY <1>0, <1>1, <1>2, <2>2, <2>3, <2>4
<1>6. ASSUME NEW w \in Worker, thread[w] = "waiting", PoolYet' = PoolYet, PoolTasks' = PoolTasks,
             \E s \in Awake : thread' = [thread EXCEPT ![w] = s],
             Notifying' = Notifying \/ Notifying = 1
      PROVE  Len(PoolTasks') <= Cardinality(A') + Notifying'
  <2>1. A' = A \cup {w} /\ w \notin A
    BY <1>0, <1>6 DEF A, ThreadsIn, Awake, TypeOK
  <2>2. Cardinality(A') = Cardinality(A) + 1
    BY <1>0, <2>1, FS_AddElement
  <2>3. ThreadsIn({"waiting"}) # {}
    BY <1>6 DEF ThreadsIn
  <2> QED BY <1>0, <1>1, <1>2, <1>6, <2>2, <2>3
<1>7. CASE NotifyOne
  <2>1. PICK w \in ThreadsIn({"waiting"}) : thread' = [thread EXCEPT ![w] = "ready"]
    BY <1>7 DEF NotifyOne, ThreadsIn
  <2>2. w \in Worker /\ thread[w] = "waiting"
    BY DEF ThreadsIn
  <2>3. PoolYet' = PoolYet /\ PoolTasks' = PoolTasks /\ Notifying = 1
    BY <1>7 DEF NotifyOne, poolVars, Notifying
  <2> QED BY <1>6, <2>1, <2>2, <2>3 DEF Awake
<1>8. CASE JoinStop
  BY <1>8 DEF JoinStop
<1>9. CASE NotifyAll
  BY <1>9 DEF NotifyAll, ThreadsIn
<1>10. ASSUME NEW w \in Worker, Timeout(w) \/ Spurious(w)
       PROVE  Len(PoolTasks') <= Cardinality(A') + Notifying'
  BY <1>6, <1>10 DEF Timeout, Spurious, poolVars, mainVars, Notifying, Awake
<1>11. ASSUME NEW w \in Worker, Terminate(w)
       PROVE  Len(PoolTasks') <= Cardinality(A') + Notifying'
  BY <1>11 DEF Terminate, poolVars
<1>12. ASSUME NEW w \in Worker, Wait(w) \/ Linger(w) \/ Leave(w)
       PROVE  Len(PoolTasks') <= Cardinality(A') + Notifying'
  <2>1. PoolTasks' = <<>>
    BY <1>12 DEF Wait, Linger, Leave, poolVars
  <2> QED BY <1>0, <1>1, <2>1
<1>13. ASSUME NEW w \in Worker, TakeTask(w)
       PROVE  Len(PoolTasks') <= Cardinality(A') + Notifying'
  <2>1. A' = A \ {w} /\ w \in A /\ ThreadsIn({"waiting"})' = ThreadsIn({"waiting"})
    BY <1>0, <1>13 DEF TakeTask, A, ThreadsIn, Awake, TypeOK
  <2>2. Cardinality(A') = Cardinality(A) - 1
    BY <1>0, <2>1, FS_RemoveElement
  <2>3. Len(PoolTasks') = Len(PoolTasks) - 1
    BY <1>0, <1>13 DEF TakeTask, TypeOK
  <2>4. PoolYet /\ Notifying' = Notifying
    BY <1>13 DEF TakeTask, mainVars, Notifying
  <2> QED BY <1>0, <1>1, <1>2, <2>1, <2>2, <2>3, <2>4
<1>14. ASSUME NEW w \in Worker, BusyUp(w) \/ Return(w) \/ BusyDown(w)
       PROVE  Len(PoolTasks') <= Cardinality(A') + Notifying'
  <2>1. A \subseteq A' /\ ThreadsIn({"waiting"})' = ThreadsIn({"waiting"})
    BY <1>0, <1>14 DEF BusyUp, Return, BusyDown, A, ThreadsIn, Awake, TypeOK
  <2>2. Cardinality(A) <= Cardinality(A')
    BY <1>0, <2>1, FS_Subset
  <2>3. PoolYet' = PoolYet /\ PoolTasks' = PoolTasks /\ Notifying' = Notifying
    BY <1>14 DEF BusyUp, Return, BusyDown, poolVars, mainVars, Notifying
  <2> QED BY <1>0, <1>1, <1>2, <2>1, <2>2, <2>3
<1>15. CASE UNCHANGED vars
  BY <1>2, <1>15 DEF vars, poolVars, workerVars, mainVars, A, ThreadsIn, Notifying
<1> QED
  BY <1>3, <1>4, <1>5, <1>7, <1>8, <1>9, <1>10, <1>11, <1>12, <1>13, <1>14, <1>15
     DEF Next, Enqueue, Finished

\* No wake-up is lost, for any number of workers and tasks.
THEOREM WakeupsAreNotLost == Spec => []NoLostWakeup
BY InitTypeInv, NextTypeInv, InitNoLostWakeup, NextNoLostWakeup, PTL DEF Spec

-----------------------------------------------------------------------------
(* Built without NDEBUG the pool implements TaskPool.  On top of TypeInv     *)
(* this needs that a task is in one place: otherwise the return of one       *)
(* worker could end two running tasks.                                       *)

Holders == ThreadsIn({"popped", "running"})
Running == {task[w] : w \in Holders}

OnePlace ==
    /\ Distinct(PoolTasks)
    /\ \A v, w \in Holders : task[v] = task[w] => v = w
    /\ \A w \in Holders : task[w] \notin Elements(PoolTasks)

-----------------------------------------------------------------------------
(* Every task is in one place.                                              *)

\* At the start no task is anywhere.
LEMMA InitOnePlace == Init => OnePlace
BY DEF Init, OnePlace, Holders, ThreadsIn, Distinct

\* A step that neither pops nor returns a task.
LEMMA OnePlaceKept ==
    ASSUME OnePlace, Holders' = Holders, PoolTasks' = PoolTasks,
           \A w \in Holders : task'[w] = task[w]
    PROVE  OnePlace'
BY DEF OnePlace, Elements

\* Every step leaves a task in one place: queued, taken, or finished.
LEMMA NextOnePlace == TypeInv /\ OnePlace /\ [Next]_vars => OnePlace'
<1> SUFFICES ASSUME TypeInv, OnePlace, [Next]_vars PROVE OnePlace'
  OBVIOUS
<1>0. TypeOK /\ HasTask
  BY DEF TypeInv
<1>1. ASSUME NEW t \in Task, EnqueueLocked(t) PROVE OnePlace'
  <2>1. Elements(PoolTasks') = Elements(PoolTasks) \cup {t}
    BY <1>0, <1>1, ElementsAppend DEF EnqueueLocked, TypeOK
  <2>2. t \notin Elements(PoolTasks) /\ t \notin Running
    BY <1>1 DEF EnqueueLocked, Known, Running, Holders
  <2>3. Holders' = Holders /\ task' = task
    BY <1>1 DEF EnqueueLocked, Holders, ThreadsIn, workerVars
  <2>4. \A w \in Holders : task[w] \notin Elements(PoolTasks')
    BY <2>1, <2>2 DEF OnePlace, Running
  <2>5. Distinct(PoolTasks')
    BY <1>0, <1>1, <2>2, DistinctAppend DEF EnqueueLocked, TypeOK, OnePlace
  <2> QED BY <2>3, <2>4, <2>5 DEF OnePlace
<1>2. CASE CheckResize \/ GetStateLocked \/ GetStateBusy \/ JoinStop \/ JoinWait
  <2>1. UNCHANGED <<thread, task, PoolTasks>>
    BY <1>2 DEF CheckResize, GetStateLocked, GetStateBusy, JoinStop, JoinWait, workerVars, poolVars
  <2>2. Holders' = Holders
    BY <2>1 DEF Holders, ThreadsIn
  <2> QED BY <2>1, <2>2, OnePlaceKept
<1>3. CASE Hire \/ NotifyOne \/ NotifyAll
  <2>1. UNCHANGED <<task, PoolTasks>>
    BY <1>3 DEF Hire, NotifyOne, NotifyAll, poolVars
  <2>2. Holders' = Holders
    BY <1>0, <1>3 DEF Hire, NotifyOne, NotifyAll, Holders, ThreadsIn, TypeOK
  <2> QED BY <2>1, <2>2, OnePlaceKept
<1>4. ASSUME NEW w \in Worker,
             \/ Terminate(w) \/ Wait(w) \/ Linger(w) \/ Leave(w) \/ Timeout(w) \/ Spurious(w)
             \/ BusyUp(w) \/ BusyDown(w)
      PROVE  OnePlace'
  <2>1. UNCHANGED <<task, PoolTasks>>
    BY <1>4 DEF Terminate, Wait, Linger, Leave, Timeout, Spurious, BusyUp, BusyDown, poolVars
  <2>2. Holders' = Holders
    BY <1>0, <1>4 DEF Terminate, Wait, Linger, Leave, Timeout, Spurious, BusyUp, BusyDown, Awake,
                Holders, ThreadsIn, TypeOK
  <2> QED BY <2>1, <2>2, OnePlaceKept
<1>5. ASSUME NEW w \in Worker, TakeTask(w) PROVE OnePlace'
  <2>1. /\ Head(PoolTasks) \in Elements(PoolTasks)
        /\ Elements(PoolTasks') = Elements(PoolTasks) \ {Head(PoolTasks)}
        /\ Distinct(PoolTasks')
    BY <1>0, <1>5, ElementsTail DEF TakeTask, TypeOK, OnePlace
  <2>2. Holders' = Holders \cup {w} /\ w \notin Holders
    BY <1>0, <1>5 DEF TakeTask, Holders, ThreadsIn, TypeOK, Awake
  <2>3. task'[w] = Head(PoolTasks) /\ \A v \in Holders : task'[v] = task[v]
    BY <1>0, <1>5, <2>2 DEF TakeTask, TypeOK, Holders, ThreadsIn
  <2>4. \A u, v \in Holders' : task'[u] = task'[v] => u = v
    BY <2>1, <2>2, <2>3 DEF OnePlace
  <2>5. \A v \in Holders' : task'[v] \notin Elements(PoolTasks')
    BY <2>1, <2>2, <2>3 DEF OnePlace
  <2> QED BY <2>1, <2>4, <2>5 DEF OnePlace
<1>6. ASSUME NEW w \in Worker, Return(w) PROVE OnePlace'
  <2>1. Holders' = Holders \ {w}
    BY <1>0, <1>6 DEF Return, Holders, ThreadsIn, TypeOK
  <2>2. PoolTasks' = PoolTasks /\ \A v \in Holders' : task'[v] = task[v]
    BY <1>0, <1>6, <2>1 DEF Return, TypeOK, Holders, ThreadsIn, poolVars
  <2> QED BY <2>1, <2>2 DEF OnePlace
<1>7. CASE UNCHANGED vars
  <2>1. UNCHANGED <<thread, task, PoolTasks>>
    BY <1>7 DEF vars, workerVars, poolVars
  <2>2. Holders' = Holders
    BY <2>1 DEF Holders, ThreadsIn
  <2> QED BY <2>1, <2>2, OnePlaceKept
<1> QED BY <1>1, <1>2, <1>3, <1>4, <1>5, <1>6, <1>7 DEF Next, Enqueue, Finished

-----------------------------------------------------------------------------
(* Every step of the pool is a step of TaskPool or leaves it alone.         *)

PhaseOf == IF main = "joined" THEN "closed" ELSE IF PoolYet THEN "open" ELSE "closing"

\* At most as many tasks run as threads hold one.
LEMMA RunningBound ==
    ASSUME TypeOK
    PROVE  IsFiniteSet(Running) /\ Cardinality(Running) <= Cardinality(Holders)
<1> DEFINE f == [w \in Holders |-> task[w]]
<1>1. f \in Surjection(Holders, Running)
  BY DEF Running, Surjection
<1>2. IsFiniteSet(Holders)
  BY ThreadsFinite DEF Holders
<1> QED BY <1>1, <1>2, FS_Surjection

\* TakeTask starts the oldest pending task.
LEMMA TakeTaskStarts ==
    ASSUME TypeInv, SafeInv, NEW w \in Worker, TakeTask(w)
    PROVE  /\ Cardinality(Running) < PoolMaxWorkers
           /\ Running' = Running \cup {Head(PoolTasks)}
<1>0. TypeOK /\ IsFiniteSet(PoolWorkers) /\ Cardinality(PoolWorkers) \in Nat
  BY RegistryFinite DEF TypeInv
<1>1. Holders' = Holders \cup {w} /\ w \notin Holders
  BY <1>0 DEF TakeTask, Holders, ThreadsIn, TypeOK, Awake
<1>2. task'[w] = Head(PoolTasks) /\ \A v \in Holders : task'[v] = task[v]
  BY <1>0, <1>1 DEF TakeTask, TypeOK, Holders, ThreadsIn
<1>3. Running' = Running \cup {Head(PoolTasks)}
  BY <1>1, <1>2 DEF Running
<1>4. Holders \cup {w} \subseteq PoolWorkers
  BY DEF TakeTask, Holders, SafeInv, RegistryExact, ThreadsIn, ThreadState, Awake
<1>5. IsFiniteSet(Holders) /\ Cardinality(Holders) \in Nat
  BY ThreadsFinite DEF Holders
<1>6. Cardinality(Holders) + 1 <= Cardinality(PoolWorkers)
  <2>1. Cardinality(Holders \cup {w}) = Cardinality(Holders) + 1
    BY <1>1, <1>5, FS_AddElement
  <2>2. Cardinality(Holders \cup {w}) <= Cardinality(PoolWorkers)
    BY <1>0, <1>4, FS_Subset
  <2> QED BY <2>1, <2>2
<1>7. IsFiniteSet(Running) /\ Cardinality(Running) <= Cardinality(Holders)
  BY <1>0, RunningBound
<1>8. Cardinality(Running) \in Nat
  BY <1>7, FS_CardinalityType
<1> QED
  BY <1>0, <1>3, <1>5, <1>6, <1>7, <1>8, PoolAssumption DEF SafeInv, WorkerLimit

\* Every step of the pool is a step of TaskPool or changes nothing of it.
LEMMA StepSimulation ==
    ASSUME ~NDEBUG, TypeInv, SafeInv, SafeInv', OnePlace, [Next]_vars
    PROVE  [Abstract!Next]_(Abstract!vars)
<1> DEFINE Stutter == /\ PoolTasks' = PoolTasks /\ Running' = Running
                      /\ done' = done /\ PhaseOf' = PhaseOf
<1>0. TypeOK /\ HasTask /\ Phase
  BY DEF TypeInv, SafeInv
<1>s. ASSUME Stutter PROVE UNCHANGED Abstract!vars
  BY <1>s DEF Abstract!vars, Running, Holders, PhaseOf
<1>1. ASSUME NEW t \in Task, EnqueueLocked(t) PROVE Abstract!Submit(t)
  <2>1. Running' = Running
    BY <1>1 DEF EnqueueLocked, Running, Holders, ThreadsIn, workerVars
  <2>2. PhaseOf = "open" /\ PhaseOf' = "open"
    BY <1>1 DEF EnqueueLocked, PhaseOf
  <2>3. t \notin Elements(PoolTasks) \cup Running \cup done
    BY <1>1 DEF EnqueueLocked, Known, Running, Holders
  <2> QED
    BY <1>1, <2>1, <2>2, <2>3
       DEF EnqueueLocked, Abstract!Submit, Abstract!Elements, Elements, Running, Holders, PhaseOf
<1>2. CASE CheckResize \/ GetStateLocked \/ GetStateBusy
  <2>1. UNCHANGED <<PoolTasks, PoolYet, thread, task, done>>
        /\ main # "joined" /\ main' # "joined"
    BY <1>2 DEF CheckResize, GetStateLocked, GetStateBusy, workerVars, poolVars
  <2> QED BY <1>s, <2>1 DEF Running, Holders, ThreadsIn, PhaseOf
<1>3. CASE Hire \/ NotifyOne \/ NotifyAll
  <2>1. UNCHANGED <<PoolTasks, PoolYet, task, done>> /\ main # "joined" /\ main' # "joined"
    BY <1>3 DEF Hire, NotifyOne, NotifyAll, poolVars
  <2>2. Holders' = Holders
    BY <1>0, <1>3 DEF Hire, NotifyOne, NotifyAll, Holders, ThreadsIn, TypeOK
  <2> QED BY <1>s, <2>1, <2>2 DEF Running, PhaseOf
<1>4. CASE JoinStop
  <2>1. UNCHANGED <<PoolTasks, done>> /\ Running' = Running
    BY <1>4 DEF JoinStop, Running, Holders, ThreadsIn, workerVars
  <2>2. PhaseOf = "open" /\ PhaseOf' = "closing"
    BY <1>4 DEF JoinStop, PhaseOf
  <2>3. Abstract!StartClosing
    BY <2>1, <2>2 DEF Abstract!StartClosing, Running, Holders, PhaseOf
  <2> QED BY <2>3 DEF Abstract!Next
<1>5. CASE JoinWait
  <2>1. UNCHANGED <<PoolTasks, done>> /\ Running' = Running
    BY <1>5 DEF JoinWait, Running, Holders, ThreadsIn, workerVars, poolVars
  <2>2. PhaseOf = "closing" /\ PhaseOf' = "closed"
    BY <1>0, <1>5 DEF JoinWait, Phase, PhaseOf
  <2>3. ThreadsIn(ThreadState \ {"none", "exited"})' = {}
    BY <1>5 DEF JoinWait, SafeInv, JoinQuiesces
  <2>4. Running' = {}
    BY <2>3 DEF Running, Holders, ThreadsIn, ThreadState
  <2>5. Abstract!Close
    BY <2>1, <2>2, <2>4 DEF Abstract!Close, Running, Holders, PhaseOf
  <2> QED BY <2>5 DEF Abstract!Next
<1>6. ASSUME NEW w \in Worker,
             \/ Terminate(w) \/ Wait(w) \/ Linger(w) \/ Leave(w) \/ Timeout(w) \/ Spurious(w)
             \/ BusyUp(w) \/ BusyDown(w)
      PROVE  UNCHANGED Abstract!vars
  <2>1. UNCHANGED <<task, PoolTasks, PoolYet, main, done>>
    BY <1>6 DEF Terminate, Wait, Linger, Leave, Timeout, Spurious, BusyUp, BusyDown, poolVars,
                mainVars
  <2>2. Holders' = Holders
    BY <1>0, <1>6 DEF Terminate, Wait, Linger, Leave, Timeout, Spurious, BusyUp, BusyDown, Awake,
                Holders, ThreadsIn, TypeOK
  <2> QED BY <1>s, <2>1, <2>2 DEF Running, PhaseOf
<1>7. ASSUME NEW w \in Worker, TakeTask(w) PROVE Abstract!Start
  <2>1. Cardinality(Running) < PoolMaxWorkers /\ Running' = Running \cup {Head(PoolTasks)}
    BY <1>7, TakeTaskStarts
  <2>2. PhaseOf = "open" /\ PhaseOf' = "open"
    BY <1>0, <1>7 DEF TakeTask, Phase, PhaseOf, mainVars
  <2>3. /\ PoolTasks # <<>> /\ PoolTasks' = Tail(PoolTasks) /\ done' = done
    BY <1>7 DEF TakeTask
  <2>4. Abstract!Cardinality(Running) < PoolMaxWorkers
    BY <2>1 DEF Abstract!Cardinality, Cardinality
  <2> QED
    BY <2>1, <2>2, <2>3, <2>4 DEF Abstract!Start, Running, Holders, PhaseOf
<1>8. ASSUME NEW w \in Worker, Return(w) PROVE \E t \in Task : Abstract!Finish(t)
  <2>1. Holders' = Holders \ {w} /\ w \in Holders
    BY <1>0, <1>8 DEF Return, Holders, ThreadsIn, TypeOK
  <2>2. \A v \in Holders' : task'[v] = task[v]
    BY <1>0, <1>8, <2>1 DEF Return, TypeOK, Holders, ThreadsIn
  <2>3. Running' = Running \ {task[w]} /\ task[w] \in Running
    BY <2>1, <2>2 DEF Running, OnePlace
  <2>4. task[w] \in Task
    BY <1>0, <1>8 DEF Return, HasTask
  <2>5. PhaseOf' = PhaseOf /\ PoolTasks' = PoolTasks /\ done' = done \cup {task[w]}
    BY <1>8 DEF Return, PhaseOf, mainVars, poolVars
  <2>6. Abstract!Finish(task[w])
    <3>1. UNCHANGED <<PoolTasks, PhaseOf>>
      BY <2>5
    <3> QED BY <2>3, <2>5, <3>1 DEF Abstract!Finish, Running, Holders, PhaseOf
  <2> QED BY <2>4, <2>6 DEF Abstract!Finish
<1>9. CASE UNCHANGED vars
  <2>1. UNCHANGED <<PoolTasks, PoolYet, thread, task, main, done>>
    BY <1>9 DEF vars, poolVars, workerVars, mainVars
  <2> QED BY <1>s, <2>1 DEF Running, Holders, ThreadsIn, PhaseOf
<1>10. CASE Enqueue
  BY <1>1, <1>10 DEF Enqueue, Abstract!Next
<1> QED
  BY <1>2, <1>3, <1>4, <1>5, <1>6, <1>7, <1>8, <1>9, <1>10 DEF Next, Finished, Abstract!Next

\* The constructor of the pool gives an initial state of TaskPool.
LEMMA InitSimulation == Init => Abstract!Init
<1> SUFFICES ASSUME Init PROVE Abstract!Init
  OBVIOUS
<1>1. Running = {} /\ PhaseOf = "open"
  BY DEF Init, Running, Holders, ThreadsIn, PhaseOf
<1> QED BY <1>1 DEF Init, Abstract!Init, Running, Holders, PhaseOf

\* The pool starts tasks in the order they were enqueued, each once, at most
\* thread-limit at a time, none after Join began; Join returns when none runs.
THEOREM PoolImplementsTaskPool == ASSUME ~NDEBUG PROVE Spec => ImplementsTaskPool
<1>1. TypeInv /\ SafeInv /\ SafeInv' /\ OnePlace /\ [Next]_vars
        => [Abstract!Next]_(Abstract!vars)
  BY StepSimulation
<1>2. Spec => []OnePlace
  BY InitTypeInv, NextTypeInv, InitOnePlace, NextOnePlace, PTL DEF Spec
<1> QED
  BY <1>1, <1>2, InitSimulation, SafeInvHolds, PTL DEF Spec, ImplementsTaskPool, Abstract!Spec
=============================================================================
