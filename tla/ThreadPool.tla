----------------------------- MODULE ThreadPool -----------------------------
(***************************************************************************)
(* Fiber::ThreadPool (src/kernel/mt/threadpool.{h,cpp}).                    *)
(*                                                                          *)
(* One main thread enqueues tasks, reads the statistics and finally joins   *)
(* the pool, as Kernel::Run and the pool's test do: no other thread calls   *)
(* the pool.  Every other thread is a pool worker.  A block that holds      *)
(* PoolQueueSync is one step; what the code does outside the lock (the      *)
(* accesses to PoolBusyWorkers, the notifications, the tasks) is a step of  *)
(* its own, so every order the locking permits is a behaviour.              *)
(***************************************************************************)
EXTENDS Integers, Sequences, FiniteSets, Queues

CONSTANTS Worker,           \* the thread ids the system can hand out
          Task,             \* the tasks main may enqueue, each once
          PoolInitWorkers,  \* thread-workers
          PoolMaxWorkers,   \* thread-limit
          SizeMod,          \* 2^64: size_t arithmetic is modulo this number
          NDEBUG,           \* TRUE for a build with -DNDEBUG (src/ci/trace.h)
          NoTask            \* the value of an empty task variable

\* The constructor throws unless 0 < PoolInitWorkers <= PoolMaxWorkers.
ASSUME PoolAssumption ==
    /\ PoolInitWorkers \in Nat \ {0}
    /\ PoolMaxWorkers \in Nat
    /\ PoolInitWorkers <= PoolMaxWorkers
    /\ IsFiniteSet(Worker)
    /\ PoolMaxWorkers <= Cardinality(Worker)
    /\ SizeMod \in Nat
    /\ NDEBUG \in BOOLEAN
    /\ NoTask \notin Task

\* Task and thread counts fit a size_t with room for the rounding in CheckResize.
ASSUME SizeAssumption ==
    /\ IsFiniteSet(Task)
    /\ Cardinality(Task) + Cardinality(Worker) + PoolMaxWorkers < SizeMod

VARIABLES
    PoolYet,          \* FALSE once Join has begun
    PoolTasks,        \* the queue of tasks
    PoolWorkers,      \* the keys of the map of thread objects
    PoolBusyWorkers,  \* the atomic counter
    thread,           \* where each thread is; "none": no thread has that id
    type,             \* sPersistent or sExtended
    task,             \* the local variable `task` of each worker
    main,             \* where the main thread is
    numWorkers,       \* main's copy of PoolWorkers.size(), taken under the lock
    numTasks,         \* main's copy of PoolTasks.size(), taken under the lock
    newWorkerCount,   \* what CheckResize decided to hire
    done,             \* the tasks that have returned
    aborted           \* std::terminate was called

poolVars == <<PoolYet, PoolTasks, PoolWorkers, PoolBusyWorkers>>
workerVars == <<thread, type, task>>
mainVars == <<main, numWorkers, numTasks, newWorkerCount>>
vars == <<poolVars, workerVars, mainVars, done, aborted>>

ThreadState == {"none",      \* no thread has this id
                "ready",     \* about to lock PoolQueueSync and test the predicate
                "waiting",   \* blocked in PoolCondition.wait_for
                "timedout",  \* the 10 s passed; about to lock and test once more
                "popped",    \* has a task, PoolBusyWorkers not yet incremented
                "running",   \* inside task()
                "returned",  \* task() has returned, counter not yet decremented
                "exited"}    \* left the loop because the pool stops
MainState == {"idle", "resize", "hire", "notify", "state", "stopping", "joining", "joined"}
Awake == {"ready", "timedout"}
Executing == {"popped", "running", "returned"}
WorkerType == {"sPersistent", "sExtended"}

ThreadsIn(S) == {w \in Worker : thread[w] \in S}
Known == Elements(PoolTasks) \cup {task[w] : w \in ThreadsIn({"popped", "running"})} \cup done

-----------------------------------------------------------------------------
(* The constructor hires PoolInitWorkers persistent workers.                *)

Init ==
    /\ PoolYet = TRUE
    /\ PoolTasks = <<>>
    /\ PoolBusyWorkers = 0
    /\ PoolWorkers \in {S \in SUBSET Worker : Cardinality(S) = PoolInitWorkers}
    /\ thread = [w \in Worker |-> IF w \in PoolWorkers THEN "ready" ELSE "none"]
    /\ type = [w \in Worker |-> "sPersistent"]
    /\ task = [w \in Worker |-> NoTask]
    /\ main = "idle"
    /\ numWorkers = 0
    /\ numTasks = 0
    /\ newWorkerCount = 0
    /\ done = {}
    /\ aborted = FALSE

-----------------------------------------------------------------------------
(* The main thread: Enqueue, which is EnqueueLocked, CheckResize, Hire if   *)
(* needed, NotifyOne; GetState; Join, which is JoinStop, NotifyAll,         *)
(* JoinWait.                                                                *)

EnqueueLocked(t) ==
    /\ main = "idle"
    /\ PoolYet
    /\ t \notin Known
    /\ PoolTasks' = Append(PoolTasks, t)
    /\ numWorkers' = Cardinality(PoolWorkers)
    /\ numTasks' = Len(PoolTasks')
    /\ main' = "resize"
    /\ UNCHANGED <<PoolYet, PoolWorkers, PoolBusyWorkers, workerVars,
                   newWorkerCount, done, aborted>>

\* size_t subtraction.
Minus(a, b) == (a - b) % SizeMod

\* The multiple of PoolInitWorkers that covers the shortage of workers.
Shortage(nWorkers, nTasks, busy) ==
    LET available == Minus(nWorkers, busy)
    IN  IF nTasks > available
        THEN ((Minus(nTasks, available) + (PoolInitWorkers - 1)) \div PoolInitWorkers)
                * PoolInitWorkers
        ELSE 0

\* Bug: the thread limit is not applied.
NewWorkerCount_NoLimit(nWorkers, nTasks, busy) == Shortage(nWorkers, nTasks, busy)

NewWorkerCount(nWorkers, nTasks, busy) ==
    LET wanted == Shortage(nWorkers, nTasks, busy)
    IN  IF nWorkers + wanted > PoolMaxWorkers
        THEN Minus(PoolMaxWorkers, nWorkers)
        ELSE wanted

CheckResize ==
    /\ main = "resize"
    /\ newWorkerCount' = NewWorkerCount(numWorkers, numTasks, PoolBusyWorkers)
    /\ main' = IF newWorkerCount' > 0 THEN "hire" ELSE "notify"
    /\ UNCHANGED <<poolVars, workerVars, numWorkers, numTasks, done, aborted>>

\* Each new thread gets an id no running thread has.  Emplacing a thread under
\* an id that is still a key of the map destroys a joinable std::thread.
Hire ==
    /\ main = "hire"
    /\ \E S \in SUBSET ThreadsIn({"none"}) :
          /\ Cardinality(S) = newWorkerCount
          /\ PoolWorkers' = PoolWorkers \cup S
          /\ thread' = [w \in Worker |-> IF w \in S THEN "ready" ELSE thread[w]]
          /\ type' = [w \in Worker |-> IF w \in S THEN "sExtended" ELSE type[w]]
          /\ aborted' = (S \cap PoolWorkers # {})
    /\ main' = "notify"
    /\ UNCHANGED <<PoolYet, PoolTasks, PoolBusyWorkers, task, numWorkers, numTasks,
                   newWorkerCount, done>>

\* Bug: the notification is lost.
NotifyOne_Lost ==
    /\ main = "notify"
    /\ main' = "idle"
    /\ UNCHANGED <<poolVars, workerVars, numWorkers, numTasks, newWorkerCount,
                   done, aborted>>

\* notify_one wakes one of the waiting threads, if there is one.
NotifyOne ==
    /\ main = "notify"
    /\ main' = "idle"
    /\ \/ /\ ThreadsIn({"waiting"}) = {}
          /\ UNCHANGED thread
       \/ \E w \in ThreadsIn({"waiting"}) : thread' = [thread EXCEPT ![w] = "ready"]
    /\ UNCHANGED <<poolVars, type, task, numWorkers, numTasks, newWorkerCount,
                   done, aborted>>

GetStateLocked ==
    /\ main = "idle"
    /\ PoolYet
    /\ numWorkers' = Cardinality(PoolWorkers)
    /\ numTasks' = Len(PoolTasks)
    /\ main' = "state"
    /\ UNCHANGED <<poolVars, workerVars, newWorkerCount, done, aborted>>

\* The busy count is read after the lock is released; the caller gets all three.
GetStateBusy ==
    /\ main = "state"
    /\ main' = "idle"
    /\ UNCHANGED <<poolVars, workerVars, numWorkers, numTasks, newWorkerCount,
                   done, aborted>>

JoinStop ==
    /\ main = "idle"
    /\ PoolYet
    /\ PoolYet' = FALSE
    /\ main' = "stopping"
    /\ UNCHANGED <<PoolTasks, PoolWorkers, PoolBusyWorkers, workerVars, numWorkers,
                   numTasks, newWorkerCount, done, aborted>>

\* Bug: only one thread is told that the pool stops.
NotifyAll_One ==
    /\ main = "stopping"
    /\ main' = "joining"
    /\ \/ /\ ThreadsIn({"waiting"}) = {}
          /\ UNCHANGED thread
       \/ \E w \in ThreadsIn({"waiting"}) : thread' = [thread EXCEPT ![w] = "ready"]
    /\ UNCHANGED <<poolVars, type, task, numWorkers, numTasks, newWorkerCount,
                   done, aborted>>

NotifyAll ==
    /\ main = "stopping"
    /\ main' = "joining"
    /\ thread' = [w \in Worker |-> IF thread[w] = "waiting" THEN "ready" ELSE thread[w]]
    /\ UNCHANGED <<poolVars, type, task, numWorkers, numTasks, newWorkerCount,
                   done, aborted>>

\* Bug: only the workers the constructor hired are joined.
JoinWait_PersistentOnly ==
    /\ main = "joining"
    /\ \A w \in PoolWorkers : type[w] = "sPersistent" => thread[w] \in {"exited", "none"}
    /\ main' = "joined"
    /\ UNCHANGED <<poolVars, workerVars, numWorkers, numTasks, newWorkerCount,
                   done, aborted>>

\* join() every joinable thread object; an object whose thread detached itself
\* (its id has no thread any more) is not joinable.
JoinWait ==
    /\ main = "joining"
    /\ \A w \in PoolWorkers : thread[w] \in {"exited", "none"}
    /\ main' = "joined"
    /\ UNCHANGED <<poolVars, workerVars, numWorkers, numTasks, newWorkerCount,
                   done, aborted>>

-----------------------------------------------------------------------------
(* A worker.  Terminate, TakeTask, Wait, Linger and Leave are the ways out  *)
(* of the block that holds the lock; Timeout and Spurious are the other     *)
(* ways out of wait_for.                                                    *)

Terminate(w) ==
    /\ thread[w] \in Awake
    /\ ~PoolYet
    /\ thread' = [thread EXCEPT ![w] = "exited"]
    /\ UNCHANGED <<poolVars, type, task, mainVars, done, aborted>>

\* Bug: the queue is tested before the stop flag.
TakeTask_WhileStopping(w) ==
    /\ thread[w] \in Awake
    /\ PoolTasks # <<>>
    /\ task' = [task EXCEPT ![w] = Head(PoolTasks)]
    /\ PoolTasks' = Tail(PoolTasks)
    /\ thread' = [thread EXCEPT ![w] = "popped"]
    /\ UNCHANGED <<PoolYet, PoolWorkers, PoolBusyWorkers, type, mainVars, done, aborted>>

TakeTask(w) ==
    /\ thread[w] \in Awake
    /\ PoolYet
    /\ PoolTasks # <<>>
    /\ task' = [task EXCEPT ![w] = Head(PoolTasks)]
    /\ PoolTasks' = Tail(PoolTasks)
    /\ thread' = [thread EXCEPT ![w] = "popped"]
    /\ UNCHANGED <<PoolYet, PoolWorkers, PoolBusyWorkers, type, mainVars, done, aborted>>

\* Bug: a worker waits without testing the predicate first.
Wait_Unconditional(w) ==
    /\ thread[w] = "ready"
    /\ PoolYet
    /\ thread' = [thread EXCEPT ![w] = "waiting"]
    /\ UNCHANGED <<poolVars, type, task, mainVars, done, aborted>>

Wait(w) ==
    /\ thread[w] = "ready"
    /\ PoolYet
    /\ PoolTasks = <<>>
    /\ thread' = [thread EXCEPT ![w] = "waiting"]
    /\ UNCHANGED <<poolVars, type, task, mainVars, done, aborted>>

\* A persistent worker goes round the loop when its wait timed out.
Linger(w) ==
    /\ thread[w] = "timedout"
    /\ PoolYet
    /\ PoolTasks = <<>>
    /\ type[w] = "sPersistent"
    /\ thread' = [thread EXCEPT ![w] = "ready"]
    /\ UNCHANGED <<poolVars, type, task, mainVars, done, aborted>>

\* Bug: the worker leaves its thread object in the map.
Leave_NoErase(w) ==
    /\ thread[w] = "timedout"
    /\ PoolYet
    /\ PoolTasks = <<>>
    /\ type[w] = "sExtended"
    /\ thread' = [thread EXCEPT ![w] = "none"]
    /\ UNCHANGED <<poolVars, type, task, mainVars, done, aborted>>

\* Bug: the timeout is tested before the stop flag.
Leave_WhileStopping(w) ==
    /\ thread[w] = "timedout"
    /\ PoolTasks = <<>>
    /\ type[w] = "sExtended"
    /\ thread' = [thread EXCEPT ![w] = "none"]
    /\ PoolWorkers' = PoolWorkers \ {w}
    /\ UNCHANGED <<PoolYet, PoolTasks, PoolBusyWorkers, type, task, mainVars,
                   done, aborted>>

\* An extended worker detaches itself and ends.  Workers.erase is an argument of
\* dbg_trace, which a build with NDEBUG expands to nothing.
Leave(w) ==
    /\ thread[w] = "timedout"
    /\ PoolYet
    /\ PoolTasks = <<>>
    /\ type[w] = "sExtended"
    /\ thread' = [thread EXCEPT ![w] = "none"]
    /\ PoolWorkers' = IF NDEBUG THEN PoolWorkers ELSE PoolWorkers \ {w}
    /\ UNCHANGED <<PoolYet, PoolTasks, PoolBusyWorkers, type, task, mainVars,
                   done, aborted>>

Timeout(w) ==
    /\ thread[w] = "waiting"
    /\ thread' = [thread EXCEPT ![w] = "timedout"]
    /\ UNCHANGED <<poolVars, type, task, mainVars, done, aborted>>

Spurious(w) ==
    /\ thread[w] = "waiting"
    /\ thread' = [thread EXCEPT ![w] = "ready"]
    /\ UNCHANGED <<poolVars, type, task, mainVars, done, aborted>>

BusyUp(w) ==
    /\ thread[w] = "popped"
    /\ PoolBusyWorkers' = PoolBusyWorkers + 1
    /\ thread' = [thread EXCEPT ![w] = "running"]
    /\ UNCHANGED <<PoolYet, PoolTasks, PoolWorkers, type, task, mainVars, done, aborted>>

\* A packaged_task stores what it throws, so task() always returns.
Return(w) ==
    /\ thread[w] = "running"
    /\ done' = done \cup {task[w]}
    /\ task' = [task EXCEPT ![w] = NoTask]
    /\ thread' = [thread EXCEPT ![w] = "returned"]
    /\ UNCHANGED <<poolVars, type, mainVars, aborted>>

\* Bug: the counter goes down once in the task and once in the worker.
BusyDown_Twice(w) ==
    /\ thread[w] = "returned"
    /\ PoolBusyWorkers' = PoolBusyWorkers - 2
    /\ thread' = [thread EXCEPT ![w] = "ready"]
    /\ UNCHANGED <<PoolYet, PoolTasks, PoolWorkers, type, task, mainVars, done, aborted>>

\* Bug: the counter is not decremented (as if task() had thrown).
BusyDown_Skipped(w) ==
    /\ thread[w] = "returned"
    /\ thread' = [thread EXCEPT ![w] = "ready"]
    /\ UNCHANGED <<poolVars, type, task, mainVars, done, aborted>>

BusyDown(w) ==
    /\ thread[w] = "returned"
    /\ PoolBusyWorkers' = PoolBusyWorkers - 1
    /\ thread' = [thread EXCEPT ![w] = "ready"]
    /\ UNCHANGED <<PoolYet, PoolTasks, PoolWorkers, type, task, mainVars, done, aborted>>

-----------------------------------------------------------------------------

Enqueue == \E t \in Task : EnqueueLocked(t)
MainStep == CheckResize \/ Hire \/ NotifyOne \/ GetStateBusy \/ NotifyAll \/ JoinWait
Proceed(w) == Terminate(w) \/ TakeTask(w) \/ Wait(w) \/ Linger(w) \/ Leave(w)
Execute(w) == BusyUp(w) \/ Return(w) \/ BusyDown(w)

\* Nothing is left to do after Join.
Finished == main = "joined" /\ UNCHANGED vars

Next ==
    /\ ~aborted
    /\ \/ Enqueue \/ CheckResize \/ Hire \/ NotifyOne
       \/ GetStateLocked \/ GetStateBusy
       \/ JoinStop \/ NotifyAll \/ JoinWait
       \/ \E w \in Worker :
             \/ Terminate(w) \/ TakeTask(w) \/ Wait(w) \/ Linger(w) \/ Leave(w)
             \/ Timeout(w) \/ Spurious(w)
             \/ BusyUp(w) \/ Return(w) \/ BusyDown(w)
       \/ Finished

Spec == Init /\ [][Next]_vars

(***************************************************************************)
(* Fairness: the scheduler runs every thread that can take a step, a mutex  *)
(* is eventually granted, and a task returns.  There is none for Enqueue,   *)
(* Join and GetState (the outside decides) and none for Timeout: what       *)
(* follows must not rest on the 10 s timer.                                 *)
(***************************************************************************)
Fairness ==
    /\ WF_vars(~aborted /\ MainStep)
    /\ \A w \in Worker : WF_vars(~aborted /\ Proceed(w)) /\ WF_vars(~aborted /\ Execute(w))

FairSpec == Spec /\ Fairness

-----------------------------------------------------------------------------
(* Properties.                                                              *)

\* Every variable has the shape the code gives it: in particular the signed
\* atomic PoolBusyWorkers never goes below zero, and the size_t locals hold
\* what the containers' sizes can be.
TypeOK ==
    /\ PoolYet \in BOOLEAN
    /\ PoolTasks \in Seq(Task)
    /\ PoolWorkers \subseteq Worker
    /\ PoolBusyWorkers \in Nat
    /\ thread \in [Worker -> ThreadState]
    /\ type \in [Worker -> WorkerType]
    /\ task \in [Worker -> Task \cup {NoTask}]
    /\ main \in MainState
    /\ numWorkers \in Nat
    /\ numTasks \in Nat
    /\ newWorkerCount \in Nat
    /\ done \subseteq Task
    /\ aborted \in BOOLEAN

\* The pool never has more workers than thread-limit, although CheckResize
\* decides with sizes it read before it let go of the lock; and the persistent
\* workers never leave.
WorkerLimit ==
    /\ Cardinality(PoolWorkers) <= PoolMaxWorkers
    /\ PoolInitWorkers <= Cardinality({w \in PoolWorkers : type[w] = "sPersistent"})

\* The map of thread objects holds exactly the threads that exist, so hiring
\* never replaces a joinable std::thread, which would end the program
\* (Hire's emplace against the worker's detach-and-erase).
RegistryExact ==
    /\ PoolWorkers = ThreadsIn(ThreadState \ {"none"})
    /\ ~aborted

\* No wake-up is lost: while a worker sleeps, every queued task has an awake
\* worker on its way to it, or Enqueue is still about to notify.
NoLostWakeup ==
    PoolYet /\ ThreadsIn({"waiting"}) # {} =>
        Len(PoolTasks) <= Cardinality(ThreadsIn(Awake))
                            + (IF main \in {"resize", "hire", "notify"} THEN 1 ELSE 0)

\* CheckResize's and GetState's busy count, read after the lock is released, is
\* never larger than the number of workers read under the lock, so the size_t
\* difference NumWorker - PoolBusyWorkers does not wrap around.
BusyWithinWorkers ==
    main \in {"resize", "state"} =>
        /\ PoolBusyWorkers <= numWorkers
        /\ numWorkers <= PoolMaxWorkers

\* When Join returns no task is executing and none will start: Kernel::Run
\* destroys the router the tasks use right after it.
JoinQuiesces == main = "joined" => ThreadsIn(ThreadState \ {"none", "exited"}) = {}

\* Join walks over the map of threads without the lock, so nothing may change
\* the map from the moment PoolYet is cleared.
JoinWalksStableMap ==
    [][~PoolYet => PoolWorkers' = PoolWorkers]_vars

\* The pool is a FIFO executor: it starts tasks in the order they were
\* enqueued, each once, at most thread-limit at a time, none after Join began.
Abstract == INSTANCE TaskPool WITH
    Limit <- PoolMaxWorkers,
    pending <- PoolTasks,
    running <- {task[w] : w \in ThreadsIn({"popped", "running"})},
    finished <- done,
    phase <- IF main = "joined" THEN "closed" ELSE IF PoolYet THEN "open" ELSE "closing"

ImplementsTaskPool == Abstract!Spec

\* A queued task is executed, without help from the 10 s timer, unless the
\* pool is stopped first.
EveryTaskRuns ==
    \A t \in Task : t \in Elements(PoolTasks) ~> (t \in done \/ ~PoolYet)

\* Join returns once the running tasks have.
JoinTerminates == main = "stopping" ~> main = "joined"
=============================================================================
