------------------------------ MODULE SyncSAPI ------------------------------
(***************************************************************************)
(* A channel of class SyncSAPI (src/mq/mq-sync/src/sync-sapi.{h,cpp}).      *)
(*                                                                          *)
(* A PUT leaves its request in the queue and starts a detached thread for   *)
(* it unless LimitTasks threads exist; each thread answers queued requests  *)
(* until it finds the queue empty.  Every other method is answered 405.  A  *)
(* block that holds mq_sync is one step; the thread's test of the queue and *)
(* its decrement of mq_workers are made without the lock and are steps of   *)
(* their own.                                                               *)
(*                                                                          *)
(* Put's answer 521 is not modelled: mq_working is cleared by the           *)
(* destructor only, when no handler of the channel runs any more.           *)
(***************************************************************************)
EXTENDS Integers, Sequences, FiniteSets, Queues

CONSTANTS Request,     \* the requests clients may send
          Thread,      \* the detached threads that can exist at a time
          TasksLimits, \* the values mq_options.LimitTasks may have
          LimitSize,   \* mq_options.LimitSize; 0: no limit
          IntMod,      \* 2^32: an int32_t holds a number modulo this one
          RacyEmpty,   \* TRUE: the unlocked mq_queue.empty() may give either answer
          NoRequest

ASSUME SapiAssumption ==
    /\ TasksLimits \subseteq Nat
    /\ LimitSize \in Nat
    /\ IntMod \in Nat \ {0}
    /\ IntMod % 2 = 0
    /\ RacyEmpty \in BOOLEAN
    /\ NoRequest \notin Request
    /\ IsFiniteSet(Thread)
    /\ IsFiniteSet(Request)
    /\ Cardinality(Request) <= Cardinality(Thread)

VARIABLES
    LimitTasks,   \* mq_options.LimitTasks
    mq_working,   \* FALSE once Finalize has begun
    mq_workers,   \* the atomic counter of threads
    mq_queue,     \* message ids, oldest first
    mq_messages,  \* message ids of the requests kept; nothing erases one
    thread,       \* where each ExecuteThread is
    msgid,        \* its local variable
    answered,     \* the requests answered 200
    refused,      \* the requests answered 507 or 405
    terminated    \* std::terminate was called

mqVars == <<mq_working, mq_workers, mq_queue, mq_messages>>
threadVars == <<thread, msgid>>
vars == <<LimitTasks, mqVars, threadVars, answered, refused, terminated>>

ThreadState == {"none",    \* not running
                "start",   \* about to lock mq_sync and pop
                "send",    \* has a request to answer
                "test",    \* about to test the queue without the lock
                "ending"}  \* about to decrement mq_workers
ThreadsIn(S) == {t \in Thread : thread[t] \in S}

\* After Initialize.  It would read the limits, but QueryInterface gives it no
\* configuration (see Startup): they are whatever the object's memory held.
Init ==
    /\ LimitTasks \in TasksLimits
    /\ mq_working = TRUE
    /\ mq_workers = 0
    /\ mq_queue = <<>>
    /\ mq_messages = {}
    /\ thread = [t \in Thread |-> "none"]
    /\ msgid = [t \in Thread |-> NoRequest]
    /\ answered = {}
    /\ refused = {}
    /\ terminated = FALSE

-----------------------------------------------------------------------------
(* Put.                                                                     *)

\* The cast (int32_t)LimitTasks.
AsInt32(n) == LET m == n % IntMod IN IF m >= IntMod \div 2 THEN m - IntMod ELSE m

HasRoom == LimitSize = 0 \/ Len(mq_queue) < LimitSize

\* Bug: no limit (0) is taken for a limit of no threads.
MayHire_ZeroIsLimit == mq_workers < AsInt32(LimitTasks)

\* Bug: a thread is started only when none exists.
MayHire_First == mq_workers = 0

MayHire == LimitTasks = 0 \/ mq_workers < AsInt32(LimitTasks)

Emplace(r) ==
    /\ mq_working
    /\ r \notin mq_messages \cup refused
    /\ HasRoom
    /\ mq_messages' = mq_messages \cup {r}
    /\ mq_queue' = Append(mq_queue, r)

\* Bug: the new thread is not counted.
PutHire_NotCounted(r) ==
    /\ Emplace(r)
    /\ MayHire
    /\ \E t \in ThreadsIn({"none"}) : thread' = [thread EXCEPT ![t] = "start"]
    /\ UNCHANGED <<LimitTasks, mq_working, mq_workers, msgid, answered, refused, terminated>>

PutHire(r) ==
    /\ Emplace(r)
    /\ MayHire
    /\ mq_workers' = mq_workers + 1
    /\ \E t \in ThreadsIn({"none"}) : thread' = [thread EXCEPT ![t] = "start"]
    /\ UNCHANGED <<LimitTasks, mq_working, msgid, answered, refused, terminated>>

PutOnly(r) ==
    /\ Emplace(r)
    /\ ~MayHire
    /\ UNCHANGED <<LimitTasks, mq_working, mq_workers, threadVars, answered, refused,
                   terminated>>

\* The 507 is sent with mq_sync held.
PutRefused(r) ==
    /\ mq_working
    /\ r \notin mq_messages \cup refused
    /\ ~HasRoom
    /\ refused' = refused \cup {r}
    /\ UNCHANGED <<LimitTasks, mqVars, threadVars, answered, terminated>>

OtherMethod(r) ==
    /\ mq_working
    /\ r \notin mq_messages \cup refused
    /\ refused' = refused \cup {r}
    /\ UNCHANGED <<LimitTasks, mqVars, threadVars, answered, terminated>>

-----------------------------------------------------------------------------
(* ExecuteThread.                                                           *)

\* Bug: the front of the queue is read and not popped.
Pop_NoPop(t) ==
    /\ thread[t] = "start"
    /\ mq_queue # <<>>
    /\ msgid' = [msgid EXCEPT ![t] = Head(mq_queue)]
    /\ thread' = [thread EXCEPT ![t] = "send"]
    /\ UNCHANGED <<LimitTasks, mqVars, answered, refused, terminated>>

Pop(t) ==
    /\ thread[t] = "start"
    /\ mq_queue # <<>>
    /\ msgid' = [msgid EXCEPT ![t] = Head(mq_queue)]
    /\ mq_queue' = Tail(mq_queue)
    /\ thread' = [thread EXCEPT ![t] = "send"]
    /\ UNCHANGED <<LimitTasks, mq_working, mq_workers, mq_messages, answered, refused,
                   terminated>>

PopEmpty(t) ==
    /\ thread[t] = "start"
    /\ mq_queue = <<>>
    /\ thread' = [thread EXCEPT ![t] = "ending"]
    /\ UNCHANGED <<LimitTasks, mqVars, msgid, answered, refused, terminated>>

SendOk(t) ==
    /\ thread[t] = "send"
    /\ answered' = answered \cup {msgid[t]}
    /\ msgid' = [msgid EXCEPT ![t] = NoRequest]
    /\ thread' = [thread EXCEPT ![t] = "test"]
    /\ UNCHANGED <<LimitTasks, mqVars, refused, terminated>>

\* send() fails: Reply closes the connection and throws, the 503 that catch(...)
\* sends on the closed connection throws again, out of the thread's function.
SendFail(t) ==
    /\ thread[t] = "send"
    /\ terminated' = TRUE
    /\ UNCHANGED <<LimitTasks, mqVars, threadVars, answered, refused>>

\* The test reads two fields of the queue that other threads write under the
\* lock: a data race, so RacyEmpty lets it give either answer.
Again(t) ==
    /\ thread[t] = "test"
    /\ \E empty \in IF RacyEmpty THEN BOOLEAN ELSE {mq_queue = <<>>} :
          thread' = [thread EXCEPT ![t] = IF mq_working /\ ~empty THEN "start" ELSE "ending"]
    /\ UNCHANGED <<LimitTasks, mqVars, msgid, answered, refused, terminated>>

\* Bug: the thread ends and is still counted.
End_StillCounted(t) ==
    /\ thread[t] = "ending"
    /\ thread' = [thread EXCEPT ![t] = "none"]
    /\ UNCHANGED <<LimitTasks, mqVars, msgid, answered, refused, terminated>>

End(t) ==
    /\ thread[t] = "ending"
    /\ mq_workers' = mq_workers - 1
    /\ thread' = [thread EXCEPT ![t] = "none"]
    /\ UNCHANGED <<LimitTasks, mq_working, mq_queue, mq_messages, msgid, answered, refused,
                   terminated>>

-----------------------------------------------------------------------------
(* Finalize, from the destructor: the pool has been joined, so no Put runs. *)

FinalizeStop ==
    /\ mq_working
    /\ mq_working' = FALSE
    /\ UNCHANGED <<LimitTasks, mq_workers, mq_queue, mq_messages, threadVars, answered,
                   refused, terminated>>

\* mq_process was never started: join() throws out of a destructor.
FinalizeJoin ==
    /\ ~mq_working
    /\ terminated' = TRUE
    /\ UNCHANGED <<LimitTasks, mqVars, threadVars, answered, refused>>

-----------------------------------------------------------------------------

Execute(t) == Pop(t) \/ PopEmpty(t) \/ SendOk(t) \/ SendFail(t) \/ Again(t) \/ End(t)

Ended == terminated /\ UNCHANGED vars

Next ==
    \/ /\ ~terminated
       /\ \/ \E r \in Request : PutHire(r) \/ PutOnly(r) \/ PutRefused(r) \/ OtherMethod(r)
          \/ \E t \in Thread : Execute(t)
          \/ FinalizeStop
          \/ FinalizeJoin
    \/ Ended

Spec == Init /\ [][Next]_vars

\* Every thread that can go on does; nothing makes a client send a PUT and
\* nothing makes the program shut down.
FairSpec == Spec /\ \A t \in Thread : WF_vars(~terminated /\ Execute(t))

-----------------------------------------------------------------------------
(* Properties.                                                              *)

\* Every variable has the shape the code gives it; in particular the signed
\* atomic mq_workers never goes below zero.
TypeOK ==
    /\ LimitTasks \in TasksLimits
    /\ mq_working \in BOOLEAN
    /\ mq_workers \in Nat
    /\ mq_queue \in Seq(Request)
    /\ mq_messages \subseteq Request
    /\ thread \in [Thread -> ThreadState]
    /\ msgid \in [Thread -> Request \cup {NoRequest}]
    /\ answered \subseteq Request
    /\ refused \subseteq Request
    /\ terminated \in BOOLEAN

\* mq_workers is the number of threads that exist, and queue-limit-tasks bounds
\* it, although Put tests and increments it under a lock End does not take.
WorkersCounted ==
    /\ mq_workers = Cardinality(ThreadsIn(ThreadState \ {"none"}))
    /\ LimitTasks # 0 => mq_workers <= LimitTasks

\* The requests that came before r and wait with it in the queue.
Ahead(r) == {x \in Request : Precedes(mq_queue, x, r)}

Channel == INSTANCE MessageChannel WITH
    Message <- Request,
    waiting <- Elements(mq_queue),
    older <- [r \in Request |-> Ahead(r)],
    taken <- {msgid[t] : t \in ThreadsIn({"send"})},
    answered <- answered

\* A request is answered by one thread, oldest first, once, and none the channel
\* has accepted is lost between the queue and the threads that share it.
ImplementsChannel == Channel!Spec

\* Without a limit every queued request has a thread on its way to it.
ThreadPerMessage == LimitTasks = 0 => Len(mq_queue) <= Cardinality(ThreadsIn({"start"}))

\* Without a limit every accepted PUT is answered.
UnlimitedPutAnswered ==
    \A r \in Request :
        (LimitTasks = 0 /\ r \in Elements(mq_queue)) ~> (r \in answered \/ terminated)

\* Every accepted PUT is answered: a limit on the number of simultaneous tasks
\* delays a request, it does not drop it.
EveryPutAnswered ==
    \A r \in Request : r \in Elements(mq_queue) ~> (r \in answered \/ ~mq_working \/ terminated)

\* A client that goes away costs its own answer, not the whole program: the
\* catch (...) around the endpoint answers 503 and the thread goes on.
GoneClientSurvived == terminated => ~mq_working
=============================================================================
