--------------------------- MODULE SyncSAPIProofs ---------------------------
(***************************************************************************)
(* Proofs about a SyncSAPI channel, for any number of requests and threads, *)
(* any queue-limit-tasks and queue-limit-size, and with the racy test of    *)
(* the queue giving either answer.                                          *)
(***************************************************************************)
EXTENDS SyncSAPI, QueueFacts, FiniteSetTheorems, FunctionTheorems

-----------------------------------------------------------------------------
(* Sets of threads.                                                         *)

\* There are finitely many threads.
LEMMA ThreadsFinite ==
    ASSUME NEW S
    PROVE  IsFiniteSet(ThreadsIn(S)) /\ Cardinality(ThreadsIn(S)) \in Nat
<1>1. ThreadsIn(S) \in SUBSET Thread
  BY DEF ThreadsIn
<1>2. IsFiniteSet(ThreadsIn(S))
  BY <1>1, SapiAssumption, FS_Subset
<1> QED BY <1>2, FS_CardinalityType

\* A thread that moves to state s is in a set of threads iff s is.
LEMMA ThreadMoves ==
    ASSUME NEW t \in Thread, NEW s, NEW S,
           thread \in [Thread -> ThreadState],
           thread' = [thread EXCEPT ![t] = s]
    PROVE  ThreadsIn(S)' = IF s \in S THEN ThreadsIn(S) \cup {t} ELSE ThreadsIn(S) \ {t}
BY DEF ThreadsIn

\* A thread that enters a set of states makes their number one larger, one that
\* leaves it one smaller, and one that does neither leaves it alone.
LEMMA ThreadCounted ==
    ASSUME NEW t \in Thread, NEW s, NEW S,
           thread \in [Thread -> ThreadState],
           thread' = [thread EXCEPT ![t] = s]
    PROVE  Cardinality(ThreadsIn(S))' =
             Cardinality(ThreadsIn(S))
             + (IF s \in S THEN IF thread[t] \in S THEN 0 ELSE 1
                ELSE IF thread[t] \in S THEN -1 ELSE 0)
<1>1. ThreadsIn(S)' = IF s \in S THEN ThreadsIn(S) \cup {t} ELSE ThreadsIn(S) \ {t}
  BY ThreadMoves
<1>2. t \in ThreadsIn(S) <=> thread[t] \in S
  BY DEF ThreadsIn
<1>3. IsFiniteSet(ThreadsIn(S)) /\ Cardinality(ThreadsIn(S)) \in Nat
  BY ThreadsFinite
<1>4. Cardinality(ThreadsIn(S) \cup {t}) =
        IF t \in ThreadsIn(S) THEN Cardinality(ThreadsIn(S)) ELSE Cardinality(ThreadsIn(S)) + 1
  BY <1>3, FS_AddElement
<1>5. Cardinality(ThreadsIn(S) \ {t}) =
        IF t \in ThreadsIn(S) THEN Cardinality(ThreadsIn(S)) - 1 ELSE Cardinality(ThreadsIn(S))
  BY <1>3, FS_RemoveElement
<1> QED BY <1>1, <1>2, <1>3, <1>4, <1>5

\* The cast to int32_t never makes a limit larger, although it may wrap to a
\* negative number.
LEMMA AsInt32Bound ==
    ASSUME NEW n \in Nat
    PROVE  AsInt32(n) \in Int /\ AsInt32(n) <= n
<1>1. IntMod \in Nat /\ IntMod > 0
  BY SapiAssumption
<1>2. /\ n % IntMod \in 0..(IntMod - 1)
      /\ n \div IntMod \in Nat
      /\ n = IntMod * (n \div IntMod) + (n % IntMod)
  BY <1>1
<1>3. IntMod * (n \div IntMod) \in Nat
  BY <1>1, <1>2
<1>4. n % IntMod <= n
  BY <1>1, <1>2, <1>3
<1>5. n % IntMod \in Int
  BY <1>1, <1>2
<1> DEFINE m == n % IntMod
<1>6. AsInt32(n) = IF m >= IntMod \div 2 THEN m - IntMod ELSE m
  BY DEF AsInt32
<1>7. m \in Int /\ m <= n
  BY <1>4, <1>5
<1> HIDE DEF m
<1> QED BY <1>1, <1>6, <1>7

-----------------------------------------------------------------------------
(* Type correctness and the number of threads.  mq_workers stays a natural  *)
(* number because it counts the threads between Put's increment and their   *)
(* own decrement; a thread that sends has a request.                        *)

Existing == ThreadsIn(ThreadState \ {"none"})
HasRequest == \A t \in Thread : thread[t] = "send" => msgid[t] \in Request

CountInv ==
    /\ TypeOK
    /\ WorkersCounted
    /\ HasRequest
    /\ ThreadPerMessage

\* The state Initialize leaves satisfies it.
LEMMA InitCountInv == Init => CountInv
<1> SUFFICES ASSUME Init PROVE CountInv
  OBVIOUS
<1>1. TypeOK
  <2>1. mq_working \in BOOLEAN /\ terminated \in BOOLEAN
    BY DEF Init
  <2>2. /\ LimitTasks \in TasksLimits /\ mq_workers \in Nat /\ mq_queue \in Seq(Request)
        /\ mq_messages \subseteq Request /\ answered \subseteq Request /\ refused \subseteq Request
    BY DEF Init
  <2>3. /\ thread \in [Thread -> ThreadState]
        /\ msgid \in [Thread -> Request \cup {NoRequest}]
    BY DEF Init, ThreadState
  <2> QED BY <2>1, <2>2, <2>3 DEF TypeOK
<1>2. Existing = {} /\ ThreadsIn({"start"}) = {}
  BY DEF Init, Existing, ThreadsIn
<1>3. WorkersCounted
  <2>1. mq_workers = Cardinality(Existing)
    BY <1>2, FS_EmptySet DEF Init
  <2>2. LimitTasks \in Nat
    BY SapiAssumption DEF Init
  <2> QED BY <2>1, <2>2 DEF Init, WorkersCounted, Existing
<1>4. HasRequest
  BY DEF Init, HasRequest
<1>5. Len(mq_queue) = 0
  BY DEF Init
<1>6. ThreadPerMessage
  BY <1>2, <1>5, FS_EmptySet DEF ThreadPerMessage
<1> QED BY <1>1, <1>3, <1>4, <1>6 DEF CountInv

\* A step that moves one thread and keeps the counter, the limits and the queue.
LEMMA ThreadStepCountInv ==
    ASSUME CountInv, TypeOK', HasRequest',
           NEW t \in Thread, NEW s \in ThreadState,
           thread' = [thread EXCEPT ![t] = s],
           thread[t] # "none", s # "none",
           UNCHANGED <<LimitTasks, mq_workers>>,
           \/ thread[t] # "start" /\ UNCHANGED mq_queue
           \/ Len(mq_queue') = 0
           \/ s # "start" /\ mq_queue # <<>> /\ mq_queue' = Tail(mq_queue)
    PROVE  CountInv'
<1>1. /\ TypeOK
      /\ mq_workers = Cardinality(Existing)
      /\ LimitTasks # 0 => mq_workers <= LimitTasks
      /\ ThreadPerMessage
  BY DEF CountInv, WorkersCounted, Existing
<1>2. Cardinality(Existing)' = Cardinality(Existing)
  <2>1. thread \in [Thread -> ThreadState] /\ thread[t] \in ThreadState
    BY <1>1 DEF TypeOK
  <2>2. Existing' = Existing
    BY <2>1 DEF Existing, ThreadsIn
  <2> QED BY <2>2
<1>3. WorkersCounted'
  BY <1>1, <1>2 DEF WorkersCounted, Existing
<1>4. Cardinality(ThreadsIn({"start"})) \in Nat /\ Cardinality(ThreadsIn({"start"}))' \in Nat
  <2>1. IsFiniteSet(ThreadsIn({"start"})')
    <3>1. ThreadsIn({"start"})' \in SUBSET Thread
      BY DEF ThreadsIn
    <3> QED BY <3>1, SapiAssumption, FS_Subset
  <2> QED BY <2>1, ThreadsFinite, FS_CardinalityType
<1>5. Cardinality(ThreadsIn({"start"}))' =
        Cardinality(ThreadsIn({"start"}))
        + (IF s \in {"start"} THEN IF thread[t] \in {"start"} THEN 0 ELSE 1
           ELSE IF thread[t] \in {"start"} THEN -1 ELSE 0)
  <2>1. thread \in [Thread -> ThreadState]
    BY <1>1 DEF TypeOK
  <2> QED BY <2>1, ThreadCounted
<1>6. Len(mq_queue) \in Nat /\ Len(mq_queue') \in Nat
  BY <1>1 DEF TypeOK
<1>7. mq_queue # <<>> /\ mq_queue' = Tail(mq_queue) => Len(mq_queue') = Len(mq_queue) - 1
  BY <1>1, TailShape DEF TypeOK
<1>8. ThreadPerMessage'
  BY <1>1, <1>4, <1>5, <1>6, <1>7 DEF ThreadPerMessage
<1> QED BY <1>3, <1>8 DEF CountInv

\* A step that moves no thread and lets the queue alone or, under a limit, grow.
LEMMA NoThreadStepCountInv ==
    ASSUME CountInv, TypeOK', UNCHANGED <<LimitTasks, mq_workers, thread, msgid>>,
           LimitTasks = 0 => UNCHANGED mq_queue
    PROVE  CountInv'
<1>1. \A S : ThreadsIn(S)' = ThreadsIn(S)
  BY DEF ThreadsIn
<1>2. WorkersCounted'
  BY <1>1 DEF CountInv, WorkersCounted
<1>3. HasRequest'
  BY DEF CountInv, HasRequest
<1>4. ThreadPerMessage'
  BY <1>1 DEF CountInv, ThreadPerMessage
<1> QED BY <1>2, <1>3, <1>4 DEF CountInv

\* Put, the threads and Finalize keep it.
LEMMA NextCountInv == CountInv /\ [Next]_vars => CountInv'
<1> SUFFICES ASSUME CountInv, [Next]_vars PROVE CountInv'
  OBVIOUS
<1>0. /\ TypeOK /\ HasRequest /\ LimitTasks \in Nat
      /\ thread \in [Thread -> ThreadState]
      /\ mq_workers = Cardinality(Existing)
      /\ LimitTasks # 0 => mq_workers <= LimitTasks
  BY SapiAssumption DEF CountInv, TypeOK, WorkersCounted, Existing
<1>1. ASSUME NEW r \in Request, PutHire(r) PROVE CountInv'
  <2>1. PICK t \in ThreadsIn({"none"}) : thread' = [thread EXCEPT ![t] = "start"]
    BY <1>1 DEF PutHire
  <2>2. t \in Thread /\ thread[t] = "none"
    BY <2>1 DEF ThreadsIn
  <2>3. TypeOK'
    BY <1>0, <1>1, <2>1, <2>2 DEF PutHire, Emplace, TypeOK, ThreadState
  <2>4. HasRequest'
    BY <1>0, <1>1, <2>1, <2>2 DEF PutHire, HasRequest
  <2>5. Cardinality(Existing)' = Cardinality(Existing) + 1
    <3>1. Existing' = Existing \cup {t} /\ t \notin Existing
      BY <1>0, <2>1, <2>2 DEF Existing, ThreadsIn, ThreadState
    <3>2. IsFiniteSet(Existing)
      BY ThreadsFinite DEF Existing
    <3> QED BY <3>1, <3>2, FS_AddElement
  <2>6. WorkersCounted'
    <3>1. mq_workers' = mq_workers + 1 /\ LimitTasks' = LimitTasks /\ mq_workers \in Nat
      BY <1>0, <1>1 DEF PutHire, TypeOK
    <3>2. LimitTasks # 0 => mq_workers < AsInt32(LimitTasks)
      BY <1>1 DEF PutHire, MayHire
    <3>3. AsInt32(LimitTasks) \in Int /\ AsInt32(LimitTasks) <= LimitTasks
      BY <1>0, AsInt32Bound
    <3>4. LimitTasks # 0 => mq_workers + 1 <= LimitTasks
      BY <1>0, <3>1, <3>2, <3>3
    <3> QED BY <1>0, <2>5, <3>1, <3>4 DEF WorkersCounted, Existing
  <2>7. ThreadPerMessage'
    <3>1. Cardinality(ThreadsIn({"start"}))' = Cardinality(ThreadsIn({"start"})) + 1
      <4>1. /\ ThreadsIn({"start"})' = ThreadsIn({"start"}) \cup {t}
            /\ t \notin ThreadsIn({"start"})
        BY <1>0, <2>1, <2>2 DEF ThreadsIn, ThreadState
      <4> QED BY <4>1, ThreadsFinite, FS_AddElement
    <3>2. Len(mq_queue') = Len(mq_queue) + 1 /\ Len(mq_queue) \in Nat
      BY <1>0, <1>1, AppendShape DEF PutHire, Emplace, TypeOK
    <3>3. LimitTasks' = LimitTasks
      BY <1>1 DEF PutHire
    <3>4. LimitTasks = 0 => Len(mq_queue) <= Cardinality(ThreadsIn({"start"}))
      BY DEF CountInv, ThreadPerMessage
    <3> QED BY <3>1, <3>2, <3>3, <3>4, ThreadsFinite DEF ThreadPerMessage
  <2> QED BY <2>3, <2>4, <2>6, <2>7 DEF CountInv
<1>2. ASSUME NEW r \in Request, PutOnly(r) PROVE CountInv'
  <2>1. TypeOK'
    BY <1>0, <1>2 DEF PutOnly, Emplace, TypeOK, threadVars
  <2>2. LimitTasks # 0
    BY <1>2 DEF PutOnly, MayHire
  <2> QED BY <1>2, <2>1, <2>2, NoThreadStepCountInv DEF PutOnly, threadVars
<1>3. ASSUME NEW r \in Request, PutRefused(r) \/ OtherMethod(r) PROVE CountInv'
  <2>1. TypeOK'
    BY <1>0, <1>3 DEF PutRefused, OtherMethod, TypeOK, mqVars, threadVars
  <2> QED BY <1>3, <2>1, NoThreadStepCountInv DEF PutRefused, OtherMethod, mqVars, threadVars
<1>4. ASSUME NEW t \in Thread, Pop(t) PROVE CountInv'
  <2>1. mq_queue' \in Seq(Request) /\ Head(mq_queue) \in Request
    BY <1>0, <1>4, TailShape DEF Pop, TypeOK
  <2>2. TypeOK'
    BY <1>0, <1>4, <2>1 DEF Pop, TypeOK, ThreadState
  <2>3. HasRequest'
    BY <1>0, <1>4, <2>1 DEF Pop, HasRequest, TypeOK
  <2>4. "send" \in ThreadState
    BY DEF ThreadState
  <2> QED BY <1>4, <2>2, <2>3, <2>4, ThreadStepCountInv DEF Pop
<1>5. ASSUME NEW t \in Thread, PopEmpty(t) PROVE CountInv'
  <2>1. TypeOK'
    BY <1>0, <1>5 DEF PopEmpty, TypeOK, ThreadState, mqVars
  <2>2. HasRequest'
    BY <1>0, <1>5 DEF PopEmpty, HasRequest
  <2>3. Len(mq_queue') = 0
    BY <1>5 DEF PopEmpty, mqVars
  <2>4. "ending" \in ThreadState
    BY DEF ThreadState
  <2> QED BY <1>5, <2>1, <2>2, <2>3, <2>4, ThreadStepCountInv DEF PopEmpty, mqVars
<1>6. ASSUME NEW t \in Thread, SendOk(t) PROVE CountInv'
  <2>1. msgid[t] \in Request
    BY <1>0, <1>6 DEF SendOk, HasRequest
  <2>2. TypeOK'
    BY <1>0, <1>6, <2>1 DEF SendOk, TypeOK, ThreadState, mqVars
  <2>3. HasRequest'
    BY <1>0, <1>6 DEF SendOk, HasRequest, TypeOK
  <2>4. "test" \in ThreadState
    BY DEF ThreadState
  <2> QED BY <1>6, <2>2, <2>3, <2>4, ThreadStepCountInv DEF SendOk, mqVars
<1>7. ASSUME NEW t \in Thread, Again(t) PROVE CountInv'
  <2>1. PICK s \in {"start", "ending"} : thread' = [thread EXCEPT ![t] = s]
    BY <1>7 DEF Again
  <2>2. TypeOK'
    BY <1>0, <1>7, <2>1 DEF Again, TypeOK, ThreadState, mqVars
  <2>3. HasRequest'
    BY <1>0, <1>7, <2>1 DEF Again, HasRequest
  <2>4. s \in ThreadState /\ s # "none"
    BY <2>1 DEF ThreadState
  <2> QED BY <1>7, <2>1, <2>2, <2>3, <2>4, ThreadStepCountInv DEF Again, mqVars
<1>8. ASSUME NEW t \in Thread, End(t) PROVE CountInv'
  <2>1. Cardinality(Existing)' = Cardinality(Existing) - 1 /\ Cardinality(Existing)' \in Nat
    <3>1. Existing' = Existing \ {t} /\ t \in Existing
      BY <1>0, <1>8 DEF End, Existing, ThreadsIn, ThreadState
    <3>2. IsFiniteSet(Existing) /\ IsFiniteSet(Existing \ {t})
      BY ThreadsFinite, FS_RemoveElement DEF Existing
    <3> QED BY <3>1, <3>2, FS_RemoveElement, FS_CardinalityType
  <2>2. mq_workers' = mq_workers - 1 /\ mq_workers' = Cardinality(Existing)'
    BY <1>0, <1>8, <2>1 DEF End
  <2>3. TypeOK'
    BY <1>0, <1>8, <2>1, <2>2 DEF End, TypeOK, ThreadState
  <2>4. HasRequest'
    BY <1>0, <1>8 DEF End, HasRequest
  <2>5. WorkersCounted'
    <3>1. LimitTasks' = LimitTasks /\ mq_workers \in Nat
      BY <1>0, <1>8 DEF End, TypeOK
    <3> QED BY <1>0, <2>2, <3>1 DEF WorkersCounted, Existing
  <2>6. ThreadPerMessage'
    <3>1. ThreadsIn({"start"})' = ThreadsIn({"start"})
      BY <1>0, <1>8 DEF End, ThreadsIn
    <3> QED BY <1>8, <3>1 DEF End, CountInv, ThreadPerMessage
  <2> QED BY <2>3, <2>4, <2>5, <2>6 DEF CountInv
<1>9. ASSUME \/ \E t \in Thread : SendFail(t)
             \/ FinalizeStop \/ FinalizeJoin
             \/ UNCHANGED vars
      PROVE  CountInv'
  <2>1. /\ UNCHANGED <<LimitTasks, mq_workers, mq_queue, mq_messages, thread, msgid,
                      answered, refused>>
        /\ mq_working' \in BOOLEAN /\ terminated' \in BOOLEAN
    BY <1>0, <1>9 DEF SendFail, FinalizeStop, FinalizeJoin, vars, mqVars, threadVars, TypeOK
  <2>2. TypeOK'
    BY <1>0, <2>1 DEF TypeOK
  <2> QED BY <2>1, <2>2, NoThreadStepCountInv
<1> QED BY <1>1, <1>2, <1>3, <1>4, <1>5, <1>6, <1>7, <1>8, <1>9 DEF Next, Execute, Ended

\* The invariant holds throughout.
LEMMA SpecCountInv == Spec => []CountInv
BY InitCountInv, NextCountInv, PTL DEF Spec

\* The variables of the channel keep their types in every execution of Put, the
\* threads and Finalize; the signed counter mq_workers never becomes negative.
THEOREM TypeCorrect == Spec => []TypeOK
<1>1. CountInv => TypeOK
  BY DEF CountInv
<1> QED BY <1>1, SpecCountInv, PTL

\* mq_workers is the number of threads that exist, and a limit other than 0
\* bounds it, although ExecuteThread decrements it without the lock.
THEOREM WorkersAreCounted == Spec => []WorkersCounted
<1>1. CountInv => WorkersCounted
  BY DEF CountInv
<1> QED BY <1>1, SpecCountInv, PTL

\* Without a limit every queued request has a thread about to pop, whatever the
\* unlocked test of the queue answers.
THEOREM EveryMessageHasAThread == Spec => []ThreadPerMessage
<1>1. CountInv => ThreadPerMessage
  BY DEF CountInv
<1> QED BY <1>1, SpecCountInv, PTL

-----------------------------------------------------------------------------
(* The refinement of MessageChannel.  An accepted request is in one place:  *)
(* in the queue, with one thread, or answered.  Otherwise the answer of one *)
(* thread could end the work of another.                                    *)

Senders == ThreadsIn({"send"})
Taken == {msgid[t] : t \in Senders}

OnePlace ==
    /\ Distinct(mq_queue)
    /\ \A t, u \in Senders : msgid[t] = msgid[u] => t = u
    /\ Elements(mq_queue) \cap Taken = {}
    /\ (Elements(mq_queue) \cup Taken) \cap answered = {}
    /\ Elements(mq_queue) \cup Taken \cup answered \subseteq mq_messages

\* At the start no request is anywhere.
LEMMA InitOnePlace == Init => OnePlace
BY DEF Init, OnePlace, Senders, Taken, ThreadsIn, Distinct, Elements

\* What a step looks like that Put, a thread's pop or a thread's answer is not.
Aside == Senders' = Senders /\ UNCHANGED <<mq_queue, mq_messages, msgid, answered>>

\* The steps of the channel, as far as requests are concerned: Put emplaces one,
\* Pop and SendOk pass one on, every other step leaves them where they are.
LEMMA ChannelSteps ==
    ASSUME CountInv, [Next]_vars
    PROVE  \/ \E r \in Request :
                 /\ r \notin mq_messages
                 /\ mq_messages' = mq_messages \cup {r}
                 /\ mq_queue' = Append(mq_queue, r)
                 /\ Senders' = Senders /\ UNCHANGED <<msgid, answered>>
           \/ \E t \in Thread : Pop(t) \/ SendOk(t)
           \/ Aside
<1>0. thread \in [Thread -> ThreadState]
  BY DEF CountInv, TypeOK
<1>1. ASSUME NEW r \in Request, PutHire(r) \/ PutOnly(r)
      PROVE  /\ r \notin mq_messages
             /\ mq_messages' = mq_messages \cup {r}
             /\ mq_queue' = Append(mq_queue, r)
             /\ Senders' = Senders /\ UNCHANGED <<msgid, answered>>
  <2>1. Senders' = Senders
    BY <1>0, <1>1 DEF PutHire, PutOnly, Senders, ThreadsIn, threadVars
  <2> QED BY <1>1, <2>1 DEF PutHire, PutOnly, Emplace, threadVars
<1>2. ASSUME NEW r \in Request, PutRefused(r) \/ OtherMethod(r) PROVE Aside
  BY <1>2 DEF PutRefused, OtherMethod, Aside, Senders, ThreadsIn, threadVars, mqVars
<1>3. ASSUME NEW t \in Thread, PopEmpty(t) \/ Again(t) \/ End(t) PROVE Aside
  <2>1. Senders' = Senders
    BY <1>0, <1>3 DEF PopEmpty, Again, End, Senders, ThreadsIn
  <2> QED BY <1>3, <2>1 DEF PopEmpty, Again, End, Aside, mqVars
<1>4. ASSUME NEW t \in Thread, SendFail(t) PROVE Aside
  BY <1>4 DEF SendFail, Aside, Senders, ThreadsIn, threadVars, mqVars
<1>5. CASE FinalizeStop \/ FinalizeJoin \/ UNCHANGED vars
  BY <1>5 DEF FinalizeStop, FinalizeJoin, vars, Aside, Senders, ThreadsIn, threadVars, mqVars
<1> QED BY <1>1, <1>2, <1>3, <1>4, <1>5 DEF Next, Execute, Ended

\* What Pop and SendOk do to the threads that have a request.
LEMMA PopMoves ==
    ASSUME CountInv, NEW t \in Thread, Pop(t)
    PROVE  /\ Senders' = Senders \cup {t} /\ t \notin Senders
           /\ msgid'[t] = Head(mq_queue) /\ \A u \in Senders : msgid'[u] = msgid[u]
           /\ Taken' = Taken \cup {Head(mq_queue)}
<1>1. thread \in [Thread -> ThreadState] /\ msgid \in [Thread -> Request \cup {NoRequest}]
  BY DEF CountInv, TypeOK
<1>2. Senders' = Senders \cup {t} /\ t \notin Senders
  BY <1>1 DEF Pop, Senders, ThreadsIn
<1>3. msgid'[t] = Head(mq_queue) /\ \A u \in Senders : msgid'[u] = msgid[u]
  BY <1>1, <1>2 DEF Pop, Senders, ThreadsIn
<1>4. Taken' = Taken \cup {Head(mq_queue)}
  BY <1>2, <1>3 DEF Taken
<1> QED BY <1>2, <1>3, <1>4

\* A thread that has sent its answer holds the request no longer.
LEMMA SendOkMoves ==
    ASSUME CountInv, OnePlace, NEW t \in Thread, SendOk(t)
    PROVE  /\ t \in Senders /\ Senders' = Senders \ {t}
           /\ \A u \in Senders' : msgid'[u] = msgid[u]
           /\ Taken' = Taken \ {msgid[t]} /\ msgid[t] \in Taken /\ msgid[t] \in Request
<1>1. thread \in [Thread -> ThreadState] /\ msgid \in [Thread -> Request \cup {NoRequest}]
  BY DEF CountInv, TypeOK
<1>2. t \in Senders /\ Senders' = Senders \ {t}
  BY <1>1 DEF SendOk, Senders, ThreadsIn
<1>3. \A u \in Senders' : msgid'[u] = msgid[u]
  BY <1>1, <1>2 DEF SendOk, Senders, ThreadsIn
<1>4. Taken' = Taken \ {msgid[t]} /\ msgid[t] \in Taken
  <2>1. \A u \in Senders : msgid[u] = msgid[t] => u = t
    BY <1>2 DEF OnePlace
  <2> QED BY <1>2, <1>3, <2>1 DEF Taken
<1>5. msgid[t] \in Request
  BY DEF SendOk, CountInv, HasRequest
<1> QED BY <1>2, <1>3, <1>4, <1>5

\* Every step leaves an accepted request in one place.
LEMMA NextOnePlace == CountInv /\ OnePlace /\ [Next]_vars => OnePlace'
<1> SUFFICES ASSUME CountInv, OnePlace, [Next]_vars PROVE OnePlace'
  OBVIOUS
<1>0. mq_queue \in Seq(Request)
  BY DEF CountInv, TypeOK
<1>1. ASSUME NEW r \in Request,
             r \notin mq_messages,
             mq_messages' = mq_messages \cup {r},
             mq_queue' = Append(mq_queue, r),
             Senders' = Senders, UNCHANGED <<msgid, answered>>
      PROVE  OnePlace'
  <2>1. Elements(mq_queue') = Elements(mq_queue) \cup {r}
    BY <1>0, <1>1, ElementsAppend
  <2>2. r \notin Elements(mq_queue) /\ r \notin Taken /\ r \notin answered
    BY <1>1 DEF OnePlace
  <2>3. Distinct(mq_queue')
    BY <1>0, <1>1, <2>2, DistinctAppend DEF OnePlace
  <2>4. Taken' = Taken
    BY <1>1 DEF Taken
  <2> QED BY <1>1, <2>1, <2>2, <2>3, <2>4 DEF OnePlace
<1>2. ASSUME NEW t \in Thread, Pop(t) PROVE OnePlace'
  <2>1. /\ Head(mq_queue) \in Elements(mq_queue)
        /\ Elements(mq_queue') = Elements(mq_queue) \ {Head(mq_queue)}
        /\ Distinct(mq_queue')
    BY <1>0, <1>2, ElementsTail DEF Pop, OnePlace
  <2>2. /\ Senders' = Senders \cup {t} /\ t \notin Senders
        /\ msgid'[t] = Head(mq_queue) /\ \A u \in Senders : msgid'[u] = msgid[u]
        /\ Taken' = Taken \cup {Head(mq_queue)}
    BY <1>2, PopMoves
  <2>3. Head(mq_queue) \notin Taken
    BY <2>1 DEF OnePlace
  <2>4. \A u, v \in Senders' : msgid'[u] = msgid'[v] => u = v
    BY <2>2, <2>3 DEF OnePlace, Taken
  <2>5. UNCHANGED <<mq_messages, answered>>
    BY <1>2 DEF Pop
  <2> QED BY <2>1, <2>2, <2>3, <2>4, <2>5 DEF OnePlace
<1>3. ASSUME NEW t \in Thread, SendOk(t) PROVE OnePlace'
  <2>1. /\ t \in Senders /\ Senders' = Senders \ {t}
        /\ \A u \in Senders' : msgid'[u] = msgid[u]
        /\ Taken' = Taken \ {msgid[t]} /\ msgid[t] \in Taken
    BY <1>3, SendOkMoves
  <2>2. answered' = answered \cup {msgid[t]} /\ UNCHANGED <<mq_queue, mq_messages>>
    BY <1>3 DEF SendOk, mqVars
  <2> QED BY <2>1, <2>2 DEF OnePlace
<1>4. CASE Aside
  BY <1>4 DEF Aside, OnePlace, Taken
<1> QED BY <1>1, <1>2, <1>3, <1>4, ChannelSteps

\* A request that Put emplaces is offered to the channel.
LEMMA PutIsOffer ==
    ASSUME CountInv, OnePlace, NEW r \in Request,
           r \notin mq_messages,
           mq_messages' = mq_messages \cup {r},
           mq_queue' = Append(mq_queue, r),
           Senders' = Senders, UNCHANGED <<msgid, answered>>
    PROVE  Channel!Offer(r)
<1>0. mq_queue \in Seq(Request)
  BY DEF CountInv, TypeOK
<1>1. r \notin Elements(mq_queue) \cup Taken \cup answered
  BY DEF OnePlace
<1>2. Elements(mq_queue') = Elements(mq_queue) \cup {r}
  BY <1>0, ElementsAppend
<1>3. ASSUME NEW y \in Request, NEW x \in Request
      PROVE  Precedes(mq_queue', x, y) <=> (Precedes(mq_queue, x, y) \/ (y = r /\ x \in Elements(mq_queue)))
  BY <1>0, <1>1, PrecedesAppend
<1>4. Elements(mq_queue) \subseteq Request
  BY <1>0 DEF Elements
<1>5. \A x : ~Precedes(mq_queue, x, r)
  BY <1>1, PrecedesElements
<1>6. Ahead(r)' = Elements(mq_queue)
  BY <1>3, <1>4, <1>5 DEF Ahead
<1>7. \A y \in Request \ {r} : Ahead(y)' = Ahead(y)
  BY <1>3 DEF Ahead
<1>8. [y \in Request |-> Ahead(y)]' = [[y \in Request |-> Ahead(y)] EXCEPT ![r] = Elements(mq_queue)]
  BY <1>6, <1>7
<1>9. Taken' = Taken
  BY DEF Taken
<1> QED BY <1>1, <1>2, <1>8, <1>9 DEF Channel!Offer, Taken, Senders

\* A thread that pops takes the oldest request.
LEMMA PopIsTake ==
    ASSUME CountInv, OnePlace, NEW t \in Thread, Pop(t)
    PROVE  \E r \in Request : Channel!Take(r)
<1> DEFINE r == Head(mq_queue)
<1>0. mq_queue \in Seq(Request) /\ mq_queue # <<>> /\ mq_queue' = Tail(mq_queue) /\ Distinct(mq_queue)
  BY DEF CountInv, TypeOK, Pop, OnePlace
<1>1. /\ r \in Elements(mq_queue) /\ r \in Request
      /\ Elements(mq_queue') = Elements(mq_queue) \ {r}
  BY <1>0, ElementsTail, TailShape
<1>2. ASSUME NEW y \in Request, NEW x \in Request
      PROVE  /\ ~Precedes(mq_queue, x, r)
             /\ Precedes(mq_queue', x, y) <=> Precedes(mq_queue, x, y) /\ x # r
  BY <1>0, PrecedesTail
<1>3. Taken' = Taken \cup {r}
  BY PopMoves
<1> HIDE DEF r
<1>4. Ahead(r) = {}
  BY <1>1, <1>2 DEF Ahead
<1>5. \A y \in Request : Ahead(y)' = Ahead(y) \ {r}
  BY <1>2 DEF Ahead
<1>6. [y \in Request |-> Ahead(y)]' =
        [x \in Request |-> IF x = r THEN {} ELSE [y \in Request |-> Ahead(y)][x] \ {r}]
  BY <1>4, <1>5
<1>7. Channel!Forget(r)
  BY <1>1, <1>6 DEF Channel!Forget
<1>8. UNCHANGED answered
  BY DEF Pop
<1> QED BY <1>1, <1>3, <1>4, <1>7, <1>8 DEF Channel!Take, Taken, Senders

\* A thread that has sent its answer is done with the request.
LEMMA SendOkIsAnswer ==
    ASSUME CountInv, OnePlace, NEW t \in Thread, SendOk(t)
    PROVE  \E r \in Request : Channel!Answer(r)
<1> DEFINE r == msgid[t]
<1>1. Taken' = Taken \ {r} /\ r \in Taken /\ r \in Request
  BY SendOkMoves
<1>2. answered' = answered \cup {r} /\ UNCHANGED mq_queue
  BY DEF SendOk, mqVars
<1>3. r \notin Elements(mq_queue)
  BY <1>1 DEF OnePlace
<1> HIDE DEF r
<1>4. \A x : ~Precedes(mq_queue, r, x) /\ ~Precedes(mq_queue, x, r)
  BY <1>3, PrecedesElements
<1>5. \A y \in Request : Ahead(y)' = Ahead(y) /\ r \notin Ahead(y)
  BY <1>2, <1>4 DEF Ahead
<1>6. Ahead(r) = {}
  BY <1>4 DEF Ahead
<1>7. [y \in Request |-> Ahead(y)]' =
        [x \in Request |-> IF x = r THEN {} ELSE [y \in Request |-> Ahead(y)][x] \ {r}]
  BY <1>5, <1>6
<1>8. Elements(mq_queue') = Elements(mq_queue) \ {r}
  BY <1>2, <1>3
<1>9. Channel!Forget(r)
  BY <1>7, <1>8 DEF Channel!Forget
<1> QED BY <1>1, <1>2, <1>9 DEF Channel!Answer, Taken, Senders

\* Every step of Put, of a thread and of Finalize is a step of MessageChannel or
\* leaves it alone.
LEMMA StepImplementsChannel ==
    CountInv /\ OnePlace /\ [Next]_vars => [Channel!Next]_Channel!vars
<1> SUFFICES ASSUME CountInv, OnePlace, [Next]_vars PROVE [Channel!Next]_Channel!vars
  OBVIOUS
<1>1. ASSUME NEW r \in Request,
             r \notin mq_messages,
             mq_messages' = mq_messages \cup {r},
             mq_queue' = Append(mq_queue, r),
             Senders' = Senders, UNCHANGED <<msgid, answered>>
      PROVE  Channel!Next
  BY <1>1, PutIsOffer DEF Channel!Next
<1>2. ASSUME NEW t \in Thread, Pop(t) PROVE Channel!Next
  BY <1>2, PopIsTake DEF Channel!Next
<1>3. ASSUME NEW t \in Thread, SendOk(t) PROVE Channel!Next
  BY <1>3, SendOkIsAnswer DEF Channel!Next
<1>4. CASE Aside
  <2>1. \A r \in Request : Ahead(r)' = Ahead(r)
    BY <1>4 DEF Aside, Ahead
  <2>2. Taken' = Taken
    BY <1>4 DEF Aside, Taken
  <2> QED BY <1>4, <2>1, <2>2 DEF Aside, Channel!vars, Taken, Senders
<1> QED BY <1>1, <1>2, <1>3, <1>4, ChannelSteps

\* The empty channel is an initial state of MessageChannel.
LEMMA InitImplementsChannel == Init => Channel!Init
<1> SUFFICES ASSUME Init PROVE Channel!Init
  OBVIOUS
<1>1. Elements(mq_queue) = {} /\ \A r \in Request : Ahead(r) = {}
  BY DEF Init, Elements, Ahead, Precedes
<1>2. {msgid[t] : t \in ThreadsIn({"send"})} = {}
  BY DEF Init, ThreadsIn
<1> QED BY <1>1, <1>2 DEF Init, Channel!Init

\* The SyncSAPI channel implements MessageChannel: each accepted request is taken
\* by one thread, oldest first, and leaves the channel with its answer.
THEOREM SapiImplementsChannel == Spec => ImplementsChannel
<1>1. Init => CountInv /\ OnePlace
  BY InitCountInv, InitOnePlace
<1>2. CountInv /\ OnePlace /\ [Next]_vars => CountInv' /\ OnePlace'
  BY NextCountInv, NextOnePlace
<1>3. Spec => [](CountInv /\ OnePlace)
  BY <1>1, <1>2, PTL DEF Spec
<1> QED BY <1>3, InitImplementsChannel, StepImplementsChannel, PTL
        DEF Spec, ImplementsChannel, Channel!Spec
=============================================================================
