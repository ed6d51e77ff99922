---------------------------- MODULE ServerProofs ----------------------------
(***************************************************************************)
(* Proofs about the main thread, for any number of listening sockets and    *)
(* connections, any clock and any thread-limit.                             *)
(***************************************************************************)
EXTENDS Server, QueueFacts, FiniteSetTheorems

-----------------------------------------------------------------------------
(* The parts of the inductive invariant.                                    *)

\* The router goes after the pool is closed, which it is when no task runs.
ShutdownInv ==
    /\ phase = "closed" => running = {}
    /\ main = "resetRouter" => phase = "closed"
    /\ ~router => phase = "closed"

\* Where Listen is with its one socket, and what result then counts.
ListenInv ==
    conFd = 1 =>
        /\ main = "scan" => s = 2 \/ (s = 1 /\ result = 1 /\ backlog[1] # <<>>)
        /\ main = "while" => s = 1 /\ (result = 0 \/ (result = 1 /\ backlog[1] # <<>>))
        /\ main = "accept" => s = 1 /\ result = 0 /\ backlog[1] # <<>>

\* A connection that waits to be accepted has no id, and waits in one place.
BacklogInv ==
    \A l \in 1 .. conFd :
        /\ Distinct(backlog[l])
        /\ \A c \in Elements(backlog[l]) :
              /\ MsgId[c] = NoId
              /\ \A k \in 1 .. conFd : c \in Elements(backlog[k]) => k = l

Accepted == {c \in Connection : MsgId[c] # NoId}

\* The counter counts the accepted connections; an id has an earlier value of it
\* in its lower half.
IdInv ==
    /\ msgIndex = Cardinality(Accepted)
    /\ \A c \in Accepted : \E now \in Nat, k \in Nat :
          k < msgIndex /\ MsgId[c] = now * CounterMod + k

-----------------------------------------------------------------------------
(* Type correctness.                                                        *)

\* Run has at least one listening socket.
LEMMA OpenedType == \A n \in Opened : n \in Nat /\ n > 0
<1> SUFFICES ASSUME NEW open \in OpenResults, Cardinality({l \in DOMAIN open : open[l]}) # 0
             PROVE  /\ Cardinality({l \in DOMAIN open : open[l]}) \in Nat
                    /\ Cardinality({l \in DOMAIN open : open[l]}) > 0
  BY DEF Opened
<1>1. IsFiniteSet(1 .. MaxListeners)
  BY FS_Interval, ServerAssumption
<1>2. {l \in DOMAIN open : open[l]} \in SUBSET (1 .. MaxListeners)
  BY DEF OpenResults
<1>3. IsFiniteSet({l \in DOMAIN open : open[l]})
  BY <1>1, <1>2, FS_Subset
<1>4. Cardinality({l \in DOMAIN open : open[l]}) \in Nat
  BY <1>3, FS_CardinalityType
<1> QED BY <1>4

\* poll() reports at most as many sockets as there are.
LEMMA ReadyCount ==
    ASSUME NEW n \in Nat, NEW S \in SUBSET (1 .. n)
    PROVE  Cardinality(S) \in 0 .. n
<1>1. IsFiniteSet(1 .. n) /\ Cardinality(1 .. n) = n
  BY FS_Interval
<1>2. IsFiniteSet(S) /\ Cardinality(S) <= n
  BY <1>1, FS_Subset
<1>3. Cardinality(S) \in Nat
  BY <1>2, FS_CardinalityType
<1> QED BY <1>2, <1>3

\* The initial state has the types.
LEMMA InitTypeOK == Init => TypeOK
<1> SUFFICES ASSUME Init PROVE TypeOK
  OBVIOUS
<1>1. conFd \in Nat /\ conFd > 0
  BY OpenedType DEF Init
<1>2. backlog \in [1 .. conFd -> Seq(Connection)]
  BY DEF Init
<1>3. result \in -1 .. conFd /\ s \in 0 .. conFd + 1 /\ errors \in 0 .. MaxErrors
  BY <1>1, ServerAssumption DEF Init
<1> QED BY <1>2, <1>3 DEF Init, TypeOK, MainState, Pool!Init

\* Every step keeps the types.
LEMMA NextTypeOK == TypeOK /\ [Next]_vars => TypeOK'
<1> SUFFICES ASSUME TypeOK, [Next]_vars PROVE TypeOK'
  OBVIOUS
<1>0. conFd \in Nat /\ conFd > 0
  BY OpenedType DEF TypeOK
<1> USE DEF TypeOK, MainState
<1>1. ASSUME NEW c \in Connection, NEW l \in 1 .. conFd, Connect(c, l) PROVE TypeOK'
  <2>1. Append(backlog[l], c) \in Seq(Connection)
    BY AppendShape
  <2>2. backlog' \in [1 .. conFd -> Seq(Connection)]
    BY <1>1, <2>1 DEF Connect
  <2> QED BY <1>1, <2>2 DEF Connect, listenVars, idVars, poolVars
<1>2. ASSUME NEW n \in Signals, Interrupt(n) PROVE TypeOK'
  <2>1. procSignal' \in {0} \cup HandledSignals
    BY <1>2 DEF Interrupt
  <2>2. s' \in 0 .. conFd + 1 /\ main' \in MainState /\ (main' \in {"while", "accept"} => s' \in 1 .. conFd)
    BY <1>0, <1>2 DEF Interrupt
  <2> QED BY <1>2, <2>1, <2>2 DEF Interrupt, idVars, poolVars
<1>3. ASSUME NEW n \in Signals, Kill(n) PROVE TypeOK'
  BY <1>3 DEF Kill, listenVars, idVars, poolVars
<1>4. CASE PollReady
  <2>1. revents' \subseteq 1 .. conFd
    BY <1>4 DEF PollReady
  <2>2. result' \in 0 .. conFd
    BY <1>0, <1>4, <2>1, ReadyCount DEF PollReady
  <2>3. result' \in -1 .. conFd /\ s' \in 0 .. conFd + 1
    BY <1>0, <1>4, <2>2 DEF PollReady
  <2> QED BY <1>4, <2>1, <2>3 DEF PollReady, idVars, poolVars
<1>5. CASE PollTimeout \/ PollFail \/ Check \/ ResetServer \/ ResetRouter
  BY <1>5 DEF PollTimeout, PollFail, Check, ResetServer, ResetRouter, listenVars, idVars, poolVars
<1>6. CASE Scan
  <2>1. s' \in 0 .. conFd + 1 /\ main' \in MainState /\ (main' \in {"while", "accept"} => s' \in 1 .. conFd)
    BY <1>0, <1>6 DEF Scan
  <2>2. revents' \subseteq 1 .. conFd
    BY <1>6 DEF Scan
  <2> QED BY <1>6, <2>1, <2>2 DEF Scan, idVars, poolVars
<1>7. CASE While
  <2>1. s' \in 0 .. conFd + 1 /\ main' \in MainState /\ (main' \in {"while", "accept"} => s' \in 1 .. conFd)
    BY <1>0, <1>7 DEF While
  <2>2. result' \in -1 .. conFd
    BY <1>0, <1>7 DEF While
  <2> QED BY <1>7, <2>1, <2>2 DEF While, idVars, poolVars
<1>8. CASE Accept
  <2>1. s \in 1 .. conFd /\ backlog[s] \in Seq(Connection) /\ backlog[s] # <<>>
    BY <1>8 DEF Accept
  <2>2. Tail(backlog[s]) \in Seq(Connection) /\ Head(backlog[s]) \in Connection
    BY <2>1, TailShape
  <2>3. backlog' \in [1 .. conFd -> Seq(Connection)]
    BY <1>8, <2>1, <2>2 DEF Accept
  <2>4. PICK now \in Times : MsgId' = [MsgId EXCEPT ![Head(backlog[s])] = getMsgId(now)]
    BY <1>8 DEF Accept
  <2>5. getMsgId(now) \in Nat
    BY ServerAssumption DEF getMsgId
  <2>6. MsgId' \in [Connection -> Nat \cup {NoId}]
    BY <2>2, <2>4, <2>5
  <2> QED BY <1>8, <2>1, <2>3, <2>6 DEF Accept, Pool!Submit, listenVars
<1>9. CASE AcceptFail
  <2>1. s' \in 0 .. conFd + 1 /\ errors' \in 0 .. MaxErrors
    BY <1>0, <1>9, ServerAssumption DEF AcceptFail
  <2> QED BY <1>9, <2>1 DEF AcceptFail, idVars, poolVars
<1>10. CASE ResetWorkers \/ Join
  BY <1>10 DEF ResetWorkers, Join, Pool!StartClosing, Pool!Close, listenVars, idVars
<1>11. CASE StartTask
  BY <1>11 DEF StartTask, Pool!Start, listenVars, idVars
<1>12. ASSUME NEW c \in Connection, FinishTask(c) PROVE TypeOK'
  BY <1>12 DEF FinishTask, Pool!Finish, listenVars, idVars
<1>13. CASE UNCHANGED vars
  BY <1>13 DEF vars, listenVars, idVars, poolVars
<1> QED BY <1>1, <1>2, <1>3, <1>4, <1>5, <1>6, <1>7, <1>8, <1>9, <1>10, <1>11, <1>12, <1>13
        DEF Next, Ended

\* The variables of the main thread keep their types; Listen's index is that of
\* a listening socket whenever it calls accept().
THEOREM TypeCorrect == Spec => []TypeOK
BY InitTypeOK, NextTypeOK, PTL DEF Spec

-----------------------------------------------------------------------------
(* The order in which the program is taken down.                            *)

\* Every step keeps it.
LEMMA NextShutdownInv == ShutdownInv /\ [Next]_vars => ShutdownInv'
<1> SUFFICES ASSUME ShutdownInv, [Next]_vars PROVE ShutdownInv'
  OBVIOUS
<1> USE DEF ShutdownInv
<1>1. ASSUME NEW c \in Connection, NEW l \in 1 .. conFd, Connect(c, l) PROVE ShutdownInv'
  BY <1>1 DEF Connect, poolVars
<1>2. ASSUME NEW n \in Signals, Interrupt(n) \/ Kill(n) PROVE ShutdownInv'
  BY <1>2 DEF Interrupt, Kill, poolVars
<1>3. CASE PollReady \/ PollTimeout \/ PollFail \/ Scan \/ While \/ AcceptFail \/ Check
  BY <1>3 DEF PollReady, PollTimeout, PollFail, Scan, While, AcceptFail, Check, poolVars
<1>4. CASE Accept
  BY <1>4 DEF Accept, Pool!Submit
<1>5. CASE ResetServer \/ ResetRouter
  BY <1>5 DEF ResetServer, ResetRouter, poolVars
<1>6. CASE ResetWorkers \/ Join
  BY <1>6 DEF ResetWorkers, Join, Pool!StartClosing, Pool!Close
<1>7. CASE StartTask
  BY <1>7 DEF StartTask, Pool!Start
<1>8. ASSUME NEW c \in Connection, FinishTask(c) PROVE ShutdownInv'
  BY <1>8 DEF FinishTask, Pool!Finish
<1>9. CASE UNCHANGED vars
  BY <1>9 DEF vars, poolVars
<1> QED BY <1>1, <1>2, <1>3, <1>4, <1>5, <1>6, <1>7, <1>8, <1>9 DEF Next, Ended

\* No worker routes a request after the router is destroyed: Kernel::Run resets
\* the pool, which joins its workers, before the router.
THEOREM RouterIsThere == Spec => []RouterOutlivesTasks
<1>1. Init => ShutdownInv
  BY DEF Init, ShutdownInv, Pool!Init
<1>2. ShutdownInv => RouterOutlivesTasks
  BY DEF ShutdownInv, RouterOutlivesTasks
<1> QED BY <1>1, <1>2, NextShutdownInv, PTL DEF Spec

-----------------------------------------------------------------------------
(* One listening socket.                                                    *)

\* Every step keeps what result counts.
LEMMA NextListenInv == TypeOK /\ ListenInv /\ [Next]_vars => ListenInv'
<1> SUFFICES ASSUME TypeOK, ListenInv, [Next]_vars PROVE ListenInv'
  OBVIOUS
<1>0. UNCHANGED conFd
  BY DEF Next, Connect, Interrupt, Kill, PollReady, PollTimeout, PollFail, Scan, While, Accept,
         AcceptFail, Check, ResetServer, ResetWorkers, Join, ResetRouter, StartTask, FinishTask,
         Ended, vars
<1> SUFFICES ASSUME conFd = 1 PROVE ListenInv'
  BY <1>0 DEF ListenInv
<1>t. backlog \in [{1} -> Seq(Connection)] /\ revents \subseteq {1} /\ result \in -1 .. 1 /\ s \in 0 .. 2
  BY DEF TypeOK
<1> USE DEF ListenInv
<1>1. ASSUME NEW c \in Connection, NEW l \in 1 .. conFd, Connect(c, l) PROVE ListenInv'
  <2>1. l = 1 /\ backlog'[1] = Append(backlog[1], c) /\ backlog[1] \in Seq(Connection)
    BY <1>t, <1>1 DEF Connect
  <2>2. backlog'[1] # <<>>
    <3>1. Len(Append(backlog[1], c)) = Len(backlog[1]) + 1 /\ Len(backlog[1]) \in Nat
      BY <2>1, AppendShape
    <3> QED BY <2>1, <3>1
  <2>3. UNCHANGED <<main, s, result>>
    BY <1>1 DEF Connect, listenVars
  <2> QED BY <2>2, <2>3
<1>2. ASSUME NEW n \in Signals, Interrupt(n) \/ Kill(n) PROVE ListenInv'
  BY <1>2 DEF Interrupt, Kill, listenVars
<1>3. CASE PollReady
  <2>1. DOMAIN backlog = {1}
    BY <1>t
  <2>2. revents' = {1} /\ backlog[1] # <<>>
    BY <1>3, <2>1 DEF PollReady, NoneReady
  <2>3. result' = 1
    BY <1>3, <2>2, FS_Singleton DEF PollReady
  <2> QED BY <1>3, <2>2, <2>3 DEF PollReady
<1>4. CASE Scan
  BY <1>t, <1>4 DEF Scan
<1>5. CASE While
  BY <1>t, <1>5 DEF While
<1>6. CASE Accept
  BY <1>6 DEF Accept, listenVars
<1>7. CASE PollTimeout \/ PollFail \/ AcceptFail \/ Check
  BY <1>t, <1>7 DEF PollTimeout, PollFail, AcceptFail, Check, listenVars
<1>8. CASE ResetServer \/ ResetWorkers \/ Join \/ ResetRouter
  BY <1>8 DEF ResetServer, ResetWorkers, Join, ResetRouter, listenVars
<1>9. CASE StartTask \/ \E c \in Connection : FinishTask(c)
  BY <1>9 DEF StartTask, FinishTask, listenVars
<1>10. CASE UNCHANGED vars
  BY <1>10 DEF vars, listenVars
<1> QED BY <1>1, <1>2, <1>3, <1>4, <1>5, <1>6, <1>7, <1>8, <1>9, <1>10 DEF Next, Ended

\* With one listening socket the main thread never waits in accept(): whatever
\* clients, signals and failures do, Listen calls it once for a socket that
\* poll() found ready.
THEOREM OneListenerNeverBlocks == Spec => []AcceptNeverBlocks
<1>1. Init => ListenInv
  BY DEF Init, ListenInv
<1>2. ListenInv => AcceptNeverBlocks
  BY DEF ListenInv, AcceptNeverBlocks
<1> QED BY <1>1, <1>2, NextListenInv, TypeCorrect, PTL DEF Spec

-----------------------------------------------------------------------------
(* Message ids.                                                             *)

\* The lower half of an id tells its counter, whatever the time was.
LEMMA LowerHalf ==
    ASSUME NEW t \in Nat, NEW u \in Nat, NEW k \in Nat, NEW n \in Nat, NEW m \in Nat,
           k < m, n < m, t * m + k = u * m + n
    PROVE  k = n
<1>1. ASSUME NEW a \in Nat, NEW b \in Nat, a < b PROVE a * m + m <= b * m
  <2>1. PICK d \in Nat : b = a + 1 + d
    <3>1. b - a - 1 \in Nat
      BY <1>1
    <3> QED BY <3>1
  <2>2. b * m = a * m + m + d * m
    BY <2>1
  <2>3. d * m >= 0 /\ d * m \in Nat /\ a * m \in Nat
    OBVIOUS
  <2> QED BY <2>2, <2>3
<1>2. t * m \in Nat /\ u * m \in Nat
  OBVIOUS
<1>3. CASE t < u
  BY <1>1, <1>2, <1>3
<1>4. CASE u < t
  BY <1>1, <1>2, <1>4
<1>5. CASE t = u
  BY <1>2, <1>5
<1> QED BY <1>3, <1>4, <1>5

\* Only Connect and Accept change the backlogs, the ids or the counter.
LEMMA IdSteps ==
    ASSUME [Next]_vars
    PROVE  /\ conFd' = conFd
           /\ \/ UNCHANGED <<backlog, idVars>>
              \/ \E c \in Connection, l \in 1 .. conFd : Connect(c, l)
              \/ Accept
<1>1. CASE \E n \in Signals : Interrupt(n) \/ Kill(n)
  BY <1>1 DEF Interrupt, Kill
<1>2. CASE \/ PollReady \/ PollTimeout \/ PollFail \/ Scan \/ While \/ AcceptFail \/ Check
           \/ ResetServer \/ ResetWorkers \/ Join \/ ResetRouter
  BY <1>2 DEF PollReady, PollTimeout, PollFail, Scan, While, AcceptFail, Check,
              ResetServer, ResetWorkers, Join, ResetRouter
<1>3. CASE StartTask \/ \E c \in Connection : FinishTask(c)
  BY <1>3 DEF StartTask, FinishTask
<1>4. CASE UNCHANGED vars
  BY <1>4 DEF vars
<1>5. CASE Accept
  BY <1>5 DEF Accept
<1>6. CASE \E c \in Connection, l \in 1 .. conFd : Connect(c, l)
  BY <1>6 DEF Connect
<1> QED BY <1>1, <1>2, <1>3, <1>4, <1>5, <1>6 DEF Next, Ended

\* What accept() takes: the first connection of the backlog, which had no id.
LEMMA AcceptTakes ==
    ASSUME TypeOK, BacklogInv, Accept
    PROVE  \E c \in Connection, now \in Nat :
              /\ s \in 1 .. conFd /\ c \in Elements(backlog[s]) /\ MsgId[c] = NoId
              /\ backlog' = [backlog EXCEPT ![s] = Tail(backlog[s])]
              /\ Elements(Tail(backlog[s])) = Elements(backlog[s]) \ {c}
              /\ Distinct(Tail(backlog[s]))
              /\ MsgId' = [MsgId EXCEPT ![c] = now * CounterMod + msgIndex]
              /\ msgIndex' = msgIndex + 1
<1>1. s \in 1 .. conFd /\ backlog[s] \in Seq(Connection) /\ backlog[s] # <<>>
  BY DEF Accept, TypeOK
<1>2. PICK c \in Connection : c = Head(backlog[s])
  BY <1>1, TailShape
<1>3. PICK now \in Times : MsgId' = [MsgId EXCEPT ![c] = getMsgId(now)]
  BY <1>2 DEF Accept
<1>4. /\ c \in Elements(backlog[s]) /\ Distinct(Tail(backlog[s]))
      /\ Elements(Tail(backlog[s])) = Elements(backlog[s]) \ {c}
  BY <1>1, <1>2, ElementsTail DEF BacklogInv
<1>5. MsgId[c] = NoId
  BY <1>1, <1>4 DEF BacklogInv
<1>6. now \in Nat
  BY ServerAssumption
<1>7. msgIndex' = msgIndex + 1 /\ backlog' = [backlog EXCEPT ![s] = Tail(backlog[s])]
  BY DEF Accept
<1> QED BY <1>1, <1>3, <1>4, <1>5, <1>6, <1>7 DEF getMsgId

\* A connection comes to one backlog and leaves it when it gets its id.
LEMMA NextBacklogInv == TypeOK /\ BacklogInv /\ [Next]_vars => BacklogInv'
<1> SUFFICES ASSUME TypeOK, BacklogInv, [Next]_vars PROVE BacklogInv'
  OBVIOUS
<1>0. /\ conFd' = conFd
      /\ backlog \in [1 .. conFd -> Seq(Connection)]
      /\ MsgId \in [Connection -> Nat \cup {NoId}]
  BY IdSteps DEF TypeOK
<1>1. ASSUME NEW c \in Connection, NEW l \in 1 .. conFd, Connect(c, l) PROVE BacklogInv'
  <2>1. /\ MsgId[c] = NoId /\ MsgId' = MsgId
        /\ backlog' = [backlog EXCEPT ![l] = Append(backlog[l], c)]
    BY <1>1 DEF Connect, idVars
  <2>2. \A k \in 1 .. conFd : c \notin Elements(backlog[k])
    BY <1>0, <1>1 DEF Connect, Waiting
  <2>3. /\ Elements(backlog'[l]) = Elements(backlog[l]) \cup {c}
        /\ Distinct(backlog'[l])
    BY <1>0, <2>1, <2>2, ElementsAppend, DistinctAppend DEF BacklogInv
  <2>4. \A k \in 1 .. conFd : k # l => backlog'[k] = backlog[k]
    BY <1>0, <2>1
  <2> QED BY <1>0, <2>1, <2>2, <2>3, <2>4 DEF BacklogInv
<1>2. CASE Accept
  <2>1. PICK c \in Connection, now \in Nat :
              /\ s \in 1 .. conFd /\ c \in Elements(backlog[s]) /\ MsgId[c] = NoId
              /\ backlog' = [backlog EXCEPT ![s] = Tail(backlog[s])]
              /\ Elements(Tail(backlog[s])) = Elements(backlog[s]) \ {c}
              /\ Distinct(Tail(backlog[s]))
              /\ MsgId' = [MsgId EXCEPT ![c] = now * CounterMod + msgIndex]
    BY <1>2, AcceptTakes
  <2>2. PICK l \in 1 .. conFd : l = s
    BY <2>1
  <2>3. Elements(backlog'[l]) = Elements(backlog[l]) \ {c} /\ Distinct(backlog'[l])
    BY <1>0, <2>1, <2>2
  <2>4. \A k \in 1 .. conFd : k # l => backlog'[k] = backlog[k]
    BY <1>0, <2>1, <2>2
  <2>5. \A k \in 1 .. conFd : k # l => c \notin Elements(backlog[k])
    BY <2>1, <2>2 DEF BacklogInv
  <2>6. \A d \in Connection : d # c => MsgId'[d] = MsgId[d]
    BY <1>0, <2>1
  <2>7. \A k \in 1 .. conFd : Elements(backlog[k]) \subseteq Connection
    BY <1>0 DEF Elements
  <2>8. ASSUME NEW k \in 1 .. conFd
        PROVE  /\ Distinct(backlog'[k])
               /\ Elements(backlog'[k]) = Elements(backlog[k]) \ {c}
    BY <2>3, <2>4, <2>5 DEF BacklogInv
  <2> QED BY <1>0, <2>6, <2>7, <2>8 DEF BacklogInv
<1>3. CASE UNCHANGED <<backlog, idVars>>
  BY <1>0, <1>3 DEF BacklogInv, idVars
<1> QED BY <1>1, <1>2, <1>3, IdSteps

\* The counter stays below 2^32: it counts the accepted connections.
LEMMA CounterFits ==
    ASSUME TypeOK, IdInv
    PROVE  IsFiniteSet(Accepted) /\ msgIndex < CounterMod
<1>1. Accepted \in SUBSET Connection
  BY DEF Accepted
<1>2. IsFiniteSet(Accepted) /\ Cardinality(Accepted) <= Cardinality(Connection)
  BY <1>1, FS_Subset, ServerAssumption
<1>3. Cardinality(Connection) \in Nat
  BY FS_CardinalityType, ServerAssumption
<1> QED BY <1>2, <1>3, ServerAssumption DEF IdInv, TypeOK

\* A new id has a value of the counter that no id has had.
LEMMA NextIdInv ==
    TypeOK /\ BacklogInv /\ IdInv /\ MsgIdUnique /\ [Next]_vars => IdInv' /\ MsgIdUnique'
<1> SUFFICES ASSUME TypeOK, BacklogInv, IdInv, MsgIdUnique, [Next]_vars
             PROVE  IdInv' /\ MsgIdUnique'
  OBVIOUS
<1>0. /\ MsgId \in [Connection -> Nat \cup {NoId}]
      /\ msgIndex \in Nat /\ CounterMod \in Nat /\ NoId \notin Nat
  BY ServerAssumption DEF TypeOK
<1>1. CASE Accept
  <2>1. PICK c \in Connection, now \in Nat :
              /\ MsgId[c] = NoId
              /\ MsgId' = [MsgId EXCEPT ![c] = now * CounterMod + msgIndex]
              /\ msgIndex' = msgIndex + 1
    BY <1>1, AcceptTakes
  <2>2. now * CounterMod + msgIndex \in Nat
    BY <1>0
  <2>3. /\ MsgId'[c] = now * CounterMod + msgIndex /\ MsgId'[c] # NoId
        /\ \A d \in Connection : d # c => MsgId'[d] = MsgId[d]
    BY <1>0, <2>1, <2>2
  <2>4. Accepted' = Accepted \cup {c} /\ c \notin Accepted
    BY <2>1, <2>3 DEF Accepted
  <2>5. msgIndex' = Cardinality(Accepted')
    BY <2>1, <2>4, CounterFits, FS_AddElement DEF IdInv
  <2>6. ASSUME NEW d \in Accepted
        PROVE  \E t \in Nat, k \in Nat : k < msgIndex /\ MsgId[d] = t * CounterMod + k
    BY DEF IdInv
  <2>7. ASSUME NEW d \in Accepted'
        PROVE  \E t \in Nat, k \in Nat : k < msgIndex' /\ MsgId'[d] = t * CounterMod + k
    <3>1. CASE d = c
      <4>1. msgIndex < msgIndex'
        BY <1>0, <2>1
      <4> QED BY <1>0, <2>3, <3>1, <4>1
    <3>2. CASE d # c
      <4>1. PICK t \in Nat, k \in Nat : k < msgIndex /\ MsgId[d] = t * CounterMod + k
        BY <2>4, <2>6, <3>2
      <4>2. k < msgIndex'
        BY <1>0, <2>1, <4>1
      <4>3. MsgId'[d] = MsgId[d]
        BY <2>3, <2>4, <3>2 DEF Accepted
      <4> QED BY <4>1, <4>2, <4>3
    <3> QED BY <3>1, <3>2
  <2>8. ASSUME NEW d \in Accepted PROVE MsgId[d] # now * CounterMod + msgIndex
    <3>1. PICK t \in Nat, k \in Nat : k < msgIndex /\ MsgId[d] = t * CounterMod + k
      BY <2>6
    <3>2. msgIndex < CounterMod /\ k < CounterMod
      BY <1>0, <3>1, CounterFits
    <3> QED BY <1>0, <3>1, <3>2, LowerHalf
  <2>9. MsgIdUnique'
    BY <2>3, <2>8 DEF MsgIdUnique, Accepted
  <2> QED BY <2>5, <2>7, <2>9 DEF IdInv
<1>2. CASE UNCHANGED idVars
  BY <1>2 DEF idVars, IdInv, MsgIdUnique, Accepted
<1>3. ASSUME NEW c \in Connection, NEW l \in 1 .. conFd, Connect(c, l) PROVE UNCHANGED idVars
  BY <1>3 DEF Connect
<1> QED BY <1>1, <1>2, <1>3, IdSteps

\* No two messages get the same id from getMsgId, whatever time() returns: the
\* key of a channel's maps names one message.
THEOREM MsgIdsDiffer == Spec => []MsgIdUnique
<1>1. Init => BacklogInv /\ IdInv /\ MsgIdUnique
  <2> SUFFICES ASSUME Init PROVE BacklogInv /\ IdInv /\ MsgIdUnique
    OBVIOUS
  <2>1. BacklogInv
    BY DEF Init, BacklogInv, Elements, Distinct
  <2>2. Accepted = {}
    BY DEF Init, Accepted
  <2>3. IdInv
    BY <2>2, FS_EmptySet DEF Init, IdInv
  <2>4. MsgIdUnique
    BY DEF Init, MsgIdUnique
  <2> QED BY <2>1, <2>3, <2>4
<1>2. TypeOK /\ BacklogInv /\ IdInv /\ MsgIdUnique /\ [Next]_vars
        => BacklogInv' /\ IdInv' /\ MsgIdUnique'
  BY NextBacklogInv, NextIdInv
<1> QED BY <1>1, <1>2, TypeCorrect, PTL DEF Spec
=============================================================================
