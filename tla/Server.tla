------------------------------- MODULE Server -------------------------------
(***************************************************************************)
(* The main thread of the bus: Server::Listen (src/kernel/net/server.cpp)   *)
(* in the loop of Kernel::Run (src/kernel/main/run.cpp), the signals that   *)
(* stop it and the order in which it takes the program down.                *)
(*                                                                          *)
(* The thread pool is the abstract one of TaskPool, which ThreadPool        *)
(* implements: a task is the handling of one connection by the router.      *)
(* Every system call of the main thread is a step; clients connect and      *)
(* signals arrive between any two of them.                                  *)
(***************************************************************************)
EXTENDS Integers, Sequences, FiniteSets, Queues

CONSTANTS Connection,    \* the connections clients may make
          MaxListeners,  \* the [[[http...]]] sections of [[server]]
          Limit,         \* thread-limit
          Signals,       \* the signals the program may be sent
          Times,         \* what time(nullptr) may return, in any order
          CounterMod,    \* 2^32
          MaxErrors,     \* how often accept() may fail for lack of resources
          NoId           \* the message id of a connection not accepted yet

SIGHUP == 1
SIGINT == 2
SIGQUIT == 3
SIGTERM == 15
StopSignals == {SIGINT, SIGQUIT, SIGTERM}

\* Bound: fewer than 2^32 connections in the life of the program.
ASSUME ServerAssumption ==
    /\ MaxListeners \in Nat \ {0}
    /\ Signals \subseteq {SIGHUP} \cup StopSignals
    /\ Times \subseteq Nat
    /\ MaxErrors \in Nat
    /\ CounterMod \in Nat
    /\ NoId \notin Nat
    /\ IsFiniteSet(Connection)
    /\ Cardinality(Connection) < CounterMod

VARIABLES
    conFd,       \* the listening sockets are 1 .. conFd
    backlog,     \* the connections accept() can return, for each of them
    revents,     \* the listening sockets poll() found ready, not yet served
    result,      \* Listen's local: poll()'s result, then the count of accepts left
    s,           \* Listen's local: the listening socket it looks at
    main,        \* where the main thread is
    procSignal,  \* the last signal handled; 0: none
    killed,      \* the default action of a signal ended the program
    errors,      \* how often accept() has failed
    msgIndex,    \* the message counter
    MsgId,       \* the message id of each connection
    router,      \* FALSE once fiberRouter is destroyed
    pending, running, finished, phase  \* the pool, see TaskPool

poolVars == <<pending, running, finished, phase>>
listenVars == <<revents, result, s>>
idVars == <<msgIndex, MsgId>>
vars == <<conFd, backlog, listenVars, main, procSignal, killed, errors, idVars, router, poolVars>>

Pool == INSTANCE TaskPool WITH Task <- Connection

MainState == {"poll", "scan", "while", "accept", "check",
              "resetServer", "resetWorkers", "join", "resetRouter", "done"}
Waiting == UNION {Elements(backlog[l]) : l \in DOMAIN backlog}
NoneReady == \A l \in DOMAIN backlog : backlog[l] = <<>>

\* For each configured listener, whether its socket could be made, bound and set
\* to listen.
OpenResults == [1 .. MaxListeners -> BOOLEAN]

\* The numbers of listeners initServer can leave open: AddListener adds the ones
\* that could be opened, and Run gives up when there is none.
Opened == {Cardinality({l \in DOMAIN open : open[l]}) : open \in OpenResults} \ {0}

Init ==
    /\ conFd \in Opened
    /\ backlog = [l \in 1 .. conFd |-> <<>>]
    /\ revents = {} /\ result = 0 /\ s = 0
    /\ main = "poll"
    /\ procSignal = 0
    /\ killed = FALSE
    /\ errors = 0
    /\ msgIndex = 0
    /\ MsgId = [c \in Connection |-> NoId]
    /\ router = TRUE
    /\ Pool!Init

-----------------------------------------------------------------------------
(* Clients and signals.                                                     *)

Connect(c, l) ==
    /\ MsgId[c] = NoId
    /\ c \notin Waiting
    /\ backlog' = [backlog EXCEPT ![l] = Append(@, c)]
    /\ UNCHANGED <<conFd, listenVars, main, procSignal, killed, errors, idVars, router, poolVars>>

\* handleSignals is given a list of signals and passes the index in the list,
\* not the signal, to sigaction.
HandledSignals ==
    LET signals_list == <<SIGINT, SIGQUIT, SIGTERM, 9, 19>>
    IN  {n - 1 : n \in DOMAIN signals_list}

\* The handler runs in any thread.  When it is the main thread, and that is
\* blocked, poll() or accept() returns with EINTR.
Interrupt(n) ==
    /\ n \in HandledSignals
    /\ procSignal' = n
    /\ \/ UNCHANGED <<main, s>>
       \/ /\ main = "poll" /\ NoneReady
          /\ main' = "check"
          /\ UNCHANGED s
       \/ /\ main = "accept" /\ backlog[s] = <<>>
          /\ main' = "scan"
          /\ s' = s + 1
    /\ UNCHANGED <<conFd, backlog, revents, result, killed, errors, idVars, router, poolVars>>

Kill(n) ==
    /\ n \notin HandledSignals
    /\ killed' = TRUE
    /\ UNCHANGED <<conFd, backlog, listenVars, main, procSignal, errors, idVars, router, poolVars>>

-----------------------------------------------------------------------------
(* Server::Listen.                                                          *)

PollReady ==
    /\ main = "poll"
    /\ ~NoneReady
    /\ revents' = {l \in DOMAIN backlog : backlog[l] # <<>>}
    /\ result' = Cardinality(revents')
    /\ s' = 1
    /\ main' = "scan"
    /\ UNCHANGED <<conFd, backlog, procSignal, killed, errors, idVars, router, poolVars>>

PollTimeout ==
    /\ main = "poll"
    /\ NoneReady
    /\ main' = "check"
    /\ UNCHANGED <<conFd, backlog, listenVars, procSignal, killed, errors, idVars, router, poolVars>>

\* poll() fails for another reason than a signal: Run leaves its loop.
PollFail ==
    /\ main = "poll"
    /\ main' = "resetServer"
    /\ UNCHANGED <<conFd, backlog, listenVars, procSignal, killed, errors, idVars, router, poolVars>>

\* Bug: the first listening socket is passed over.
Scan_SkipsFirst ==
    /\ main = "scan"
    /\ \/ /\ result = 0 \/ s > conFd
          /\ main' = "check"
          /\ UNCHANGED <<revents, s>>
       \/ /\ result # 0 /\ s \in revents /\ s > 1
          /\ revents' = revents \ {s}
          /\ main' = "while"
          /\ UNCHANGED s
       \/ /\ result # 0 /\ s \in (1 .. conFd) /\ (s \notin revents \/ s = 1)
          /\ s' = s + 1
          /\ UNCHANGED <<main, revents>>
    /\ UNCHANGED <<conFd, backlog, result, procSignal, killed, errors, idVars, router, poolVars>>

\* Bug: the end of the vector of sockets is not tested.
Scan_NoEnd ==
    /\ main = "scan"
    /\ \/ /\ result = 0
          /\ main' = "check"
          /\ UNCHANGED <<revents, s>>
       \/ /\ result # 0 /\ s \in revents
          /\ revents' = revents \ {s}
          /\ main' = "while"
          /\ UNCHANGED s
       \/ /\ result # 0 /\ s \notin revents
          /\ s' = s + 1
          /\ UNCHANGED <<main, revents>>
    /\ UNCHANGED <<conFd, backlog, result, procSignal, killed, errors, idVars, router, poolVars>>

\* The for loop over the listening sockets.
Scan ==
    /\ main = "scan"
    /\ \/ /\ result = 0 \/ s > conFd
          /\ main' = "check"
          /\ UNCHANGED <<revents, s>>
       \/ /\ result # 0 /\ s \in revents
          /\ revents' = revents \ {s}
          /\ main' = "while"
          /\ UNCHANGED s
       \/ /\ result # 0 /\ s \in (1 .. conFd) \ revents
          /\ s' = s + 1
          /\ UNCHANGED <<main, revents>>
    /\ UNCHANGED <<conFd, backlog, result, procSignal, killed, errors, idVars, router, poolVars>>

\* Bug: one accept too many.
While_OffByOne ==
    /\ main = "while"
    /\ result' = IF result > -1 THEN result - 1 ELSE -1
    /\ \/ result >= 0 /\ main' = "accept" /\ UNCHANGED s
       \/ result < 0 /\ main' = "scan" /\ s' = s + 1
    /\ UNCHANGED <<conFd, backlog, revents, procSignal, killed, errors, idVars, router, poolVars>>

\* while (result--).  The code tests result for zero only and never makes it
\* larger, so -1 stands for every negative value.
While ==
    /\ main = "while"
    /\ result' = IF result > -1 THEN result - 1 ELSE -1
    /\ \/ result # 0 /\ main' = "accept" /\ UNCHANGED s
       \/ result = 0 /\ main' = "scan" /\ s' = s + 1
    /\ UNCHANGED <<conFd, backlog, revents, procSignal, killed, errors, idVars, router, poolVars>>

\* Bug: the counter is not advanced, the time alone tells messages apart.
getMsgId_TimeOnly(now) == now * CounterMod

\* The time in the upper half, the counter in the lower.
getMsgId(now) == now * CounterMod + msgIndex

\* accept() on a blocking socket; the connection goes to the pool.
Accept ==
    /\ main = "accept"
    /\ backlog[s] # <<>>
    /\ backlog' = [backlog EXCEPT ![s] = Tail(@)]
    /\ \E now \in Times : MsgId' = [MsgId EXCEPT ![Head(backlog[s])] = getMsgId(now)]
    /\ msgIndex' = msgIndex + 1
    /\ Pool!Submit(Head(backlog[s]))
    /\ main' = "while"
    /\ UNCHANGED <<conFd, listenVars, procSignal, killed, errors, router>>

AcceptFail ==
    /\ main = "accept"
    /\ backlog[s] # <<>>
    /\ errors < MaxErrors
    /\ errors' = errors + 1
    /\ main' = "scan"
    /\ s' = s + 1
    /\ UNCHANGED <<conFd, backlog, revents, result, procSignal, killed, idVars, router, poolVars>>

-----------------------------------------------------------------------------
(* Kernel::Run.                                                             *)

\* Bug: only SIGINT stops the loop.
Check_IntOnly ==
    /\ main = "check"
    /\ main' = IF procSignal = SIGINT THEN "resetServer" ELSE "poll"
    /\ UNCHANGED <<conFd, backlog, listenVars, procSignal, killed, errors, idVars, router, poolVars>>

Check ==
    /\ main = "check"
    /\ main' = IF procSignal \in StopSignals THEN "resetServer" ELSE "poll"
    /\ UNCHANGED <<conFd, backlog, listenVars, procSignal, killed, errors, idVars, router, poolVars>>

\* fiberServer.reset(): ~Server closes no socket.
ResetServer ==
    /\ main = "resetServer"
    /\ main' = "resetWorkers"
    /\ UNCHANGED <<conFd, backlog, listenVars, procSignal, killed, errors, idVars, router, poolVars>>

\* Bug: the router is destroyed while the pool still works.
ResetWorkers_RouterFirst ==
    /\ main = "resetWorkers"
    /\ Pool!StartClosing
    /\ router' = FALSE
    /\ main' = "join"
    /\ UNCHANGED <<conFd, backlog, listenVars, procSignal, killed, errors, idVars>>

\* fiberWorkers.reset() is ThreadPool::Join; what is still pending is dropped.
ResetWorkers ==
    /\ main = "resetWorkers"
    /\ Pool!StartClosing
    /\ main' = "join"
    /\ UNCHANGED <<conFd, backlog, listenVars, procSignal, killed, errors, idVars, router>>

Join ==
    /\ main = "join"
    /\ Pool!Close
    /\ main' = "resetRouter"
    /\ UNCHANGED <<conFd, backlog, listenVars, procSignal, killed, errors, idVars, router>>

ResetRouter ==
    /\ main = "resetRouter"
    /\ router' = FALSE
    /\ main' = "done"
    /\ UNCHANGED <<conFd, backlog, listenVars, procSignal, killed, errors, idVars, poolVars>>

\* A worker takes the oldest connection, or has handled one (RouterImpl::Process).
StartTask ==
    /\ Pool!Start
    /\ UNCHANGED <<conFd, backlog, listenVars, main, procSignal, killed, errors, idVars, router>>
FinishTask(c) ==
    /\ Pool!Finish(c)
    /\ UNCHANGED <<conFd, backlog, listenVars, main, procSignal, killed, errors, idVars, router>>

-----------------------------------------------------------------------------

MainStep ==
    \/ PollReady \/ PollTimeout \/ Scan \/ While \/ Accept \/ Check
    \/ ResetServer \/ ResetWorkers \/ Join \/ ResetRouter

Running == ~killed /\ main # "done"

Ended == ~Running /\ UNCHANGED vars

Next ==
    \/ /\ Running
       /\ \/ \E c \in Connection, l \in 1 .. conFd : Connect(c, l)
          \/ \E n \in Signals : Interrupt(n) \/ Kill(n)
          \/ PollReady \/ PollTimeout \/ PollFail
          \/ Scan \/ While \/ Accept \/ AcceptFail \/ Check
          \/ ResetServer \/ ResetWorkers \/ Join \/ ResetRouter
          \/ StartTask
          \/ \E c \in Connection : FinishTask(c)
    \/ Ended

Spec == Init /\ [][Next]_vars

(***************************************************************************)
(* Fairness: the main thread and the workers run when they can, poll()      *)
(* returns after its 3 s, and the handling of a connection ends, which a    *)
(* client that sends nothing can prevent (recv() has no timeout).           *)
(***************************************************************************)
FairSpec ==
    /\ Spec
    /\ WF_vars(Running /\ MainStep)
    /\ WF_vars(Running /\ StartTask)
    /\ \A c \in Connection : WF_vars(Running /\ FinishTask(c))

-----------------------------------------------------------------------------
(* Properties.                                                              *)

\* Every variable has the shape the code gives it; Listen's index stays in the
\* vector of sockets while it is used.
TypeOK ==
    /\ conFd \in Opened
    /\ backlog \in [1 .. conFd -> Seq(Connection)]
    /\ revents \subseteq 1 .. conFd
    /\ result \in -1 .. conFd
    /\ s \in 0 .. conFd + 1
    /\ main \in MainState
    /\ main \in {"while", "accept"} => s \in 1 .. conFd
    /\ procSignal \in {0} \cup HandledSignals
    /\ killed \in BOOLEAN
    /\ errors \in 0 .. MaxErrors
    /\ msgIndex \in Nat
    /\ MsgId \in [Connection -> Nat \cup {NoId}]
    /\ router \in BOOLEAN
    /\ phase \in {"open", "closing", "closed"}

\* A worker never routes a request after the router is gone: Run destroys the
\* pool, whose destructor waits for the tasks, before the router.
RouterOutlivesTasks == running # {} => router

\* No two messages have the same id, whatever the clock does between them (the
\* channels use the id as the key of their maps).
MsgIdUnique ==
    \A c, d \in Connection : MsgId[c] # NoId /\ MsgId[c] = MsgId[d] => c = d

\* With one listening socket, Listen never calls accept() when no connection is
\* there: the socket is blocking, and a blocked main thread neither polls nor
\* looks at procSignal.
AcceptNeverBlocks == conFd = 1 /\ main = "accept" => backlog[s] # <<>>

\* With one listening socket every connection is given to the pool, in spite of
\* failing calls of accept(), unless the program stops.
OneListenerServed ==
    \A c \in Connection :
        (conFd = 1 /\ c \in Waiting)
            ~> (MsgId[c] # NoId \/ killed \/ main \in {"resetServer", "done"})

\* Every listening socket is served: a connection made on any of them is given
\* to the pool unless the program stops.
EveryListenerServed ==
    \A c \in Connection :
        c \in Waiting ~> (MsgId[c] # NoId \/ killed \/ main \in {"resetServer", "done"})

\* With one listening socket a stop signal takes the program down in order, pool
\* joined and router destroyed, unless another signal replaces it in procSignal.
StopHonoured ==
    (conFd = 1 /\ procSignal \in StopSignals)
        ~> (main = "done" \/ killed \/ procSignal \notin StopSignals)
=============================================================================
