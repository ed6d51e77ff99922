--------------------------- MODULE SyncQueueProofs --------------------------
(***************************************************************************)
(* Proofs about a SyncQueue channel, for any number of requests and         *)
(* descriptors and any queue-limit-size.                                    *)
(***************************************************************************)
EXTENDS SyncQueue, QueueFacts, FunctionTheorems

-----------------------------------------------------------------------------
(* The parts of the inductive invariant.                                    *)

\* Put has left request x in the channel.
Emplaced(x) == x \in Request /\ method[x] = "Put" /\ handler[x] = "done" /\ code[x] = NoCode

\* Where a POST is that has found its client.
PostState == {"forward", "sent", "unsent", "closed", "unsentClosed", "erase"}

Posts(x) == {q \in Request : method[q] = "Post" /\ muid[q] = x}

\* A handler has what it works on, and chooses a status before it answers only.
Progress ==
    \A r \in Request :
        /\ handler[r] = "none" => method[r] = "Other" /\ muid[r] = NoRequest
        /\ handler[r] \in {"none", "dispatch"} \cup PostState => code[r] = NoCode
        /\ handler[r] = "close" => code[r] # NoCode
        /\ handler[r] \in PostState => method[r] = "Post" /\ muid[r] # NoRequest

\* Only requests that Put has left in the channel are in its containers ...
Kept ==
    /\ \A x \in Elements(mq_queue) \cup mq_locked \cup mq_messages : Emplaced(x)
    /\ Distinct(mq_queue)

\* ... and are worked on by a handler.
Known == \A r \in Request : muid[r] # NoRequest => Emplaced(muid[r])

\* What clients have been told is what the handler of their request worked on: a
\* message, or the content of a POST for one.
Told ==
    \A c \in Request : \A e \in Elements(inbox[c]) :
        /\ handler[e.for] \in {"close", "done"}
        /\ method[e.for] \in {"Get", "Head"} /\ e.uid # NoRequest => e.uid = muid[e.for]
        /\ e.uid # NoRequest => \/ Emplaced(e.uid)
                                \/ method[e.uid] = "Post" /\ Emplaced(e.for)

HandlerInv == TypeOK /\ Progress /\ Kept /\ Known /\ Told

\* A connection with a descriptor has been accepted.
Accepted == \A f \in Fd : owner[f] # NoRequest => handler[owner[f]] # "none"

\* A descriptor that a POST has closed is not that of its client any more ...
Closed ==
    \A q \in Request : handler[q] \in {"closed", "unsentClosed", "erase"} =>
        \A f \in Fd : owner[f] # muid[q]

\* ... which has then forgotten it.
Forgotten == \A q \in Request : handler[q] = "erase" => Handle[muid[q]] = NoFd

\* A POST that is answered 200 or 503 has had a client.
HadClient ==
    \A q \in Request : method[q] = "Post" /\ code[q] \in {200, 503} => muid[q] # NoRequest

ConnectionInv ==
    NoConnectionLeak /\ Accepted /\ Closed /\ Forgotten /\ HadClient /\ PostSettlesClient

\* With clients that answer a message once: one POST for a message, after a GET
\* has taken it;
OnePost ==
    \A q \in Request : method[q] = "Post" /\ muid[q] # NoRequest =>
        /\ muid[q] \notin Elements(mq_queue)
        /\ \A p \in Posts(muid[q]) : p = q

\* a connection has lost its descriptor only while that POST closes it;
OwnDescriptor ==
    \A c \in Request : Handle[c] # NoFd =>
        \/ owner[Handle[c]] = c
        \/ \E q \in Posts(c) : handler[q] \in {"closed", "unsentClosed"}

\* and an answer was sent by the handler of the request, or by that POST.
AnsweredBy ==
    /\ \A c \in Request : inbox[c] # <<>> =>
          /\ handler[c] \in {"close", "done"}
          /\ Emplaced(c) => \E q \in Posts(c) : handler[q] \notin {"dispatch", "forward"}
    /\ \A q \in Request : handler[q] \in {"sent", "closed", "erase"} =>
          \E e \in Elements(inbox[muid[q]]) : e.uid = q

PoliteInv ==
    /\ Partition /\ ReplyToItsClient /\ PoliteOneReply /\ AckMeansForwarded
    /\ OneReply => OnePost /\ OwnDescriptor /\ AnsweredBy

\* Every kept message is queued or locked.
Pending == mq_messages \subseteq Elements(mq_queue) \cup mq_locked

-----------------------------------------------------------------------------
(* Steps.                                                                   *)

\* The step of r: its connection is accepted, or its handler runs.
StepOf(r) == (\E m \in Method, f \in Fd : Accept(r, m, f)) \/ Handler(r)

\* A step of r changes no other handler's variables; a handler that has returned
\* makes none.
LEMMA OwnStep ==
    ASSUME TypeOK, NEW r \in Request, StepOf(r)
    PROVE  /\ handler[r] # "done"
           /\ \A q \in Request \ {r} :
                 /\ handler'[q] = handler[q] /\ method'[q] = method[q]
                 /\ muid'[q] = muid[q] /\ code'[q] = code[q]
<1> USE DEF TypeOK
<1>1. ASSUME NEW m \in Method, NEW f \in Fd, Accept(r, m, f)
      PROVE  /\ handler[r] # "done"
             /\ \A q \in Request \ {r} :
                   /\ handler'[q] = handler[q] /\ method'[q] = method[q]
                   /\ muid'[q] = muid[q] /\ code'[q] = code[q]
  BY <1>1 DEF Accept
<1>2. CASE \/ GetEmpty(r) \/ GetFront(r) \/ HeadFront(r)
           \/ PutEmplace(r) \/ PutRefused(r) \/ OtherMethod(r)
  BY <1>2 DEF GetEmpty, GetFront, HeadFront, PutEmplace, PutRefused, OtherMethod, Answer
<1>3. CASE \/ PostFind(r) \/ ForwardSend(r) \/ ForwardFail(r) \/ ForwardClose(r)
           \/ ForwardZero(r) \/ PostErase(r) \/ ReplySend(r) \/ ReplyClose(r)
  BY <1>3 DEF PostFind, ForwardSend, ForwardFail, ForwardClose, ForwardZero, PostErase,
              ReplySend, ReplyClose, Answer
<1> QED BY <1>1, <1>2, <1>3 DEF StepOf, Handler

\* A step is made by the handler of one request, whose own variables alone it
\* changes; a handler that has returned makes none.
LEMMA OneHandlerMoves ==
    ASSUME TypeOK, [Next]_vars
    PROVE  /\ OneReply' = OneReply
           /\ \/ UNCHANGED vars
              \/ \E r \in Request : StepOf(r)
           /\ \/ UNCHANGED <<handler, method, muid, code>>
              \/ \E r \in Request :
                    /\ handler[r] # "done"
                    /\ \A q \in Request \ {r} :
                          /\ handler'[q] = handler[q] /\ method'[q] = method[q]
                          /\ muid'[q] = muid[q] /\ code'[q] = code[q]
<1>1. OneReply' = OneReply /\ (UNCHANGED vars \/ \E r \in Request : StepOf(r))
  BY DEF Next, Quiet, StepOf, vars
<1>2. CASE UNCHANGED vars
  BY <1>1, <1>2 DEF vars
<1>3. ASSUME NEW r \in Request, StepOf(r)
      PROVE  /\ handler[r] # "done"
             /\ \A q \in Request \ {r} :
                   /\ handler'[q] = handler[q] /\ method'[q] = method[q]
                   /\ muid'[q] = muid[q] /\ code'[q] = code[q]
  BY <1>3, OwnStep
<1> QED BY <1>1, <1>2, <1>3

\* A request stays one that Put has left in the channel.
LEMMA EmplacedStays ==
    ASSUME TypeOK, [Next]_vars, NEW x, Emplaced(x)
    PROVE  Emplaced(x)'
BY OneHandlerMoves DEF Emplaced

\* A reply that is sent is added to what the client of one connection has got.
LEMMA SendFacts ==
    ASSUME TypeOK, NEW c \in Request, NEW m \in Reply, Send(Handle[c], m)
    PROVE  /\ Handle[c] \in Fd
           /\ owner[Handle[c]] \in Request
           /\ inbox' \in [Request -> Seq(Reply)]
           /\ Elements(inbox'[owner[Handle[c]]]) = Elements(inbox[owner[Handle[c]]]) \cup {m}
           /\ inbox'[owner[Handle[c]]] # <<>>
           /\ Len(inbox'[owner[Handle[c]]]) = Len(inbox[owner[Handle[c]]]) + 1
           /\ \A d \in Request \ {owner[Handle[c]]} : inbox'[d] = inbox[d]
<1>1. Handle[c] \in Fd
  BY DEF TypeOK, Send
<1>2. PICK d \in Request : d = owner[Handle[c]]
  BY <1>1 DEF TypeOK, Send
<1>3. inbox[d] \in Seq(Reply) /\ inbox' = [inbox EXCEPT ![d] = Append(inbox[d], m)]
  BY <1>2 DEF TypeOK, Send
<1>4. inbox'[d] = Append(inbox[d], m) /\ \A e \in Request \ {d} : inbox'[e] = inbox[e]
  BY <1>3 DEF TypeOK
<1>5. /\ Append(inbox[d], m) \in Seq(Reply)
      /\ Len(Append(inbox[d], m)) = Len(inbox[d]) + 1
      /\ Elements(Append(inbox[d], m)) = Elements(inbox[d]) \cup {m}
  BY <1>3, AppendShape, ElementsAppend
<1>6. inbox' \in [Request -> Seq(Reply)]
  BY <1>3, <1>5 DEF TypeOK
<1>7. inbox'[d] # <<>>
  <2>1. m \in Elements(inbox'[d])
    BY <1>4, <1>5
  <2> QED BY <2>1 DEF Elements
<1> QED BY <1>1, <1>2, <1>4, <1>5, <1>6, <1>7

\* The answer of a request's own handler.
OwnAnswer(r) ==
    [for |-> r, code |-> code[r],
     uid |-> IF code[r] = 200 /\ method[r] \in {"Get", "Head"} THEN muid[r] ELSE NoRequest]

\* ReplySend sends it, for the request itself and with no uid but the one that
\* its handler worked on, or fails to send.
LEMMA OwnAnswerFacts ==
    ASSUME TypeOK, NEW r \in Request, ReplySend(r)
    PROVE  \E m \in Reply :
              /\ m.for = r /\ (m.uid # NoRequest => m.uid = muid[r])
              /\ Send(Handle[r], m) \/ UNCHANGED inbox
<1>1. code[r] \in Code /\ muid[r] \in Request \cup {NoRequest}
  BY DEF ReplySend, TypeOK
<1>2. OwnAnswer(r) \in Reply
  BY <1>1 DEF OwnAnswer, Reply
<1>3. OwnAnswer(r).for = r /\ (OwnAnswer(r).uid # NoRequest => OwnAnswer(r).uid = muid[r])
  BY DEF OwnAnswer
<1>4. Send(Handle[r], OwnAnswer(r)) \/ UNCHANGED inbox
  BY DEF ReplySend, OwnAnswer
<1> QED BY <1>2, <1>3, <1>4

\* A handler that goes on to answer has chosen a status.
LEMMA AnswerType ==
    ASSUME TypeOK, NEW r \in Request, NEW c \in Code, Answer(r, c)
    PROVE  /\ handler' \in [Request -> HandlerState]
           /\ code' \in [Request -> Code \cup {NoCode}]
           /\ \A q \in Request : handler'[q] = "reply" => code'[q] # NoCode
<1>1. c # NoCode /\ "reply" \in HandlerState
  BY DEF Code, NoCode, HandlerState
<1> QED BY <1>1 DEF Answer, TypeOK

-----------------------------------------------------------------------------
(* Type correctness, and what the handlers work on.                         *)

\* The empty channel satisfies it.
LEMMA InitHandlerInv == Init => HandlerInv
<1> SUFFICES ASSUME Init PROVE HandlerInv
  OBVIOUS
<1>1. TypeOK
  BY DEF Init, TypeOK, HandlerState
<1>2. Progress /\ Kept /\ Known /\ Told
  BY DEF Init, Progress, Kept, Known, Told, PostState, Elements, Distinct
<1> QED BY <1>1, <1>2 DEF HandlerInv

\* Every step keeps the types.
LEMMA NextTypeOK == HandlerInv /\ [Next]_vars => TypeOK'
<1> SUFFICES ASSUME HandlerInv, [Next]_vars PROVE TypeOK'
  OBVIOUS
<1>0. TypeOK /\ Progress
  BY DEF HandlerInv
<1>1. ASSUME NEW r \in Request, NEW m \in Method, NEW f \in Fd, Accept(r, m, f) PROVE TypeOK'
  BY <1>0, <1>1 DEF Accept, TypeOK, HandlerState, mqVars
<1>2. ASSUME NEW r \in Request, GetEmpty(r) \/ PutRefused(r) \/ OtherMethod(r) PROVE TypeOK'
  <2>1. /\ \E c \in Code : Answer(r, c)
        /\ UNCHANGED <<mqVars, method, muid, netVars>>
    BY <1>2 DEF GetEmpty, PutRefused, OtherMethod, Code
  <2> QED BY <1>0, <2>1, AnswerType DEF TypeOK, mqVars, netVars
<1>3. ASSUME NEW r \in Request, GetFront(r) PROVE TypeOK'
  <2>1. Head(mq_queue) \in Request /\ Tail(mq_queue) \in Seq(Request)
    BY <1>0, <1>3, TailShape DEF GetFront, TypeOK
  <2> QED BY <1>0, <1>3, <2>1 DEF GetFront, Answer, TypeOK, HandlerState, Code, NoCode, netVars
<1>4. ASSUME NEW r \in Request, HeadFront(r) PROVE TypeOK'
  <2>1. mq_queue # <<>> => Head(mq_queue) \in Request
    BY <1>0, TailShape DEF TypeOK
  <2> QED BY <1>0, <1>4, <2>1 DEF HeadFront, Answer, TypeOK, HandlerState, Code, NoCode, mqVars, netVars
<1>5. ASSUME NEW r \in Request, PutEmplace(r) PROVE TypeOK'
  <2>1. Append(mq_queue, r) \in Seq(Request)
    BY <1>0, AppendShape DEF TypeOK
  <2> QED BY <1>0, <1>5, <2>1 DEF PutEmplace, TypeOK, HandlerState, netVars
<1>6. ASSUME NEW r \in Request, PostFind(r) PROVE TypeOK'
  <2>1. CASE (\E c \in Code : Answer(r, c)) /\ UNCHANGED muid
    BY <1>0, <1>6, <2>1, AnswerType DEF PostFind, TypeOK, mqVars, netVars
  <2>2. ASSUME NEW x \in mq_messages, muid' = [muid EXCEPT ![r] = x],
               handler' = [handler EXCEPT ![r] = "forward"], UNCHANGED code
        PROVE  TypeOK'
    BY <1>0, <1>6, <2>2 DEF PostFind, TypeOK, HandlerState, mqVars, netVars
  <2> QED BY <1>6, <2>1, <2>2 DEF PostFind, Code
<1>7. ASSUME NEW r \in Request, ForwardSend(r) PROVE TypeOK'
  <2>1. muid[r] \in Request
    BY <1>0, <1>7 DEF ForwardSend, Progress, PostState, TypeOK
  <2>2. [for |-> muid[r], code |-> 200, uid |-> r] \in Reply
    BY <2>1 DEF Reply, Code
  <2>3. inbox' \in [Request -> Seq(Reply)]
    BY <1>0, <1>7, <2>1, <2>2, SendFacts DEF ForwardSend
  <2> QED BY <1>0, <1>7, <2>3 DEF ForwardSend, TypeOK, HandlerState, mqVars
<1>8. ASSUME NEW r \in Request, ForwardFail(r) PROVE TypeOK'
  BY <1>0, <1>8 DEF ForwardFail, TypeOK, HandlerState, mqVars, netVars
<1>9. ASSUME NEW r \in Request, ForwardClose(r) PROVE TypeOK'
  BY <1>0, <1>9 DEF ForwardClose, CloseFd, TypeOK, HandlerState, mqVars
<1>10. ASSUME NEW r \in Request, ForwardZero(r) PROVE TypeOK'
  <2>1. Handle' \in [Request -> Fd \cup {NoFd}]
    BY <1>0, <1>10 DEF ForwardZero, TypeOK
  <2>2. CASE \E c \in Code : Answer(r, c)
    BY <1>0, <1>10, <2>1, <2>2, AnswerType DEF ForwardZero, TypeOK, mqVars
  <2>3. CASE handler' = [handler EXCEPT ![r] = "erase"] /\ UNCHANGED code
    BY <1>0, <1>10, <2>1, <2>3 DEF ForwardZero, TypeOK, HandlerState, mqVars
  <2> QED BY <1>10, <2>2, <2>3 DEF ForwardZero, Code
<1>11. ASSUME NEW r \in Request, PostErase(r) PROVE TypeOK'
  BY <1>0, <1>11 DEF PostErase, Answer, TypeOK, HandlerState, Code, NoCode, netVars
<1>12. ASSUME NEW r \in Request, ReplySend(r) PROVE TypeOK'
  <2>1. PICK m \in Reply : Send(Handle[r], m) \/ UNCHANGED inbox
    BY <1>0, <1>12, OwnAnswerFacts
  <2>2. inbox' \in [Request -> Seq(Reply)]
    BY <1>0, <2>1, SendFacts DEF TypeOK
  <2> QED BY <1>0, <1>12, <2>2 DEF ReplySend, TypeOK, HandlerState, mqVars
<1>13. ASSUME NEW r \in Request, ReplyClose(r) PROVE TypeOK'
  BY <1>0, <1>13 DEF ReplyClose, CloseFd, TypeOK, HandlerState, mqVars
<1>14. CASE UNCHANGED vars
  BY <1>0, <1>14 DEF vars, TypeOK, mqVars, netVars
<1> QED BY <1>1, <1>2, <1>3, <1>4, <1>5, <1>6, <1>7, <1>8, <1>9, <1>10, <1>11, <1>12, <1>13, <1>14
        DEF Next, Handler, Quiet

\* Which steps change what: the containers of the channel,
LEMMA MqSteps ==
    ASSUME [Next]_vars
    PROVE  \/ UNCHANGED mqVars
           \/ \E r \in Request : GetFront(r) \/ PutEmplace(r) \/ PostErase(r)
<1>1. ASSUME NEW r \in Request, NEW m \in Method, NEW f \in Fd, Accept(r, m, f)
      PROVE  UNCHANGED mqVars
  BY <1>1 DEF Accept
<1>2. ASSUME NEW r \in Request, Handler(r), ~GetFront(r), ~PutEmplace(r), ~PostErase(r)
      PROVE  UNCHANGED mqVars
  BY <1>2 DEF Handler, GetEmpty, HeadFront, PutRefused, OtherMethod, PostFind, ForwardSend,
              ForwardFail, ForwardClose, ForwardZero, ReplySend, ReplyClose
<1> QED BY <1>1, <1>2 DEF Next, Quiet, vars

\* the message a handler works on, and the method of a request,
LEMMA MuidSteps ==
    ASSUME [Next]_vars
    PROVE  \/ UNCHANGED <<method, muid>>
           \/ \E r \in Request, m \in Method, f \in Fd : Accept(r, m, f)
           \/ \E r \in Request : (GetFront(r) \/ HeadFront(r) \/ PostFind(r)) /\ UNCHANGED method
<1>1. ASSUME NEW r \in Request, Handler(r), ~GetFront(r), ~HeadFront(r), ~PostFind(r)
      PROVE  UNCHANGED <<method, muid>>
  BY <1>1 DEF Handler, GetEmpty, PutEmplace, PutRefused, OtherMethod, ForwardSend,
              ForwardFail, ForwardClose, ForwardZero, PostErase, ReplySend, ReplyClose
<1>2. ASSUME NEW r \in Request, GetFront(r) \/ HeadFront(r) \/ PostFind(r)
      PROVE  UNCHANGED method
  BY <1>2 DEF GetFront, HeadFront, PostFind
<1> QED BY <1>1, <1>2 DEF Next, Quiet, vars

\* A POST stays one.
LEMMA PostStays ==
    ASSUME TypeOK, Progress, [Next]_vars, NEW q \in Request, method[q] = "Post"
    PROVE  method'[q] = "Post"
<1>1. ASSUME NEW r \in Request, NEW m \in Method, NEW f \in Fd, Accept(r, m, f)
      PROVE  method'[q] = method[q]
  BY <1>1 DEF Accept, TypeOK, Progress
<1> QED BY <1>1, MuidSteps

\* what a client has been sent,
LEMMA InboxSteps ==
    ASSUME [Next]_vars
    PROVE  \/ UNCHANGED inbox
           \/ \E r \in Request : ForwardSend(r) \/ ReplySend(r)
<1>1. ASSUME NEW r \in Request, NEW m \in Method, NEW f \in Fd, Accept(r, m, f)
      PROVE  UNCHANGED inbox
  BY <1>1 DEF Accept
<1>2. ASSUME NEW r \in Request, Handler(r), ~ForwardSend(r), ~ReplySend(r)
      PROVE  UNCHANGED inbox
  BY <1>2 DEF Handler, GetEmpty, GetFront, HeadFront, PutEmplace, PutRefused, OtherMethod,
              PostFind, ForwardFail, ForwardClose, ForwardZero, PostErase, ReplyClose, netVars
<1> QED BY <1>1, <1>2 DEF Next, Quiet, vars, netVars

\* and connections.
LEMMA HandleSteps ==
    ASSUME [Next]_vars
    PROVE  \/ UNCHANGED <<Handle, owner>>
           \/ \E r \in Request, m \in Method, f \in Fd : Accept(r, m, f)
           \/ \E r \in Request : ForwardClose(r) \/ ForwardZero(r) \/ ReplyClose(r)
<1>1. ASSUME NEW r \in Request, Handler(r), ~ForwardClose(r), ~ForwardZero(r), ~ReplyClose(r)
      PROVE  UNCHANGED <<Handle, owner>>
  BY <1>1 DEF Handler, GetEmpty, GetFront, HeadFront, PutEmplace, PutRefused, OtherMethod,
              PostFind, ForwardSend, ForwardFail, PostErase, ReplySend, netVars
<1> QED BY <1>1 DEF Next, Quiet, vars, netVars

\* A handler that has sent its answer, or has none to send, is settled.
LEMMA Settled ==
    ASSUME TypeOK, [Next]_vars, NEW c \in Request, handler[c] \in {"close", "done"}
    PROVE  /\ handler'[c] \in {"close", "done"}
           /\ method'[c] = method[c] /\ muid'[c] = muid[c] /\ code'[c] = code[c]
<1> USE DEF TypeOK
<1>1. ASSUME NEW r \in Request, NEW m \in Method, NEW f \in Fd, Accept(r, m, f)
      PROVE  r # c
  BY <1>1 DEF Accept
<1>2. ASSUME NEW r \in Request, Handler(r), ~ReplyClose(r)
      PROVE  r # c
  BY <1>2 DEF Handler, GetEmpty, GetFront, HeadFront, PutEmplace, PutRefused, OtherMethod,
              PostFind, ForwardSend, ForwardFail, ForwardClose, ForwardZero, PostErase, ReplySend
<1>3. ASSUME NEW r \in Request, ReplyClose(r)
      PROVE  /\ handler'[c] \in {"close", "done"}
             /\ method'[c] = method[c] /\ muid'[c] = muid[c] /\ code'[c] = code[c]
  BY <1>3 DEF ReplyClose
<1>4. CASE UNCHANGED <<handler, method, muid, code>>
  BY <1>4
<1>5. ASSUME NEW r \in Request, NEW m \in Method, NEW f \in Fd, Accept(r, m, f)
      PROVE  /\ handler'[c] = handler[c]
             /\ method'[c] = method[c] /\ muid'[c] = muid[c] /\ code'[c] = code[c]
  BY <1>1, <1>5 DEF Accept
<1>6. ASSUME NEW r \in Request, Handler(r), ~ReplyClose(r)
      PROVE  /\ handler'[c] = handler[c]
             /\ method'[c] = method[c] /\ muid'[c] = muid[c] /\ code'[c] = code[c]
  BY <1>2, <1>6 DEF Handler, GetEmpty, GetFront, HeadFront, PutEmplace, PutRefused, OtherMethod,
              PostFind, ForwardSend, ForwardFail, ForwardClose, ForwardZero, PostErase, ReplySend,
              Answer
<1> QED BY <1>3, <1>4, <1>5, <1>6 DEF Next, Quiet, vars

\* Every step keeps what a handler has and has chosen.
LEMMA NextProgress == HandlerInv /\ [Next]_vars => Progress'
<1> SUFFICES ASSUME HandlerInv, [Next]_vars PROVE Progress'
  OBVIOUS
<1>0. TypeOK /\ Progress
  BY DEF HandlerInv
<1> USE DEF TypeOK, PostState
<1>1. ASSUME NEW r \in Request, NEW m \in Method, NEW f \in Fd, Accept(r, m, f) PROVE Progress'
  BY <1>0, <1>1 DEF Accept, Progress
<1>2. ASSUME NEW r \in Request,
             GetEmpty(r) \/ GetFront(r) \/ HeadFront(r) \/ PutRefused(r) \/ OtherMethod(r)
      PROVE  Progress'
  <2>1. PICK c : Answer(r, c)
    BY <1>2 DEF GetEmpty, GetFront, HeadFront, PutRefused, OtherMethod
  <2>2. PICK x : muid' = muid \/ muid' = [muid EXCEPT ![r] = x]
    BY <1>2 DEF GetEmpty, GetFront, HeadFront, PutRefused, OtherMethod
  <2>3. UNCHANGED method
    BY <1>2 DEF GetEmpty, GetFront, HeadFront, PutRefused, OtherMethod
  <2> QED BY <1>0, <2>1, <2>2, <2>3 DEF Answer, Progress
<1>3. ASSUME NEW r \in Request, PutEmplace(r) PROVE Progress'
  BY <1>0, <1>3 DEF PutEmplace, Progress
<1>4. ASSUME NEW r \in Request, PostFind(r) PROVE Progress'
  <2>1. CASE (\E c : Answer(r, c)) /\ UNCHANGED muid
    BY <1>0, <1>4, <2>1 DEF PostFind, Answer, Progress
  <2>2. ASSUME NEW x \in mq_messages, muid' = [muid EXCEPT ![r] = x],
               handler' = [handler EXCEPT ![r] = "forward"], UNCHANGED code
        PROVE  Progress'
    BY <1>0, <1>4, <2>2, ChannelAssumption DEF PostFind, Progress
  <2> QED BY <1>4, <2>1, <2>2 DEF PostFind
<1>5. ASSUME NEW r \in Request, ForwardSend(r) \/ ForwardFail(r) \/ ForwardClose(r) PROVE Progress'
  BY <1>0, <1>5 DEF ForwardSend, ForwardFail, ForwardClose, Progress
<1>6. ASSUME NEW r \in Request, ForwardZero(r) PROVE Progress'
  BY <1>0, <1>6 DEF ForwardZero, Answer, Progress
<1>7. ASSUME NEW r \in Request, PostErase(r) \/ ReplySend(r) \/ ReplyClose(r) PROVE Progress'
  BY <1>0, <1>7 DEF PostErase, ReplySend, ReplyClose, Answer, Progress
<1>8. CASE UNCHANGED vars
  BY <1>0, <1>8 DEF vars, Progress
<1> QED BY <1>1, <1>2, <1>3, <1>4, <1>5, <1>6, <1>7, <1>8 DEF Next, Handler, Quiet

\* Get, Put and Post leave only such requests in the containers.
LEMMA NextKept == HandlerInv /\ [Next]_vars => Kept'
<1> SUFFICES ASSUME HandlerInv, [Next]_vars PROVE Kept'
  OBVIOUS
<1>0. TypeOK /\ Progress /\ Kept /\ mq_queue \in Seq(Request)
  BY DEF HandlerInv, TypeOK
<1>1. \A x : Emplaced(x) => Emplaced(x)'
  BY <1>0, EmplacedStays
<1>2. CASE UNCHANGED mqVars
  BY <1>0, <1>1, <1>2 DEF Kept, mqVars
<1>3. ASSUME NEW r \in Request, GetFront(r) PROVE Kept'
  <2>1. /\ Head(mq_queue) \in Elements(mq_queue)
        /\ Elements(mq_queue') = Elements(mq_queue) \ {Head(mq_queue)}
        /\ Distinct(mq_queue')
    BY <1>0, <1>3, ElementsTail DEF GetFront, Kept
  <2>2. mq_locked' = mq_locked \cup {Head(mq_queue)} /\ mq_messages' = mq_messages
    BY <1>3 DEF GetFront
  <2> QED BY <1>0, <1>1, <2>1, <2>2 DEF Kept
<1>4. ASSUME NEW r \in Request, PutEmplace(r) PROVE Kept'
  <2>1. Emplaced(r)' /\ ~Emplaced(r)
    BY <1>0, <1>4 DEF PutEmplace, Emplaced, Progress, TypeOK
  <2>2. Elements(mq_queue') = Elements(mq_queue) \cup {r}
    BY <1>0, <1>4, ElementsAppend DEF PutEmplace
  <2>3. Distinct(mq_queue')
    BY <1>0, <1>4, <2>1, DistinctAppend DEF PutEmplace, Kept
  <2>4. mq_locked' = mq_locked /\ mq_messages' = mq_messages \cup {r}
    BY <1>4 DEF PutEmplace
  <2> QED BY <1>0, <1>1, <2>1, <2>2, <2>3, <2>4 DEF Kept
<1>5. ASSUME NEW r \in Request, PostErase(r) PROVE Kept'
  <2>1. mq_queue' = mq_queue /\ mq_locked' \subseteq mq_locked /\ mq_messages' \subseteq mq_messages
    BY <1>5 DEF PostErase
  <2> QED BY <1>0, <1>1, <2>1 DEF Kept
<1> QED BY <1>2, <1>3, <1>4, <1>5, MqSteps

\* A handler is given only such requests, by the queue or by a client.
LEMMA NextKnown == HandlerInv /\ [Next]_vars => Known'
<1> SUFFICES ASSUME HandlerInv, [Next]_vars PROVE Known'
  OBVIOUS
<1>0. TypeOK /\ Known /\ Kept /\ mq_queue \in Seq(Request)
  BY DEF HandlerInv, TypeOK
<1>1. \A x : Emplaced(x) => Emplaced(x)'
  BY <1>0, EmplacedStays
<1>2. ASSUME NEW r \in Request, NEW x, muid' = [muid EXCEPT ![r] = x], x = NoRequest \/ Emplaced(x)
      PROVE  Known'
  BY <1>0, <1>1, <1>2 DEF Known, TypeOK
<1>3. ASSUME NEW r \in Request, NEW m \in Method, NEW f \in Fd, Accept(r, m, f) PROVE Known'
  BY <1>0, <1>1, <1>3 DEF Accept, Known
<1>4. ASSUME NEW r \in Request, GetFront(r) \/ HeadFront(r) \/ PostFind(r) PROVE Known'
  <2>1. mq_queue # <<>> => Emplaced(Head(mq_queue))
    BY <1>0, ElementsTail DEF Kept
  <2>2. CASE GetFront(r)
    BY <1>2, <2>1, <2>2 DEF GetFront
  <2>3. CASE HeadFront(r)
    BY <1>2, <2>1, <2>3 DEF HeadFront
  <2>4. CASE PostFind(r)
    <3>1. \A x \in mq_messages : Emplaced(x)
      BY <1>0 DEF Kept
    <3>2. CASE UNCHANGED muid
      BY <1>0, <1>1, <3>2 DEF Known
    <3>3. ASSUME NEW x \in mq_messages, muid' = [muid EXCEPT ![r] = x] PROVE Known'
      BY <1>2, <3>1, <3>3
    <3> QED BY <2>4, <3>2, <3>3 DEF PostFind
  <2> QED BY <1>4, <2>2, <2>3, <2>4
<1>5. CASE UNCHANGED <<method, muid>>
  BY <1>0, <1>1, <1>5 DEF Known
<1> QED BY <1>3, <1>4, <1>5, MuidSteps

\* A reply to GET or HEAD tells the message that its handler worked on.
LEMMA NextTold == HandlerInv /\ [Next]_vars => Told'
<1> SUFFICES ASSUME HandlerInv, [Next]_vars PROVE Told'
  OBVIOUS
<1>0. TypeOK /\ Progress /\ Known /\ Told
  BY DEF HandlerInv
<1> DEFINE Good(e) == /\ handler[e.for] \in {"close", "done"}
                      /\ method[e.for] \in {"Get", "Head"} /\ e.uid # NoRequest =>
                            e.uid = muid[e.for]
                      /\ e.uid # NoRequest => \/ Emplaced(e.uid)
                                              \/ method[e.uid] = "Post" /\ Emplaced(e.for)
<1>1. ASSUME NEW e \in Reply, Good(e) PROVE Good(e)'
  <2>1. e.for \in Request /\ (e.uid # NoRequest => e.uid \in Request)
    BY DEF Reply
  <2>2. \A x : Emplaced(x) => Emplaced(x)'
    BY <1>0, EmplacedStays
  <2>3. /\ handler'[e.for] \in {"close", "done"}
        /\ method'[e.for] = method[e.for] /\ muid'[e.for] = muid[e.for]
    BY <1>0, <1>1, <2>1, Settled
  <2>4. e.uid # NoRequest /\ method[e.uid] = "Post" => method'[e.uid] = "Post"
    BY <1>0, <2>1, PostStays
  <2> QED BY <1>1, <2>1, <2>2, <2>3, <2>4
<1>2. ASSUME NEW c \in Request, NEW e \in Elements(inbox[c]) PROVE Good(e)'
  <2>1. e \in Reply
    BY <1>0 DEF TypeOK, Elements
  <2> QED BY <1>0, <1>1, <2>1 DEF Told
<1>3. ASSUME NEW d \in Request, NEW m \in Reply, Send(Handle[d], m), Good(m)' PROVE Told'
  <2>1. /\ Elements(inbox'[owner[Handle[d]]]) = Elements(inbox[owner[Handle[d]]]) \cup {m}
        /\ owner[Handle[d]] \in Request
        /\ \A c \in Request \ {owner[Handle[d]]} : inbox'[c] = inbox[c]
    BY <1>0, <1>3, SendFacts
  <2>2. ASSUME NEW c \in Request, NEW e \in Elements(inbox'[c]) PROVE Good(e)'
    BY <1>2, <1>3, <2>1
  <2> QED BY <2>2 DEF Told
<1>4. ASSUME NEW r \in Request, ForwardSend(r) PROVE Told'
  <2>1. PICK x \in Request : x = muid[r] /\ Emplaced(x)
    BY <1>0, <1>4 DEF ForwardSend, Progress, PostState, Known, TypeOK
  <2>2. PICK m \in Reply : m = [for |-> x, code |-> 200, uid |-> r]
    <3>1. 200 \in Code
      BY DEF Code
    <3>2. [for |-> x, code |-> 200, uid |-> r] \in Reply
      BY <3>1 DEF Reply
    <3> QED BY <3>2
  <2>3. Send(Handle[x], m)
    BY <1>4, <2>1, <2>2 DEF ForwardSend
  <2>4. Emplaced(x)'
    BY <1>0, <2>1, EmplacedStays
  <2>p. method'[r] = "Post"
    BY <1>0, <1>4, PostStays DEF ForwardSend, Progress, PostState
  <2>5. Good(m)'
    BY <2>2, <2>4, <2>p DEF Emplaced
  <2> QED BY <1>3, <2>1, <2>2, <2>3, <2>5
<1>5. ASSUME NEW r \in Request, ReplySend(r) PROVE Told'
  <2>1. PICK m \in Reply : /\ m.for = r /\ (m.uid # NoRequest => m.uid = muid[r])
                           /\ Send(Handle[r], m) \/ UNCHANGED inbox
    BY <1>0, <1>5, OwnAnswerFacts
  <2>k. m.uid # NoRequest => Emplaced(m.uid)'
    BY <1>0, <2>1, EmplacedStays DEF Known
  <2>2. Good(m)'
    BY <1>0, <1>5, <2>1, <2>k DEF ReplySend, TypeOK
  <2>3. CASE UNCHANGED inbox
    BY <1>2, <2>3 DEF Told
  <2> QED BY <1>3, <2>1, <2>2, <2>3
<1>6. CASE UNCHANGED inbox
  BY <1>2, <1>6 DEF Told
<1> QED BY <1>4, <1>5, <1>6, InboxSteps

\* Every step keeps the invariant of the handlers.
LEMMA NextHandlerInv == HandlerInv /\ [Next]_vars => HandlerInv'
BY NextTypeOK, NextProgress, NextKept, NextKnown, NextTold DEF HandlerInv

\* The invariant of the handlers holds throughout.
LEMMA SpecHandlerInv == Spec => []HandlerInv
BY InitHandlerInv, NextHandlerInv, PTL DEF Spec

\* The variables of the channel keep their types in every execution of its
\* handlers, and no handler answers without having chosen a status.
THEOREM TypeCorrect == Spec => []TypeOK
<1>1. HandlerInv => TypeOK
  BY DEF HandlerInv
<1> QED BY <1>1, SpecHandlerInv, PTL

-----------------------------------------------------------------------------
(* No message is handed out twice.                                          *)

\* Get pops what it hands out, and Put never queues a request again.
LEMMA NextDeliveredOnce == HandlerInv /\ DeliveredOnce /\ [Next]_vars => DeliveredOnce'
<1> SUFFICES ASSUME HandlerInv, DeliveredOnce, [Next]_vars PROVE DeliveredOnce'
  OBVIOUS
<1>0. TypeOK /\ Progress /\ Kept /\ Known /\ mq_queue \in Seq(Request)
  BY DEF HandlerInv, TypeOK
<1>1. ASSUME NEW r \in Request, NEW m \in Method, NEW f \in Fd, Accept(r, m, f)
      PROVE  DeliveredOnce'
  <2>2. muid'[r] = NoRequest
    BY <1>0, <1>1 DEF Accept, TypeOK, Progress
  <2>3. /\ mq_queue' = mq_queue
        /\ \A q \in Request \ {r} : method'[q] = method[q] /\ muid'[q] = muid[q]
    BY <1>0, <1>1 DEF Accept, TypeOK, mqVars
  <2> QED BY <2>2, <2>3 DEF DeliveredOnce
<1>2. ASSUME NEW r \in Request, HeadFront(r) \/ PostFind(r) PROVE DeliveredOnce'
  <2>1. /\ mq_queue' = mq_queue /\ method' = method /\ method[r] # "Get"
        /\ \A q \in Request \ {r} : muid'[q] = muid[q]
    BY <1>0, <1>2 DEF HeadFront, PostFind, TypeOK, mqVars
  <2> QED BY <2>1 DEF DeliveredOnce
<1>3. ASSUME NEW r \in Request, GetFront(r) PROVE DeliveredOnce'
  <2>1. PICK x \in Request : x = Head(mq_queue)
    BY <1>0, <1>3, TailShape DEF GetFront
  <2>2. x \in Elements(mq_queue) /\ Elements(mq_queue') = Elements(mq_queue) \ {x}
    BY <1>0, <1>3, <2>1, ElementsTail DEF GetFront, Kept
  <2>3. /\ method' = method /\ muid'[r] = x
        /\ \A q \in Request \ {r} : muid'[q] = muid[q]
    BY <1>0, <1>3, <2>1 DEF GetFront, TypeOK
  <2> QED BY <2>2, <2>3 DEF DeliveredOnce
<1>4. ASSUME NEW r \in Request, PutEmplace(r) PROVE DeliveredOnce'
  <2>1. ~Emplaced(r)
    BY <1>4 DEF PutEmplace, Emplaced
  <2>2. Elements(mq_queue') = Elements(mq_queue) \cup {r} /\ UNCHANGED <<method, muid>>
    BY <1>0, <1>4, ElementsAppend DEF PutEmplace
  <2> QED BY <1>0, <2>1, <2>2 DEF DeliveredOnce, Known
<1>5. CASE UNCHANGED <<method, muid, mq_queue>>
  BY <1>5 DEF DeliveredOnce
<1>6. ASSUME NEW r \in Request, PostErase(r) PROVE UNCHANGED <<method, muid, mq_queue>>
  BY <1>6 DEF PostErase
<1> QED BY <1>1, <1>2, <1>3, <1>4, <1>5, <1>6, MqSteps, MuidSteps DEF mqVars

\* No two GETs are handed the same message, and a message handed out is out of
\* the queue, however the handlers of GET, HEAD, PUT and POST interleave.
THEOREM NoMessageHandedOutTwice == Spec => []DeliveredOnce
<1>1. Init => DeliveredOnce
  BY DEF Init, DeliveredOnce
<1> QED BY <1>1, NextDeliveredOnce, SpecHandlerInv, PTL DEF Spec

-----------------------------------------------------------------------------
(* Connections.                                                             *)

\* The steps that use no connection of the channel leave all of them as they
\* are, and no POST is settled by one.
LEMMA QuietSteps ==
    ASSUME TypeOK, Progress, NEW r \in Request,
           \/ GetEmpty(r) \/ GetFront(r) \/ HeadFront(r) \/ PutRefused(r) \/ OtherMethod(r)
           \/ PostFind(r) \/ ForwardSend(r) \/ ForwardFail(r) \/ ReplySend(r)
    PROVE  /\ UNCHANGED <<Handle, owner, mq_messages, method>>
           /\ handler[r] # "none"
           /\ handler'[r] \notin {"none", "closed", "unsentClosed", "erase", "done"}
           /\ method[r] = "Post" => \/ muid'[r] = muid[r] /\ code'[r] = code[r]
                                    \/ code'[r] \notin {200, 503}
<1> USE DEF TypeOK
<1>1. CASE GetEmpty(r) \/ GetFront(r) \/ HeadFront(r) \/ PutRefused(r) \/ OtherMethod(r)
  BY <1>1 DEF GetEmpty, GetFront, HeadFront, PutRefused, OtherMethod, Answer, mqVars, netVars
<1>2. CASE PostFind(r)
  BY <1>2 DEF PostFind, Answer, Progress, NoCode, mqVars, netVars
<1>3. CASE ForwardSend(r) \/ ForwardFail(r) \/ ReplySend(r)
  BY <1>3 DEF ForwardSend, ForwardFail, ReplySend, mqVars, netVars
<1> QED BY <1>1, <1>2, <1>3

\* A connection is closed by its own handler, or by a POST that holds it.
LEMMA NextConnectionInv == HandlerInv /\ ConnectionInv /\ [Next]_vars => ConnectionInv'
<1> SUFFICES ASSUME HandlerInv, ConnectionInv, [Next]_vars PROVE ConnectionInv'
  OBVIOUS
<1>0. /\ TypeOK /\ Progress /\ Kept /\ Known
      /\ NoConnectionLeak /\ Accepted /\ Closed /\ Forgotten /\ HadClient /\ PostSettlesClient
  BY DEF HandlerInv, ConnectionInv
<1>t. /\ muid \in [Request -> Request \cup {NoRequest}]
      /\ Handle \in [Request -> Fd \cup {NoFd}]
      /\ owner \in [Fd -> Request \cup {NoRequest}]
  BY <1>0 DEF TypeOK
<1>1. ASSUME NEW r \in Request, StepOf(r)
      PROVE  \A q \in Request : q # r =>
                /\ handler'[q] = handler[q] /\ method'[q] = method[q]
                /\ muid'[q] = muid[q] /\ code'[q] = code[q]
  BY <1>0, <1>1, OwnStep
<1>2. ASSUME NEW r \in Request,
             \/ GetEmpty(r) \/ GetFront(r) \/ HeadFront(r) \/ PutRefused(r) \/ OtherMethod(r)
             \/ PostFind(r) \/ ForwardSend(r) \/ ForwardFail(r) \/ ReplySend(r)
      PROVE  ConnectionInv'
  <2>1. \A q \in Request : q # r =>
           /\ handler'[q] = handler[q] /\ method'[q] = method[q]
           /\ muid'[q] = muid[q] /\ code'[q] = code[q]
    BY <1>1, <1>2 DEF StepOf, Handler
  <2>2. /\ UNCHANGED <<Handle, owner, mq_messages, method>>
        /\ handler[r] # "none"
        /\ handler'[r] \notin {"none", "closed", "unsentClosed", "erase", "done"}
        /\ method[r] = "Post" => \/ muid'[r] = muid[r] /\ code'[r] = code[r]
                                 \/ code'[r] \notin {200, 503}
    BY <1>0, <1>2, QuietSteps DEF TypeOK
  <2>3. NoConnectionLeak'
    BY <1>0, <1>t, <2>1, <2>2 DEF NoConnectionLeak
  <2>4a. Accepted'
    BY <1>0, <1>t, <2>1, <2>2 DEF Accepted
  <2>4b. Closed'
    BY <1>0, <2>1, <2>2 DEF Closed
  <2>4c. Forgotten'
    BY <1>0, <2>1, <2>2 DEF Forgotten
  <2>4d. HadClient'
    BY <1>0, <2>1, <2>2 DEF HadClient
  <2>5. PostSettlesClient'
    BY <1>0, <2>1, <2>2 DEF PostSettlesClient
  <2> QED BY <2>3, <2>4a, <2>4b, <2>4c, <2>4d, <2>5 DEF ConnectionInv
<1>3. ASSUME NEW r \in Request, NEW m \in Method, NEW f \in Fd, Accept(r, m, f)
      PROVE  ConnectionInv'
  <2>1. \A q \in Request : q # r =>
           /\ handler'[q] = handler[q] /\ method'[q] = method[q]
           /\ muid'[q] = muid[q] /\ code'[q] = code[q]
    BY <1>1, <1>3 DEF StepOf
  <2>2. /\ handler[r] = "none" /\ handler'[r] = "dispatch" /\ code'[r] = NoCode
        /\ Handle'[r] = f /\ (\A c \in Request \ {r} : Handle'[c] = Handle[c])
        /\ owner'[f] = r /\ (\A g \in Fd \ {f} : owner'[g] = owner[g])
        /\ mq_messages' = mq_messages
    BY <1>0, <1>3 DEF Accept, Progress, mqVars, TypeOK
  <2>3. \A q \in Request : muid[q] # NoRequest => muid[q] \in Request /\ muid[q] # r
    BY <1>0, <2>2 DEF Known, Emplaced
  <2>4. \A g \in Fd : owner[g] # r
    BY <1>0, <1>t, <2>2, ChannelAssumption DEF Accepted
  <2>5. NoConnectionLeak'
    BY <1>0, <1>t, <2>1, <2>2, <2>4 DEF NoConnectionLeak
  <2>6. \A q \in Request : q # r /\ handler[q] \in PostState => muid[q] \in Request \ {r}
    BY <1>0, <2>3 DEF Progress
  <2>7a. Accepted'
    BY <1>0, <1>t, <2>1, <2>2, <2>4, <2>6 DEF Accepted, PostState, NoCode
  <2>7b. Closed'
    BY <1>0, <2>1, <2>2, <2>4, <2>6 DEF Closed, PostState, NoCode
  <2>7c. Forgotten'
    BY <1>0, <2>1, <2>2, <2>4, <2>6 DEF Forgotten, PostState, NoCode
  <2>7d. HadClient'
    BY <1>0, <2>1, <2>2, <2>4, <2>6 DEF HadClient, PostState, NoCode
  <2>8. PostSettlesClient'
    BY <1>0, <2>1, <2>2, <2>3 DEF PostSettlesClient, Forgotten, HadClient, NoCode
  <2> QED BY <2>5, <2>7a, <2>7b, <2>7c, <2>7d, <2>8 DEF ConnectionInv
<1>4. ASSUME NEW r \in Request, PutEmplace(r) PROVE ConnectionInv'
  <2>1. /\ UNCHANGED <<Handle, owner, method, muid, code>>
        /\ handler'[r] = "done" /\ mq_messages' = mq_messages \cup {r}
        /\ \A q \in Request : q # r => handler'[q] = handler[q]
    BY <1>0, <1>4 DEF PutEmplace, netVars, TypeOK
  <2>2. NoConnectionLeak'
    BY <1>0, <1>t, <2>1 DEF NoConnectionLeak
  <2>3a. Accepted'
    BY <1>0, <1>t, <2>1 DEF Accepted
  <2>3b. Closed'
    BY <1>0, <2>1 DEF Closed
  <2>3c. Forgotten'
    BY <1>0, <2>1 DEF Forgotten
  <2>3d. HadClient'
    BY <1>0, <2>1 DEF HadClient
  <2>4. PostSettlesClient'
    BY <1>0, <2>1 DEF PostSettlesClient
  <2> QED BY <2>2, <2>3a, <2>3b, <2>3c, <2>3d, <2>4 DEF ConnectionInv
<1>5. ASSUME NEW r \in Request, ForwardClose(r) PROVE ConnectionInv'
  <2>1. /\ UNCHANGED <<Handle, mq_messages, method, muid, code>>
        /\ owner' = [g \in Fd |-> IF g = Handle[muid[r]] THEN NoRequest ELSE owner[g]]
        /\ handler[r] # "done" /\ handler'[r] \in {"closed", "unsentClosed"}
        /\ \A q \in Request : q # r => handler'[q] = handler[q]
    BY <1>0, <1>5 DEF ForwardClose, CloseFd, mqVars, TypeOK
  <2>2. muid[r] \in Request
    BY <1>0, <1>t, <1>5 DEF ForwardClose, Progress, PostState
  <2>3. \A g \in Fd : owner'[g] # muid[r]
    BY <1>0, <2>1, <2>2, ChannelAssumption DEF NoConnectionLeak
  <2>4. NoConnectionLeak'
    BY <1>0, <1>t, <2>1 DEF NoConnectionLeak
  <2>5. \A q \in Request : handler[q] \in PostState => muid[q] \in Request
    BY <1>0, <1>t DEF Progress
  <2>6a. Accepted'
    BY <1>0, <1>t, <2>1, <2>3, <2>5, ChannelAssumption DEF Accepted, PostState
  <2>6b. Closed'
    BY <1>0, <2>1, <2>3, <2>5, ChannelAssumption DEF Closed, PostState
  <2>6c. Forgotten'
    BY <1>0, <2>1, <2>3, <2>5, ChannelAssumption DEF Forgotten, PostState
  <2>6d. HadClient'
    BY <1>0, <2>1, <2>3, <2>5, ChannelAssumption DEF HadClient, PostState
  <2>7. PostSettlesClient'
    BY <1>0, <1>t, <2>1, ChannelAssumption DEF PostSettlesClient, HadClient
  <2> QED BY <2>4, <2>6a, <2>6b, <2>6c, <2>6d, <2>7 DEF ConnectionInv
<1>6. ASSUME NEW r \in Request, ForwardZero(r) PROVE ConnectionInv'
  <2>1. /\ UNCHANGED <<owner, mq_messages, method, muid>>
        /\ handler[r] \in {"closed", "unsentClosed"} /\ handler'[r] \in {"erase", "reply"}
        /\ Handle' = [Handle EXCEPT ![muid[r]] = NoFd]
        /\ code'[r] = code[r] \/ code'[r] = 503
        /\ \A q \in Request : q # r => handler'[q] = handler[q] /\ code'[q] = code[q]
    BY <1>0, <1>6 DEF ForwardZero, Answer, mqVars, TypeOK
  <2>2. muid[r] \in Request /\ muid[r] # NoRequest
    BY <1>0, <1>t, <2>1 DEF Progress, PostState
  <2>3. /\ Handle'[muid[r]] = NoFd
        /\ \A c \in Request : Handle'[c] = Handle[c] \/ Handle'[c] = NoFd
        /\ \A c \in Request \ {muid[r]} : Handle'[c] = Handle[c]
    BY <1>0, <2>1, <2>2 DEF TypeOK
  <2>4. \A g \in Fd : owner[g] # muid[r]
    BY <1>0, <1>t, <2>1 DEF Closed
  <2>5. NoConnectionLeak'
    BY <1>0, <1>t, <2>1, <2>3, <2>4 DEF NoConnectionLeak
  <2>6. \A q \in Request : handler[q] \in PostState => muid[q] \in Request
    BY <1>0, <1>t DEF Progress
  <2>7a. Accepted'
    BY <1>0, <1>t, <2>1, <2>2, <2>3, <2>6 DEF Accepted, PostState
  <2>7b. Closed'
    BY <1>0, <2>1, <2>2, <2>3, <2>6 DEF Closed, PostState
  <2>7c. Forgotten'
    BY <1>0, <2>1, <2>2, <2>3, <2>6 DEF Forgotten, PostState
  <2>7d. HadClient'
    BY <1>0, <2>1, <2>2, <2>3, <2>6 DEF HadClient, PostState
  <2>8. PostSettlesClient'
    BY <1>0, <2>1, <2>2, <2>3, <2>4 DEF PostSettlesClient, HadClient
  <2> QED BY <2>5, <2>7a, <2>7b, <2>7c, <2>7d, <2>8 DEF ConnectionInv
<1>7. ASSUME NEW r \in Request, PostErase(r) PROVE ConnectionInv'
  <2>1. /\ UNCHANGED <<Handle, owner, method, muid>>
        /\ handler[r] = "erase" /\ handler'[r] = "reply"
        /\ mq_messages' = mq_messages \ {muid[r]}
        /\ \A q \in Request : q # r => handler'[q] = handler[q] /\ code'[q] = code[q]
    BY <1>0, <1>7 DEF PostErase, Answer, netVars, TypeOK
  <2>2. (\A g \in Fd : owner[g] # muid[r]) /\ Handle[muid[r]] = NoFd /\ muid[r] # NoRequest
    BY <1>0, <1>t, <2>1 DEF Closed, Forgotten, Progress, PostState
  <2>3. NoConnectionLeak'
    BY <1>0, <1>t, <2>1, <2>2 DEF NoConnectionLeak
  <2>4a. Accepted'
    BY <1>0, <1>t, <2>1, <2>2 DEF Accepted
  <2>4b. Closed'
    BY <1>0, <2>1, <2>2 DEF Closed
  <2>4c. Forgotten'
    BY <1>0, <2>1, <2>2 DEF Forgotten
  <2>4d. HadClient'
    BY <1>0, <2>1, <2>2 DEF HadClient
  <2>5. PostSettlesClient'
    BY <1>0, <2>1, <2>2 DEF PostSettlesClient
  <2> QED BY <2>3, <2>4a, <2>4b, <2>4c, <2>4d, <2>5 DEF ConnectionInv
<1>8. ASSUME NEW r \in Request, ReplyClose(r) PROVE ConnectionInv'
  <2>1. /\ UNCHANGED <<mq_messages, method, muid, code>>
        /\ handler[r] = "close" /\ handler'[r] = "done"
        /\ Handle'[r] = NoFd /\ (\A c \in Request \ {r} : Handle'[c] = Handle[c])
        /\ owner' = [g \in Fd |-> IF g = Handle[r] THEN NoRequest ELSE owner[g]]
        /\ \A q \in Request : q # r => handler'[q] = handler[q]
    BY <1>0, <1>8 DEF ReplyClose, CloseFd, mqVars, TypeOK
  <2>2. \A g \in Fd : owner'[g] # r
    BY <1>0, <2>1, ChannelAssumption DEF NoConnectionLeak
  <2>3. NoConnectionLeak'
    BY <1>0, <1>t, <2>1, <2>2 DEF NoConnectionLeak
  <2>4. \A q \in Request : handler[q] \in PostState => muid[q] \in Request
    BY <1>0, <1>t DEF Progress
  <2>5a. Accepted'
    BY <1>0, <1>t, <2>1, <2>4, ChannelAssumption DEF Accepted, PostState
  <2>5b. Closed'
    BY <1>0, <2>1, <2>4, ChannelAssumption DEF Closed, PostState
  <2>5c. Forgotten'
    BY <1>0, <2>1, <2>4, ChannelAssumption DEF Forgotten, PostState
  <2>5d. HadClient'
    BY <1>0, <2>1, <2>4, ChannelAssumption DEF HadClient, PostState
  <2>6. PostSettlesClient'
    BY <1>0, <1>t, <2>1 DEF PostSettlesClient, Forgotten, HadClient
  <2> QED BY <2>3, <2>5a, <2>5b, <2>5c, <2>5d, <2>6 DEF ConnectionInv
<1>9. CASE UNCHANGED vars
  BY <1>0, <1>9 DEF vars, mqVars, netVars, ConnectionInv, NoConnectionLeak, Accepted, Closed,
                  Forgotten, HadClient, PostSettlesClient
<1> QED BY <1>0, <1>2, <1>3, <1>4, <1>5, <1>6, <1>7, <1>8, <1>9, OneHandlerMoves DEF StepOf, Handler

\* The invariant of the connections holds throughout.
LEMMA SpecConnectionInv == Spec => []ConnectionInv
<1>1. Init => ConnectionInv
  BY DEF Init, ConnectionInv, NoConnectionLeak, Accepted, Closed, Forgotten, HadClient,
         PostSettlesClient
<1> QED BY <1>1, NextConnectionInv, SpecHandlerInv, PTL DEF Spec

\* A descriptor in use is the Handle of its connection, and a connection outlives
\* its handler only while the channel keeps its request: no connection leaks.
THEOREM NoDescriptorLeak == Spec => []NoConnectionLeak
<1>1. ConnectionInv => NoConnectionLeak
  BY DEF ConnectionInv
<1> QED BY <1>1, SpecConnectionInv, PTL

\* A POST that found its client leaves it without an open descriptor and the code
\* without one to use for it, answered or not, whatever other POSTs do at the same
\* time and whatever connections are given the descriptors that were closed.
THEOREM ClientIsSettled == Spec => []PostSettlesClient
<1>1. ConnectionInv => PostSettlesClient
  BY DEF ConnectionInv
<1> QED BY <1>1, SpecConnectionInv, PTL

-----------------------------------------------------------------------------
(* Clients that answer each message they got once.                          *)

\* Where the handler of a POST goes from where it is.
LEMMA PostMoves ==
    ASSUME HandlerInv, [Next]_vars, NEW q \in Request, method[q] = "Post"
    PROVE  /\ method'[q] = "Post" /\ (handler[q] # "dispatch" => muid'[q] = muid[q])
           /\ handler[q] = "dispatch" => muid'[q] = muid[q] \/ PostFind(q)
           /\ handler[q] \notin {"dispatch", "forward"} => handler'[q] \notin {"dispatch", "forward"}
           /\ handler'[q] \in {"sent", "closed", "erase"} =>
                 handler[q] \in {"sent", "closed", "erase"} \/ ForwardSend(q)
           /\ handler[q] \in {"closed", "unsentClosed"} => handler'[q] = handler[q] \/ ForwardZero(q)
           /\ code'[q] = 200 => code[q] = 200 \/ handler[q] = "erase"
<1>0. /\ TypeOK /\ handler[q] # "none"
      /\ handler[q] \in {"dispatch"} \cup PostState => code[q] # 200
  BY DEF HandlerInv, Progress, NoCode
<1> USE DEF TypeOK, PostState
<1>1. CASE /\ handler'[q] = handler[q] /\ method'[q] = method[q]
           /\ muid'[q] = muid[q] /\ code'[q] = code[q]
  BY <1>1
<1>2. CASE PostFind(q)
  <2>1. handler[q] = "dispatch" /\ method'[q] = method[q]
    BY <1>2 DEF PostFind
  <2>2. handler'[q] \in {"reply", "forward"} /\ (code'[q] = code[q] \/ code'[q] \in {300, 400})
    BY <1>0, <1>2 DEF PostFind, Answer
  <2> QED BY <1>0, <1>2, <2>1, <2>2
<1>3. CASE ForwardSend(q) \/ ForwardFail(q) \/ ForwardClose(q)
  BY <1>0, <1>3 DEF ForwardSend, ForwardFail, ForwardClose
<1>4. CASE ForwardZero(q)
  BY <1>0, <1>4 DEF ForwardZero, Answer
<1>5. CASE PostErase(q) \/ ReplySend(q) \/ ReplyClose(q)
  BY <1>0, <1>5 DEF PostErase, ReplySend, ReplyClose, Answer
<1>6. ASSUME StepOf(q)
      PROVE  \/ PostFind(q) \/ ForwardSend(q) \/ ForwardFail(q) \/ ForwardClose(q)
             \/ ForwardZero(q) \/ PostErase(q) \/ ReplySend(q) \/ ReplyClose(q)
  BY <1>0, <1>6 DEF StepOf, Accept, Handler, GetEmpty, GetFront, HeadFront, PutEmplace,
                    PutRefused, OtherMethod
<1>7. ASSUME NEW r \in Request, r # q, StepOf(r)
      PROVE  /\ handler'[q] = handler[q] /\ method'[q] = method[q]
             /\ muid'[q] = muid[q] /\ code'[q] = code[q]
  BY <1>0, <1>7, OwnStep
<1>8. ASSUME UNCHANGED vars
      PROVE  /\ handler'[q] = handler[q] /\ method'[q] = method[q]
             /\ muid'[q] = muid[q] /\ code'[q] = code[q]
  BY <1>8 DEF vars
<1> QED BY <1>0, <1>1, <1>2, <1>3, <1>4, <1>5, <1>6, <1>7, <1>8, OneHandlerMoves

\* A request becomes a POST when it is accepted, and works on no message yet.
LEMMA NewPost ==
    ASSUME HandlerInv, [Next]_vars, NEW q \in Request, method'[q] = "Post", method[q] # "Post"
    PROVE  /\ handler[q] = "none" /\ handler'[q] = "dispatch" /\ code'[q] = NoCode
           /\ muid'[q] = NoRequest
           /\ \A p \in Request : p # q => method'[p] = method[p] /\ muid'[p] = muid[p]
           /\ UNCHANGED mqVars
<1>0. TypeOK /\ Progress
  BY DEF HandlerInv
<1>1. ASSUME NEW r \in Request, Handler(r) PROVE UNCHANGED method
  BY <1>1 DEF Handler, GetEmpty, GetFront, HeadFront, PutEmplace, PutRefused, OtherMethod,
              PostFind, ForwardSend, ForwardFail, ForwardClose, ForwardZero, PostErase,
              ReplySend, ReplyClose
<1>2. PICK r \in Request, m \in Method, f \in Fd : Accept(r, m, f)
  BY <1>0, <1>1, OneHandlerMoves DEF StepOf, vars
<1>3. StepOf(r) /\ r = q
  BY <1>0, <1>2, OwnStep DEF StepOf
<1>6. muid'[q] = NoRequest
  BY <1>0, <1>2, <1>3 DEF Accept, Progress, TypeOK
<1>7. \A p \in Request : p # q => method'[p] = method[p] /\ muid'[p] = muid[p]
  BY <1>0, <1>3, OwnStep
<1>8. handler[q] = "none" /\ handler'[q] = "dispatch" /\ code'[q] = NoCode /\ UNCHANGED mqVars
  BY <1>0, <1>2, <1>3 DEF Accept, Progress, TypeOK, mqVars
<1> QED BY <1>6, <1>7, <1>8

\* A client that answers a message it got, once, is the only one to do so.
LEMMA NextOnePost ==
    HandlerInv /\ DeliveredOnce /\ OneReply /\ OnePost /\ [Next]_vars => OnePost'
<1> SUFFICES ASSUME HandlerInv, DeliveredOnce, OneReply, OnePost, [Next]_vars,
                    NEW q \in Request, method'[q] = "Post", muid'[q] # NoRequest
             PROVE  /\ muid'[q] \notin Elements(mq_queue')
                    /\ \A p \in Request : method'[p] = "Post" /\ muid'[p] = muid'[q] => p = q
  BY DEF OnePost, Posts
<1>0. TypeOK /\ Kept /\ Known /\ Told /\ mq_queue \in Seq(Request)
  BY DEF HandlerInv, TypeOK
<1>1. ASSUME NEW x \in PostUid, x # NoRequest
      PROVE  /\ x \notin Elements(mq_queue)
             /\ \A p \in Request : method[p] = "Post" => muid[p] # x
  <2>1. /\ x \in Learned
        /\ \A p \in Request : method[p] = "Post" => muid[p] # x
    BY <1>1 DEF PostUid
  <2>c. PICK c \in Request : \E e \in Elements(inbox[c]) : e.uid = x /\ method[e.for] = "Get"
    BY <2>1 DEF Learned
  <2>2. PICK e \in Elements(inbox[c]) : e.uid = x /\ method[e.for] = "Get"
    BY <2>c
  <2>r. e \in Reply
    BY <1>0 DEF TypeOK, Elements
  <2>3. e.for \in Request
    BY <2>r DEF Reply
  <2>4. x = muid[e.for]
    BY <1>0, <1>1, <2>2 DEF Told
  <2> QED BY <1>1, <2>1, <2>2, <2>3, <2>4 DEF DeliveredOnce
<1>2. ASSUME NEW p \in Request, method'[p] = "Post", muid'[p] # NoRequest
      PROVE  /\ method[p] = "Post"
             /\ muid'[p] = muid[p] \/ (PostFind(p) /\ muid'[p] \in PostUid)
  <2>1. method[p] = "Post"
    BY <1>2, NewPost
  <2>2. muid'[p] = muid[p] \/ PostFind(p)
    BY <2>1, PostMoves
  <2>3. PostFind(p) => muid'[p] = muid[p] \/ muid'[p] \in PostUid
    BY <1>0 DEF PostFind, TypeOK
  <2> QED BY <2>1, <2>2, <2>3
<1>3. CASE PostFind(q) /\ muid'[q] \in PostUid
  <2>1. /\ mq_queue' = mq_queue
        /\ \A p \in Request : p # q => muid'[p] = muid[p] /\ method'[p] = method[p]
    BY <1>0, <1>3 DEF PostFind, TypeOK, mqVars
  <2> QED BY <1>1, <1>3, <2>1
<1>4. CASE muid'[q] = muid[q]
  <2>1. Emplaced(muid[q])
    BY <1>0, <1>4 DEF Known
  <2>2. /\ method[q] = "Post" /\ muid[q] \notin Elements(mq_queue)
        /\ \A p \in Request : method[p] = "Post" /\ muid[p] = muid[q] => p = q
    BY <1>2, <1>4 DEF OnePost, Posts
  <2>3. muid'[q] \notin Elements(mq_queue')
    <3>1. ASSUME NEW r \in Request, GetFront(r) PROVE Elements(mq_queue') \subseteq Elements(mq_queue)
      BY <1>0, <3>1, ElementsTail DEF GetFront, Kept
    <3>2. ASSUME NEW r \in Request, PutEmplace(r)
          PROVE  Elements(mq_queue') = Elements(mq_queue) \cup {r} /\ ~Emplaced(r)
      BY <1>0, <3>2, ElementsAppend DEF PutEmplace, Emplaced
    <3>3. ASSUME NEW r \in Request, PostErase(r) PROVE mq_queue' = mq_queue
      BY <3>3 DEF PostErase
    <3> QED BY <1>4, <2>1, <2>2, <3>1, <3>2, <3>3, MqSteps DEF mqVars
  <2>4. ASSUME NEW p \in Request, method'[p] = "Post", muid'[p] = muid'[q] PROVE p = q
    <3>1. method[p] = "Post" /\ (muid'[p] = muid[p] \/ muid'[p] \in PostUid)
      BY <1>2, <2>4
    <3> QED BY <1>1, <1>4, <2>2, <2>4, <3>1
  <2> QED BY <2>3, <2>4
<1> QED BY <1>2, <1>3, <1>4

\* So Post erases a message that is no longer queued, and Put adds a new one.
LEMMA NextPartition ==
    HandlerInv /\ OneReply /\ OnePost /\ Partition /\ [Next]_vars => Partition'
<1> SUFFICES ASSUME HandlerInv, OneReply, OnePost, Partition, [Next]_vars PROVE Partition'
  OBVIOUS
<1>0. TypeOK /\ Progress /\ Kept /\ mq_queue \in Seq(Request)
  BY DEF HandlerInv, TypeOK
<1>1. mq_messages = Elements(mq_queue) \cup mq_locked /\ Elements(mq_queue) \cap mq_locked = {}
  BY DEF Partition
<1>2. ASSUME NEW r \in Request, GetFront(r) PROVE Partition'
  <2>1. PICK x \in Elements(mq_queue) : x = Head(mq_queue)
    BY <1>0, <1>2, ElementsTail DEF GetFront, Kept
  <2>2. Elements(mq_queue') = Elements(mq_queue) \ {x}
    BY <1>0, <1>2, <2>1, ElementsTail DEF GetFront, Kept
  <2>3. mq_locked' = mq_locked \cup {x} /\ mq_messages' = mq_messages
    BY <1>2, <2>1 DEF GetFront
  <2> QED BY <1>1, <2>1, <2>2, <2>3 DEF Partition
<1>3. ASSUME NEW r \in Request, PutEmplace(r) PROVE Partition'
  <2>1. r \notin mq_locked
    BY <1>0, <1>3 DEF PutEmplace, Kept, Emplaced
  <2>2. Elements(mq_queue') = Elements(mq_queue) \cup {r}
    BY <1>0, <1>3, ElementsAppend DEF PutEmplace
  <2>3. mq_locked' = mq_locked /\ mq_messages' = mq_messages \cup {r}
    BY <1>3 DEF PutEmplace
  <2> QED BY <1>1, <2>1, <2>2, <2>3 DEF Partition
<1>4. ASSUME NEW r \in Request, PostErase(r) PROVE Partition'
  <2>1. muid[r] \notin Elements(mq_queue)
    BY <1>0, <1>4 DEF PostErase, Progress, PostState, OnePost
  <2>2. /\ mq_queue' = mq_queue
        /\ mq_locked' = mq_locked \ {muid[r]} /\ mq_messages' = mq_messages \ {muid[r]}
    BY <1>4 DEF PostErase
  <2> QED BY <1>1, <2>1, <2>2 DEF Partition
<1>5. CASE UNCHANGED mqVars
  BY <1>1, <1>5 DEF mqVars, Partition
<1> QED BY <1>2, <1>3, <1>4, <1>5, MqSteps

\* A connection loses its descriptor to nobody but its own POST.
LEMMA NextOwnDescriptor ==
    HandlerInv /\ OnePost /\ OwnDescriptor /\ [Next]_vars => OwnDescriptor'
<1> SUFFICES ASSUME HandlerInv, OnePost, OwnDescriptor, [Next]_vars,
                    NEW c \in Request, Handle'[c] # NoFd
             PROVE  \/ owner'[Handle'[c]] = c
                    \/ \E q \in Request : /\ method'[q] = "Post" /\ muid'[q] = c
                                          /\ handler'[q] \in {"closed", "unsentClosed"}
  BY DEF OwnDescriptor, Posts
<1>0. /\ TypeOK /\ Progress /\ Known
      /\ Handle \in [Request -> Fd \cup {NoFd}]
      /\ owner \in [Fd -> Request \cup {NoRequest}]
  BY DEF HandlerInv, TypeOK
<1>1. ASSUME NEW d \in Request, Handle[d] # NoFd
      PROVE  \/ owner[Handle[d]] = d
             \/ \E q \in Request : /\ method[q] = "Post" /\ muid[q] = d
                                   /\ handler[q] \in {"closed", "unsentClosed"}
  BY <1>1 DEF OwnDescriptor, Posts
<1>2. ASSUME NEW q \in Request, method[q] = "Post", muid[q] = c,
             handler[q] \in {"closed", "unsentClosed"}
      PROVE  \E p \in Request : /\ method'[p] = "Post" /\ muid'[p] = c
                                /\ handler'[p] \in {"closed", "unsentClosed"}
  <2>1. method'[q] = "Post" /\ muid'[q] = c /\ (handler'[q] = handler[q] \/ ForwardZero(q))
    BY <1>2, PostMoves
  <2>2. ForwardZero(q) => Handle'[c] = NoFd
    BY <1>0, <1>2 DEF ForwardZero
  <2> QED BY <1>2, <2>1, <2>2
<1>3. ASSUME NEW r \in Request, NEW m \in Method, NEW f \in Fd, Accept(r, m, f)
      PROVE  \/ owner'[Handle'[c]] = c
             \/ \E q \in Request : /\ method'[q] = "Post" /\ muid'[q] = c
                                   /\ handler'[q] \in {"closed", "unsentClosed"}
  <2>1. /\ owner[f] = NoRequest
        /\ Handle' = [Handle EXCEPT ![r] = f] /\ owner' = [owner EXCEPT ![f] = r]
    BY <1>3 DEF Accept
  <2>2. CASE c = r
    BY <1>0, <2>1, <2>2
  <2>3. CASE c # r
    <3>1. Handle'[c] = Handle[c]
      BY <1>0, <2>1, <2>3
    <3>2. owner[Handle[c]] = c => owner'[Handle[c]] = c
      BY <1>0, <2>1, <3>1, ChannelAssumption
    <3> QED BY <1>1, <1>2, <3>1, <3>2
  <2> QED BY <2>2, <2>3
<1>4. ASSUME NEW r \in Request, ForwardClose(r)
      PROVE  \/ owner'[Handle'[c]] = c
             \/ \E q \in Request : /\ method'[q] = "Post" /\ muid'[q] = c
                                   /\ handler'[q] \in {"closed", "unsentClosed"}
  <2>1. /\ Handle' = Handle
        /\ owner' = [g \in Fd |-> IF g = Handle[muid[r]] THEN NoRequest ELSE owner[g]]
    BY <1>4 DEF ForwardClose, CloseFd
  <2>2. method[r] = "Post" /\ muid[r] \in Request /\ muid[r] # NoRequest
    BY <1>0, <1>4 DEF ForwardClose, Progress, PostState, TypeOK
  <2>3. method'[r] = "Post" /\ muid'[r] = muid[r] /\ handler'[r] \in {"closed", "unsentClosed"}
    BY <1>0, <1>4, <2>2 DEF ForwardClose, TypeOK
  <2>4. CASE c = muid[r]
    BY <2>3, <2>4
  <2>5. CASE c # muid[r] /\ owner[Handle[c]] = c
    <3>1. Handle[c] = Handle[muid[r]] => \E q \in Request :
             /\ method[q] = "Post" /\ muid[q] = muid[r]
             /\ handler[q] \in {"closed", "unsentClosed"}
      BY <1>1, <2>1, <2>2, <2>5
    <3>2. Handle[c] # Handle[muid[r]]
      BY <1>4, <2>2, <3>1 DEF OnePost, Posts, ForwardClose
    <3>3. owner'[Handle[c]] = owner[Handle[c]]
      BY <1>0, <2>1, <3>2
    <3> QED BY <2>1, <2>5, <3>3
  <2> QED BY <1>1, <1>2, <2>1, <2>4, <2>5
<1>5. ASSUME NEW r \in Request, ForwardZero(r)
      PROVE  \/ owner'[Handle'[c]] = c
             \/ \E q \in Request : /\ method'[q] = "Post" /\ muid'[q] = c
                                   /\ handler'[q] \in {"closed", "unsentClosed"}
  <2>1. Handle'[c] = Handle[c] /\ owner' = owner
    BY <1>0, <1>5 DEF ForwardZero
  <2> QED BY <1>1, <1>2, <2>1
<1>6. ASSUME NEW r \in Request, ReplyClose(r)
      PROVE  \/ owner'[Handle'[c]] = c
             \/ \E q \in Request : /\ method'[q] = "Post" /\ muid'[q] = c
                                   /\ handler'[q] \in {"closed", "unsentClosed"}
  <2>1. /\ c # r /\ Handle'[c] = Handle[c]
        /\ owner' = [g \in Fd |-> IF g = Handle[r] THEN NoRequest ELSE owner[g]]
    BY <1>0, <1>6 DEF ReplyClose, CloseFd
  <2>2. ~\E q \in Request : method[q] = "Post" /\ muid[q] = r
    BY <1>0, <1>6, ChannelAssumption DEF ReplyClose, Known, Emplaced
  <2>3. CASE owner[Handle[c]] = c
    <3>1. Handle[c] # Handle[r]
      BY <1>1, <2>1, <2>2, <2>3
    <3>2. owner'[Handle[c]] = owner[Handle[c]]
      BY <1>0, <2>1, <3>1
    <3> QED BY <2>1, <2>3, <3>2
  <2> QED BY <1>1, <1>2, <2>1, <2>3
<1>7. CASE UNCHANGED <<Handle, owner>>
  BY <1>1, <1>2, <1>7
<1> QED BY <1>3, <1>4, <1>5, <1>6, <1>7, HandleSteps

\* A reply goes to a client that has had none.
LastReply(c, m) ==
    /\ inbox[c] = <<>> /\ inbox'[c] # <<>>
    /\ Elements(inbox'[c]) = {m} /\ Len(inbox'[c]) = 1
    /\ \A d \in Request : d # c => inbox'[d] = inbox[d]

\* What Send does when the descriptor is the connection's own.
LEMMA SendIsLast ==
    ASSUME TypeOK, NEW c \in Request, NEW m \in Reply, Send(Handle[c], m),
           owner[Handle[c]] = c, inbox[c] = <<>>
    PROVE  LastReply(c, m)
<1>1. /\ Elements(inbox'[c]) = Elements(inbox[c]) \cup {m}
      /\ inbox'[c] # <<>> /\ Len(inbox'[c]) = Len(inbox[c]) + 1
      /\ \A d \in Request \ {c} : inbox'[d] = inbox[d]
  BY SendFacts
<1>2. Elements(inbox[c]) = {} /\ Len(inbox[c]) = 0
  BY DEF Elements
<1> QED BY <1>1, <1>2 DEF LastReply

\* Post sends to the client of the message it names, which has had no answer.
LEMMA ForwardIsLast ==
    ASSUME HandlerInv, OnePost, OwnDescriptor, AnsweredBy, NEW r \in Request, ForwardSend(r)
    PROVE  \E c \in Request, m \in Reply :
              /\ c = muid[r] /\ Emplaced(c) /\ m.for = c /\ m.uid = r /\ LastReply(c, m)
<1>0. TypeOK /\ Progress /\ Known
  BY DEF HandlerInv
<1>1. method[r] = "Post" /\ handler[r] = "forward" /\ muid[r] # NoRequest
  BY <1>0 DEF ForwardSend, Progress, PostState
<1>2. PICK c \in Request : c = muid[r] /\ Emplaced(c)
  BY <1>0, <1>1 DEF Known, TypeOK
<1>3. PICK m \in Reply : m = [for |-> c, code |-> 200, uid |-> r]
  BY <1>2 DEF Reply, Code
<1>4. Send(Handle[c], m)
  BY <1>2, <1>3 DEF ForwardSend
<1>5. \A q \in Posts(c) : q = r
  BY <1>1, <1>2 DEF OnePost
<1>6. owner[Handle[c]] = c
  BY <1>1, <1>4, <1>5 DEF OwnDescriptor, Send
<1>7. inbox[c] = <<>>
  BY <1>1, <1>2, <1>5 DEF AnsweredBy
<1>8. LastReply(c, m)
  BY <1>0, <1>4, <1>6, <1>7, SendIsLast
<1> QED BY <1>2, <1>3, <1>8

\* A handler sends its own answer to its own client, which has had none.
LEMMA OwnReplyIsLast ==
    ASSUME HandlerInv, OwnDescriptor, AnsweredBy, NEW r \in Request, ReplySend(r)
    PROVE  \/ UNCHANGED inbox
           \/ \E m \in Reply : m.for = r /\ LastReply(r, m)
<1>0. TypeOK /\ Known
  BY DEF HandlerInv
<1>1. PICK m \in Reply : m.for = r /\ (Send(Handle[r], m) \/ UNCHANGED inbox)
  BY <1>0, OwnAnswerFacts
<1>2. CASE Send(Handle[r], m)
  <2>1. \A q \in Posts(r) : FALSE
    BY <1>0, ChannelAssumption DEF Posts, Known, Emplaced, ReplySend
  <2>2. owner[Handle[r]] = r
    BY <1>2, <2>1 DEF OwnDescriptor, Send
  <2>3. inbox[r] = <<>>
    BY DEF AnsweredBy, ReplySend
  <2>4. LastReply(r, m)
    BY <1>0, <1>2, <2>2, <2>3, SendIsLast
  <2> QED BY <1>1, <2>4
<1> QED BY <1>1, <1>2

\* So a step sends nothing, or one answer, for the client that gets it.
LEMMA RepliesAreLast ==
    ASSUME HandlerInv, OnePost, OwnDescriptor, AnsweredBy, [Next]_vars
    PROVE  \/ UNCHANGED inbox
           \/ \E c \in Request, m \in Reply : m.for = c /\ LastReply(c, m)
BY ForwardIsLast, OwnReplyIsLast, InboxSteps

\* The answers clients have got stay the only ones, and their own.
LEMMA NextReplies ==
    /\ HandlerInv /\ OneReply /\ OnePost /\ OwnDescriptor /\ AnsweredBy
    /\ ReplyToItsClient /\ PoliteOneReply /\ [Next]_vars
    => ReplyToItsClient' /\ PoliteOneReply'
<1> SUFFICES ASSUME HandlerInv, OneReply, OnePost, OwnDescriptor, AnsweredBy,
                    ReplyToItsClient, PoliteOneReply, [Next]_vars
             PROVE  ReplyToItsClient' /\ PoliteOneReply'
  OBVIOUS
<1>1. CASE UNCHANGED inbox
  BY <1>1 DEF ReplyToItsClient, PoliteOneReply, OneReplyPerClient
<1>2. ASSUME NEW c \in Request, NEW m \in Reply, m.for = c, LastReply(c, m)
      PROVE  ReplyToItsClient' /\ PoliteOneReply'
  <2>1. ASSUME NEW d \in Request
        PROVE  /\ \A e \in Elements(inbox'[d]) : e.for = d
               /\ Len(inbox'[d]) <= 1
    <3>1. CASE d = c
      <4>1. \A e \in Elements(inbox'[d]) : e.for = d
        BY <1>2, <3>1, Zenon DEF LastReply
      <4>2. Len(inbox'[d]) = 1
        BY <1>2, <3>1, Zenon DEF LastReply
      <4> QED BY <4>1, <4>2
    <3>2. CASE d # c
      BY <1>2, <3>2 DEF LastReply, ReplyToItsClient, PoliteOneReply, OneReplyPerClient
    <3> QED BY <3>1, <3>2
  <2> QED BY <2>1 DEF ReplyToItsClient, PoliteOneReply, OneReplyPerClient
<1> QED BY <1>1, <1>2, RepliesAreLast

\* What a client has been sent it keeps.
LEMMA InboxGrows ==
    ASSUME HandlerInv, OnePost, OwnDescriptor, AnsweredBy, [Next]_vars, NEW c \in Request
    PROVE  Elements(inbox[c]) \subseteq Elements(inbox'[c])
<1>1. ASSUME NEW d \in Request, NEW m, LastReply(d, m)
      PROVE  Elements(inbox[c]) \subseteq Elements(inbox'[c])
  BY <1>1 DEF LastReply, Elements
<1> QED BY <1>1, RepliesAreLast

\* An answer is the work of the request's own handler or of the one POST for it.
LEMMA NextAnsweredBy ==
    HandlerInv /\ OnePost /\ OwnDescriptor /\ AnsweredBy /\ [Next]_vars => AnsweredBy'
<1> SUFFICES ASSUME HandlerInv, OnePost, OwnDescriptor, AnsweredBy, [Next]_vars PROVE AnsweredBy'
  OBVIOUS
<1>0. TypeOK /\ Progress
  BY DEF HandlerInv
<1>1. ASSUME NEW c \in Request, inbox[c] # <<>>
      PROVE  /\ handler'[c] \in {"close", "done"}
             /\ Emplaced(c)' => \E q \in Posts(c)' : handler'[q] \notin {"dispatch", "forward"}
  <2>1. handler[c] \in {"close", "done"}
    BY <1>1 DEF AnsweredBy
  <2>2. /\ handler'[c] \in {"close", "done"}
        /\ method'[c] = method[c] /\ code'[c] = code[c]
    BY <1>0, <2>1, Settled
  <2>3. Emplaced(c)' => Emplaced(c)
    BY <1>0, <2>1, <2>2 DEF Emplaced, Progress
  <2>4. ASSUME NEW q \in Posts(c), handler[q] \notin {"dispatch", "forward"}
        PROVE  q \in Posts(c)' /\ handler'[q] \notin {"dispatch", "forward"}
    BY <2>4, PostMoves DEF Posts
  <2>5. Emplaced(c) => \E q \in Posts(c) : handler[q] \notin {"dispatch", "forward"}
    BY <1>1 DEF AnsweredBy
  <2> QED BY <2>2, <2>3, <2>4, <2>5
<1>2. ASSUME NEW c \in Request, inbox'[c] # <<>>, inbox[c] = <<>>
      PROVE  /\ handler'[c] \in {"close", "done"}
             /\ Emplaced(c)' => \E q \in Posts(c)' : handler'[q] \notin {"dispatch", "forward"}
  <2>1. ASSUME NEW r \in Request, ForwardSend(r)
        PROVE  /\ handler'[c] \in {"close", "done"}
               /\ Emplaced(c)' => \E q \in Posts(c)' : handler'[q] \notin {"dispatch", "forward"}
    <3>1. c = muid[r] /\ Emplaced(c)
      <4>1. PICK d \in Request, m \in Reply : d = muid[r] /\ Emplaced(d) /\ LastReply(d, m)
        BY <2>1, ForwardIsLast
      <4> QED BY <1>2, <4>1 DEF LastReply
    <3>2. Emplaced(c)'
      BY <1>0, <3>1, EmplacedStays
    <3>3. method[r] = "Post"
      BY <1>0, <2>1 DEF ForwardSend, Progress, PostState
    <3>4. method'[r] = "Post" /\ muid'[r] = c /\ handler'[r] = "sent"
      BY <1>0, <2>1, <3>1, <3>3 DEF ForwardSend, TypeOK
    <3> QED BY <3>2, <3>4 DEF Emplaced, Posts
  <2>2. ASSUME NEW r \in Request, ReplySend(r)
        PROVE  /\ handler'[c] \in {"close", "done"}
               /\ Emplaced(c)' => \E q \in Posts(c)' : handler'[q] \notin {"dispatch", "forward"}
    <3>1. c = r
      BY <1>2, <2>2, OwnReplyIsLast DEF LastReply
    <3>2. handler'[r] = "close"
      BY <1>0, <2>2 DEF ReplySend, TypeOK
    <3> QED BY <3>1, <3>2 DEF Emplaced
  <2> QED BY <1>2, <2>1, <2>2, InboxSteps
<1>3. ASSUME NEW q \in Request, handler'[q] \in {"sent", "closed", "erase"}
      PROVE  \E e \in Elements(inbox'[muid'[q]]) : e.uid = q
  <2>1. method[q] = "Post" /\ muid[q] \in Request /\ muid'[q] = muid[q]
    <3>1. method'[q] = "Post" /\ muid'[q] # NoRequest /\ TypeOK'
      BY <1>3, NextHandlerInv DEF HandlerInv, Progress, PostState
    <3>2. method[q] = "Post"
      BY <1>3, <3>1, NewPost
    <3>3. muid'[q] = muid[q]
      BY <1>3, <3>2, PostMoves DEF ForwardSend
    <3> QED BY <1>0, <3>1, <3>2, <3>3 DEF TypeOK
  <2>2. CASE handler[q] \in {"sent", "closed", "erase"}
    <3>1. \E e \in Elements(inbox[muid[q]]) : e.uid = q
      BY <2>2 DEF AnsweredBy
    <3> QED BY <2>1, <3>1, InboxGrows
  <2>3. CASE ForwardSend(q)
    <3>1. PICK d \in Request, m \in Reply : d = muid[q] /\ m.uid = q /\ LastReply(d, m)
      BY <2>3, ForwardIsLast
    <3> QED BY <2>1, <3>1 DEF LastReply
  <2> QED BY <1>3, <2>1, <2>2, <2>3, PostMoves
<1> QED BY <1>1, <1>2, <1>3 DEF AnsweredBy

\* Post answers 200 only once its client has been sent the content.
LEMMA NextAck ==
    /\ HandlerInv /\ ConnectionInv /\ OneReply /\ OnePost /\ OwnDescriptor /\ AnsweredBy
    /\ AckMeansForwarded /\ [Next]_vars
    => AckMeansForwarded'
<1> SUFFICES ASSUME HandlerInv, ConnectionInv, OneReply, OnePost, OwnDescriptor, AnsweredBy,
                    AckMeansForwarded, [Next]_vars,
                    NEW q \in Request, method'[q] = "Post", code'[q] = 200
             PROVE  \E e \in Elements(inbox'[muid'[q]]) : e.uid = q
  BY DEF AckMeansForwarded
<1>1. method[q] = "Post"
  BY NewPost DEF NoCode
<1>2. muid'[q] = muid[q] /\ (code[q] = 200 \/ handler[q] = "erase")
  BY <1>1, PostMoves DEF HandlerInv, Progress, NoCode
<1>3. muid[q] \in Request
  BY <1>1, <1>2 DEF HandlerInv, TypeOK, Progress, PostState, ConnectionInv, HadClient
<1>4. \E e \in Elements(inbox[muid[q]]) : e.uid = q
  BY <1>1, <1>2 DEF AckMeansForwarded, AnsweredBy
<1> QED BY <1>2, <1>3, <1>4, InboxGrows

\* Every step keeps what polite clients rely on.
LEMMA NextPoliteInv ==
    HandlerInv /\ DeliveredOnce /\ ConnectionInv /\ PoliteInv /\ [Next]_vars => PoliteInv'
<1> SUFFICES ASSUME HandlerInv, DeliveredOnce, ConnectionInv, PoliteInv, [Next]_vars
             PROVE  PoliteInv'
  OBVIOUS
<1>1. OneReply' = OneReply
  BY OneHandlerMoves DEF HandlerInv
<1>2. CASE OneReply
  <2>1. /\ Partition /\ ReplyToItsClient /\ PoliteOneReply /\ AckMeansForwarded
        /\ OnePost /\ OwnDescriptor /\ AnsweredBy
    BY <1>2 DEF PoliteInv
  <2> QED BY <1>2, <2>1, NextOnePost, NextPartition, NextOwnDescriptor, NextReplies,
             NextAnsweredBy, NextAck DEF PoliteInv
<1>3. CASE ~OneReply
  BY <1>1, <1>3 DEF PoliteInv, Partition, ReplyToItsClient, PoliteOneReply, AckMeansForwarded
<1> QED BY <1>2, <1>3

\* The invariant of polite clients holds throughout.
LEMMA SpecPoliteInv == Spec => []PoliteInv
<1>1. Init => PoliteInv
  <2> SUFFICES ASSUME Init PROVE PoliteInv
    OBVIOUS
  <2>1. Partition
    BY DEF Init, Partition, Elements
  <2>2. ReplyToItsClient /\ PoliteOneReply /\ AckMeansForwarded
    BY DEF Init, ReplyToItsClient, PoliteOneReply, OneReplyPerClient, AckMeansForwarded, Elements
  <2>3. OnePost /\ OwnDescriptor /\ AnsweredBy
    BY DEF Init, OnePost, OwnDescriptor, AnsweredBy
  <2> QED BY <2>1, <2>2, <2>3 DEF PoliteInv
<1> QED BY <1>1, NextPoliteInv, SpecHandlerInv, NoMessageHandedOutTwice, SpecConnectionInv, PTL
        DEF Spec

\* With clients that answer each message they got once, a request the channel
\* keeps is queued or locked, never both, and nothing else is: the two critical
\* sections of Post and those of Get and Put keep the three containers together.
THEOREM ContainersAgree == Spec => []Partition
<1>1. PoliteInv => Partition
  BY DEF PoliteInv
<1> QED BY <1>1, SpecPoliteInv, PTL

\* With such clients, an answer never reaches the client of another request,
\* although closed descriptors are given to new connections meanwhile.
THEOREM RepliesReachTheirClient == Spec => []ReplyToItsClient
<1>1. PoliteInv => ReplyToItsClient
  BY DEF PoliteInv
<1> QED BY <1>1, SpecPoliteInv, PTL

\* With such clients, no request is answered twice.
THEOREM AnsweredAtMostOnce == Spec => []PoliteOneReply
<1>1. PoliteInv => PoliteOneReply
  BY DEF PoliteInv
<1> QED BY <1>1, SpecPoliteInv, PTL

\* With such clients, a POST that is answered 200 has reached the client of its
\* PUT.
THEOREM AckIsHonest == Spec => []AckMeansForwarded
<1>1. PoliteInv => AckMeansForwarded
  BY DEF PoliteInv
<1> QED BY <1>1, SpecPoliteInv, PTL

-----------------------------------------------------------------------------
(* The channel implements MessageChannel.                                   *)

\* Only a POST that sends to the connection of its message's own client answers
\* the message.
LEMMA ForwardedSteps ==
    ASSUME HandlerInv, [Next]_vars
    PROVE  \/ Forwarded' = Forwarded
           \/ \E r \in Request : /\ ForwardSend(r)
                                 /\ \E f \in Fd : owner[f] = muid[r]
                                 /\ Forwarded' = Forwarded \cup {muid[r]}
<1>0. TypeOK /\ Progress /\ Known /\ Told
  BY DEF HandlerInv
<1> DEFINE Content(x, e) == e.for = x /\ e.uid \in Request /\ method[e.uid] = "Post"
<1>1. \A x : x \in Forwarded <=> x \in Request /\ \E e \in Elements(inbox[x]) : Content(x, e)
  BY DEF Forwarded
<1>2. \A x : x \in Forwarded' <=> x \in Request /\ \E e \in Elements(inbox'[x]) : Content(x, e)'
  BY DEF Forwarded
<1>3. ASSUME NEW c \in Request, NEW e \in Elements(inbox[c])
      PROVE  Content(c, e)' <=> Content(c, e)
  <2>1. e.uid \in Request => Emplaced(e.uid) \/ method[e.uid] = "Post"
    BY <1>0, ChannelAssumption DEF Told
  <2>2. Emplaced(e.uid) => method[e.uid] = "Put" /\ method'[e.uid] = "Put"
    BY <1>0, EmplacedStays DEF Emplaced
  <2>3. e.uid \in Request /\ method[e.uid] = "Post" => method'[e.uid] = "Post"
    BY <1>0, PostStays
  <2> QED BY <2>1, <2>2, <2>3
<1>4. ASSUME UNCHANGED inbox PROVE Forwarded' = Forwarded
  <2>1. ASSUME NEW x \in Request
        PROVE  (\E e \in Elements(inbox'[x]) : Content(x, e)') <=> (\E e \in Elements(inbox[x]) : Content(x, e))
    BY <1>3, <1>4
  <2>2. \A x : x \in Forwarded' <=> x \in Forwarded
    BY <1>1, <1>2, <2>1
  <2> QED BY <2>2
<1>5. ASSUME NEW c \in Request, NEW m \in Reply, Send(Handle[c], m)
      PROVE  \E f \in Fd : /\ owner[f] \in Request
                           /\ \A x : x \in Forwarded' <=> x \in Forwarded \/ (x = owner[f] /\ Content(x, m)')
  <2>1. PICK f \in Fd : f = Handle[c]
    BY <1>0, <1>5, SendFacts
  <2>2. /\ owner[f] \in Request
        /\ Elements(inbox'[owner[f]]) = Elements(inbox[owner[f]]) \cup {m}
        /\ \A d \in Request \ {owner[f]} : inbox'[d] = inbox[d]
    BY <1>0, <1>5, <2>1, SendFacts
  <2>3. ASSUME NEW x \in Request
        PROVE  (\E e \in Elements(inbox'[x]) : Content(x, e)') <=>
                  (\E e \in Elements(inbox[x]) : Content(x, e)) \/ (x = owner[f] /\ Content(x, m)')
    BY <1>3, <2>2
  <2>4. \A x : x \in Forwarded' <=> x \in Forwarded \/ (x = owner[f] /\ Content(x, m)')
    BY <1>1, <1>2, <2>2, <2>3
  <2> QED BY <2>2, <2>4
<1>6. ASSUME NEW r \in Request, ForwardSend(r)
      PROVE  \/ Forwarded' = Forwarded
             \/ (\E f \in Fd : owner[f] = muid[r]) /\ Forwarded' = Forwarded \cup {muid[r]}
  <2>1. PICK x \in Request : x = muid[r]
    BY <1>0, <1>6 DEF ForwardSend, Progress, PostState, TypeOK
  <2>2. PICK m \in Reply : m = [for |-> x, code |-> 200, uid |-> r]
    <3>1. 200 \in Code
      BY DEF Code
    <3>2. [for |-> x, code |-> 200, uid |-> r] \in Reply
      BY <3>1 DEF Reply
    <3> QED BY <3>2
  <2>3. Send(Handle[x], m)
    BY <1>6, <2>1, <2>2 DEF ForwardSend
  <2>4. PICK f \in Fd : \A y : y \in Forwarded' <=> y \in Forwarded \/ (y = owner[f] /\ Content(y, m)')
    BY <1>5, <2>3
  <2>5. method'[r] = "Post"
    BY <1>0, <1>6, PostStays DEF ForwardSend, Progress, PostState
  <2>6. \A y : Content(y, m)' <=> y = x
    BY <2>2, <2>5
  <2>7. CASE owner[f] = x
    <3>1. \A y : y \in Forwarded' <=> y \in Forwarded \cup {x}
      BY <2>4, <2>6, <2>7
    <3>2. Forwarded' = Forwarded \cup {x}
      BY <3>1
    <3> QED BY <2>1, <2>7, <3>2
  <2>8. CASE owner[f] # x
    <3>1. \A y : y \in Forwarded' <=> y \in Forwarded
      BY <2>4, <2>6, <2>8
    <3> QED BY <3>1
  <2> QED BY <2>7, <2>8
<1>7. ASSUME NEW r \in Request, ReplySend(r) PROVE Forwarded' = Forwarded
  <2>1. PICK m \in Reply : /\ m.for = r /\ (m.uid # NoRequest => m.uid = muid[r])
                           /\ Send(Handle[r], m) \/ UNCHANGED inbox
    BY <1>0, <1>7, OwnAnswerFacts
  <2>2. m.uid # NoRequest => method'[m.uid] = "Put"
    BY <1>0, <2>1, EmplacedStays DEF Known, Emplaced
  <2>3. \A x : ~Content(x, m)'
    BY <2>2, ChannelAssumption
  <2>4. CASE Send(Handle[r], m)
    <3>1. \A x : x \in Forwarded' <=> x \in Forwarded
      BY <1>5, <2>3, <2>4
    <3> QED BY <3>1
  <2> QED BY <1>4, <2>1, <2>4
<1> QED BY <1>4, <1>6, <1>7, InboxSteps

\* Only messages that Put has left in the channel are forwarded.
LEMMA ForwardedKnown ==
    ASSUME HandlerInv, NEW x \in Forwarded
    PROVE  Emplaced(x)
<1>1. PICK e \in Elements(inbox[x]) : e.for = x /\ e.uid \in Request /\ method[e.uid] = "Post"
  BY DEF Forwarded
<1>2. ~Emplaced(e.uid) /\ e.uid # NoRequest /\ x \in Request
  BY <1>1, ChannelAssumption DEF Emplaced, Forwarded
<1> QED BY <1>1, <1>2 DEF HandlerInv, Told

\* Every step leaves the kept messages where Get or Post find them.
LEMMA NextPending == HandlerInv /\ Pending /\ [Next]_vars => Pending'
<1> SUFFICES ASSUME HandlerInv, Pending, [Next]_vars PROVE Pending'
  OBVIOUS
<1>0. TypeOK /\ Progress /\ Kept /\ mq_queue \in Seq(Request)
  BY DEF HandlerInv, TypeOK
<1>1. mq_messages' \subseteq Elements(mq_queue') \cup mq_locked'
  <2>0. mq_messages \subseteq Elements(mq_queue) \cup mq_locked
    BY DEF Pending
  <2>1. ASSUME NEW r \in Request, GetFront(r)
        PROVE  mq_messages' \subseteq Elements(mq_queue') \cup mq_locked'
    <3>1. Elements(mq_queue') = Elements(mq_queue) \ {Head(mq_queue)}
      BY <1>0, <2>1, ElementsTail DEF GetFront, Kept
    <3> QED BY <2>0, <2>1, <3>1 DEF GetFront
  <2>2. ASSUME NEW r \in Request, PutEmplace(r)
        PROVE  mq_messages' \subseteq Elements(mq_queue') \cup mq_locked'
    <3>1. Elements(mq_queue') = Elements(mq_queue) \cup {r}
      BY <1>0, <2>2, ElementsAppend DEF PutEmplace
    <3> QED BY <2>0, <2>2, <3>1 DEF PutEmplace
  <2>3. ASSUME NEW r \in Request, PostErase(r)
        PROVE  mq_messages' \subseteq Elements(mq_queue') \cup mq_locked'
    BY <2>0, <2>3 DEF PostErase
  <2>4. CASE UNCHANGED mqVars
    BY <2>0, <2>4 DEF mqVars
  <2> QED BY <2>1, <2>2, <2>3, <2>4, MqSteps
<1> QED BY <1>1 DEF Pending

\* A PUT that is emplaced is offered to the channel.
LEMMA EmplaceIsOffer ==
    ASSUME HandlerInv, [Next]_vars, NEW r \in Request, PutEmplace(r)
    PROVE  Channel!Offer(r)
<1>0. TypeOK /\ Kept /\ mq_queue \in Seq(Request)
  BY DEF HandlerInv, TypeOK
<1>1. ~Emplaced(r)
  BY DEF PutEmplace, Emplaced
<1>2. r \notin Elements(mq_queue) \cup mq_locked \cup mq_messages \cup Forwarded
  BY <1>0, <1>1, ForwardedKnown DEF Kept
<1>3. /\ mq_queue' = Append(mq_queue, r) /\ mq_messages' = mq_messages \cup {r}
      /\ mq_locked' = mq_locked
  BY DEF PutEmplace
<1>4. Elements(mq_queue') = Elements(mq_queue) \cup {r}
  BY <1>0, <1>3, ElementsAppend
<1>5. Waiting' = Waiting \cup {r}
  BY <1>2, <1>3, <1>4 DEF Waiting
<1>6. ASSUME NEW x, NEW y
      PROVE  Precedes(mq_queue', x, y) <=> (Precedes(mq_queue, x, y) \/ (y = r /\ x \in Elements(mq_queue)))
  BY <1>0, <1>2, <1>3, PrecedesAppend
<1>7. \A x : ~Precedes(mq_queue, x, r) /\ ~Precedes(mq_queue, r, x)
  BY <1>2, PrecedesElements
<1>8. Ahead(r)' = Waiting
  <2>1. Ahead(r)' = {x \in Waiting' : Precedes(mq_queue', x, r)}
    BY <1>5 DEF Ahead
  <2>2. ASSUME NEW x PROVE x \in Waiting' /\ Precedes(mq_queue', x, r) <=> x \in Waiting
    BY <1>2, <1>5, <1>6, <1>7 DEF Waiting
  <2> QED BY <2>1, <2>2
<1>9. ASSUME NEW y \in Request \ {r} PROVE Ahead(y)' = Ahead(y)
  <2>1. ASSUME NEW x PROVE x \in Waiting' /\ y \in Waiting' /\ Precedes(mq_queue', x, y)
                             <=> x \in Waiting /\ y \in Waiting /\ Precedes(mq_queue, x, y)
    BY <1>5, <1>6, <1>7
  <2> QED BY <2>1 DEF Ahead
<1>10. [y \in Request |-> Ahead(y)]' = [[y \in Request |-> Ahead(y)] EXCEPT ![r] = Waiting]
  BY <1>8, <1>9
<1>11. (mq_locked \cap mq_messages)' = mq_locked \cap mq_messages
  BY <1>2, <1>3
<1>12. Forwarded' = Forwarded
  <2>1. ASSUME NEW q \in Request, ForwardSend(q) PROVE FALSE
    BY <1>0, <2>1 DEF PutEmplace, ForwardSend, TypeOK
  <2> QED BY <2>1, ForwardedSteps
<1> QED BY <1>2, <1>5, <1>10, <1>11, <1>12 DEF Channel!Offer, Waiting

\* A message that leaves the waiting ones is no longer older than any.
LEMMA ForgetStep ==
    ASSUME NEW x \in Request, Waiting' = Waiting \ {x},
           \A y, z \in Waiting' : Precedes(mq_queue', y, z) <=> Precedes(mq_queue, y, z)
    PROVE  Channel!Forget(x)
<1>1. Ahead(x)' = {}
  BY DEF Ahead
<1>2. ASSUME NEW z \in Request, z # x PROVE Ahead(z)' = Ahead(z) \ {x}
  <2>1. ASSUME NEW y PROVE y \in Waiting' /\ z \in Waiting' /\ Precedes(mq_queue', y, z)
                             <=> y \in Waiting /\ z \in Waiting /\ Precedes(mq_queue, y, z) /\ y # x
    BY <1>2
  <2> QED BY <2>1 DEF Ahead
<1>3. [z \in Request |-> Ahead(z)]' =
        [z \in Request |-> IF z = x THEN {} ELSE [y \in Request |-> Ahead(y)][z] \ {x}]
  BY <1>1, <1>2
<1> QED BY <1>3 DEF Channel!Forget

\* A GET takes the oldest waiting message, or pops one that has been answered.
LEMMA GetIsTake ==
    ASSUME HandlerInv, [Next]_vars, NEW r \in Request, GetFront(r)
    PROVE  [Channel!Next]_Channel!vars
<1>0. TypeOK /\ Kept /\ mq_queue \in Seq(Request) /\ mq_queue # <<>> /\ Distinct(mq_queue)
  BY DEF HandlerInv, TypeOK, GetFront, Kept
<1>1. PICK h \in Request : h = Head(mq_queue)
  BY <1>0, TailShape
<1>2. /\ mq_queue' = Tail(mq_queue) /\ mq_locked' = mq_locked \cup {h}
      /\ mq_messages' = mq_messages
  BY <1>1 DEF GetFront
<1>3. h \in Elements(mq_queue) /\ Elements(mq_queue') = Elements(mq_queue) \ {h}
  BY <1>0, <1>1, <1>2, ElementsTail
<1>4. Waiting' = Waiting \ {h}
  BY <1>2, <1>3 DEF Waiting
<1>5. ASSUME NEW x, NEW y
      PROVE  /\ ~Precedes(mq_queue, x, h)
             /\ Precedes(mq_queue', x, y) <=> Precedes(mq_queue, x, y) /\ x # h
  BY <1>0, <1>1, <1>2, PrecedesTail
<1>6. Channel!Forget(h)
  BY <1>4, <1>5, ForgetStep
<1>7. Forwarded' = Forwarded
  <2>1. ASSUME NEW q \in Request, ForwardSend(q) PROVE FALSE
    <3>1. mq_queue' = mq_queue
      BY <2>1 DEF ForwardSend, mqVars
    <3> QED BY <1>3, <3>1
  <2> QED BY <2>1, ForwardedSteps
<1>8. CASE h \in mq_messages
  <2>1. h \in Waiting
    BY <1>3, <1>8 DEF Waiting
  <2>2. Ahead(h) = {}
    BY <1>5 DEF Ahead
  <2>3. (mq_locked \cap mq_messages)' = (mq_locked \cap mq_messages) \cup {h}
    BY <1>2, <1>8
  <2>4. Channel!Take(h)
    BY <1>6, <1>7, <2>1, <2>2, <2>3 DEF Channel!Take
  <2> QED BY <2>4 DEF Channel!Next
<1>9. CASE h \notin mq_messages
  <2>1. Waiting' = Waiting /\ h \notin Waiting
    BY <1>4, <1>9 DEF Waiting
  <2>2. ASSUME NEW z \in Request PROVE Ahead(z)' = Ahead(z)
    <3>1. ASSUME NEW y PROVE y \in Waiting' /\ z \in Waiting' /\ Precedes(mq_queue', y, z)
                               <=> y \in Waiting /\ z \in Waiting /\ Precedes(mq_queue, y, z)
      BY <1>5, <2>1
    <3> QED BY <3>1 DEF Ahead
  <2>3. (mq_locked \cap mq_messages)' = mq_locked \cap mq_messages
    BY <1>2, <1>9
  <2> QED BY <1>7, <2>1, <2>2, <2>3 DEF Channel!vars
<1> QED BY <1>8, <1>9

\* A POST that sends to the client of a message answers it while the channel keeps
\* it: a connection outlives its handler no longer.
LEMMA ForwardIsAnswer ==
    ASSUME HandlerInv, NoConnectionLeak, Pending, NEW r \in Request, ForwardSend(r),
           \E f \in Fd : owner[f] = muid[r], Forwarded' = Forwarded \cup {muid[r]}
    PROVE  Channel!Next
<1>0. TypeOK /\ Progress /\ Known
  BY DEF HandlerInv
<1>1. PICK x \in Request : x = muid[r]
  BY <1>0 DEF ForwardSend, Progress, PostState, TypeOK
<1>2. UNCHANGED mqVars /\ Forwarded' = Forwarded \cup {x}
  BY <1>1 DEF ForwardSend
<1>3. /\ Waiting' = Waiting /\ (mq_locked \cap mq_messages)' = mq_locked \cap mq_messages
      /\ \A z \in Request : Ahead(z)' = Ahead(z)
  BY <1>2 DEF mqVars, Waiting, Ahead
<1>4. x \in mq_messages
  BY <1>0, <1>1, ChannelAssumption DEF Known, Emplaced, NoConnectionLeak
<1>5. x \in Waiting \cup (mq_locked \cap mq_messages)
  BY <1>4 DEF Pending, Waiting
<1>6. Channel!Answer(x)
  BY <1>2, <1>3, <1>5 DEF Channel!Answer
<1> QED BY <1>6 DEF Channel!Next

\* A POST that erases a message of a polite client has sent to this client before.
LEMMA EraseAfterForward ==
    ASSUME HandlerInv, PoliteInv, OneReply, NEW r \in Request, PostErase(r)
    PROVE  muid[r] \in Forwarded
<1>1. method[r] = "Post" /\ muid[r] \in Request
  BY DEF HandlerInv, PostErase, Progress, PostState, TypeOK
<1>2. PICK e \in Elements(inbox[muid[r]]) : e.uid = r
  BY DEF PostErase, PoliteInv, AnsweredBy
<1>3. e.for = muid[r]
  BY <1>1 DEF PoliteInv, ReplyToItsClient
<1> QED BY <1>1, <1>2, <1>3 DEF Forwarded

\* A POST that erases a message ends what it has answered; only impolite clients
\* can make it lose one.
LEMMA EraseIsAnswer ==
    ASSUME HandlerInv, PoliteInv, Pending, [Next]_vars, NEW r \in Request, PostErase(r)
    PROVE  [ChannelStep]_Channel!vars
<1>0. TypeOK /\ Progress
  BY DEF HandlerInv
<1>1. PICK x \in Request : x = muid[r]
  BY <1>0 DEF PostErase, Progress, PostState, TypeOK
<1>2. /\ mq_queue' = mq_queue /\ mq_messages' = mq_messages \ {x}
      /\ mq_locked' = mq_locked \ {x}
  BY <1>1 DEF PostErase
<1>3. OneReply => x \in Forwarded
  BY <1>1, EraseAfterForward
<1>4. Forwarded' = Forwarded
  <2>1. ASSUME NEW q \in Request, ForwardSend(q) PROVE FALSE
    BY <1>0, <2>1 DEF PostErase, Answer, ForwardSend, TypeOK
  <2> QED BY <2>1, ForwardedSteps
<1>5. CASE x \in mq_messages
  <2>1. x \in Waiting \cup (mq_locked \cap mq_messages)
    BY <1>5 DEF Pending, Waiting
  <2>2. Waiting' = Waiting \ {x}
    BY <1>2 DEF Waiting
  <2>3. Channel!Forget(x)
    BY <1>2, <2>2, ForgetStep
  <2>4. (mq_locked \cap mq_messages)' = (mq_locked \cap mq_messages) \ {x}
    BY <1>2
  <2>5. CASE x \in Forwarded
    <3>1. Forwarded' = Forwarded \cup {x}
      BY <1>4, <2>5
    <3>2. Channel!Answer(x)
      BY <2>1, <2>3, <2>4, <3>1 DEF Channel!Answer
    <3> QED BY <3>2 DEF ChannelStep, Channel!Next
  <2>6. CASE x \notin Forwarded
    <3>1. Channel!Lose(x)
      BY <1>4, <2>1, <2>3, <2>4 DEF Channel!Lose
    <3> QED BY <1>3, <2>6, <3>1 DEF ChannelStep
  <2> QED BY <2>5, <2>6
<1>6. CASE x \notin mq_messages
  <2>1. mq_messages' = mq_messages /\ (mq_locked \cap mq_messages)' = mq_locked \cap mq_messages
    BY <1>2, <1>6
  <2>2. Waiting' = Waiting /\ \A z \in Request : Ahead(z)' = Ahead(z)
    BY <1>2, <2>1 DEF Waiting, Ahead
  <2> QED BY <1>4, <2>1, <2>2 DEF Channel!vars
<1> QED BY <1>5, <1>6

\* Every step of a handler is a step of MessageChannel or leaves it alone.
LEMMA StepImplementsChannel ==
    HandlerInv /\ ConnectionInv /\ PoliteInv /\ Pending /\ [Next]_vars => [ChannelStep]_Channel!vars
<1> SUFFICES ASSUME HandlerInv, ConnectionInv, PoliteInv, Pending, [Next]_vars
             PROVE  [ChannelStep]_Channel!vars
  OBVIOUS
<1>1. ASSUME NEW r \in Request, PutEmplace(r) PROVE [ChannelStep]_Channel!vars
  BY <1>1, EmplaceIsOffer DEF Channel!Next, ChannelStep
<1>2. ASSUME NEW r \in Request, GetFront(r) PROVE [ChannelStep]_Channel!vars
  BY <1>2, GetIsTake DEF ChannelStep
<1>3. ASSUME NEW r \in Request, PostErase(r) PROVE [ChannelStep]_Channel!vars
  BY <1>3, EraseIsAnswer
<1>4. ASSUME NEW r \in Request, ForwardSend(r), \E f \in Fd : owner[f] = muid[r],
             Forwarded' = Forwarded \cup {muid[r]}
      PROVE  [ChannelStep]_Channel!vars
  BY <1>4, ForwardIsAnswer DEF ConnectionInv, ChannelStep
<1>5. CASE UNCHANGED mqVars /\ Forwarded' = Forwarded
  <2>1. /\ Waiting' = Waiting /\ (mq_locked \cap mq_messages)' = mq_locked \cap mq_messages
        /\ \A z \in Request : Ahead(z)' = Ahead(z)
    BY <1>5 DEF mqVars, Waiting, Ahead
  <2> QED BY <1>5, <2>1 DEF Channel!vars
<1> QED BY <1>1, <1>2, <1>3, <1>4, <1>5, MqSteps, ForwardedSteps

\* The empty channel is an initial state of MessageChannel.
LEMMA InitImplementsChannel == Init => Channel!Init /\ Pending
<1> SUFFICES ASSUME Init PROVE Channel!Init /\ Pending
  OBVIOUS
<1>1. Waiting = {} /\ \A r \in Request : Ahead(r) = {}
  BY DEF Init, Waiting, Ahead
<1>2. Forwarded = {}
  BY DEF Init, Forwarded, Elements
<1>3. Pending
  BY DEF Init, Pending
<1> QED BY <1>1, <1>2, <1>3 DEF Init, Channel!Init

\* The SyncQueue channel implements MessageChannel.  Whatever clients POST, each
\* accepted message is handed out at most once, oldest first; if clients answer a
\* message once, it is kept until its own client has been sent the answer.
THEOREM QueueImplementsChannel == Spec => ImplementsChannel
<1>1. Spec => []Pending
  BY InitImplementsChannel, NextPending, SpecHandlerInv, PTL DEF Spec
<1> QED BY <1>1, SpecHandlerInv, SpecConnectionInv, SpecPoliteInv, InitImplementsChannel,
           StepImplementsChannel, PTL
        DEF Spec, ImplementsChannel
=============================================================================
