------------------------------ MODULE SyncQueue -----------------------------
(***************************************************************************)
(* A channel of class SyncQueue (src/mq/mq-sync/src/sync-queue.{h,cpp})     *)
(* with the path a request takes to it and back: RouterImpl::Process,       *)
(* RequestImpl::Process and Reply, HttpImpl::Reply, http_close_connection.  *)
(*                                                                          *)
(* A PUT leaves its request, connection open, in the queue; a GET takes the *)
(* oldest one; a POST that names it is forwarded to the PUT's connection,   *)
(* which is then closed.  Every request is handled by a thread of its own.  *)
(* A block that holds mq_sync is one step; every use of a connection is a   *)
(* step of its own, because a connection is used without any lock.          *)
(*                                                                          *)
(* A request, its message id and its connection have one name: getMsgId is  *)
(* unique and a connection carries one request.  Fd is what the system      *)
(* gives to a connection; it may give it to another one once it is closed.  *)
(***************************************************************************)
EXTENDS Naturals, Sequences, FiniteSets, Queues

CONSTANTS Request,    \* the requests clients may send, each on its own connection
          Fd,         \* the file descriptors sockets can have
          Method,     \* the HTTP methods they use
          MaxOf,      \* bound, for each manner: how many of them are of each method
          LimitSize,  \* mq_options.LimitSize; 0: no limit
          Manners,    \* the values OneReply may have
          NoRequest, NoFd  \* no message id; Handle = 0

\* Other: a method the channel answers at once (OPTIONS, 405), an endpoint with
\* no route (404) or a request that cannot be read or parsed (4xx).
ASSUME ChannelAssumption ==
    /\ Method \subseteq {"Get", "Post", "Put", "Head", "Other"}
    /\ MaxOf \in [BOOLEAN -> [Method -> Nat]]
    /\ LimitSize \in Nat
    /\ Manners \subseteq BOOLEAN
    /\ NoRequest \notin Request
    /\ NoFd \notin Fd

VARIABLES
    OneReply,     \* clients POST a uid only if a GET gave it to them, once
    mq_queue,     \* message ids, oldest first
    mq_locked,    \* message ids a GET has taken
    mq_messages,  \* message ids whose request the channel keeps
    handler,      \* where the thread that handles each request is
    method,       \* its HTTP method
    muid,         \* the message id its handler works on
    code,         \* the status its handler is about to answer with
    Handle,       \* HttpImpl::Handle of each connection
    owner,        \* the connection each file descriptor belongs to
    inbox         \* what the client of each connection has been sent

mqVars == <<mq_queue, mq_locked, mq_messages>>
netVars == <<Handle, owner, inbox>>
vars == <<OneReply, mqVars, handler, method, muid, code, netVars>>

\* 400 stands for every 4xx status (400, 404, 405, 408, 431) and for the 200 of
\* OPTIONS, which tells no uid either.
Code == {200, 204, 300, 400, 503, 507}
NoCode == 0
HandlerState == {"none",        \* not connected yet
                 "dispatch",    \* RequestImpl::Process is about to call the channel
                 "forward",     \* Post has found the client and is about to send to it
                 "sent",        \* ... has sent, the connection still to be closed
                 "unsent",      \* ... could not send
                 "closed",      \* ... has closed the descriptor, Handle not yet 0
                 "unsentClosed",
                 "erase",       \* ... has answered the client, still to erase it
                 "reply",       \* about to send the request's own answer
                 "close",       \* about to close the request's own connection
                 "done"}
Reply == [for : Request, code : Code, uid : Request \cup {NoRequest}]

Init ==
    /\ OneReply \in Manners
    /\ mq_queue = <<>>
    /\ mq_locked = {}
    /\ mq_messages = {}
    /\ handler = [r \in Request |-> "none"]
    /\ method = [r \in Request |-> "Other"]
    /\ muid = [r \in Request |-> NoRequest]
    /\ code = [r \in Request |-> NoCode]
    /\ Handle = [r \in Request |-> NoFd]
    /\ owner = [f \in Fd |-> NoRequest]
    /\ inbox = [r \in Request |-> <<>>]

-----------------------------------------------------------------------------
(* Clients.                                                                 *)

\* The uids that GETs have told to clients.
Learned ==
    {x \in Request : \E c \in Request : \E e \in Elements(inbox[c]) :
                        e.uid = x /\ method[e.for] = "Get"}

\* The uid a POST may carry; NoRequest: the header is missing or not a number.
\* Without OneReply it is any number, of a message nobody has taken, of one that
\* was answered or never existed.
PostUid ==
    {NoRequest} \cup
    IF OneReply
    THEN Learned \ {muid[q] : q \in {q \in Request : method[q] = "Post"}}
    ELSE Request

\* Server::Listen accepts a connection, its client has sent a request, the pool
\* runs RouterImpl::Process for it, which reads, parses and routes it.  The uid of
\* a POST is chosen in PostFind: nobody looks at it before.
Accept(r, m, f) ==
    /\ handler[r] = "none"
    /\ owner[f] = NoRequest
    /\ Cardinality({q \in Request : handler[q] # "none" /\ method[q] = m}) < MaxOf[OneReply][m]
    /\ Handle' = [Handle EXCEPT ![r] = f]
    /\ owner' = [owner EXCEPT ![f] = r]
    /\ method' = [method EXCEPT ![r] = m]
    /\ handler' = [handler EXCEPT ![r] = "dispatch"]
    /\ UNCHANGED <<mqVars, muid, code, inbox>>

-----------------------------------------------------------------------------
(* The handlers.                                                            *)

\* The handler of r goes on to answer r itself with status c.
Answer(r, c) ==
    /\ code' = [code EXCEPT ![r] = c]
    /\ handler' = [handler EXCEPT ![r] = "reply"]

\* Get, the queue is empty.
GetEmpty(r) ==
    /\ handler[r] = "dispatch"
    /\ method[r] = "Get"
    /\ mq_queue = <<>>
    /\ Answer(r, 204)
    /\ UNCHANGED <<mqVars, method, muid, netVars>>

\* Bug: the front of the queue is read and not popped.
GetFront_NoPop(r) ==
    /\ handler[r] = "dispatch"
    /\ method[r] = "Get"
    /\ mq_queue # <<>>
    /\ mq_locked' = mq_locked \cup {Head(mq_queue)}
    /\ muid' = [muid EXCEPT ![r] = Head(mq_queue)]
    /\ Answer(r, IF Head(mq_queue) \in mq_messages THEN 200 ELSE 503)
    /\ UNCHANGED <<mq_queue, mq_messages, method, netVars>>

\* Bug: the newest message is taken.
GetFront_Newest(r) ==
    /\ handler[r] = "dispatch"
    /\ method[r] = "Get"
    /\ mq_queue # <<>>
    /\ mq_queue' = SubSeq(mq_queue, 1, Len(mq_queue) - 1)
    /\ mq_locked' = mq_locked \cup {mq_queue[Len(mq_queue)]}
    /\ muid' = [muid EXCEPT ![r] = mq_queue[Len(mq_queue)]]
    /\ Answer(r, IF mq_queue[Len(mq_queue)] \in mq_messages THEN 200 ELSE 503)
    /\ UNCHANGED <<mq_messages, method, netVars>>

\* Get: pop, lock, look up.  When the message is gone, at() throws (the router
\* answers 503) after the uid has been locked.
GetFront(r) ==
    /\ handler[r] = "dispatch"
    /\ method[r] = "Get"
    /\ mq_queue # <<>>
    /\ mq_queue' = Tail(mq_queue)
    /\ mq_locked' = mq_locked \cup {Head(mq_queue)}
    /\ muid' = [muid EXCEPT ![r] = Head(mq_queue)]
    /\ Answer(r, IF Head(mq_queue) \in mq_messages THEN 200 ELSE 503)
    /\ UNCHANGED <<mq_messages, method, netVars>>

\* Bug: HEAD answers without having chosen a status.
HeadFront_NoCode(r) ==
    /\ handler[r] = "dispatch"
    /\ method[r] = "Head"
    /\ muid' = [muid EXCEPT ![r] = IF mq_queue = <<>> THEN NoRequest ELSE Head(mq_queue)]
    /\ handler' = [handler EXCEPT ![r] = "reply"]
    /\ UNCHANGED <<mqVars, method, code, netVars>>

HeadFront(r) ==
    /\ handler[r] = "dispatch"
    /\ method[r] = "Head"
    /\ muid' = [muid EXCEPT ![r] = IF mq_queue = <<>> THEN NoRequest ELSE Head(mq_queue)]
    /\ Answer(r, IF mq_queue = <<>> THEN 204 ELSE 200)
    /\ UNCHANGED <<mqVars, method, netVars>>

\* Bug: a request that stays in the channel is acknowledged as well.
PutEmplace_Answered(r) ==
    /\ handler[r] = "dispatch"
    /\ method[r] = "Put"
    /\ LimitSize = 0 \/ Len(mq_queue) < LimitSize
    /\ mq_queue' = Append(mq_queue, r)
    /\ mq_messages' = mq_messages \cup {r}
    /\ Answer(r, 200)
    /\ UNCHANGED <<mq_locked, method, muid, netVars>>

\* Put: the request stays in the channel and gets no answer yet.
PutEmplace(r) ==
    /\ handler[r] = "dispatch"
    /\ method[r] = "Put"
    /\ LimitSize = 0 \/ Len(mq_queue) < LimitSize
    /\ mq_queue' = Append(mq_queue, r)
    /\ mq_messages' = mq_messages \cup {r}
    /\ handler' = [handler EXCEPT ![r] = "done"]
    /\ UNCHANGED <<mq_locked, method, muid, code, netVars>>

PutRefused(r) ==
    /\ handler[r] = "dispatch"
    /\ method[r] = "Put"
    /\ LimitSize # 0 /\ Len(mq_queue) >= LimitSize
    /\ Answer(r, 507)
    /\ UNCHANGED <<mqVars, method, muid, netVars>>

OtherMethod(r) ==
    /\ handler[r] = "dispatch"
    /\ method[r] = "Other"
    /\ Answer(r, 400)
    /\ UNCHANGED <<mqVars, method, muid, netVars>>

\* Post: look the client up under the lock, forward to it without the lock.
PostFind(r) ==
    /\ handler[r] = "dispatch"
    /\ method[r] = "Post"
    /\ \E x \in PostUid :
          \/ /\ x = NoRequest
             /\ Answer(r, 400)
             /\ UNCHANGED muid
          \/ /\ x \in Request \ mq_messages
             /\ Answer(r, 300)
             /\ UNCHANGED muid
          \/ /\ x \in mq_messages
             /\ muid' = [muid EXCEPT ![r] = x]
             /\ handler' = [handler EXCEPT ![r] = "forward"]
             /\ UNCHANGED code
    /\ UNCHANGED <<mqVars, method, netVars>>

\* Bytes written to descriptor f reach the connection that owns it now.
Send(f, reply) ==
    /\ f # NoFd
    /\ owner[f] # NoRequest
    /\ inbox' = [inbox EXCEPT ![owner[f]] = Append(@, reply)]

\* Descriptor f is closed, whoever owns it now.
CloseFd(f) == owner' = [g \in Fd |-> IF g = f THEN NoRequest ELSE owner[g]]

\* Post: the answer goes to the PUT's connection.
ForwardSend(r) ==
    /\ handler[r] = "forward"
    /\ Send(Handle[muid[r]], [for |-> muid[r], code |-> 200, uid |-> r])
    /\ handler' = [handler EXCEPT ![r] = "sent"]
    /\ UNCHANGED <<mqVars, method, muid, code, Handle, owner>>

\* Bug: the result of send() is not looked at.
ForwardFail_Ignored(r) ==
    /\ handler[r] = "forward"
    /\ handler' = [handler EXCEPT ![r] = "sent"]
    /\ UNCHANGED <<mqVars, method, muid, code, netVars>>

\* send() fails: the client is gone, or the connection is closed already.
ForwardFail(r) ==
    /\ handler[r] = "forward"
    /\ handler' = [handler EXCEPT ![r] = "unsent"]
    /\ UNCHANGED <<mqVars, method, muid, code, netVars>>

\* Bug: the client's connection is left open after the answer.
ForwardClose_KeepOpen(r) ==
    /\ handler[r] \in {"sent", "unsent"}
    /\ handler' = [handler EXCEPT ![r] = IF @ = "sent" THEN "closed" ELSE "unsentClosed"]
    /\ UNCHANGED <<mqVars, method, muid, code, netVars>>

\* Bug: the POST's own descriptor is closed in place of the client's.
ForwardClose_Own(r) ==
    /\ handler[r] \in {"sent", "unsent"}
    /\ CloseFd(Handle[r])
    /\ handler' = [handler EXCEPT ![r] = IF @ = "sent" THEN "closed" ELSE "unsentClosed"]
    /\ UNCHANGED <<mqVars, method, muid, code, Handle, inbox>>

\* http_close_connection: close the descriptor ...
ForwardClose(r) ==
    /\ handler[r] \in {"sent", "unsent"}
    /\ CloseFd(Handle[muid[r]])
    /\ handler' = [handler EXCEPT ![r] = IF @ = "sent" THEN "closed" ELSE "unsentClosed"]
    /\ UNCHANGED <<mqVars, method, muid, code, Handle, inbox>>

\* ... and forget it.  After a failed send the exception passes Post's handler
\* (RuntimeException is not publicly a std::exception): the router answers 503.
ForwardZero(r) ==
    /\ handler[r] \in {"closed", "unsentClosed"}
    /\ Handle' = [Handle EXCEPT ![muid[r]] = NoFd]
    /\ \/ /\ handler[r] = "closed"
          /\ handler' = [handler EXCEPT ![r] = "erase"]
          /\ UNCHANGED code
       \/ /\ handler[r] = "unsentClosed"
          /\ Answer(r, 503)
    /\ UNCHANGED <<mqVars, method, muid, owner, inbox>>

\* Bug: the lock entry is not erased.
PostErase_KeepLock(r) ==
    /\ handler[r] = "erase"
    /\ mq_messages' = mq_messages \ {muid[r]}
    /\ Answer(r, 200)
    /\ UNCHANGED <<mq_queue, mq_locked, method, muid, netVars>>

PostErase(r) ==
    /\ handler[r] = "erase"
    /\ mq_messages' = mq_messages \ {muid[r]}
    /\ mq_locked' = mq_locked \ {muid[r]}
    /\ Answer(r, 200)
    /\ UNCHANGED <<mq_queue, method, muid, netVars>>

\* The request's own answer.  Only GET and HEAD tell a uid.  When send() fails,
\* the router's 503 fails as well, on the closed connection.
ReplySend(r) ==
    /\ handler[r] = "reply"
    /\ \/ Send(Handle[r], [for |-> r, code |-> code[r],
                           uid |-> IF code[r] = 200 /\ method[r] \in {"Get", "Head"}
                                   THEN muid[r] ELSE NoRequest])
       \/ UNCHANGED inbox
    /\ handler' = [handler EXCEPT ![r] = "close"]
    /\ UNCHANGED <<mqVars, method, muid, code, Handle, owner>>

ReplyClose(r) ==
    /\ handler[r] = "close"
    /\ CloseFd(Handle[r])
    /\ Handle' = [Handle EXCEPT ![r] = NoFd]
    /\ handler' = [handler EXCEPT ![r] = "done"]
    /\ UNCHANGED <<mqVars, method, muid, code, inbox>>

-----------------------------------------------------------------------------

Handler(r) ==
    \/ GetEmpty(r) \/ GetFront(r) \/ HeadFront(r)
    \/ PutEmplace(r) \/ PutRefused(r) \/ OtherMethod(r)
    \/ PostFind(r) \/ ForwardSend(r) \/ ForwardFail(r) \/ ForwardClose(r)
    \/ ForwardZero(r) \/ PostErase(r)
    \/ ReplySend(r) \/ ReplyClose(r)

\* Every handler has returned: the channel waits for clients.
Quiet == (\A r \in Request : handler[r] \in {"none", "done"}) /\ UNCHANGED vars

Next ==
    \/ /\ \/ \E r \in Request, m \in Method, f \in Fd : Accept(r, m, f)
          \/ \E r \in Request : Handler(r)
       /\ UNCHANGED OneReply
    \/ Quiet

Spec == Init /\ [][Next]_vars

-----------------------------------------------------------------------------
(* Properties.                                                              *)

\* Every variable has the shape the code gives it, and a handler that is about
\* to answer has chosen a status.
TypeOK ==
    /\ mq_queue \in Seq(Request)
    /\ mq_locked \subseteq Request
    /\ mq_messages \subseteq Request
    /\ handler \in [Request -> HandlerState]
    /\ method \in [Request -> Method \cup {"Other"}]
    /\ muid \in [Request -> Request \cup {NoRequest}]
    /\ code \in [Request -> Code \cup {NoCode}]
    /\ Handle \in [Request -> Fd \cup {NoFd}]
    /\ owner \in [Fd -> Request \cup {NoRequest}]
    /\ inbox \in [Request -> Seq(Reply)]
    /\ \A r \in Request : handler[r] = "reply" => code[r] # NoCode

\* No message is handed out twice: two GETs never get the same message, and one
\* that a GET has taken is not in the queue any more.
DeliveredOnce ==
    \A g \in Request : method[g] = "Get" /\ muid[g] # NoRequest =>
        /\ muid[g] \notin Elements(mq_queue)
        /\ \A h \in Request : method[h] = "Get" /\ muid[h] = muid[g] => h = g

\* No connection leaks: a descriptor in use is the Handle of its connection, and
\* a connection outlives its handler only while the channel keeps its request.
NoConnectionLeak ==
    \A f \in Fd : owner[f] # NoRequest =>
        /\ Handle[owner[f]] = f
        /\ handler[owner[f]] = "done" => owner[f] \in mq_messages

\* With clients that answer each message they got once, the three containers
\* agree: a kept request is either queued or locked, and nothing else is.
Partition ==
    OneReply =>
        /\ mq_messages = Elements(mq_queue) \cup mq_locked
        /\ Elements(mq_queue) \cap mq_locked = {}

\* With such clients, what is sent on a connection is the answer to the request
\* that came on it, although its descriptor may have been given to a new one.
ReplyToItsClient ==
    OneReply => \A c \in Request : \A e \in Elements(inbox[c]) : e.for = c

\* A request is answered at most once: a second POST for it is ignored.
OneReplyPerClient == \A c \in Request : Len(inbox[c]) <= 1

\* With clients that answer each message once, a request is answered at most
\* once, by the channel, a POST or an error handler.
PoliteOneReply == OneReply => OneReplyPerClient

\* With such clients, a 200 to a POST means that its content was sent to the
\* client of the PUT.
AckMeansForwarded ==
    OneReply => \A q \in Request : method[q] = "Post" /\ code[q] = 200 =>
        \E e \in Elements(inbox[muid[q]]) : e.uid = q

\* A POST that found its client settles it, answered or not, whatever other POSTs
\* do at the same time: the client has no descriptor open any more, and the one it
\* had is forgotten, so that nobody uses it when the system gives it to another.
PostSettlesClient ==
    \A q \in Request : method[q] = "Post" /\ code[q] \in {200, 503} =>
        /\ \A f \in Fd : owner[f] # muid[q]
        /\ Handle[muid[q]] = NoFd

\* The messages whose own client has been sent the content of a POST for them.
Forwarded ==
    {x \in Request : \E e \in Elements(inbox[x]) :
        e.for = x /\ e.uid \in {q \in Request : method[q] = "Post"}}

\* The queued requests; one that a POST has erased stays in the queue until a GET
\* pops it and no longer counts.
Waiting == Elements(mq_queue) \cap mq_messages

\* Those of them that came before r, if r waits.
Ahead(r) == {x \in Waiting : r \in Waiting /\ Precedes(mq_queue, x, r)}

Channel == INSTANCE MessageChannel WITH
    Message <- Request,
    waiting <- Waiting,
    older <- [r \in Request |-> Ahead(r)],
    taken <- mq_locked \cap mq_messages,
    answered <- Forwarded

\* A step of the channel; with clients that do not keep to their one answer, a POST
\* may have sent to a connection that was given the client's descriptor, and
\* erases the message all the same.
ChannelStep == Channel!Next \/ (~OneReply /\ \E r \in Request : Channel!Lose(r))

\* Whatever clients do, the channel hands each message out at most once, oldest
\* first; with clients that answer each message once it also keeps a message until
\* its own client has been sent an answer (Get's pop and lock against the two
\* critical sections of Post).
ImplementsChannel == Channel!Init /\ [][ChannelStep]_Channel!vars
=============================================================================
