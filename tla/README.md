# NavekFiber in TLA+

TLA+ models of the NavekFiber message bus: its configuration and start, the router,
the thread pool, the main loop of the server, the reading of a request, and the two
kinds of synchronous channel. TLC checks the models on small instances. TLAPS proves
their safety for every instance: every invariant of the thread pool, of both channels,
of the server, of the reading of a request, of the start and of the router, whatever
the number of threads, requests, descriptors and connections and whatever the
configuration file says, and that the pool and the channels implement their abstract
specifications. What is not proved is liveness.

NavekFiber (`src/README.md`) is a message bus in C++ for Linux. Clients talk
HTTP: a PUT to an endpoint leaves a message in the endpoint's channel, and the
PUT's connection stays open until somebody answers. In a `SyncQueue` channel the
answer comes from another client, which takes the message with a GET and answers
it with a POST that names its id. In a `SyncSAPI` channel it comes from a thread
of the channel itself.

## 1. Inventory

### Components

| Component | Source | State | Operations | Module |
|---|---|---|---|---|
| ThreadPool | `kernel/mt/threadpool.{h,cpp}` | queue of tasks, map of threads, busy counter, stop flag | Enqueue, CheckResize, Hire, GetState, Join, the worker loop | `ThreadPool`, `TaskPool` |
| Server and main loop | `kernel/net/server.cpp`, `kernel/main/run.cpp` | listening sockets, message counter, last signal | Listen, the loop of Run, signal handler, shutdown | `Server` |
| HTTP request reading and parsing | `kernel/net/impl/httpimpl.cpp`, `bufferimpl.h` | read buffer, parsed request | Process, Read, http_parse_request | `HttpRead` |
| HTTP connection | `kernel/net/impl/httpimpl.cpp`, `socketimpl.h` | the descriptor `Handle` | Reply, http_close_connection | in `SyncQueue`, Process in `HttpRead` |
| Router and request adapter | `kernel/main/impl/routerimpl.*`, `requestimpl.*` | table of routes | AddRoute, Process, Reply | `Router`; dispatch and exceptions in `SyncQueue` |
| SyncQueue channel | `mq/mq-sync/src/sync-queue.*` | queue of ids, locked ids, kept requests | Get, Post, Put, Head, Options | `SyncQueue`, `MessageChannel` |
| SyncSAPI channel | `mq/mq-sync/src/sync-sapi.*` | queue of ids, kept requests, number of threads | Put, ExecuteThread, Finalize | `SyncSAPI`, `MessageChannel` |
| Configuration | `kernel/main/config.cpp`, `impl/cfgimpl.h` | sections and options | initConfig, GetSections, GetConfigValue | `Config` |
| Startup | `kernel/main/run.cpp`, `init-*.hpp` | loaded modules, channels, listeners | initCmdLine, initMQ, initSAPI, initChannels, initRoutes, initServer, initThreadPool | `Startup` |
| Kernel services | `kernel/main/kernel.cpp` | none | CreateMQ, CreateSAPI, Write, Read | not modelled |
| Component library `lib/dom` | a git submodule, absent | reference counts | QueryInterface, factory | external, taken to work |
| WebSocket, FiberGATE, FiberSAPI | `wsimpl.h`, `gate/gate.cpp`, `sapi/` | none | empty | not modelled |
| Utilities | `ci/**` | none | conversions, JSON output, command line | explode, expand, get_bytes and the command line in `Startup` |

### How they interact

The main thread reads the configuration, loads the modules it names, creates the
channels, gives the router an endpoint for each, opens the listeners and starts the
pool; then it polls the listening sockets. Each connection it accepts becomes
one task of the thread pool. The task runs `RouterImpl::Process`, which reads and
parses the request, finds the channel of its endpoint and calls the method of the
channel that corresponds to the HTTP method, all in the worker's thread.
Therefore the methods of one channel run concurrently, and they share its
containers under `mq_sync`. Connections are shared too: a channel keeps the
request of a PUT, and with it the connection, and another worker (`SyncQueue`) or
a detached thread (`SyncSAPI`) later sends on it and closes it without any lock.
On a stop signal the main thread destroys the server, joins the pool and destroys
the router with its channels, in this order.

### What is hard, and what makes each part correct

Hazards are listed one by one, with source lines and the properties that cover
them, in `PROJECT.json`. In summary:

* **ThreadPool.** Work is split between locked and unlocked sections: the sizes
  CheckResize uses are stale, notifications are sent without the lock, extended
  workers leave on a timeout that can race an Enqueue, and Join walks over the
  map of threads without the lock. Correct means: limits kept, no thread lost
  from or left in the map, no lost wake-up, no wrap-around, nothing runs after
  Join, and tasks run in order, each once.
* **SyncQueue.** POST finds its client in one critical section, sends without a
  lock, and erases in a second one; descriptors are reused by the system as soon
  as they are closed. Correct means: no message lost or handed out twice, answers
  reach the client they are for and no other, a message disappears only when it
  was answered, no connection stays open with nobody to close it.
* **SyncSAPI.** The thread tests the queue, and decrements the counter of
  threads, outside the lock. Correct means: the counter is exact, a request is in
  one place, and each is answered.
* **Server.** A blocking `accept()` in the loop that must also see signals; a
  clock in the message id; the order of destruction. Correct means: the loop does
  not block, connections are served, ids are unique, a stop signal stops the
  program, and the router outlives its users.
* **HTTP reading.** TCP cuts a request anywhere, and the reader stops when no
  more bytes happen to be there. Correct means: what is read is a prefix of what
  was sent, a complete request is parsed, and reading ends.
* **Configuration and start.** A hand-written reader with a stack of sections,
  three copies of the code that closes them, comments and continued lines; then
  seven steps, each of which skips what is wrong, ends in order, or ends the
  program in a way nobody planned. Correct means: the map holds what the file
  says, and a server that starts is complete and has the ports, limits and numbers
  of workers of its file.
* **Router.** A hash table whose equality is not an equivalence. Correct means: a
  request is given only to an endpoint that matches it, and is not refused while
  one does.

## 2. Modules

| Module | Role |
|---|---|
| `TaskPool` | abstract specification: a FIFO executor with a limit that can be closed |
| `ThreadPool` | the pool, step by step; states that it implements `TaskPool` |
| `Server` | the main thread, composed with the pool as `TaskPool` describes it |
| `HttpRead` | reading and parsing one request |
| `Config` | the reader of the configuration and its look-ups; what a file means |
| `Router` | the table of endpoints, its hash and comparison; what an endpoint matches |
| `Startup` | `Kernel::Run` up to its main loop, composed of `Config` and `Router` |
| `MessageChannel` | abstract specification: what a channel promises |
| `SyncQueue` | one channel, the handlers of its requests, and their connections; implements `MessageChannel` |
| `SyncSAPI` | one channel and its threads; implements `MessageChannel` |
| `Queues` | what the specifications say of a `std::queue` |
| `QueueFacts` | lemmas: how emplace and pop change a queue |
| `ThreadPoolProofs` | theorems: types, map, limits, Join, wake-ups; `ThreadPool` implements `TaskPool` |
| `SyncQueueProofs` | theorems: containers, descriptors, answers; `SyncQueue` implements `MessageChannel` |
| `SyncSAPIProofs` | theorems: the counter of threads; `SyncSAPI` implements `MessageChannel` |
| `ServerProofs` | theorems: shutdown, accept, message ids |
| `HttpReadProofs` | theorems: what is read, and what is accepted |
| `RouterProofs` | lemmas: what the hash and the comparison of the router compute |
| `StartupProofs` | theorems: the map, its meaning, what a server that has started is like, where requests go |
| `MC...` | what the configurations of a module need (symmetry, sets of inputs) |

Names are those of the code where TLA+ allows it (`PoolYet`, `mq_locked`,
`muid`). An operator `X_Why` with a comment that begins with "Bug:" is not part
of a model: it is a variant of the `X` below it, with the mistake its comment
names, and `PROJECT.json` says which property must fail when it takes the place
of `X`.

The granularity is the same in all modules. What the code does with its mutex
held is one step; every access to shared state without it (an atomic, a
notification, a use of a connection, a system call) is a step of its own. So each
order the locking permits is a behaviour of the model.

### ThreadPool

`PoolWorkers` is the set of keys of the map of `std::thread` objects, and
`thread[w]` is where the thread with id `w` is; the two differ when a thread has
gone and its object has not. `main` is the program counter of the one thread that
calls the pool. `numWorkers` and `numTasks` are the copies it takes under the lock
and uses later.

| Action | Code |
|---|---|
| `EnqueueLocked`, `CheckResize`, `Hire`, `NotifyOne` | Enqueue: emplace and copy the sizes under the lock; compute; hire; `notify_one` |
| `GetStateLocked`, `GetStateBusy` | GetState |
| `JoinStop`, `NotifyAll`, `JoinWait` | Join: `PoolYet = false`; `notify_all`; `join()` on each thread |
| `Terminate`, `TakeTask`, `Wait`, `Linger`, `Leave` | the worker, with the lock: stop; pop; go to sleep; stay after a timeout (persistent); detach and erase (extended) |
| `Timeout`, `Spurious` | `wait_for` ends after 10 s or for no reason |
| `BusyUp`, `Return`, `BusyDown` | the worker, without the lock |

Unsigned subtraction is modulo `SizeMod`. `NDEBUG` selects whether `Leave` erases
the thread object, because the code does that inside a trace macro. Only the
thread that runs `Kernel::Run` enqueues and joins, so `main` is a single thread.
The constructor, with its CPU binding, is in `Startup`; thread names are left out.
A task is wrapped in a `packaged_task`, so an exception that leaves a handler ends
that task and nothing else.

### SyncQueue

A request, its message id and its connection have one name, since an id is unique
(`Server`, `MsgIdUnique`) and a connection carries one request. `Handle[r]` is the
descriptor the code believes connection `r` has, `owner[f]` the connection the
system gave descriptor `f` to. Sending on a descriptor reaches its owner, so an
answer on a stale descriptor ends up with the wrong client in the model as it
would in the program. `ForwardClose` and `ForwardZero` are the two halves of
`http_close_connection`, because another thread can run in between. `OneReply`,
chosen at the start, says what kind of clients there are: ones that POST an id only
when a GET gave it to them, once, or ones that POST any number, as the code lets
them: one that HEAD told, one that was answered before, a guess. Some properties hold
for the first kind only, and say so. The id of a POST is chosen in `PostFind`, where
the code first looks at it.

The model has what the exceptions do: a failed forward passes Post's
`catch (std::exception&)`, since `RuntimeException` is not publicly derived from
it, so the 499 branch is dead and the router answers 503. `Serialize` and
`UnSerialize` change nothing, because `Kernel::Write` logs and `Kernel::Read`
returns false. A send that is partial counts as one that failed (the code treats
it so). The statistics headers, whose `c_str()` pointers dangle, are left out.
`SIGPIPE` is taken to be ignored or not delivered: a failed send is an error.

### MessageChannel

The two channels keep their messages in different containers; what they promise is
the same, and `MessageChannel` says it once: a message waits in the order of
arrival, is taken once, and leaves the channel only when its client has been sent
an answer. `SyncQueue` implements it with the ids that are queued and still kept as
`waiting`, the ones locked and kept as `taken`, and the ones whose own client has the
content of a POST in its inbox as `answered`. Clients that repeat answers can make it
lose a message: the first POST fails and closes the client's descriptor, the system
gives it to a new connection, the second POST sends to that one and erases the
message. `Lose`, which is no step of `MessageChannel`'s `Next`, is allowed for those
clients and for nobody else (`ChannelStep`). `SyncSAPI` implements it with its queue, the
messages its threads hold, and the ones they have answered.

### SyncSAPI

`thread[t]` is where a detached `ExecuteThread` is. The unlocked
`mq_queue.empty()` races with writers that hold the lock; with `RacyEmpty` it may
give either answer. `AsInt32` is the cast of the limit. `SendFail` ends the
program, because the 503 sent from `catch (...)` throws again. 521 is not
modelled: `mq_working` is cleared only by the destructor, when the pool has been
joined. Put uses the request after it was moved into the map; the model assumes
that the interface pointer of `lib/dom` keeps its value.

### Server

The pool's variables and steps are those of `TaskPool` through `INSTANCE`.
`Scan`, `While`, `Accept` and `AcceptFail` are the nested loops of `Listen`, with
poll's result used as the counter of accepts as in the code. The message id is
the time and a counter modulo `CounterMod`, and the clock may go back.
`HandledSignals` follows the code, which gives the index in its list to
`sigaction`: signals 0 to 4 are handled, and SIGTERM keeps its default action
(`Kill`). A handled signal arrives in any thread; when it is the main thread and
that is blocked, the system call returns with EINTR.

### HttpRead

The bytes of a request are grouped into units (request line, header line, empty
line, piece of the content), and the limits count units. `Recv` and `Test` are
the loop of `ReadBufferImpl::Read`: after each `recv()` it asks with FIONREAD
whether more bytes are there. `Heads` is the head the parser looks at: it spans
the header limit whatever was received, so its rest is any content of memory that
nobody wrote. The parser does not look at the line that ends with the empty line:
a request without headers has no path, and the last header is dropped. `MaxLength`
(query-limit) and `PartLength` (header-limit) are chosen among values that include 0:
with the first no byte is read, with the second no method is found. `recv()` fails
when the connection is reset, and when a signal arrives while it waits, because the
handlers are installed without `SA_RESTART` (`run.cpp:32`); either is answered 408.

### Config

A dotted name is the sequence of its parts, a line a sequence of tokens: words,
brackets, `=`, `#`. `LogicalLine` joins the lines that end with a backslash, with the
comments the code removes and the ones it keeps, and only then decides with the two
regular expressions what they are: `listen \` followed by `= :80` is a property.
`ReadSection`, `ReadProperty` and `ReadText` are the three outcomes. The second half
of the module says what a file means without a stack, with each logical line under the
number of its first line (`Logical`): a section belongs to the nearest section above
it of the level before its own, a property to the section in force, the first value of
a name counts. What a logical line is, the meaning takes from `LogicalLine`, so the
properties say nothing of that. Blanks, quotes, empty names and words broken over two
lines are left out, and a file ends with a newline.

The stack does strange things with a section that skips a level: it becomes a child
of the innermost open section, and a later section of the same level a child of it.
`ConfigMatchesFile` is therefore about files that skip none (`WellNested`), while
`SectionsResolve` (the map is a tree) is about all.

### Router

`hash` and `compare` follow the code character by character, since their agreement
is the property; `HashLength` is `sizeof(size_t)`. `Turn` is one turn of the loop of
`cpathstring::compare` on its two cursors, `Cursors` the places they have after each
turn, and `compare` what the code returns when they stay where they are. `find` is the
set of the routes that `unordered_multimap::find` may return: which one it is depends
on the order in the bucket. `Matches` is the reference, without a loop: it cuts both
paths into segments, with the k-th cut the one that has k cuts before it. What the
code decides and `Matches` repeats: `?`, or several of them in a row, stands for the
rest of its segment, `*` for the rest of the path, and the shorter path decides how far
the two have to agree.

### Startup

One step is one line of the file or one turn of a loop over sections. `phase` is the
function `Run` is in. A `std::exception` leads to `exit(-2)` ("exited"), and what
the catch does not stop to "terminated": a null dereference, an exception out of a
`noexcept` function, `throw;` without an exception, and `RuntimeException`, which is
not publicly a `std::exception`. What a loaded library answers, what the system
answers to `socket`, `setsockopt`, `bind`, `listen` and to the creation of a thread,
and what memory holds that nobody wrote are choices. After the start one request is
looked up.

Numbers follow the conversions of the code. `IsInt` and `Port` are
`(uint16_t)std::stoi`, which throws for what is no `int`, inside the `noexcept` `Open`;
`IsULong` and `ULong` are `std::stoul`, which throws for what is larger than
`ULongMax` and takes a negative number modulo its type; `get_bytes` looks for the first
digits of a text, may throw for them (`BytesThrows`), and loses what its shift moves
out of the type. `modules-dir`, the log and the order of the ranges within one list are
left out; `hardware_concurrency()` is taken to know the number of CPUs. The limits of
a channel are left out of `Startup`, because the code never sets them (section 5);
`SyncQueue` and `SyncSAPI` have them as constants.

## 3. Runs

| Run | Instance | States | What it shows |
|---|---|---|---|
| `threadpool` | 3 thread ids, 3 tasks, 1 to 2 workers | 177 000 | `WorkerLimit`, `RegistryExact`, `NoLostWakeup`, `BusyWithinWorkers`, `JoinQuiesces`, `JoinWalksStableMap`, `ImplementsTaskPool`, `EveryTaskRuns`, `JoinTerminates` |
| `threadpool_ndebug` | the same, `NDEBUG` | | violates `RegistryExact` |
| `syncqueue` | 5 requests, 3 descriptors, limit 2, clients of both kinds | 200 000 (symmetry) | `Partition`, `ReplyToItsClient`, `PoliteOneReply`, `AckMeansForwarded`, `DeliveredOnce`, `NoConnectionLeak`, `PostSettlesClient`, `ImplementsChannel` |
| `syncqueue_replays` | 4 requests, any clients | | violates `OneReplyPerClient` |
| `syncsapi` | 3 requests, limits 0, 1, 2, 4 | 13 000 | `WorkersCounted`, `ImplementsChannel`, `ThreadPerMessage`, `UnlimitedPutAnswered` |
| `syncsapi_stranded` | 2 requests, limit 1 | | violates `EveryPutAnswered` |
| `syncsapi_gone` | 2 requests, no limit | | violates `GoneClientSurvived` |
| `server_loop` | 3 connections, 1 or 2 listeners, signals 1, 3, 15 | 266 000 | `RouterOutlivesTasks`, `MsgIdUnique`, `AcceptNeverBlocks`, `OneListenerServed`, `StopHonoured` |
| `server_listeners` | 2 connections, 2 listeners | | violates `EveryListenerServed` |
| `httpread_segments` | 8 requests, buffer 0, 3 or 6, head 0 or 4 | 9 700 | `ReadsPrefix`, `CompleteRequestParsed`, `ReadEnds` |
| `httpread_unlimited` | the same, buffer 0 or 6 | | violates `ZeroIsUnlimited` |
| `startup` | 6 016 command lines and files, 124 paths | 146 000 | `SectionsResolve`, `ConfigMatchesFile`, `LookupMatchesPattern`, `OwnEndpointServes`, `ServingIsComplete`, `ServesAsDeclared` |

Each component's `TypeOK` is checked in its first exhaustive run.

### Why the bounds are enough

* **ThreadPool.** One persistent worker and one extended one, and one thread id more
  than the limit, so a worker can leave and its id stay unused or be given out
  again. Three tasks fill the queue while both workers are busy, which is what makes
  CheckResize hire, and leave a task for the time of the shrinking. `SizeMod` is
  larger than every sum that occurs, so a wrapped difference shows as a large
  number, as 2^64 does. The proofs remove these bounds for safety.
* **SyncQueue.** Every hazard in it needs at most two POSTs, a GET or a HEAD and
  a PUT that meet on one message, and one more request to receive a reused
  descriptor: five. Three descriptors for five connections force the reuse.
  `LimitSize` 2 lets two messages wait, so that their order matters, and the third PUT
  be refused. `MaxOf` bounds how many of the five requests have one method: clients that
  answer once send up to three PUTs, two GETs, two POSTs, a HEAD and one other, which
  touches nothing but its own connection; the other clients, who need no HEAD to know an
  id, two PUTs, two GETs and two POSTs.
* **SyncSAPI.** Three requests against limits 0 (none), 1, 2 and 4: with
  `IntMod` 8 the limit 4 is negative as an `int32_t`, as 2^31 is in the program.
  The two findings use `RacyEmpty = FALSE`: they do not need the data race.
* **Server.** Three connections on one or two listeners reach a socket with
  several connections waiting, both listeners ready at once, and a full pool
  (`Limit` 1). `Times` has two values, in any order. `MaxErrors` bounds failing
  accepts; without a bound a machine that never has a free descriptor would
  never serve a client, which is no fault of the loop. Signals are SIGHUP,
  SIGQUIT and SIGTERM: handled and ignored, handled and stopping, not handled.
  `CounterMod` is larger than the number of connections: the model speaks of
  programs that accept fewer than 2^32 of them.
* **HttpRead.** One request of each kind the reader and the parser tell apart:
  with content, shorter than the head, so that unwritten memory follows it, without
  headers, with an unknown method, with a broken path, with a header longer than the
  head, longer than the buffer, and empty.
* **Startup.** Three families of files. Every file of up to four lines over sections
  of three levels, properties, comments and continued lines, and every one of up to
  six sections: all that the stack can do with three levels. Whole files in which one
  part at a time takes each of its variants: modules complete, doubled, incomplete;
  channels with and without a script; listeners that clash, lack a port, have one that
  is negative, too large for 16 bits or for an `int`, limits too large for `size_t`, or
  a protocol nobody serves; pools with numbers, ranges and text of every kind; properties
  broken over lines. `IntMax` and `ULongMax` are scaled down (200 000 and 2^30 - 1, since
  TLC's integers have 32 bits), with numerals on both sides of each. And two
  channels with each pair of fourteen endpoints against all paths of up to five
  characters over `/`, `a`, `b`, with `HashLength` 2, so that segments shorter than,
  as long as and longer than the hash occur, and two of them collide.

Deadlock is checked everywhere except in `server_listeners`, where the main
thread waits in `accept()`, which is what the run is about. A component that
waits for clients, or has been joined, has an explicit action for that
(`Quiet`, `Finished`, `Ended`, `Done`).

### Fairness

Weak fairness for every thread that can take a step: the Linux scheduler runs
every runnable thread and a `std::mutex` is released after each short critical
section, so a thread that waits for it proceeds. In detail:

* `ThreadPool`: main inside an operation, and each worker. None for Enqueue,
  GetState and Join, which the outside calls, and none for `Timeout`: `EveryTaskRuns`
  must not rest on the 10 s timer, which could hide a lost wake-up.
* `Server`: the main thread and the workers; none for clients and signals, and
  none for failures.
* `SyncSAPI`: the threads; none for clients and for the shutdown.
* `HttpRead`: the handler's `recv()` that succeeds, test and parser; none for the
  client, and none for `recv()` failing.

`ThreadPool` and `Server` also assume that a task returns. The code does not
guarantee this: `recv()` has no timeout, so a client that sends nothing keeps its
worker, and Join waits for it. `HttpRead`'s `ReadEnds` says precisely what holds:
reading ends once something has come or the client has closed. `Server` also takes the
system's backlog to lose no connection between `poll()` and `accept()`, as Linux does
not: a client that has gone is accepted all the same.

## 4. What is proved

Each theorem is about `Spec` of its module with its constants left open. It rests on
the assumptions the module states of them, which TLC evaluates on its instances:

| Assumption | What it says, and why the code justifies it |
|---|---|
| `PoolAssumption` | what the pool's constructor enforces, and that the system has enough thread ids |
| `SizeAssumption` | the numbers of tasks and threads fit a `size_t` with room for the sum in CheckResize |
| `ChannelAssumption`, `SapiAssumption`, `ReadAssumption`, `HashLengthAssumption` | types of the constants, "none" is no request and no descriptor, threads and requests are finitely many |
| `ServerAssumption` | also: fewer connections than a `uint32_t` counts |
| `StartupAssumption` | numerals and the largest numbers are natural numbers, there is a CPU, a file is a sequence of lines, a path is a sequence of characters |

Where a theorem about the pool says so, `~NDEBUG`. The queue's theorems about answers
are for clients that POST an id once (`OneReply`); what others can do is finding 2, and
that they can make the channel lose a message.

An invariant is proved in three lemmas: it holds at the start, each action keeps it,
and it implies the property. The sections below say which invariant and why the
property alone is not inductive.

### ThreadPool

| Theorem | Statement |
|---|---|
| `TypeCorrect` | `Spec => []TypeOK`, in any build |
| `RegistryIsExact` | the map holds exactly the threads that exist; hiring never ends the program |
| `WorkersWithinLimit` | thread-workers <= persistent workers, workers <= thread-limit |
| `BusyNeverExceedsWorkers` | the difference in CheckResize does not wrap |
| `JoinLeavesNothingRunning` | nothing executes when Join has returned |
| `JoinWalkIsSafe` | the map does not change once Join has begun |
| `WakeupsAreNotLost` | `NoLostWakeup`, in any build |
| `PoolImplementsTaskPool` | `Spec => Abstract!Spec`: the pool is the FIFO executor of `TaskPool` |

The argument has four layers.

1. `TypeInv == TypeOK /\ BusyCount /\ HasTask`. That the busy counter is a natural
   number is not inductive: a decrement needs to know that some worker has
   incremented before. `BusyCount` says the counter is the number of workers
   between the two, and `HasTask` that a worker that popped a task holds one.
2. `SafeInv == RegistryExact /\ WorkerLimit /\ Snapshot /\ Phase /\ JoinQuiesces`.
   The limit is kept although CheckResize decides with stale sizes: `Snapshot`
   says that the stale size is an upper bound, since only main adds threads and
   workers only remove themselves, and that size and decision together stay
   within the limit. `Phase` ties the stop flag to the place of main, so that no
   hire and no leave happens during Join.
3. `NoLostWakeup` is inductive together with `TypeInv`. It counts: while a worker
   sleeps, the queue is no longer than the number of awake workers, plus one
   while main is on its way to notify. A worker goes to sleep only when it sees
   an empty queue, and a notification makes a sleeper awake.
4. The refinement needs `OnePlace`: a task is once in the queue or with one
   worker; otherwise the return of one worker would end two running tasks of the
   abstract pool. `StepSimulation` then maps each step: `EnqueueLocked` to Submit,
   `TakeTask` to Start (the limit of running tasks follows from `WorkerLimit` and
   `RegistryExact`), `Return` to Finish, `JoinStop` to StartClosing, the last
   `JoinWait` to Close, and every other step to a stutter.

`Server` uses `TaskPool`, and the theorem is what entitles it to.

### SyncQueue

| Theorem | Statement |
|---|---|
| `TypeCorrect` | every handler is at a place with the data it needs there |
| `ContainersAgree` | `Partition`: the queue, the locked ids and the kept requests agree |
| `NoMessageHandedOutTwice` | no two GETs are given the same message |
| `RepliesReachTheirClient` | an answer reaches the client it is for |
| `AnsweredAtMostOnce` | a client gets at most one answer |
| `AckIsHonest` | a POST answered 200 has had its content sent |
| `NoDescriptorLeak` | every open descriptor has somebody to close it |
| `ClientIsSettled` | after a POST its PUT's client owns no descriptor, and `Handle` is 0 |
| `QueueImplementsChannel` | `Spec => ImplementsChannel`; `Lose` for clients that repeat answers only |

1. `HandlerInv` holds for all clients: what is in a container is a PUT that has been
   emplaced (`Kept`), so is what a handler works on (`Known`), and a client of a GET or HEAD is
   told of the message its handler works on (`Told`).
2. `ConnectionInv` ties the code's belief `Handle` to the system's `owner`: once a POST
   has closed its client's descriptor the client owns none (`Closed`), and once it is
   about to erase the message `Handle` is 0 too (`Forgotten`).
3. `PoliteInv` is about clients that answer once: at most one POST per message
   (`OnePost`), so a kept request's descriptor is its own until its POST closes it
   (`OwnDescriptor`), and what its client has been sent is that POST's
   (`AnsweredBy`). Without `OnePost` the second POST would write to a descriptor that
   the system has given to another client.
4. The refinement maps `waiting` to the queue, `older` to the order in it, `taken` to
   the locked ids, `answered` to the messages whose client's inbox has the content of a
   POST. `Pending` says that a kept message is queued or locked. That a POST of a polite
   client erases only what was answered is `AnsweredBy`, which rests on `OwnDescriptor`:
   the descriptor the POST has sent on was still the client's own. For other
   clients the step is an `Answer` or a `Lose`.

### SyncSAPI

| Theorem | Statement |
|---|---|
| `TypeCorrect` | types; the counter is a natural number |
| `WorkersAreCounted` | the counter is the number of threads between increment and decrement |
| `EveryMessageHasAThread` | without a limit there is a thread for each queued request |
| `SapiImplementsChannel` | `Spec => ImplementsChannel` |

`CountInv` follows the cardinality of the set of threads in each state through every
step. It does not use what the unlocked `empty()` returns, so the data race cannot
break it. The refinement needs `OnePlace`: a request is in the queue or with one
thread, and whoever has it keeps it until it has answered.

### Server

| Theorem | Statement |
|---|---|
| `TypeCorrect` | types of the loop, its sockets and the pool |
| `RouterIsThere` | the router goes when nothing runs and nothing can start |
| `OneListenerNeverBlocks` | with one listener, `accept()` finds a connection |
| `MsgIdsDiffer` | no two connections get one id, wherever the clock jumps |

`ShutdownInv` ties the router to the phase of the pool; `ListenInv` says that `result`
of poll, which the loop uses as a counter, is 1 only while the backlog has a
connection; `BacklogInv` and `IdInv` say that a waiting connection has no id and that
the lower half of an id is an earlier value of the counter, which counts the accepted
connections and does not wrap for fewer than 2^32 of them.

### HttpRead

| Theorem | Statement |
|---|---|
| `TypeCorrect` | the offsets stay inside the buffer |
| `BytesInOrder` | what is read is the beginning of what was sent; `recv()` has room |
| `WholeRequestAccepted` | a request with a header line that arrived whole is accepted, whatever memory follows it |

`ReadInv` has the bytes in the buffer and in the socket as one stream (`StreamInv`),
and `noffset` as its end in the buffer (`OffsetInv`). The parser is a lemma of its
own: the empty line it finds in the head is the one the request has, because what
comes before it has been received.

### Configuration and start

| Theorem | Statement |
|---|---|
| `MapIsATree` | `Spec => []SectionsResolve`, for every file |
| `ReaderIsFaithful` | `Spec => []ConfigMatchesFile` |
| `StartedServerIsComplete` | `Spec => []ServingIsComplete` |
| `ServerIsAsDeclared` | `Spec => []ServesAsDeclared` |

The files may have any number of lines and levels, so these are inductions over data.
The library states induction with an operator as parameter, which no installed prover
can instantiate; `SetInduction` (in `RouterProofs`) states it with a set and is proved
by counting. From
it come what `FlattenSeq` does to a longer sequence (`FlattenAppend`) and that each
section line has one full name (`FullName` is a recursive function).

1. `TreeInv`: the map is a tree only if the open sections are in it, and when a
   section closes others the ones that stay open must be too. So every beginning of
   the path is a key (`OpenSections`).
2. `ReaderInv`: after the lines before p, the stack is the chain of the sections in
   force there (`StackMeans`), and the map is what these lines mean (`MapMeans`). The
   reference has no stack, so the proof is that closing all sections of the level and
   deeper leaves exactly the parent of the new one. This is where `WellNested` is
   needed.
3. `VisitInv`: a loop over sections visits sections the map lists, hence (by
   `ReaderIsFaithful`'s invariant) sections of the file.
4. `ServeInv` adds `ChannelInv` (the channels are the admitted ones of the sections
   visited so far), `RouteInv` (a channel whose turn has come has one route or is
   refused, whatever the order of the `unordered_map`), `RoutedInv` and `ListenInv`
   (no two listeners clash; the pool has what its constructor has checked).
5. `DeclaredInv`: each listener is the one of an http section that was visited, in terms
   of the map, and the pool has the numbers of the map. With `LookupsAreDeclared` (a
   look-up in the map returns what the file declares) this is `ServesAsDeclared`.

### Router

| Theorem | Statement |
|---|---|
| `LookupsMatchPatterns` | `Spec => []LookupMatchesPattern` |
| `OwnEndpointsServe` | `Spec => []OwnEndpointServes` |

They are about all files, well nested or not, all endpoints and requests of any
length, and all lengths of the hash. The middle of the proof is `CompareIsMatches` of
`RouterProofs`: for a request without wildcards, the loop of `cpathstring::compare`
says yes exactly if `Matches`, which has no loop, does.

1. The loop ends. After n turns either the cursors are stuck or their sum has grown by
   n at least (part of `WalkReaches`), so after as many turns as there are characters
   they are where the code's loop ends.
2. Where the cursors are (`InSegment`). They are in segments of the same number, and
   either `Level`, as far from the cuts before them with the same characters behind
   them, or `AtAny`: the endpoint's cursor has met a `?` and waits for the other to
   come to the end of its segment, or has gone on over more `?` since it is there.
   A turn that does not move shows that the segments do not match, one that takes both
   cursors over a slash that they do, and any other keeps `InSegment` (`LevelTurn` and
   `AnyTurn`, together `SegmentTurn`). "Equal so far" would not be inductive: it says
   nothing of a cursor that waits.
3. `WalkReaches`: by induction over the turns, the cursors are in corresponding segments
   and the ones before these match. `TurnBeforeStar` takes the rest of an endpoint from
   `*` on away: no turn looks at it before it ends the loop.
4. `HashAgrees`: paths that match and hold no wildcard where they are hashed have one
   hash, if the first segment of each is there to its end or as far as it is hashed.
   So 404 is never due to the hash (`FoundMatches`).
5. `RoutingInv`, of the specification: the values of the map are texts (`TextInv`), so
   endpoints are sequences of characters (`PathsAreTexts`), and the last look-up is what
   `find` returned for a table that has not changed since (`LookupInv`).

For literal endpoints `compare` is "one is the beginning of the other"
(`PrefixIsEqual`, `FirstDifference`), and two beginnings of one request are beginnings
of each other; hence `OnlyOwnIsFound`, and the second theorem.

The first attempt at this proof showed that the reference was wrong, not the code: it
let one `?` only end a segment, where the loop skips any number of them in a row.
`Matches` says so now, and `/a??/b` is one of the endpoints TLC checks.

### What is only model-checked

* Liveness (`EveryTaskRuns`, `JoinTerminates`, `UnlimitedPutAnswered`,
  `OneListenerServed`, `StopHonoured`, `ReadEnds`): the proof system does not handle
  fairness and ENABLED.
* The findings: a violation is a trace, and needs no proof.

## 5. Findings

Six runs show that the code does not do what it, or its documentation, says. The
traces are short; `PROJECT.json` has the quotations.

1. `threadpool_ndebug`: in a build with `NDEBUG` an extended worker that leaves is
   not erased from the map (`threadpool.cpp:156` erases in an argument of
   `dbg_trace`). The pool counts it for ever, and if its thread id is given to a
   new worker, a joinable `std::thread` is destroyed.
2. `syncqueue_replays`: two POSTs for one message that overlap are both sent to
   the PUT's client; the "Multiple Replays. Reply Ignored." answer only meets the
   ones that come later.
3. `syncsapi_stranded`: with `queue-limit-tasks`, a PUT that arrives between a
   thread's last test of the queue and its decrement of the counter is never
   answered.
4. `syncsapi_gone`: a client that closes its connection early ends the program.
5. `server_listeners`: with two listeners ready at once, Listen accepts twice on
   the first one and blocks.
6. `httpread_unlimited`: `query-limit` and `header-limit` are documented as "0 -
   unlimit" (`fiber.config.sample:5` and `6`), and 0 is used as a length. With the first
   the buffer has no bytes, `recv()` returns 0 and every request looks like an empty one;
   with the second the head is empty and every request is answered 405.

Met while modelling, and not stated as runs:

* the limits of a channel are never read: `ConfigImpl` answers no to every interface
  (`cfgimpl.h:68`), so `Initialize` skips them (`sync-queue.cpp:99`), and the channel
  works with whatever its memory held, whatever `fiber.config.sample:44` says;
* a port that is no `int` ends the program, in the `noexcept` `Open`; a larger one than
  65535 is cut to 16 bits; `listen` without a colon reads past the end of a list;
* a property before the first section dereferences `end()`; a reversed range in
  `core-bind` counts through all of `size_t`;
* two POSTs for one message can erase it though its client was sent nothing (`Lose`);
* SIGTERM is not handled; `SyncSAPI::Finalize` joins a thread that was never started;
* a request without headers has an empty path, and the query stays part of the path:
  the search for `?` has an empty range (`httpimpl.cpp:42`);
* an endpoint with a wildcard in the part that is hashed is never found; endpoints
  that begin alike shadow each other in an order nobody chose; an endpoint written
  `class:/path`, with one slash, does not begin with a slash and serves no request;
  the endpoint `/` (`class://`) serves only requests whose first segment is empty,
  since its hash is that of no segment;
* a section that skips a level changes where the ones after it belong; a section
  whose line ends with a backslash swallows the next line;
* a section of a module without `class` or `module`, and a library that is refused,
  end the program at `throw;`, where the code means to skip them.

## 6. Not modelled, and why

* WebSocket (`wsimpl.h`), FiberGATE and the SAPI connectors are empty in this
  version.
* Kernel services forward to `lib/dom` or log; they keep no state.
* `lib/dom` is not in the repository.
* The text of answers, JSON and traces: output without state. `time_period` computes
  a limit that nobody reads.
* `send()` that blocks, and a thread that the system refuses to a running pool or
  channel: nothing in the code handles either. A refusal at the start is in `Startup`.

## 7. Plan

All that the code has is modelled, and every invariant that a run checks is proved, as
are the refinements. What could follow:

1. **Composition**: that the tasks of `Server` are the requests of the channels, so
   that `MsgIdsDiffer` discharges what `SyncQueue` takes for granted of its ids.
2. **Liveness** by proof, once the proof system handles fairness; the counting
   invariants (`NoLostWakeup`, `ThreadPerMessage`) are the safety part of it.
3. **The empty parts** (WebSocket, FiberGATE, the SAPI connectors) when they get code.
