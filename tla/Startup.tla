------------------------------- MODULE Startup ------------------------------
(***************************************************************************)
(* Kernel::Run up to its main loop (src/kernel/main/run.cpp) with          *)
(* initCmdLine, initConfig, initMQ, initSAPI, initChannels, initRoutes,    *)
(* initServer and initThreadPool, and the look-ups of the router they      *)
(* filled.  One step is one line of the file, or one turn of a loop over   *)
(* sections.  A std::exception ends in exit(-2), phase "exited"; what the  *)
(* catch does not stop (a signal, std::terminate) is phase "terminated".   *)
(***************************************************************************)
EXTENDS Config, Router

CONSTANTS
    Numeral,        \* the tokens that are numbers, and their values
    IntMax,         \* the largest int: stoi refuses what is larger
    ULongMax,       \* the largest unsigned long: so does stoul
    HttpProtocol,   \* the section names that begin with "http", in any case
    Cores,          \* std::thread::hardware_concurrency()
    Uri,            \* paths of requests
    DefaultFile,
    Input           \* the command lines and disks to start from

ASSUME StartupAssumption ==
    /\ \A n \in DOMAIN Numeral : Numeral[n] \in Nat
    /\ IntMax \in Nat /\ ULongMax \in Nat
    /\ Cores \in Nat \ {0}
    /\ \A i \in Input : \A f \in DOMAIN i.disk : i.disk[f] \in Seq(Line)
    /\ Uri \subseteq Seq(STRING)

VARIABLES
    args, disk,     \* the values of -c, "" for one that is refused; the files
    phase,          \* the function Run is in, or how it ended
    todo,           \* what its loop has still to visit
    ClassesMq, ClassesSAPI,  \* the loaded modules: section -> class
    Channels,       \* fiberChannels: section -> [mq, uri]
    refused,        \* channels the component library said no to
    listeners,      \* Server::conFd: [device, port, query, header]
    pool            \* the arguments the ThreadPool has taken

moduleVars == <<ClassesMq, ClassesSAPI>>
vars == <<configVars, routerVars, args, disk, phase, todo, moduleVars,
          Channels, refused, listeners, pool>>

NoPool == [workers |-> 0, limit |-> 0, cores |-> {}]

\* Leaves every variable but phase, todo and the ones the caller changes.
Beyond(p, t) == phase' = p /\ todo' = t

-----------------------------------------------------------------------------
(* Conversions.                                                            *)

\* utils::explode: cut s at the first max - 1 tokens d, at all of them for 0.
explode(d, s, max) ==
    LET all == SetToSortSeq({i \in DOMAIN s : s[i] = d}, <)
        used == IF max = 0 THEN all ELSE SubSeq(all, 1, Min({max - 1, Len(all)}))
        cuts == <<0>> \o used \o <<Len(s) + 1>>
    IN  IF s = << >> THEN << >>
        ELSE [k \in 1..(Len(cuts) - 1) |-> SubSeq(s, cuts[k] + 1, cuts[k + 1] - 1)]

\* parseUri: a word, ":/", and something after it.
NoUri == [class |-> "", uri |-> << >>]
parseUri(t) ==
    LET at == Least({i \in 2..(Len(t) - 2) :
                        t[i] = ":" /\ t[i + 1] = "/" /\ t[i - 1] \notin {":", "/"}})
    IN  IF at = 0 THEN NoUri
        ELSE [class |-> t[at - 1], uri |-> SubSeq(t, at + 2, Len(t))]

\* std::stoi and std::stoul read a number at the start of the text, with a sign,
\* and throw when there is none or when it does not fit.
Negative(t) == t # << >> /\ t[1] = "-"
HasNumber(t, max) ==
    LET digits == IF Negative(t) THEN Tail(t) ELSE t
    IN  digits # << >> /\ digits[1] \in DOMAIN Numeral /\ Numeral[digits[1]] <= max

\* stoul takes a negative number modulo the number of values of its type.
IsULong(t) == HasNumber(t, ULongMax)
ULong(t) ==
    IF ~Negative(t) THEN Numeral[t[1]]
    ELSE IF Numeral[t[2]] = 0 THEN 0 ELSE ULongMax + 1 - Numeral[t[2]]

\* (uint16_t)stoi(t)
IsInt(t) == HasNumber(t, IF Negative(t) THEN IntMax + 1 ELSE IntMax)
Port(t) ==
    IF Negative(t) THEN (65536 - (Numeral[t[2]] % 65536)) % 65536 ELSE Numeral[t[1]] % 65536

\* utils::option::get_bytes: the first number of the text, with its unit; what is
\* too large for the type is shifted out of it.  Its stoul may throw.
FirstNumber(t) == Least({i \in DOMAIN t : t[i] \in DOMAIN Numeral})
BytesThrows(t) == FirstNumber(t) # 0 /\ Numeral[t[FirstNumber(t)]] > ULongMax
get_bytes(t, default) ==
    LET at == FirstNumber(t)
        unit == IF at = Len(t) THEN "B" ELSE t[at + 1]
        shift == CASE unit = "G" -> 30 [] unit = "M" -> 20 [] unit = "K" -> 10
                   [] OTHER -> 0
    IN  IF at = 0 THEN default ELSE (Numeral[t[at]] * 2^shift) % (ULongMax + 1)

\* utils::option::expand: "2-12,3" as the bounds of its ranges; a range with
\* more than one "-" is skipped.
Bounds(t) ==
    {<<r[1], IF r[Len(r)] = << >> THEN r[1] ELSE r[Len(r)]>> :
        r \in {r \in {explode("-", p, 0) : p \in ToSet(explode(",", t, 0))} :
                  Len(r) \in {1, 2}}}
ExpandThrows(t) == \E b \in Bounds(t) : ~IsULong(b[1]) \/ ~IsULong(b[2])
\* The loop counts up until it meets the upper bound: from above it, through
\* all numbers of a size_t, each kept in the set.
ExpandExhausts(t) ==
    \E b \in Bounds(t) : IsULong(b[1]) /\ IsULong(b[2]) /\ ULong(b[1]) > ULong(b[2])
expand(t) == UNION {ULong(b[1])..ULong(b[2]) : b \in Bounds(t)}

-----------------------------------------------------------------------------
(* The command line and the file.                                          *)

\* cmdline::options keeps the first value of an option; getopt_long answers
\* "?" for an option without its argument, which is passed over.
ConfigFile ==
    LET given == {i \in DOMAIN args : args[i] # ""}
    IN  IF given = {} THEN DefaultFile ELSE args[Min(given)]

initCmdLine ==
    /\ phase = "cmdline"
    /\ IF ConfigFile \in DOMAIN disk
       THEN OpenFile(disk[ConfigFile]) /\ Beyond("config", << >>)
       ELSE Beyond("exited", << >>) /\ UNCHANGED configVars
    /\ UNCHANGED <<routerVars, args, disk, moduleVars, Channels, refused,
                   listeners, pool>>

ReadConfig ==
    /\ phase = "config"
    /\ initConfig \/ EndOfFile
    /\ CASE reading' = "yes"     -> UNCHANGED <<phase, todo>>
         [] reading' = "crashed" -> Beyond("terminated", << >>)
         [] reading' = "done"    -> Beyond("mq", GetSections(config, <<"fiber", "mq">>))
    /\ UNCHANGED <<routerVars, args, disk, moduleVars, Channels, refused,
                   listeners, pool>>

-----------------------------------------------------------------------------
(* Modules.                                                                *)

Value(space, name) == GetConfigValue(config, space, name, << >>)

\* EmplaceServer loads a library, says no, or throws.  A section without class
\* or module, and a library that says no, meet `throw;` with no exception to
\* throw again; an exception of EmplaceServer is caught and the section skipped.
ModuleOutcome(space) ==
    IF Value(space, "class") # << >> /\ Value(space, "module") # << >>
    THEN {"loaded", "refused", "skipped"} ELSE {"incomplete"}

LoadModule(space, classes, o) ==
    /\ todo # << >>
    /\ o \in ModuleOutcome(space \o Head(todo))
    /\ classes' = IF o = "loaded"
                  THEN Emplace(classes, Head(todo), Value(space \o Head(todo), "class"))
                  ELSE classes
    /\ IF o \in {"loaded", "skipped"} THEN Beyond(phase, Tail(todo)) ELSE Beyond("terminated", << >>)
    /\ UNCHANGED <<configVars, routerVars, args, disk, Channels, refused, listeners, pool>>

initMQ(o) ==
    phase = "mq" /\ LoadModule(<<"fiber", "mq">>, ClassesMq, o) /\ UNCHANGED ClassesSAPI

initSAPI(o) ==
    phase = "sapi" /\ LoadModule(<<"fiber", "sapi">>, ClassesSAPI, o) /\ UNCHANGED ClassesMq

-----------------------------------------------------------------------------
(* Channels and routes.                                                    *)

WithSlash(p) == IF p[Len(p)] = "/" THEN p ELSE Append(p, "/")

\* Bug: nobody looks whether the SAPI of a channel was loaded.
initChannels_AnySapi ==
    /\ phase = "channels"
    /\ todo # << >>
    /\ LET ch == Head(todo)
           at == parseUri(Value(<<"channel">> \o ch, "channel-endpoint"))
       IN  Channels' =
             IF at # NoUri /\ <<at.class>> \in DOMAIN ClassesMq
             THEN Emplace(Channels, ch, [mq |-> at.class, uri |-> WithSlash(at.uri)])
             ELSE Channels
    /\ Beyond(phase, Tail(todo))
    /\ UNCHANGED <<configVars, routerVars, args, disk, moduleVars, refused, listeners, pool>>

\* A section without an endpoint of a loaded MQ, or with a channel-sapi of no
\* loaded SAPI, is skipped.  A section listed twice is one channel.
initChannels ==
    /\ phase = "channels"
    /\ todo # << >>
    /\ LET ch == Head(todo)
           at == parseUri(Value(<<"channel">> \o ch, "channel-endpoint"))
           sapi == Value(<<"channel">> \o ch, "channel-sapi")
       IN  Channels' =
             IF /\ at # NoUri
                /\ <<at.class>> \in DOMAIN ClassesMq
                /\ sapi # << >> => <<parseUri(sapi).class>> \in DOMAIN ClassesSAPI
             THEN Emplace(Channels, ch, [mq |-> at.class, uri |-> WithSlash(at.uri)])
             ELSE Channels
    /\ Beyond(phase, Tail(todo))
    /\ UNCHANGED <<configVars, routerVars, args, disk, moduleVars, refused, listeners, pool>>

\* AddRoute with CreateMQ and Initialize.  Initialize asks ConfigImpl for
\* IConfig, QueryInterface says no (cfgimpl.h:68), and the limits of the
\* channel are never written: they are whatever memory held, and left out here.
initRoutes ==
    /\ phase = "routes"
    /\ todo # << >>
    /\ \/ AddRoute(Channels[Head(todo)].uri, Head(todo)) /\ UNCHANGED refused
       \/ /\ refused' = refused \cup {<<"channel">> \o Head(todo)}
          /\ UNCHANGED routerVars
    /\ Beyond(phase, Tail(todo))
    /\ UNCHANGED <<configVars, args, disk, moduleVars, Channels, listeners, pool>>

-----------------------------------------------------------------------------
(* Listeners.                                                              *)

\* Bug: both limits are read from the same property.
Listener_OneLimit(space, device, port) ==
    [device |-> device, port |-> Port(port),
     query |-> get_bytes(Value(space, "query-limit"), 1048576),
     header |-> get_bytes(Value(space, "query-limit"), 8192)]

Listener(space, device, port) ==
    [device |-> device, port |-> Port(port),
     query |-> get_bytes(Value(space, "query-limit"), 1048576),
     header |-> get_bytes(Value(space, "header-limit"), 8192)]

\* bind() refuses a port that listens on the same device, or on all of them; for
\* port 0 it takes a free one.
Clash(a, b) ==
    /\ a.port = b.port /\ a.port # 0
    /\ a.device = b.device \/ << >> \in {a.device, b.device}

\* Server::AddListener and Socket::Open.  The system may refuse each of its
\* calls.  Open is noexcept: a port that stoi does not take ends the program.
\* A limit that stoul does not take is met once the socket listens, and exits.
AddListener(space, device, port) ==
    LET throws == \E name \in {"query-limit", "header-limit"} : BytesThrows(Value(space, name))
        l == Listener(space, device, port)
        bound == IsInt(port) /\ \A k \in listeners : ~Clash(l, k)
    IN  \/ UNCHANGED <<phase, listeners>>
        \/ bound /\ ~throws /\ listeners' = listeners \cup {l} /\ UNCHANGED phase
        \/ bound /\ throws /\ phase' = "exited" /\ UNCHANGED listeners
        \/ ~IsInt(port) /\ phase' = "terminated" /\ UNCHANGED listeners

\* A `listen` without ":" has fewer than two parts and the second one is read
\* all the same: past an empty list, or in memory that holds anything.
initServer ==
    /\ phase = "server"
    /\ todo # << >>
    /\ LET space == <<"fiber", "server">> \o Head(todo)
           listen == explode(":", Value(space, "listen"), 2)
           http == Head(todo) \in HttpProtocol
       IN  \/ Len(listen) = 2 /\ http /\ AddListener(space, listen[1], listen[2])
           \/ Len(listen) = 2 /\ ~http /\ UNCHANGED <<phase, listeners>>
           \/ Len(listen) < 2 /\ phase' = "terminated" /\ UNCHANGED listeners
           \/ Len(listen) = 1 /\ ~http /\ UNCHANGED <<phase, listeners>>
           \/ /\ Len(listen) = 1 /\ http
              /\ \E g \in DOMAIN Numeral : AddListener(space, listen[1], <<g>>)
    /\ todo' = Tail(todo)
    /\ UNCHANGED <<configVars, routerVars, args, disk, moduleVars, Channels, refused, pool>>

-----------------------------------------------------------------------------
(* The thread pool.                                                        *)

PoolSpace == <<"fiber", "pool">>
PoolValue(name, default) == GetConfigValue(config, PoolSpace, name, default)

\* The CPUs left for the workers.
BindingCores(bind, exclude) ==
    (IF expand(bind) = {} THEN 0..(Cores - 1) ELSE {c % Cores : c \in expand(bind)})
        \ expand(exclude)

\* The constructor of ThreadPool.  RuntimeException is not a std::exception for
\* its catcher (ci/coreexcept.h:8), so wrong numbers end the program; text that
\* stoul does not take throws a std::exception, which exits.  The system may
\* refuse a thread: that exits before there is one, and ends the program when
\* the constructor destroys the map of those that run.
initThreadPool ==
    /\ phase = "pool"
    /\ LET workers == PoolValue("thread-workers", <<"10">>)
           limit == PoolValue("thread-limit", <<"100">>)
           bind == PoolValue("core-bind", <<"1", "-", "8">>)
           exclude == PoolValue("core-exclude", << >>)
           numbers == IsULong(workers) /\ IsULong(limit)
           throws == ~numbers \/ ExpandThrows(bind) \/ ExpandThrows(exclude)
           exhausts == /\ numbers
                       /\ \/ ExpandExhausts(bind)
                          \/ ~ExpandThrows(bind) /\ ExpandExhausts(exclude)
           asked == [workers |-> ULong(workers), limit |-> ULong(limit),
                     cores |-> BindingCores(bind, exclude)]
           valid == asked.cores # {} /\ asked.workers # 0 /\ asked.limit >= asked.workers
       IN  \/ throws /\ phase' = "exited" /\ UNCHANGED pool
           \/ exhausts /\ phase' \in {"exited", "terminated"} /\ UNCHANGED pool
           \/ ~throws /\ ~exhausts /\ ~valid /\ phase' = "terminated" /\ UNCHANGED pool
           \/ ~throws /\ ~exhausts /\ valid /\ phase' = "serving" /\ pool' = asked
           \/ ~throws /\ ~exhausts /\ valid /\ phase' \in {"exited", "terminated"} /\ UNCHANGED pool
    /\ UNCHANGED <<configVars, routerVars, args, disk, todo, moduleVars, Channels,
                   refused, listeners>>

-----------------------------------------------------------------------------
(* The end of each loop: Run goes on, or throws runtime_error and exits.   *)

NextPhase ==
    /\ todo = << >>
    /\ \/ /\ phase = "mq"
          /\ IF ClassesMq = << >> THEN Beyond("exited", << >>)
             ELSE Beyond("sapi", GetSections(config, <<"fiber", "sapi">>))
       \/ phase = "sapi" /\ Beyond("channels", GetSections(config, <<"channel">>))
       \/ /\ phase = "channels"     \* the order of an unordered_map is any order
          /\ IF Channels = << >> THEN Beyond("exited", << >>)
             ELSE \E order \in SetToSeqs(DOMAIN Channels) : Beyond("routes", order)
       \/ /\ phase = "routes"
          /\ IF Routes = {} THEN Beyond("exited", << >>)
             ELSE Beyond("server", GetSections(config, <<"fiber", "server">>))
       \/ /\ phase = "server"
          /\ Beyond(IF listeners = {} THEN "exited" ELSE "pool", << >>)
    /\ UNCHANGED <<configVars, routerVars, args, disk, moduleVars, Channels,
                   refused, listeners, pool>>

\* A request reaches the router of the running server.  One is enough: a
\* look-up leaves the table as it is.
Serve(uri) ==
    /\ phase = "serving"
    /\ lookup.status = "none"
    /\ Process(uri)
    /\ UNCHANGED <<configVars, args, disk, phase, todo, moduleVars, Channels,
                   refused, listeners, pool>>

Ended ==
    /\ phase \in {"exited", "terminated"} \/ lookup.status # "none"
    /\ UNCHANGED vars

Init ==
    /\ ConfigInit
    /\ RouterInit
    /\ \E i \in Input : args = i.args /\ disk = i.disk
    /\ phase = "cmdline"
    /\ todo = << >>
    /\ ClassesMq = << >>
    /\ ClassesSAPI = << >>
    /\ Channels = << >>
    /\ refused = {}
    /\ listeners = {}
    /\ pool = NoPool

Next ==
    \/ initCmdLine
    \/ ReadConfig
    \/ \E o \in {"loaded", "refused", "skipped", "incomplete"} : initMQ(o) \/ initSAPI(o)
    \/ initChannels
    \/ initRoutes
    \/ initServer
    \/ initThreadPool
    \/ NextPhase
    \/ \E uri \in Uri : Serve(uri)
    \/ Ended

Spec == Init /\ [][Next]_vars

-----------------------------------------------------------------------------
(* Properties.                                                             *)

File == Logical(disk[ConfigFile])
Declared(space) == Meaning(File, space)
DeclaredValue(space, name, default) ==
    LET v == Declared(space).values IN IF name \in DOMAIN v THEN v[name] ELSE default

\* What initConfig leaves in its map is what the file means: each section with
\* its subsections in order and the first value of each of its properties, with
\* continued lines joined and comments removed.  For well nested files.
ConfigMatchesFile ==
    phase \in {"mq", "pool"} /\ WellNested(File) =>
        /\ DOMAIN config = IF SectionLines(File) = {} THEN {}
                           ELSE {<< >>} \cup Range(FullName(File))
        /\ \A key \in DOMAIN config : config[key] = Declared(key)

\* The channels of the file that have to be served: an endpoint on a loaded MQ
\* and, if there is one, a script on a loaded SAPI.
Servable(ch) ==
    LET at == parseUri(DeclaredValue(<<"channel">> \o ch, "channel-endpoint", << >>))
        sapi == DeclaredValue(<<"channel">> \o ch, "channel-sapi", << >>)
    IN  /\ at # NoUri
        /\ <<at.class>> \in DOMAIN ClassesMq
        /\ sapi # << >> => <<parseUri(sapi).class>> \in DOMAIN ClassesSAPI

\* A server that has started listens on a port at least, on each port once, has
\* workers and a CPU for them, and has one route for each channel of the file
\* that can be served and was not refused, under the endpoint the file gives it.
ServingIsComplete ==
    phase = "serving" /\ lookup.status = "none" /\ WellNested(File) =>
        /\ listeners # {}
        /\ \A l, k \in listeners : l # k => ~Clash(l, k)
        /\ pool.workers \in 1..pool.limit
        /\ pool.cores # {} /\ pool.cores \subseteq 0..(Cores - 1)
        /\ LET wanted == {ch \in ToSet(Declared(<<"channel">>).sections) :
                             Servable(ch) /\ <<"channel">> \o ch \notin refused}
           IN  /\ {r.channel : r \in Routes} = wanted
               /\ Cardinality(Routes) = Cardinality(wanted)
        /\ \A r \in Routes : IsPrefix(
              parseUri(DeclaredValue(<<"channel">> \o r.channel, "channel-endpoint", << >>)).uri,
              r.path) /\ Last(r.path) = "/"

\* The sections of the file that open a listener, and what they say after `listen`.
HttpSections == {s \in ToSet(Declared(<<"fiber", "server">>).sections) : s \in HttpProtocol}
DeclaredListen(s) == explode(":", DeclaredValue(<<"fiber", "server">> \o s, "listen", << >>), 2)

\* A server that has started serves as its file says: each of its ports is the
\* port of a section, on the device and with the two limits of that section, and
\* the pool has the numbers of workers of the file.  For well nested files whose
\* listeners have a port: without one the code reads past the end of a list.
ServesAsDeclared ==
    phase = "serving" /\ lookup.status = "none" /\ WellNested(File)
      /\ (\A s \in HttpSections : Len(DeclaredListen(s)) = 2) =>
        /\ \A l \in listeners : \E s \in HttpSections :
              LET space == <<"fiber", "server">> \o s
              IN  /\ l.device = DeclaredListen(s)[1]
                  /\ l.port = Port(DeclaredListen(s)[2])
                  /\ l.query = get_bytes(DeclaredValue(space, "query-limit", << >>), 1048576)
                  /\ l.header = get_bytes(DeclaredValue(space, "header-limit", << >>), 8192)
        /\ pool.workers = ULong(DeclaredValue(PoolSpace, "thread-workers", <<"10">>))
        /\ pool.limit = ULong(DeclaredValue(PoolSpace, "thread-limit", <<"100">>))
=============================================================================
