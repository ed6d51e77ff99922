----------------------------- MODULE MCStartup ------------------------------
EXTENDS Startup

\* "3000000000" is larger than an int and "2^64" than an unsigned long, which
\* IntMax and ULongMax scale down to numbers TLC has.
MCNumeral == [n \in {"0", "1", "2", "8", "10", "100", "80", "65616", "3000000000", "2^64"} |->
    CASE n = "0" -> 0 [] n = "1" -> 1 [] n = "2" -> 2 [] n = "8" -> 8 [] n = "10" -> 10
      [] n = "100" -> 100 [] n = "80" -> 80 [] n = "65616" -> 65616
      [] n = "3000000000" -> 300000 [] n = "2^64" -> 2^30]
MCIntMax == 200000
MCULongMax == 2^30 - 1

MCHttp == {<<"http">>, <<"https">>}

SeqsUpTo(S, n) == UNION {[1..k -> S] : k \in 0..n}

\* Lines.
Text(text) == [raw |-> text, brk |-> FALSE]
Section(level, name) == Text([i \in 1..level |-> "["] \o name \o <<"]">>)
P(name, text) == Text(<<name, "=">> \o text)
Cont(l) == [l EXCEPT !.brk = TRUE]

-----------------------------------------------------------------------------
(* Every short file over a few lines: levels in any order, properties      *)
(* anywhere, comments and continuations.                                   *)

A == <<"a">>
ShortLine == {Section(1, A), Section(2, A), Section(3, <<"b">>), Section(2, <<"a", "b">>),
              P("x", <<"u">>), P("x", <<"v", "#", "w">>), Text(<<"#">>)}
ShortFile == SeqsUpTo(ShortLine, 4) \cup
             {<<Section(1, A)>> \o f :
                 f \in SeqsUpTo({Cont(P("x", <<"u", "#">>)), Cont(Text(<<"#">>)), Cont(Text(<< >>)),
                                 Cont(Section(2, A)), P("x", <<"v", "#", "w">>), Section(2, A)}, 4)} \cup
             {<<Section(1, A)>> \o f :
                 f \in SeqsUpTo({Cont(Text(<<"y">>)), Text(<<"=", "v">>), Cont(Text(<<"=", "#">>)),
                                 Cont(Text(<<"[">>)), Text(<<"[", "b", "]">>)}, 3)} \cup
             SeqsUpTo({Section(1, A), Section(2, A), Section(3, A)}, 6)

-----------------------------------------------------------------------------
(* Whole files: each part of the sample in its variants.                   *)

Module(name, rest) == <<Section(3, <<name>>)>> \o rest
Good == <<P("class", <<"C">>), P("module", <<"so">>)>>
Mq == {Module("q", Good), Module("q", Good) \o Module("s", Good),
       Module("q", Good) \o Module("q", Good), Module("q", Tail(Good)), << >>}
Sapi == {<< >>, Module("php", Good), Module("php", <<Good[1]>>)}
Listen(name, text) == <<Section(3, <<name>>), P("listen", text)>>
Servers == {Listen("http", <<":", "80">>),
            Listen("http", <<":", "80">>) \o <<P("query-limit", <<"1", "M">>), P("header-limit", <<"8", "K">>)>>,
            Listen("http", <<":", "80">>) \o Listen("https", <<":", "65616">>),
            Listen("http", <<"lo", ":", "80">>) \o Listen("https", <<"eth", ":", "80">>),
            Listen("ws", <<":", "80">>), Listen("ws", <<"80">>) \o Listen("http", <<":", "80">>),
            Listen("http", <<"80">>), Listen("http", << >>), Listen("http", <<":", "x">>),
            Listen("http", <<":", "3000000000">>), Listen("http", <<":", "-", "80">>),
            Listen("http", <<":", "80">>) \o <<P("query-limit", <<"2^64">>)>>}
Pools == {<< >>, <<P("thread-workers", <<"-", "1">>)>>,
          <<P("thread-workers", <<"2">>), P("thread-limit", <<"-", "1">>)>>} \cup
         {<<P("thread-workers", <<w>>), P("thread-limit", <<l>>), P("core-bind", b), P("core-exclude", e)>> :
             w \in {"0", "2", "x", "2^64"}, l \in {"1", "10"},
             b \in {<< >>, <<"1", "-", "2">>, <<"2", "-", "1">>, <<"1", "-">>, <<"0", ",", "x">>},
             e \in {<< >>, <<"0", "-", "2">>, <<"1", "-", "0">>}}
Channel(name, uri, rest) ==
    <<Section(2, name), P("channel-endpoint", <<"q", ":", "/">> \o uri)>> \o rest
S == "/"
OneChannel == Channel(<<"c">>, <<S, "a">>, <<P("queue-limit-size", <<"2">>)>>)
ChannelSets == {OneChannel, OneChannel \o OneChannel,
             OneChannel \o <<Section(2, <<"d">>), P("channel-endpoint", <<"s", ":", S, S, "a", S>>)>>,
             OneChannel \o Channel(<<"d">>, <<S, "b">>, <<P("channel-sapi", <<"php", ":", S, S, "x">>)>>),
             OneChannel \o Channel(<<"d", "e">>, <<"a">>, <<P("channel-sapi", <<"php">>)>>),
             <<Section(2, <<"c">>)>>, << >>}

Whole(mq, sapi, server, threads, channel) ==
    <<Section(1, <<"fiber">>), Section(2, <<"server">>)>> \o server
    \o <<Section(2, <<"pool">>)>> \o threads \o <<Section(2, <<"mq">>)>> \o mq
    \o <<Section(2, <<"sapi">>)>> \o sapi \o <<Section(1, <<"channel">>)>> \o channel

Mq1 == Module("q", Good)
Server1 == Listen("http", <<":", "80">>)
WholeFile ==
    {Whole(m, p, Server1, << >>, c) : m \in Mq, p \in Sapi, c \in ChannelSets} \cup
    {Whole(Mq1, << >>, s, t, OneChannel) : s \in Servers, t \in {<< >>, <<P("thread-workers", <<"0">>)>>}} \cup
    {Whole(Mq1, << >>, Server1, t, OneChannel) : t \in Pools}

-----------------------------------------------------------------------------
(* Two channels with every pair of these endpoints, and the requests.      *)

Endpoint == {<<S>>, <<S, "a">>, <<S, "a", S>>, <<S, "b", "a">>, <<S, "a", S, "b">>, <<S, "a", S, "a", "b">>,
             <<S, "a", S, "?", S, "b">>, <<S, "a", S, "*">>, <<S, "a", "b", "?", S, "a">>,
             <<S, "a", "?", "?", S, "b">>, <<S, "?", S, "b">>, <<S, "*">>, <<"a">>, <<S, "a", "b", "a">>}
RouteFile == {Whole(Mq1, << >>, Server1, << >>, Channel(<<"c">>, e, << >>) \o Channel(<<"d">>, f, << >>)) :
                 e \in Endpoint, f \in Endpoint}
MCUri == {<<S>> \o u : u \in SeqsUpTo({S, "a", "b"}, 4)} \cup
         {<<S, "a", S, "?", "b">>, <<S, "a", "?", "b">>, <<S, "a", S, "b", S, "?", "a">>}

-----------------------------------------------------------------------------
MCInput ==
    {[args |-> << >>, disk |-> ("fiber.config" :> f)] : f \in ShortFile \cup WholeFile \cup RouteFile} \cup
    {[args |-> a, disk |-> ("fiber.config" :> <<P("x", << >>)>>) @@ ("one" :> <<Section(1, A)>>)] :
        a \in SeqsUpTo({"", "one", "two"}, 2)}
=============================================================================
