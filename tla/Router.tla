------------------------------- MODULE Router -------------------------------
(***************************************************************************)
(* RouterImpl (src/kernel/main/impl/routerimpl.h, routerimpl.cpp): the     *)
(* table of endpoints and the look-up of the channel of a request.         *)
(*                                                                         *)
(* A path is a sequence of characters.  The table is an unordered_multimap *)
(* with its own hash and its own equality, and the equality is no          *)
(* equivalence: "?" and "*" are wildcards, on either side, and a path      *)
(* equals each of its prefixes.  find() returns a route with the hash of   *)
(* the request and equal to it; which one, when there are several, depends *)
(* on the order of the buckets.  The path of a request keeps its query:    *)
(* http_parse_request looks for the "?" in an empty range                  *)
(* (src/kernel/net/impl/httpimpl.cpp:42).                                  *)
(***************************************************************************)
EXTENDS Naturals, Sequences, SequencesExt, FiniteSetsExt

CONSTANT HashLength     \* sizeof(size_t)

ASSUME HashLengthAssumption == HashLength \in Nat \ {0}

VARIABLES
    Routes,     \* set of [path, channel]
    lookup      \* the last look-up: [uri, status, channel]

routerVars == <<Routes, lookup>>

Least(S) == IF S = {} THEN 0 ELSE Min(S)

\* cpathstring::hash: the first segment, at most HashLength characters of it.
\* Each character is shifted once it is in, so a full word loses its first.
hash(p) ==
    LET seg == IF p # << >> /\ p[1] = "/" THEN Tail(p) ELSE p
        slash == Least({i \in DOMAIN seg : seg[i] = "/"})
        word == SubSeq(seg, 1, Min({HashLength,
                                    IF slash = 0 THEN Len(seg) ELSE slash - 1}))
    IN  IF Len(word) = HashLength THEN Tail(word) ELSE word

\* Bug: "?" goes on past the end of its segment.
Turn_AcrossSegments(l, r, at) ==
    LET i == at[1]
        j == at[2]
    IN  IF i > Len(l) \/ j > Len(r) THEN at
        ELSE IF l[i] = r[j] THEN <<i + 1, j + 1>>
        ELSE IF l[i] = "?" THEN <<i, j + 1>>
        ELSE IF r[j] = "?" THEN <<i + 1, j>>
        ELSE at

\* One turn of the loop of cpathstring::compare, with its two cursors as indices.
\* They stay when the loop is over or its body returns.
Turn(l, r, at) ==
    LET i == at[1]
        j == at[2]
    IN  IF i > Len(l) \/ j > Len(r) THEN at
        ELSE IF l[i] = r[j] THEN <<i + 1, j + 1>>
        ELSE IF l[i] = "?" THEN IF r[j] # "/" THEN <<i, j + 1>> ELSE <<i + 1, j>>
        ELSE IF r[j] = "?" THEN IF l[i] # "/" THEN <<i + 1, j>> ELSE <<i, j + 1>>
        ELSE at

\* The cursors after each turn; there are no more turns than characters.
Cursors(l, r) ==
    LET at[n \in 0..(Len(l) + Len(r))] == IF n = 0 THEN <<1, 1>> ELSE Turn(l, r, at[n - 1])
    IN  at

\* cpathstring::compare: the loop has come to an end of a path, or met a "*".
compare(l, r) ==
    LET at == Cursors(l, r)[Len(l) + Len(r)]
    IN  at[1] > Len(l) \/ at[2] > Len(r) \/ "*" \in {l[at[1]], r[at[2]]}

\* Bug: equal hashes are taken for equal paths.
find_HashOnly(uri) == {r \in Routes : hash(r.path) = hash(uri)}

\* What Routes.find(uri) may return.
find(uri) == {r \in Routes : hash(r.path) = hash(uri) /\ compare(r.path, uri)}

\* RouterImpl::AddRoute, once the channel has been created.
AddRoute(p, channel) ==
    /\ p # << >>
    /\ Routes' = Routes \cup {[path |-> p, channel |-> channel]}
    /\ UNCHANGED lookup

\* RouterImpl::Process, up to the call of the channel or the answer 404.
Process(uri) ==
    /\ \/ \E r \in find(uri) :
             lookup' = [uri |-> uri, status |-> "found", channel |-> r.channel]
       \/ /\ find(uri) = {}
          /\ lookup' = [uri |-> uri, status |-> "404", channel |-> << >>]
    /\ UNCHANGED Routes

RouterInit ==
    /\ Routes = {}
    /\ lookup = [uri |-> << >>, status |-> "none", channel |-> << >>]

-----------------------------------------------------------------------------
(* What an endpoint means for requests without wildcards, by segments.     *)

Literal(p) == \A i \in DOMAIN p : p[i] \notin {"?", "*"}

\* The places around the segments of a path, and the k-th of them, from 0.
Cuts(p) == {0, Len(p) + 1} \cup {i \in DOMAIN p : p[i] = "/"}
Cut(p, k) == CHOOSE c \in Cuts(p) : Cardinality({d \in Cuts(p) : d < c}) = k

Segments(p) ==
    [k \in 1..(Cardinality(Cuts(p)) - 1) |-> SubSeq(p, Cut(p, k - 1) + 1, Cut(p, k) - 1)]

\* The part of an endpoint that says something: "*" stands for the rest of a path.
BeforeStar(p) ==
    LET star == Least({i \in DOMAIN p : p[i] = "*"})
    IN  IF star = 0 THEN p ELSE SubSeq(p, 1, star - 1)

\* "?", or several of them, stands for the rest of its segment.  The shorter of the
\* two paths decides how far they have to agree.
SegmentMatches(p, u, lastOfPattern, lastOfUri) ==
    LET any == Least({i \in DOMAIN p : p[i] = "?"})
        fixed == IF any = 0 THEN p ELSE SubSeq(p, 1, any - 1)
    IN  \/ lastOfUri /\ IsPrefix(u, fixed)
        \/ /\ IsPrefix(fixed, u)
           /\ \/ any = 0 /\ (Len(u) = Len(fixed) \/ lastOfPattern)
              \/ any # 0 /\ (lastOfUri \/ \A i \in any..Len(p) : p[i] = "?")

Matches(pattern, uri) ==
    LET ps == Segments(BeforeStar(pattern))
        us == Segments(uri)
    IN  \A k \in DOMAIN ps \cap DOMAIN us :
            SegmentMatches(ps[k], us[k], k = Len(ps), k = Len(us))

\* The part of a path that is hashed holds no wildcard.
HashedLiteral(p) ==
    \A i \in DOMAIN p :
        (\A j \in 2..i : p[j] # "/") /\ i <= HashLength + 1 => p[i] \notin {"?", "*"}

\* The first segment is there to its end, or as far as it is hashed.
FirstSegmentWhole(p) ==
    p # << >> /\ p[1] = "/" /\ (Len(p) > HashLength \/ \E i \in 2..Len(p) : p[i] = "/")

\* A request is given to a channel only if its path matches the channel's
\* endpoint segment by segment, and 404 is answered only if no endpoint with a
\* first segment that is literal where it is hashed matches: hash and compare
\* agree there.  The endpoint "/" has no first segment, and the hash of none.
LookupMatchesPattern ==
    Literal(lookup.uri) =>
        /\ lookup.status = "found" =>
              \E r \in Routes : r.channel = lookup.channel /\ Matches(r.path, lookup.uri)
        /\ lookup.status = "404" /\ FirstSegmentWhole(lookup.uri) =>
              \A r \in Routes : HashedLiteral(r.path) /\ FirstSegmentWhole(r.path) =>
                  ~Matches(r.path, lookup.uri)

\* Endpoints without wildcards, none the beginning of another, do not get in
\* each other's way: a request below one of them, with or without a query, is
\* given to that channel, whatever the order of the table.  Below "/" there is
\* nothing: its hash is that of an empty segment.
OwnEndpointServes ==
    lookup.status # "none" =>
        \A r \in Routes :
            /\ FirstSegmentWhole(r.path) /\ IsPrefix(r.path, lookup.uri)
            /\ \A q \in Routes : Literal(q.path)
            /\ \A q \in Routes \ {r} : ~IsPrefix(q.path, r.path) /\ ~IsPrefix(r.path, q.path)
            => lookup.channel = r.channel
=============================================================================
