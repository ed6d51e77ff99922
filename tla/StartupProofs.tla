---------------------------- MODULE StartupProofs ---------------------------
(***************************************************************************)
(* Proofs about the start of the server, for every command line and every  *)
(* file:                                                                   *)
(*   - MapIsATree: the flat map of sections stays a tree;                  *)
(*   - ReaderIsFaithful: the map is what a well nested file means;         *)
(*   - StartedServerIsComplete: a server that has started has the ports,   *)
(*     workers and routes that its file asks for;                          *)
(*   - ServerIsAsDeclared: its ports, limits and numbers of workers are    *)
(*     the ones the file gives;                                            *)
(*   - LookupsMatchPatterns: a request is given to a channel only if its   *)
(*     path matches the endpoint, and 404 answered only if none matches;   *)
(*   - OwnEndpointsServe: literal endpoints do not hide each other.        *)
(*                                                                         *)
(* The reader joins the names of the open sections, and the pieces of a    *)
(* continued line, with FlattenSeq, so the proofs need induction over      *)
(* lengths and line numbers.  SetInduction of RouterProofs provides it: a  *)
(* set of numbers with 0 and the successor of each of its members holds    *)
(* all of them.                                                            *)
(***************************************************************************)
EXTENDS Startup, RouterProofs, QueueFacts, FiniteSetTheorems, SequenceTheorems, TLAPS

-----------------------------------------------------------------------------
(* What FlattenSeq computes.                                               *)

\* f joins the first n members of q, step by step.
Joins(f, q, n) == f = [i \in 1 .. n |-> IF i = 1 THEN q[i] ELSE f[i - 1] \o q[i]]

\* Its values, one by one.
LEMMA JoinsValues ==
    ASSUME NEW f, NEW q, NEW n \in Nat, Joins(f, q, n)
    PROVE  \A i \in 1 .. n : f[i] = IF i = 1 THEN q[i] ELSE f[i - 1] \o q[i]
BY DEF Joins

\* There is such a function.
LEMMA JoinsExists == \A q : \A n \in Nat : \E f : Joins(f, q, n)
<1> SUFFICES ASSUME NEW q PROVE \A n \in Nat : \E f : Joins(f, q, n)
  OBVIOUS
<1> DEFINE P == {n \in Nat : \E f : Joins(f, q, n)}
<1>1. 0 \in P
  <2>1. Joins([i \in {} |-> q], q, 0)
    BY DEF Joins
  <2> QED BY <2>1
<1>2. \A n \in Nat : n \in P => n + 1 \in P
  <2> SUFFICES ASSUME NEW n \in Nat, NEW f, Joins(f, q, n) PROVE \E g : Joins(g, q, n + 1)
    OBVIOUS
  <2> DEFINE g == [i \in 1 .. n + 1 |->
                     IF i <= n THEN f[i] ELSE IF i = 1 THEN q[i] ELSE f[i - 1] \o q[i]]
  <2>1. \A i \in 1 .. n : f[i] = IF i = 1 THEN q[i] ELSE f[i - 1] \o q[i]
    BY JoinsValues
  <2>2. ASSUME NEW i \in 1 .. n + 1 PROVE g[i] = IF i = 1 THEN q[i] ELSE g[i - 1] \o q[i]
    <3>1. CASE i = 1
      <4>1. g[1] = q[1]
        BY <2>1
      <4> QED BY <3>1, <4>1
    <3>2. CASE i # 1
      <4>1. i - 1 \in 1 .. n + 1 /\ i - 1 <= n
        BY <3>2
      <4>2. g[i - 1] = f[i - 1]
        BY <4>1
      <4>3. CASE i <= n
        <5>1. i \in 1 .. n /\ g[i] = f[i]
          BY <4>3
        <5>2. f[i] = f[i - 1] \o q[i]
          BY <2>1, <3>2, <5>1
        <5> QED BY <3>2, <4>2, <5>1, <5>2
      <4>4. CASE ~(i <= n)
        <5>1. g[i] = f[i - 1] \o q[i]
          BY <3>2, <4>4
        <5> QED BY <3>2, <4>2, <5>1
      <4> QED BY <4>3, <4>4
    <3> QED BY <3>1, <3>2
  <2>3. g = [i \in 1 .. n + 1 |-> g[i]]
    OBVIOUS
  <2> HIDE DEF g
  <2>4. Joins(g, q, n + 1)
    BY <2>2, <2>3 DEF Joins
  <2> QED BY <2>4
<1> HIDE DEF P
<1>3. Nat \subseteq P
  BY <1>1, <1>2, SetInduction
<1> QED BY <1>3 DEF P

\* Two of them agree as long as what they join does.
LEMMA JoinsAgree ==
    ASSUME NEW f, NEW g, NEW q, NEW r, NEW n \in Nat, NEW m \in Nat, n <= m,
           Joins(f, q, n), Joins(g, r, m), \A i \in 1 .. n : q[i] = r[i]
    PROVE  \A i \in 1 .. n : f[i] = g[i]
<1> DEFINE P == {k \in Nat : k \in 1 .. n => f[k] = g[k]}
<1>1. 0 \in P
  OBVIOUS
<1>2. \A k \in Nat : k \in P => k + 1 \in P
  <2> SUFFICES ASSUME NEW k \in Nat, k \in 1 .. n => f[k] = g[k], k + 1 \in 1 .. n
               PROVE  f[k + 1] = g[k + 1]
    OBVIOUS
  <2>1. PICK i \in 1 .. n : i = k + 1
    OBVIOUS
  <2>2. i \in 1 .. m /\ i - 1 = k /\ (i # 1 => k \in 1 .. n)
    BY <2>1
  <2>3. f[i] = IF i = 1 THEN q[i] ELSE f[k] \o q[i]
    BY <2>2, JoinsValues
  <2>4. g[i] = IF i = 1 THEN r[i] ELSE g[k] \o r[i]
    BY <2>2, JoinsValues
  <2>5. f[i] = g[i]
    BY <2>2, <2>3, <2>4
  <2> QED BY <2>1, <2>5
<1> HIDE DEF P
<1>3. Nat \subseteq P
  BY <1>1, <1>2, SetInduction
<1> QED BY <1>3 DEF P

\* FlattenSeq is the last value of such a function.
LEMMA FlattenJoins ==
    ASSUME NEW q, Len(q) \in Nat \ {0}
    PROVE  \E f : Joins(f, q, Len(q)) /\ FlattenSeq(q) = f[Len(q)]
<1> DEFINE F == CHOOSE f : Joins(f, q, Len(q))
<1>1. Joins(F, q, Len(q))
  <2>1. \E f : Joins(f, q, Len(q))
    BY JoinsExists
  <2> QED BY <2>1
<1>2. FlattenSeq(q) = F[Len(q)]
  BY DEF FlattenSeq, Joins
<1> QED BY <1>1, <1>2

\* A joined name, or text, is a sequence.
LEMMA FlattenType ==
    ASSUME NEW S, NEW q \in Seq(Seq(S))
    PROVE  FlattenSeq(q) \in Seq(S)
<1>1. CASE Len(q) = 0
  <2>1. FlattenSeq(q) = q /\ q = <<>>
    BY <1>1 DEF FlattenSeq
  <2>2. <<>> \in Seq(S)
    OBVIOUS
  <2> QED BY <2>1, <2>2
<1>2. CASE Len(q) # 0
  <2>1. Len(q) \in Nat \ {0}
    BY <1>2
  <2>2. PICK f : Joins(f, q, Len(q)) /\ FlattenSeq(q) = f[Len(q)]
    BY <2>1, FlattenJoins
  <2> DEFINE T == Seq(S)
             n == Len(q)
             P == {k \in Nat : k \in 1 .. n => f[k] \in T}
  <2>3. 0 \in P
    OBVIOUS
  <2>4. ASSUME NEW k \in Nat, k \in P PROVE k + 1 \in P
    <3>0. k \in 1 .. Len(q) => f[k] \in Seq(S)
      BY <2>4
    <3> SUFFICES ASSUME k + 1 \in 1 .. Len(q) PROVE f[k + 1] \in Seq(S)
      <4> HIDE DEF T, n
      <4> QED BY DEF n, T
    <3>1. PICK i \in 1 .. Len(q) : i = k + 1
      OBVIOUS
    <3>2. i - 1 = k /\ (i # 1 => k \in 1 .. Len(q))
      BY <2>1, <3>1
    <3>3. f[i] = IF i = 1 THEN q[i] ELSE f[k] \o q[i]
      BY <2>1, <2>2, <3>2, JoinsValues
    <3>4. q[i] \in Seq(S)
      OBVIOUS
    <3>5. CASE i = 1
      BY <3>1, <3>3, <3>4, <3>5
    <3>6. CASE i # 1
      <4>1. PICK a \in Seq(S), b \in Seq(S) : f[k] = a /\ q[i] = b
        BY <3>0, <3>2, <3>4, <3>6
      <4>2. a \o b \in Seq(S)
        OBVIOUS
      <4> QED BY <3>1, <3>3, <3>6, <4>1, <4>2
    <3> QED BY <3>5, <3>6
  <2> HIDE DEF P
  <2>5. Nat \subseteq P
    BY <2>3, <2>4, SetInduction
  <2> QED BY <2>1, <2>2, <2>5 DEF P
<1> QED BY <1>1, <1>2

\* A section's dotted name is that of its parent, and its own behind it.
LEMMA FlattenAppend ==
    ASSUME NEW q \in Seq(Seq(STRING)), NEW s \in Seq(STRING)
    PROVE  FlattenSeq(Append(q, s)) = FlattenSeq(q) \o s
<1> DEFINE r == Append(q, s)
<1>0. PICK n \in Nat : Len(q) = n
  OBVIOUS
<1>1. /\ r \in Seq(Seq(STRING)) /\ Len(r) = n + 1 /\ r[n + 1] = s
      /\ \A i \in 1 .. n : q[i] = r[i]
  BY <1>0
<1> HIDE DEF r
<1>2. PICK g : Joins(g, r, n + 1) /\ FlattenSeq(r) = g[n + 1]
  <2>1. Len(r) \in Nat \ {0}
    BY <1>1
  <2>2. \E g : Joins(g, r, Len(r)) /\ FlattenSeq(r) = g[Len(r)]
    BY <2>1, FlattenJoins, Zenon
  <2> QED BY <1>1, <2>2
<1>3. n + 1 \in Nat /\ n + 1 \in 1 .. n + 1 /\ (n + 1) - 1 = n
  OBVIOUS
<1>4. g[n + 1] = IF n + 1 = 1 THEN s ELSE g[n] \o s
  BY <1>1, <1>2, <1>3, JoinsValues
<1>5. CASE n = 0
  <2>1. FlattenSeq(q) = <<>>
    <3>1. q = <<>>
      BY <1>0, <1>5
    <3> QED BY <1>0, <1>5, <3>1 DEF FlattenSeq
  <2>2. <<>> \o s = s
    OBVIOUS
  <2> QED BY <1>2, <1>4, <1>5, <2>1, <2>2 DEF r
<1>6. CASE n # 0
  <2>1. PICK f : Joins(f, q, n) /\ FlattenSeq(q) = f[n]
    BY <1>0, <1>6, FlattenJoins
  <2>2. \A i \in 1 .. n : f[i] = g[i]
    <3>1. PICK m \in Nat : n <= m /\ Joins(g, r, m)
      <4>1. n <= n + 1
        OBVIOUS
      <4> QED BY <1>2, <1>3, <4>1, Zenon
    <3>2. Joins(f, q, n) /\ \A i \in 1 .. n : q[i] = r[i]
      BY <1>1, <2>1
    <3> QED BY <3>1, <3>2, JoinsAgree
  <2>3. f[n] = g[n] /\ n + 1 # 1
    <3>1. n \in 1 .. n /\ n + 1 # 1
      BY <1>6
    <3> QED BY <2>2, <3>1
  <2> QED BY <1>2, <1>4, <2>1, <2>3 DEF r
<1> QED BY <1>5, <1>6

-----------------------------------------------------------------------------
(* A logical line.                                                         *)

\* The number of lines it takes.
LEMMA LineEndType ==
    ASSUME NEW ls \in Seq(Line), ls # <<>>
    PROVE  LineEnd(ls) \in 1 .. Len(ls)
<1> DEFINE ends == {i \in DOMAIN ls : ~ls[i].brk}
<1>1. ends \in SUBSET Nat /\ ends \subseteq 1 .. Len(ls) /\ Len(ls) \in 1 .. Len(ls)
  OBVIOUS
<1>2. LineEnd(ls) = IF ends = {} THEN Len(ls) ELSE Min(ends)
  BY DEF LineEnd
<1> HIDE DEF ends
<1>3. ends # {} => Min(ends) \in ends
  BY <1>1, LeastMember
<1> QED BY <1>1, <1>2, <1>3

\* A set of natural numbers with an upper bound has a greatest member.
LEMMA GreatestMember ==
    ASSUME NEW S \in SUBSET Nat, S # {}, NEW m \in Nat, \A k \in S : k <= m
    PROVE  Max(S) \in S /\ \A k \in S : k <= Max(S)
<1>1. \E x \in S : \A k \in S : x >= k
  <2> DEFINE U == {u \in Nat : \A k \in S : k <= u}
  <2>1. U \in SUBSET Nat /\ U # {}
    OBVIOUS
  <2>2. PICK u \in U : \A v \in U : u <= v
    <3> HIDE DEF U
    <3> QED BY <2>1, LeastMember
  <2>3. u \in S
    <3> SUFFICES ASSUME u \notin S PROVE FALSE
      OBVIOUS
    <3>1. \A k \in S : k < u
      OBVIOUS
    <3>2. u # 0
      <4>1. PICK k \in S : TRUE
        OBVIOUS
      <4>2. k \in Nat /\ k < u
        BY <3>1
      <4> QED BY <4>2
    <3>3. u - 1 \in U
      BY <3>1, <3>2
    <3> QED BY <2>2, <3>3
  <2> QED BY <2>3
<1>2. Max(S) \in S /\ \A k \in S : Max(S) >= k
  BY <1>1 DEF Max
<1> QED BY <1>2

\* A text without its comment is a text.
LEMMA RemoveCommentType ==
    ASSUME NEW S, NEW t \in Seq(S)
    PROVE  RemoveComment(t) \in Seq(S)
<1> DEFINE hashes == {i \in DOMAIN t : t[i] = "#"}
<1>1. RemoveComment(t) = IF hashes = {} THEN t ELSE SubSeq(t, 1, Max(hashes) - 1)
  BY DEF RemoveComment
<1>2. Len(t) \in Nat /\ hashes \in SUBSET Nat /\ hashes \subseteq 1 .. Len(t) /\ \A k \in hashes : k <= Len(t)
  OBVIOUS
<1> HIDE DEF hashes
<1>3. hashes # {} => Max(hashes) \in 1 .. Len(t)
  BY <1>2, GreatestMember
<1>4. \A n \in 1 .. Len(t) : SubSeq(t, 1, n - 1) \in Seq(S)
  BY <1>2
<1> QED BY <1>1, <1>3, <1>4

\* A joined line is text.
LEMMA JoinedType ==
    ASSUME NEW ls \in Seq(Line), ls # <<>>
    PROVE  FlattenSeq([i \in 1..LineEnd(ls) |-> Piece(ls, i)]) \in Seq(STRING)
<1> DEFINE T == Seq(STRING)
           n == LineEnd(ls)
           parts == [i \in 1..n |-> Piece(ls, i)]
<1>1. n \in 1 .. Len(ls) /\ n \in Nat
  BY LineEndType
<1>2. ASSUME NEW i \in 1..n PROVE Piece(ls, i) \in T
  <2>1. PICK l \in Line : l = ls[i]
    BY <1>1
  <2>2. l.raw \in Seq(STRING)
    BY DEF Line
  <2>3. RemoveComment(l.raw) \in Seq(STRING)
    BY <2>2, RemoveCommentType
  <2> QED BY <2>1, <2>2, <2>3 DEF Piece
<1>3. parts \in [1..n -> T]
  BY <1>2
<1>4. parts \in Seq(T)
  <2> HIDE DEF T, n, parts
  <2> QED BY <1>1, <1>3
<1> HIDE DEF parts
<1>5. FlattenSeq(parts) \in Seq(STRING)
  BY <1>4, FlattenType
<1> QED BY <1>5 DEF parts

\* What a line that is a section says.
LEMMA SectionShape ==
    ASSUME NEW raw \in Seq(STRING), IsSection(raw)
    PROVE  /\ SectionOf(raw).name \in Seq(STRING) /\ SectionOf(raw).text = << >>
           /\ SectionOf(raw).level \in Nat \ {0}
<1> DEFINE B == {i \in DOMAIN raw : raw[i] # "["}
           C == {i \in DOMAIN raw : raw[i] = "]"}
           level == Min(B) - 1
           close == Min(C)
           name == RemoveComment(SubSeq(raw, level + 1, close - 1))
<1>1. PICK c \in 1 .. Len(raw) : raw[c] = "]"
  BY DEF IsSection, ToSet
<1>2. Len(raw) \in Nat /\ raw[1] = "[" /\ "]" # "["
  BY DEF IsSection
<1>3. /\ B \in SUBSET Nat /\ C \in SUBSET Nat /\ B # {} /\ C # {}
      /\ C \subseteq 1 .. Len(raw) /\ B \subseteq 2 .. Len(raw)
  BY <1>1, <1>2
<1>4. SectionOf(raw) = [kind |-> "section", level |-> level, name |-> name, text |-> << >>]
  BY DEF SectionOf
<1> HIDE DEF B, C
<1>5. Min(B) \in B /\ Min(C) \in C
  BY <1>3, LeastMember
<1>6. level \in Nat \ {0} /\ level + 1 \in 1 .. Len(raw) /\ close - 1 \in 0 .. Len(raw)
  <2>1. PICK b \in 2 .. Len(raw) : b = Min(B)
    BY <1>3, <1>5
  <2>2. PICK d \in 1 .. Len(raw) : d = Min(C)
    BY <1>3, <1>5
  <2>3. level = b - 1 /\ close = d
    BY <2>1, <2>2
  <2> HIDE DEF level, close
  <2> QED BY <1>2, <2>3
<1>7. SubSeq(raw, level + 1, close - 1) \in Seq(STRING)
  <2> HIDE DEF level, close
  <2> QED BY <1>2, <1>6
<1>8. name \in Seq(STRING)
  BY <1>7, RemoveCommentType
<1> HIDE DEF level, name
<1> QED BY <1>4, <1>6, <1>8

\* What a line that is a property says.
LEMMA PropertyShape ==
    ASSUME NEW raw \in Seq(STRING), IsProperty(raw)
    PROVE  /\ PropertyOf(raw).name \in Seq(STRING) /\ PropertyOf(raw).text \in Seq(STRING)
           /\ PropertyOf(raw).kind = "property"
<1>1. Len(raw) \in Nat /\ Len(raw) > 1
  BY DEF IsProperty
<1>2. <<raw[1]>> \in Seq(STRING) /\ SubSeq(raw, 3, Len(raw)) \in Seq(STRING)
  BY <1>1
<1> QED BY <1>2 DEF PropertyOf

\* A section has a name and a level, and every logical line has a text.
LEMMA LogicalShape ==
    ASSUME NEW ls \in Seq(Line), ls # <<>>
    PROVE  /\ LogicalLine(ls).name \in Seq(STRING) /\ LogicalLine(ls).text \in Seq(STRING)
           /\ LogicalLine(ls).kind = "section" => LogicalLine(ls).level \in Nat \ {0}
<1>1. PICK raw \in Seq(STRING) : raw = FlattenSeq([i \in 1..LineEnd(ls) |-> Piece(ls, i)])
  BY JoinedType
<1>2. LogicalLine(ls) = IF IsSection(raw) THEN SectionOf(raw)
                        ELSE IF IsProperty(raw) THEN PropertyOf(raw) ELSE TextOf(raw)
  BY <1>1 DEF LogicalLine
<1>3. << >> \in Seq(STRING)
  OBVIOUS
<1>4. CASE IsSection(raw)
  BY <1>2, <1>3, <1>4, SectionShape
<1>5. CASE ~IsSection(raw) /\ IsProperty(raw)
  BY <1>2, <1>5, PropertyShape
<1>6. CASE ~IsSection(raw) /\ ~IsProperty(raw)
  BY <1>2, <1>3, <1>6 DEF TextOf
<1> QED BY <1>4, <1>5, <1>6

-----------------------------------------------------------------------------
(* What a file means: its sections and their names.                        *)

\* The greatest member of a set, or 0 when it is empty.
LEMMA GreatestOrZero ==
    ASSUME NEW S \in SUBSET Nat, NEW m \in Nat, \A k \in S : k <= m
    PROVE  /\ Max({0} \cup S) \in Nat
           /\ Max({0} \cup S) # 0 => Max({0} \cup S) \in S
           /\ \A k \in S : k <= Max({0} \cup S)
<1> DEFINE T == {0} \cup S
<1>1. T \in SUBSET Nat /\ T # {} /\ \A k \in T : k <= m
  OBVIOUS
<1>2. Max(T) \in T /\ \A k \in T : k <= Max(T)
  <2> HIDE DEF T
  <2> QED BY <1>1, GreatestMember
<1>3. Max(T) \in Nat
  <2> HIDE DEF T
  <2> QED BY <1>1, <1>2
<1>4. Max(T) # 0 => Max(T) \in S
  BY <1>2
<1> QED BY <1>2, <1>3, <1>4

\* It is the member that no other one exceeds.
LEMMA GreatestIs ==
    ASSUME NEW S \in SUBSET Nat, NEW h \in S, \A k \in S : k <= h
    PROVE  Max({0} \cup S) = h
<1>1. h \in Nat
  OBVIOUS
<1>2. Max({0} \cup S) \in Nat /\ (Max({0} \cup S) # 0 => Max({0} \cup S) \in S) /\ h <= Max({0} \cup S)
  BY <1>1, GreatestOrZero
<1> QED BY <1>1, <1>2

-----------------------------------------------------------------------------
(* Names.                                                                  *)

\* f gives each member the name of an earlier one, its parent, and an own one.
Named(f, S, par, own) ==
    f = [i \in {0} \cup S |-> IF i = 0 THEN << >> ELSE f[par[i]] \o own[i]]

\* There are such names when parents come first.
LEMMA NamesExist ==
    ASSUME NEW S \in SUBSET (Nat \ {0}), NEW par, NEW own, \A i \in S : par[i] \in {0} \cup S /\ par[i] < i,
           NEW m \in Nat, \A i \in S : i <= m
    PROVE  \E f : Named(f, S, par, own)
<1> DEFINE T(n) == {i \in S : i <= n}
           P == {n \in Nat : \E f : Named(f, T(n), par, own)}
<1>1. 0 \in P
  <2>1. T(0) = {}
    <3> SUFFICES ASSUME NEW i \in S, i <= 0 PROVE FALSE
      OBVIOUS
    <3>1. i \in Nat /\ i # 0
      OBVIOUS
    <3> QED BY <3>1
  <2>2. Named([i \in {0} |-> << >>], {}, par, own)
    BY DEF Named
  <2> QED BY <2>1, <2>2
<1>2. \A n \in Nat : n \in P => n + 1 \in P
  <2> SUFFICES ASSUME NEW n \in Nat, NEW f, Named(f, T(n), par, own)
               PROVE  \E g : Named(g, T(n + 1), par, own)
    <3> HIDE DEF T
    <3> QED OBVIOUS
  <2>1. /\ f[0] = << >> /\ \A i \in T(n) : f[i] = f[par[i]] \o own[i]
    BY DEF Named
  <2> DEFINE g == [i \in {0} \cup T(n + 1) |-> IF i \in {0} \cup T(n) THEN f[i] ELSE f[par[i]] \o own[i]]
  <2>2. \A i \in T(n + 1) : par[i] \in {0} \cup T(n) /\ i # 0
    <3> SUFFICES ASSUME NEW i \in S, i <= n + 1 PROVE par[i] \in {0} \cup T(n) /\ i # 0
      OBVIOUS
    <3>1. i \in Nat /\ i # 0 /\ par[i] \in Nat /\ par[i] < i
      <4>1. i \in Nat /\ i # 0 /\ par[i] \in {0} \cup S /\ par[i] < i
        OBVIOUS
      <4>2. \A k \in {0} \cup S : k \in Nat
        OBVIOUS
      <4> HIDE DEF g, T
      <4> QED BY <4>1, <4>2
    <3>2. par[i] <= n
      BY <3>1
    <3> QED BY <3>1, <3>2
  <2>3. \A i \in {0} \cup T(n) : g[i] = f[i]
    OBVIOUS
  <2>4. \A i \in T(n + 1) : g[i] = g[par[i]] \o own[i]
    <3> SUFFICES ASSUME NEW i \in T(n + 1) PROVE g[i] = g[par[i]] \o own[i]
      OBVIOUS
    <3>1. g[par[i]] = f[par[i]] /\ i # 0
      BY <2>2, <2>3
    <3>2. g[i] = f[par[i]] \o own[i]
      <4> HIDE DEF T
      <4>1. g[i] = IF i \in {0} \cup T(n) THEN f[i] ELSE f[par[i]] \o own[i]
        OBVIOUS
      <4> HIDE DEF g
      <4> QED BY <2>1, <3>1, <4>1
    <3> HIDE DEF g, T
    <3> QED BY <3>1, <3>2
  <2>5. g[0] = << >>
    BY <2>1, <2>3
  <2>6. g = [i \in {0} \cup T(n + 1) |-> g[i]]
    OBVIOUS
  <2> HIDE DEF g
  <2>7. Named(g, T(n + 1), par, own)
    <3> DEFINE U == T(n + 1)
    <3>1. \A i \in U : i # 0
      BY <2>2
    <3> HIDE DEF T, U
    <3>2. \A i \in {0} \cup U : g[i] = IF i = 0 THEN << >> ELSE g[par[i]] \o own[i]
      BY <2>4, <2>5, <3>1 DEF U
    <3> QED BY <2>6, <3>2 DEF Named, U
  <2> QED BY <2>7
<1>3. T(m) = S
  OBVIOUS
<1> HIDE DEF P
<1>4. Nat \subseteq P
  BY <1>1, <1>2, SetInduction
<1>5. \E f : Named(f, T(m), par, own)
  BY <1>4 DEF P
<1> HIDE DEF T
<1> QED BY <1>3, <1>5

-----------------------------------------------------------------------------
(* The logical lines of a file.                                            *)

\* What is known of each of them; they are numbered up to m.
LinesShape(ll, m) ==
    /\ m \in Nat
    /\ DOMAIN ll \subseteq 1 .. m
    /\ \A i \in DOMAIN ll :
          /\ ll[i].name \in Seq(STRING)
          /\ ll[i].kind = "section" => ll[i].level \in Nat \ {0}

\* The section a section belongs to is an earlier one, or the root.
LEMMA ParentShape ==
    ASSUME NEW ll, NEW m, LinesShape(ll, m), NEW i \in SectionLines(ll)
    PROVE  /\ i \in 1 .. m /\ ll[i].level \in Nat \ {0} /\ ll[i].name \in Seq(STRING)
           /\ Parent(ll, i) \in {0} \cup SectionLines(ll)
           /\ Parent(ll, i) < i
<1> DEFINE S == {j \in SectionLines(ll) : j < i /\ ll[j].level = ll[i].level - 1}
<1>1. i \in 1 .. m /\ ll[i].level \in Nat \ {0} /\ m \in Nat /\ ll[i].name \in Seq(STRING)
  BY DEF LinesShape, SectionLines
<1>2. S \in SUBSET Nat /\ \A j \in S : j <= m
  BY <1>1 DEF LinesShape, SectionLines
<1>3. Parent(ll, i) = Max({0} \cup S)
  BY DEF Parent
<1> HIDE DEF S
<1>4. Parent(ll, i) # 0 => Parent(ll, i) \in S
  BY <1>1, <1>2, <1>3, GreatestOrZero
<1>5. Parent(ll, i) # 0 => Parent(ll, i) \in SectionLines(ll) /\ Parent(ll, i) < i
  BY <1>4 DEF S
<1> QED BY <1>1, <1>5

\* What FullName computes.
LEMMA FullNameIs ==
    ASSUME NEW ll, NEW m, LinesShape(ll, m)
    PROVE  \A i \in SectionLines(ll) :
              FullName(ll)[i] = (IF Parent(ll, i) = 0 THEN << >> ELSE FullName(ll)[Parent(ll, i)]) \o ll[i].name
<1> DEFINE S == SectionLines(ll)
           F == CHOOSE f : f = [i \in {0} \cup S |-> IF i = 0 THEN << >> ELSE f[Parent(ll, i)] \o ll[i].name]
           par == [i \in S |-> Parent(ll, i)]
           own == [i \in S |-> ll[i].name]
<1>1. S \in SUBSET (Nat \ {0}) /\ m \in Nat /\ \A i \in S : i <= m
  BY DEF LinesShape, SectionLines
<1>2. \A i \in S : par[i] = Parent(ll, i) /\ own[i] = ll[i].name /\ par[i] \in {0} \cup S /\ par[i] < i
  BY ParentShape
<1>3. F = [i \in {0} \cup S |-> IF i = 0 THEN << >> ELSE F[Parent(ll, i)] \o ll[i].name]
  <2>1. PICK f : Named(f, S, par, own)
    <3> HIDE DEF S, par, own
    <3> QED BY <1>1, <1>2, NamesExist
  <2>2. f = [i \in {0} \cup S |-> IF i = 0 THEN << >> ELSE f[Parent(ll, i)] \o ll[i].name]
    <3>1. \A i \in S : i # 0
      BY <1>1
    <3> HIDE DEF S, par, own
    <3>2. \A i \in {0} \cup S : (IF i = 0 THEN << >> ELSE f[par[i]] \o own[i])
                                = IF i = 0 THEN << >> ELSE f[Parent(ll, i)] \o ll[i].name
      BY <1>2
    <3> QED BY <2>1, <3>2 DEF Named
  <2> HIDE DEF S, par, own
  <2> QED BY <2>2
<1>4. FullName(ll) = [i \in S |-> F[i]]
  BY DEF FullName
<1> HIDE DEF F, par, own
<1>5. \A i \in S : i # 0
  BY <1>1
<1>6. \A i \in S : F[i] = F[Parent(ll, i)] \o ll[i].name
  <2> HIDE DEF S
  <2> QED BY <1>3, <1>5
<1>7. F[0] = << >>
  <2> HIDE DEF S
  <2> QED BY <1>3
<1>8. \A i \in S : Parent(ll, i) = 0 \/ Parent(ll, i) \in S
  BY ParentShape
<1> HIDE DEF S
<1>9. ASSUME NEW i \in S
      PROVE  FullName(ll)[i] = (IF Parent(ll, i) = 0 THEN << >> ELSE FullName(ll)[Parent(ll, i)]) \o ll[i].name
  <2>1. FullName(ll)[i] = F[i]
    BY <1>4
  <2>2. F[Parent(ll, i)] = IF Parent(ll, i) = 0 THEN << >> ELSE FullName(ll)[Parent(ll, i)]
    BY <1>4, <1>7, <1>8
  <2> QED BY <1>6, <2>1, <2>2
<1> QED BY <1>9 DEF S

\* It is a sequence of names.
LEMMA FullNameType ==
    ASSUME NEW ll, NEW m, LinesShape(ll, m)
    PROVE  \A i \in SectionLines(ll) : FullName(ll)[i] \in Seq(STRING)
<1> DEFINE P == {n \in Nat : \A i \in SectionLines(ll) : i <= n => FullName(ll)[i] \in Seq(STRING)}
<1>0. \A i \in SectionLines(ll) : i \in Nat \ {0} /\ i <= m
  BY DEF LinesShape, SectionLines
<1>1. 0 \in P
  <2>1. \A i \in SectionLines(ll) : ~(i <= 0)
    BY <1>0
  <2> QED BY <2>1
<1>2. \A n \in Nat : n \in P => n + 1 \in P
  <2> SUFFICES ASSUME NEW n \in Nat, \A i \in SectionLines(ll) : i <= n => FullName(ll)[i] \in Seq(STRING),
                      NEW i \in SectionLines(ll), i <= n + 1
               PROVE  FullName(ll)[i] \in Seq(STRING)
    OBVIOUS
  <2> DEFINE p == Parent(ll, i)
             before == IF p = 0 THEN << >> ELSE FullName(ll)[p]
  <2>1. ll[i].name \in Seq(STRING) /\ p \in {0} \cup SectionLines(ll) /\ p < i
    BY ParentShape
  <2>2. FullName(ll)[i] = before \o ll[i].name
    BY FullNameIs
  <2>3. p # 0 => p <= n
    BY <1>0, <2>1
  <2>4. << >> \in Seq(STRING)
    OBVIOUS
  <2>5. before \in Seq(STRING)
    BY <2>1, <2>3, <2>4
  <2> HIDE DEF before
  <2> QED BY <2>1, <2>2, <2>5
<1> HIDE DEF P
<1>3. Nat \subseteq P
  BY <1>1, <1>2, SetInduction
<1>4. m \in P
  BY <1>3 DEF LinesShape
<1> QED BY <1>0, <1>4 DEF P

\* A greater member is counted last, and the others as before.
LEMMA NthAppend ==
    ASSUME NEW S \in SUBSET Nat, IsFiniteSet(S), NEW p \in Nat, \A k \in S : k < p
    PROVE  /\ Cardinality(S) \in Nat
           /\ Cardinality(S \cup {p}) = Cardinality(S) + 1
           /\ \A k \in 1 .. Cardinality(S) : Nth(S \cup {p}, k) = Nth(S, k)
           /\ Nth(S \cup {p}, Cardinality(S) + 1) = p
<1> DEFINE T == S \cup {p}
           Up(U, i) == {j \in U : j <= i}
<1>1. p \notin S
  BY SMT
<1>2. Cardinality(S) \in Nat /\ Cardinality(T) = Cardinality(S) + 1
  BY <1>1, FS_CardinalityType, FS_AddElement
<1>3. \A i \in S : Up(T, i) = Up(S, i)
  OBVIOUS
<1>4. Up(T, p) = T
  <2>1. \A j \in T : j <= p
    OBVIOUS
  <2> HIDE DEF T
  <2> QED BY <2>1
<1>5. \A i \in S : Cardinality(Up(S, i)) \in Nat /\ Cardinality(Up(S, i)) <= Cardinality(S)
  <2> SUFFICES ASSUME NEW i \in S PROVE Cardinality(Up(S, i)) \in Nat /\ Cardinality(Up(S, i)) <= Cardinality(S)
    OBVIOUS
  <2>1. Up(S, i) \in SUBSET S
    OBVIOUS
  <2> HIDE DEF Up
  <2> QED BY <2>1, FS_Subset, FS_CardinalityType
<1> DEFINE Is(U, i, k) == i \in U /\ Cardinality(Up(U, i)) = k
<1>6. \A k \in 1 .. Cardinality(S) : \A i : Is(T, i, k) <=> Is(S, i, k)
  <2> SUFFICES ASSUME NEW k \in 1 .. Cardinality(S), NEW i PROVE Is(T, i, k) <=> Is(S, i, k)
    OBVIOUS
  <2>1. CASE i \in S
    <3> HIDE DEF Up
    <3> QED BY <1>3, <2>1
  <2>2. CASE i = p
    <3>1. Cardinality(Up(T, i)) = Cardinality(S) + 1 /\ i \notin S
      BY <1>1, <1>2, <1>4, <2>2
    <3> HIDE DEF Up, T
    <3> QED BY <1>2, <3>1
  <2> HIDE DEF Up
  <2> QED BY <2>1, <2>2
<1>7. \A i : Is(T, i, Cardinality(S) + 1) <=> i = p
  <2> SUFFICES ASSUME NEW i PROVE Is(T, i, Cardinality(S) + 1) <=> i = p
    OBVIOUS
  <2>1. CASE i \in S
    <3>1. Cardinality(Up(T, i)) = Cardinality(Up(S, i)) /\ i # p
      BY <1>1, <1>3, <2>1
    <3> HIDE DEF Up, T
    <3> QED BY <1>2, <1>5, <2>1, <3>1
  <2>2. CASE i = p
    <3>1. Cardinality(Up(T, i)) = Cardinality(S) + 1 /\ i \in T
      BY <1>2, <1>4, <2>2
    <3> HIDE DEF Up, T
    <3> QED BY <2>2, <3>1
  <2> HIDE DEF Up
  <2> QED BY <2>1, <2>2
<1>8. \A U, k : Nth(U, k) = CHOOSE i : Is(U, i, k)
  BY Zenon DEF Nth
<1> HIDE DEF Is, Up
<1>9. \A k \in 1 .. Cardinality(S) : Nth(T, k) = Nth(S, k)
  <2> SUFFICES ASSUME NEW k \in 1 .. Cardinality(S) PROVE Nth(T, k) = Nth(S, k)
    OBVIOUS
  <2>1. (CHOOSE i : Is(T, i, k)) = (CHOOSE i : Is(S, i, k))
    BY <1>6, Zenon
  <2> HIDE DEF T
  <2> QED BY <1>8, <2>1, Zenon
<1>10. Nth(T, Cardinality(S) + 1) = p
  <2>1. (CHOOSE i : Is(T, i, Cardinality(S) + 1)) = p
    BY <1>7, Zenon
  <2> HIDE DEF T
  <2> QED BY <1>8, <2>1, Zenon
<1> QED BY <1>2, <1>9, <1>10

-----------------------------------------------------------------------------
(* The lists of sections and the values, as lines are read.                *)

\* There is one function on the empty set.
LEMMA EmptyFunction ==
    ASSUME NEW f, f = [x \in {} |-> f[x]]
    PROVE  f = << >>
OBVIOUS

\* The section in force is at the line or before it.
LEMMA InForceShape ==
    ASSUME NEW ll, NEW m, LinesShape(ll, m), NEW i \in Nat
    PROVE  /\ InForce(ll, i) \in Nat
           /\ InForce(ll, i) # 0 => InForce(ll, i) \in SectionLines(ll) /\ InForce(ll, i) <= i
           /\ \A j \in SectionLines(ll) : j <= i => j <= InForce(ll, i)
<1> DEFINE S == {j \in SectionLines(ll) : j <= i}
<1>1. S \in SUBSET Nat /\ \A j \in S : j <= i
  BY DEF LinesShape, SectionLines
<1>2. InForce(ll, i) = Max({0} \cup S)
  BY DEF InForce
<1>3. \A j \in SectionLines(ll) : j <= i => j \in S
  OBVIOUS
<1>4. \A j \in S : j \in SectionLines(ll)
  OBVIOUS
<1> HIDE DEF S
<1> QED BY <1>1, <1>2, <1>3, <1>4, GreatestOrZero

\* From L to M the logical line p is read, behind all lines of L.
Reads(ll, L, M, p) ==
    /\ p \in DOMAIN ll
    /\ DOMAIN ll \cap M = (DOMAIN ll \cap L) \cup {p}
    /\ \A k \in DOMAIN ll \cap L : k < p

\* The sections in `key` and the properties of `key`, among the lines L.
Inside(ll, key, L) == {i \in SectionLines(ll) \cap L : FullName(ll)[i] = key \o ll[i].name}
Settings(ll, key, L) ==
    {i \in DOMAIN ll \cap L : /\ ll[i].kind = "property"
                              /\ InForce(ll, i) # 0
                              /\ FullName(ll)[InForce(ll, i)] = key}

\* What a section lists ...
LEMMA SectionsOfIs ==
    ASSUME NEW ll, NEW key, NEW L
    PROVE  SectionsOf(ll, key, L) =
              [k \in 1 .. Cardinality(Inside(ll, key, L)) |-> ll[Nth(Inside(ll, key, L), k)].name]
BY DEF SectionsOf, Inside

\* ... and the values it has, in these terms.
LEMMA ValuesOfIs ==
    ASSUME NEW ll, NEW key, NEW L
    PROVE  ValuesOf(ll, key, L) =
              [n \in {ll[i].name[1] : i \in Settings(ll, key, L)} |->
                  RemoveComment(ll[Min({i \in Settings(ll, key, L) : ll[i].name[1] = n})].text)]
BY DEF ValuesOf, Settings

\* A line that is no section of `key` does not change its list ...
LEMMA SectionsSame ==
    ASSUME NEW ll, NEW key, NEW L, NEW M, NEW p, Reads(ll, L, M, p),
           ~(p \in SectionLines(ll) /\ FullName(ll)[p] = key \o ll[p].name)
    PROVE  SectionsOf(ll, key, M) = SectionsOf(ll, key, L)
<1>1. \A i : i \in SectionLines(ll) => i \in DOMAIN ll
  BY DEF SectionLines
<1>2. Inside(ll, key, M) = Inside(ll, key, L)
  BY <1>1 DEF Inside, Reads
<1> QED BY <1>2, SectionsOfIs

\* ... and a section of `key` lengthens it.
LEMMA SectionsGrow ==
    ASSUME NEW ll, NEW m, LinesShape(ll, m), NEW key, NEW L, NEW M, NEW p, Reads(ll, L, M, p),
           p \in SectionLines(ll), FullName(ll)[p] = key \o ll[p].name,
           SectionsOf(ll, key, L) \in Seq(Seq(STRING))
    PROVE  SectionsOf(ll, key, M) = Append(SectionsOf(ll, key, L), ll[p].name)
<1> DEFINE S == Inside(ll, key, L)
           n == Cardinality(S)
           f == SectionsOf(ll, key, L)
           g == SectionsOf(ll, key, M)
<1>1. \A i : i \in SectionLines(ll) => i \in DOMAIN ll
  BY DEF SectionLines
<1>2. Inside(ll, key, M) = S \cup {p}
  BY <1>1 DEF Inside, Reads
<1>3. S \in SUBSET Nat /\ S \subseteq 1 .. m /\ p \in Nat /\ m \in Nat /\ \A k \in S : k < p
  BY <1>1 DEF Inside, Reads, LinesShape
<1>4. IsFiniteSet(S)
  <2>1. IsFiniteSet(1 .. m)
    BY <1>3, FS_Interval
  <2> HIDE DEF S
  <2> QED BY <1>3, <2>1, FS_Subset
<1> HIDE DEF S
<1>5. /\ n \in Nat
      /\ Cardinality(S \cup {p}) = n + 1
      /\ \A k \in 1 .. n : Nth(S \cup {p}, k) = Nth(S, k)
      /\ Nth(S \cup {p}, n + 1) = p
  BY <1>3, <1>4, NthAppend
<1>6. f = [k \in 1 .. n |-> ll[Nth(S, k)].name]
  BY SectionsOfIs DEF S
<1>7. g = [k \in 1 .. n + 1 |-> ll[Nth(S \cup {p}, k)].name]
  BY <1>2, <1>5, SectionsOfIs
<1> HIDE DEF n, f, g
<1>8. Len(f) = n /\ f \in Seq(Seq(STRING))
  BY <1>5, <1>6 DEF f
<1>9. ll[p].name \in Seq(STRING)
  BY <1>1 DEF LinesShape
<1>10. Append(f, ll[p].name) = [k \in 1 .. n + 1 |-> IF k = n + 1 THEN ll[p].name ELSE f[k]]
  <2>1. PICK x \in Seq(STRING) : x = ll[p].name
    BY <1>9
  <2>2. Append(f, x) = [k \in 1 .. n + 1 |-> IF k = n + 1 THEN x ELSE f[k]]
    <3>1. /\ Append(f, x) \in Seq(Seq(STRING)) /\ Len(Append(f, x)) = n + 1
          /\ \A k \in 1 .. n : Append(f, x)[k] = f[k]
          /\ Append(f, x)[n + 1] = x
      BY <1>5, <1>8
    <3> DEFINE a == Append(f, x)
    <3> HIDE DEF a
    <3>2. a = [k \in 1 .. n + 1 |-> a[k]]
      <4>1. a \in [1 .. Len(a) -> Seq(STRING)]
        BY <3>1, LenProperties DEF a
      <4> QED BY <3>1, <4>1 DEF a
    <3>3. \A k \in 1 .. n + 1 : a[k] = IF k = n + 1 THEN x ELSE f[k]
      <4>1. \A k \in 1 .. n + 1 : k = n + 1 \/ k \in 1 .. n
        BY <1>5
      <4> QED BY <3>1, <4>1 DEF a
    <3> QED BY <3>2, <3>3 DEF a
  <2> QED BY <2>1, <2>2
<1>11. \A k \in 1 .. n + 1 : ll[Nth(S \cup {p}, k)].name = IF k = n + 1 THEN ll[p].name ELSE f[k]
  <2> SUFFICES ASSUME NEW k \in 1 .. n + 1 PROVE ll[Nth(S \cup {p}, k)].name = IF k = n + 1 THEN ll[p].name ELSE f[k]
    OBVIOUS
  <2>1. CASE k = n + 1
    BY <1>5, <2>1
  <2>2. CASE k # n + 1
    <3>1. k \in 1 .. n
      BY <1>5, <2>2
    <3>2. f[k] = ll[Nth(S, k)].name
      BY <1>6, <3>1
    <3> QED BY <1>5, <2>2, <3>1, <3>2
  <2> QED BY <2>1, <2>2
<1>12. g = Append(f, ll[p].name)
  BY <1>7, <1>10, <1>11
<1> QED BY <1>12 DEF f, g

\* A line that sets no property of `key` does not change its values ...
LEMMA ValuesSame ==
    ASSUME NEW ll, NEW key, NEW L, NEW M, NEW p, Reads(ll, L, M, p),
           ~(/\ ll[p].kind = "property" /\ InForce(ll, p) # 0
             /\ FullName(ll)[InForce(ll, p)] = key)
    PROVE  ValuesOf(ll, key, M) = ValuesOf(ll, key, L)
<1>1. Settings(ll, key, M) = Settings(ll, key, L)
  BY DEF Settings, Reads
<1> QED BY <1>1, ValuesOfIs

\* ... and one that does adds its value, if there is none before it.
LEMMA ValuesGrow ==
    ASSUME NEW ll, NEW m, LinesShape(ll, m), NEW key, NEW L, NEW M, NEW p, Reads(ll, L, M, p),
           ll[p].kind = "property", InForce(ll, p) # 0, FullName(ll)[InForce(ll, p)] = key
    PROVE  ValuesOf(ll, key, M) =
              Emplace(ValuesOf(ll, key, L), ll[p].name[1], RemoveComment(ll[p].text))
<1> DEFINE S == Settings(ll, key, L)
           T == Settings(ll, key, M)
           Of(U, n) == {i \in U : ll[i].name[1] = n}
           N == {ll[i].name[1] : i \in S}
           x == ll[p].name[1]
           V(U, n) == RemoveComment(ll[Min(Of(U, n))].text)
<1>1. T = S \cup {p} /\ S \in SUBSET Nat /\ p \in Nat /\ \A k \in S : k < p
  BY DEF Settings, Reads, LinesShape
<1>2. ValuesOf(ll, key, L) = [n \in N |-> V(S, n)]
  BY ValuesOfIs
<1>3. ValuesOf(ll, key, M) = [n \in {ll[i].name[1] : i \in T} |-> V(T, n)]
  BY ValuesOfIs
<1> HIDE DEF S, T
<1>4. {ll[i].name[1] : i \in T} = N \cup {x}
  BY <1>1
<1>5. \A n \in N : V(T, n) = V(S, n)
  <2> SUFFICES ASSUME NEW n \in N PROVE Min(Of(T, n)) = Min(Of(S, n))
    OBVIOUS
  <2>1. Of(S, n) \in SUBSET Nat /\ Of(S, n) # {}
    BY <1>1
  <2>2. Min(Of(S, n)) \in Of(S, n) /\ \A k \in Of(S, n) : Min(Of(S, n)) <= k
    <3> HIDE DEF Of
    <3> QED BY <2>1, LeastMember
  <2>3. /\ Of(T, n) \in SUBSET Nat /\ Of(S, n) \subseteq Of(T, n)
        /\ \A k \in Of(T, n) : k \in Of(S, n) \/ k = p
        /\ \A k \in Of(S, n) : k < p
    BY <1>1
  <2> HIDE DEF Of, V
  <2>4. \A k \in Of(T, n) : Min(Of(S, n)) <= k
    BY <1>1, <2>1, <2>2, <2>3
  <2> QED BY <2>2, <2>3, <2>4, LeastIs
<1>6. x \notin N => V(T, x) = RemoveComment(ll[p].text)
  <2> SUFFICES ASSUME x \notin N PROVE Min(Of(T, x)) = p
    OBVIOUS
  <2>1. Of(T, x) = {p}
    BY <1>1
  <2>2. {p} \in SUBSET Nat /\ p \in {p} /\ \A k \in {p} : p <= k
    BY <1>1
  <2>3. Min({p}) = p
    BY <2>2, LeastIs
  <2> QED BY <2>1, <2>3
<1> HIDE DEF N, V, x
<1>7. ValuesOf(ll, key, M) = [n \in N \cup {x} |-> V(T, n)]
  BY <1>3, <1>4
<1>8. \A n \in N \cup {x} : V(T, n) = IF n \in N THEN V(S, n) ELSE RemoveComment(ll[p].text)
  BY <1>5, <1>6
<1>9. Emplace(ValuesOf(ll, key, L), x, RemoveComment(ll[p].text)) =
        [n \in N \cup {x} |-> IF n \in N THEN V(S, n) ELSE RemoveComment(ll[p].text)]
  BY <1>2 DEF Emplace
<1> QED BY <1>7, <1>8, <1>9 DEF x

\* A section that no line before p opens has no properties there ...
LEMMA NoValuesYet ==
    ASSUME NEW ll, NEW m, LinesShape(ll, m), NEW p \in Nat, NEW key,
           \A i \in SectionLines(ll) : i < p => FullName(ll)[i] # key
    PROVE  ValuesOf(ll, key, 1 .. p - 1) = << >>
<1> DEFINE f == ValuesOf(ll, key, 1 .. p - 1)
<1>1. Settings(ll, key, 1 .. p - 1) = {}
  <2> SUFFICES ASSUME NEW i \in DOMAIN ll, i \in 1 .. p - 1, InForce(ll, i) # 0, FullName(ll)[InForce(ll, i)] = key PROVE FALSE
    BY DEF Settings
  <2>1. i \in Nat /\ i < p
    OBVIOUS
  <2>2. InForce(ll, i) \in SectionLines(ll) /\ InForce(ll, i) <= i /\ InForce(ll, i) \in Nat
    BY <2>1, InForceShape
  <2> QED BY <2>1, <2>2
<1>2. f = [x \in {} |-> f[x]]
  BY <1>1, ValuesOfIs
<1> HIDE DEF f
<1>3. f = << >>
  BY <1>2, EmptyFunction
<1> QED BY <1>3 DEF f

\* ... and no subsections: they would have a parent of that name.
LEMMA NothingYet ==
    ASSUME NEW ll, NEW m, LinesShape(ll, m), NEW p \in Nat, NEW key \in Seq(STRING),
           \A i \in SectionLines(ll) : i < p => FullName(ll)[i] # key,
           key = << >> => \A i \in SectionLines(ll) : ~(i < p)
    PROVE  /\ SectionsOf(ll, key, 1 .. p - 1) = << >>
           /\ ValuesOf(ll, key, 1 .. p - 1) = << >>
<1>1. Inside(ll, key, 1 .. p - 1) = {}
  <2> SUFFICES ASSUME NEW i \in SectionLines(ll), i \in 1 .. p - 1, FullName(ll)[i] = key \o ll[i].name PROVE FALSE
    BY DEF Inside
  <2> DEFINE q == Parent(ll, i)
             before == IF q = 0 THEN << >> ELSE FullName(ll)[q]
  <2>1. i < p /\ q \in {0} \cup SectionLines(ll) /\ q < i /\ ll[i].name \in Seq(STRING) /\ i \in Nat
    BY ParentShape
  <2>2. FullName(ll)[i] = before \o ll[i].name
    BY FullNameIs
  <2>3. before \in Seq(STRING)
    <3>1. << >> \in Seq(STRING)
      OBVIOUS
    <3> QED BY <2>1, <3>1, FullNameType
  <2>4. before = key
    <3> HIDE DEF before
    <3>1. key \o ll[i].name = before \o ll[i].name
      BY <2>2
    <3> QED BY <2>1, <2>3, <3>1, ConcatSimplifications
  <2>5. q # 0
    BY <2>1, <2>4
  <2>6. q \in Nat
    BY <2>1, <2>5 DEF LinesShape, SectionLines
  <2>7. q < p
    BY <2>1, <2>6
  <2> QED BY <2>1, <2>4, <2>5, <2>7
<1>2. SectionsOf(ll, key, 1 .. p - 1) = << >>
  <2> DEFINE f == SectionsOf(ll, key, 1 .. p - 1)
  <2>1. 1 .. Cardinality({}) = {}
    BY FS_EmptySet
  <2>2. f = [x \in {} |-> f[x]]
    BY <1>1, <2>1, SectionsOfIs
  <2> HIDE DEF f
  <2>3. f = << >>
    BY <2>2, EmptyFunction
  <2> QED BY <2>3 DEF f
<1>3. ValuesOf(ll, key, 1 .. p - 1) = << >>
  BY NoValuesYet
<1> QED BY <1>2, <1>3

-----------------------------------------------------------------------------
(* From one logical line of a file to the next.                            *)

\* The rest of a sequence from its place i.
LEMMA RestShape ==
    ASSUME NEW S, NEW s \in Seq(S), NEW i \in Nat, i >= 1, i <= Len(s) + 1
    PROVE  /\ SubSeq(s, i, Len(s)) \in Seq(S) /\ Len(SubSeq(s, i, Len(s))) = Len(s) - i + 1
           /\ \A k \in 1 .. Len(s) - i + 1 : SubSeq(s, i, Len(s))[k] = s[i + k - 1]
<1>1. Len(s) \in Nat
  OBVIOUS
<1> QED BY <1>1, SubSeqProperties

\* Where the logical line after the one at p starts.
LEMMA NextStart ==
    ASSUME NEW file \in Seq(Line), NEW p \in Starts(file)
    PROVE  LET ls == SubSeq(file, p, Len(file))
               q == p + LineEnd(ls)
           IN  /\ p \in 1 .. Len(file) /\ Len(file) \in Nat /\ ls \in Seq(Line) /\ ls # << >>
               /\ q \in Starts(file) \cup {Len(file) + 1} /\ q \in Nat /\ p < q
               /\ \A i \in Starts(file) : i < q => i <= p
               /\ SubSeq(ls, LineEnd(ls) + 1, Len(ls)) = SubSeq(file, q, Len(file))
<1> DEFINE ls == SubSeq(file, p, Len(file))
           q == p + LineEnd(ls)
<1>1. p \in 1 .. Len(file) /\ Len(file) \in Nat
  BY DEF Starts
<1>2. /\ ls \in Seq(Line) /\ Len(ls) = Len(file) - p + 1
      /\ \A k \in 1 .. Len(ls) : ls[k] = file[p + k - 1]
  BY <1>1
<1> HIDE DEF ls
<1>3. ls # << >> /\ Len(ls) \in Nat /\ DOMAIN ls = 1 .. Len(ls)
  <2>1. Len(ls) \in Nat /\ Len(ls) # 0
    BY <1>1, <1>2
  <2>2. DOMAIN ls = 1 .. Len(ls)
    BY <1>2, LenProperties
  <2>3. Len(<< >>) = 0
    OBVIOUS
  <2> QED BY <2>1, <2>2, <2>3
<1> DEFINE n == LineEnd(ls)
           ends == {i \in DOMAIN ls : ~ls[i].brk}
<1>4. n \in 1 .. Len(ls)
  BY <1>2, <1>3, LineEndType
<1>5. n = IF ends = {} THEN Len(ls) ELSE Min(ends)
  BY DEF LineEnd
<1>6. ends # {} => Min(ends) \in ends /\ \A k \in ends : Min(ends) <= k
  <2>1. ends \in SUBSET Nat
    BY <1>3
  <2> HIDE DEF ends
  <2> QED BY <2>1, LeastMember
<1>7. \A k \in 1 .. n - 1 : ls[k].brk
  <2> SUFFICES ASSUME NEW k \in 1 .. n - 1, ~ls[k].brk PROVE FALSE
    OBVIOUS
  <2>1. k \in ends
    <3>1. k \in 1 .. Len(ls)
      <4> HIDE DEF n
      <4> QED BY <1>3, <1>4
    <3> QED BY <1>3, <3>1
  <2> HIDE DEF ends, n
  <2>2. n <= k
    BY <1>5, <1>6, <2>1
  <2> QED BY <1>4, <2>2
<1>8. n = Len(ls) \/ ~ls[n].brk
  <2>1. CASE ends = {}
    <3> HIDE DEF n
    <3> QED BY <1>5, <2>1
  <2>2. CASE ends # {}
    <3>1. n = Min(ends)
      BY <1>5, <2>2
    <3>2. n \in ends
      <4> HIDE DEF ends, n
      <4> QED BY <1>6, <2>2, <3>1
    <3> HIDE DEF n
    <3> QED BY <3>2
  <2> QED BY <2>1, <2>2
<1>9. q \in Nat /\ p < q /\ q = p + n /\ q <= Len(file) + 1
  <2> HIDE DEF n
  <2>1. q = p + n
    BY DEF n
  <2> HIDE DEF q
  <2> QED BY <1>1, <1>2, <1>3, <1>4, <2>1
<1> HIDE DEF n, ends, q
<1>10. q \in Starts(file) \cup {Len(file) + 1}
  <2> SUFFICES ASSUME q # Len(file) + 1 PROVE q \in Starts(file)
    OBVIOUS
  <2>1. q \in 1 .. Len(file) /\ n # Len(ls)
    BY <1>1, <1>2, <1>9
  <2>2. ls[n] = file[q - 1]
    <3>1. p + n - 1 = q - 1
      BY <1>1, <1>4, <1>9
    <3> QED BY <1>2, <1>4, <3>1
  <2>3. q \in DOMAIN file /\ ~file[q - 1].brk
    <3>1. DOMAIN file = 1 .. Len(file)
      BY LenProperties
    <3> QED BY <1>8, <2>1, <2>2, <3>1
  <2> QED BY <2>3 DEF Starts
<1>11. ASSUME NEW i \in Starts(file), i < q, ~(i <= p) PROVE FALSE
  <2>1. i \in 1 .. Len(file) /\ (i = 1 \/ ~file[i - 1].brk)
    BY DEF Starts
  <2>2. i # 1 /\ i - p \in 1 .. n - 1 /\ i - p \in 1 .. Len(ls) /\ p + (i - p) - 1 = i - 1
    BY <1>1, <1>2, <1>4, <1>9, <1>11, <2>1
  <2>3. ls[i - p] = file[i - 1]
    BY <1>2, <2>2
  <2> QED BY <1>7, <2>1, <2>2, <2>3
<1>12. SubSeq(ls, n + 1, Len(ls)) = SubSeq(file, q, Len(file))
  <2> DEFINE a == SubSeq(ls, n + 1, Len(ls))
             b == SubSeq(file, q, Len(file))
  <2>1. /\ a \in Seq(Line) /\ Len(a) = Len(ls) - n
        /\ \A k \in 1 .. Len(ls) - n : a[k] = ls[n + k]
    <3>0. ls \in Seq(Line)
      BY <1>2
    <3>1. PICK i \in Nat : i = n + 1 /\ i >= 1 /\ i <= Len(ls) + 1
      BY <1>3, <1>4
    <3>2. /\ SubSeq(ls, i, Len(ls)) \in Seq(Line) /\ Len(SubSeq(ls, i, Len(ls))) = Len(ls) - i + 1
          /\ \A k \in 1 .. Len(ls) - i + 1 : SubSeq(ls, i, Len(ls))[k] = ls[i + k - 1]
      BY <3>0, <3>1, RestShape
    <3>3. Len(ls) - i + 1 = Len(ls) - n
      BY <1>3, <1>4, <3>1
    <3>4. a = SubSeq(ls, i, Len(ls))
      BY <3>1
    <3> HIDE DEF a
    <3>5. \A k \in 1 .. Len(ls) - n : a[k] = ls[n + k]
      <4> SUFFICES ASSUME NEW k \in 1 .. Len(ls) - n PROVE a[k] = ls[n + k]
        OBVIOUS
      <4>1. i + k - 1 = n + k
        BY <1>4, <3>1
      <4>2. a[k] = ls[i + k - 1]
        BY <3>2, <3>3, <3>4
      <4> QED BY <4>1, <4>2
    <3> QED BY <3>2, <3>3, <3>4, <3>5
  <2>2. /\ b \in Seq(Line) /\ Len(b) = Len(file) - q + 1
        /\ \A k \in 1 .. Len(file) - q + 1 : b[k] = file[q + k - 1]
    BY <1>1, <1>9
  <2> HIDE DEF a, b
  <2>3. Len(a) = Len(b)
    BY <1>1, <1>2, <1>4, <1>9, <2>1, <2>2
  <2>4. \A k \in 1 .. Len(a) : a[k] = b[k]
    <3> SUFFICES ASSUME NEW k \in 1 .. Len(a) PROVE a[k] = b[k]
      OBVIOUS
    <3>1. k \in 1 .. Len(ls) - n /\ k \in 1 .. Len(file) - q + 1
      BY <2>1, <2>2, <2>3
    <3>2. n + k \in 1 .. Len(ls) /\ p + (n + k) - 1 = q + k - 1
      <4>1. k \in Nat /\ k >= 1 /\ k <= Len(ls) - n /\ n \in Nat /\ p \in Nat /\ Len(ls) \in Nat
        BY <1>1, <1>3, <1>4, <3>1
      <4> QED BY <1>9, <4>1
    <3>3. a[k] = ls[n + k] /\ b[k] = file[q + k - 1]
      BY <2>1, <2>2, <3>1
    <3>4. ls[n + k] = file[p + (n + k) - 1]
      BY <1>2, <3>2
    <3> QED BY <3>2, <3>3, <3>4
  <2> QED BY <2>1, <2>2, <2>3, <2>4, SeqEqual DEF a, b
<1> QED BY <1>1, <1>2, <1>3, <1>9, <1>10, <1>11, <1>12 DEF n, ls, q

\* The logical lines of a file have the shape of lines.
LEMMA LogicalLinesShape ==
    ASSUME NEW file \in Seq(Line)
    PROVE  LinesShape(Logical(file), Len(file)) /\ DOMAIN Logical(file) = Starts(file)
<1> DEFINE ll == Logical(file)
<1>1. DOMAIN ll = Starts(file) /\ \A i \in Starts(file) : ll[i] = LogicalLine(SubSeq(file, i, Len(file)))
  BY DEF Logical
<1> HIDE DEF ll
<1>2. Starts(file) \subseteq 1 .. Len(file) /\ Len(file) \in Nat
  BY DEF Starts
<1>3. ASSUME NEW i \in Starts(file)
      PROVE  ll[i].name \in Seq(STRING) /\ (ll[i].kind = "section" => ll[i].level \in Nat \ {0})
  <2> DEFINE ls == SubSeq(file, i, Len(file))
  <2>1. ls \in Seq(Line) /\ ls # << >>
    BY NextStart
  <2>2. ll[i] = LogicalLine(ls)
    BY <1>1
  <2> HIDE DEF ls
  <2> QED BY <2>1, <2>2, LogicalShape
<1>4. LinesShape(ll, Len(file))
  BY <1>1, <1>2, <1>3 DEF LinesShape
<1> QED BY <1>1, <1>4 DEF ll

-----------------------------------------------------------------------------
(* The inductive invariant of the reader.                                  *)

\* What is left of the file are lines, and open sections have names.
FileShape ==
    /\ lines \in Seq(Line)
    /\ path \in Seq(Seq(STRING))
    /\ \A f \in DOMAIN disk : disk[f] \in Seq(Line)

\* An entry of the map lists names.
Entry(e) ==
    /\ e = [sections |-> e.sections, values |-> e.values]
    /\ e.sections \in Seq(Seq(STRING))

\* The map has such entries under full names.
MapShape(c) ==
    /\ c = [k \in DOMAIN c |-> c[k]]
    /\ DOMAIN c \subseteq Seq(STRING)
    /\ \A k \in DOMAIN c : Entry(c[k])

\* Every open section has an entry, the ones around the innermost too: they are
\* what is left of the path when a section closes others.
OpenSections(c, p) ==
    \A n \in 1 .. Len(p) : implode_config_path(SubSeq(p, 1, n)) \in DOMAIN c

\* The map is a tree: a section that is listed has an entry ...
ListedExist(c) ==
    \A key \in DOMAIN c : \A s \in ToSet(c[key].sections) : key \o s \in DOMAIN c

\* ... and an entry other than the root's is listed.
HaveParents(c) ==
    \A key \in DOMAIN c \ {<< >>} : \E parent \in DOMAIN c :
        \E s \in ToSet(c[parent].sections) : key = parent \o s

\* The invariant.
TreeInv ==
    /\ FileShape
    /\ MapShape(config)
    /\ OpenSections(config, path)
    /\ ListedExist(config)
    /\ HaveParents(config)

\* It implies that the map is a tree with the open section in it.
LEMMA TreeInvImplies == TreeInv => SectionsResolve
<1> SUFFICES ASSUME TreeInv PROVE SectionsResolve
  OBVIOUS
<1>1. path # << >> => implode_config_path(path) \in DOMAIN config
  <2> SUFFICES ASSUME path # << >> PROVE implode_config_path(path) \in DOMAIN config
    OBVIOUS
  <2>1. path \in Seq(Seq(STRING)) /\ Len(path) \in 1 .. Len(path)
    BY DEF TreeInv, FileShape
  <2>2. SubSeq(path, 1, Len(path)) = path
    BY <2>1, SubSeqFull
  <2>3. implode_config_path(SubSeq(path, 1, Len(path))) \in DOMAIN config
    BY <2>1 DEF TreeInv, OpenSections
  <2> QED BY <2>2, <2>3
<1> QED BY <1>1 DEF TreeInv, ListedExist, HaveParents, SectionsResolve

\* emplace adds an entry and changes none.
LEMMA EmplaceShape ==
    ASSUME NEW c, NEW key \in Seq(STRING), NEW e, MapShape(c), Entry(e)
    PROVE  /\ MapShape(Emplace(c, key, e))
           /\ DOMAIN Emplace(c, key, e) = DOMAIN c \cup {key}
           /\ \A k \in DOMAIN c : Emplace(c, key, e)[k] = c[k]
           /\ key \notin DOMAIN c => Emplace(c, key, e)[key] = e
<1> DEFINE d == Emplace(c, key, e)
<1>1. /\ DOMAIN d = DOMAIN c \cup {key}
      /\ \A k \in DOMAIN c : d[k] = c[k]
      /\ key \notin DOMAIN c => d[key] = e
  BY DEF Emplace
<1>2. d = [k \in DOMAIN d |-> d[k]]
  BY DEF Emplace
<1> HIDE DEF d
<1>3. \A k \in DOMAIN d : Entry(d[k])
  BY <1>1 DEF MapShape
<1>4. MapShape(d)
  BY <1>1, <1>2, <1>3 DEF MapShape
<1> QED BY <1>1, <1>4 DEF d

\* A section is appended to the list of an entry.
LEMMA ListShape ==
    ASSUME NEW c, NEW key \in DOMAIN c, NEW s \in Seq(STRING), MapShape(c)
    PROVE  LET d == [c EXCEPT ![key].sections = Append(@, s)]
           IN  /\ MapShape(d) /\ DOMAIN d = DOMAIN c
               /\ \A k \in DOMAIN c : k # key => d[k] = c[k]
               /\ ToSet(d[key].sections) = ToSet(c[key].sections) \cup {s}
               /\ d[key] = [sections |-> Append(c[key].sections, s), values |-> c[key].values]
<1> DEFINE d == [c EXCEPT ![key].sections = Append(@, s)]
           e == c[key]
           f == [sections |-> Append(e.sections, s), values |-> e.values]
<1>1. Entry(e) /\ e.sections \in Seq(Seq(STRING))
  BY DEF MapShape, Entry
<1>2. DOMAIN d = DOMAIN c /\ (\A k \in DOMAIN c : k # key => d[k] = c[k]) /\ d = [k \in DOMAIN d |-> d[k]]
  BY DEF MapShape
<1>3. d[key] = [c[key] EXCEPT !.sections = Append(@, s)]
  BY DEF MapShape
<1>4. d[key] = f
  <2>1. e = [sections |-> e.sections, values |-> e.values]
    BY <1>1 DEF Entry
  <2> HIDE DEF e, d
  <2> DEFINE a == e.sections
             b == e.values
             z == Append(a, s)
  <2>2. d[key] = [e EXCEPT !.sections = z]
    BY <1>3 DEF e
  <2>3. e = [sections |-> a, values |-> b] /\ f = [sections |-> z, values |-> b]
    BY <2>1
  <2> HIDE DEF a, b, z, f
  <2>4. [e EXCEPT !.sections = z] = f
    BY <2>3
  <2> QED BY <2>2, <2>4
<1>5. f.sections = Append(e.sections, s) /\ Entry(f)
  <2> HIDE DEF e
  <2>1. Append(e.sections, s) \in Seq(Seq(STRING))
    BY <1>1
  <2> QED BY <2>1 DEF Entry
<1>6. ToSet(Append(e.sections, s)) = ToSet(e.sections) \cup {s}
  <2>1. PICK q \in Seq(Seq(STRING)) : e.sections = q
    BY <1>1
  <2>2. Elements(Append(q, s)) = Elements(q) \cup {s}
    BY ElementsAppend
  <2> QED BY <2>1, <2>2 DEF ToSet, Elements
<1> HIDE DEF d, f, e
<1>7. MapShape(d)
  BY <1>2, <1>4, <1>5 DEF MapShape
<1>8. ToSet(d[key].sections) = ToSet(e.sections) \cup {s}
  BY <1>4, <1>5, <1>6
<1> QED BY <1>2, <1>4, <1>7, <1>8 DEF d, e, f

-----------------------------------------------------------------------------
(* The steps of the reader.                                                *)

\* A section that is read: how many open sections stay open, the innermost of
\* them, and the name of the new one in it.
OpenDepth == Min({LogicalLine(lines).level - 1, Len(path)})
OuterKey == implode_config_path(SubSeq(path, 1, OpenDepth))
OwnName == LogicalLine(lines).name

\* What a section does to the path.
LEMMA ReadSectionPath ==
    ASSUME TreeInv, lines # << >>, ReadSection
    PROVE  /\ OwnName \in Seq(STRING) /\ LogicalLine(lines).level \in Nat \ {0}
           /\ Len(path) \in Nat /\ OpenDepth \in Nat /\ OpenDepth <= Len(path)
           /\ OpenDepth = LogicalLine(lines).level - 1 \/ OpenDepth = Len(path)
           /\ OpenDepth <= LogicalLine(lines).level - 1
           /\ OuterKey \in Seq(STRING) /\ OuterKey \o OwnName \in Seq(STRING)
           /\ OpenDepth = 0 => OuterKey = << >>
           /\ OpenDepth # 0 => OuterKey \in DOMAIN config
           /\ path' \in Seq(Seq(STRING)) /\ Len(path') = OpenDepth + 1
           /\ \A j \in 1 .. OpenDepth : SubSeq(path', 1, j) = SubSeq(path, 1, j)
           /\ SubSeq(path', 1, OpenDepth + 1) = path'
           /\ implode_config_path(path') = OuterKey \o OwnName
<1> DEFINE l == LogicalLine(lines)
           n == OpenDepth
           parent == SubSeq(path, 1, n)
<1>1. l.kind = "section" /\ path' = Append(parent, OwnName)
  BY DEF ReadSection, OpenDepth, OwnName
<1>2. OwnName \in Seq(STRING) /\ l.level \in Nat \ {0} /\ path \in Seq(Seq(STRING)) /\ Len(path) \in Nat
  BY <1>1, LogicalShape DEF TreeInv, FileShape, OwnName
<1>3. n \in {l.level - 1, Len(path)} /\ n <= Len(path) /\ n <= l.level - 1
  <2> HIDE DEF l
  <2>1. {l.level - 1, Len(path)} \in SUBSET Nat
    BY <1>2
  <2>2. Min({l.level - 1, Len(path)}) = n
    BY DEF OpenDepth, l
  <2> QED BY <2>1, <2>2, LeastMember
<1>4. n \in Nat /\ (n = l.level - 1 \/ n = Len(path))
  <2> HIDE DEF l, n
  <2> QED BY <1>2, <1>3
<1> HIDE DEF l, n
<1>5. /\ parent \in Seq(Seq(STRING)) /\ Len(parent) = n
      /\ \A j \in 1 .. n : parent[j] = path[j]
  BY <1>2, <1>3, <1>4
<1>6. OuterKey = implode_config_path(parent)
  BY DEF OuterKey, n
<1> HIDE DEF parent
<1>7. OuterKey \in Seq(STRING) /\ implode_config_path(path') = OuterKey \o OwnName
  BY <1>1, <1>2, <1>5, <1>6, FlattenType, FlattenAppend DEF implode_config_path
<1>8. OuterKey \o OwnName \in Seq(STRING)
  BY <1>2, <1>7
<1>9. n = 0 => OuterKey = << >>
  <2> SUFFICES ASSUME n = 0 PROVE OuterKey = << >>
    OBVIOUS
  <2>1. parent = << >>
    BY <1>5
  <2> QED BY <1>5, <1>6, <2>1 DEF implode_config_path, FlattenSeq
<1>10. n # 0 => OuterKey \in DOMAIN config
  <2> SUFFICES ASSUME n # 0 PROVE OuterKey \in DOMAIN config
    OBVIOUS
  <2>1. n \in 1 .. Len(path)
    BY <1>2, <1>3, <1>4
  <2> QED BY <1>6, <2>1 DEF TreeInv, OpenSections, parent
<1>11. path' \in Seq(Seq(STRING)) /\ Len(path') = n + 1 /\ \A j \in 1 .. n : path'[j] = path[j]
  <2>1. PICK x \in Seq(STRING) : x = OwnName
    BY <1>2
  <2>2. /\ Append(parent, x) \in Seq(Seq(STRING)) /\ Len(Append(parent, x)) = n + 1
        /\ \A j \in 1 .. n : Append(parent, x)[j] = parent[j]
    BY <1>4, <1>5
  <2> QED BY <1>1, <1>5, <2>1, <2>2
<1>12. ASSUME NEW j \in 1 .. n PROVE SubSeq(path', 1, j) = SubSeq(path, 1, j)
  <2>1. j \in Nat /\ j <= Len(path) /\ j <= Len(path')
    BY <1>2, <1>3, <1>4, <1>11
  <2>2. \A i \in 1 .. j : path'[i] = path[i]
    <3>1. \A i \in 1 .. j : i \in 1 .. n
      BY <1>4
    <3> QED BY <1>11, <3>1
  <2> QED BY <1>2, <1>11, <2>1, <2>2
<1>13. SubSeq(path', 1, n + 1) = path'
  BY <1>11, SubSeqFull
<1> QED BY <1>2, <1>3, <1>4, <1>7, <1>8, <1>9, <1>10, <1>11, <1>12, <1>13 DEF l, n

\* What a section does to the map.
LEMMA ReadSectionMap ==
    ASSUME TreeInv, lines # << >>, ReadSection
    PROVE  /\ MapShape(config')
           /\ DOMAIN config' = DOMAIN config \cup {OuterKey, OuterKey \o OwnName}
           /\ \A k \in DOMAIN config' :
                LET old == IF k \in DOMAIN config THEN config[k] ELSE NoSection
                IN  config'[k] = IF k = OuterKey
                                 THEN [sections |-> Append(old.sections, OwnName), values |-> old.values]
                                 ELSE old
<1> DEFINE key == OuterKey
           full == OuterKey \o OwnName
           first == Emplace(config, full, NoSection)
           both == Emplace(first, key, NoSection)
           Old(k) == IF k \in DOMAIN config THEN config[k] ELSE NoSection
<1>1. config' = [both EXCEPT ![key].sections = Append(@, OwnName)]
  BY DEF ReadSection, OuterKey, OpenDepth, OwnName
<1>2. OwnName \in Seq(STRING) /\ key \in Seq(STRING) /\ full \in Seq(STRING)
  BY ReadSectionPath
<1> HIDE DEF key, full
<1>3. Entry(NoSection) /\ MapShape(config)
  BY DEF Entry, NoSection, TreeInv
<1>4. /\ MapShape(first) /\ DOMAIN first = DOMAIN config \cup {full}
      /\ \A k \in DOMAIN config : first[k] = config[k]
      /\ full \notin DOMAIN config => first[full] = NoSection
  <2>1. full \in Seq(STRING)
    BY <1>2
  <2>2. MapShape(first)
    BY <1>3, <2>1, EmplaceShape
  <2>3. DOMAIN first = DOMAIN config \cup {full}
    BY <1>3, <2>1, EmplaceShape
  <2>4. \A k \in DOMAIN config : first[k] = config[k]
    BY DEF Emplace
  <2>5. full \notin DOMAIN config => first[full] = NoSection
    BY <1>3, <2>1, EmplaceShape
  <2> QED BY <2>2, <2>3, <2>4, <2>5
<1> HIDE DEF first
<1>5. /\ MapShape(both) /\ DOMAIN both = DOMAIN first \cup {key}
      /\ \A k \in DOMAIN first : both[k] = first[k]
      /\ key \notin DOMAIN first => both[key] = NoSection
  <2>1. key \in Seq(STRING)
    BY <1>2
  <2>2. MapShape(first)
    BY <1>4
  <2>3. MapShape(both)
    BY <1>3, <2>1, <2>2, EmplaceShape
  <2>4. DOMAIN both = DOMAIN first \cup {key}
    BY <1>3, <2>1, <2>2, EmplaceShape
  <2>5. \A k \in DOMAIN first : both[k] = first[k]
    BY DEF Emplace
  <2>6. key \notin DOMAIN first => both[key] = NoSection
    BY <1>3, <2>1, <2>2, EmplaceShape
  <2> QED BY <2>3, <2>4, <2>5, <2>6
<1> HIDE DEF both
<1>6. DOMAIN both = DOMAIN config \cup {full, key} /\ \A k \in DOMAIN both : both[k] = Old(k)
  BY <1>4, <1>5
<1>7. /\ MapShape(config') /\ DOMAIN config' = DOMAIN both
      /\ \A k \in DOMAIN both : k # key => config'[k] = both[k]
      /\ config'[key] = [sections |-> Append(both[key].sections, OwnName), values |-> both[key].values]
  <2>1. key \in DOMAIN both /\ OwnName \in Seq(STRING) /\ MapShape(both)
    BY <1>2, <1>5
  <2> DEFINE d == [both EXCEPT ![key].sections = Append(@, OwnName)]
  <2>2. /\ MapShape(d) /\ DOMAIN d = DOMAIN both
        /\ \A k \in DOMAIN both : k # key => d[k] = both[k]
        /\ d[key] = [sections |-> Append(both[key].sections, OwnName), values |-> both[key].values]
    BY <2>1, ListShape
  <2>3. config' = d
    BY <1>1
  <2> HIDE DEF d
  <2> QED BY <2>2, <2>3
<1> HIDE DEF Old
<1>8. \A k \in DOMAIN config' :
        config'[k] = IF k = key THEN [sections |-> Append(Old(k).sections, OwnName), values |-> Old(k).values]
                     ELSE Old(k)
  BY <1>6, <1>7
<1> QED BY <1>6, <1>7, <1>8 DEF key, full, Old

\* A section goes under the innermost open section of a lower level: it gets an
\* entry, its parent has one and lists it, and the path ends with it.
LEMMA ReadSectionKeepsTree ==
    ASSUME TreeInv, lines # << >>, ReadSection
    PROVE  /\ path' \in Seq(Seq(STRING)) /\ MapShape(config') /\ OpenSections(config', path')
           /\ ListedExist(config') /\ HaveParents(config')
<1> DEFINE key == OuterKey
           full == OuterKey \o OwnName
           n == OpenDepth
           Old(k) == IF k \in DOMAIN config THEN config[k] ELSE NoSection
<1>1. /\ key # << >> => key \in DOMAIN config
      /\ n \in Nat /\ n <= Len(path) /\ Len(path) \in Nat /\ path' \in Seq(Seq(STRING)) /\ Len(path') = n + 1
      /\ \A j \in 1 .. n : SubSeq(path', 1, j) = SubSeq(path, 1, j)
      /\ implode_config_path(SubSeq(path', 1, n + 1)) = full
      /\ OwnName \in Seq(STRING)
  BY ReadSectionPath
<1>2. /\ MapShape(config') /\ DOMAIN config' = DOMAIN config \cup {key, full}
      /\ \A k \in DOMAIN config' :
            config'[k] = IF k = key THEN [sections |-> Append(Old(k).sections, OwnName), values |-> Old(k).values]
                         ELSE Old(k)
  BY ReadSectionMap
<1>3. full = key \o OwnName
  OBVIOUS
<1> HIDE DEF key, full, n
<1>4. ASSUME NEW k \in DOMAIN config'
      PROVE  ToSet(config'[k].sections) = ToSet(Old(k).sections) \cup IF k = key THEN {OwnName} ELSE {}
  <2>1. Old(k).sections \in Seq(Seq(STRING))
    <3>1. NoSection.sections \in Seq(Seq(STRING))
      BY DEF NoSection
    <3>2. k \in DOMAIN config => config[k].sections \in Seq(Seq(STRING))
      BY DEF TreeInv, MapShape, Entry
    <3> QED BY <3>1, <3>2
  <2>2. PICK q \in Seq(Seq(STRING)) : q = Old(k).sections
    BY <2>1
  <2>3. Elements(Append(q, OwnName)) = Elements(q) \cup {OwnName}
    BY <1>1, ElementsAppend
  <2> HIDE DEF Old
  <2>4. CASE k = key
    <3>1. config'[k] = [sections |-> Append(q, OwnName), values |-> Old(k).values]
      BY <1>2, <2>2, <2>4
    <3>2. config'[k].sections = Append(q, OwnName)
      BY <3>1
    <3>3. ToSet(config'[k].sections) = Elements(q) \cup {OwnName}
      BY <2>3, <3>2 DEF ToSet, Elements
    <3>4. ToSet(Old(k).sections) = Elements(q)
      BY <2>2 DEF ToSet, Elements
    <3> QED BY <2>4, <3>3, <3>4
  <2>5. CASE k # key
    BY <1>2, <2>5
  <2> QED BY <2>4, <2>5
<1>5. ToSet(NoSection.sections) = {}
  BY DEF ToSet, NoSection
<1>6. \A k \in DOMAIN config' :
          /\ k \in DOMAIN config => ToSet(config[k].sections) \subseteq ToSet(config'[k].sections)
          /\ \A s \in ToSet(config'[k].sections) :
                \/ k \in DOMAIN config /\ s \in ToSet(config[k].sections)
                \/ k = key /\ s = OwnName
  BY <1>4, <1>5
<1>7. OwnName \in ToSet(config'[key].sections)
  BY <1>2, <1>4
<1>8. ListedExist(config')
  BY <1>2, <1>3, <1>6 DEF TreeInv, ListedExist
<1>9. HaveParents(config')
  <2> SUFFICES ASSUME NEW k \in DOMAIN config' \ {<< >>}
               PROVE  \E p \in DOMAIN config' : \E s \in ToSet(config'[p].sections) : k = p \o s
    BY DEF HaveParents
  <2>1. CASE k \in DOMAIN config
    <3>1. PICK p \in DOMAIN config : \E s \in ToSet(config[p].sections) : k = p \o s
      BY <2>1 DEF TreeInv, HaveParents
    <3> QED BY <1>2, <1>6, <3>1
  <2>2. CASE k \notin DOMAIN config
    <3>1. k = full
      BY <1>1, <1>2, <2>2
    <3> QED BY <1>2, <1>3, <1>7, <3>1
  <2> QED BY <2>1, <2>2
<1>10. OpenSections(config', path')
  <2> SUFFICES ASSUME NEW j \in 1 .. n + 1
               PROVE  implode_config_path(SubSeq(path', 1, j)) \in DOMAIN config'
    BY <1>1 DEF OpenSections
  <2>1. CASE j \in 1 .. n
    <3>1. j \in 1 .. Len(path)
      BY <1>1, <2>1
    <3>2. implode_config_path(SubSeq(path, 1, j)) \in DOMAIN config
      BY <3>1 DEF TreeInv, OpenSections
    <3> QED BY <1>1, <1>2, <2>1, <3>2
  <2>2. CASE j = n + 1
    BY <1>1, <1>2, <2>2
  <2> QED BY <1>1, <2>1, <2>2
<1> QED BY <1>1, <1>2, <1>8, <1>9, <1>10

\* A property changes the values of an entry.
LEMMA ReadPropertyKeepsTree ==
    ASSUME TreeInv, ReadProperty
    PROVE  /\ path' = path /\ MapShape(config') /\ OpenSections(config', path')
           /\ ListedExist(config') /\ HaveParents(config')
<1> DEFINE key == implode_config_path(path)
<1>1. path' = path
  BY DEF ReadProperty
<1>2. /\ MapShape(config') /\ DOMAIN config' = DOMAIN config
      /\ \A k \in DOMAIN config : config'[k].sections = config[k].sections
  <2>1. CASE key \in DOMAIN config
    <3>1. PICK v : config' = [config EXCEPT ![key].values = v]
      BY <2>1 DEF ReadProperty
    <3> HIDE DEF key
    <3>2. /\ DOMAIN config' = DOMAIN config
          /\ \A k \in DOMAIN config : k # key => config'[k] = config[k]
          /\ config' = [k \in DOMAIN config' |-> config'[k]]
          /\ config'[key] = [config[key] EXCEPT !.values = v]
      BY <2>1, <3>1 DEF TreeInv, MapShape
    <3>3. Entry(config[key])
      BY <2>1 DEF TreeInv, MapShape
    <3>4. config'[key] = [sections |-> config[key].sections, values |-> v]
      BY <3>2, <3>3 DEF Entry
    <3>5. Entry(config'[key]) /\ config'[key].sections = config[key].sections
      BY <3>3, <3>4 DEF Entry
    <3>6. \A k \in DOMAIN config : Entry(config'[k]) /\ config'[k].sections = config[k].sections
      BY <3>2, <3>5 DEF TreeInv, MapShape
    <3> QED BY <3>2, <3>6 DEF TreeInv, MapShape
  <2>2. CASE key \notin DOMAIN config
    <3>1. config' = config
      BY <2>2 DEF ReadProperty
    <3> QED BY <3>1 DEF TreeInv
  <2> QED BY <2>1, <2>2
<1>3. OpenSections(config', path')
  BY <1>1, <1>2 DEF TreeInv, OpenSections
<1>4. ListedExist(config')
  BY <1>2 DEF TreeInv, ListedExist
<1>5. HaveParents(config')
  BY <1>2 DEF TreeInv, HaveParents
<1> QED BY <1>1, <1>2, <1>3, <1>4, <1>5

\* One logical line is read.
LEMMA initConfigKeepsTree == TreeInv /\ initConfig /\ UNCHANGED disk => TreeInv'
<1> SUFFICES ASSUME TreeInv, initConfig, UNCHANGED disk PROVE TreeInv'
  OBVIOUS
<1>1. lines \in Seq(Line) /\ lines # << >>
  BY DEF TreeInv, FileShape, initConfig
<1>2. lines' \in Seq(Line)
  <2>1. PICK n \in Nat : LineEnd(lines) = n /\ n <= Len(lines)
    BY <1>1, LineEndType
  <2>2. SubSeq(lines, n + 1, Len(lines)) \in Seq(Line)
    BY <1>1, <2>1
  <2> QED BY <2>1, <2>2 DEF initConfig
<1>3. /\ path' \in Seq(Seq(STRING)) /\ MapShape(config') /\ OpenSections(config', path')
      /\ ListedExist(config') /\ HaveParents(config')
  <2>1. CASE ReadSection
    BY <1>1, <2>1, ReadSectionKeepsTree
  <2>2. CASE ReadProperty
    BY <2>2, ReadPropertyKeepsTree DEF TreeInv, FileShape
  <2>3. CASE ReadText
    <3>1. path' = path /\ config' = config
      BY <2>3 DEF ReadText
    <3> QED BY <3>1 DEF TreeInv, FileShape
  <2> QED BY <2>1, <2>2, <2>3 DEF initConfig
<1>4. FileShape'
  BY <1>2, <1>3 DEF TreeInv, FileShape
<1> QED BY <1>3, <1>4 DEF TreeInv

\* A step that does not read leaves the map and the path as they are.
LEMMA AsideKeepsTree ==
    ASSUME TreeInv, lines' \in Seq(Line), UNCHANGED <<path, config, disk>>
    PROVE  TreeInv'
BY DEF TreeInv, FileShape

\* No section has been read at the start.
LEMMA InitTree == Init => TreeInv
<1> SUFFICES ASSUME Init PROVE TreeInv
  OBVIOUS
<1>1. lines = << >> /\ path = << >> /\ config = << >>
  BY DEF Init, ConfigInit
<1>2. FileShape
  <2>1. \A f \in DOMAIN disk : disk[f] \in Seq(Line)
    BY StartupAssumption DEF Init
  <2> QED BY <1>1, <2>1 DEF FileShape
<1>3. DOMAIN config = {} /\ config = [k \in {} |-> config[k]]
  BY <1>1
<1>4. MapShape(config) /\ OpenSections(config, path) /\ ListedExist(config) /\ HaveParents(config)
  BY <1>1, <1>3 DEF MapShape, OpenSections, ListedExist, HaveParents
<1> QED BY <1>2, <1>4 DEF TreeInv

\* No step breaks the tree.
LEMMA StepKeepsTree == TreeInv /\ [Next]_vars => TreeInv'
<1> SUFFICES ASSUME TreeInv, [Next]_vars PROVE TreeInv'
  OBVIOUS
<1>1. CASE initCmdLine
  <2>1. UNCHANGED <<path, config, disk>>
    BY <1>1 DEF initCmdLine, OpenFile, configVars
  <2>2. lines' \in Seq(Line)
    BY <1>1 DEF initCmdLine, OpenFile, configVars, TreeInv, FileShape
  <2> QED BY <2>1, <2>2, AsideKeepsTree
<1>2. CASE ReadConfig
  <2>1. UNCHANGED disk
    BY <1>2 DEF ReadConfig
  <2>2. CASE initConfig
    BY <2>1, <2>2, initConfigKeepsTree
  <2>3. CASE EndOfFile
    <3>1. UNCHANGED <<lines, path, config>>
      BY <2>3 DEF EndOfFile
    <3> QED BY <2>1, <3>1, AsideKeepsTree DEF TreeInv, FileShape
  <2> QED BY <1>2, <2>2, <2>3 DEF ReadConfig
<1>3. CASE UNCHANGED <<configVars, disk>>
  BY <1>3, AsideKeepsTree DEF configVars, TreeInv, FileShape
<1>4. initCmdLine \/ ReadConfig \/ UNCHANGED <<configVars, disk>>
  BY DEF Next, vars, initMQ, initSAPI, LoadModule, initChannels, initRoutes, initServer,
              initThreadPool, NextPhase, Serve, Ended
<1> QED BY <1>1, <1>2, <1>3, <1>4

\* The flat map of sections is a tree in every state, for every file, well nested
\* or not, and every command line; a property finds the entry of its section.
THEOREM MapIsATree == Spec => []SectionsResolve
BY InitTree, StepKeepsTree, TreeInvImplies, PTL DEF Spec
-----------------------------------------------------------------------------
(* The map has what the file means.                                        *)

\* The last section of level n before line p, or 0.
LastOf(ll, n, p) == Max({0} \cup {j \in SectionLines(ll) : j < p /\ ll[j].level = n})

\* The stack s of open sections has one for each level down to that of the section
\* in force: the last one of its level.
StackMeans(ll, p, s) ==
    /\ Len(s) = IF InForce(ll, p - 1) = 0 THEN 0 ELSE ll[InForce(ll, p - 1)].level
    /\ \A n \in 1 .. Len(s) :
          /\ LastOf(ll, n, p) # 0
          /\ implode_config_path(SubSeq(s, 1, n)) = FullName(ll)[LastOf(ll, n, p)]

\* The map c has what the lines in L mean.
MapMeans(ll, L, c) ==
    /\ DOMAIN c = IF SectionLines(ll) \cap L = {} THEN {}
                  ELSE {<< >>} \cup {FullName(ll)[i] : i \in SectionLines(ll) \cap L}
    /\ \A key \in DOMAIN c :
          c[key] = [sections |-> SectionsOf(ll, key, L), values |-> ValuesOf(ll, key, L)]

\* The reader is at the logical line p of a well nested file; the next one is q.
AtLogical(ll, m, p, q) ==
    /\ LinesShape(ll, m) /\ WellNested(ll)
    /\ p \in Nat /\ q \in Nat /\ p < q
    /\ Reads(ll, 1 .. p - 1, 1 .. q - 1, p)
    /\ lines # << >> /\ LogicalLine(lines) = ll[p]

\* What is before the next line is what was before this one, and this one.
LEMMA LinesBefore ==
    ASSUME NEW ll, NEW m, NEW p, NEW q, AtLogical(ll, m, p, q)
    PROVE  /\ p \in DOMAIN ll /\ p \in Nat \ {0}
           /\ \A i \in DOMAIN ll : i \in Nat /\ i # 0 /\ (i < q <=> i < p \/ i = p)
<1>1. p \in DOMAIN ll /\ p \in Nat /\ q \in Nat /\ p < q
  BY DEF AtLogical, Reads
<1>2. \A i \in DOMAIN ll : i \in Nat /\ i # 0
  BY DEF AtLogical, LinesShape
<1>3. \A i \in DOMAIN ll : i \in 1 .. q - 1 <=> i \in 1 .. p - 1 \/ i = p
  <2>1. DOMAIN ll \cap (1 .. q - 1) = (DOMAIN ll \cap (1 .. p - 1)) \cup {p}
    BY DEF AtLogical, Reads
  <2> QED BY <1>1, <2>1
<1>4. ASSUME NEW i \in DOMAIN ll PROVE i < q <=> i < p \/ i = p
  <2>1. i \in Nat /\ i # 0
    BY <1>2
  <2>2. (i \in 1 .. q - 1 <=> i < q) /\ (i \in 1 .. p - 1 <=> i < p)
    BY <1>1, <2>1
  <2> QED BY <1>3, <2>2
<1> QED BY <1>1, <1>2, <1>4

\* The last section of a level.
LEMMA LastOfShape ==
    ASSUME NEW ll, NEW m, LinesShape(ll, m), NEW n, NEW p \in Nat
    PROVE  /\ LastOf(ll, n, p) \in Nat
           /\ LastOf(ll, n, p) # 0 => /\ LastOf(ll, n, p) \in SectionLines(ll)
                                      /\ LastOf(ll, n, p) < p
                                      /\ ll[LastOf(ll, n, p)].level = n
           /\ \A j \in SectionLines(ll) : j < p /\ ll[j].level = n => j <= LastOf(ll, n, p)
<1> DEFINE S == {j \in SectionLines(ll) : j < p /\ ll[j].level = n}
<1>1. S \in SUBSET Nat /\ \A j \in S : j <= p
  BY DEF LinesShape, SectionLines
<1>2. LastOf(ll, n, p) = Max({0} \cup S)
  BY DEF LastOf
<1>3. \A j \in SectionLines(ll) : j < p /\ ll[j].level = n => j \in S
  OBVIOUS
<1>4. \A j \in S : j \in SectionLines(ll) /\ j < p /\ ll[j].level = n
  OBVIOUS
<1> HIDE DEF S
<1> QED BY <1>1, <1>2, <1>3, <1>4, GreatestOrZero

\* A line that is no section leaves the section in force and the last ones of
\* each level what they are.
LEMMA StackStays ==
    ASSUME NEW ll, NEW m, NEW p, NEW q, AtLogical(ll, m, p, q), p \notin SectionLines(ll)
    PROVE  /\ InForce(ll, q - 1) = InForce(ll, p - 1) /\ InForce(ll, p) = InForce(ll, p - 1)
           /\ \A n : LastOf(ll, n, q) = LastOf(ll, n, p)
           /\ \A s : StackMeans(ll, p, s) => StackMeans(ll, q, s)
<1>1. \A i \in SectionLines(ll) : i \in Nat /\ i # p /\ (i < q <=> i < p)
  BY LinesBefore DEF SectionLines
<1>2. p \in Nat /\ q \in Nat
  BY DEF AtLogical
<1>3. /\ {j \in SectionLines(ll) : j <= q - 1} = {j \in SectionLines(ll) : j <= p - 1}
      /\ {j \in SectionLines(ll) : j <= p} = {j \in SectionLines(ll) : j <= p - 1}
  <2>1. \A j \in SectionLines(ll) : (j <= q - 1 <=> j <= p - 1) /\ (j <= p <=> j <= p - 1)
    <3> SUFFICES ASSUME NEW j \in SectionLines(ll) PROVE (j <= q - 1 <=> j <= p - 1) /\ (j <= p <=> j <= p - 1)
      OBVIOUS
    <3>1. j \in Nat /\ j # p /\ (j < q <=> j < p)
      BY <1>1
    <3> QED BY <1>2, <3>1
  <2> QED BY <2>1
<1>4. InForce(ll, q - 1) = InForce(ll, p - 1) /\ InForce(ll, p) = InForce(ll, p - 1)
  BY <1>3 DEF InForce
<1>5. \A n : LastOf(ll, n, q) = LastOf(ll, n, p)
  <2> SUFFICES ASSUME NEW n PROVE LastOf(ll, n, q) = LastOf(ll, n, p)
    OBVIOUS
  <2>1. {j \in SectionLines(ll) : j < q /\ ll[j].level = n} = {j \in SectionLines(ll) : j < p /\ ll[j].level = n}
    BY <1>1
  <2> QED BY <2>1 DEF LastOf
<1>6. \A s : StackMeans(ll, p, s) => StackMeans(ll, q, s)
  BY <1>4, <1>5 DEF StackMeans
<1> QED BY <1>4, <1>5, <1>6

\* In a well nested file the stack has the section that the new one belongs to, at
\* the place where the reader looks for it.
LEMMA ReadSectionName ==
    ASSUME NEW ll, NEW m, NEW p, NEW q, AtLogical(ll, m, p, q), TreeInv, ReadSection,
           StackMeans(ll, p, path)
    PROVE  /\ p \in SectionLines(ll) /\ OwnName = ll[p].name
           /\ OpenDepth = ll[p].level - 1
           /\ OuterKey = IF Parent(ll, p) = 0 THEN << >> ELSE FullName(ll)[Parent(ll, p)]
           /\ FullName(ll)[p] = OuterKey \o OwnName
<1> DEFINE v == ll[p].level
           n == OpenDepth
<1>1. LinesShape(ll, m) /\ lines # << >> /\ LogicalLine(lines) = ll[p] /\ WellNested(ll)
  BY DEF AtLogical
<1>2. p \in SectionLines(ll) /\ OwnName = ll[p].name /\ p \in Nat
  BY <1>1, LinesBefore DEF ReadSection, SectionLines, OwnName
<1>3. /\ v \in Nat \ {0} /\ Len(path) \in Nat /\ n \in Nat /\ n <= Len(path)
      /\ n = v - 1 \/ n = Len(path)
      /\ n <= v - 1
      /\ n = 0 => OuterKey = << >>
  BY <1>1, ReadSectionPath
<1>4. v <= 1 + Len(path)
  BY <1>1, <1>2 DEF WellNested, StackMeans
<1>5. n = v - 1
  <2> HIDE DEF v, n
  <2> QED BY <1>3, <1>4
<1>6. Parent(ll, p) = LastOf(ll, n, p)
  BY <1>5 DEF Parent, LastOf
<1>7. /\ LastOf(ll, n, p) # 0 => LastOf(ll, n, p) \in SectionLines(ll) /\ ll[LastOf(ll, n, p)].level = n
  BY <1>1, <1>2, LastOfShape
<1> HIDE DEF v, n
<1>8. OuterKey = IF Parent(ll, p) = 0 THEN << >> ELSE FullName(ll)[Parent(ll, p)]
  <2>1. CASE n = 0
    <3>1. \A j \in SectionLines(ll) : ll[j].level # 0
      BY <1>1 DEF LinesShape, SectionLines
    <3>2. Parent(ll, p) = 0
      BY <1>6, <1>7, <2>1, <3>1
    <3> QED BY <1>3, <2>1, <3>2
  <2>2. CASE n # 0
    <3>1. n \in 1 .. Len(path)
      BY <1>3, <2>2
    <3>2. LastOf(ll, n, p) # 0 /\ implode_config_path(SubSeq(path, 1, n)) = FullName(ll)[LastOf(ll, n, p)]
      BY <3>1 DEF StackMeans
    <3> QED BY <1>6, <3>2 DEF OuterKey, n
  <2> QED BY <2>1, <2>2
<1>9. FullName(ll)[p] = OuterKey \o OwnName
  BY <1>1, <1>2, <1>8, FullNameIs
<1> QED BY <1>2, <1>5, <1>8, <1>9 DEF v, n

\* The stack after a section.
LEMMA ReadSectionStack ==
    ASSUME NEW ll, NEW m, NEW p, NEW q, AtLogical(ll, m, p, q), TreeInv, ReadSection,
           StackMeans(ll, p, path)
    PROVE  StackMeans(ll, q, path')
<1> DEFINE n == OpenDepth
<1>1. LinesShape(ll, m) /\ lines # << >> /\ LogicalLine(lines) = ll[p] /\ q \in Nat /\ p < q /\ q - 1 \in Nat
  BY DEF AtLogical
<1>2. /\ p \in SectionLines(ll) /\ OwnName = ll[p].name /\ n = ll[p].level - 1
      /\ FullName(ll)[p] = OuterKey \o OwnName
  BY ReadSectionName
<1>3. \A i \in SectionLines(ll) : i \in Nat /\ (i < q <=> i < p \/ i = p)
  BY LinesBefore DEF SectionLines
<1>4. /\ n \in Nat /\ n <= Len(path) /\ Len(path) \in Nat /\ Len(path') = n + 1 /\ ll[p].level \in Nat \ {0}
      /\ \A j \in 1 .. n : SubSeq(path', 1, j) = SubSeq(path, 1, j)
      /\ implode_config_path(SubSeq(path', 1, n + 1)) = OuterKey \o OwnName
  BY <1>1, ReadSectionPath
<1> HIDE DEF n
<1>5. InForce(ll, q - 1) = p
  <2> DEFINE S == {j \in SectionLines(ll) : j <= q - 1}
  <2>1. S \in SUBSET Nat
    BY <1>3
  <2>2. p \in S
    BY <1>1, <1>2, <1>3
  <2>3. \A k \in S : k <= p
    <3> SUFFICES ASSUME NEW k \in SectionLines(ll), k <= q - 1 PROVE k <= p
      OBVIOUS
    <3>1. k \in Nat /\ p \in Nat /\ (k < q <=> k < p \/ k = p)
      BY <1>2, <1>3
    <3> QED BY <1>1, <3>1
  <2>4. InForce(ll, q - 1) = Max({0} \cup S)
    BY DEF InForce
  <2> HIDE DEF S
  <2> QED BY <2>1, <2>2, <2>3, <2>4, GreatestIs
<1>6. Len(path') = ll[p].level /\ p # 0
  <2>1. p # 0
    BY LinesBefore
  <2> QED BY <1>2, <1>4, <2>1
<1>7. ASSUME NEW k \in 1 .. n
      PROVE  /\ LastOf(ll, k, q) # 0
             /\ implode_config_path(SubSeq(path', 1, k)) = FullName(ll)[LastOf(ll, k, q)]
  <2>1. k # ll[p].level /\ k \in 1 .. Len(path)
    BY <1>2, <1>4
  <2>2. {j \in SectionLines(ll) : j < q /\ ll[j].level = k} = {j \in SectionLines(ll) : j < p /\ ll[j].level = k}
    BY <1>3, <2>1
  <2>3. LastOf(ll, k, q) = LastOf(ll, k, p)
    BY <2>2 DEF LastOf
  <2> QED BY <1>4, <2>1, <2>3 DEF StackMeans
<1>8. LastOf(ll, n + 1, q) = p
  <2> DEFINE S == {j \in SectionLines(ll) : j < q /\ ll[j].level = n + 1}
  <2>1. S \in SUBSET Nat
    BY <1>3
  <2>2. p \in S
    BY <1>1, <1>2, <1>4
  <2>3. \A k \in S : k <= p
    <3> SUFFICES ASSUME NEW k \in SectionLines(ll), k < q PROVE k <= p
      OBVIOUS
    <3>1. k \in Nat /\ p \in Nat /\ (k < p \/ k = p)
      BY <1>2, <1>3
    <3> QED BY <3>1
  <2>4. LastOf(ll, n + 1, q) = Max({0} \cup S)
    BY DEF LastOf
  <2> HIDE DEF S
  <2> QED BY <2>1, <2>2, <2>3, <2>4, GreatestIs
<1>9. ASSUME NEW k \in 1 .. Len(path')
      PROVE  /\ LastOf(ll, k, q) # 0
             /\ implode_config_path(SubSeq(path', 1, k)) = FullName(ll)[LastOf(ll, k, q)]
  <2>1. k \in 1 .. n \/ k = n + 1
    BY <1>4
  <2>2. CASE k \in 1 .. n
    BY <1>7, <2>2
  <2>3. CASE k = n + 1
    BY <1>2, <1>4, <1>6, <1>8, <2>3
  <2> QED BY <2>1, <2>2, <2>3
<1> QED BY <1>5, <1>6, <1>9 DEF StackMeans

\* The map after a section.
LEMMA ReadSectionMeans ==
    ASSUME NEW ll, NEW m, NEW p, NEW q, AtLogical(ll, m, p, q), TreeInv, ReadSection,
           StackMeans(ll, p, path), MapMeans(ll, 1 .. p - 1, config)
    PROVE  MapMeans(ll, 1 .. q - 1, config')
<1> DEFINE L == 1 .. p - 1
           M == 1 .. q - 1
           key == OuterKey
           full == OuterKey \o OwnName
           Old(k) == IF k \in DOMAIN config THEN config[k] ELSE NoSection
<1>1. LinesShape(ll, m) /\ lines # << >> /\ Reads(ll, L, M, p) /\ p \in Nat /\ q \in Nat /\ m \in Nat
  BY DEF AtLogical, LinesShape
<1>2. /\ p \in SectionLines(ll) /\ OwnName = ll[p].name /\ FullName(ll)[p] = full
      /\ key = IF Parent(ll, p) = 0 THEN << >> ELSE FullName(ll)[Parent(ll, p)]
  BY ReadSectionName
<1>3. OwnName \in Seq(STRING) /\ key \in Seq(STRING)
  BY <1>1, ReadSectionPath
<1>4. /\ MapShape(config') /\ DOMAIN config' = DOMAIN config \cup {key, full}
      /\ \A k \in DOMAIN config' :
            config'[k] = IF k = key THEN [sections |-> Append(Old(k).sections, OwnName), values |-> Old(k).values]
                         ELSE Old(k)
  BY <1>1, ReadSectionMap
<1>5. /\ SectionLines(ll) \cap M = (SectionLines(ll) \cap L) \cup {p}
      /\ \A i \in SectionLines(ll) : i \in L <=> i < p
  <2>1. \A i : i \in SectionLines(ll) => i \in DOMAIN ll
    BY DEF SectionLines
  <2>2. \A i \in DOMAIN ll : i \in Nat /\ i # 0
    BY LinesBefore
  <2>3. \A i \in SectionLines(ll) : i \in L <=> i < p
    BY <1>1, <2>1, <2>2
  <2>4. DOMAIN ll \cap M = (DOMAIN ll \cap L) \cup {p}
    BY <1>1 DEF Reads
  <2> HIDE DEF L, M
  <2> QED BY <1>2, <2>1, <2>3, <2>4
<1>6. Parent(ll, p) # 0 => Parent(ll, p) \in SectionLines(ll) \cap L
  BY <1>1, <1>2, <1>5, ParentShape
<1>7. DOMAIN config = IF SectionLines(ll) \cap L = {} THEN {}
                      ELSE {<< >>} \cup {FullName(ll)[i] : i \in SectionLines(ll) \cap L}
  BY DEF MapMeans
<1>8. \A k \in DOMAIN config : config[k] = [sections |-> SectionsOf(ll, k, L), values |-> ValuesOf(ll, k, L)]
  BY DEF MapMeans
<1>15. full = key \o OwnName
  OBVIOUS
<1> HIDE DEF L, M, key, full, Old
<1>9. DOMAIN config' = {<< >>} \cup {FullName(ll)[i] : i \in SectionLines(ll) \cap M}
  BY <1>2, <1>4, <1>5, <1>6, <1>7
<1>10. ASSUME NEW k \in DOMAIN config'
       PROVE  /\ Old(k) = [sections |-> SectionsOf(ll, k, L), values |-> ValuesOf(ll, k, L)]
              /\ SectionsOf(ll, k, L) \in Seq(Seq(STRING))
  <2>1. CASE k \in DOMAIN config
    <3>1. Old(k) = config[k] /\ Entry(config[k])
      BY <2>1 DEF Old, TreeInv, MapShape
    <3>2. config[k].sections \in Seq(Seq(STRING))
      BY <3>1 DEF Entry
    <3>3. config[k] = [sections |-> SectionsOf(ll, k, L), values |-> ValuesOf(ll, k, L)]
      BY <1>8, <2>1
    <3> QED BY <3>1, <3>2, <3>3
  <2>2. CASE k \notin DOMAIN config
    <3>1. Old(k) = [sections |-> << >>, values |-> << >>]
      BY <2>2 DEF Old, NoSection
    <3>2. k \in Seq(STRING)
      BY <1>4 DEF MapShape
    <3>3. \A i \in SectionLines(ll) : i < p => FullName(ll)[i] # k
      BY <1>5, <1>7, <2>2
    <3>4. k = << >> => \A i \in SectionLines(ll) : ~(i < p)
      BY <1>5, <1>7, <2>2
    <3>5. SectionsOf(ll, k, L) = << >> /\ ValuesOf(ll, k, L) = << >>
      BY <1>1, <3>2, <3>3, <3>4, NothingYet DEF L
    <3>6. << >> \in Seq(Seq(STRING))
      OBVIOUS
    <3> QED BY <3>1, <3>5, <3>6
  <2> QED BY <2>1, <2>2
<1>11. \A k : ValuesOf(ll, k, M) = ValuesOf(ll, k, L)
  <2>1. ll[p].kind # "property"
    BY <1>2 DEF SectionLines
  <2> QED BY <1>1, <2>1, ValuesSame
<1>12. ASSUME NEW k \in DOMAIN config'
       PROVE  config'[k] = [sections |-> SectionsOf(ll, k, M), values |-> ValuesOf(ll, k, M)]
  <2>1. Old(k).sections = SectionsOf(ll, k, L) /\ Old(k).values = ValuesOf(ll, k, L)
    BY <1>10
  <2>2. CASE k = key
    <3>1. SectionsOf(ll, k, M) = Append(SectionsOf(ll, k, L), OwnName)
      <4>1. FullName(ll)[p] = k \o ll[p].name
        BY <1>2, <1>15, <2>2
      <4>2. SectionsOf(ll, k, L) \in Seq(Seq(STRING))
        BY <1>10
      <4>3. SectionsOf(ll, k, M) = Append(SectionsOf(ll, k, L), ll[p].name)
        BY <1>1, <1>2, <4>1, <4>2, SectionsGrow
      <4> QED BY <1>2, <4>3
    <3> QED BY <1>4, <1>11, <2>1, <2>2, <3>1
  <2>3. CASE k # key
    <3>1. k \in Seq(STRING)
      BY <1>4 DEF MapShape
    <3>2. FullName(ll)[p] # k \o ll[p].name
      <4> SUFFICES ASSUME key \o OwnName = k \o OwnName PROVE FALSE
        BY <1>2, <1>15
      <4> QED BY <1>3, <2>3, <3>1, ConcatSimplifications
    <3>3. SectionsOf(ll, k, M) = SectionsOf(ll, k, L)
      BY <1>1, <3>2, SectionsSame
    <3> QED BY <1>4, <1>10, <1>11, <2>3, <3>3
  <2> QED BY <2>2, <2>3
<1>13. SectionLines(ll) \cap M # {}
  BY <1>5
<1> QED BY <1>9, <1>12, <1>13 DEF MapMeans, M

\* The innermost open section is the section in force.
LEMMA InnermostIsInForce ==
    ASSUME NEW ll, NEW m, NEW p, NEW q, AtLogical(ll, m, p, q), TreeInv, StackMeans(ll, p, path)
    PROVE  IF InForce(ll, p - 1) = 0 THEN path = << >>
           ELSE path # << >> /\ implode_config_path(path) = FullName(ll)[InForce(ll, p - 1)]
<1> DEFINE f == InForce(ll, p - 1)
           n == Len(path)
<1>1. LinesShape(ll, m) /\ p \in Nat /\ p - 1 \in Nat
  <2>1. LinesShape(ll, m)
    BY DEF AtLogical
  <2>2. p \in Nat \ {0}
    BY LinesBefore
  <2> QED BY <2>1, <2>2
<1>2. path \in Seq(Seq(STRING)) /\ n \in Nat
  BY DEF TreeInv, FileShape
<1>3. /\ f \in Nat /\ (f # 0 => f \in SectionLines(ll) /\ f <= p - 1)
      /\ \A j \in SectionLines(ll) : j <= p - 1 => j <= f
  BY <1>1, InForceShape
<1>4. n = IF f = 0 THEN 0 ELSE ll[f].level
  BY DEF StackMeans
<1> HIDE DEF f, n
<1>5. CASE f = 0
  <2>1. path = << >>
    BY <1>2, <1>4, <1>5 DEF n
  <2> QED BY <1>5, <2>1 DEF f
<1>6. CASE f # 0
  <2>1. n \in 1 .. n /\ n = ll[f].level /\ n # 0
    BY <1>1, <1>2, <1>3, <1>4, <1>6 DEF LinesShape, SectionLines
  <2>2. LastOf(ll, n, p) # 0 /\ implode_config_path(SubSeq(path, 1, n)) = FullName(ll)[LastOf(ll, n, p)]
    BY <2>1 DEF StackMeans, n
  <2>3. SubSeq(path, 1, n) = path
    BY <1>2, SubSeqFull DEF n
  <2> DEFINE g == LastOf(ll, n, p)
  <2>4. /\ g \in Nat /\ g \in SectionLines(ll) /\ g < p
        /\ \A j \in SectionLines(ll) : j < p /\ ll[j].level = n => j <= g
    BY <1>1, <2>2, LastOfShape
  <2> HIDE DEF g
  <2>5. g <= f
    BY <1>1, <1>3, <2>4
  <2>6. f <= g
    BY <1>1, <1>3, <1>6, <2>1, <2>4
  <2>7. g = f
    BY <1>3, <2>4, <2>5, <2>6
  <2>8. path # << >>
    <3>1. Len(<< >>) = 0
      OBVIOUS
    <3> QED BY <2>1, <3>1 DEF n
  <2> QED BY <1>6, <2>2, <2>3, <2>7, <2>8 DEF f, g
<1> QED BY <1>5, <1>6

\* A property before the first section has nowhere to go; any other one finds the
\* entry of the section in force.
LEMMA PropertyPlace ==
    ASSUME NEW ll, NEW m, NEW p, NEW q, AtLogical(ll, m, p, q), TreeInv, StackMeans(ll, p, path),
           MapMeans(ll, 1 .. p - 1, config), p \notin SectionLines(ll)
    PROVE  IF InForce(ll, p) = 0
           THEN implode_config_path(path) \notin DOMAIN config /\ DOMAIN config = {}
           ELSE /\ implode_config_path(path) \in DOMAIN config
                /\ implode_config_path(path) = FullName(ll)[InForce(ll, p)]
<1> DEFINE f == InForce(ll, p)
<1>1. LinesShape(ll, m) /\ p \in Nat /\ p - 1 \in Nat
  <2>1. LinesShape(ll, m)
    BY DEF AtLogical
  <2>2. p \in Nat \ {0}
    BY LinesBefore
  <2> QED BY <2>1, <2>2
<1>2. f = InForce(ll, p - 1)
  BY StackStays
<1>3. /\ f \in Nat /\ (f # 0 => f \in SectionLines(ll) /\ f <= p - 1)
      /\ \A j \in SectionLines(ll) : j <= p - 1 => j <= f
  BY <1>1, <1>2, InForceShape
<1>4. \A i \in SectionLines(ll) : i \in Nat /\ i # 0
  BY LinesBefore DEF SectionLines
<1>5. DOMAIN config = IF SectionLines(ll) \cap (1 .. p - 1) = {} THEN {}
                      ELSE {<< >>} \cup {FullName(ll)[i] : i \in SectionLines(ll) \cap (1 .. p - 1)}
  BY DEF MapMeans
<1>6. f # 0 => implode_config_path(path) = FullName(ll)[f]
  BY <1>2, InnermostIsInForce
<1> HIDE DEF f
<1>7. CASE f = 0
  <2>1. SectionLines(ll) \cap (1 .. p - 1) = {}
    <3> SUFFICES ASSUME NEW j \in SectionLines(ll), j \in 1 .. p - 1 PROVE FALSE
      OBVIOUS
    <3>1. j \in Nat /\ j # 0 /\ j <= p - 1
      BY <1>1, <1>4
    <3> QED BY <1>3, <1>7, <3>1
  <2> QED BY <1>5, <1>7, <2>1 DEF f
<1>8. CASE f # 0
  <2>1. f \in SectionLines(ll) \cap (1 .. p - 1)
    BY <1>1, <1>3, <1>4, <1>8
  <2> QED BY <1>5, <1>6, <1>8, <2>1 DEF f
<1> QED BY <1>7, <1>8

\* The map after a property.
LEMMA ReadPropertyMeans ==
    ASSUME NEW ll, NEW m, NEW p, NEW q, AtLogical(ll, m, p, q), TreeInv, ReadProperty,
           StackMeans(ll, p, path), MapMeans(ll, 1 .. p - 1, config)
    PROVE  MapMeans(ll, 1 .. q - 1, config') /\ (reading' = "crashed" => reading = "crashed" \/ InForce(ll, p) = 0)
<1> DEFINE L == 1 .. p - 1
           M == 1 .. q - 1
           key == implode_config_path(path)
           x == ll[p].name[1]
           y == RemoveComment(ll[p].text)
<1>1. LinesShape(ll, m) /\ LogicalLine(lines) = ll[p] /\ Reads(ll, L, M, p)
  BY DEF AtLogical
<1>2. ll[p].kind = "property" /\ p \notin SectionLines(ll)
  BY <1>1 DEF ReadProperty, SectionLines
<1>3. SectionLines(ll) \cap M = SectionLines(ll) \cap L
  <2>1. \A i : i \in SectionLines(ll) => i \in DOMAIN ll
    BY DEF SectionLines
  <2>2. DOMAIN ll \cap M = (DOMAIN ll \cap L) \cup {p}
    BY <1>1 DEF Reads
  <2> HIDE DEF L, M
  <2> QED BY <1>2, <2>1, <2>2
<1>4. IF InForce(ll, p) = 0 THEN key \notin DOMAIN config /\ DOMAIN config = {}
      ELSE key \in DOMAIN config /\ key = FullName(ll)[InForce(ll, p)]
  BY <1>2, PropertyPlace
<1>5. /\ DOMAIN config = IF SectionLines(ll) \cap L = {} THEN {}
                         ELSE {<< >>} \cup {FullName(ll)[i] : i \in SectionLines(ll) \cap L}
      /\ \A k \in DOMAIN config : config[k] = [sections |-> SectionsOf(ll, k, L), values |-> ValuesOf(ll, k, L)]
  BY DEF MapMeans
<1>6. IF key \in DOMAIN config
      THEN config' = [config EXCEPT ![key].values = Emplace(@, x, y)] /\ reading' = reading
      ELSE config' = config
  BY <1>1 DEF ReadProperty
<1> HIDE DEF L, M, key, x, y
<1>7. CASE InForce(ll, p) = 0
  BY <1>3, <1>4, <1>5, <1>6, <1>7 DEF MapMeans, M
<1>8. CASE InForce(ll, p) # 0
  <2>1. key \in DOMAIN config /\ key = FullName(ll)[InForce(ll, p)]
    BY <1>4, <1>8
  <2>2. config = [k \in DOMAIN config |-> config[k]]
    BY DEF TreeInv, MapShape
  <2>3. /\ DOMAIN config' = DOMAIN config
        /\ \A k \in DOMAIN config : k # key => config'[k] = config[k]
        /\ config'[key] = [config[key] EXCEPT !.values = Emplace(@, x, y)]
    BY <1>6, <2>1, <2>2
  <2>4. \A k : SectionsOf(ll, k, M) = SectionsOf(ll, k, L)
    BY <1>1, <1>2, SectionsSame
  <2>5. \A k : k # key => ValuesOf(ll, k, M) = ValuesOf(ll, k, L)
    BY <1>1, <2>1, ValuesSame
  <2>6. ValuesOf(ll, key, M) = Emplace(ValuesOf(ll, key, L), x, y)
    BY <1>1, <1>2, <1>8, <2>1, ValuesGrow DEF x, y
  <2>7. config'[key] = [sections |-> SectionsOf(ll, key, M), values |-> ValuesOf(ll, key, M)]
    <3>1. config[key] = [sections |-> SectionsOf(ll, key, L), values |-> ValuesOf(ll, key, L)]
      BY <1>5, <2>1
    <3> QED BY <2>3, <2>4, <2>6, <3>1
  <2>8. \A k \in DOMAIN config' : config'[k] = [sections |-> SectionsOf(ll, k, M), values |-> ValuesOf(ll, k, M)]
    BY <1>5, <2>3, <2>4, <2>5, <2>7
  <2>9. DOMAIN config' = IF SectionLines(ll) \cap M = {} THEN {}
                         ELSE {<< >>} \cup {FullName(ll)[i] : i \in SectionLines(ll) \cap M}
    BY <1>3, <1>5, <2>3
  <2> QED BY <1>6, <2>1, <2>8, <2>9 DEF MapMeans, M
<1> QED BY <1>7, <1>8

\* The map after any other line.
LEMMA ReadTextMeans ==
    ASSUME NEW ll, NEW m, NEW p, NEW q, AtLogical(ll, m, p, q), ReadText,
           MapMeans(ll, 1 .. p - 1, config)
    PROVE  MapMeans(ll, 1 .. q - 1, config') /\ p \notin SectionLines(ll)
<1> DEFINE L == 1 .. p - 1
           M == 1 .. q - 1
<1>1. LogicalLine(lines) = ll[p] /\ Reads(ll, L, M, p)
  BY DEF AtLogical
<1>2. ll[p].kind = "text" /\ p \notin SectionLines(ll) /\ config' = config
  BY <1>1 DEF ReadText, SectionLines
<1>3. \A k : SectionsOf(ll, k, M) = SectionsOf(ll, k, L)
  BY <1>1, <1>2, SectionsSame
<1>4. \A k : ValuesOf(ll, k, M) = ValuesOf(ll, k, L)
  <2>1. ll[p].kind # "property"
    BY <1>2
  <2> QED BY <1>1, <2>1, ValuesSame
<1>5. SectionLines(ll) \cap M = SectionLines(ll) \cap L
  <2>1. \A i : i \in SectionLines(ll) => i \in DOMAIN ll
    BY DEF SectionLines
  <2>2. DOMAIN ll \cap M = (DOMAIN ll \cap L) \cup {p}
    BY <1>1 DEF Reads
  <2> HIDE DEF L, M
  <2> QED BY <1>2, <2>1, <2>2
<1> QED BY <1>2, <1>3, <1>4, <1>5 DEF MapMeans

\* The reader is at the logical line p of the file, or at its end.
AtLine(file, p, ls) ==
    /\ p \in Starts(file) \cup {Len(file) + 1}
    /\ ls = SubSeq(file, p, Len(file))

\* The phases between the end of the file and the end of the program.
Running == {"mq", "sapi", "channels", "routes", "server", "pool", "serving"}

\* While the file is read, the stack and the map have what the lines before the
\* reader mean; later the map has what the file means.
ReaderInv ==
    /\ phase = "cmdline" => reading = "no" /\ path = << >> /\ config = << >>
    /\ phase = "config" =>
          /\ ConfigFile \in DOMAIN disk
          /\ \E p \in Nat :
                /\ AtLine(disk[ConfigFile], p, lines)
                /\ WellNested(File) => StackMeans(File, p, path) /\ MapMeans(File, 1 .. p - 1, config)
    /\ phase \in Running => /\ ConfigFile \in DOMAIN disk
                            /\ WellNested(File) => MapMeans(File, DOMAIN File, config)

\* The reader goes from one logical line to the next.
LEMMA NextLine ==
    ASSUME NEW file \in Seq(Line), NEW p, AtLine(file, p, lines), initConfig
    PROVE  /\ p + LineEnd(lines) \in Nat /\ AtLine(file, p + LineEnd(lines), lines')
           /\ WellNested(Logical(file)) => AtLogical(Logical(file), Len(file), p, p + LineEnd(lines))
<1> DEFINE ll == Logical(file)
           m == Len(file)
           q == p + LineEnd(lines)
<1>1. lines = SubSeq(file, p, m) /\ lines # << >> /\ lines' = SubSeq(lines, LineEnd(lines) + 1, Len(lines))
  BY DEF AtLine, initConfig
<1>2. m \in Nat
  OBVIOUS
<1>3. p \in Starts(file)
  <2>1. p # m + 1
    <3> SUFFICES ASSUME p = m + 1 PROVE FALSE
      OBVIOUS
    <3>1. SubSeq(file, m + 1, m) = << >>
      BY <1>2
    <3> QED BY <1>1, <3>1
  <2> QED BY <2>1 DEF AtLine
<1>4. /\ p \in 1 .. m
      /\ q \in Starts(file) \cup {m + 1} /\ q \in Nat /\ p < q
      /\ \A i \in Starts(file) : i < q => i <= p
      /\ lines' = SubSeq(file, q, m)
  BY <1>1, <1>3, NextStart
<1>5. LinesShape(ll, m) /\ DOMAIN ll = Starts(file)
  BY LogicalLinesShape
<1>6. LogicalLine(lines) = ll[p]
  BY <1>1, <1>3 DEF Logical
<1> HIDE DEF ll, m, q
<1>7. Reads(ll, 1 .. p - 1, 1 .. q - 1, p)
  <2>1. \A i \in Starts(file) : i \in Nat /\ i # 0
    BY <1>5 DEF LinesShape
  <2>2. \A i \in Starts(file) : i \in 1 .. q - 1 <=> i \in 1 .. p - 1 \/ i = p
    <3> SUFFICES ASSUME NEW i \in Starts(file) PROVE i \in 1 .. q - 1 <=> i \in 1 .. p - 1 \/ i = p
      OBVIOUS
    <3>1. i \in Nat /\ i # 0 /\ (i < q => i <= p)
      BY <1>4, <2>1
    <3> QED BY <1>2, <1>4, <3>1 DEF m
  <2>3. p \in Nat /\ \A i \in 1 .. p - 1 : i < p
    BY <1>4
  <2> QED BY <1>3, <1>5, <2>2, <2>3 DEF Reads
<1>8. WellNested(ll) => AtLogical(ll, m, p, q)
  BY <1>1, <1>4, <1>5, <1>6, <1>7 DEF AtLogical, ll
<1>9. AtLine(file, q, lines')
  BY <1>4 DEF AtLine, m
<1> QED BY <1>4, <1>8, <1>9 DEF ll, m, q

\* One logical line is read.
LEMMA initConfigMeans ==
    ASSUME NEW ll, NEW m, NEW p, NEW q, AtLogical(ll, m, p, q), TreeInv, initConfig,
           StackMeans(ll, p, path), MapMeans(ll, 1 .. p - 1, config)
    PROVE  /\ StackMeans(ll, q, path') /\ MapMeans(ll, 1 .. q - 1, config')
           /\ reading' = "crashed" => ll[p].kind = "property" /\ InForce(ll, p) = 0
<1>0. reading = "yes" /\ LogicalLine(lines) = ll[p]
  BY DEF initConfig, AtLogical
<1>1. CASE ReadSection
  <2>1. StackMeans(ll, q, path')
    BY <1>1, ReadSectionStack
  <2>2. MapMeans(ll, 1 .. q - 1, config')
    BY <1>1, ReadSectionMeans
  <2>3. reading' # "crashed"
    BY <1>0, <1>1 DEF ReadSection
  <2> QED BY <2>1, <2>2, <2>3
<1>2. CASE ReadProperty
  <2>1. ll[p].kind = "property" /\ p \notin SectionLines(ll) /\ path' = path
    BY <1>0, <1>2 DEF ReadProperty, SectionLines
  <2>2. StackMeans(ll, q, path)
    BY <2>1, StackStays
  <2>3. MapMeans(ll, 1 .. q - 1, config') /\ (reading' = "crashed" => reading = "crashed" \/ InForce(ll, p) = 0)
    BY <1>2, ReadPropertyMeans
  <2> QED BY <1>0, <2>1, <2>2, <2>3
<1>3. CASE ReadText
  <2>1. MapMeans(ll, 1 .. q - 1, config') /\ p \notin SectionLines(ll)
    BY <1>3, ReadTextMeans
  <2>2. StackMeans(ll, q, path)
    BY <2>1, StackStays
  <2>3. path' = path /\ reading' # "crashed"
    BY <1>0, <1>3 DEF ReadText
  <2> QED BY <2>1, <2>2, <2>3
<1> QED BY <1>1, <1>2, <1>3 DEF initConfig

\* All logical lines are before the end of the file.
LEMMA AtTheEnd ==
    ASSUME NEW file \in Seq(Line), NEW p, AtLine(file, p, lines), lines = << >>
    PROVE  p = Len(file) + 1 /\ \A c : MapMeans(Logical(file), 1 .. p - 1, c) => MapMeans(Logical(file), DOMAIN Logical(file), c)
<1> DEFINE ll == Logical(file)
           L == 1 .. p - 1
<1>1. p \notin Starts(file)
  <2> SUFFICES ASSUME p \in Starts(file) PROVE FALSE
    OBVIOUS
  <2>1. SubSeq(file, p, Len(file)) # << >>
    BY NextStart
  <2> QED BY <2>1 DEF AtLine
<1>2. p = Len(file) + 1
  BY <1>1 DEF AtLine
<1>3. LinesShape(ll, Len(file))
  BY LogicalLinesShape
<1>4. DOMAIN ll \cap L = DOMAIN ll
  <2>1. Len(file) \in Nat /\ L = 1 .. Len(file)
    BY <1>2
  <2> HIDE DEF ll
  <2> QED BY <1>3, <2>1 DEF LinesShape
<1> HIDE DEF ll, L
<1>5. SectionLines(ll) \cap L = SectionLines(ll) \cap DOMAIN ll
  BY <1>4 DEF SectionLines
<1>6. \A k : SectionsOf(ll, k, L) = SectionsOf(ll, k, DOMAIN ll)
  BY <1>5 DEF SectionsOf
<1>7. \A k : ValuesOf(ll, k, L) = ValuesOf(ll, k, DOMAIN ll)
  BY <1>4 DEF ValuesOf
<1>8. ASSUME NEW c, MapMeans(ll, L, c) PROVE MapMeans(ll, DOMAIN ll, c)
  BY <1>5, <1>6, <1>7, <1>8 DEF MapMeans
<1> QED BY <1>2, <1>8 DEF ll, L

\* A step of the reader.
LEMMA ReadConfigMeans ==
    ASSUME TreeInv, ReaderInv, ReadConfig
    PROVE  ReaderInv'
<1>1. /\ phase = "config" /\ (initConfig \/ EndOfFile) /\ reading = "yes"
      /\ UNCHANGED <<args, disk>>
  BY DEF ReadConfig, initConfig, EndOfFile
<1>2. ConfigFile' = ConfigFile
  BY <1>1 DEF ConfigFile
<1> DEFINE file == disk[ConfigFile]
           ll == Logical(file)
<1>3. ConfigFile \in DOMAIN disk /\ file \in Seq(Line)
  BY <1>1 DEF ReaderInv, TreeInv, FileShape
<1>4. file' = file /\ File = ll /\ File' = ll
  BY <1>1, <1>2 DEF File
<1>5. PICK f \in Seq(Line) : f = file
  BY <1>3
<1>6. PICK p \in Nat : /\ AtLine(f, p, lines)
                       /\ WellNested(Logical(f)) => StackMeans(Logical(f), p, path) /\ MapMeans(Logical(f), 1 .. p - 1, config)
  BY <1>1, <1>4, <1>5 DEF ReaderInv
<1>7. /\ (disk[ConfigFile])' = f /\ File' = Logical(f) /\ (ConfigFile \in DOMAIN disk)'
  BY <1>1, <1>2, <1>3, <1>4, <1>5
<1> HIDE DEF file, ll
<1>8. CASE initConfig
  <2>1. reading' \in {"yes", "crashed"}
    BY <1>1, <1>8 DEF initConfig, ReadSection, ReadProperty, ReadText
  <2>2. phase' \in {"config", "terminated"}
    BY <1>1, <2>1 DEF ReadConfig, Beyond
  <2>3. \E q \in Nat : /\ AtLine(f, q, lines')
                       /\ WellNested(Logical(f)) => StackMeans(Logical(f), q, path') /\ MapMeans(Logical(f), 1 .. q - 1, config')
    <3>1. PICK q \in Nat : /\ AtLine(f, q, lines')
                           /\ WellNested(Logical(f)) => AtLogical(Logical(f), Len(f), p, q)
      <4>1. AtLine(f, p, lines)
        BY <1>6
      <4>2. /\ p + LineEnd(lines) \in Nat /\ AtLine(f, p + LineEnd(lines), lines')
            /\ WellNested(Logical(f)) => AtLogical(Logical(f), Len(f), p, p + LineEnd(lines))
        BY <1>8, <4>1, NextLine
      <4> QED BY <4>2
    <3>2. ASSUME WellNested(Logical(f))
          PROVE  StackMeans(Logical(f), q, path') /\ MapMeans(Logical(f), 1 .. q - 1, config')
      <4>1. StackMeans(Logical(f), p, path) /\ MapMeans(Logical(f), 1 .. p - 1, config)
        BY <1>6, <3>2
      <4> QED BY <1>8, <3>1, <3>2, <4>1, initConfigMeans
    <3> QED BY <3>1, <3>2
  <2> QED BY <1>7, <2>2, <2>3 DEF ReaderInv, Running
<1>9. CASE EndOfFile
  <2>1. phase' = "mq" /\ config' = config /\ lines = << >>
    BY <1>9 DEF ReadConfig, EndOfFile, Beyond
  <2>2. WellNested(Logical(f)) => MapMeans(Logical(f), DOMAIN Logical(f), config)
    BY <1>6, <2>1, AtTheEnd
  <2> QED BY <1>7, <2>1, <2>2 DEF ReaderInv, Running
<1> QED BY <1>1, <1>8, <1>9

\* The file is opened: nothing is read, and nothing is in the map.
LEMMA initCmdLineMeans ==
    ASSUME TreeInv, ReaderInv, initCmdLine
    PROVE  ReaderInv'
<1>1. /\ phase = "cmdline" /\ reading = "no" /\ path = << >> /\ config = << >> /\ UNCHANGED <<args, disk, path, config>>
  BY DEF initCmdLine, ReaderInv, OpenFile, configVars
<1>2. ConfigFile' = ConfigFile
  BY <1>1 DEF ConfigFile
<1>3. CASE ConfigFile \notin DOMAIN disk
  BY <1>3 DEF initCmdLine, Beyond, ReaderInv, Running
<1>4. CASE ConfigFile \in DOMAIN disk
  <2>1. phase' = "config" /\ lines' = disk[ConfigFile]
    BY <1>4 DEF initCmdLine, Beyond, OpenFile
  <2>2. PICK f \in Seq(Line) : f = disk[ConfigFile]
    BY <1>4 DEF TreeInv, FileShape
  <2>3. (disk[ConfigFile])' = f /\ File' = Logical(f) /\ (ConfigFile \in DOMAIN disk)'
    BY <1>1, <1>2, <1>4, <2>2 DEF File
  <2>4. AtLine(f, 1, lines')
    <3>1. Len(f) \in Nat /\ DOMAIN f = 1 .. Len(f) /\ SubSeq(f, 1, Len(f)) = f
      BY LenProperties, SubSeqFull
    <3>2. 1 \in Starts(f) \cup {Len(f) + 1}
      BY <3>1 DEF Starts
    <3> QED BY <2>1, <2>2, <3>1, <3>2 DEF AtLine
  <2>5. StackMeans(Logical(f), 1, << >>) /\ MapMeans(Logical(f), 1 .. 1 - 1, << >>)
    <3> DEFINE ll == Logical(f)
    <3>1. LinesShape(ll, Len(f))
      BY LogicalLinesShape
    <3> HIDE DEF ll
    <3>2. \A i \in SectionLines(ll) : i \in Nat /\ i # 0
      BY <3>1 DEF LinesShape, SectionLines
    <3>3. {j \in SectionLines(ll) : j <= 1 - 1} = {}
      BY <3>2
    <3>4. InForce(ll, 1 - 1) = 0
      <4>1. InForce(ll, 1 - 1) = Max({0})
        BY <3>3 DEF InForce
      <4>2. Max({0}) = 0
        BY DEF Max
      <4> QED BY <4>1, <4>2
    <3>5. Len(<< >>) = 0 /\ DOMAIN << >> = {}
      OBVIOUS
    <3>6. SectionLines(ll) \cap (1 .. 1 - 1) = {}
      BY <3>2
    <3> QED BY <3>4, <3>5, <3>6 DEF StackMeans, MapMeans, ll
  <2> QED BY <1>1, <2>1, <2>3, <2>4, <2>5 DEF ReaderInv, Running
<1> QED BY <1>3, <1>4

\* What happens after the file is read leaves it as it is.
LEMMA AsideMeans ==
    ASSUME ReaderInv, UNCHANGED <<configVars, args, disk>>, phase' = phase \/ (phase \in Running /\ phase' \notin {"cmdline", "config"})
    PROVE  ReaderInv'
<1>1. ConfigFile' = ConfigFile
  <2>1. args' = args
    OBVIOUS
  <2> QED BY <2>1 DEF ConfigFile
<1>2. File' = File
  BY <1>1 DEF File
<1> QED BY <1>1, <1>2 DEF ReaderInv, Running, configVars

\* What reads the map never goes back to reading the file.
LEMMA NextAside ==
    ASSUME [Next]_vars
    PROVE  \/ initCmdLine \/ ReadConfig
           \/ /\ UNCHANGED <<configVars, args, disk>>
              /\ phase' = phase \/ (phase \in Running /\ phase' \notin {"cmdline", "config"})
<1>1. CASE \E o \in {"loaded", "refused", "skipped", "incomplete"} : initMQ(o) \/ initSAPI(o)
  BY <1>1 DEF initMQ, initSAPI, LoadModule, Beyond, Running
<1>2. CASE initChannels \/ initRoutes
  BY <1>2 DEF initChannels, initRoutes, Beyond, Running
<1>3. CASE initServer
  <2>1. UNCHANGED <<configVars, args, disk>> /\ phase = "server"
    BY <1>3 DEF initServer
  <2>2. phase' \in {phase, "exited", "terminated"}
    BY <1>3 DEF initServer, AddListener
  <2> QED BY <2>1, <2>2 DEF Running
<1>4. CASE initThreadPool
  BY <1>4 DEF initThreadPool, Running
<1>5. CASE NextPhase
  BY <1>5 DEF NextPhase, Beyond, Running
<1>6. CASE (\E uri \in Uri : Serve(uri)) \/ Ended \/ UNCHANGED vars
  BY <1>6 DEF Serve, Ended, vars
<1> QED BY <1>1, <1>2, <1>3, <1>4, <1>5, <1>6 DEF Next

\* Nothing has been read at the start.
LEMMA InitReader == Init => ReaderInv
BY DEF Init, ConfigInit, ReaderInv, Running

\* It implies that the map has what the file means.
LEMMA ReaderInvImplies == ReaderInv => ConfigMatchesFile
<1> SUFFICES ASSUME ReaderInv, phase \in {"mq", "pool"}, WellNested(File)
             PROVE  /\ DOMAIN config = IF SectionLines(File) = {} THEN {}
                                       ELSE {<< >>} \cup Range(FullName(File))
                    /\ \A key \in DOMAIN config : config[key] = Declared(key)
  BY DEF ConfigMatchesFile
<1>1. MapMeans(File, DOMAIN File, config)
  BY DEF ReaderInv, Running
<1>2. SectionLines(File) \cap DOMAIN File = SectionLines(File)
  BY DEF SectionLines
<1>3. Range(FullName(File)) = {FullName(File)[i] : i \in SectionLines(File)}
  BY DEF Range, FullName
<1> QED BY <1>1, <1>2, <1>3 DEF MapMeans, Declared, Meaning

\* No step makes the map differ from what is read.
LEMMA StepKeepsMeaning == TreeInv /\ ReaderInv /\ [Next]_vars => ReaderInv'
<1> SUFFICES ASSUME TreeInv, ReaderInv, [Next]_vars PROVE ReaderInv'
  OBVIOUS
<1>1. CASE initCmdLine
  BY <1>1, initCmdLineMeans
<1>2. CASE ReadConfig
  BY <1>2, ReadConfigMeans
<1>3. CASE /\ UNCHANGED <<configVars, args, disk>>
           /\ phase' = phase \/ (phase \in Running /\ phase' \notin {"cmdline", "config"})
  BY <1>3, AsideMeans
<1> QED BY <1>1, <1>2, <1>3, NextAside

\* With every well nested file the map that initConfig leaves is what the file
\* means: the reader's stack, its early returns and its joined lines lose nothing
\* and invent nothing.
THEOREM ReaderIsFaithful == Spec => []ConfigMatchesFile
BY InitTree, StepKeepsTree, InitReader, StepKeepsMeaning, ReaderInvImplies, PTL DEF Spec

-----------------------------------------------------------------------------
(* What the start finds in the map, and which sections its loops visit.    *)

\* The whole file is the lines up to its last one.
LEMMA WholeFile ==
    ASSUME NEW ll, NEW m, LinesShape(ll, m)
    PROVE  /\ DOMAIN ll \cap (1 .. m) = DOMAIN ll
           /\ \A k : SectionsOf(ll, k, 1 .. m) = SectionsOf(ll, k, DOMAIN ll)
           /\ \A k : ValuesOf(ll, k, 1 .. m) = ValuesOf(ll, k, DOMAIN ll)
<1>1. DOMAIN ll \cap (1 .. m) = DOMAIN ll
  BY DEF LinesShape
<1>2. SectionLines(ll) \cap (1 .. m) = SectionLines(ll) \cap DOMAIN ll
  BY <1>1 DEF SectionLines
<1>3. \A k : SectionsOf(ll, k, 1 .. m) = SectionsOf(ll, k, DOMAIN ll)
  BY <1>2 DEF SectionsOf
<1>4. \A k : ValuesOf(ll, k, 1 .. m) = ValuesOf(ll, k, DOMAIN ll)
  BY <1>1 DEF ValuesOf
<1> QED BY <1>1, <1>3, <1>4

\* After the file is read, a look-up in the map returns what the file declares.
LEMMA LookupsAreDeclared ==
    ASSUME TreeInv, ReaderInv, phase \in Running, WellNested(File), NEW space
    PROVE  /\ space \in DOMAIN config => GetSections(config, space) = Declared(space).sections
           /\ \A name, default : GetConfigValue(config, space, name, default) = DeclaredValue(space, name, default)
<1> DEFINE m == Len(disk[ConfigFile])
           ll == File
<1>1. disk[ConfigFile] \in Seq(Line)
  BY DEF ReaderInv, TreeInv, FileShape
<1>2. LinesShape(ll, m)
  BY <1>1, LogicalLinesShape DEF File
<1>3. MapMeans(ll, DOMAIN ll, config)
  BY DEF ReaderInv
<1>4. CASE space \in DOMAIN config
  <2>1. config[space] = Declared(space)
    BY <1>3, <1>4 DEF MapMeans, Declared, Meaning
  <2> QED BY <1>4, <2>1 DEF GetSections, GetConfigValue, DeclaredValue
<1>5. CASE space \notin DOMAIN config
  <2>1. Declared(space).values = ValuesOf(ll, space, DOMAIN ll)
    BY DEF Declared, Meaning
  <2> HIDE DEF ll, m
  <2>2. m \in Nat /\ m + 1 \in Nat /\ (m + 1) - 1 = m
    BY <1>2 DEF LinesShape
  <2>3. \A i \in SectionLines(ll) : FullName(ll)[i] # space
    <3>1. SectionLines(ll) \cap DOMAIN ll = SectionLines(ll)
      BY DEF SectionLines
    <3> QED BY <1>3, <1>5, <3>1 DEF MapMeans
  <2>4. ValuesOf(ll, space, 1 .. (m + 1) - 1) = << >>
    BY <1>2, <2>2, <2>3, NoValuesYet
  <2>5. ValuesOf(ll, space, 1 .. m) = ValuesOf(ll, space, DOMAIN ll)
    BY <1>2, WholeFile
  <2>6. Declared(space).values = << >>
    BY <2>1, <2>2, <2>4, <2>5
  <2>7. DOMAIN << >> = {}
    OBVIOUS
  <2> QED BY <1>5, <2>6, <2>7 DEF GetConfigValue, DeclaredValue
<1> QED BY <1>4, <1>5

\* The subsections of a section have names.
LEMMA SectionsType ==
    ASSUME TreeInv, NEW space
    PROVE  GetSections(config, space) \in Seq(Seq(STRING))
<1>1. CASE space \in DOMAIN config
  <2>1. Entry(config[space])
    BY <1>1 DEF TreeInv, MapShape
  <2> QED BY <1>1, <2>1 DEF GetSections, Entry
<1>2. CASE space \notin DOMAIN config
  BY <1>2 DEF GetSections
<1> QED BY <1>1, <1>2

\* A loop over sections visits sections of its space only.
Visits(space) ==
    /\ todo \in Seq(Seq(STRING))
    /\ ToSet(todo) \subseteq ToSet(GetSections(config, space))

\* Each loop with the space it goes through.
VisitInv ==
    /\ phase = "mq" => Visits(<<"fiber", "mq">>)
    /\ phase = "sapi" => Visits(<<"fiber", "sapi">>)
    /\ phase = "channels" => Visits(<<"channel">>)
    /\ phase = "server" => Visits(<<"fiber", "server">>)

\* One turn of a loop.
LEMMA VisitOne ==
    ASSUME NEW q \in Seq(Seq(STRING)), q # << >>
    PROVE  /\ Head(q) \in Seq(STRING) /\ Head(q) \in ToSet(q)
           /\ Tail(q) \in Seq(Seq(STRING)) /\ ToSet(Tail(q)) \subseteq ToSet(q)
           /\ ToSet(q) = ToSet(Tail(q)) \cup {Head(q)}
<1>1. /\ Len(q) \in Nat /\ Len(q) > 0 /\ DOMAIN q = 1..Len(q)
      /\ Head(q) = q[1] /\ Head(q) \in Seq(STRING)
      /\ Tail(q) \in Seq(Seq(STRING)) /\ DOMAIN Tail(q) = 1..(Len(q) - 1)
      /\ \A i \in 1..(Len(q) - 1) : Tail(q)[i] = q[i + 1]
  BY TailShape
<1> DEFINE r == Tail(q)
           h == Head(q)
<1> HIDE DEF r, h
<1>2. h \in ToSet(q)
  <2>1. 1 \in DOMAIN q
    BY <1>1
  <2> QED BY <1>1, <2>1 DEF ToSet, h
<1>3. ToSet(r) \subseteq ToSet(q)
  <2> SUFFICES ASSUME NEW i \in DOMAIN r PROVE r[i] \in ToSet(q)
    BY DEF ToSet
  <2>1. i \in 1..(Len(q) - 1) /\ i + 1 \in DOMAIN q
    BY <1>1 DEF r
  <2> QED BY <1>1, <2>1 DEF ToSet, r
<1>4. ToSet(q) \subseteq ToSet(r) \cup {h}
  <2> SUFFICES ASSUME NEW i \in DOMAIN q, i # 1 PROVE q[i] \in ToSet(r)
    BY <1>1 DEF ToSet, h
  <2>1. i - 1 \in 1..(Len(q) - 1) /\ (i - 1) + 1 = i
    BY <1>1
  <2>2. r[i - 1] = q[i] /\ i - 1 \in DOMAIN r
    BY <1>1, <2>1 DEF r
  <2> QED BY <2>2 DEF ToSet
<1> QED BY <1>1, <1>2, <1>3, <1>4 DEF r, h

\* A loop that goes on, with the map as it is.
LEMMA VisitNext ==
    ASSUME NEW space, Visits(space), todo # << >>, todo' = Tail(todo), config' = config
    PROVE  Visits(space)'
BY VisitOne DEF Visits

\* A loop that begins.
LEMMA VisitBegins ==
    ASSUME TreeInv, NEW space, todo' = GetSections(config, space), config' = config
    PROVE  Visits(space)'
BY SectionsType DEF Visits

\* No step leaves the loops' sections.
LEMMA StepVisits == TreeInv /\ VisitInv /\ [Next]_vars => VisitInv'
<1> SUFFICES ASSUME TreeInv, VisitInv, [Next]_vars PROVE VisitInv'
  OBVIOUS
<1>1. CASE initCmdLine
  BY <1>1 DEF initCmdLine, Beyond, VisitInv
<1>2. CASE ReadConfig
  <2>1. phase' \in {"config", "terminated", "mq"}
    BY <1>2 DEF ReadConfig, Beyond, initConfig, EndOfFile, ReadSection, ReadProperty, ReadText
  <2>2. phase' = "mq" => todo' = GetSections(config, <<"fiber", "mq">>) /\ config' = config
    BY <1>2 DEF ReadConfig, Beyond, initConfig, EndOfFile, ReadSection, ReadProperty, ReadText
  <2>3. phase' = "mq" => Visits(<<"fiber", "mq">>)'
    BY <2>2, VisitBegins
  <2> QED BY <2>1, <2>3 DEF VisitInv
<1>3. ASSUME NEW o, initMQ(o) \/ initSAPI(o) PROVE VisitInv'
  <2>1. /\ todo # << >> /\ config' = config /\ phase \in {"mq", "sapi"}
        /\ phase' = "terminated" \/ (phase' = phase /\ todo' = Tail(todo))
    BY <1>3 DEF initMQ, initSAPI, LoadModule, Beyond, configVars
  <2>2. CASE phase' = "terminated"
    BY <2>2 DEF VisitInv
  <2>3. CASE phase' = phase /\ todo' = Tail(todo)
    <3>1. phase = "mq" => Visits(<<"fiber", "mq">>)'
      BY <2>1, <2>3, VisitNext DEF VisitInv
    <3>2. phase = "sapi" => Visits(<<"fiber", "sapi">>)'
      BY <2>1, <2>3, VisitNext DEF VisitInv
    <3> QED BY <2>1, <2>3, <3>1, <3>2 DEF VisitInv
  <2> QED BY <2>1, <2>2, <2>3
<1>4. CASE initChannels
  <2>1. todo # << >> /\ config' = config /\ phase = "channels" /\ phase' = phase /\ todo' = Tail(todo)
    BY <1>4 DEF initChannels, Beyond, configVars
  <2>2. Visits(<<"channel">>)'
    BY <2>1, VisitNext DEF VisitInv
  <2> QED BY <2>1, <2>2 DEF VisitInv
<1>5. CASE initRoutes
  BY <1>5 DEF initRoutes, Beyond, VisitInv
<1>6. CASE initServer
  <2>1. todo # << >> /\ config' = config /\ phase = "server" /\ todo' = Tail(todo)
    BY <1>6 DEF initServer, configVars
  <2>2. phase' \in {"server", "exited", "terminated"}
    BY <1>6 DEF initServer, AddListener
  <2>3. Visits(<<"fiber", "server">>)'
    BY <2>1, VisitNext DEF VisitInv
  <2> QED BY <2>2, <2>3 DEF VisitInv
<1>7. CASE initThreadPool
  BY <1>7 DEF initThreadPool, VisitInv
<1>8. CASE NextPhase
  <2>1. config' = config
    BY <1>8 DEF NextPhase, configVars
  <2>2. /\ phase' = "mq" => FALSE
        /\ phase' = "sapi" => todo' = GetSections(config, <<"fiber", "sapi">>)
        /\ phase' = "channels" => todo' = GetSections(config, <<"channel">>)
        /\ phase' = "server" => todo' = GetSections(config, <<"fiber", "server">>)
    BY <1>8 DEF NextPhase, Beyond
  <2> QED BY <2>1, <2>2, VisitBegins DEF VisitInv
<1>9. CASE (\E uri \in Uri : Serve(uri)) \/ Ended \/ UNCHANGED vars
  BY <1>9 DEF Serve, Ended, vars, configVars, VisitInv, Visits
<1> QED BY <1>1, <1>2, <1>3, <1>4, <1>5, <1>6, <1>7, <1>8, <1>9 DEF Next

-----------------------------------------------------------------------------
(* The text of a value.                                                    *)

\* The tokens of a text.  They are all strings, which no prover knows of the
\* literal.
Token == STRING \cup {"/"}

\* A sequence over a set is one over a larger set.
LEMMA SeqOfMore ==
    ASSUME NEW A, NEW B, A \subseteq B, NEW s \in Seq(A)
    PROVE  s \in Seq(B)
OBVIOUS

\* A logical line has a text.
LEMMA LogicalText ==
    ASSUME NEW ls \in Seq(Line), ls # << >>
    PROVE  LogicalLine(ls).text \in Seq(Token)
<1>1. STRING \subseteq Token
  BY DEF Token
<1>2. PICK t \in Seq(STRING) : t = LogicalLine(ls).text
  BY LogicalShape
<1> QED BY <1>1, <1>2, SeqOfMore

\* A value that a file declares is a text.
LEMMA DeclaredType ==
    ASSUME NEW file \in Seq(Line), NEW key, NEW n \in DOMAIN ValuesOf(Logical(file), key, DOMAIN Logical(file))
    PROVE  ValuesOf(Logical(file), key, DOMAIN Logical(file))[n] \in Seq(Token)
<1> DEFINE ll == Logical(file)
           S == Settings(ll, key, DOMAIN ll)
           T == {i \in S : ll[i].name[1] = n}
<1>1. LinesShape(ll, Len(file)) /\ DOMAIN ll = Starts(file)
  BY LogicalLinesShape
<1>2. \A i \in DOMAIN ll : ll[i].text \in Seq(Token)
  <2> SUFFICES ASSUME NEW i \in Starts(file) PROVE ll[i].text \in Seq(Token)
    BY <1>1
  <2> DEFINE ls == SubSeq(file, i, Len(file))
  <2>1. ls \in Seq(Line) /\ ls # << >>
    BY NextStart
  <2>2. ll[i] = LogicalLine(ls)
    BY DEF Logical
  <2> HIDE DEF ls, ll
  <2> QED BY <2>1, <2>2, LogicalText
<1> HIDE DEF ll
<1>3. /\ n \in {ll[i].name[1] : i \in S}
      /\ ValuesOf(ll, key, DOMAIN ll)[n] = RemoveComment(ll[Min(T)].text)
  <2>1. ValuesOf(ll, key, DOMAIN ll) =
              [x \in {ll[i].name[1] : i \in S} |-> RemoveComment(ll[Min({i \in S : ll[i].name[1] = x})].text)]
    BY ValuesOfIs
  <2>2. n \in DOMAIN ValuesOf(ll, key, DOMAIN ll)
    BY DEF ll
  <2> HIDE DEF S
  <2>3. n \in {ll[i].name[1] : i \in S}
    BY <2>1, <2>2
  <2> QED BY <2>1, <2>3
<1>4. S \subseteq DOMAIN ll
  BY DEF Settings
<1> HIDE DEF S
<1>5. T # {} /\ T \subseteq DOMAIN ll
  BY <1>3, <1>4
<1>6. T \in SUBSET Nat
  BY <1>1, <1>5 DEF LinesShape
<1> HIDE DEF T
<1>7. Min(T) \in DOMAIN ll
  BY <1>5, <1>6, LeastMember
<1>8. RemoveComment(ll[Min(T)].text) \in Seq(Token)
  BY <1>2, <1>7, RemoveCommentType
<1> QED BY <1>3, <1>8 DEF ll

\* What parseUri finds is not empty.
LEMMA ParseUriShape ==
    ASSUME NEW S, NEW t \in Seq(S), parseUri(t) # NoUri
    PROVE  parseUri(t).uri \in Seq(S) /\ parseUri(t).uri # << >>
<1> DEFINE P == {i \in 2..(Len(t) - 2) : t[i] = ":" /\ t[i + 1] = "/" /\ t[i - 1] \notin {":", "/"}}
           at == Least(P)
<1>1. parseUri(t) = IF at = 0 THEN NoUri ELSE [class |-> t[at - 1], uri |-> SubSeq(t, at + 2, Len(t))]
  BY DEF parseUri
<1>2. Len(t) \in Nat /\ P \in SUBSET Nat /\ \A i \in P : i >= 2 /\ i + 2 <= Len(t)
  OBVIOUS
<1>3. at = IF P = {} THEN 0 ELSE Min(P)
  BY DEF Least
<1> HIDE DEF P, at
<1>4. at # 0
  BY <1>1
<1>5. at \in Nat /\ at + 2 <= Len(t)
  BY <1>2, <1>3, <1>4, LeastMember
<1>6. parseUri(t).uri = SubSeq(t, at + 2, Len(t))
  <2> DEFINE c == t[at - 1]
             u == SubSeq(t, at + 2, Len(t))
  <2>1. parseUri(t) = [class |-> c, uri |-> u]
    BY <1>1, <1>4
  <2> HIDE DEF c, u
  <2>2. [class |-> c, uri |-> u].uri = u
    OBVIOUS
  <2> QED BY <2>1, <2>2 DEF u
<1>7. PICK i \in Nat : i = at + 2 /\ i >= 1 /\ i <= Len(t)
  BY <1>5
<1>8. SubSeq(t, i, Len(t)) \in Seq(S) /\ Len(SubSeq(t, i, Len(t))) = Len(t) - i + 1
  BY <1>2, <1>7
<1> DEFINE u == SubSeq(t, i, Len(t))
<1> HIDE DEF u
<1>9. u \in Seq(S) /\ Len(u) # 0
  BY <1>2, <1>7, <1>8 DEF u
<1>10. u # << >>
  BY <1>9
<1> QED BY <1>6, <1>7, <1>9, <1>10 DEF u

\* The path of a route is its endpoint with a slash at its end.
LEMMA WithSlashShape ==
    ASSUME NEW p \in Seq(Token), p # << >>
    PROVE  IsPrefix(p, WithSlash(p)) /\ Last(WithSlash(p)) = "/"
<1>1. CASE p[Len(p)] = "/"
  BY <1>1 DEF WithSlash, IsPrefix, Last
<1>2. CASE p[Len(p)] # "/"
  <2>1. "/" \in Token
    BY DEF Token
  <2>2. WithSlash(p) = Append(p, "/")
    BY <1>2 DEF WithSlash
  <2>3. ASSUME NEW S, NEW a \in Seq(S), NEW x \in S
        PROVE  IsPrefix(a, Append(a, x)) /\ Last(Append(a, x)) = x
    BY DEF IsPrefix, Last
  <2> QED BY <2>1, <2>2, <2>3
<1> QED BY <1>1, <1>2

-----------------------------------------------------------------------------
(* Channels and routes.                                                    *)

\* The endpoint that the map has for a channel.
EndpointOf(ch) == parseUri(Value(<<"channel">> \o ch, "channel-endpoint"))

\* initChannels keeps a channel with an endpoint on a loaded MQ and no SAPI that
\* is missing.
Admitted(ch) ==
    LET sapi == Value(<<"channel">> \o ch, "channel-sapi")
    IN  /\ EndpointOf(ch) # NoUri
        /\ <<EndpointOf(ch).class>> \in DOMAIN ClassesMq
        /\ sapi # << >> => <<parseUri(sapi).class>> \in DOMAIN ClassesSAPI

\* The channels of the map.
ChannelNames == ToSet(GetSections(config, <<"channel">>))

\* The phases with all channels, and the ones with none.
Late == {"routes", "server", "pool", "serving"}
Early == {"cmdline", "config", "mq", "sapi"}

\* The channels are the admitted ones of the sections that have been visited.
ChannelInv ==
    /\ phase \in Early => Channels = << >>
    /\ phase \in Late \cup {"channels"} =>
          \A ch \in DOMAIN Channels :
              /\ ch \in ChannelNames /\ Admitted(ch)
              /\ Channels[ch].uri = WithSlash(EndpointOf(ch).uri)
    /\ phase = "channels" =>
          \A ch \in ChannelNames : Admitted(ch) => ch \in DOMAIN Channels \/ ch \in ToSet(todo)
    /\ phase \in Late => \A ch \in ChannelNames : Admitted(ch) => ch \in DOMAIN Channels

\* The channels whose turn has not come.
Waiting == IF phase = "routes" THEN Elements(todo) ELSE {}

\* A channel has one route or has been refused, once its turn has come.
RouteInv ==
    /\ phase \in Early \cup {"channels"} => Routes = {} /\ refused = {}
    /\ phase = "routes" => /\ todo \in Seq(Seq(STRING)) /\ Distinct(todo)
                           /\ Elements(todo) \subseteq DOMAIN Channels
    /\ phase \in Late =>
          /\ \A r \in Routes : r.channel \in DOMAIN Channels /\ r.path = Channels[r.channel].uri
          /\ \A r, q \in Routes : r.channel = q.channel => r = q
          /\ \A ch \in DOMAIN Channels :
                IF ch \in Waiting
                THEN <<"channel">> \o ch \notin refused /\ \A r \in Routes : r.channel # ch
                ELSE <<"channel">> \o ch \in refused <=> \A r \in Routes : r.channel # ch

\* What Admitted and EndpointOf depend on.
LEMMA ChannelsStay ==
    ASSUME UNCHANGED <<config, ClassesMq, ClassesSAPI>>
    PROVE  /\ ChannelNames' = ChannelNames
           /\ \A ch : EndpointOf(ch)' = EndpointOf(ch)
           /\ \A ch : Admitted(ch)' <=> Admitted(ch)
<1>1. \A s, n : Value(s, n)' = Value(s, n)
  BY DEF Value
<1>2. \A ch : EndpointOf(ch)' = EndpointOf(ch)
  BY <1>1 DEF EndpointOf
<1> QED BY <1>1, <1>2 DEF Admitted, ChannelNames

\* The names of the channels.
LEMMA ChannelNamesType ==
    ASSUME TreeInv
    PROVE  IsFiniteSet(ChannelNames) /\ \A ch \in ChannelNames : ch \in Seq(STRING)
<1> DEFINE s == GetSections(config, <<"channel">>)
<1>1. s \in Seq(Seq(STRING))
  BY SectionsType
<1> HIDE DEF s
<1>2. ChannelNames = ToSet(s)
  BY DEF ChannelNames, s
<1>3. \A ch \in ToSet(s) : ch \in Seq(STRING)
  BY <1>1 DEF ToSet
<1>4. s \in Surjection(1 .. Len(s), ToSet(s)) /\ Len(s) \in Nat
  <2>1. DOMAIN s = 1 .. Len(s) /\ Len(s) \in Nat
    BY <1>1, LenProperties
  <2>2. s \in [1 .. Len(s) -> ToSet(s)]
    <3> DEFINE T == Seq(STRING)
    <3>1. s = [i \in 1 .. Len(s) |-> s[i]]
      <4> HIDE DEF T
      <4> QED BY <1>1 DEF T
    <3>2. \A i \in 1 .. Len(s) : s[i] \in ToSet(s)
      BY <2>1 DEF ToSet
    <3> QED BY <3>1, <3>2
  <2>3. \A x \in ToSet(s) : \E i \in 1 .. Len(s) : s[i] = x
    BY <2>1 DEF ToSet
  <2> QED BY <2>1, <2>2, <2>3, Zenon DEF Surjection
<1>5. IsFiniteSet(ToSet(s))
  BY <1>4, FS_Interval, FS_Surjection
<1> QED BY <1>2, <1>3, <1>5

\* The name of a channel's section tells which channel it is.
LEMMA SectionNamesDiffer ==
    ASSUME NEW S, NEW x, NEW a \in Seq(S), NEW b \in Seq(S), <<x>> \o a = <<x>> \o b
    PROVE  a = b
<1> DEFINE T == S \cup {x}
<1>1. S \subseteq T /\ x \in T
  OBVIOUS
<1> HIDE DEF T
<1>2. a \in Seq(T) /\ b \in Seq(T) /\ <<x>> \in Seq(T)
  BY <1>1, SeqOfMore
<1> QED BY <1>2, ConcatSimplifications

\* Emplace on the table of channels.
LEMMA EmplaceChannel ==
    ASSUME NEW c, NEW key, NEW e
    PROVE  /\ DOMAIN Emplace(c, key, e) = DOMAIN c \cup {key}
           /\ \A k \in DOMAIN c : Emplace(c, key, e)[k] = c[k]
           /\ key \notin DOMAIN c => Emplace(c, key, e)[key] = e
BY DEF Emplace

\* A turn of initChannels.
LEMMA initChannelsKeeps ==
    ASSUME TreeInv, VisitInv, ChannelInv, initChannels
    PROVE  ChannelInv'
<1> DEFINE ch == Head(todo)
           entry == [mq |-> EndpointOf(ch).class, uri |-> WithSlash(EndpointOf(ch).uri)]
<1>1. /\ phase = "channels" /\ phase' = "channels" /\ todo # << >> /\ todo' = Tail(todo)
      /\ UNCHANGED <<config, ClassesMq, ClassesSAPI>>
      /\ Channels' = IF Admitted(ch) THEN Emplace(Channels, ch, entry) ELSE Channels
  BY DEF initChannels, Beyond, configVars, moduleVars, Admitted, EndpointOf
<1>2. /\ ChannelNames' = ChannelNames
      /\ \A c : EndpointOf(c)' = EndpointOf(c)
      /\ \A c : Admitted(c)' <=> Admitted(c)
  BY <1>1, ChannelsStay
<1>3. /\ ch \in ToSet(todo) /\ ToSet(todo) = ToSet(Tail(todo)) \cup {ch} /\ ToSet(todo) \subseteq ChannelNames
  BY <1>1, VisitOne DEF VisitInv, Visits, ChannelNames
<1>4. entry.uri = WithSlash(EndpointOf(ch).uri)
  OBVIOUS
<1> HIDE DEF ch, entry
<1>5. /\ DOMAIN Channels' = IF Admitted(ch) THEN DOMAIN Channels \cup {ch} ELSE DOMAIN Channels
      /\ \A c \in DOMAIN Channels : Channels'[c] = Channels[c]
      /\ Admitted(ch) /\ ch \notin DOMAIN Channels => Channels'[ch] = entry
  <2> DEFINE d == Emplace(Channels, ch, entry)
  <2>1. /\ DOMAIN d = DOMAIN Channels \cup {ch}
        /\ \A c \in DOMAIN Channels : d[c] = Channels[c]
        /\ ch \notin DOMAIN Channels => d[ch] = entry
    BY EmplaceChannel
  <2>2. Channels' = IF Admitted(ch) THEN d ELSE Channels
    BY <1>1
  <2> HIDE DEF d
  <2> QED BY <2>1, <2>2
<1>6. ASSUME NEW c \in DOMAIN Channels'
      PROVE  c \in ChannelNames /\ Admitted(c) /\ Channels'[c].uri = WithSlash(EndpointOf(c).uri)
  <2>1. CASE c \in DOMAIN Channels
    BY <1>1, <1>5, <2>1 DEF ChannelInv
  <2>2. CASE c \notin DOMAIN Channels
    BY <1>3, <1>4, <1>5, <2>2
  <2> QED BY <2>1, <2>2
<1>7. ASSUME NEW c \in ChannelNames, Admitted(c)
      PROVE  c \in DOMAIN Channels' \/ c \in ToSet(todo')
  <2>1. c \in DOMAIN Channels \/ c \in ToSet(todo)
    BY <1>1, <1>7 DEF ChannelInv
  <2> QED BY <1>1, <1>3, <1>5, <1>7, <2>1
<1>8. \A c \in DOMAIN Channels' : (c \in ChannelNames /\ Admitted(c) /\ Channels[c].uri = WithSlash(EndpointOf(c).uri))'
  BY <1>2, <1>6
<1>9. \A c \in ChannelNames' : Admitted(c)' => c \in DOMAIN Channels' \/ c \in ToSet(todo')
  BY <1>2, <1>7
<1> QED BY <1>1, <1>8, <1>9 DEF ChannelInv, Early, Late

\* Steps that leave the channels as they are.
LEMMA ChannelsAside ==
    ASSUME ChannelInv, UNCHANGED <<config, ClassesMq, ClassesSAPI, Channels>>,
           \/ phase' \in {"exited", "terminated"}
           \/ phase' = phase /\ (phase = "channels" => todo' = todo)
           \/ phase \in Late /\ phase' \in Late
           \/ phase = "channels" /\ todo = << >> /\ phase' \in Late
    PROVE  ChannelInv'
<1>1. /\ ChannelNames' = ChannelNames
      /\ \A c : EndpointOf(c)' = EndpointOf(c)
      /\ \A c : Admitted(c)' <=> Admitted(c)
  BY ChannelsStay
<1>2. \A c : c \notin ToSet(<< >>)
  BY DEF ToSet
<1>3. phase \in Late \cup {"channels"} =>
          \A ch \in DOMAIN Channels' : (ch \in ChannelNames /\ Admitted(ch) /\ Channels[ch].uri = WithSlash(EndpointOf(ch).uri))'
  BY <1>1 DEF ChannelInv
<1>4. CASE phase' \in {"exited", "terminated"}
  BY <1>4 DEF ChannelInv, Early, Late
<1>5. CASE phase' = phase /\ (phase = "channels" => todo' = todo)
  <2>1. phase = "channels" => \A ch \in ChannelNames' : Admitted(ch)' => ch \in DOMAIN Channels' \/ ch \in ToSet(todo')
    BY <1>1, <1>5 DEF ChannelInv
  <2>2. phase \in Late => \A ch \in ChannelNames' : Admitted(ch)' => ch \in DOMAIN Channels'
    BY <1>1 DEF ChannelInv
  <2> QED BY <1>3, <1>5, <2>1, <2>2 DEF ChannelInv
<1>6. CASE phase' \in Late /\ (phase \in Late \/ (phase = "channels" /\ todo = << >>))
  <2>1. \A ch \in ChannelNames' : Admitted(ch)' => ch \in DOMAIN Channels'
    BY <1>1, <1>2, <1>6 DEF ChannelInv
  <2>2. phase' \notin Early /\ phase' # "channels"
    BY <1>6 DEF Early, Late
  <2> QED BY <1>3, <1>6, <2>1, <2>2 DEF ChannelInv
<1> QED BY <1>4, <1>5, <1>6

\* The first channels.
LEMMA ChannelsBegin ==
    ASSUME Channels = << >>, Channels' = << >>, phase' \in Early \cup {"channels"},
           phase' = "channels" => todo' = GetSections(config, <<"channel">>) /\ config' = config
    PROVE  ChannelInv'
<1>1. DOMAIN Channels' = {}
  OBVIOUS
<1>2. phase' \notin Late
  BY DEF Early, Late
<1>3. phase' = "channels" => phase' \notin Early
  BY DEF Early
<1>4. phase' = "channels" => ChannelNames' = ToSet(todo')
  BY DEF ChannelNames
<1> QED BY <1>1, <1>2, <1>3, <1>4 DEF ChannelInv

\* The channels are what has been visited, after every step.
LEMMA StepKeepsChannels ==
    ASSUME TreeInv, VisitInv, ChannelInv, [Next]_vars
    PROVE  ChannelInv'
<1>1. CASE initCmdLine
  <2>1. phase = "cmdline" /\ phase' \in {"config", "exited"} /\ Channels' = Channels
    BY <1>1 DEF initCmdLine, Beyond
  <2>2. phase \in Early /\ phase' # "channels" /\ phase' \notin Late
    BY <2>1 DEF Early, Late
  <2> QED BY <2>1, <2>2 DEF ChannelInv
<1>2. CASE ReadConfig
  <2>1. phase = "config" /\ phase' \in {"config", "terminated", "mq"} /\ Channels' = Channels
    BY <1>2 DEF ReadConfig, Beyond, initConfig, EndOfFile, ReadSection, ReadProperty, ReadText
  <2>2. phase \in Early /\ phase' # "channels" /\ phase' \notin Late
    BY <2>1 DEF Early, Late
  <2> QED BY <2>1, <2>2 DEF ChannelInv
<1>3. ASSUME NEW o, initMQ(o) \/ initSAPI(o) PROVE ChannelInv'
  <2>1. phase \in {"mq", "sapi"} /\ phase' \in {phase, "terminated"} /\ Channels' = Channels
    BY <1>3 DEF initMQ, initSAPI, LoadModule, Beyond
  <2>2. phase \in Early /\ phase' # "channels" /\ phase' \notin Late
    BY <2>1 DEF Early, Late
  <2> QED BY <2>1, <2>2 DEF ChannelInv
<1>4. CASE initChannels
  BY <1>4, initChannelsKeeps
<1>5. CASE initRoutes
  <2>1. UNCHANGED <<config, ClassesMq, ClassesSAPI, Channels>> /\ phase' = phase /\ phase = "routes"
    BY <1>5 DEF initRoutes, Beyond, configVars, moduleVars
  <2> QED BY <2>1, ChannelsAside
<1>6. CASE initServer
  <2>1. /\ UNCHANGED <<config, ClassesMq, ClassesSAPI, Channels>> /\ phase = "server"
    BY <1>6 DEF initServer, configVars, moduleVars
  <2>2. phase' \in {phase, "exited", "terminated"}
    BY <1>6 DEF initServer, AddListener
  <2> QED BY <2>1, <2>2, ChannelsAside
<1>7. CASE initThreadPool
  <2>1. /\ UNCHANGED <<config, ClassesMq, ClassesSAPI, Channels>> /\ phase = "pool"
        /\ phase' \in {"exited", "terminated", "serving"}
    BY <1>7 DEF initThreadPool, configVars, moduleVars
  <2>2. phase \in Late /\ "serving" \in Late
    BY <2>1 DEF Late
  <2> QED BY <2>1, <2>2, ChannelsAside
<1>8. CASE NextPhase
  <2>1. UNCHANGED <<config, ClassesMq, ClassesSAPI, Channels>> /\ todo = << >>
    BY <1>8 DEF NextPhase, configVars, moduleVars
  <2>2. CASE phase \in {"mq", "sapi"}
    <3>1. /\ phase' \in {"exited", "sapi", "channels"}
          /\ phase' = "channels" => todo' = GetSections(config, <<"channel">>)
      BY <1>8, <2>2 DEF NextPhase, Beyond
    <3>2. Channels = << >>
      BY <2>2 DEF ChannelInv, Early
    <3>3. CASE phase' = "exited"
      BY <2>1, <3>3, ChannelsAside
    <3>4. CASE phase' # "exited"
      <4>1. phase' \in Early \cup {"channels"}
        BY <3>1, <3>4 DEF Early
      <4> QED BY <2>1, <3>1, <3>2, <4>1, ChannelsBegin
    <3> QED BY <3>3, <3>4
  <2>3. CASE phase = "channels"
    <3>1. phase' \in {"exited", "routes"}
      BY <1>8, <2>3 DEF NextPhase, Beyond
    <3>2. "routes" \in Late
      BY DEF Late
    <3> QED BY <2>1, <2>3, <3>1, <3>2, ChannelsAside
  <2>4. CASE phase \in {"routes", "server"}
    <3>1. phase' \in {"exited", "server", "pool"}
      BY <1>8, <2>4 DEF NextPhase, Beyond
    <3>2. phase \in Late /\ "server" \in Late /\ "pool" \in Late
      BY <2>4 DEF Late
    <3> QED BY <2>1, <3>1, <3>2, ChannelsAside
  <2> QED BY <1>8, <2>2, <2>3, <2>4 DEF NextPhase
<1>9. CASE (\E uri \in Uri : Serve(uri)) \/ Ended \/ UNCHANGED vars
  <2>1. UNCHANGED <<config, ClassesMq, ClassesSAPI, Channels, phase, todo>>
    BY <1>9 DEF Serve, Ended, vars, configVars, moduleVars
  <2> QED BY <2>1, ChannelsAside
<1> QED BY <1>1, <1>2, <1>3, <1>4, <1>5, <1>6, <1>7, <1>8, <1>9 DEF Next

\* The order in which the routes are added has each channel once.
LEMMA OrderShape ==
    ASSUME NEW D, IsFiniteSet(D), \A d \in D : d \in Seq(STRING), NEW order \in SetToSeqs(D)
    PROVE  order \in Seq(Seq(STRING)) /\ Distinct(order) /\ Elements(order) = D
<1> DEFINE n == Cardinality(D)
<1>1. n \in Nat
  BY FS_CardinalityType
<1>2. order \in [1 .. n -> D] /\ \A i, j \in 1 .. n : i # j => order[i] # order[j]
  BY DEF SetToSeqs
<1> HIDE DEF n
<1>3. DOMAIN order = 1 .. n
  BY <1>2
<1>4. Distinct(order)
  BY <1>2, <1>3 DEF Distinct
<1>5. order \in Seq(Seq(STRING))
  <2> DEFINE T == Seq(STRING)
  <2>1. D \subseteq T
    OBVIOUS
  <2> HIDE DEF T
  <2>2. order \in [1 .. n -> T]
    BY <1>2, <2>1
  <2>3. order \in Seq(T)
    BY <1>1, <2>2
  <2> QED BY <2>3 DEF T
<1>6. order \in Injection(1 .. n, D)
  <2>1. \A a, b \in 1 .. n : order[a] = order[b] => a = b
    BY <1>2
  <2> QED BY <1>2, <2>1, Zenon DEF Injection, IsInjective
<1>7. Cardinality(1 .. n) = Cardinality(D)
  BY <1>1, FS_Interval DEF n
<1>8. order \in Surjection(1 .. n, D)
  BY <1>6, <1>7, FS_Injection
<1>9. \A d \in D : \E i \in 1 .. n : order[i] = d
  BY <1>8, Zenon DEF Surjection
<1>10. Elements(order) = D
  BY <1>2, <1>3, <1>9 DEF Elements
<1> QED BY <1>4, <1>5, <1>10

\* A turn of initRoutes: the channel gets a route, or is refused.
LEMMA initRoutesKeeps ==
    ASSUME TreeInv, ChannelInv, RouteInv, initRoutes
    PROVE  RouteInv'
<1> DEFINE h == Head(todo)
           name(ch) == <<"channel">> \o ch
           D == DOMAIN Channels
<1>1. /\ phase = "routes" /\ phase' = "routes" /\ todo # << >> /\ todo' = Tail(todo) /\ Channels' = Channels
      /\ \/ refused' = refused /\ Routes' = Routes \cup {[path |-> Channels[h].uri, channel |-> h]}
         \/ refused' = refused \cup {name(h)} /\ Routes' = Routes
  BY DEF initRoutes, Beyond, AddRoute, routerVars
<1>2. phase \in Late /\ phase' \in Late /\ phase' \notin Early \cup {"channels"}
  BY <1>1 DEF Late, Early
<1>3. todo \in Seq(Seq(STRING)) /\ Distinct(todo) /\ Elements(todo) \subseteq D
  BY <1>1 DEF RouteInv
<1>4. /\ h \in Elements(todo) /\ Elements(todo') = Elements(todo) \ {h} /\ Distinct(todo')
      /\ todo' \in Seq(Seq(STRING))
  BY <1>1, <1>3, ElementsTail, TailShape
<1>5. Waiting = Elements(todo) /\ Waiting' = Elements(todo')
  BY <1>1 DEF Waiting
<1>6. /\ \A r \in Routes : r.channel \in D /\ r.path = Channels[r.channel].uri
      /\ \A r, q \in Routes : r.channel = q.channel => r = q
      /\ \A ch \in D : IF ch \in Elements(todo)
                       THEN name(ch) \notin refused /\ \A r \in Routes : r.channel # ch
                       ELSE name(ch) \in refused <=> \A r \in Routes : r.channel # ch
  BY <1>2, <1>5 DEF RouteInv
<1>7. \A ch \in D : ch # h => name(ch) # name(h)
  <2> SUFFICES ASSUME NEW ch \in D, name(ch) = name(h) PROVE ch = h
    OBVIOUS
  <2>1. \A c \in D : c \in Seq(STRING)
    BY <1>2, ChannelNamesType DEF ChannelInv
  <2>2. h \in D
    BY <1>3, <1>4
  <2> HIDE DEF h, D
  <2> QED BY <2>1, <2>2, SectionNamesDiffer
<1> HIDE DEF h, name
<1>8. h \in D /\ name(h) \notin refused /\ \A r \in Routes : r.channel # h
  BY <1>3, <1>4, <1>6
<1>9. /\ \A r \in Routes' : r.channel \in D /\ r.path = Channels[r.channel].uri
      /\ \A r, q \in Routes' : r.channel = q.channel => r = q
      /\ \A ch \in D : IF ch \in Elements(todo')
                       THEN name(ch) \notin refused' /\ \A r \in Routes' : r.channel # ch
                       ELSE name(ch) \in refused' <=> \A r \in Routes' : r.channel # ch
  <2>1. CASE refused' = refused /\ Routes' = Routes \cup {[path |-> Channels[h].uri, channel |-> h]}
    <3> DEFINE u == Channels[h].uri
               new == [path |-> u, channel |-> h]
    <3>1. Routes' = Routes \cup {new} /\ new.channel = h /\ new.path = Channels[h].uri
      <4>1. Routes' = Routes \cup {new}
        BY <2>1
      <4> HIDE DEF u
      <4>2. new.channel = h /\ new.path = u
        OBVIOUS
      <4> QED BY <4>1, <4>2 DEF u
    <3> HIDE DEF D, new
    <3>2. \A r \in Routes' : r.channel \in D /\ r.path = Channels[r.channel].uri
      BY <1>6, <1>8, <3>1
    <3>3. \A r, q \in Routes' : r.channel = q.channel => r = q
      BY <1>6, <1>8, <3>1
    <3>4. \A ch \in D : IF ch \in Elements(todo')
                       THEN name(ch) \notin refused' /\ \A r \in Routes' : r.channel # ch
                       ELSE name(ch) \in refused' <=> \A r \in Routes' : r.channel # ch
      BY <1>4, <1>6, <1>8, <2>1, <3>1
    <3> QED BY <3>2, <3>3, <3>4
  <2>2. CASE refused' = refused \cup {name(h)} /\ Routes' = Routes
    <3> HIDE DEF D
    <3>1. \A ch \in D : IF ch \in Elements(todo')
                       THEN name(ch) \notin refused' /\ \A r \in Routes' : r.channel # ch
                       ELSE name(ch) \in refused' <=> \A r \in Routes' : r.channel # ch
      BY <1>4, <1>6, <1>7, <1>8, <2>2
    <3> QED BY <1>6, <2>2, <3>1
  <2> QED BY <1>1, <2>1, <2>2
<1>10. Elements(todo') \subseteq D
  BY <1>3, <1>4
<1> QED BY <1>1, <1>2, <1>4, <1>5, <1>9, <1>10 DEF RouteInv, name

\* The routes begin: there are none, and each channel is waiting.
LEMMA RoutesBegin ==
    ASSUME TreeInv, ChannelInv, RouteInv, phase = "channels", phase' = "routes",
           todo' \in SetToSeqs(DOMAIN Channels), UNCHANGED <<Routes, refused, Channels>>
    PROVE  RouteInv'
<1> DEFINE D == DOMAIN Channels
<1>1. D \subseteq ChannelNames /\ Routes = {} /\ refused = {}
  BY DEF ChannelInv, RouteInv
<1>2. IsFiniteSet(D) /\ \A d \in D : d \in Seq(STRING)
  BY <1>1, ChannelNamesType, FS_Subset
<1>3. todo' \in Seq(Seq(STRING)) /\ Distinct(todo') /\ Elements(todo') = D
  BY <1>2, OrderShape
<1>4. Waiting' = D /\ DOMAIN Channels' = D /\ Routes' = {} /\ refused' = {}
  BY <1>1, <1>3 DEF Waiting
<1>5. phase' \notin Early \cup {"channels"}
  BY DEF Early
<1> QED BY <1>3, <1>4, <1>5 DEF RouteInv

\* Steps that leave the routes as they are.
LEMMA RoutesAside ==
    ASSUME RouteInv, UNCHANGED <<Routes, Channels>>,
           \/ phase' \in {"exited", "terminated"}
           \/ /\ refused' = refused
              /\ \/ phase \in Early /\ phase' \in Early \cup {"channels"}
                 \/ phase = phase' /\ (phase = "routes" => todo' = todo)
                 \/ phase = "routes" /\ todo = << >> /\ phase' \in Late \ {"routes"}
                 \/ phase \in Late \ {"routes"} /\ phase' \in Late \ {"routes"}
    PROVE  RouteInv'
<1>1. CASE phase' \in {"exited", "terminated"}
  BY <1>1 DEF RouteInv, Early, Late
<1>2. CASE refused' = refused /\ phase \in Early /\ phase' \in Early \cup {"channels"}
  <2>1. phase' \notin Late /\ phase' # "routes"
    BY <1>2 DEF Early, Late
  <2> QED BY <1>2, <2>1 DEF RouteInv
<1>3. CASE refused' = refused /\ phase = phase' /\ (phase = "routes" => todo' = todo)
  <2>1. Waiting' = Waiting
    BY <1>3 DEF Waiting
  <2> QED BY <1>3, <2>1 DEF RouteInv
<1>4. CASE /\ refused' = refused /\ phase' \in Late \ {"routes"}
           /\ \/ phase = "routes" /\ todo = << >>
              \/ phase \in Late \ {"routes"}
  <2>1. Elements(<< >>) = {}
    BY DEF Elements
  <2>2. Waiting' = {} /\ Waiting = {}
    BY <1>4, <2>1 DEF Waiting
  <2>3. phase' \notin Early \cup {"channels"} /\ phase \in Late
    BY <1>4 DEF Early, Late
  <2> QED BY <1>4, <2>2, <2>3 DEF RouteInv
<1> QED BY <1>1, <1>2, <1>3, <1>4

\* Each channel has its route or its refusal, after every step.
LEMMA StepKeepsRoutes ==
    ASSUME TreeInv, ChannelInv, RouteInv, [Next]_vars
    PROVE  RouteInv'
<1>1. CASE initCmdLine
  <2>1. phase = "cmdline" /\ phase' \in {"config", "exited"} /\ UNCHANGED <<Routes, Channels, refused>>
    BY <1>1 DEF initCmdLine, Beyond, routerVars
  <2>2. phase \in Early /\ "config" \in Early
    BY <2>1 DEF Early
  <2> QED BY <2>1, <2>2, RoutesAside
<1>2. CASE ReadConfig
  <2>1. phase = "config" /\ phase' \in {"config", "terminated", "mq"}
    BY <1>2 DEF ReadConfig, Beyond, initConfig, EndOfFile, ReadSection, ReadProperty, ReadText
  <2>2. UNCHANGED <<Routes, Channels, refused>>
    BY <1>2 DEF ReadConfig, routerVars
  <2>3. phase \in Early /\ "config" \in Early /\ "mq" \in Early
    BY <2>1 DEF Early
  <2> QED BY <2>1, <2>2, <2>3, RoutesAside
<1>3. ASSUME NEW o, initMQ(o) \/ initSAPI(o) PROVE RouteInv'
  <2>1. /\ phase \in {"mq", "sapi"} /\ UNCHANGED <<Routes, Channels>>
        /\ phase' = "terminated" \/ (phase' = phase /\ refused' = refused)
    BY <1>3 DEF initMQ, initSAPI, LoadModule, Beyond, routerVars
  <2> QED BY <2>1, RoutesAside
<1>4. CASE initChannels
  <2>1. phase = "channels" /\ phase' = phase /\ UNCHANGED <<Routes, refused>>
    BY <1>4 DEF initChannels, Beyond, routerVars
  <2>2. phase \notin Late
    BY <2>1 DEF Late
  <2> QED BY <2>1, <2>2 DEF RouteInv
<1>5. CASE initRoutes
  BY <1>5, initRoutesKeeps
<1>6. CASE initServer
  <2>1. UNCHANGED <<Routes, Channels, refused>> /\ phase = "server"
    BY <1>6 DEF initServer, routerVars
  <2>2. phase' \in {phase, "exited", "terminated"}
    BY <1>6 DEF initServer, AddListener
  <2> QED BY <2>1, <2>2, RoutesAside
<1>7. CASE initThreadPool
  <2>1. /\ UNCHANGED <<Routes, Channels, refused>> /\ phase = "pool"
        /\ phase' \in {"exited", "terminated", "serving"}
    BY <1>7 DEF initThreadPool, routerVars
  <2>2. phase \in Late \ {"routes"} /\ "serving" \in Late \ {"routes"}
    BY <2>1 DEF Late
  <2> QED BY <2>1, <2>2, RoutesAside
<1>8. CASE NextPhase
  <2>1. UNCHANGED <<Routes, Channels, refused>> /\ todo = << >>
    BY <1>8 DEF NextPhase, routerVars
  <2>2. CASE phase \in {"mq", "sapi"}
    <3>1. phase' \in {"exited", "sapi", "channels"}
      BY <1>8, <2>2 DEF NextPhase, Beyond
    <3>2. phase \in Early /\ "sapi" \in Early
      BY <2>2 DEF Early
    <3> QED BY <2>1, <3>1, <3>2, RoutesAside
  <2>3. CASE phase = "channels"
    <3>1. phase' = "exited" \/ (phase' = "routes" /\ todo' \in SetToSeqs(DOMAIN Channels))
      BY <1>8, <2>3 DEF NextPhase, Beyond
    <3>2. CASE phase' = "exited"
      BY <2>1, <3>2, RoutesAside
    <3>3. CASE phase' = "routes" /\ todo' \in SetToSeqs(DOMAIN Channels)
      BY <2>1, <2>3, <3>3, RoutesBegin
    <3> QED BY <3>1, <3>2, <3>3
  <2>4. CASE phase \in {"routes", "server"}
    <3>1. phase' \in {"exited", "server", "pool"}
      BY <1>8, <2>4 DEF NextPhase, Beyond
    <3>2. "server" \in Late \ {"routes"} /\ "pool" \in Late \ {"routes"}
      BY DEF Late
    <3> QED BY <2>1, <2>4, <3>1, <3>2, RoutesAside
  <2> QED BY <1>8, <2>2, <2>3, <2>4 DEF NextPhase
<1>9. CASE (\E uri \in Uri : Serve(uri)) \/ Ended \/ UNCHANGED vars
  <2>1. UNCHANGED <<Routes, Channels, refused, phase, todo>>
    BY <1>9 DEF Serve, Process, Ended, vars, routerVars
  <2> QED BY <2>1, RoutesAside
<1> QED BY <1>1, <1>2, <1>3, <1>4, <1>5, <1>6, <1>7, <1>8, <1>9 DEF Next

-----------------------------------------------------------------------------
(* Listeners and the pool.                                                 *)

\* No two listeners share a port; behind the loop there is one; the pool has what
\* its constructor has taken.
ListenInv ==
    /\ \A l, k \in listeners : l # k => ~Clash(l, k)
    /\ phase \in {"pool", "serving"} => listeners # {}
    /\ phase = "serving" =>
          /\ pool.workers \in 1..pool.limit
          /\ pool.cores # {} /\ pool.cores \subseteq 0..(Cores - 1)

\* What stoul takes is a natural number.
LEMMA NumberType ==
    ASSUME NEW t, IsULong(t)
    PROVE  ULong(t) \in Nat
<1>1. ULongMax \in Nat /\ \A n \in DOMAIN Numeral : Numeral[n] \in Nat
  BY StartupAssumption
<1>2. CASE Negative(t)
  <2>1. Tail(t)[1] = t[2]
    BY <1>2 DEF IsULong, HasNumber, Negative
  <2>2. t[2] \in DOMAIN Numeral /\ Numeral[t[2]] <= ULongMax
    BY <1>2, <2>1 DEF IsULong, HasNumber
  <2> QED BY <1>1, <1>2, <2>2 DEF ULong
<1>3. CASE ~Negative(t)
  BY <1>1, <1>3 DEF IsULong, HasNumber, ULong
<1> QED BY <1>2, <1>3

\* The cores the constructor takes exist.
LEMMA CoresExist ==
    ASSUME NEW bind, NEW exclude, ~ExpandThrows(bind)
    PROVE  BindingCores(bind, exclude) \subseteq 0..(Cores - 1)
<1>1. Cores \in Nat \ {0}
  BY StartupAssumption
<1>2. ASSUME NEW c \in expand(bind) PROVE c % Cores \in 0..(Cores - 1)
  <2>1. PICK b \in Bounds(bind) : c \in ULong(b[1])..ULong(b[2])
    BY DEF expand
  <2>2. IsULong(b[1]) /\ IsULong(b[2])
    BY DEF ExpandThrows
  <2>3. ULong(b[1]) \in Nat /\ ULong(b[2]) \in Nat
    BY <2>2, NumberType
  <2>4. c \in Nat
    BY <2>1, <2>3
  <2> QED BY <1>1, <2>4
<1> DEFINE E == expand(bind)
           X == expand(exclude)
<1>3. BindingCores(bind, exclude) = (IF E = {} THEN 0..(Cores - 1) ELSE {c % Cores : c \in E}) \ X
  BY DEF BindingCores
<1>4. {c % Cores : c \in E} \subseteq 0..(Cores - 1)
  BY <1>2
<1> HIDE DEF E, X
<1> QED BY <1>3, <1>4

\* A listener that is added shares its port with none.
LEMMA AddListenerKeeps ==
    ASSUME \A l, k \in listeners : l # k => ~Clash(l, k), initServer
    PROVE  \A l, k \in listeners' : l # k => ~Clash(l, k)
<1>1. \/ listeners' = listeners
      \/ \E n : listeners' = listeners \cup {n} /\ \A k \in listeners : ~Clash(n, k)
  BY DEF initServer, AddListener
<1>2. \A a, b : Clash(a, b) => Clash(b, a)
  BY DEF Clash
<1> QED BY <1>1, <1>2

\* The constructor of the pool.
LEMMA initThreadPoolKeeps ==
    ASSUME initThreadPool, phase' = "serving"
    PROVE  /\ (pool.workers \in 1..pool.limit)'
           /\ (pool.cores # {} /\ pool.cores \subseteq 0..(Cores - 1))'
<1> DEFINE workers == PoolValue("thread-workers", <<"10">>)
           limit == PoolValue("thread-limit", <<"100">>)
           bind == PoolValue("core-bind", <<"1", "-", "8">>)
           exclude == PoolValue("core-exclude", << >>)
           w == ULong(workers)
           m == ULong(limit)
           c == BindingCores(bind, exclude)
<1>1. /\ IsULong(workers) /\ IsULong(limit) /\ ~ExpandThrows(bind)
      /\ c # {} /\ w # 0 /\ m >= w
      /\ pool' = [workers |-> w, limit |-> m, cores |-> c]
  BY DEF initThreadPool
<1>2. w \in Nat /\ m \in Nat
  BY <1>1, NumberType
<1>3. c \subseteq 0..(Cores - 1)
  BY <1>1, CoresExist
<1> HIDE DEF w, m, c
<1>4. pool'.workers = w /\ pool'.limit = m /\ pool'.cores = c
  BY <1>1
<1> QED BY <1>1, <1>2, <1>3, <1>4

\* The listeners and the pool are in order, after every step.
LEMMA StepKeepsListeners ==
    ASSUME ListenInv, [Next]_vars
    PROVE  ListenInv'
<1>1. CASE initServer
  <2>1. \A l, k \in listeners' : l # k => ~Clash(l, k)
    BY <1>1, AddListenerKeeps DEF ListenInv
  <2>2. phase = "server" /\ phase' \in {phase, "exited", "terminated"}
    BY <1>1 DEF initServer, AddListener
  <2> QED BY <2>1, <2>2 DEF ListenInv
<1>2. CASE initThreadPool
  <2>1. listeners' = listeners /\ phase = "pool"
    BY <1>2 DEF initThreadPool
  <2>2. phase' = "serving" => /\ (pool.workers \in 1..pool.limit)'
                              /\ (pool.cores # {} /\ pool.cores \subseteq 0..(Cores - 1))'
    BY <1>2, initThreadPoolKeeps
  <2> QED BY <2>1, <2>2 DEF ListenInv
<1>3. CASE NextPhase
  <2>1. listeners' = listeners /\ phase' # "serving" /\ (phase' = "pool" => listeners # {})
    BY <1>3 DEF NextPhase, Beyond
  <2> QED BY <2>1 DEF ListenInv
<1>4. CASE UNCHANGED <<listeners, pool>> /\ phase' \notin {"pool", "serving"} \ {phase}
  BY <1>4 DEF ListenInv
<1>5. \/ initServer \/ initThreadPool \/ NextPhase
      \/ UNCHANGED <<listeners, pool>> /\ phase' \notin {"pool", "serving"} \ {phase}
  <2>1. ASSUME NEW o, initMQ(o) \/ initSAPI(o) PROVE UNCHANGED <<listeners, pool>> /\ phase' \notin {"pool", "serving"} \ {phase}
    BY <2>1 DEF initMQ, initSAPI, LoadModule, Beyond
  <2>2. CASE initCmdLine \/ initChannels \/ initRoutes
    BY <2>2 DEF initCmdLine, initChannels, initRoutes, Beyond
  <2>3. CASE ReadConfig
    <3>1. phase' \in {"config", "terminated", "mq"}
      BY <2>3 DEF ReadConfig, Beyond, initConfig, EndOfFile, ReadSection, ReadProperty, ReadText
    <3>2. UNCHANGED <<listeners, pool>>
      BY <2>3 DEF ReadConfig
    <3> QED BY <3>1, <3>2
  <2>4. CASE (\E uri \in Uri : Serve(uri)) \/ Ended \/ UNCHANGED vars
    BY <2>4 DEF Serve, Ended, vars
  <2> QED BY <2>1, <2>2, <2>3, <2>4 DEF Next
<1> QED BY <1>1, <1>2, <1>3, <1>4, <1>5

-----------------------------------------------------------------------------
(* A server that has started.                                              *)

\* Behind initRoutes there is a route.
RoutedInv == phase \in {"server", "pool", "serving"} => Routes # {}

\* initRoutes ends in exit(-2) when there is no route, and no later step takes one.
LEMMA StepKeepsRouted ==
    ASSUME RoutedInv, [Next]_vars
    PROVE  RoutedInv'
<1> DEFINE Behind == {"server", "pool", "serving"}
<1>1. \/ Routes' = Routes /\ (phase' \in Behind => phase \in Behind)
      \/ Routes # {} /\ Routes' = Routes
      \/ phase' \notin Behind
  <2>1. ASSUME NEW o, initMQ(o) \/ initSAPI(o) PROVE phase' \notin Behind
    BY <2>1 DEF initMQ, initSAPI, LoadModule, Beyond
  <2>2. CASE initCmdLine \/ initChannels \/ initRoutes
    BY <2>2 DEF initCmdLine, initChannels, initRoutes, Beyond
  <2>3. CASE ReadConfig
    <3>1. phase' \in {"config", "terminated", "mq"}
      BY <2>3 DEF ReadConfig, Beyond, initConfig, EndOfFile, ReadSection, ReadProperty, ReadText
    <3> QED BY <3>1
  <2>4. CASE initServer
    BY <2>4 DEF initServer, routerVars
  <2>5. CASE initThreadPool
    BY <2>5 DEF initThreadPool, routerVars
  <2>6. CASE NextPhase
    BY <2>6 DEF NextPhase, Beyond, routerVars
  <2>7. CASE (\E uri \in Uri : Serve(uri)) \/ Ended \/ UNCHANGED vars
    BY <2>7 DEF Serve, Process, Ended, vars, routerVars
  <2> QED BY <2>1, <2>2, <2>3, <2>4, <2>5, <2>6, <2>7 DEF Next
<1> QED BY <1>1 DEF RoutedInv

\* What is there when the server begins to serve.
ServeInv ==
    /\ TreeInv /\ ReaderInv /\ VisitInv
    /\ ChannelInv /\ RouteInv /\ RoutedInv /\ ListenInv

\* A value that the file declares, or the empty one, is a text.
LEMMA DeclaredValueType ==
    ASSUME TreeInv, ReaderInv, phase \in Running, NEW space, NEW name
    PROVE  DeclaredValue(space, name, << >>) \in Seq(Token)
<1> DEFINE v == ValuesOf(File, space, DOMAIN File)
<1>1. disk[ConfigFile] \in Seq(Line)
  BY DEF ReaderInv, TreeInv, FileShape
<1>2. Declared(space).values = v
  BY DEF Declared, Meaning
<1>3. DeclaredValue(space, name, << >>) = IF name \in DOMAIN v THEN v[name] ELSE << >>
  BY <1>2 DEF DeclaredValue
<1>4. name \in DOMAIN v => v[name] \in Seq(Token)
  BY <1>1, DeclaredType DEF File
<1>5. << >> \in Seq(Token)
  OBVIOUS
<1> DEFINE d == DeclaredValue(space, name, << >>)
<1>6. d = << >> \/ d \in Seq(Token)
  <2> HIDE DEF v
  <2> QED BY <1>3, <1>4
<1> HIDE DEF d
<1>7. d \in Seq(Token)
  BY <1>5, <1>6
<1> QED BY <1>7 DEF d

\* The channels that the file declares and initChannels keeps are the ones that
\* have to be served.
LEMMA ServedAreDeclared ==
    ASSUME ServeInv, phase = "serving", WellNested(File)
    PROVE  /\ ChannelNames = ToSet(Declared(<<"channel">>).sections)
           /\ \A ch : EndpointOf(ch) =
                 parseUri(DeclaredValue(<<"channel">> \o ch, "channel-endpoint", << >>))
           /\ \A ch : Admitted(ch) <=> Servable(ch)
<1>1. phase \in Running /\ phase \in Late
  BY DEF Running, Late
<1>2. \A space, name : Value(space, name) = DeclaredValue(space, name, << >>)
  BY <1>1, LookupsAreDeclared DEF ServeInv, Value
<1>3. \A ch : EndpointOf(ch) = parseUri(DeclaredValue(<<"channel">> \o ch, "channel-endpoint", << >>))
  BY <1>2 DEF EndpointOf
<1>4. \A ch : Admitted(ch) <=> Servable(ch)
  BY <1>2, <1>3 DEF Admitted, Servable
<1>5. PICK ch : ch \in ChannelNames
  <2>1. PICK r \in Routes : TRUE
    BY DEF ServeInv, RoutedInv
  <2>2. r.channel \in DOMAIN Channels
    BY <1>1 DEF ServeInv, RouteInv
  <2>3. r.channel \in ChannelNames
    BY <1>1, <2>2 DEF ServeInv, ChannelInv
  <2> QED BY <2>3
<1>6. <<"channel">> \in DOMAIN config
  <2>1. ToSet(<< >>) = {}
    BY DEF ToSet
  <2>2. GetSections(config, <<"channel">>) # << >>
    BY <1>5, <2>1 DEF ChannelNames
  <2> QED BY <2>2 DEF GetSections
<1>7. GetSections(config, <<"channel">>) = Declared(<<"channel">>).sections
  BY <1>1, <1>6, LookupsAreDeclared DEF ServeInv
<1> QED BY <1>3, <1>4, <1>7 DEF ChannelNames

\* Routes that differ belong to channels that differ.
LEMMA RoutesAreCounted ==
    ASSUME NEW R, NEW W, IsFiniteSet(W), {r.channel : r \in R} = W,
           \A r, q \in R : r.channel = q.channel => r = q
    PROVE  Cardinality(R) = Cardinality(W)
<1> DEFINE f == [r \in R |-> r.channel]
<1>1. f \in [R -> W]
  OBVIOUS
<1>2. \A a, b \in R : f[a] = f[b] => a = b
  OBVIOUS
<1>3. \A w \in W : \E r \in R : f[r] = w
  OBVIOUS
<1> HIDE DEF f
<1>4. f \in Injection(R, W)
  BY <1>1, <1>2, Zenon DEF Injection, IsInjective
<1>5. f \in Surjection(R, W)
  BY <1>1, <1>3, Zenon DEF Surjection
<1>6. IsFiniteSet(R) /\ Cardinality(R) <= Cardinality(W)
  BY <1>4, FS_Injection
<1>7. Cardinality(W) <= Cardinality(R)
  BY <1>5, <1>6, FS_Surjection
<1>8. Cardinality(R) \in Nat /\ Cardinality(W) \in Nat
  BY <1>6, FS_CardinalityType
<1> QED BY <1>6, <1>7, <1>8

\* A server that has started is complete.
LEMMA ServeInvImplies ==
    ASSUME ServeInv
    PROVE  ServingIsComplete
<1> SUFFICES ASSUME phase = "serving", WellNested(File) PROVE ServingIsComplete
  BY DEF ServingIsComplete
<1> DEFINE name(ch) == <<"channel">> \o ch
           end(ch) == parseUri(DeclaredValue(name(ch), "channel-endpoint", << >>))
           wanted == {ch \in ToSet(Declared(<<"channel">>).sections) : Servable(ch) /\ name(ch) \notin refused}
<1>1. phase \in Running /\ phase \in Late /\ phase # "routes"
  BY DEF Running, Late
<1>2. /\ ChannelNames = ToSet(Declared(<<"channel">>).sections)
      /\ \A ch : EndpointOf(ch) = end(ch)
      /\ \A ch : Admitted(ch) <=> Servable(ch)
  BY ServedAreDeclared
<1>3. /\ \A ch \in DOMAIN Channels : ch \in ChannelNames /\ Servable(ch)
      /\ \A ch \in DOMAIN Channels : Channels[ch].uri = WithSlash(end(ch).uri)
      /\ \A ch \in ChannelNames : Servable(ch) => ch \in DOMAIN Channels
  BY <1>1, <1>2 DEF ServeInv, ChannelInv
<1>4. /\ \A r \in Routes : r.channel \in DOMAIN Channels /\ r.path = Channels[r.channel].uri
      /\ \A r, q \in Routes : r.channel = q.channel => r = q
      /\ \A ch \in DOMAIN Channels : name(ch) \in refused <=> \A r \in Routes : r.channel # ch
  BY <1>1 DEF ServeInv, RouteInv, Waiting
<1>5. {r.channel : r \in Routes} = wanted
  <2> HIDE DEF name
  <2>1. ASSUME NEW r \in Routes PROVE r.channel \in wanted
    BY <1>2, <1>3, <1>4
  <2>2. ASSUME NEW ch \in wanted PROVE \E r \in Routes : ch = r.channel
    BY <1>2, <1>3, <1>4
  <2> QED BY <2>1, <2>2
<1>6. Cardinality(Routes) = Cardinality(wanted)
  <2>1. IsFiniteSet(wanted)
    <3>1. IsFiniteSet(ChannelNames) /\ wanted \subseteq ChannelNames
      BY <1>2, ChannelNamesType DEF ServeInv
    <3> QED BY <3>1, FS_Subset
  <2> HIDE DEF wanted
  <2> QED BY <1>4, <1>5, <2>1, RoutesAreCounted
<1>7. ASSUME NEW r \in Routes PROVE IsPrefix(end(r.channel).uri, r.path) /\ Last(r.path) = "/"
  <2> DEFINE ch == r.channel
             t == DeclaredValue(name(ch), "channel-endpoint", << >>)
  <2>1. ch \in DOMAIN Channels /\ r.path = WithSlash(end(ch).uri) /\ Servable(ch)
    BY <1>3, <1>4
  <2>2. t \in Seq(Token)
    BY <1>1, DeclaredValueType DEF ServeInv
  <2>3. parseUri(t) # NoUri
    BY <2>1 DEF Servable
  <2>4. parseUri(t).uri \in Seq(Token) /\ parseUri(t).uri # << >>
    BY <2>2, <2>3, ParseUriShape
  <2> DEFINE u == parseUri(t).uri
  <2> HIDE DEF u
  <2>5. IsPrefix(u, WithSlash(u)) /\ Last(WithSlash(u)) = "/"
    BY <2>4, WithSlashShape DEF u
  <2> QED BY <2>1, <2>5 DEF u
<1>8. /\ listeners # {}
      /\ \A l, k \in listeners : l # k => ~Clash(l, k)
      /\ pool.workers \in 1..pool.limit
      /\ pool.cores # {} /\ pool.cores \subseteq 0..(Cores - 1)
  BY DEF ServeInv, ListenInv
<1> QED BY <1>5, <1>6, <1>7, <1>8 DEF ServingIsComplete

\* It holds at the start, and every step keeps it.
LEMMA ServeInvariant == Spec => []ServeInv
<1>1. Init => ServeInv
  <2>1. ASSUME Init PROVE /\ phase = "cmdline" /\ Channels = << >> /\ Routes = {} /\ refused = {}
                          /\ listeners = {}
    BY <2>1 DEF Init, RouterInit
  <2>2. "cmdline" \notin Late \cup {"channels"}
    BY DEF Late
  <2>3. Init => VisitInv /\ RoutedInv /\ ListenInv
    BY <2>1 DEF VisitInv, RoutedInv, ListenInv
  <2>4. Init => ChannelInv /\ RouteInv
    BY <2>1, <2>2 DEF ChannelInv, RouteInv
  <2> QED BY <2>3, <2>4, InitTree, InitReader DEF ServeInv
<1>2. ServeInv /\ [Next]_vars => ServeInv'
  BY StepKeepsTree, StepKeepsMeaning, StepVisits, StepKeepsChannels, StepKeepsRoutes,
     StepKeepsRouted, StepKeepsListeners DEF ServeInv
<1> QED BY <1>1, <1>2, PTL DEF Spec

\* A server that has started from a well nested file listens on each of its ports
\* once, has workers and CPUs for them, and has exactly one route for each channel
\* of the file that can be served and was not refused, under its endpoint.
THEOREM StartedServerIsComplete == Spec => []ServingIsComplete
<1>1. ServeInv => ServingIsComplete
  BY ServeInvImplies
<1> QED BY <1>1, ServeInvariant, PTL

-----------------------------------------------------------------------------
(* A server that serves as its file says.                                  *)

\* The sections that initServer opens listeners for, and the text it cuts in two.
ServerSpace(s) == <<"fiber", "server">> \o s
HttpNames == {s \in ToSet(GetSections(config, <<"fiber", "server">>)) : s \in HttpProtocol}
ListenOf(s) == explode(":", Value(ServerSpace(s), "listen"), 2)
HavePorts == \A s \in HttpNames : Len(ListenOf(s)) = 2

\* Each listener is the one of a section that has been visited, and the pool has
\* been asked for the numbers of the map.
DeclaredInv ==
    /\ phase \in Early \cup {"channels", "routes"} => listeners = {}
    /\ phase \in {"server", "pool", "serving"} /\ HavePorts =>
          \A l \in listeners : \E s \in HttpNames :
              l = Listener(ServerSpace(s), ListenOf(s)[1], ListenOf(s)[2])
    /\ phase = "serving" =>
          /\ pool.workers = ULong(PoolValue("thread-workers", <<"10">>))
          /\ pool.limit = ULong(PoolValue("thread-limit", <<"100">>))

\* initServer adds the listener of the section it visits, or none.
LEMMA initServerDeclares ==
    ASSUME VisitInv, DeclaredInv, initServer
    PROVE  DeclaredInv'
<1>1. /\ phase = "server" /\ config' = config /\ todo # << >>
      /\ phase' \in {"server", "exited", "terminated"}
  <2>1. phase' \in {phase, "exited", "terminated"}
    BY DEF initServer, AddListener
  <2> QED BY <2>1 DEF initServer, configVars
<1>2. /\ HttpNames' = HttpNames
      /\ \A s : ListenOf(s)' = ListenOf(s)
      /\ HavePorts' <=> HavePorts
      /\ \A space, device, port : Listener(space, device, port)' = Listener(space, device, port)
  BY <1>1 DEF HttpNames, ListenOf, HavePorts, Listener, Value
<1> DEFINE h == Head(todo)
<1>3. h \in ToSet(GetSections(config, <<"fiber", "server">>))
  BY <1>1, VisitOne DEF VisitInv, Visits
<1>4. HavePorts /\ listeners' # listeners =>
         /\ h \in HttpNames
         /\ listeners' = listeners \cup {Listener(ServerSpace(h), ListenOf(h)[1], ListenOf(h)[2])}
  <2> SUFFICES ASSUME HavePorts, listeners' # listeners
               PROVE  /\ h \in HttpNames
                      /\ listeners' = listeners \cup {Listener(ServerSpace(h), ListenOf(h)[1], ListenOf(h)[2])}
    OBVIOUS
  <2>1. h \in HttpProtocol
    BY DEF initServer
  <2>2. h \in HttpNames
    BY <1>3, <2>1 DEF HttpNames
  <2>3. Len(ListenOf(h)) = 2
    BY <2>2 DEF HavePorts
  <2>4. AddListener(ServerSpace(h), ListenOf(h)[1], ListenOf(h)[2])
    BY <2>1, <2>3 DEF initServer, ListenOf, ServerSpace
  <2> QED BY <2>2, <2>4 DEF AddListener
<1> DEFINE New == \A l \in listeners' : \E s \in HttpNames :
                      l = Listener(ServerSpace(s), ListenOf(s)[1], ListenOf(s)[2])
<1>5. HavePorts => New
  <2>1. HavePorts => \A l \in listeners : \E s \in HttpNames :
            l = Listener(ServerSpace(s), ListenOf(s)[1], ListenOf(s)[2])
    BY <1>1 DEF DeclaredInv
  <2> HIDE DEF h
  <2> QED BY <1>4, <2>1
<1>6. phase' \notin Early \cup {"channels", "routes"} /\ phase' # "serving"
  BY <1>1 DEF Early
<1> QED BY <1>2, <1>5, <1>6 DEF DeclaredInv

\* What keeps the map, the listeners and the pool keeps what has been declared.
LEMMA DeclaredAside ==
    ASSUME DeclaredInv, UNCHANGED <<config, listeners, pool>>,
           \/ phase' = phase \/ phase' \in {"exited", "terminated"}
           \/ phase \in Early \cup {"channels", "routes", "server"} /\ phase' # "serving"
              /\ (phase' \in Early \cup {"channels", "routes"} => phase \in Early \cup {"channels", "routes"})
    PROVE  DeclaredInv'
<1>1. /\ HttpNames' = HttpNames
      /\ \A s : ListenOf(s)' = ListenOf(s)
      /\ HavePorts' <=> HavePorts
      /\ \A space, device, port : Listener(space, device, port)' = Listener(space, device, port)
      /\ \A name, default : PoolValue(name, default)' = PoolValue(name, default)
  BY DEF HttpNames, ListenOf, HavePorts, Listener, Value, PoolValue
<1> DEFINE Before == Early \cup {"channels", "routes"}
<1>2. CASE phase' = phase
  BY <1>1, <1>2 DEF DeclaredInv
<1>3. CASE phase' \in {"exited", "terminated"}
  BY <1>3 DEF DeclaredInv, Early
<1>4. CASE phase \in Before /\ phase' # "serving"
  <2>1. listeners' = {}
    BY <1>4 DEF DeclaredInv
  <2> QED BY <1>4, <2>1 DEF DeclaredInv
<1>5. CASE phase = "server" /\ phase' # "serving" /\ phase' \notin Before
  BY <1>1, <1>5 DEF DeclaredInv
<1>6. phase = "server" => phase \notin Before
  BY DEF Early
<1> QED BY <1>2, <1>3, <1>4, <1>5, <1>6

\* The listeners and the pool are the declared ones, after every step.
LEMMA StepKeepsDeclared ==
    ASSUME VisitInv, DeclaredInv, [Next]_vars
    PROVE  DeclaredInv'
<1> DEFINE Before == Early \cup {"channels", "routes"}
<1>1. CASE initServer
  BY <1>1, initServerDeclares
<1>2. CASE initThreadPool
  <2>1. phase = "pool" /\ UNCHANGED <<config, listeners>> /\ phase' \in {"exited", "terminated", "serving"}
    BY <1>2 DEF initThreadPool, configVars
  <2>2. CASE phase' \in {"exited", "terminated"}
    BY <2>2 DEF DeclaredInv, Early
  <2>3. CASE phase' = "serving"
    <3>1. /\ pool'.workers = ULong(PoolValue("thread-workers", <<"10">>))
          /\ pool'.limit = ULong(PoolValue("thread-limit", <<"100">>))
      BY <1>2, <2>3 DEF initThreadPool
    <3>2. /\ HttpNames' = HttpNames
          /\ \A s : ListenOf(s)' = ListenOf(s)
          /\ HavePorts' <=> HavePorts
          /\ \A space, device, port : Listener(space, device, port)' = Listener(space, device, port)
          /\ \A name, default : PoolValue(name, default)' = PoolValue(name, default)
      BY <2>1 DEF HttpNames, ListenOf, HavePorts, Listener, Value, PoolValue
    <3>3. HavePorts => \A l \in listeners : \E s \in HttpNames :
              l = Listener(ServerSpace(s), ListenOf(s)[1], ListenOf(s)[2])
      BY <2>1 DEF DeclaredInv
    <3>4. phase' \notin Before
      BY <2>3 DEF Early
    <3> QED BY <2>1, <2>3, <3>1, <3>2, <3>3, <3>4 DEF DeclaredInv
  <2> QED BY <2>1, <2>2, <2>3
<1>3. CASE ReadConfig \/ initCmdLine
  <2>1. phase \in Before /\ listeners' = listeners
    BY <1>3 DEF ReadConfig, initCmdLine, Early
  <2>2. phase' \in {"config", "exited", "terminated", "mq"}
    BY <1>3 DEF ReadConfig, initCmdLine, Beyond, initConfig, EndOfFile, ReadSection, ReadProperty, ReadText
  <2>3. listeners' = {}
    BY <2>1 DEF DeclaredInv
  <2> QED BY <2>2, <2>3 DEF DeclaredInv
<1>4. ASSUME NEW o, initMQ(o) \/ initSAPI(o) PROVE DeclaredInv'
  <2>1. UNCHANGED <<config, listeners, pool>> /\ phase' \in {phase, "terminated"}
    BY <1>4 DEF initMQ, initSAPI, LoadModule, Beyond, configVars
  <2> QED BY <2>1, DeclaredAside
<1>5. CASE initChannels \/ initRoutes
  <2>1. UNCHANGED <<config, listeners, pool>> /\ phase' = phase
    BY <1>5 DEF initChannels, initRoutes, Beyond, configVars
  <2> QED BY <2>1, DeclaredAside
<1>6. CASE NextPhase
  <2>1. UNCHANGED <<config, listeners, pool>>
    BY <1>6 DEF NextPhase, configVars
  <2>2. /\ phase \in {"mq", "sapi", "channels", "routes", "server"}
        /\ phase' \in {"exited", "sapi", "channels", "routes", "server", "pool"}
        /\ phase = "server" => phase' \in {"exited", "pool"}
    BY <1>6 DEF NextPhase, Beyond
  <2>3. /\ phase \in Before \cup {"server"} /\ phase' # "serving"
        /\ phase' \in Before => phase \in Before
    BY <2>2 DEF Early
  <2> QED BY <2>1, <2>3, DeclaredAside
<1>7. CASE (\E uri \in Uri : Serve(uri)) \/ Ended \/ UNCHANGED vars
  <2>1. UNCHANGED <<config, listeners, pool, phase>>
    BY <1>7 DEF Serve, Ended, vars, configVars
  <2> QED BY <2>1, DeclaredAside
<1> QED BY <1>1, <1>2, <1>3, <1>4, <1>5, <1>6, <1>7 DEF Next

\* What the start has found in the map is what the file declares.
LEMMA DeclaredInvImplies ==
    ASSUME ServeInv, DeclaredInv
    PROVE  ServesAsDeclared
<1> SUFFICES ASSUME phase = "serving", WellNested(File),
                    \A s \in HttpSections : Len(DeclaredListen(s)) = 2
             PROVE  ServesAsDeclared
  BY DEF ServesAsDeclared
<1>1. phase \in Running
  BY DEF Running
<1>2. \A space, name : Value(space, name) = DeclaredValue(space, name, << >>)
  BY <1>1, LookupsAreDeclared DEF ServeInv, Value
<1>3. \A name, default : PoolValue(name, default) = DeclaredValue(PoolSpace, name, default)
  BY <1>1, LookupsAreDeclared DEF ServeInv, PoolValue
<1>4. \A s : ListenOf(s) = DeclaredListen(s)
  BY <1>2 DEF ListenOf, DeclaredListen, ServerSpace
<1>5. HttpNames \subseteq HttpSections
  <2> SUFFICES ASSUME NEW s \in HttpNames PROVE s \in HttpSections
    OBVIOUS
  <2>1. ToSet(<< >>) = {}
    BY DEF ToSet
  <2>2. GetSections(config, <<"fiber", "server">>) # << >>
    BY <2>1 DEF HttpNames
  <2>3. <<"fiber", "server">> \in DOMAIN config
    BY <2>2 DEF GetSections
  <2>4. GetSections(config, <<"fiber", "server">>) = Declared(<<"fiber", "server">>).sections
    BY <1>1, <2>3, LookupsAreDeclared DEF ServeInv
  <2> QED BY <2>4 DEF HttpNames, HttpSections
<1>6. HavePorts
  BY <1>4, <1>5 DEF HavePorts
<1>7. ASSUME NEW l \in listeners
      PROVE  \E s \in HttpSections :
                LET space == <<"fiber", "server">> \o s
                IN  /\ l.device = DeclaredListen(s)[1]
                    /\ l.port = Port(DeclaredListen(s)[2])
                    /\ l.query = get_bytes(DeclaredValue(space, "query-limit", << >>), 1048576)
                    /\ l.header = get_bytes(DeclaredValue(space, "header-limit", << >>), 8192)
  <2>1. PICK s \in HttpNames : l = Listener(ServerSpace(s), ListenOf(s)[1], ListenOf(s)[2])
    BY <1>6 DEF DeclaredInv
  <2> DEFINE query == get_bytes(Value(ServerSpace(s), "query-limit"), 1048576)
             header == get_bytes(Value(ServerSpace(s), "header-limit"), 8192)
             at == Port(ListenOf(s)[2])
  <2>2. l = [device |-> ListenOf(s)[1], port |-> at, query |-> query, header |-> header]
    BY <2>1 DEF Listener
  <2>3. s \in HttpSections
    BY <1>5
  <2>4. /\ at = Port(DeclaredListen(s)[2])
        /\ query = get_bytes(DeclaredValue(<<"fiber", "server">> \o s, "query-limit", << >>), 1048576)
        /\ header = get_bytes(DeclaredValue(<<"fiber", "server">> \o s, "header-limit", << >>), 8192)
    BY <1>2, <1>4 DEF ServerSpace
  <2> HIDE DEF at, query, header
  <2> QED BY <1>4, <2>2, <2>3, <2>4
<1>8. /\ pool.workers = ULong(DeclaredValue(PoolSpace, "thread-workers", <<"10">>))
      /\ pool.limit = ULong(DeclaredValue(PoolSpace, "thread-limit", <<"100">>))
  BY <1>3 DEF DeclaredInv
<1> QED BY <1>7, <1>8 DEF ServesAsDeclared

\* A server that has started from a well nested file whose listeners have a port
\* opens no port but the ones of its sections, each on the device and with the two
\* limits of that section, and gives the pool the numbers of workers of the file:
\* for every file, whatever the system refused on the way.
THEOREM ServerIsAsDeclared == Spec => []ServesAsDeclared
<1>1. Init => DeclaredInv
  BY DEF Init, DeclaredInv
<1>2. ServeInv /\ DeclaredInv /\ [Next]_vars => DeclaredInv'
  BY StepKeepsDeclared DEF ServeInv
<1>3. ServeInv /\ DeclaredInv => ServesAsDeclared
  BY DeclaredInvImplies
<1> QED BY <1>1, <1>2, <1>3, ServeInvariant, PTL DEF Spec

-----------------------------------------------------------------------------
(* Look-ups in the table.                                                  *)

\* Every value of the map is a text, for every file, well nested or not.
TextInv ==
    \A k \in DOMAIN config : \A n \in DOMAIN config[k].values : config[k].values[n] \in Seq(Token)

\* A section has no values yet.
LEMMA ReadSectionKeepsText ==
    ASSUME TreeInv, TextInv, lines # << >>, ReadSection
    PROVE  TextInv'
<1> SUFFICES ASSUME NEW k \in DOMAIN config', NEW n \in DOMAIN config'[k].values
             PROVE  config'[k].values[n] \in Seq(Token)
  BY DEF TextInv
<1> DEFINE old == IF k \in DOMAIN config THEN config[k] ELSE NoSection
<1>1. config'[k] = IF k = OuterKey
                   THEN [sections |-> Append(old.sections, OwnName), values |-> old.values]
                   ELSE old
  BY ReadSectionMap
<1>2. config'[k].values = old.values
  <2>1. CASE k = OuterKey
    <3> DEFINE a == Append(old.sections, OwnName)
               b == old.values
    <3>1. config'[k] = [sections |-> a, values |-> b]
      BY <1>1, <2>1
    <3> HIDE DEF a, b
    <3>2. config'[k].values = b
      BY <3>1
    <3> QED BY <3>2 DEF b
  <2>2. CASE k # OuterKey
    BY <1>1, <2>2
  <2> QED BY <2>1, <2>2
<1>3. CASE k \in DOMAIN config
  BY <1>2, <1>3 DEF TextInv
<1>4. CASE k \notin DOMAIN config
  <2>1. old.values = << >>
    BY <1>4 DEF NoSection
  <2>2. DOMAIN config'[k].values = {}
    BY <1>2, <2>1
  <2> QED BY <2>2
<1> QED BY <1>3, <1>4

\* A property adds a text without its comment, or nothing.
LEMMA ReadPropertyKeepsText ==
    ASSUME TreeInv, TextInv, lines # << >>, ReadProperty
    PROVE  TextInv'
<1> DEFINE l == LogicalLine(lines)
           key == implode_config_path(path)
           x == l.name[1]
           y == RemoveComment(l.text)
<1>1. y \in Seq(Token)
  <2>1. lines \in Seq(Line)
    BY DEF TreeInv, FileShape
  <2>2. l.text \in Seq(Token)
    BY <2>1, LogicalText
  <2> QED BY <2>2, RemoveCommentType
<1>2. IF key \in DOMAIN config
      THEN config' = [config EXCEPT ![key].values = Emplace(@, x, y)]
      ELSE config' = config
  BY DEF ReadProperty
<1> HIDE DEF l, key, x, y
<1>3. CASE key \notin DOMAIN config
  BY <1>2, <1>3 DEF TextInv
<1>4. CASE key \in DOMAIN config
  <2>1. config = [k \in DOMAIN config |-> config[k]] /\ Entry(config[key])
    BY <1>4 DEF TreeInv, MapShape
  <2> DEFINE v == config[key].values
             w == Emplace(v, x, y)
  <2>2. /\ DOMAIN config' = DOMAIN config
        /\ \A k \in DOMAIN config : k # key => config'[k] = config[k]
        /\ config'[key] = [config[key] EXCEPT !.values = w]
    BY <1>2, <1>4, <2>1
  <2>3. config'[key].values = w
    <3> HIDE DEF w
    <3>1. config'[key] = [sections |-> config[key].sections, values |-> w]
      BY <2>1, <2>2 DEF Entry
    <3> QED BY <3>1
  <2>4. \A n \in DOMAIN v : v[n] \in Seq(Token)
    BY <1>4 DEF TextInv
  <2>5. \A n \in DOMAIN w : w[n] \in Seq(Token)
    <3> HIDE DEF v
    <3> QED BY <1>1, <2>4 DEF Emplace
  <2> HIDE DEF v, w
  <2> QED BY <2>2, <2>3, <2>5 DEF TextInv
<1> QED BY <1>3, <1>4

\* After every step.
LEMMA StepKeepsText ==
    ASSUME TreeInv, TextInv, [Next]_vars
    PROVE  TextInv'
<1>1. CASE ReadConfig /\ initConfig
  <2>1. lines # << >> /\ (ReadSection \/ ReadProperty \/ ReadText)
    BY <1>1 DEF initConfig
  <2>2. CASE ReadText
    BY <2>2 DEF ReadText, TextInv
  <2> QED BY <2>1, <2>2, ReadSectionKeepsText, ReadPropertyKeepsText
<1>2. CASE UNCHANGED config
  BY <1>2 DEF TextInv
<1>3. (ReadConfig /\ initConfig) \/ UNCHANGED config
  <2>1. CASE ReadConfig
    BY <2>1 DEF ReadConfig, EndOfFile
  <2>2. CASE initCmdLine
    BY <2>2 DEF initCmdLine, OpenFile, configVars
  <2>3. CASE UNCHANGED configVars
    BY <2>3 DEF configVars
  <2>4. initCmdLine \/ ReadConfig \/ UNCHANGED configVars
    BY DEF Next, vars, initMQ, initSAPI, LoadModule, initChannels, initRoutes, initServer,
                initThreadPool, NextPhase, Serve, Ended
  <2> QED BY <2>1, <2>2, <2>3, <2>4
<1> QED BY <1>1, <1>2, <1>3

\* The last look-up gave what find returns for it, and the table is still the same.
LookupInv ==
    /\ phase # "serving" => lookup.status = "none"
    /\ lookup.status \in {"none", "found", "404"}
    /\ lookup.status # "none" => lookup.uri \in Uri
    /\ lookup.status = "found" => \E r \in find(lookup.uri) : lookup.channel = r.channel
    /\ lookup.status = "404" => find(lookup.uri) = {}

\* A look-up.
LEMMA ServeLooksUp ==
    ASSUME NEW uri \in Uri, Serve(uri)
    PROVE  LookupInv'
<1>1. phase = "serving" /\ phase' = phase /\ Routes' = Routes /\ Process(uri)
  BY DEF Serve, Process
<1>2. CASE \E r \in find(uri) :
              lookup' = [uri |-> uri, status |-> "found", channel |-> r.channel]
  <2>1. PICK r \in find(uri) :
           lookup' = [uri |-> uri, status |-> "found", channel |-> r.channel]
    BY <1>2
  <2>2. PICK ch : ch = r.channel
    OBVIOUS
  <2>3. lookup'.uri = uri /\ lookup'.status = "found" /\ lookup'.channel = ch
    BY <2>1, <2>2
  <2>4. find(lookup.uri)' = find(uri)
    BY <1>1, <2>3 DEF find
  <2> QED BY <1>1, <2>2, <2>3, <2>4 DEF LookupInv
<1>3. CASE /\ find(uri) = {}
           /\ lookup' = [uri |-> uri, status |-> "404", channel |-> << >>]
  <2>1. lookup'.uri = uri /\ lookup'.status = "404"
    BY <1>3
  <2>2. find(lookup.uri)' = {}
    BY <1>1, <1>3, <2>1 DEF find
  <2> QED BY <1>1, <2>1, <2>2 DEF LookupInv
<1> QED BY <1>1, <1>2, <1>3 DEF Process

\* After every step.
LEMMA StepKeepsLookup ==
    ASSUME LookupInv, [Next]_vars
    PROVE  LookupInv'
<1>1. CASE \E uri \in Uri : Serve(uri)
  BY <1>1, ServeLooksUp
<1>2. CASE Ended \/ UNCHANGED vars
  <2>1. UNCHANGED <<phase, lookup, Routes>>
    BY <1>2 DEF Ended, vars, routerVars
  <2>2. find(lookup.uri)' = find(lookup.uri)
    BY <2>1 DEF find
  <2> QED BY <2>1, <2>2 DEF LookupInv
<1>3. CASE \/ initCmdLine \/ ReadConfig \/ initChannels \/ initRoutes \/ initServer
           \/ initThreadPool \/ NextPhase
           \/ \E o \in {"loaded", "refused", "skipped", "incomplete"} : initMQ(o) \/ initSAPI(o)
  <2>1. phase # "serving"
    BY <1>3 DEF initCmdLine, ReadConfig, initChannels, initRoutes, initServer,
                initThreadPool, NextPhase, initMQ, initSAPI
  <2>2. lookup' = lookup
    BY <1>3 DEF initCmdLine, ReadConfig, initChannels, initRoutes, AddRoute, initServer,
                initThreadPool, NextPhase, initMQ, initSAPI, LoadModule, routerVars
  <2>3. lookup'.status = "none"
    BY <2>1, <2>2 DEF LookupInv
  <2> QED BY <2>3 DEF LookupInv
<1> QED BY <1>1, <1>2, <1>3 DEF Next

\* The endpoint of a route is a text: a channel that was kept has one.
LEMMA PathsAreTexts ==
    ASSUME TextInv, ChannelInv, RouteInv, phase \in Late
    PROVE  Paths(Token)
<1> SUFFICES ASSUME NEW r \in Routes PROVE r.path \in Seq(Token)
  BY DEF Paths
<1> DEFINE ch == r.channel
           t == Value(<<"channel">> \o ch, "channel-endpoint")
<1>1. /\ Admitted(ch) /\ r.path = WithSlash(EndpointOf(ch).uri)
  BY DEF ChannelInv, RouteInv
<1>2. parseUri(t) # NoUri /\ r.path = WithSlash(parseUri(t).uri)
  BY <1>1 DEF Admitted, EndpointOf
<1>3. t \in Seq(Token)
  <2>1. << >> \in Seq(Token)
    OBVIOUS
  <2> QED BY <2>1 DEF Value, GetConfigValue, TextInv
<1> HIDE DEF t
<1>4. PICK p \in Seq(Token) : p = parseUri(t).uri
  BY <1>2, <1>3, ParseUriShape
<1>5. WithSlash(p) \in Seq(Token)
  <2>1. "/" \in Token
    BY DEF Token
  <2>2. ASSUME NEW S, NEW a \in Seq(S), NEW x \in S PROVE Append(a, x) \in Seq(S)
    OBVIOUS
  <2> QED BY <2>1, <2>2 DEF WithSlash
<1> QED BY <1>2, <1>4, <1>5

\* The inductive invariant of the two theorems.
RoutingInv ==
    /\ TreeInv /\ TextInv /\ VisitInv /\ ChannelInv /\ RouteInv /\ LookupInv

\* What there is when a request has been looked up.
LEMMA LookedUp ==
    ASSUME RoutingInv, lookup.status # "none"
    PROVE  Paths(Token) /\ lookup.uri \in Seq(Token)
<1>1. phase \in Late
  BY DEF RoutingInv, LookupInv, Late
<1>2. lookup.uri \in Seq(STRING)
  BY StartupAssumption DEF RoutingInv, LookupInv
<1>3. STRING \subseteq Token
  BY DEF Token
<1>4. lookup.uri \in Seq(Token)
  BY <1>2, <1>3, SeqOfMore
<1> QED BY <1>1, <1>4, PathsAreTexts DEF RoutingInv

\* The invariant implies that a look-up answers by the endpoints' meaning ...
LEMMA RoutingMatches == RoutingInv => LookupMatchesPattern
<1> SUFFICES ASSUME RoutingInv, Literal(lookup.uri), lookup.status # "none"
             PROVE  LookupMatchesPattern
  BY DEF LookupMatchesPattern
<1>1. PICK u \in Seq(Token) : u = lookup.uri
  BY LookedUp
<1>2. Paths(Token)
  BY LookedUp
<1>3. /\ \A r \in find(u) : r \in Routes /\ Matches(r.path, u)
      /\ find(u) = {} /\ FirstSegmentWhole(u) =>
           \A r \in Routes : HashedLiteral(r.path) /\ FirstSegmentWhole(r.path) =>
               ~Matches(r.path, u)
  BY <1>1, <1>2, FoundMatches
<1>4. /\ lookup.status = "found" => \E r \in find(u) : lookup.channel = r.channel
      /\ lookup.status = "404" => find(u) = {}
  BY <1>1 DEF RoutingInv, LookupInv
<1> QED BY <1>1, <1>3, <1>4 DEF LookupMatchesPattern

\* ... and that a literal endpoint serves what is below it.
LEMMA RoutingServes == RoutingInv => OwnEndpointServes
<1> SUFFICES ASSUME RoutingInv, lookup.status # "none", NEW r \in Routes,
                    FirstSegmentWhole(r.path), IsPrefix(r.path, lookup.uri),
                    \A q \in Routes : Literal(q.path),
                    \A q \in Routes \ {r} : ~IsPrefix(q.path, r.path) /\ ~IsPrefix(r.path, q.path)
             PROVE  lookup.channel = r.channel
  BY DEF OwnEndpointServes
<1>1. PICK u \in Seq(Token) : u = lookup.uri
  BY LookedUp
<1>2. Paths(Token)
  BY LookedUp
<1>3. find(u) = {r}
  BY <1>1, <1>2, OnlyOwnIsFound
<1>4. lookup.status = "found"
  BY <1>1, <1>3 DEF RoutingInv, LookupInv
<1> QED BY <1>1, <1>3, <1>4 DEF RoutingInv, LookupInv

\* It holds at the start, and every step keeps it.
LEMMA RoutingInvariant == Spec => []RoutingInv
<1>1. Init => RoutingInv
  <2>1. ASSUME Init PROVE /\ phase = "cmdline" /\ Channels = << >> /\ Routes = {} /\ refused = {}
                          /\ config = << >> /\ lookup.status = "none"
    BY <2>1 DEF Init, RouterInit, ConfigInit
  <2>2. "cmdline" \notin Late \cup {"channels"}
    BY DEF Late
  <2>3. Init => ChannelInv /\ RouteInv
    BY <2>1, <2>2 DEF ChannelInv, RouteInv
  <2>4. Init => VisitInv /\ LookupInv
    BY <2>1 DEF VisitInv, LookupInv
  <2>5. Init => TextInv
    BY <2>1 DEF TextInv
  <2> QED BY <2>3, <2>4, <2>5, InitTree DEF RoutingInv
<1>2. RoutingInv /\ [Next]_vars => RoutingInv'
  BY StepKeepsTree, StepKeepsText, StepVisits, StepKeepsChannels, StepKeepsRoutes, StepKeepsLookup
     DEF RoutingInv
<1> QED BY <1>1, <1>2, PTL DEF Spec

\* RouterImpl::Process gives a request without wildcards only to a channel whose
\* endpoint matches it segment by segment, and answers 404 only if no endpoint whose
\* first segment is literal where it is hashed does: for every file, every request
\* and every length of the hash.
THEOREM LookupsMatchPatterns == Spec => []LookupMatchesPattern
BY RoutingInvariant, RoutingMatches, PTL

\* Among literal endpoints none of which begins another, a request below one of them
\* is given to its channel, with or without a query, whatever the order of the table.
THEOREM OwnEndpointsServe == Spec => []OwnEndpointServes
BY RoutingInvariant, RoutingServes, PTL
=============================================================================
