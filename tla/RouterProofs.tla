---------------------------- MODULE RouterProofs ----------------------------
(***************************************************************************)
(* What the equality and the hash of the router's table compute, for all   *)
(* paths: lemmas for the two theorems about look-ups in StartupProofs.     *)
(*                                                                         *)
(* The equality is a loop, so its facts are invariants of its two cursors, *)
(* by induction over the turns (SetInduction).  A path is a sequence over  *)
(* any set T of characters.                                                *)
(***************************************************************************)
EXTENDS Router, Integers, FiniteSetTheorems, SequenceTheorems, TLAPS

-----------------------------------------------------------------------------
(* Induction.                                                              *)

\* The principle of induction, with a set for the property.  A number outside S
\* would have all its predecessors outside S too, and on this finite set k - 1
\* would be an injection that is no surjection.
LEMMA SetInduction ==
    ASSUME NEW S, 0 \in S, \A n \in Nat : n \in S => n + 1 \in S
    PROVE  Nat \subseteq S
<1> SUFFICES ASSUME NEW m \in Nat, m \notin S PROVE FALSE
  OBVIOUS
<1> DEFINE T == {k \in 0 .. m : k \notin S}
           f == [k \in T |-> k - 1]
<1>1. \A k \in T : k - 1 \in T
  <2> SUFFICES ASSUME NEW k \in 0 .. m, k \notin S PROVE k - 1 \in 0 .. m /\ k - 1 \notin S
    OBVIOUS
  <2>1. k # 0 /\ k \in Nat
    OBVIOUS
  <2>2. k - 1 \in Nat /\ (k - 1) + 1 = k
    BY <2>1
  <2> QED BY <2>1, <2>2
<1>2. IsFiniteSet(T)
  <2>1. IsFiniteSet(0 .. m)
    BY FS_Interval
  <2> QED BY <2>1, FS_Subset
<1>3. f \in Injection(T, T)
  <2>1. f \in [T -> T]
    BY <1>1
  <2>2. \A a, b \in T : f[a] = f[b] => a = b
    OBVIOUS
  <2> QED BY <2>1, <2>2, Zenon DEF Injection, IsInjective
<1>4. f \in Surjection(T, T)
  BY <1>2, <1>3, FS_Injection
<1>5. PICK k \in T : f[k] = m
  <2>1. m \in T
    OBVIOUS
  <2> QED BY <1>4, <2>1, Zenon DEF Surjection
<1> QED BY <1>5

\* A set of natural numbers that is not empty has a least member.
LEMMA LeastMember ==
    ASSUME NEW S \in SUBSET Nat, S # {}
    PROVE  Min(S) \in S /\ \A k \in S : Min(S) <= k
<1>1. \E m \in S : \A k \in S : m <= k
  <2> SUFFICES ASSUME \A m \in S : \E k \in S : ~(m <= k) PROVE FALSE
    OBVIOUS
  <2> DEFINE P == {n \in Nat : \A k \in S : n <= k}
  <2>1. 0 \in P
    OBVIOUS
  <2>2. \A n \in Nat : n \in P => n + 1 \in P
    <3> SUFFICES ASSUME NEW n \in P, NEW k \in S PROVE n + 1 <= k
      OBVIOUS
    <3>1. n <= k /\ n \in Nat /\ k \in Nat
      OBVIOUS
    <3>2. n # k
      OBVIOUS
    <3> QED BY <3>1, <3>2
  <2> HIDE DEF P
  <2>3. Nat \subseteq P
    BY <2>1, <2>2, SetInduction
  <2>4. PICK k \in S : TRUE
    OBVIOUS
  <2>5. k + 1 \in P /\ k \in Nat
    BY <2>3
  <2> QED BY <2>5 DEF P
<1> QED BY <1>1 DEF Min

\* The least member of a set is the one that exceeds no other.
LEMMA LeastIs ==
    ASSUME NEW S \in SUBSET Nat, NEW h \in S, \A k \in S : h <= k
    PROVE  Min(S) = h
<1>1. Min(S) \in S /\ Min(S) <= h /\ h <= Min(S)
  BY LeastMember
<1>2. Min(S) \in Nat /\ h \in Nat
  BY <1>1
<1> QED BY <1>1, <1>2

-----------------------------------------------------------------------------
(* The loop of cpathstring::compare.                                       *)

\* f is the cursors before the loop and after each of n turns.
Walks(f, l, r, n) == f = [i \in 0 .. n |-> IF i = 0 THEN <<1, 1>> ELSE Turn(l, r, f[i - 1])]

\* There is such a function.
LEMMA WalksExist == \A l, r : \A n \in Nat : \E f : Walks(f, l, r, n)
<1> SUFFICES ASSUME NEW l, NEW r PROVE \A n \in Nat : \E f : Walks(f, l, r, n)
  OBVIOUS
<1> DEFINE P == {n \in Nat : \E f : Walks(f, l, r, n)}
<1>1. 0 \in P
  <2> DEFINE f == [i \in 0 .. 0 |-> <<1, 1>>]
  <2>1. f = [i \in 0 .. 0 |-> IF i = 0 THEN <<1, 1>> ELSE Turn(l, r, f[i - 1])]
    OBVIOUS
  <2>2. Walks(f, l, r, 0)
    BY <2>1 DEF Walks
  <2> QED BY <2>2
<1>2. \A n \in Nat : n \in P => n + 1 \in P
  <2> SUFFICES ASSUME NEW n \in Nat, NEW f, Walks(f, l, r, n) PROVE \E g : Walks(g, l, r, n + 1)
    OBVIOUS
  <2> DEFINE g == [i \in 0 .. n + 1 |-> IF i <= n THEN f[i] ELSE Turn(l, r, f[i - 1])]
  <2>1. \A i \in 0 .. n : f[i] = IF i = 0 THEN <<1, 1>> ELSE Turn(l, r, f[i - 1])
    BY DEF Walks
  <2>2. ASSUME NEW i \in 0 .. n + 1
        PROVE  g[i] = IF i = 0 THEN <<1, 1>> ELSE Turn(l, r, g[i - 1])
    <3>1. CASE i = 0
      <4>1. g[0] = f[0] /\ f[0] = <<1, 1>>
        BY <2>1
      <4> QED BY <3>1, <4>1
    <3>2. CASE i # 0
      <4>1. g[i - 1] = f[i - 1]
        BY <3>2
      <4>2. g[i] = Turn(l, r, f[i - 1])
        BY <2>1, <3>2
      <4> QED BY <3>2, <4>1, <4>2
    <3> QED BY <3>1, <3>2
  <2>3. g = [i \in 0 .. n + 1 |-> g[i]]
    OBVIOUS
  <2> HIDE DEF g
  <2>4. Walks(g, l, r, n + 1)
    BY <2>2, <2>3 DEF Walks
  <2> QED BY <2>4
<1> HIDE DEF P
<1>3. Nat \subseteq P
  BY <1>1, <1>2, SetInduction
<1> QED BY <1>3 DEF P

\* The cursors begin at the first characters and move by turns.
LEMMA CursorsMove ==
    ASSUME NEW T, NEW l \in Seq(T), NEW r \in Seq(T)
    PROVE  /\ Cursors(l, r)[0] = <<1, 1>>
           /\ \A n \in 0 .. Len(l) + Len(r) - 1 :
                 Cursors(l, r)[n + 1] = Turn(l, r, Cursors(l, r)[n])
<1>0. PICK N \in Nat : N = Len(l) + Len(r)
  OBVIOUS
<1> DEFINE F == CHOOSE f : Walks(f, l, r, N)
<1>1. Walks(F, l, r, N)
  <2>1. \E f : Walks(f, l, r, N)
    BY WalksExist
  <2> QED BY <2>1
<1>2. Cursors(l, r) = F
  BY <1>0 DEF Cursors, Walks
<1> HIDE DEF F
<1>3. \A i \in 0 .. N : F[i] = IF i = 0 THEN <<1, 1>> ELSE Turn(l, r, F[i - 1])
  BY <1>1 DEF Walks
<1>4. F[0] = <<1, 1>>
  BY <1>3
<1>5. ASSUME NEW n \in 0 .. N - 1 PROVE F[n + 1] = Turn(l, r, F[n])
  <2>1. PICK i \in 0 .. N : i = n + 1
    OBVIOUS
  <2>2. i # 0 /\ i - 1 = n
    BY <2>1
  <2>3. F[i] = Turn(l, r, F[n])
    BY <1>3, <2>2
  <2> QED BY <2>1, <2>3
<1> QED BY <1>0, <1>2, <1>4, <1>5

\* While the paths agree the cursors move side by side.
LEMMA SideBySide ==
    ASSUME NEW T, NEW l \in Seq(T), NEW r \in Seq(T), NEW m \in Nat,
           m <= Len(l), m <= Len(r), \A x \in 1 .. m : l[x] = r[x]
    PROVE  Cursors(l, r)[m] = <<m + 1, m + 1>>
<1> DEFINE P == {n \in Nat : n <= m => Cursors(l, r)[n] = <<n + 1, n + 1>>}
<1>1. 0 \in P
  BY CursorsMove
<1>2. ASSUME NEW n \in Nat, n \in P PROVE n + 1 \in P
  <2> SUFFICES ASSUME n + 1 <= m PROVE Cursors(l, r)[n + 1] = <<n + 2, n + 2>>
    OBVIOUS
  <2>1. Cursors(l, r)[n] = <<n + 1, n + 1>>
    BY <1>2
  <2>2. n \in 0 .. Len(l) + Len(r) - 1
    OBVIOUS
  <2>3. Cursors(l, r)[n + 1] = Turn(l, r, <<n + 1, n + 1>>)
    <3>1. Cursors(l, r)[n + 1] = Turn(l, r, Cursors(l, r)[n])
      BY <2>2, CursorsMove
    <3> QED BY <2>1, <3>1
  <2>4. ~(n + 1 > Len(l)) /\ ~(n + 1 > Len(r)) /\ l[n + 1] = r[n + 1]
    OBVIOUS
  <2>5. Turn(l, r, <<n + 1, n + 1>>) = <<n + 2, n + 2>>
    BY <2>4 DEF Turn
  <2> QED BY <2>3, <2>5
<1> HIDE DEF P
<1>3. Nat \subseteq P
  BY <1>1, <1>2, SetInduction
<1> QED BY <1>3 DEF P

\* A turn that does not move the cursors is the last one that matters.
LEMMA StaysThere ==
    ASSUME NEW T, NEW l \in Seq(T), NEW r \in Seq(T), NEW m \in 0 .. Len(l) + Len(r), NEW at,
           Cursors(l, r)[m] = at, Turn(l, r, at) = at
    PROVE  Cursors(l, r)[Len(l) + Len(r)] = at
<1>0. PICK N \in Nat : N = Len(l) + Len(r)
  OBVIOUS
<1> DEFINE P == {n \in Nat : n \in m .. N => Cursors(l, r)[n] = at}
<1>1. 0 \in P
  OBVIOUS
<1>2. ASSUME NEW n \in Nat, n \in P PROVE n + 1 \in P
  <2> SUFFICES ASSUME n + 1 \in m .. N PROVE Cursors(l, r)[n + 1] = at
    OBVIOUS
  <2>1. CASE n + 1 = m
    BY <2>1
  <2>2. CASE n + 1 # m
    <3>1. n \in m .. N /\ n \in 0 .. N - 1
      BY <2>2
    <3>2. Cursors(l, r)[n] = at
      BY <1>2, <3>1
    <3> QED BY <1>0, <3>1, <3>2, CursorsMove
  <2> QED BY <2>1, <2>2
<1> HIDE DEF P
<1>3. Nat \subseteq P
  BY <1>1, <1>2, SetInduction
<1>4. N \in m .. N
  BY <1>0
<1> QED BY <1>0, <1>3, <1>4 DEF P

\* The beginning of another path equals it.
LEMMA PrefixIsEqual ==
    ASSUME NEW T, NEW l \in Seq(T), NEW r \in Seq(T),
           Len(l) <= Len(r), \A x \in 1 .. Len(l) : l[x] = r[x]
    PROVE  compare(l, r)
<1>0. PICK m \in Nat : m = Len(l)
  OBVIOUS
<1> DEFINE at == <<m + 1, m + 1>>
<1>1. Cursors(l, r)[m] = at
  <2>1. m <= Len(l) /\ m <= Len(r) /\ \A x \in 1 .. m : l[x] = r[x]
    BY <1>0
  <2> QED BY <2>1, SideBySide
<1>2. Turn(l, r, at) = at
  BY <1>0 DEF Turn
<1>3. m \in 0 .. Len(l) + Len(r)
  BY <1>0
<1>4. at[1] = m + 1
  OBVIOUS
<1> HIDE DEF at
<1>5. Cursors(l, r)[Len(l) + Len(r)] = at
  BY <1>1, <1>2, <1>3, StaysThere
<1> QED BY <1>0, <1>4, <1>5 DEF compare

\* Two paths that first differ at characters that are no wildcards are not equal.
LEMMA FirstDifference ==
    ASSUME NEW T, NEW l \in Seq(T), NEW r \in Seq(T), NEW m \in Nat,
           m < Len(l), m < Len(r), \A x \in 1 .. m : l[x] = r[x],
           l[m + 1] # r[m + 1],
           l[m + 1] \notin {"?", "*"}, r[m + 1] \notin {"?", "*"}
    PROVE  ~compare(l, r)
<1> DEFINE at == <<m + 1, m + 1>>
<1>1. Cursors(l, r)[m] = at
  BY SideBySide
<1>2. Turn(l, r, at) = at
  BY DEF Turn
<1>3. m \in 0 .. Len(l) + Len(r)
  OBVIOUS
<1>4. at[1] = m + 1 /\ at[2] = m + 1
  OBVIOUS
<1> HIDE DEF at
<1>5. Cursors(l, r)[Len(l) + Len(r)] = at
  BY <1>1, <1>2, <1>3, StaysThere
<1> QED BY <1>4, <1>5 DEF compare

-----------------------------------------------------------------------------
(* Beginnings and parts of paths.                                          *)

\* The beginning of a path, character by character.
LEMMA PrefixIs ==
    ASSUME NEW T, NEW s \in Seq(T), NEW t \in Seq(T)
    PROVE  IsPrefix(s, t) <=> Len(s) <= Len(t) /\ \A x \in 1 .. Len(s) : s[x] = t[x]
<1>0. PICK n \in Nat, m \in Nat : n = Len(s) /\ m = Len(t)
  OBVIOUS
<1>1. CASE ~(n <= m)
  BY <1>0, <1>1 DEF IsPrefix
<1>2. CASE n <= m
  <2>1. \A x \in 1 .. n : SubSeq(s, 1, n)[x] = s[x] /\ SubSeq(t, 1, n)[x] = t[x]
    BY <1>0, <1>2
  <2>2. SubSeq(s, 1, n) \in Seq(T) /\ SubSeq(t, 1, n) \in Seq(T)
    BY <1>0, <1>2
  <2>3. Len(SubSeq(s, 1, n)) = n /\ Len(SubSeq(t, 1, n)) = n
    BY <1>0, <1>2
  <2>4. SubSeq(s, 1, n) = SubSeq(t, 1, n) <=> \A x \in 1 .. n : s[x] = t[x]
    BY <2>1, <2>2, <2>3, SeqEqual
  <2> QED BY <1>0, <1>2, <2>4 DEF IsPrefix
<1> QED BY <1>1, <1>2

\* What is between two cuts of a path.
LEMMA PartShape ==
    ASSUME NEW T, NEW p \in Seq(T), NEW a \in Nat, NEW c \in Nat, a < c, c <= Len(p) + 1
    PROVE  /\ SubSeq(p, a + 1, c - 1) \in Seq(T)
           /\ Len(SubSeq(p, a + 1, c - 1)) = c - 1 - a
           /\ \A x \in 1 .. c - 1 - a : SubSeq(p, a + 1, c - 1)[x] = p[a + x]
<1>0. PICK n \in Nat : n = Len(p)
  OBVIOUS
<1>1. \A i \in a + 1 .. c - 1 : p[i] \in T
  BY <1>0
<1>2. a + 1 \in Int /\ c - 1 \in Int /\ a + 1 <= c - 1 + 1
  OBVIOUS
<1> QED BY <1>0, <1>1, <1>2

\* Two paths none of which is the beginning of the other have a first difference.
LEMMA Differ ==
    ASSUME NEW T, NEW s \in Seq(T), NEW t \in Seq(T), ~IsPrefix(s, t), ~IsPrefix(t, s)
    PROVE  \E m \in Nat : /\ m < Len(s) /\ m < Len(t) /\ s[m + 1] # t[m + 1]
                          /\ \A x \in 1 .. m : s[x] = t[x]
<1>0. PICK n \in Nat, m \in Nat : n = Len(s) /\ m = Len(t)
  OBVIOUS
<1> DEFINE D == {x \in Nat : x \in 1 .. n /\ x \in 1 .. m /\ s[x] # t[x]}
<1>1. D # {}
  <2>1. ~(n <= m /\ \A x \in 1 .. n : s[x] = t[x])
    BY <1>0, PrefixIs
  <2>2. ~(m <= n /\ \A x \in 1 .. m : t[x] = s[x])
    BY <1>0, PrefixIs
  <2>3. CASE n <= m
    <3>1. PICK x \in 1 .. n : s[x] # t[x]
      BY <2>1, <2>3
    <3>2. x \in Nat /\ x \in 1 .. m
      BY <2>3
    <3> QED BY <3>1, <3>2
  <2>4. CASE m <= n
    <3>1. PICK x \in 1 .. m : s[x] # t[x]
      BY <2>2, <2>4
    <3>2. x \in Nat /\ x \in 1 .. n
      BY <2>4
    <3> QED BY <3>1, <3>2
  <2> QED BY <2>3, <2>4
<1>2. D \in SUBSET Nat
  OBVIOUS
<1>3. PICK x \in D : \A y \in D : x <= y
  <2> HIDE DEF D
  <2> QED BY <1>1, <1>2, LeastMember
<1>4. x \in Nat /\ x \in 1 .. n /\ x \in 1 .. m /\ s[x] # t[x]
  OBVIOUS
<1>5. \A y \in 1 .. x - 1 : s[y] = t[y]
  BY <1>3, <1>4
<1>6. PICK k \in Nat : k + 1 = x
  <2>1. x - 1 \in Nat /\ (x - 1) + 1 = x
    BY <1>4
  <2> QED BY <2>1
<1>7. k < Len(s) /\ k < Len(t) /\ s[k + 1] # t[k + 1]
  BY <1>0, <1>4, <1>6
<1>8. \A y \in 1 .. k : s[y] = t[y]
  BY <1>4, <1>5, <1>6
<1> QED BY <1>7, <1>8

\* Least is 0 when there is nothing.
LEMMA LeastOrZero ==
    ASSUME NEW S \in SUBSET Nat, 0 \notin S
    PROVE  /\ Least(S) \in Nat
           /\ Least(S) = 0 <=> S = {}
           /\ Least(S) # 0 => Least(S) \in S
           /\ \A k \in S : Least(S) <= k
<1>1. CASE S = {}
  BY <1>1 DEF Least
<1>2. CASE S # {}
  <2>1. Least(S) = Min(S)
    BY <1>2 DEF Least
  <2>2. Min(S) \in S /\ \A k \in S : Min(S) <= k
    BY <1>2, LeastMember
  <2>3. Min(S) \in Nat /\ Min(S) # 0
    BY <2>2
  <2> QED BY <1>2, <2>1, <2>2, <2>3
<1> QED BY <1>1, <1>2

\* Where the first "?" of a segment is.
LEMMA AnyIs ==
    ASSUME NEW T, NEW s \in Seq(T), NEW w \in 1 .. Len(s), s[w] = "?",
           \A x \in 1 .. w - 1 : s[x] # "?"
    PROVE  Least({i \in DOMAIN s : s[i] = "?"}) = w
<1> DEFINE S == {i \in DOMAIN s : s[i] = "?"}
<1>1. S \in SUBSET Nat /\ w \in S /\ 0 \notin S /\ \A k \in S : w <= k
  OBVIOUS
<1> HIDE DEF S
<1>2. Least(S) \in S /\ Least(S) <= w
  BY <1>1, LeastOrZero
<1> QED BY <1>1, <1>2 DEF S

\* The fixed part of a segment that has a "?".
LEMMA FixedIs ==
    ASSUME NEW T, NEW s \in Seq(T), NEW w \in 1 .. Len(s)
    PROVE  /\ SubSeq(s, 1, w - 1) \in Seq(T)
           /\ Len(SubSeq(s, 1, w - 1)) = w - 1
           /\ \A x \in 1 .. w - 1 : SubSeq(s, 1, w - 1)[x] = s[x]
OBVIOUS

-----------------------------------------------------------------------------
(* When two segments match: s of an endpoint, t of a request.              *)

\* s and t begin with the same d characters, none of them a "?".
SameTo(s, t, d) ==
    /\ d <= Len(s) /\ d <= Len(t)
    /\ \A x \in 1 .. d : s[x] = t[x] /\ s[x] # "?"

\* A segment without "?".
LEMMA NoAny ==
    ASSUME NEW T, NEW s \in Seq(T), \A x \in 1 .. Len(s) : s[x] # "?"
    PROVE  Least({i \in DOMAIN s : s[i] = "?"}) = 0
<1>1. {i \in DOMAIN s : s[i] = "?"} = {}
  OBVIOUS
<1> QED BY <1>1 DEF Least

\* The segments agree to the end of the request's, which is its last.
LEMMA RequestEnds ==
    ASSUME NEW T, NEW s \in Seq(T), NEW t \in Seq(T), SameTo(s, t, Len(t)),
           NEW lastP, NEW lastU, lastU
    PROVE  SegmentMatches(s, t, lastP, lastU)
<1> DEFINE S == {i \in DOMAIN s : s[i] = "?"}
           any == Least(S)
           fixed == IF any = 0 THEN s ELSE SubSeq(s, 1, any - 1)
<1>1. S \in SUBSET Nat /\ 0 \notin S /\ S \subseteq 1 .. Len(s)
  OBVIOUS
<1>2. any \in Nat /\ (any # 0 => any \in S)
  <2> HIDE DEF S
  <2> QED BY <1>1, LeastOrZero
<1>3. any # 0 => any \in 1 .. Len(s) /\ s[any] = "?"
  BY <1>2
<1> HIDE DEF any
<1>4. IsPrefix(t, fixed)
  <2>1. CASE any = 0
    <3>1. IsPrefix(t, s)
      BY PrefixIs DEF SameTo
    <3> QED BY <2>1, <3>1
  <2>2. CASE any # 0
    <3>0. PICK f : f = SubSeq(s, 1, any - 1)
      OBVIOUS
    <3>1. f \in Seq(T) /\ Len(f) = any - 1 /\ \A x \in 1 .. any - 1 : f[x] = s[x]
      BY <1>3, <2>2, <3>0, FixedIs
    <3>2. Len(t) < any
      BY <1>2, <1>3, <2>2 DEF SameTo
    <3>3. Len(t) <= Len(f) /\ \A x \in 1 .. Len(t) : t[x] = f[x]
      BY <1>2, <3>1, <3>2 DEF SameTo
    <3>4. IsPrefix(t, f)
      BY <3>1, <3>3, PrefixIs
    <3> QED BY <2>2, <3>0, <3>4
  <2> QED BY <2>1, <2>2
<1> QED BY <1>4 DEF SegmentMatches, any

\* They agree to the end of the endpoint's, and it ends there, or so does the request's.
LEMMA PatternEnds ==
    ASSUME NEW T, NEW s \in Seq(T), NEW t \in Seq(T), SameTo(s, t, Len(s)),
           NEW lastP, NEW lastU, lastP \/ Len(t) = Len(s)
    PROVE  SegmentMatches(s, t, lastP, lastU)
<1>1. Least({i \in DOMAIN s : s[i] = "?"}) = 0
  <2>1. \A x \in 1 .. Len(s) : s[x] # "?"
    BY DEF SameTo
  <2> QED BY <2>1, NoAny
<1>2. IsPrefix(s, t)
  BY PrefixIs DEF SameTo
<1> QED BY <1>1, <1>2 DEF SegmentMatches

\* They agree up to a "?" that stands for the rest of the request, or of the segment.
LEMMA AnyMatches ==
    ASSUME NEW T, NEW s \in Seq(T), NEW t \in Seq(T), NEW w \in 1 .. Len(s),
           s[w] = "?", SameTo(s, t, w - 1), NEW lastP, NEW lastU,
           lastU \/ \A x \in w .. Len(s) : s[x] = "?"
    PROVE  SegmentMatches(s, t, lastP, lastU)
<1>1. Least({i \in DOMAIN s : s[i] = "?"}) = w /\ w # 0
  BY AnyIs DEF SameTo
<1>2. IsPrefix(SubSeq(s, 1, w - 1), t)
  <2>0. PICK f : f = SubSeq(s, 1, w - 1)
    OBVIOUS
  <2>1. f \in Seq(T) /\ Len(f) = w - 1 /\ \A x \in 1 .. w - 1 : f[x] = s[x]
    BY <2>0, FixedIs
  <2>2. Len(f) <= Len(t) /\ \A x \in 1 .. Len(f) : f[x] = t[x]
    BY <2>1 DEF SameTo
  <2> QED BY <2>0, <2>1, <2>2, PrefixIs
<1> QED BY <1>1, <1>2 DEF SegmentMatches

\* The characters after d differ, or one of the segments ends there, and not its path.
LEMMA SegmentsDiffer ==
    ASSUME NEW T, NEW s \in Seq(T), NEW t \in Seq(T), NEW d \in Nat, SameTo(s, t, d),
           NEW lastP, NEW lastU,
           \/ d = Len(s) /\ d < Len(t) /\ ~lastP
           \/ d < Len(s) /\ s[d + 1] # "?" /\ d = Len(t) /\ ~lastU
           \/ d < Len(s) /\ s[d + 1] # "?" /\ d < Len(t) /\ s[d + 1] # t[d + 1]
    PROVE  ~SegmentMatches(s, t, lastP, lastU)
<1> DEFINE S == {i \in DOMAIN s : s[i] = "?"}
           any == Least(S)
           fixed == IF any = 0 THEN s ELSE SubSeq(s, 1, any - 1)
<1>1. S \in SUBSET Nat /\ 0 \notin S
  OBVIOUS
<1>2. any \in Nat /\ (any # 0 => any \in S)
  <2> HIDE DEF S
  <2> QED BY <1>1, LeastOrZero
<1>3. any # 0 => any \in 1 .. Len(s) /\ any > d + 1
  BY <1>2 DEF SameTo
<1> HIDE DEF any
<1>4. PICK f : f = fixed
  OBVIOUS
<1>5. /\ f \in Seq(T) /\ (any = 0 => f = s)
      /\ d <= Len(f) /\ (d < Len(s) => d < Len(f))
      /\ \A x \in 1 .. Len(f) : f[x] = s[x]
  <2>1. CASE any = 0
    BY <1>4, <2>1 DEF SameTo
  <2>2. CASE any # 0
    <3>1. f \in Seq(T) /\ Len(f) = any - 1 /\ \A x \in 1 .. any - 1 : f[x] = s[x]
      BY <1>3, <1>4, <2>2, FixedIs
    <3> QED BY <1>2, <1>3, <2>2, <3>1
  <2> QED BY <2>1, <2>2
<1>6. ~(lastU /\ IsPrefix(t, f))
  <2> SUFFICES ASSUME lastU, IsPrefix(t, f) PROVE FALSE
    OBVIOUS
  <2>1. Len(t) <= Len(f) /\ \A x \in 1 .. Len(t) : t[x] = f[x]
    BY <1>5, PrefixIs
  <2>2. CASE d = Len(s) /\ d < Len(t)
    <3>1. any = 0
      BY <1>2, <1>3, <2>2
    <3> QED BY <1>5, <2>1, <2>2, <3>1
  <2>3. CASE d < Len(s) /\ d < Len(t) /\ s[d + 1] # t[d + 1]
    BY <1>5, <2>1, <2>3
  <2> QED BY <2>2, <2>3
<1>7. ~(/\ IsPrefix(f, t)
        /\ \/ any = 0 /\ (Len(t) = Len(f) \/ lastP)
           \/ any # 0 /\ (lastU \/ \A i \in any..Len(s) : s[i] = "?"))
  <2> SUFFICES ASSUME IsPrefix(f, t),
                      any = 0 => (Len(t) = Len(f) \/ lastP)
               PROVE  FALSE
    OBVIOUS
  <2>1. Len(f) <= Len(t) /\ \A x \in 1 .. Len(f) : f[x] = t[x]
    BY <1>5, PrefixIs
  <2>2. CASE d = Len(s) /\ d < Len(t) /\ ~lastP
    <3>1. any = 0
      BY <1>2, <1>3, <2>2
    <3> QED BY <1>5, <2>1, <2>2, <3>1
  <2>3. CASE d < Len(s) /\ d = Len(t)
    BY <1>5, <2>1, <2>3
  <2>4. CASE d < Len(s) /\ d < Len(t) /\ s[d + 1] # t[d + 1]
    BY <1>5, <2>1, <2>4
  <2> QED BY <2>2, <2>3, <2>4
<1> QED BY <1>4, <1>6, <1>7 DEF SegmentMatches, any

\* Behind a "?" something else comes, and the request goes on behind its segment.
LEMMA AnyTooShort ==
    ASSUME NEW T, NEW s \in Seq(T), NEW t \in Seq(T), NEW w \in 1 .. Len(s),
           s[w] = "?", SameTo(s, t, w - 1), NEW lastP, NEW lastU, ~lastU,
           NEW y \in w .. Len(s), s[y] # "?"
    PROVE  ~SegmentMatches(s, t, lastP, lastU)
<1>1. Least({i \in DOMAIN s : s[i] = "?"}) = w /\ w # 0
  BY AnyIs DEF SameTo
<1>2. ~(\A i \in w .. Len(s) : s[i] = "?")
  OBVIOUS
<1> QED BY <1>1, <1>2 DEF SegmentMatches

-----------------------------------------------------------------------------
(* The cuts of a path.                                                     *)

\* A cut's number is that of the cuts before it.
Rank(p, c) == Cardinality({d \in Cuts(p) : d < c})

\* There are at least two cuts, and they are numbered in order, without gaps.
LEMMA CutsAreRanked ==
    ASSUME NEW T, NEW p \in Seq(T)
    PROVE  \E m \in Nat \ {0} :
              /\ Cardinality(Cuts(p)) = m + 1
              /\ \A c \in Cuts(p) : Rank(p, c) \in 0 .. m
              /\ \A c, d \in Cuts(p) : c < d => Rank(p, c) < Rank(p, d)
              /\ \A k \in 0 .. m : \E c \in Cuts(p) : Rank(p, c) = k
              /\ Rank(p, 0) = 0 /\ Rank(p, Len(p) + 1) = m
<1>0. PICK n \in Nat : n = Len(p)
  OBVIOUS
<1> DEFINE C == Cuts(p)
<1>1. C \subseteq 0 .. n + 1 /\ 0 \in C /\ n + 1 \in C /\ \A c \in C : c \in Nat /\ c <= n + 1
  BY <1>0 DEF Cuts
<1> HIDE DEF C
<1>2. IsFiniteSet(C)
  <2>1. IsFiniteSet(0 .. n + 1)
    BY FS_Interval
  <2> QED BY <1>1, <2>1, FS_Subset
<1>3. ASSUME NEW c PROVE IsFiniteSet({d \in C : d < c}) /\ Cardinality({d \in C : d < c}) \in Nat
  <2>1. {d \in C : d < c} \in SUBSET C
    OBVIOUS
  <2>2. IsFiniteSet({d \in C : d < c})
    BY <1>2, <2>1, FS_Subset
  <2> QED BY <2>2, FS_CardinalityType
<1>4. ASSUME NEW c \in C, NEW d \in C, c < d PROVE Rank(p, c) < Rank(p, d)
  <2> DEFINE A == {x \in C : x < c}
             B == {x \in C : x < d}
  <2>1. A \cup {c} \in SUBSET B /\ c \notin A
    <3>1. c \in Nat /\ d \in Nat /\ ~(c < c)
      BY <1>1
    <3>2. \A x \in C : x < c => x < d
      BY <1>1, <1>4, <3>1
    <3> QED BY <1>4, <3>1, <3>2
  <2>2. /\ IsFiniteSet(A) /\ IsFiniteSet(B)
        /\ Cardinality(A) \in Nat /\ Cardinality(B) \in Nat
    BY <1>3
  <2>3. Rank(p, c) = Cardinality(A) /\ Rank(p, d) = Cardinality(B)
    BY DEF Rank, C
  <2> HIDE DEF A, B
  <2>4. Cardinality(A \cup {c}) = Cardinality(A) + 1
    BY <2>1, <2>2, FS_AddElement
  <2>5. Cardinality(A \cup {c}) <= Cardinality(B)
    BY <2>1, <2>2, FS_Subset
  <2> QED BY <2>2, <2>3, <2>4, <2>5
<1>5. Rank(p, 0) = 0
  <2>1. {d \in C : d < 0} = {}
    <3>1. \A d \in C : ~(d < 0)
      BY <1>1
    <3> QED BY <3>1
  <2> QED BY <2>1, FS_EmptySet DEF Rank, C
<1>6. Cardinality(C) \in Nat
  BY <1>2, FS_CardinalityType
<1>7. Rank(p, n + 1) = Cardinality(C) - 1
  <2>1. {d \in C : d < n + 1} = C \ {n + 1}
    <3>1. \A d \in C : d < n + 1 <=> d # n + 1
      BY <1>1
    <3> QED BY <3>1
  <2>2. Cardinality(C \ {n + 1}) = Cardinality(C) - 1
    BY <1>1, <1>2, FS_RemoveElement
  <2> QED BY <2>1, <2>2 DEF Rank, C
<1>8. \A c \in C : Rank(p, c) \in Nat
  BY <1>3 DEF Rank, C
<1>9. PICK m \in Nat \ {0} : m = Cardinality(C) - 1
  <2>1. Rank(p, 0) < Rank(p, n + 1)
    <3>1. 0 < n + 1
      OBVIOUS
    <3> QED BY <1>1, <1>4, <3>1
  <2> QED BY <1>1, <1>5, <1>6, <1>7, <1>8, <2>1
<1>10. ASSUME NEW c \in C PROVE Rank(p, c) \in 0 .. m
  <2>1. CASE c = n + 1
    BY <1>7, <1>9, <2>1
  <2>2. CASE c # n + 1
    <3>1. c < n + 1
      BY <1>1, <2>2
    <3>2. Rank(p, c) < Rank(p, n + 1)
      BY <1>1, <1>4, <3>1
    <3> QED BY <1>1, <1>7, <1>8, <1>9, <3>2
  <2> QED BY <2>1, <2>2
<1>11. ASSUME NEW k \in 0 .. m PROVE \E c \in C : Rank(p, c) = k
  <2> DEFINE R == [c \in C |-> Rank(p, c)]
             I == 0 .. m
  <2>1. R \in Injection(C, I)
    <3>1. R \in [C -> I]
      BY <1>10
    <3>2. \A a, b \in C : R[a] = R[b] => a = b
      <4> SUFFICES ASSUME NEW a \in C, NEW b \in C, Rank(p, a) = Rank(p, b) PROVE a = b
        OBVIOUS
      <4>1. a \in Nat /\ b \in Nat /\ Rank(p, a) \in Nat
        BY <1>1, <1>8
      <4>2. ~(a < b) /\ ~(b < a)
        BY <1>4, <1>8
      <4> QED BY <4>1, <4>2
    <3> QED BY <3>1, <3>2, Zenon DEF Injection, IsInjective
  <2>2. IsFiniteSet(I) /\ Cardinality(I) = m + 1
    BY FS_Interval
  <2>3. Cardinality(C) = m + 1
    BY <1>6, <1>9
  <2>4. k \in I
    OBVIOUS
  <2> HIDE DEF I
  <2>5. R \in Surjection(C, I)
    <3> HIDE DEF R
    <3> QED BY <2>1, <2>2, <2>3, FS_Injection
  <2>6. PICK c \in C : R[c] = k
    BY <2>4, <2>5, Zenon DEF Surjection
  <2> QED BY <2>6
<1>12. Cardinality(C) = m + 1
  BY <1>6, <1>9
<1>13. Rank(p, Len(p) + 1) = m
  BY <1>0, <1>7, <1>9
<1> QED BY <1>4, <1>5, <1>10, <1>11, <1>12, <1>13 DEF C

\* The cuts are around the segments: the first is before the path, the last behind
\* it, the others at its slashes, in order, and between two of them there is none.
LEMMA CutsAre ==
    ASSUME NEW T, NEW p \in Seq(T)
    PROVE  \E m \in Nat \ {0} :
              /\ Cardinality(Cuts(p)) = m + 1
              /\ Cut(p, 0) = 0 /\ Cut(p, m) = Len(p) + 1
              /\ \A k \in 0 .. m : Cut(p, k) \in Nat /\ Cut(p, k) <= Len(p) + 1
              /\ \A k \in 1 .. m : Cut(p, k - 1) < Cut(p, k)
              /\ \A k \in 1 .. m - 1 : Cut(p, k) <= Len(p) /\ p[Cut(p, k)] = "/"
              /\ \A k \in 1 .. m : \A x \in 1 .. Len(p) :
                    Cut(p, k - 1) < x /\ x < Cut(p, k) => p[x] # "/"
<1>0. PICK n \in Nat : n = Len(p)
  OBVIOUS
<1> DEFINE C == Cuts(p)
<1>1. C \subseteq 0 .. n + 1 /\ 0 \in C /\ n + 1 \in C /\ \A c \in C : c \in Nat /\ c <= n + 1
  BY <1>0 DEF Cuts
<1>2. /\ \A x \in 1 .. n : p[x] = "/" => x \in C
      /\ \A c \in C : c # 0 /\ c # n + 1 => c <= n /\ p[c] = "/"
  BY <1>0 DEF Cuts
<1> HIDE DEF C
<1>3. PICK m \in Nat \ {0} :
              /\ Cardinality(C) = m + 1
              /\ \A c \in C : Rank(p, c) \in 0 .. m
              /\ \A c, d \in C : c < d => Rank(p, c) < Rank(p, d)
              /\ \A k \in 0 .. m : \E c \in C : Rank(p, c) = k
              /\ Rank(p, 0) = 0 /\ Rank(p, n + 1) = m
  BY <1>0, CutsAreRanked DEF C
<1>4. ASSUME NEW k \in 0 .. m PROVE Cut(p, k) \in C /\ Rank(p, Cut(p, k)) = k
  <2>1. \E c \in C : Rank(p, c) = k
    BY <1>3
  <2>2. Cut(p, k) = CHOOSE c \in C : Rank(p, c) = k
    BY DEF Cut, Rank, C
  <2> QED BY <2>1, <2>2
<1>5. \A c, d \in C : Rank(p, c) < Rank(p, d) => c < d
  <2> SUFFICES ASSUME NEW c \in C, NEW d \in C, ~(c < d), Rank(p, c) < Rank(p, d) PROVE FALSE
    OBVIOUS
  <2>1. Rank(p, c) \in Nat /\ Rank(p, d) \in Nat
    BY <1>3
  <2>2. d < c \/ c = d
    BY <1>1
  <2> QED BY <1>3, <2>1, <2>2
<1>6. \A c, d \in C : Rank(p, c) = Rank(p, d) => c = d
  <2> SUFFICES ASSUME NEW c \in C, NEW d \in C, Rank(p, c) = Rank(p, d), c # d PROVE FALSE
    OBVIOUS
  <2>1. Rank(p, c) \in Nat /\ Rank(p, d) \in Nat
    BY <1>3
  <2>2. d < c \/ c < d
    BY <1>1
  <2> QED BY <1>3, <2>1, <2>2
<1>7. Cut(p, 0) = 0 /\ Cut(p, m) = n + 1
  <2>1. 0 \in 0 .. m /\ m \in 0 .. m
    OBVIOUS
  <2>2. Cut(p, 0) \in C /\ Rank(p, Cut(p, 0)) = 0
    BY <1>4, <2>1
  <2>3. Cut(p, m) \in C /\ Rank(p, Cut(p, m)) = m
    BY <1>4, <2>1
  <2>4. 0 \in C /\ n + 1 \in C /\ Rank(p, 0) = 0 /\ Rank(p, n + 1) = m
    BY <1>1, <1>3
  <2> QED BY <1>6, <2>2, <2>3, <2>4
<1>8. \A k \in 0 .. m : Cut(p, k) \in Nat /\ Cut(p, k) <= n + 1
  BY <1>1, <1>4
<1>9. ASSUME NEW k \in 1 .. m PROVE Cut(p, k - 1) < Cut(p, k)
  <2>1. k \in 0 .. m /\ k - 1 \in 0 .. m /\ k - 1 < k
    OBVIOUS
  <2>2. Cut(p, k) \in C /\ Rank(p, Cut(p, k)) = k
    BY <1>4, <2>1
  <2>3. Cut(p, k - 1) \in C /\ Rank(p, Cut(p, k - 1)) = k - 1
    BY <1>4, <2>1
  <2> QED BY <1>5, <2>1, <2>2, <2>3
<1>10. ASSUME NEW k \in 1 .. m - 1 PROVE Cut(p, k) <= n /\ p[Cut(p, k)] = "/"
  <2>1. k \in 0 .. m /\ k # 0 /\ k # m
    OBVIOUS
  <2>2. Cut(p, k) \in C /\ Rank(p, Cut(p, k)) = k
    BY <1>4, <2>1
  <2>3. Cut(p, k) # 0 /\ Cut(p, k) # n + 1
    BY <1>3, <2>1, <2>2
  <2> QED BY <1>2, <2>2, <2>3
<1>11. ASSUME NEW k \in 1 .. m, NEW x \in 1 .. n, Cut(p, k - 1) < x, x < Cut(p, k)
       PROVE  p[x] # "/"
  <2> SUFFICES ASSUME x \in C PROVE FALSE
    BY <1>2
  <2>1. k \in 0 .. m /\ k - 1 \in 0 .. m
    OBVIOUS
  <2>2. Cut(p, k) \in C /\ Rank(p, Cut(p, k)) = k
    BY <1>4, <2>1
  <2>3. Cut(p, k - 1) \in C /\ Rank(p, Cut(p, k - 1)) = k - 1
    BY <1>4, <2>1
  <2>4. k - 1 < Rank(p, x) /\ Rank(p, x) < k
    <3>1. Rank(p, Cut(p, k - 1)) < Rank(p, x)
      BY <1>3, <1>11, <2>3
    <3>2. Rank(p, x) < Rank(p, Cut(p, k))
      BY <1>3, <1>11, <2>2
    <3> QED BY <2>2, <2>3, <3>1, <3>2
  <2>5. Rank(p, x) \in Nat
    BY <1>3
  <2> QED BY <2>4, <2>5
<1> QED BY <1>0, <1>3, <1>7, <1>8, <1>9, <1>10, <1>11 DEF C

-----------------------------------------------------------------------------
(* One turn of the loop, within a segment of the endpoint p and one of the *)
(* request u.                                                              *)

\* a and c are the cuts around a segment.
Around(p, a, c) ==
    /\ a < c /\ c <= Len(p) + 1
    /\ c <= Len(p) => p[c] = "/"
    /\ \A x \in a + 1 .. c - 1 : p[x] # "/"

\* The d characters behind a and b are the same, and none is a "?".
SameBehind(p, u, a, b, d) == \A x \in 1 .. d : p[a + x] = u[b + x] /\ p[a + x] # "?"

\* The cursors are as far from the cuts, and have met no "?".
Level(p, u, a, b, i, j) == i - a = j - b /\ SameBehind(p, u, a, b, i - a - 1)

\* The first cursor has met its first "?" at w and waits for the second to get to
\* the end of its segment, or has gone on over more "?" since the second is there.
AtAny(p, u, a, b, c, e, i, j, w) ==
    /\ a < w /\ w <= i /\ w < c /\ p[w] = "?" /\ w - a <= j - b
    /\ SameBehind(p, u, a, b, w - a - 1)
    /\ \A y \in w .. i - 1 : p[y] = "?"
    /\ w < i => j = e /\ e <= Len(u)

\* Where the cursors are in their segments.
InSegment(p, u, a, b, c, e, i, j) ==
    /\ a < i /\ i <= c /\ b < j /\ j <= e
    /\ \/ Level(p, u, a, b, i, j)
       \/ \E w \in Nat : AtAny(p, u, a, b, c, e, i, j, w)

\* The order of two cuts.
LEMMA CutOrder ==
    ASSUME NEW p, NEW a, NEW c, Around(p, a, c)
    PROVE  a < c /\ c <= Len(p) + 1
BY DEF Around

\* A turn takes the cursors from i and j to x and y.
TurnsTo(l, r, i, j, x, y) == Turn(l, r, <<i, j>>) = <<x, y>>

\* What a turn does inside both paths, unless the second one has a "?".
LEMMA TurnInside ==
    ASSUME NEW l, NEW r, NEW i, NEW j, ~(i > Len(l)), ~(j > Len(r)), r[j] # "?"
    PROVE  /\ l[i] = r[j] => TurnsTo(l, r, i, j, i + 1, j + 1)
           /\ l[i] = "?" /\ r[j] # "/" => TurnsTo(l, r, i, j, i, j + 1)
           /\ l[i] = "?" /\ r[j] = "/" => TurnsTo(l, r, i, j, i + 1, j)
           /\ l[i] # r[j] /\ l[i] # "?" => TurnsTo(l, r, i, j, i, j)
BY DEF Turn, TurnsTo

\* s is what is between the cuts a and c of p.
Between(T, s, p, a, c) ==
    /\ s \in Seq(T)
    /\ Len(s) = c - 1 - a
    /\ \A x \in 1 .. c - 1 - a : s[x] = p[a + x]

\* A segment is what is between its cuts.
LEMMA SegmentShape ==
    ASSUME NEW T, NEW p \in Seq(T), NEW a \in Nat, NEW c \in Nat, Around(p, a, c)
    PROVE  Between(T, SubSeq(p, a + 1, c - 1), p, a, c)
<1>1. a < c /\ c <= Len(p) + 1
  BY CutOrder
<1> QED BY <1>1, PartShape, Zenon DEF Between

\* Characters that are the same in the paths are the same in the segments.
LEMMA SameInSegments ==
    ASSUME NEW T, NEW p \in Seq(T), NEW u \in Seq(T),
           NEW a \in Nat, NEW b \in Nat, NEW c \in Nat, NEW e \in Nat,
           Around(p, a, c), Around(u, b, e),
           NEW d \in Nat, d <= c - 1 - a, d <= e - 1 - b, SameBehind(p, u, a, b, d)
    PROVE  SameTo(SubSeq(p, a + 1, c - 1), SubSeq(u, b + 1, e - 1), d)
<1>0. PICK s, t : s = SubSeq(p, a + 1, c - 1) /\ t = SubSeq(u, b + 1, e - 1)
  OBVIOUS
<1>1. s \in Seq(T) /\ Len(s) = c - 1 - a /\ \A x \in 1 .. c - 1 - a : s[x] = p[a + x]
  <2>1. Between(T, s, p, a, c)
    BY <1>0, SegmentShape, Zenon
  <2> QED BY <2>1 DEF Between
<1>2. t \in Seq(T) /\ Len(t) = e - 1 - b /\ \A x \in 1 .. e - 1 - b : t[x] = u[b + x]
  <2>1. Between(T, t, u, b, e)
    BY <1>0, SegmentShape, Zenon
  <2> QED BY <2>1 DEF Between
<1>3. \A x \in 1 .. d : x \in 1 .. c - 1 - a /\ x \in 1 .. e - 1 - b
  OBVIOUS
<1>4. SameTo(s, t, d)
  BY <1>1, <1>2, <1>3 DEF SameTo, SameBehind
<1> QED BY <1>0, <1>4

\* At the end of one of the paths the segments match.
LEMMA EndMatches ==
    ASSUME NEW T, NEW p \in Seq(T), NEW u \in Seq(T),
           NEW a \in Nat, NEW b \in Nat, NEW c \in Nat, NEW e \in Nat,
           Around(p, a, c), Around(u, b, e), NEW i \in Nat, NEW j \in Nat,
           InSegment(p, u, a, b, c, e, i, j), i > Len(p) \/ j > Len(u),
           NEW lastP, NEW lastU, lastP <=> c = Len(p) + 1, lastU <=> e = Len(u) + 1
    PROVE  SegmentMatches(SubSeq(p, a + 1, c - 1), SubSeq(u, b + 1, e - 1), lastP, lastU)
<1>0. PICK s, t : s = SubSeq(p, a + 1, c - 1) /\ t = SubSeq(u, b + 1, e - 1)
  OBVIOUS
<1>1. s \in Seq(T) /\ Len(s) = c - 1 - a /\ \A x \in 1 .. c - 1 - a : s[x] = p[a + x]
  <2>1. Between(T, s, p, a, c)
    BY <1>0, SegmentShape, Zenon
  <2> QED BY <2>1 DEF Between
<1>2. t \in Seq(T) /\ Len(t) = e - 1 - b /\ \A x \in 1 .. e - 1 - b : t[x] = u[b + x]
  <2>1. Between(T, t, u, b, e)
    BY <1>0, SegmentShape, Zenon
  <2> QED BY <2>1 DEF Between
<1>3. a < i /\ i <= c /\ b < j /\ j <= e /\ c <= Len(p) + 1 /\ e <= Len(u) + 1
  BY DEF InSegment, Around
<1>4. \/ i = c /\ lastP
      \/ j = e /\ lastU
  BY <1>3
<1>5. CASE Level(p, u, a, b, i, j)
  <2>1. PICK d \in Nat : d = i - a - 1 /\ d = j - b - 1
    <3>1. i - a - 1 \in Nat /\ i - a - 1 = j - b - 1
      BY <1>3, <1>5 DEF Level
    <3> QED BY <3>1
  <2>2. SameTo(s, t, d)
    <3>1. d <= c - 1 - a /\ d <= e - 1 - b
      BY <1>3, <2>1
    <3>2. SameBehind(p, u, a, b, d)
      BY <1>5, <2>1 DEF Level
    <3> QED BY <1>0, <3>1, <3>2, SameInSegments
  <2>3. CASE i = c /\ lastP
    <3>1. d = Len(s)
      <4>1. i - a - 1 = c - 1 - a
        BY <2>3
      <4> QED BY <1>1, <2>1, <4>1
    <3> QED BY <1>0, <1>1, <1>2, <2>2, <2>3, <3>1, PatternEnds
  <2>4. CASE j = e /\ lastU
    <3>1. d = Len(t)
      <4>1. j - b - 1 = e - 1 - b
        BY <2>4
      <4> QED BY <1>2, <2>1, <4>1
    <3> QED BY <1>0, <1>1, <1>2, <2>2, <2>4, <3>1, RequestEnds
  <2> QED BY <1>4, <2>3, <2>4
<1>6. ASSUME NEW v \in Nat, AtAny(p, u, a, b, c, e, i, j, v)
      PROVE  SegmentMatches(s, t, lastP, lastU)
  <2>1. PICK w \in 1 .. Len(s) : v = a + w
    <3>1. v - a \in 1 .. Len(s) /\ v = a + (v - a)
      BY <1>1, <1>6 DEF AtAny
    <3> QED BY <3>1
  <2>2. s[w] = "?"
    BY <1>1, <1>6, <2>1 DEF AtAny
  <2>3. SameTo(s, t, w - 1)
    <3>1. w - 1 \in Nat /\ w - 1 <= c - 1 - a /\ w - 1 <= e - 1 - b /\ w - 1 = v - a - 1
      BY <1>1, <1>3, <1>6, <2>1 DEF AtAny
    <3>2. SameBehind(p, u, a, b, w - 1)
      BY <1>6, <3>1 DEF AtAny
    <3> QED BY <1>0, <3>1, <3>2, SameInSegments
  <2>4. i = c => \A x \in w .. Len(s) : s[x] = "?"
    <3> SUFFICES ASSUME i = c, NEW x \in w .. Len(s) PROVE s[x] = "?"
      OBVIOUS
    <3>0. w \in Nat /\ 1 <= w /\ x \in Nat /\ w <= x /\ x <= c - 1 - a
      <4>1. Len(s) = c - 1 - a
        BY <1>1
      <4> QED BY <4>1
    <3>1. a + x \in v .. i - 1 /\ x \in 1 .. c - 1 - a
      BY <2>1, <3>0
    <3> QED BY <1>1, <1>6, <3>1 DEF AtAny
  <2> QED BY <1>1, <1>2, <1>4, <2>2, <2>3, <2>4, AnyMatches
<1> QED BY <1>0, <1>5, <1>6 DEF InSegment

\* What a turn can do in the middle of two segments: fail, and then they do not match;
\* go on behind both of them, and then they do; or go on within them.
TurnInSegment(p, u, a, b, c, e, i, j, lastP, lastU) ==
    \/ /\ Turn(p, u, <<i, j>>) = <<i, j>>
       /\ p[i] # u[j] /\ p[i] # "?"
       /\ ~SegmentMatches(SubSeq(p, a + 1, c - 1), SubSeq(u, b + 1, e - 1), lastP, lastU)
    \/ /\ Turn(p, u, <<i, j>>) = <<i + 1, j + 1>>
       /\ i = c /\ j = e
       /\ SegmentMatches(SubSeq(p, a + 1, c - 1), SubSeq(u, b + 1, e - 1), lastP, lastU)
    \/ \E di, dj \in 0 .. 1 :
          /\ di + dj > 0
          /\ Turn(p, u, <<i, j>>) = <<i + di, j + dj>>
          /\ InSegment(p, u, a, b, c, e, i + di, j + dj)

\* A turn before the first "?" of the segment.
LEMMA LevelTurn ==
    ASSUME NEW T, NEW p \in Seq(T), NEW u \in Seq(T), Literal(u),
           NEW a \in Nat, NEW b \in Nat, NEW c \in Nat, NEW e \in Nat,
           Around(p, a, c), Around(u, b, e),
           NEW i \in 1 .. Len(p), NEW j \in 1 .. Len(u),
           a < i, i <= c, b < j, j <= e, Level(p, u, a, b, i, j),
           NEW lastP, NEW lastU, lastP <=> c = Len(p) + 1, lastU <=> e = Len(u) + 1
    PROVE  TurnInSegment(p, u, a, b, c, e, i, j, lastP, lastU)
<1>0. PICK s, t : s = SubSeq(p, a + 1, c - 1) /\ t = SubSeq(u, b + 1, e - 1)
  OBVIOUS
<1>1. s \in Seq(T) /\ Len(s) = c - 1 - a /\ \A x \in 1 .. c - 1 - a : s[x] = p[a + x]
  <2>1. Between(T, s, p, a, c)
    BY <1>0, SegmentShape, Zenon
  <2> QED BY <2>1 DEF Between
<1>2. t \in Seq(T) /\ Len(t) = e - 1 - b /\ \A x \in 1 .. e - 1 - b : t[x] = u[b + x]
  <2>1. Between(T, t, u, b, e)
    BY <1>0, SegmentShape, Zenon
  <2> QED BY <2>1 DEF Between
<1>3. PICK d \in Nat : d = i - a - 1 /\ d = j - b - 1
  <2>1. i - a - 1 \in Nat /\ i - a - 1 = j - b - 1
    BY DEF Level
  <2> QED BY <2>1
<1>4. SameBehind(p, u, a, b, d) /\ i = a + d + 1 /\ j = b + d + 1
  BY <1>3 DEF Level
<1>5. SameTo(s, t, d)
  <2>1. d <= c - 1 - a /\ d <= e - 1 - b
    BY <1>3
  <2> QED BY <1>0, <1>4, <2>1, SameInSegments
<1>6. (p[i] = "/" <=> i = c) /\ (u[j] = "/" <=> j = e)
  BY DEF Around
<1>7. u[j] # "?" /\ i <= Len(p) /\ j <= Len(u) /\ ~(i > Len(p)) /\ ~(j > Len(u))
  BY DEF Literal
<1>8. CASE p[i] = u[j]
  <2>1. Turn(p, u, <<i, j>>) = <<i + 1, j + 1>>
    <3>1. TurnsTo(p, u, i, j, i + 1, j + 1)
      BY <1>7, <1>8, TurnInside, Zenon
    <3> QED BY <3>1 DEF TurnsTo
  <2>2. CASE p[i] = "/"
    <3>1. i = c /\ j = e
      BY <1>6, <1>8, <2>2
    <3>2. d = Len(s) /\ Len(t) = Len(s)
      BY <1>1, <1>2, <1>3, <3>1
    <3>3. SegmentMatches(s, t, lastP, lastU)
      BY <1>1, <1>2, <1>5, <3>2, PatternEnds
    <3> QED BY <1>0, <2>1, <3>1, <3>3 DEF TurnInSegment
  <2>3. CASE p[i] # "/"
    <3>1. i + 1 <= c /\ j + 1 <= e
      BY <1>6, <1>8, <2>3
    <3>2. SameBehind(p, u, a, b, d + 1)
      <4> SUFFICES ASSUME NEW x \in 1 .. d + 1 PROVE p[a + x] = u[b + x] /\ p[a + x] # "?"
        BY DEF SameBehind
      <4>1. CASE x = d + 1
        <5>1. a + x = i /\ b + x = j
          BY <1>4, <4>1
        <5> QED BY <1>7, <1>8, <5>1
      <4>2. CASE x # d + 1
        <5>1. x \in 1 .. d
          BY <4>2
        <5> QED BY <1>4, <5>1 DEF SameBehind
      <4> QED BY <4>1, <4>2
    <3>3. Level(p, u, a, b, i + 1, j + 1)
      <4>1. (i + 1) - a = (j + 1) - b /\ (i + 1) - a - 1 = d + 1
        BY <1>3
      <4> QED BY <3>2, <4>1 DEF Level
    <3>4. InSegment(p, u, a, b, c, e, i + 1, j + 1)
      BY <3>1, <3>3 DEF InSegment
    <3>5. 1 \in 0 .. 1 /\ 1 + 1 > 0
      OBVIOUS
    <3> QED BY <2>1, <3>4, <3>5 DEF TurnInSegment
  <2> QED BY <2>2, <2>3
<1>9. CASE p[i] # u[j] /\ p[i] = "?"
  <2>1. i < c
    BY <1>6, <1>9
  <2>2. ASSUME NEW di \in 0 .. 1, NEW dj \in 0 .. 1, j + dj <= e, di = 1 => dj = 0 /\ j = e
        PROVE  InSegment(p, u, a, b, c, e, i + di, j + dj)
    <3>1. a < i + di /\ i + di <= c /\ b < j + dj
      BY <2>1, <2>2
    <3>2. i <= i + di /\ i - a <= (j + dj) - b /\ d = i - a - 1
      BY <1>3, <2>2
    <3>3. \A y \in i .. (i + di) - 1 : p[y] = "?"
      BY <1>9
    <3>4. i < i + di => j + dj = e /\ e <= Len(u)
      BY <1>7, <2>2
    <3>5. AtAny(p, u, a, b, c, e, i + di, j + dj, i)
      BY <1>4, <1>9, <2>1, <3>2, <3>3, <3>4 DEF AtAny
    <3> QED BY <2>2, <3>1, <3>5 DEF InSegment
  <2>3. CASE u[j] # "/"
    <3>1. Turn(p, u, <<i, j>>) = <<i + 0, j + 1>>
      <4>1. TurnsTo(p, u, i, j, i, j + 1)
        BY <1>7, <1>9, <2>3, TurnInside, Zenon
      <4>2. i + 0 = i
        OBVIOUS
      <4> QED BY <4>1, <4>2 DEF TurnsTo
    <3>2. j + 1 <= e /\ 0 \in 0 .. 1 /\ 1 \in 0 .. 1 /\ 0 + 1 > 0 /\ 0 # 1
      BY <1>6, <2>3
    <3>3. InSegment(p, u, a, b, c, e, i + 0, j + 1)
      BY <2>2, <3>2
    <3> QED BY <3>1, <3>2, <3>3 DEF TurnInSegment
  <2>4. CASE u[j] = "/"
    <3>1. Turn(p, u, <<i, j>>) = <<i + 1, j + 0>>
      <4>1. TurnsTo(p, u, i, j, i + 1, j)
        BY <1>7, <1>9, <2>4, TurnInside, Zenon
      <4>2. j + 0 = j
        OBVIOUS
      <4> QED BY <4>1, <4>2 DEF TurnsTo
    <3>2. j + 0 <= e /\ j = e /\ 0 \in 0 .. 1 /\ 1 \in 0 .. 1 /\ 1 + 0 > 0
      BY <1>6, <2>4
    <3>3. InSegment(p, u, a, b, c, e, i + 1, j + 0)
      BY <2>2, <3>2
    <3> QED BY <3>1, <3>2, <3>3 DEF TurnInSegment
  <2> QED BY <2>3, <2>4
<1>10. CASE p[i] # u[j] /\ p[i] # "?"
  <2>1. Turn(p, u, <<i, j>>) = <<i, j>>
    <3>1. TurnsTo(p, u, i, j, i, j)
      BY <1>7, <1>10, TurnInside, Zenon
    <3> QED BY <3>1 DEF TurnsTo
  <2>2. \/ d = Len(s) /\ d < Len(t) /\ ~lastP
        \/ d < Len(s) /\ s[d + 1] # "?" /\ d = Len(t) /\ ~lastU
        \/ d < Len(s) /\ s[d + 1] # "?" /\ d < Len(t) /\ s[d + 1] # t[d + 1]
    <3>1. i # c => d < Len(s) /\ s[d + 1] = p[i]
      BY <1>1, <1>3, <1>4
    <3>2. j # e => d < Len(t) /\ t[d + 1] = u[j]
      BY <1>2, <1>3, <1>4
    <3>3. i = c => d = Len(s) /\ ~lastP
      BY <1>1, <1>3, <1>7
    <3>4. j = e => d = Len(t) /\ ~lastU
      BY <1>2, <1>3, <1>7
    <3>5. ~(i = c /\ j = e)
      BY <1>6, <1>10
    <3> QED BY <1>10, <3>1, <3>2, <3>3, <3>4, <3>5
  <2>3. ~SegmentMatches(s, t, lastP, lastU)
    BY <1>1, <1>2, <1>5, <2>2, SegmentsDiffer
  <2> QED BY <1>0, <1>10, <2>1, <2>3 DEF TurnInSegment
<1> QED BY <1>8, <1>9, <1>10

\* A turn at a "?" or behind it.
LEMMA AnyTurn ==
    ASSUME NEW T, NEW p \in Seq(T), NEW u \in Seq(T), Literal(u),
           NEW a \in Nat, NEW b \in Nat, NEW c \in Nat, NEW e \in Nat,
           Around(p, a, c), Around(u, b, e),
           NEW i \in 1 .. Len(p), NEW j \in 1 .. Len(u),
           a < i, i <= c, b < j, j <= e,
           NEW v \in Nat, AtAny(p, u, a, b, c, e, i, j, v),
           NEW lastP, NEW lastU, lastP <=> c = Len(p) + 1, lastU <=> e = Len(u) + 1
    PROVE  TurnInSegment(p, u, a, b, c, e, i, j, lastP, lastU)
<1>0. PICK s, t : s = SubSeq(p, a + 1, c - 1) /\ t = SubSeq(u, b + 1, e - 1)
  OBVIOUS
<1>1. s \in Seq(T) /\ Len(s) = c - 1 - a /\ \A x \in 1 .. c - 1 - a : s[x] = p[a + x]
  <2>1. Between(T, s, p, a, c)
    BY <1>0, SegmentShape, Zenon
  <2> QED BY <2>1 DEF Between
<1>2. t \in Seq(T) /\ Len(t) = e - 1 - b /\ \A x \in 1 .. e - 1 - b : t[x] = u[b + x]
  <2>1. Between(T, t, u, b, e)
    BY <1>0, SegmentShape, Zenon
  <2> QED BY <2>1 DEF Between
<1>3. PICK w \in 1 .. Len(s) : v = a + w
  <2>1. v - a \in 1 .. Len(s) /\ v = a + (v - a)
    BY <1>1 DEF AtAny
  <2> QED BY <2>1
<1>4. s[w] = "?"
  BY <1>1, <1>3 DEF AtAny
<1>5. SameTo(s, t, w - 1)
  <2>1. w - 1 \in Nat /\ w - 1 <= c - 1 - a /\ w - 1 <= e - 1 - b /\ w - 1 = v - a - 1
    BY <1>1, <1>3 DEF AtAny
  <2>2. SameBehind(p, u, a, b, w - 1)
    BY <2>1 DEF AtAny
  <2> QED BY <1>0, <2>1, <2>2, SameInSegments
<1>6. (p[i] = "/" <=> i = c) /\ (u[j] = "/" <=> j = e)
  BY DEF Around
<1>7. u[j] # "?" /\ i <= Len(p) /\ j <= Len(u) /\ ~(i > Len(p)) /\ ~(j > Len(u))
  BY DEF Literal
<1>8. CASE p[i] = "?"
  <2>1. i < c
    BY <1>6, <1>8
  <2>2. ASSUME NEW di \in 0 .. 1, NEW dj \in 0 .. 1, j + dj <= e,
               di = 1 => dj = 0 /\ j = e, di = 0 => v = i
        PROVE  InSegment(p, u, a, b, c, e, i + di, j + dj)
    <3>1. a < i + di /\ i + di <= c /\ b < j + dj
      BY <2>1, <2>2
    <3>2. v <= i + di /\ v - a <= (j + dj) - b
      BY <2>2 DEF AtAny
    <3>3. \A y \in v .. (i + di) - 1 : p[y] = "?"
      <4> SUFFICES ASSUME NEW y \in v .. (i + di) - 1, y # i PROVE p[y] = "?"
        BY <1>8
      <4>1. y \in v .. i - 1
        OBVIOUS
      <4> QED BY <4>1 DEF AtAny
    <3>4. v < i + di => j + dj = e /\ e <= Len(u)
      BY <1>7, <2>2
    <3>5. AtAny(p, u, a, b, c, e, i + di, j + dj, v)
      BY <3>2, <3>3, <3>4 DEF AtAny
    <3> QED BY <2>2, <3>1, <3>5 DEF InSegment
  <2>3. CASE u[j] # "/"
    <3>1. Turn(p, u, <<i, j>>) = <<i + 0, j + 1>>
      <4>1. TurnsTo(p, u, i, j, i, j + 1)
        BY <1>7, <1>8, <2>3, TurnInside, Zenon
      <4>2. i + 0 = i
        OBVIOUS
      <4> QED BY <4>1, <4>2 DEF TurnsTo
    <3>2. j + 1 <= e /\ 0 \in 0 .. 1 /\ 1 \in 0 .. 1 /\ 0 + 1 > 0 /\ 0 # 1
      BY <1>6, <2>3
    <3>3. v = i
      BY <1>6, <2>3 DEF AtAny
    <3>4. InSegment(p, u, a, b, c, e, i + 0, j + 1)
      BY <2>2, <3>2, <3>3
    <3> QED BY <3>1, <3>2, <3>4 DEF TurnInSegment
  <2>4. CASE u[j] = "/"
    <3>1. Turn(p, u, <<i, j>>) = <<i + 1, j + 0>>
      <4>1. TurnsTo(p, u, i, j, i + 1, j)
        BY <1>7, <1>8, <2>4, TurnInside, Zenon
      <4>2. j + 0 = j
        OBVIOUS
      <4> QED BY <4>1, <4>2 DEF TurnsTo
    <3>2. j + 0 <= e /\ j = e /\ 0 \in 0 .. 1 /\ 1 \in 0 .. 1 /\ 1 + 0 > 0 /\ 1 # 0
      BY <1>6, <2>4
    <3>3. InSegment(p, u, a, b, c, e, i + 1, j + 0)
      BY <2>2, <3>2
    <3> QED BY <3>1, <3>2, <3>3 DEF TurnInSegment
  <2> QED BY <2>3, <2>4
<1>9. CASE p[i] # "?"
  <2>1. v < i /\ j = e /\ e <= Len(u) /\ u[j] = "/"
    BY <1>6, <1>9 DEF AtAny
  <2>2. CASE p[i] = "/"
    <3>1. i = c
      BY <1>6, <2>2
    <3>2. Turn(p, u, <<i, j>>) = <<i + 1, j + 1>>
      <4>1. TurnsTo(p, u, i, j, i + 1, j + 1)
        BY <1>7, <2>1, <2>2, TurnInside, Zenon
      <4> QED BY <4>1 DEF TurnsTo
    <3>3. \A x \in w .. Len(s) : s[x] = "?"
      <4> SUFFICES ASSUME NEW x \in w .. Len(s) PROVE s[x] = "?"
        OBVIOUS
      <4>0. w \in Nat /\ 1 <= w /\ x \in Nat /\ w <= x /\ x <= c - 1 - a
        <5>1. Len(s) = c - 1 - a
          BY <1>1
        <5> QED BY <5>1
      <4>1. a + x \in v .. i - 1 /\ x \in 1 .. c - 1 - a
        BY <1>3, <3>1, <4>0
      <4> QED BY <1>1, <4>1 DEF AtAny
    <3>4. SegmentMatches(s, t, lastP, lastU)
      BY <1>1, <1>2, <1>4, <1>5, <3>3, AnyMatches
    <3> QED BY <1>0, <2>1, <3>1, <3>2, <3>4 DEF TurnInSegment
  <2>3. CASE p[i] # "/"
    <3>1. Turn(p, u, <<i, j>>) = <<i, j>>
      <4>1. TurnsTo(p, u, i, j, i, j)
        BY <1>7, <1>9, <2>1, <2>3, TurnInside, Zenon
      <4> QED BY <4>1 DEF TurnsTo
    <3>2. PICK y \in w .. Len(s) : y = i - a
      <4>1. i < c
        BY <1>6, <2>3
      <4>2. i - a \in w .. Len(s)
        BY <1>1, <1>3, <2>1, <4>1
      <4> QED BY <4>2
    <3>3. s[y] # "?"
      <4>1. y \in 1 .. c - 1 - a /\ a + y = i
        BY <1>1, <3>2
      <4> QED BY <1>1, <1>9, <4>1
    <3>4. ~lastU
      BY <2>1
    <3>5. ~SegmentMatches(s, t, lastP, lastU)
      BY <1>1, <1>2, <1>4, <1>5, <3>3, <3>4, AnyTooShort
    <3> QED BY <1>0, <1>9, <2>1, <2>3, <3>1, <3>5 DEF TurnInSegment
  <2> QED BY <2>2, <2>3
<1> QED BY <1>8, <1>9

\* A turn in the middle of two segments.
LEMMA SegmentTurn ==
    ASSUME NEW T, NEW p \in Seq(T), NEW u \in Seq(T), Literal(u),
           NEW a \in Nat, NEW b \in Nat, NEW c \in Nat, NEW e \in Nat,
           Around(p, a, c), Around(u, b, e),
           NEW i \in 1 .. Len(p), NEW j \in 1 .. Len(u),
           InSegment(p, u, a, b, c, e, i, j),
           NEW lastP, NEW lastU, lastP <=> c = Len(p) + 1, lastU <=> e = Len(u) + 1
    PROVE  TurnInSegment(p, u, a, b, c, e, i, j, lastP, lastU)
<1>1. a < i /\ i <= c /\ b < j /\ j <= e
  BY DEF InSegment
<1>2. CASE Level(p, u, a, b, i, j)
  BY <1>1, <1>2, LevelTurn
<1>3. ASSUME NEW w \in Nat, AtAny(p, u, a, b, c, e, i, j, w)
      PROVE  TurnInSegment(p, u, a, b, c, e, i, j, lastP, lastU)
  BY <1>1, <1>3, AnyTurn
<1> QED BY <1>2, <1>3 DEF InSegment

-----------------------------------------------------------------------------
(* The whole loop.                                                         *)

\* The segments of a path and the cuts around them.
LEMMA SegmentsAre ==
    ASSUME NEW T, NEW p \in Seq(T)
    PROVE  \E m \in Nat \ {0} :
              /\ Len(Segments(p)) = m /\ DOMAIN Segments(p) = 1 .. m
              /\ Cut(p, 0) = 0
              /\ \A k \in 1 .. m :
                    /\ Cut(p, k - 1) \in Nat /\ Cut(p, k) \in Nat
                    /\ Around(p, Cut(p, k - 1), Cut(p, k))
                    /\ Segments(p)[k] = SubSeq(p, Cut(p, k - 1) + 1, Cut(p, k) - 1)
                    /\ k = m <=> Cut(p, k) = Len(p) + 1
<1>0. PICK n \in Nat : n = Len(p)
  OBVIOUS
<1>1. PICK m \in Nat \ {0} :
              /\ Cardinality(Cuts(p)) = m + 1
              /\ Cut(p, 0) = 0 /\ Cut(p, m) = n + 1
              /\ \A k \in 0 .. m : Cut(p, k) \in Nat /\ Cut(p, k) <= n + 1
              /\ \A k \in 1 .. m : Cut(p, k - 1) < Cut(p, k)
              /\ \A k \in 1 .. m - 1 : Cut(p, k) <= n /\ p[Cut(p, k)] = "/"
              /\ \A k \in 1 .. m : \A x \in 1 .. n :
                    Cut(p, k - 1) < x /\ x < Cut(p, k) => p[x] # "/"
  BY <1>0, CutsAre
<1>2. Segments(p) = [k \in 1 .. m |-> SubSeq(p, Cut(p, k - 1) + 1, Cut(p, k) - 1)]
  <2>1. Cardinality(Cuts(p)) - 1 = m
    BY <1>1
  <2> QED BY <2>1 DEF Segments
<1>3. DOMAIN Segments(p) = 1 .. m /\ Len(Segments(p)) = m
  <2>1. DOMAIN Segments(p) = 1 .. m
    BY <1>2
  <2> QED BY <1>2, <2>1
<1>4. ASSUME NEW k \in 1 .. m
      PROVE  /\ Cut(p, k - 1) \in Nat /\ Cut(p, k) \in Nat
             /\ Around(p, Cut(p, k - 1), Cut(p, k))
             /\ Segments(p)[k] = SubSeq(p, Cut(p, k - 1) + 1, Cut(p, k) - 1)
             /\ k = m <=> Cut(p, k) = Len(p) + 1
  <2>1. k \in 0 .. m /\ k - 1 \in 0 .. m /\ (k # m => k \in 1 .. m - 1)
    OBVIOUS
  <2>2. PICK a \in Nat, c \in Nat : a = Cut(p, k - 1) /\ c = Cut(p, k)
    BY <1>1, <2>1
  <2>3. a < c /\ c <= n + 1 /\ (k # m => c <= n /\ p[c] = "/") /\ (k = m => c = n + 1)
    BY <1>1, <2>1, <2>2
  <2>4. \A x \in 1 .. n : a < x /\ x < c => p[x] # "/"
    BY <1>1, <2>2
  <2>5. \A x \in a + 1 .. c - 1 : x \in 1 .. n /\ a < x /\ x < c
    BY <2>3
  <2>6. c <= n => p[c] = "/"
    BY <2>3
  <2>7. Around(p, a, c)
    BY <1>0, <2>3, <2>4, <2>5, <2>6 DEF Around
  <2>8. k = m <=> c = n + 1
    BY <2>3
  <2>9. Segments(p)[k] = SubSeq(p, Cut(p, k - 1) + 1, Cut(p, k) - 1)
    BY <1>2
  <2> QED BY <1>0, <2>2, <2>7, <2>8, <2>9
<1> QED BY <1>1, <1>3, <1>4

\* The k-th segments of p and u match.
Matched(p, u, k) ==
    SegmentMatches(Segments(p)[k], Segments(u)[k], k = Len(Segments(p)), k = Len(Segments(u)))

\* The cursors are in the k-th segments, and the ones before match.
Reached(p, u, i, j, k) ==
    /\ k \in DOMAIN Segments(p) \cap DOMAIN Segments(u)
    /\ InSegment(p, u, Cut(p, k - 1), Cut(u, k - 1), Cut(p, k), Cut(u, k), i, j)
    /\ \A h \in 1 .. k - 1 : Matched(p, u, h)

\* The loop begins in the first segments.
LEMMA ReachedFirst ==
    ASSUME NEW T, NEW p \in Seq(T), NEW u \in Seq(T)
    PROVE  Reached(p, u, 1, 1, 1)
<1>1. PICK m \in Nat \ {0} :
         /\ DOMAIN Segments(p) = 1 .. m /\ Cut(p, 0) = 0
         /\ \A k \in 1 .. m : Cut(p, k) \in Nat /\ Around(p, Cut(p, k - 1), Cut(p, k))
  BY SegmentsAre
<1>2. PICK n \in Nat \ {0} :
         /\ DOMAIN Segments(u) = 1 .. n /\ Cut(u, 0) = 0
         /\ \A k \in 1 .. n : Cut(u, k) \in Nat /\ Around(u, Cut(u, k - 1), Cut(u, k))
  BY SegmentsAre
<1>3. 1 \in 1 .. m /\ 1 \in 1 .. n /\ 1 - 1 = 0
  OBVIOUS
<1>4. PICK c \in Nat, e \in Nat : c = Cut(p, 1) /\ e = Cut(u, 1) /\ Around(p, 0, c) /\ Around(u, 0, e)
  BY <1>1, <1>2, <1>3
<1>5. 1 <= c /\ 1 <= e
  BY <1>4 DEF Around
<1>6. Level(p, u, 0, 0, 1, 1)
  BY DEF Level, SameBehind
<1>7. InSegment(p, u, 0, 0, c, e, 1, 1)
  BY <1>5, <1>6 DEF InSegment
<1>8. \A h \in 1 .. 1 - 1 : Matched(p, u, h)
  OBVIOUS
<1> QED BY <1>1, <1>2, <1>3, <1>4, <1>7, <1>8 DEF Reached

\* Behind two segments that match the next ones begin.
LEMMA ReachedNext ==
    ASSUME NEW T, NEW p \in Seq(T), NEW u \in Seq(T), NEW k \in Nat, NEW i \in Nat, NEW j \in Nat,
           Reached(p, u, i, j, k), i <= Len(p), j <= Len(u),
           i = Cut(p, k), j = Cut(u, k), Matched(p, u, k)
    PROVE  Reached(p, u, i + 1, j + 1, k + 1)
<1>1. PICK m \in Nat \ {0} :
         /\ DOMAIN Segments(p) = 1 .. m
         /\ \A h \in 1 .. m : /\ Cut(p, h) \in Nat /\ Around(p, Cut(p, h - 1), Cut(p, h))
                              /\ h = m <=> Cut(p, h) = Len(p) + 1
  BY SegmentsAre
<1>2. PICK n \in Nat \ {0} :
         /\ DOMAIN Segments(u) = 1 .. n
         /\ \A h \in 1 .. n : /\ Cut(u, h) \in Nat /\ Around(u, Cut(u, h - 1), Cut(u, h))
                              /\ h = n <=> Cut(u, h) = Len(u) + 1
  BY SegmentsAre
<1>3. k \in 1 .. m /\ k \in 1 .. n /\ \A h \in 1 .. k - 1 : Matched(p, u, h)
  BY <1>1, <1>2 DEF Reached
<1>4. k # m /\ k # n
  <2>1. (k = m <=> i = Len(p) + 1) /\ (k = n <=> j = Len(u) + 1)
    BY <1>1, <1>2, <1>3
  <2> QED BY <2>1
<1>5. PICK g \in Nat : g = k + 1 /\ g - 1 = k /\ g \in 1 .. m /\ g \in 1 .. n
  BY <1>3, <1>4
<1>6. PICK c \in Nat, e \in Nat : c = Cut(p, g) /\ e = Cut(u, g) /\ Around(p, i, c) /\ Around(u, j, e)
  BY <1>1, <1>2, <1>5
<1>7. i + 1 <= c /\ j + 1 <= e
  <2>1. i < c /\ j < e
    BY <1>6, CutOrder
  <2> QED BY <2>1
<1>8. Level(p, u, i, j, i + 1, j + 1)
  BY DEF Level, SameBehind
<1>9. InSegment(p, u, i, j, c, e, i + 1, j + 1)
  BY <1>7, <1>8 DEF InSegment
<1>10. \A h \in 1 .. g - 1 : Matched(p, u, h)
  BY <1>3, <1>5
<1> QED BY <1>1, <1>2, <1>5, <1>6, <1>9, <1>10 DEF Reached

\* A turn fails, and the segments do not match, or the loop gets further.
LEMMA ReachedTurn ==
    ASSUME NEW T, NEW p \in Seq(T), NEW u \in Seq(T), Literal(u),
           NEW k \in Nat, NEW i \in 1 .. Len(p), NEW j \in 1 .. Len(u), Reached(p, u, i, j, k)
    PROVE  \/ /\ Turn(p, u, <<i, j>>) = <<i, j>>
              /\ p[i] # u[j] /\ p[i] # "?" /\ ~Matched(p, u, k)
           \/ \E x, y, h \in Nat : /\ Turn(p, u, <<i, j>>) = <<x, y>>
                                   /\ i + j < x + y /\ Reached(p, u, x, y, h)
<1>1. PICK m \in Nat \ {0} :
         /\ DOMAIN Segments(p) = 1 .. m /\ Len(Segments(p)) = m
         /\ \A h \in 1 .. m : /\ Cut(p, h - 1) \in Nat /\ Cut(p, h) \in Nat
                              /\ Around(p, Cut(p, h - 1), Cut(p, h))
                              /\ Segments(p)[h] = SubSeq(p, Cut(p, h - 1) + 1, Cut(p, h) - 1)
                              /\ h = m <=> Cut(p, h) = Len(p) + 1
  BY SegmentsAre
<1>2. PICK n \in Nat \ {0} :
         /\ DOMAIN Segments(u) = 1 .. n /\ Len(Segments(u)) = n
         /\ \A h \in 1 .. n : /\ Cut(u, h - 1) \in Nat /\ Cut(u, h) \in Nat
                              /\ Around(u, Cut(u, h - 1), Cut(u, h))
                              /\ Segments(u)[h] = SubSeq(u, Cut(u, h - 1) + 1, Cut(u, h) - 1)
                              /\ h = n <=> Cut(u, h) = Len(u) + 1
  BY SegmentsAre
<1>3. k \in 1 .. m /\ k \in 1 .. n
  BY <1>1, <1>2 DEF Reached
<1>4. PICK a \in Nat, c \in Nat : a = Cut(p, k - 1) /\ c = Cut(p, k) /\ Around(p, a, c)
  BY <1>1, <1>3
<1>5. PICK b \in Nat, e \in Nat : b = Cut(u, k - 1) /\ e = Cut(u, k) /\ Around(u, b, e)
  BY <1>2, <1>3
<1> DEFINE lastP == k = Len(Segments(p))
           lastU == k = Len(Segments(u))
<1>6. lastP <=> c = Len(p) + 1
  BY <1>1, <1>3, <1>4
<1>7. lastU <=> e = Len(u) + 1
  BY <1>2, <1>3, <1>5
<1>8. Matched(p, u, k) <=>
         SegmentMatches(SubSeq(p, a + 1, c - 1), SubSeq(u, b + 1, e - 1), lastP, lastU)
  <2>1. Segments(p)[k] = SubSeq(p, a + 1, c - 1) /\ Segments(u)[k] = SubSeq(u, b + 1, e - 1)
    BY <1>1, <1>2, <1>3, <1>4, <1>5
  <2> QED BY <2>1 DEF Matched
<1> HIDE DEF lastP, lastU
<1>9. InSegment(p, u, a, b, c, e, i, j)
  BY <1>4, <1>5 DEF Reached
<1>10. TurnInSegment(p, u, a, b, c, e, i, j, lastP, lastU)
  BY <1>4, <1>5, <1>6, <1>7, <1>9, SegmentTurn
<1>11. CASE /\ Turn(p, u, <<i, j>>) = <<i, j>>
            /\ p[i] # u[j] /\ p[i] # "?"
            /\ ~SegmentMatches(SubSeq(p, a + 1, c - 1), SubSeq(u, b + 1, e - 1), lastP, lastU)
  BY <1>8, <1>11
<1>12. CASE /\ Turn(p, u, <<i, j>>) = <<i + 1, j + 1>>
            /\ i = c /\ j = e
            /\ SegmentMatches(SubSeq(p, a + 1, c - 1), SubSeq(u, b + 1, e - 1), lastP, lastU)
  <2>1. i \in Nat /\ j \in Nat /\ i <= Len(p) /\ j <= Len(u)
    OBVIOUS
  <2>2. Matched(p, u, k) /\ i = Cut(p, k) /\ j = Cut(u, k)
    BY <1>4, <1>5, <1>8, <1>12
  <2>3. Reached(p, u, i + 1, j + 1, k + 1)
    BY <2>1, <2>2, ReachedNext
  <2>4. i + 1 \in Nat /\ j + 1 \in Nat /\ k + 1 \in Nat /\ i + j < (i + 1) + (j + 1)
    OBVIOUS
  <2> QED BY <1>12, <2>3, <2>4
<1>13. ASSUME NEW di \in 0 .. 1, NEW dj \in 0 .. 1, di + dj > 0,
              Turn(p, u, <<i, j>>) = <<i + di, j + dj>>,
              InSegment(p, u, a, b, c, e, i + di, j + dj)
       PROVE  \E x, y, h \in Nat : /\ Turn(p, u, <<i, j>>) = <<x, y>>
                                   /\ i + j < x + y /\ Reached(p, u, x, y, h)
  <2>1. Reached(p, u, i + di, j + dj, k)
    BY <1>4, <1>5, <1>13 DEF Reached
  <2>2. i + di \in Nat /\ j + dj \in Nat /\ i + j < (i + di) + (j + dj)
    BY <1>13
  <2> QED BY <1>13, <2>1, <2>2
<1> QED BY <1>10, <1>11, <1>12, <1>13 DEF TurnInSegment

\* At the end of one of the paths all segments that both have match.
LEMMA ReachedEnd ==
    ASSUME NEW T, NEW p \in Seq(T), NEW u \in Seq(T), NEW k \in Nat, NEW i \in Nat, NEW j \in Nat,
           Reached(p, u, i, j, k), i > Len(p) \/ j > Len(u)
    PROVE  \A h \in DOMAIN Segments(p) \cap DOMAIN Segments(u) : Matched(p, u, h)
<1>1. PICK m \in Nat \ {0} :
         /\ DOMAIN Segments(p) = 1 .. m /\ Len(Segments(p)) = m
         /\ \A h \in 1 .. m : /\ Cut(p, h - 1) \in Nat /\ Cut(p, h) \in Nat
                              /\ Around(p, Cut(p, h - 1), Cut(p, h))
                              /\ Segments(p)[h] = SubSeq(p, Cut(p, h - 1) + 1, Cut(p, h) - 1)
                              /\ h = m <=> Cut(p, h) = Len(p) + 1
  BY SegmentsAre
<1>2. PICK n \in Nat \ {0} :
         /\ DOMAIN Segments(u) = 1 .. n /\ Len(Segments(u)) = n
         /\ \A h \in 1 .. n : /\ Cut(u, h - 1) \in Nat /\ Cut(u, h) \in Nat
                              /\ Around(u, Cut(u, h - 1), Cut(u, h))
                              /\ Segments(u)[h] = SubSeq(u, Cut(u, h - 1) + 1, Cut(u, h) - 1)
                              /\ h = n <=> Cut(u, h) = Len(u) + 1
  BY SegmentsAre
<1>3. k \in 1 .. m /\ k \in 1 .. n /\ \A h \in 1 .. k - 1 : Matched(p, u, h)
  BY <1>1, <1>2 DEF Reached
<1>4. PICK a \in Nat, c \in Nat : a = Cut(p, k - 1) /\ c = Cut(p, k) /\ Around(p, a, c)
  BY <1>1, <1>3
<1>5. PICK b \in Nat, e \in Nat : b = Cut(u, k - 1) /\ e = Cut(u, k) /\ Around(u, b, e)
  BY <1>2, <1>3
<1> DEFINE lastP == k = Len(Segments(p))
           lastU == k = Len(Segments(u))
<1>6. lastP <=> c = Len(p) + 1
  BY <1>1, <1>3, <1>4
<1>7. lastU <=> e = Len(u) + 1
  BY <1>2, <1>3, <1>5
<1>8. Matched(p, u, k) <=>
         SegmentMatches(SubSeq(p, a + 1, c - 1), SubSeq(u, b + 1, e - 1), lastP, lastU)
  <2>1. Segments(p)[k] = SubSeq(p, a + 1, c - 1) /\ Segments(u)[k] = SubSeq(u, b + 1, e - 1)
    BY <1>1, <1>2, <1>3, <1>4, <1>5
  <2> QED BY <2>1 DEF Matched
<1>9. k = m \/ k = n
  <2>1. i <= c /\ j <= e /\ c <= Len(p) + 1 /\ e <= Len(u) + 1
    BY <1>4, <1>5 DEF Reached, InSegment, Around
  <2>2. c = Len(p) + 1 \/ e = Len(u) + 1
    BY <2>1
  <2> QED BY <1>1, <1>2, <1>3, <1>4, <1>5, <2>2
<1> HIDE DEF lastP, lastU
<1>10. InSegment(p, u, a, b, c, e, i, j)
  BY <1>4, <1>5 DEF Reached
<1>11. Matched(p, u, k)
  <2>1. SegmentMatches(SubSeq(p, a + 1, c - 1), SubSeq(u, b + 1, e - 1), lastP, lastU)
    <3>1. Around(p, a, c) /\ Around(u, b, e)
      BY <1>4, <1>5
    <3> QED BY <1>6, <1>7, <1>10, <3>1, EndMatches
  <2> QED BY <1>8, <2>1
<1>12. ASSUME NEW h \in 1 .. m, h \in 1 .. n PROVE h \in 1 .. k - 1 \/ h = k
  BY <1>9, <1>12
<1> QED BY <1>1, <1>2, <1>3, <1>11, <1>12

\* The cursors never leave the paths by more than one.
LEMMA ReachedRange ==
    ASSUME NEW T, NEW p \in Seq(T), NEW u \in Seq(T), NEW k \in Nat, NEW i \in Nat, NEW j \in Nat,
           Reached(p, u, i, j, k)
    PROVE  i \in 1 .. Len(p) + 1 /\ j \in 1 .. Len(u) + 1
<1>1. PICK m \in Nat \ {0} :
         /\ DOMAIN Segments(p) = 1 .. m
         /\ \A h \in 1 .. m : /\ Cut(p, h - 1) \in Nat /\ Cut(p, h) \in Nat
                              /\ Around(p, Cut(p, h - 1), Cut(p, h))
  BY SegmentsAre
<1>2. PICK n \in Nat \ {0} :
         /\ DOMAIN Segments(u) = 1 .. n
         /\ \A h \in 1 .. n : /\ Cut(u, h - 1) \in Nat /\ Cut(u, h) \in Nat
                              /\ Around(u, Cut(u, h - 1), Cut(u, h))
  BY SegmentsAre
<1>3. k \in 1 .. m /\ k \in 1 .. n
  BY <1>1, <1>2 DEF Reached
<1>4. PICK a \in Nat, c \in Nat : a = Cut(p, k - 1) /\ c = Cut(p, k) /\ Around(p, a, c)
  BY <1>1, <1>3
<1>5. PICK b \in Nat, e \in Nat : b = Cut(u, k - 1) /\ e = Cut(u, k) /\ Around(u, b, e)
  BY <1>2, <1>3
<1>6. a < i /\ i <= c /\ b < j /\ j <= e
  BY <1>4, <1>5 DEF Reached, InSegment
<1>7. c <= Len(p) + 1 /\ e <= Len(u) + 1
  BY <1>4, <1>5, CutOrder
<1> QED BY <1>6, <1>7

\* What is before a "*": the path, as far as it has none.
LEMMA BeforeStarIs ==
    ASSUME NEW T, NEW p \in Seq(T)
    PROVE  /\ BeforeStar(p) \in Seq(T) /\ Len(BeforeStar(p)) <= Len(p)
           /\ \A x \in 1 .. Len(BeforeStar(p)) : BeforeStar(p)[x] = p[x] /\ p[x] # "*"
           /\ Len(BeforeStar(p)) < Len(p) => p[Len(BeforeStar(p)) + 1] = "*"
<1> DEFINE S == {i \in DOMAIN p : p[i] = "*"}
           star == Least(S)
<1>1. S \in SUBSET Nat /\ 0 \notin S
  OBVIOUS
<1>2. /\ star \in Nat /\ (star = 0 <=> S = {}) /\ (star # 0 => star \in S)
      /\ \A k \in S : star <= k
  <2> HIDE DEF S
  <2> QED BY <1>1, LeastOrZero
<1>3. BeforeStar(p) = IF star = 0 THEN p ELSE SubSeq(p, 1, star - 1)
  BY DEF BeforeStar
<1>4. CASE star = 0
  <2>1. \A x \in 1 .. Len(p) : p[x] # "*"
    BY <1>2, <1>4
  <2>2. BeforeStar(p) = p
    BY <1>3, <1>4
  <2> QED BY <2>1, <2>2
<1>5. CASE star # 0
  <2>1. star \in 1 .. Len(p) /\ p[star] = "*"
    BY <1>2, <1>5
  <2>2. ASSUME NEW x \in 1 .. star - 1 PROVE p[x] # "*"
    <3>1. x \in DOMAIN p /\ ~(star <= x)
      BY <1>2, <2>1
    <3>2. x \notin S
      BY <1>2, <3>1
    <3> QED BY <3>1, <3>2
  <2> HIDE DEF star
  <2>0. PICK q : q = SubSeq(p, 1, star - 1)
    OBVIOUS
  <2>3. q \in Seq(T) /\ Len(q) = star - 1 /\ \A x \in 1 .. star - 1 : q[x] = p[x]
    BY <2>0, <2>1, FixedIs
  <2>4. BeforeStar(p) = q
    BY <1>3, <1>5, <2>0
  <2>5. star = Len(q) + 1 /\ Len(q) <= Len(p)
    BY <2>1, <2>3
  <2> QED BY <2>1, <2>2, <2>3, <2>4, <2>5
<1> QED BY <1>4, <1>5

\* As long as there is no "*" it makes no difference.
LEMMA TurnBeforeStar ==
    ASSUME NEW T, NEW p \in Seq(T), NEW u \in Seq(T), Literal(u),
           NEW i \in Nat, NEW j \in Nat, 1 <= i, 1 <= j, j <= Len(u) + 1
    PROVE  LET q == BeforeStar(p)
           IN  /\ i <= Len(q) => Turn(p, u, <<i, j>>) = Turn(q, u, <<i, j>>)
               /\ i = Len(q) + 1 => Turn(p, u, <<i, j>>) = <<i, j>>
<1>0. PICK q : q = BeforeStar(p)
  OBVIOUS
<1>1. /\ q \in Seq(T) /\ Len(q) <= Len(p)
      /\ \A x \in 1 .. Len(q) : q[x] = p[x] /\ p[x] # "*"
      /\ Len(q) < Len(p) => p[Len(q) + 1] = "*"
  BY <1>0, BeforeStarIs
<1>2. ASSUME i <= Len(q) PROVE Turn(p, u, <<i, j>>) = Turn(q, u, <<i, j>>)
  <2>1. ~(i > Len(p)) /\ ~(i > Len(q)) /\ p[i] = q[i]
    BY <1>1, <1>2
  <2> QED BY <2>1 DEF Turn
<1>3. ASSUME i = Len(q) + 1 PROVE Turn(p, u, <<i, j>>) = <<i, j>>
  <2>1. CASE i > Len(p) \/ j > Len(u)
    BY <2>1 DEF Turn
  <2>2. CASE ~(i > Len(p) \/ j > Len(u))
    <3>1. p[i] = "*" /\ u[j] # "*" /\ u[j] # "?"
      BY <1>1, <1>3, <2>2 DEF Literal
    <3> QED BY <2>2, <3>1 DEF Turn
  <2> QED BY <2>1, <2>2
<1> QED BY <1>0, <1>2, <1>3

\* The cursors stay in segments that correspond, and move until they are stuck.
LEMMA WalkReaches ==
    ASSUME NEW T, NEW p \in Seq(T), NEW u \in Seq(T), Literal(u), NEW n \in 0 .. Len(p) + Len(u)
    PROVE  \E i, j, k \in Nat :
              /\ Cursors(p, u)[n] = <<i, j>> /\ Reached(BeforeStar(p), u, i, j, k)
              /\ Turn(p, u, <<i, j>>) = <<i, j>> \/ i + j >= n + 2
<1>0. PICK q \in Seq(T) : q = BeforeStar(p)
  BY BeforeStarIs
<1>1. PICK N \in Nat : N = Len(p) + Len(u)
  OBVIOUS
<1> DEFINE C == Cursors(p, u)
           There(m) == \E i, j, k \in Nat :
                          /\ C[m] = <<i, j>> /\ Reached(q, u, i, j, k)
                          /\ Turn(p, u, <<i, j>>) = <<i, j>> \/ i + j >= m + 2
           P == {m \in Nat : m <= N => There(m)}
<1>2. C[0] = <<1, 1>> /\ \A m \in 0 .. N - 1 : C[m + 1] = Turn(p, u, C[m])
  <2>1. /\ C[0] = <<1, 1>>
        /\ \A m \in 0 .. Len(p) + Len(u) - 1 : C[m + 1] = Turn(p, u, C[m])
    BY CursorsMove
  <2> HIDE DEF C
  <2> QED BY <1>1, <2>1
<1> HIDE DEF C
<1>3. 0 \in P
  <2>1. Reached(q, u, 1, 1, 1) /\ 1 + 1 >= 0 + 2 /\ 1 \in Nat
    BY ReachedFirst
  <2>2. There(0)
    BY <1>2, <2>1
  <2> QED BY <2>2
<1>4. ASSUME NEW m \in Nat, m \in P PROVE m + 1 \in P
  <2>0. m <= N => There(m)
    BY <1>4
  <2> SUFFICES ASSUME m + 1 <= N PROVE There(m + 1)
    <3> HIDE DEF There
    <3> QED OBVIOUS
  <2>1. m <= N /\ m \in 0 .. N - 1
    OBVIOUS
  <2>2. PICK i \in Nat, j \in Nat, k \in Nat :
           /\ C[m] = <<i, j>> /\ Reached(q, u, i, j, k)
           /\ Turn(p, u, <<i, j>>) = <<i, j>> \/ i + j >= m + 2
    BY <2>0, <2>1
  <2>3. C[m + 1] = Turn(p, u, <<i, j>>)
    <3>1. C[m + 1] = Turn(p, u, C[m])
      BY <1>2, <2>1
    <3> QED BY <2>2, <3>1
  <2>4. CASE Turn(p, u, <<i, j>>) = <<i, j>>
    BY <2>2, <2>3, <2>4
  <2>5. CASE Turn(p, u, <<i, j>>) # <<i, j>>
    <3>0. i \in 1 .. Len(q) + 1 /\ j \in 1 .. Len(u) + 1
      BY <2>2, ReachedRange
    <3>1. /\ i <= Len(q) => Turn(p, u, <<i, j>>) = Turn(q, u, <<i, j>>)
          /\ i # Len(q) + 1
      BY <1>0, <2>5, <3>0, TurnBeforeStar
    <3>2. i \in 1 .. Len(q) /\ Turn(p, u, <<i, j>>) = Turn(q, u, <<i, j>>) /\ j \in 1 .. Len(u)
      <4>1. j > Len(u) => Turn(p, u, <<i, j>>) = <<i, j>>
        BY DEF Turn
      <4> QED BY <2>5, <3>0, <3>1, <4>1
    <3>3. PICK x \in Nat, y \in Nat, h \in Nat :
             Turn(q, u, <<i, j>>) = <<x, y>> /\ i + j < x + y /\ Reached(q, u, x, y, h)
      BY <2>2, <2>5, <3>2, ReachedTurn
    <3>4. x + y >= (m + 1) + 2
      <4>1. i + j >= m + 2 /\ i + j < x + y
        BY <2>2, <2>5, <3>3
      <4> QED BY <4>1
    <3> QED BY <2>3, <3>2, <3>3, <3>4
  <2> QED BY <2>4, <2>5
<1> HIDE DEF P
<1>5. Nat \subseteq P
  BY <1>3, <1>4, SetInduction
<1>6. There(n)
  <2>1. n \in Nat /\ n <= N
    BY <1>1
  <2> HIDE DEF There
  <2> QED BY <1>5, <2>1 DEF P
<1> QED BY <1>0, <1>6 DEF C

\* cpathstring::compare decides what an endpoint means for a request without
\* wildcards: the loop that moves two cursors, and the definition by segments.
LEMMA CompareIsMatches ==
    ASSUME NEW T, NEW p \in Seq(T), NEW u \in Seq(T), Literal(u)
    PROVE  compare(p, u) <=> Matches(p, u)
<1>0. PICK q \in Seq(T) : q = BeforeStar(p)
  BY BeforeStarIs
<1>1. /\ Len(q) <= Len(p)
      /\ \A x \in 1 .. Len(q) : q[x] = p[x] /\ p[x] # "*"
      /\ Len(q) < Len(p) => p[Len(q) + 1] = "*"
  BY <1>0, BeforeStarIs
<1>2. PICK N \in Nat : N = Len(p) + Len(u)
  OBVIOUS
<1>3. PICK i \in Nat, j \in Nat, k \in Nat :
         /\ Cursors(p, u)[N] = <<i, j>> /\ Reached(q, u, i, j, k)
         /\ Turn(p, u, <<i, j>>) = <<i, j>> \/ i + j >= N + 2
  <2>1. N \in 0 .. Len(p) + Len(u)
    BY <1>2
  <2> QED BY <1>0, <2>1, WalkReaches
<1>4. i \in 1 .. Len(q) + 1 /\ j \in 1 .. Len(u) + 1
  BY <1>3, ReachedRange
<1>5. Matches(p, u) <=> \A h \in DOMAIN Segments(q) \cap DOMAIN Segments(u) : Matched(q, u, h)
  BY <1>0 DEF Matches, Matched
<1>6. compare(p, u) <=> i > Len(p) \/ j > Len(u) \/ "*" \in {p[i], u[j]}
  BY <1>2, <1>3 DEF compare
<1>7. CASE i > Len(q) \/ j > Len(u)
  <2>1. Matches(p, u)
    BY <1>3, <1>5, <1>7, ReachedEnd
  <2>2. i > Len(p) \/ j > Len(u) \/ p[i] = "*"
    <3>1. CASE j > Len(u)
      BY <3>1
    <3>2. CASE i > Len(q)
      <4>1. i = Len(q) + 1
        BY <1>4, <3>2
      <4> QED BY <1>1, <4>1
    <3> QED BY <1>7, <3>1, <3>2
  <2> QED BY <1>6, <2>1, <2>2
<1>8. CASE ~(i > Len(q) \/ j > Len(u))
  <2>1. i \in 1 .. Len(q) /\ j \in 1 .. Len(u) /\ ~(i > Len(p)) /\ ~(j > Len(u))
    BY <1>1, <1>4, <1>8
  <2>2. p[i] = q[i] /\ p[i] # "*" /\ u[j] # "*"
    BY <1>1, <2>1 DEF Literal
  <2>3. ~compare(p, u)
    BY <1>6, <2>1, <2>2
  <2>4. Turn(q, u, <<i, j>>) = <<i, j>>
    <3>1. ~(i + j >= N + 2)
      BY <1>1, <1>2, <2>1
    <3>2. Turn(p, u, <<i, j>>) = Turn(q, u, <<i, j>>)
      BY <1>0, <2>1, TurnBeforeStar
    <3> QED BY <1>3, <3>1, <3>2
  <2>5. ~Matched(q, u, k)
    <3>1. \/ ~Matched(q, u, k)
          \/ \E x, y, h \in Nat : /\ Turn(q, u, <<i, j>>) = <<x, y>>
                                  /\ i + j < x + y /\ Reached(q, u, x, y, h)
      BY <1>3, <2>1, ReachedTurn
    <3>2. ASSUME NEW x \in Nat, NEW y \in Nat, Turn(q, u, <<i, j>>) = <<x, y>>, i + j < x + y
          PROVE  FALSE
      <4>1. i = x /\ j = y
        BY <2>4, <3>2
      <4> QED BY <3>2, <4>1
    <3> QED BY <3>1, <3>2
  <2>6. k \in DOMAIN Segments(q) \cap DOMAIN Segments(u)
    BY <1>3 DEF Reached
  <2> QED BY <1>5, <2>3, <2>5, <2>6
<1> QED BY <1>7, <1>8

-----------------------------------------------------------------------------
(* The hash.                                                               *)

\* The w characters behind the first slash of p are the ones that are hashed.
HashedTo(p, w) ==
    /\ w <= HashLength /\ w + 1 <= Len(p) /\ p[1] = "/"
    /\ \A x \in 2 .. w + 1 : p[x] # "/"
    /\ w < HashLength => w + 2 <= Len(p) /\ p[w + 2] = "/"

\* The first segment of a path, as far as it is hashed.
LEMMA HashedExists ==
    ASSUME NEW T, NEW p \in Seq(T), FirstSegmentWhole(p)
    PROVE  \E w \in Nat : HashedTo(p, w)
<1>0. PICK n \in Nat : n = Len(p)
  OBVIOUS
<1>1. HashLength \in Nat \ {0}
  BY HashLengthAssumption
<1>2. /\ p[1] = "/" /\ (n > HashLength \/ \E i \in 2 .. n : p[i] = "/")
  BY <1>0 DEF FirstSegmentWhole
<1> DEFINE S == {i \in Nat : i \in 2 .. n /\ p[i] = "/"}
<1>3. CASE \A i \in S : i > HashLength + 1
  <2>1. n > HashLength
    BY <1>1, <1>2, <1>3
  <2>2. \A x \in 2 .. HashLength + 1 : p[x] # "/"
    <3> SUFFICES ASSUME NEW x \in 2 .. HashLength + 1, p[x] = "/" PROVE FALSE
      OBVIOUS
    <3>1. x \in S /\ ~(x > HashLength + 1)
      BY <1>1, <2>1
    <3> QED BY <1>3, <3>1
  <2>3. HashedTo(p, HashLength)
    BY <1>0, <1>1, <1>2, <2>1, <2>2 DEF HashedTo
  <2> QED BY <1>1, <2>3
<1>4. CASE ~(\A i \in S : i > HashLength + 1)
  <2>1. S \in SUBSET Nat /\ S # {}
    BY <1>4
  <2>2. PICK m \in S : \A i \in S : m <= i
    <3> HIDE DEF S
    <3> QED BY <2>1, LeastMember
  <2>3. m \in Nat /\ m \in 2 .. n /\ p[m] = "/" /\ m <= HashLength + 1
    <3>1. PICK i \in S : ~(i > HashLength + 1)
      BY <1>4
    <3>2. i \in Nat /\ m <= i
      BY <2>2
    <3> QED BY <1>1, <3>1, <3>2
  <2>4. PICK w \in Nat : m = w + 2
    <3>1. m - 2 \in Nat /\ m = (m - 2) + 2
      BY <2>3
    <3> QED BY <3>1
  <2>5. ASSUME NEW x \in 2 .. w + 1 PROVE p[x] # "/"
    <3>1. x \in Nat /\ x \in 2 .. n /\ ~(m <= x)
      BY <2>3, <2>4
    <3> QED BY <2>2, <3>1
  <2>6. w <= HashLength /\ w + 1 <= n /\ w + 2 <= n /\ p[w + 2] = "/"
    BY <1>1, <2>3, <2>4
  <2>7. HashedTo(p, w)
    BY <1>0, <1>2, <2>5, <2>6 DEF HashedTo
  <2> QED BY <2>7
<1> QED BY <1>3, <1>4

\* The hash is made of them.
LEMMA HashIs ==
    ASSUME NEW T, NEW p \in Seq(T), NEW w \in Nat, HashedTo(p, w)
    PROVE  hash(p) = LET word == SubSeq(Tail(p), 1, w)
                     IN  IF Len(word) = HashLength THEN Tail(word) ELSE word
<1>1. HashLength \in Nat \ {0}
  BY HashLengthAssumption
<1>2. p # << >> /\ p[1] = "/"
  BY DEF HashedTo
<1> DEFINE seg == IF p # << >> /\ p[1] = "/" THEN Tail(p) ELSE p
           S == {i \in DOMAIN seg : seg[i] = "/"}
           slash == Least(S)
           bound == IF slash = 0 THEN Len(seg) ELSE slash - 1
<1>9. seg = Tail(p)
  BY <1>2
<1>3. seg \in Seq(T) /\ Len(seg) = Len(p) - 1 /\ \A i \in 1 .. Len(p) - 1 : seg[i] = p[i + 1]
  BY <1>2
<1>4. hash(p) = LET word == SubSeq(seg, 1, Min({HashLength, bound}))
                IN  IF Len(word) = HashLength THEN Tail(word) ELSE word
  BY Zenon DEF hash
<1> HIDE DEF seg
<1>5. S \in SUBSET Nat /\ 0 \notin S
  BY <1>3
<1>6. /\ slash \in Nat /\ (slash = 0 <=> S = {}) /\ (slash # 0 => slash \in S)
      /\ \A k \in S : slash <= k
  <2> HIDE DEF S
  <2> QED BY <1>5, LeastOrZero
<1>7. bound \in Nat /\ w <= bound /\ (w < HashLength => bound = w)
  <2>1. w <= HashLength /\ w <= Len(p) - 1
    BY DEF HashedTo
  <2>2. \A i \in S : i > w
    <3> SUFFICES ASSUME NEW i \in S, ~(i > w) PROVE FALSE
      OBVIOUS
    <3>1. i \in 1 .. w /\ i \in 1 .. Len(p) - 1 /\ seg[i] = "/"
      BY <1>3, <2>1
    <3>2. i + 1 \in 2 .. w + 1 /\ p[i + 1] = "/"
      BY <1>3, <3>1
    <3> QED BY <3>2 DEF HashedTo
  <2>3. CASE w < HashLength
    <3>1. w + 2 <= Len(p) /\ p[w + 2] = "/"
      BY <2>3 DEF HashedTo
    <3>2. w + 1 \in S
      <4>1. w + 1 \in 1 .. Len(p) - 1 /\ (w + 1) + 1 = w + 2
        BY <3>1
      <4> QED BY <1>3, <3>1, <4>1
    <3>3. slash = w + 1
      <4>1. slash # 0 /\ slash \in S /\ slash <= w + 1
        BY <1>6, <3>2
      <4>2. slash > w
        BY <2>2, <4>1
      <4> QED BY <1>6, <4>1, <4>2
    <3> QED BY <3>3
  <2>4. CASE ~(w < HashLength)
    <3>1. CASE slash = 0
      BY <1>3, <2>1, <2>4, <3>1
    <3>2. CASE slash # 0
      <4>1. slash > w
        BY <1>6, <2>2, <3>2
      <4> QED BY <1>6, <2>4, <3>2, <4>1
    <3> QED BY <3>1, <3>2
  <2> QED BY <2>3, <2>4
<1> HIDE DEF bound
<1>8. Min({HashLength, bound}) = w
  <2>1. w <= HashLength
    BY DEF HashedTo
  <2>2. {HashLength, bound} \in SUBSET Nat
    BY <1>1, <1>7
  <2>3. w \in {HashLength, bound}
    BY <1>1, <1>7, <2>1
  <2>4. \A k \in {HashLength, bound} : w <= k
    BY <1>7, <2>1
  <2> QED BY <2>2, <2>3, <2>4, LeastIs
<1> QED BY <1>4, <1>8, <1>9

\* Paths with the same first segment, as far as it is hashed, have the same hash.
LEMMA SameHash ==
    ASSUME NEW T, NEW p \in Seq(T), NEW u \in Seq(T), NEW w \in Nat,
           HashedTo(p, w), HashedTo(u, w), \A x \in 1 .. w + 1 : p[x] = u[x]
    PROVE  hash(p) = hash(u)
<1>1. w + 1 <= Len(p) /\ w + 1 <= Len(u)
  BY DEF HashedTo
<1>2. p # << >> /\ u # << >>
  BY <1>1
<1>0. PICK a, b : a = Tail(p) /\ b = Tail(u)
  OBVIOUS
<1>3. a \in Seq(T) /\ Len(a) = Len(p) - 1 /\ \A i \in 1 .. Len(p) - 1 : a[i] = p[i + 1]
  BY <1>0, <1>2
<1>4. b \in Seq(T) /\ Len(b) = Len(u) - 1 /\ \A i \in 1 .. Len(u) - 1 : b[i] = u[i + 1]
  BY <1>0, <1>2
<1>5. SubSeq(a, 1, w) = SubSeq(b, 1, w)
  <2>1. w <= Len(a) /\ w <= Len(b)
    BY <1>1, <1>3, <1>4
  <2>2. /\ SubSeq(a, 1, w) \in Seq(T) /\ Len(SubSeq(a, 1, w)) = w
        /\ \A i \in 1 .. w : SubSeq(a, 1, w)[i] = a[i]
    BY <1>3, <2>1
  <2>3. /\ SubSeq(b, 1, w) \in Seq(T) /\ Len(SubSeq(b, 1, w)) = w
        /\ \A i \in 1 .. w : SubSeq(b, 1, w)[i] = b[i]
    BY <1>4, <2>1
  <2>4. \A i \in 1 .. w : a[i] = b[i]
    <3> SUFFICES ASSUME NEW i \in 1 .. w PROVE a[i] = b[i]
      OBVIOUS
    <3>1. i \in 1 .. Len(p) - 1 /\ i \in 1 .. Len(u) - 1 /\ i + 1 \in 1 .. w + 1
      BY <1>1
    <3> QED BY <1>3, <1>4, <3>1
  <2> QED BY <2>2, <2>3, <2>4, SeqEqual
<1> QED BY <1>0, <1>5, HashIs

\* Where no wildcard is hashed the equality is finer than the hash: the paths
\* cannot differ before the end of the first segment, or of what is hashed of it.
LEMMA HashAgrees ==
    ASSUME NEW T, NEW p \in Seq(T), NEW u \in Seq(T), Literal(u), HashedLiteral(p),
           FirstSegmentWhole(p), FirstSegmentWhole(u), compare(p, u)
    PROVE  hash(p) = hash(u)
<1>0. HashLength \in Nat \ {0}
  BY HashLengthAssumption
<1>1. PICK v \in Nat : HashedTo(p, v)
  BY HashedExists
<1>2. PICK w \in Nat : HashedTo(u, w)
  BY HashedExists
<1>3. PICK n \in Nat, m \in Nat : n = Len(p) /\ m = Len(u)
  OBVIOUS
<1>4. ASSUME NEW x \in Nat, x < n, x < m, \A y \in 1 .. x : p[y] = u[y], p[x + 1] # u[x + 1],
             p[x + 1] \notin {"?", "*"}
      PROVE  FALSE
  <2>1. u[x + 1] \notin {"?", "*"}
    BY <1>3, <1>4 DEF Literal
  <2>2. x < Len(p) /\ x < Len(u)
    BY <1>3, <1>4
  <2> QED BY <1>4, <2>1, <2>2, FirstDifference
<1>5. ASSUME NEW x \in 1 .. v + 1 PROVE p[x] \notin {"?", "*"}
  <2>1. x \in DOMAIN p /\ x <= HashLength + 1 /\ \A y \in 2 .. x : p[y] # "/"
    BY <1>0, <1>1 DEF HashedTo
  <2> QED BY <2>1 DEF HashedLiteral
<1>6. /\ v + 1 <= n /\ v <= HashLength /\ (v < HashLength => v + 2 <= n /\ p[v + 2] = "/")
      /\ \A x \in 2 .. v + 1 : p[x] # "/"
  BY <1>1, <1>3 DEF HashedTo
<1>7. /\ w + 1 <= m /\ w <= HashLength /\ (w < HashLength => w + 2 <= m /\ u[w + 2] = "/")
      /\ \A x \in 2 .. w + 1 : u[x] # "/"
  BY <1>2, <1>3 DEF HashedTo
<1> DEFINE D == {x \in Nat : x < n /\ x < m /\ x <= v /\ x <= w /\ p[x + 1] # u[x + 1]}
<1>8. D = {}
  <2> SUFFICES ASSUME D # {} PROVE FALSE
    OBVIOUS
  <2>1. D \in SUBSET Nat
    OBVIOUS
  <2>2. PICK x \in D : \A y \in D : x <= y
    <3> HIDE DEF D
    <3> QED BY <2>1, LeastMember
  <2>3. x \in Nat /\ x < n /\ x < m /\ x <= v /\ x <= w /\ p[x + 1] # u[x + 1]
    OBVIOUS
  <2>4. ASSUME NEW y \in 1 .. x PROVE p[y] = u[y]
    <3>1. PICK z \in Nat : y = z + 1
      <4>1. y - 1 \in Nat /\ y = (y - 1) + 1
        OBVIOUS
      <4> QED BY <4>1
    <3>2. ~(x <= z) /\ z < n /\ z < m /\ z <= v /\ z <= w
      BY <2>3, <3>1
    <3> QED BY <2>2, <3>1, <3>2
  <2>5. p[x + 1] \notin {"?", "*"}
    <3>1. x + 1 \in 1 .. v + 1
      BY <2>3
    <3> QED BY <1>5, <3>1
  <2> QED BY <1>4, <2>3, <2>4, <2>5
<1>9. ASSUME NEW d \in Nat, d <= v, d <= w PROVE \A y \in 1 .. d + 1 : p[y] = u[y]
  <2> SUFFICES ASSUME NEW y \in 1 .. d + 1, p[y] # u[y] PROVE FALSE
    OBVIOUS
  <2>1. PICK z \in Nat : y = z + 1
    <3>1. y - 1 \in Nat /\ y = (y - 1) + 1
      OBVIOUS
    <3> QED BY <3>1
  <2>2. z < n /\ z < m /\ z <= v /\ z <= w
    BY <1>6, <1>7, <1>9, <2>1
  <2>3. z \in D
    BY <2>1, <2>2
  <2> QED BY <1>8, <2>3
<1> HIDE DEF D
<1>10. ~(v < w)
  <2> SUFFICES ASSUME v < w PROVE FALSE
    OBVIOUS
  <2>1. v + 2 <= n /\ p[v + 2] = "/" /\ v + 2 <= m /\ v + 2 \in 2 .. w + 1
    BY <1>0, <1>6, <1>7
  <2>2. p[v + 2] # u[v + 2]
    BY <1>7, <2>1
  <2>3. PICK x \in Nat : x = v + 1
    OBVIOUS
  <2>4. x < n /\ x < m /\ x + 1 = v + 2 /\ \A y \in 1 .. x : p[y] = u[y]
    <3>1. x < n /\ x < m /\ x + 1 = v + 2 /\ v <= v /\ v <= w
      BY <2>1, <2>3
    <3>2. \A y \in 1 .. v + 1 : p[y] = u[y]
      BY <1>9, <3>1
    <3> QED BY <2>3, <3>1, <3>2
  <2>5. p[x + 1] # u[x + 1] /\ p[x + 1] \notin {"?", "*"}
    BY <2>1, <2>2, <2>4
  <2> QED BY <1>4, <2>4, <2>5
<1>11. ~(w < v)
  <2> SUFFICES ASSUME w < v PROVE FALSE
    OBVIOUS
  <2>1. w + 2 <= m /\ u[w + 2] = "/" /\ w + 2 <= n /\ w + 2 \in 2 .. v + 1 /\ w + 2 \in 1 .. v + 1
    BY <1>0, <1>6, <1>7
  <2>2. p[w + 2] # u[w + 2] /\ p[w + 2] \notin {"?", "*"}
    BY <1>5, <1>6, <2>1
  <2>3. PICK x \in Nat : x = w + 1
    OBVIOUS
  <2>4. x < n /\ x < m /\ x + 1 = w + 2 /\ \A y \in 1 .. x : p[y] = u[y]
    <3>1. x < n /\ x < m /\ x + 1 = w + 2 /\ w <= v /\ w <= w
      BY <2>1, <2>3
    <3>2. \A y \in 1 .. w + 1 : p[y] = u[y]
      BY <1>9, <3>1
    <3> QED BY <2>3, <3>1, <3>2
  <2> QED BY <1>4, <2>2, <2>4
<1>12. v = w
  BY <1>10, <1>11
<1>13. \A y \in 1 .. w + 1 : p[y] = u[y]
  BY <1>9, <1>12
<1> QED BY <1>1, <1>2, <1>12, <1>13, SameHash

-----------------------------------------------------------------------------
(* Look-ups.                                                               *)

\* The paths of the table, over the characters T.
Paths(T) == \A r \in Routes : r.path \in Seq(T)

\* What a look-up of uri found matches, and when it found nothing no endpoint with a
\* literal first segment does.
LEMMA FoundMatches ==
    ASSUME NEW T, Paths(T), NEW u \in Seq(T), Literal(u)
    PROVE  /\ \A r \in find(u) : r \in Routes /\ Matches(r.path, u)
           /\ find(u) = {} /\ FirstSegmentWhole(u) =>
                \A r \in Routes : HashedLiteral(r.path) /\ FirstSegmentWhole(r.path) =>
                    ~Matches(r.path, u)
<1>1. \A r \in Routes : compare(r.path, u) <=> Matches(r.path, u)
  BY CompareIsMatches DEF Paths
<1>2. ASSUME FirstSegmentWhole(u),
             NEW r \in Routes, HashedLiteral(r.path), FirstSegmentWhole(r.path), Matches(r.path, u)
      PROVE  r \in find(u)
  <2>1. compare(r.path, u)
    BY <1>1, <1>2
  <2>2. hash(r.path) = hash(u)
    BY <1>2, <2>1, HashAgrees DEF Paths
  <2> QED BY <2>1, <2>2 DEF find
<1>3. \A r \in find(u) : r \in Routes /\ Matches(r.path, u)
  BY <1>1 DEF find
<1> QED BY <1>2, <1>3

\* Below a literal endpoint that no other one begins, or continues, only it is found.
LEMMA OnlyOwnIsFound ==
    ASSUME NEW T, Paths(T), NEW u \in Seq(T), NEW r \in Routes,
           FirstSegmentWhole(r.path), IsPrefix(r.path, u), \A q \in Routes : Literal(q.path),
           \A q \in Routes \ {r} : ~IsPrefix(q.path, r.path) /\ ~IsPrefix(r.path, q.path)
    PROVE  find(u) = {r}
<1>0. PICK p \in Seq(T) : p = r.path
  BY DEF Paths
<1>1. Len(p) <= Len(u) /\ \A x \in 1 .. Len(p) : p[x] = u[x]
  BY <1>0, PrefixIs
<1>2. compare(p, u)
  BY <1>1, PrefixIsEqual
<1>3. hash(p) = hash(u)
  <2>1. PICK w \in Nat : HashedTo(p, w)
    BY <1>0, HashedExists
  <2>2. /\ w <= HashLength /\ w + 1 <= Len(p) /\ p[1] = "/"
        /\ \A x \in 2 .. w + 1 : p[x] # "/"
        /\ w < HashLength => w + 2 <= Len(p) /\ p[w + 2] = "/"
    BY <2>1 DEF HashedTo
  <2>3. \A x \in 1 .. w + 1 : p[x] = u[x]
    BY <1>1, <2>2
  <2>4. w + 1 <= Len(u) /\ u[1] = "/" /\ \A x \in 2 .. w + 1 : u[x] # "/"
    BY <1>1, <2>2, <2>3
  <2>5. w < HashLength => w + 2 <= Len(u) /\ u[w + 2] = "/"
    BY <1>1, <2>2
  <2>6. HashedTo(u, w)
    BY <2>2, <2>4, <2>5 DEF HashedTo
  <2> QED BY <2>1, <2>3, <2>6, SameHash
<1>4. r \in find(u)
  BY <1>0, <1>2, <1>3 DEF find
<1>5. ASSUME NEW s \in find(u), s # r PROVE FALSE
  <2>1. s \in Routes /\ compare(s.path, u)
    BY DEF find
  <2>2. PICK q \in Seq(T) : q = s.path
    BY <2>1 DEF Paths
  <2>3. ~IsPrefix(q, p) /\ ~IsPrefix(p, q)
    BY <1>0, <1>5, <2>1, <2>2
  <2>4. PICK m \in Nat : /\ m < Len(q) /\ m < Len(p) /\ q[m + 1] # p[m + 1]
                         /\ \A x \in 1 .. m : q[x] = p[x]
    BY <2>3, Differ
  <2>5. Literal(q) /\ Literal(p)
    BY <1>0, <2>1, <2>2
  <2>6. m + 1 \in DOMAIN q /\ m + 1 \in DOMAIN p /\ p[m + 1] = u[m + 1] /\ m < Len(u)
    <3>1. m + 1 \in 1 .. Len(q) /\ m + 1 \in 1 .. Len(p)
      BY <2>4
    <3> QED BY <1>1, <2>4, <3>1
  <2>7. q[m + 1] \notin {"?", "*"} /\ u[m + 1] \notin {"?", "*"}
    BY <2>5, <2>6 DEF Literal
  <2>8. q[m + 1] # u[m + 1] /\ \A x \in 1 .. m : q[x] = u[x]
    <3>1. \A x \in 1 .. m : x \in 1 .. Len(p)
      BY <2>4
    <3> QED BY <1>1, <2>4, <2>6, <3>1
  <2>9. ~compare(q, u)
    BY <2>4, <2>6, <2>7, <2>8, FirstDifference
  <2> QED BY <2>1, <2>2, <2>9
<1> QED BY <1>4, <1>5
=============================================================================
