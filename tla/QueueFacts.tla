----------------------------- MODULE QueueFacts -----------------------------
(***************************************************************************)
(* How emplace and pop change what is in a queue and in which order: the    *)
(* lemmas about Queues that the proofs about the pool and the channels      *)
(* share.                                                                   *)
(***************************************************************************)
EXTENDS Queues, Integers, TLAPS

\* A queue is a function on 1 .. Len, and emplace adds one place to it.
LEMMA AppendShape ==
    ASSUME NEW S, NEW q \in Seq(S), NEW x \in S
    PROVE  /\ Append(q, x) \in Seq(S)
           /\ Len(q) \in Nat /\ DOMAIN q = 1..Len(q)
           /\ Len(Append(q, x)) = Len(q) + 1
           /\ DOMAIN Append(q, x) = 1..(Len(q) + 1)
           /\ \A i \in 1..Len(q) : Append(q, x)[i] = q[i]
           /\ Append(q, x)[Len(q) + 1] = x
<1>1. /\ Append(q, x) \in Seq(S)
      /\ Len(Append(q, x)) = Len(q) + 1
      /\ \A i \in 1..Len(q) : Append(q, x)[i] = q[i]
      /\ Append(q, x)[Len(q) + 1] = x
  OBVIOUS
<1> QED BY <1>1

\* Pop removes the first place.
LEMMA TailShape ==
    ASSUME NEW S, NEW q \in Seq(S), q # <<>>
    PROVE  /\ Len(q) \in Nat /\ Len(q) > 0 /\ DOMAIN q = 1..Len(q)
           /\ Head(q) = q[1] /\ Head(q) \in S
           /\ Tail(q) \in Seq(S) /\ Len(Tail(q)) = Len(q) - 1
           /\ DOMAIN Tail(q) = 1..(Len(q) - 1)
           /\ \A i \in 1..(Len(q) - 1) : Tail(q)[i] = q[i + 1]
<1>1. /\ Len(q) \in Nat /\ Len(q) > 0 /\ DOMAIN q = 1..Len(q)
      /\ Head(q) = q[1]
      /\ Tail(q) \in Seq(S) /\ Len(Tail(q)) = Len(q) - 1
      /\ \A i \in 1..(Len(q) - 1) : Tail(q)[i] = q[i + 1]
  OBVIOUS
<1> QED BY <1>1

\* The elements of a queue after emplace.
LEMMA ElementsAppend ==
    ASSUME NEW S, NEW q \in Seq(S), NEW x \in S
    PROVE  Elements(Append(q, x)) = Elements(q) \cup {x}
<1> DEFINE a == Append(q, x)
<1>1. /\ Len(q) \in Nat /\ DOMAIN q = 1..Len(q) /\ DOMAIN a = 1..(Len(q) + 1)
      /\ \A i \in 1..Len(q) : a[i] = q[i]
      /\ a[Len(q) + 1] = x
  BY AppendShape
<1> HIDE DEF a
<1>2. ASSUME NEW y PROVE y \in Elements(a) <=> y \in Elements(q) \cup {x}
  <2>1. ASSUME y \in Elements(a) PROVE y \in Elements(q) \cup {x}
    <3>1. PICK i \in 1..(Len(q) + 1) : y = a[i]
      BY <1>1, <2>1 DEF Elements
    <3> QED BY <1>1, <3>1 DEF Elements
  <2>2. ASSUME y \in Elements(q) PROVE y \in Elements(a)
    <3>1. PICK i \in 1..Len(q) : y = q[i]
      BY <1>1, <2>2 DEF Elements
    <3>2. i \in 1..(Len(q) + 1) /\ y = a[i]
      BY <1>1, <3>1
    <3> QED BY <1>1, <3>2 DEF Elements
  <2>3. x \in Elements(a)
    <3>1. Len(q) + 1 \in DOMAIN a
      BY <1>1
    <3> QED BY <1>1, <3>1 DEF Elements
  <2> QED BY <2>1, <2>2, <2>3
<1> QED BY <1>2 DEF a

\* Emplace of something new leaves a queue without duplicates.
LEMMA DistinctAppend ==
    ASSUME NEW S, NEW q \in Seq(S), NEW x \in S, Distinct(q), x \notin Elements(q)
    PROVE  Distinct(Append(q, x))
<1> DEFINE a == Append(q, x)
<1>1. /\ Len(q) \in Nat /\ DOMAIN q = 1..Len(q) /\ DOMAIN a = 1..(Len(q) + 1)
      /\ \A i \in 1..Len(q) : a[i] = q[i]
      /\ a[Len(q) + 1] = x
  BY AppendShape
<1>2. \A i \in 1..Len(q) : q[i] # x
  BY <1>1 DEF Elements
<1> HIDE DEF a
<1>3. ASSUME NEW i \in 1..(Len(q) + 1), NEW j \in 1..(Len(q) + 1), a[i] = a[j] PROVE i = j
  <2>1. CASE i \in 1..Len(q) /\ j \in 1..Len(q)
    BY <1>1, <1>3, <2>1 DEF Distinct
  <2>2. CASE i = Len(q) + 1 /\ j \in 1..Len(q)
    BY <1>1, <1>2, <1>3, <2>2
  <2>3. CASE i \in 1..Len(q) /\ j = Len(q) + 1
    BY <1>1, <1>2, <1>3, <2>3
  <2> QED BY <1>1, <2>1, <2>2, <2>3
<1>4. Distinct(a)
  BY <1>1, <1>3 DEF Distinct
<1> QED BY <1>4 DEF a

\* What is left of a queue without duplicates does not hold its old front.
LEMMA ElementsTail ==
    ASSUME NEW S, NEW q \in Seq(S), q # <<>>, Distinct(q)
    PROVE  /\ Head(q) \in Elements(q)
           /\ Elements(Tail(q)) = Elements(q) \ {Head(q)}
           /\ Distinct(Tail(q))
<1> DEFINE r == Tail(q)
<1>1. /\ Len(q) \in Nat /\ Len(q) > 0 /\ DOMAIN q = 1..Len(q)
      /\ Head(q) = q[1]
      /\ DOMAIN r = 1..(Len(q) - 1)
      /\ \A i \in 1..(Len(q) - 1) : r[i] = q[i + 1]
  BY TailShape
<1> HIDE DEF r
<1>3. Head(q) \in Elements(q)
  BY <1>1 DEF Elements
<1>4. Distinct(r)
  BY <1>1 DEF Distinct
<1>5. ASSUME NEW y PROVE y \in Elements(r) <=> y \in Elements(q) \ {Head(q)}
  <2>1. ASSUME y \in Elements(r) PROVE y \in Elements(q) \ {Head(q)}
    <3>1. PICK i \in 1..(Len(q) - 1) : y = q[i + 1]
      BY <1>1, <2>1 DEF Elements
    <3>2. i + 1 \in DOMAIN q /\ 1 \in DOMAIN q /\ i + 1 # 1
      BY <1>1
    <3> QED BY <1>1, <3>1, <3>2 DEF Elements, Distinct
  <2>2. ASSUME y \in Elements(q), y # Head(q) PROVE y \in Elements(r)
    <3>1. PICK i \in 1..Len(q) : y = q[i] /\ i # 1
      BY <1>1, <2>2 DEF Elements
    <3>2. i - 1 \in 1..(Len(q) - 1) /\ r[i - 1] = q[(i - 1) + 1] /\ (i - 1) + 1 = i
      BY <1>1, <3>1
    <3> QED BY <1>1, <3>1, <3>2 DEF Elements
  <2> QED BY <2>1, <2>2
<1> QED BY <1>3, <1>4, <1>5 DEF r

-----------------------------------------------------------------------------
(* Order.                                                                   *)

\* Only what is in a queue has a place in its order.
LEMMA PrecedesElements ==
    ASSUME NEW q, NEW x, NEW y, Precedes(q, x, y)
    PROVE  x \in Elements(q) /\ y \in Elements(q)
BY DEF Precedes, Elements

\* What is emplaced comes behind everything, and moves nothing.
LEMMA PrecedesAppend ==
    ASSUME NEW S, NEW q \in Seq(S), NEW z \in S, z \notin Elements(q), NEW x, NEW y
    PROVE  Precedes(Append(q, z), x, y) <=> (Precedes(q, x, y) \/ (y = z /\ x \in Elements(q)))
<1> DEFINE a == Append(q, z)
<1>1. /\ Len(q) \in Nat /\ DOMAIN q = 1..Len(q) /\ DOMAIN a = 1..(Len(q) + 1)
      /\ \A i \in 1..Len(q) : a[i] = q[i]
      /\ a[Len(q) + 1] = z
  BY AppendShape
<1> HIDE DEF a
<1>2. ASSUME Precedes(a, x, y) PROVE Precedes(q, x, y) \/ (y = z /\ x \in Elements(q))
  <2>1. PICK i, j \in 1..(Len(q) + 1) : i < j /\ a[i] = x /\ a[j] = y
    BY <1>1, <1>2 DEF Precedes
  <2>2. i \in 1..Len(q) /\ q[i] = x
    BY <1>1, <2>1
  <2>3. CASE j = Len(q) + 1
    BY <1>1, <2>1, <2>2, <2>3 DEF Elements
  <2>4. CASE j \in 1..Len(q)
    BY <1>1, <2>1, <2>2, <2>4 DEF Precedes
  <2> QED BY <1>1, <2>3, <2>4
<1>3. ASSUME Precedes(q, x, y) PROVE Precedes(a, x, y)
  <2>1. PICK i, j \in 1..Len(q) : i < j /\ q[i] = x /\ q[j] = y
    BY <1>1, <1>3 DEF Precedes
  <2>2. i \in DOMAIN a /\ j \in DOMAIN a /\ a[i] = x /\ a[j] = y
    BY <1>1, <2>1
  <2> QED BY <2>1, <2>2 DEF Precedes
<1>4. ASSUME y = z, x \in Elements(q) PROVE Precedes(a, x, y)
  <2>1. PICK i \in 1..Len(q) : q[i] = x
    BY <1>1, <1>4 DEF Elements
  <2>2. i \in DOMAIN a /\ Len(q) + 1 \in DOMAIN a /\ i < Len(q) + 1 /\ a[i] = x
    BY <1>1, <2>1
  <2> QED BY <1>1, <1>4, <2>2 DEF Precedes
<1>5. Precedes(a, x, y) <=> (Precedes(q, x, y) \/ (y = z /\ x \in Elements(q)))
  BY <1>2, <1>3, <1>4
<1> QED BY <1>5 DEF a

\* Pop takes what nothing precedes, and moves nothing else.
LEMMA PrecedesTail ==
    ASSUME NEW S, NEW q \in Seq(S), q # <<>>, Distinct(q), NEW x, NEW y
    PROVE  /\ ~Precedes(q, x, Head(q))
           /\ Precedes(Tail(q), x, y) <=> Precedes(q, x, y) /\ x # Head(q)
<1> DEFINE r == Tail(q)
<1>1. /\ Len(q) \in Nat /\ Len(q) > 0 /\ DOMAIN q = 1..Len(q)
      /\ Head(q) = q[1]
      /\ DOMAIN r = 1..(Len(q) - 1)
      /\ \A i \in 1..(Len(q) - 1) : r[i] = q[i + 1]
  BY TailShape
<1> HIDE DEF r
<1>2. ASSUME Precedes(q, x, Head(q)) PROVE FALSE
  <2>1. PICK i, j \in 1..Len(q) : i < j /\ q[j] = q[1]
    BY <1>1, <1>2 DEF Precedes
  <2>2. j = 1
    BY <1>1, <2>1 DEF Distinct
  <2> QED BY <2>1, <2>2
<1>3. ASSUME Precedes(r, x, y) PROVE Precedes(q, x, y) /\ x # Head(q)
  <2>1. PICK i, j \in 1..(Len(q) - 1) : i < j /\ r[i] = x /\ r[j] = y
    BY <1>1, <1>3 DEF Precedes
  <2>2. i + 1 \in 1..Len(q) /\ j + 1 \in 1..Len(q) /\ q[i + 1] = x /\ q[j + 1] = y
    BY <1>1, <2>1
  <2>3. i + 1 < j + 1 /\ i + 1 # 1
    BY <2>1
  <2>4. Precedes(q, x, y)
    BY <1>1, <2>2, <2>3 DEF Precedes
  <2>5. x # q[1]
    BY <1>1, <2>2, <2>3 DEF Distinct
  <2> QED BY <1>1, <2>4, <2>5
<1>4. ASSUME Precedes(q, x, y), x # Head(q) PROVE Precedes(r, x, y)
  <2>1. PICK i, j \in 1..Len(q) : i < j /\ q[i] = x /\ q[j] = y
    BY <1>1, <1>4 DEF Precedes
  <2>2. i # 1
    BY <1>1, <1>4, <2>1
  <2>3. i - 1 \in 1..(Len(q) - 1) /\ j - 1 \in 1..(Len(q) - 1) /\ i - 1 < j - 1
    BY <1>1, <2>1, <2>2
  <2>4. r[i - 1] = q[(i - 1) + 1] /\ r[j - 1] = q[(j - 1) + 1]
    BY <1>1, <2>3
  <2>5. r[i - 1] = x /\ r[j - 1] = y
    BY <2>1, <2>4
  <2> QED BY <1>1, <2>3, <2>5 DEF Precedes
<1>5. Precedes(r, x, y) <=> Precedes(q, x, y) /\ x # Head(q)
  BY <1>3, <1>4
<1> QED BY <1>2, <1>5 DEF r
=============================================================================
