--------------------------- MODULE HttpReadProofs ---------------------------
(***************************************************************************)
(* Proofs about the reading and parsing of a request, for any request, any  *)
(* query-limit and header-limit and any segmentation.                       *)
(***************************************************************************)
EXTENDS HttpRead, Integers, SequenceTheorems, TLAPS

\* What has been received is the beginning of the request and what is in the
\* socket goes on where it ends.
Streams(buffer, queue, whole, count) ==
    /\ count = Len(buffer) + Len(queue)
    /\ \A i \in 1 .. Len(buffer) : buffer[i] = whole[i]
    /\ \A i \in 1 .. Len(queue) : queue[i] = whole[Len(buffer) + i]

\* What the client has sent is in the buffer and in the socket, in order.
StreamInv ==
    /\ dataLength = Len(dataBuffer)
    /\ Streams(dataBuffer, socket, request, sent)

\* Where recv() writes next, and that it has room.
OffsetInv ==
    /\ pc = "recv" => noffset = dataLength /\ (MaxLength > 0 => noffset < MaxLength)
    /\ pc = "test" => noffset + nread = dataLength

ReadInv == TypeOK /\ StreamInv /\ OffsetInv

-----------------------------------------------------------------------------
(* Sequences.                                                               *)

\* A part of a sequence.
LEMMA PartShape ==
    ASSUME NEW q \in Seq(Unit), NEW c \in Nat, NEW n \in Nat, c <= n, n <= Len(q)
    PROVE  /\ SubSeq(q, c + 1, n) \in Seq(Unit)
           /\ Len(SubSeq(q, c + 1, n)) = n - c
           /\ \A i \in 1 .. (n - c) : SubSeq(q, c + 1, n)[i] = q[c + i]
<1>1. SubSeq(q, c + 1, n) \in Seq(Unit)
  OBVIOUS
<1>2. Len(SubSeq(q, c + 1, n)) = n - c
  OBVIOUS
<1>3. \A i \in 1 .. (n - c) : SubSeq(q, c + 1, n)[i] = q[c + i]
  OBVIOUS
<1> QED BY <1>1, <1>2, <1>3

\* The beginning of a sequence.
LEMMA FrontShape ==
    ASSUME NEW q \in Seq(Unit), NEW n \in Nat, n <= Len(q)
    PROVE  /\ SubSeq(q, 1, n) \in Seq(Unit)
           /\ Len(SubSeq(q, 1, n)) = n
           /\ \A i \in 1 .. n : SubSeq(q, 1, n)[i] = q[i]
<1>1. SubSeq(q, 1, n) \in Seq(Unit)
  OBVIOUS
<1>2. Len(SubSeq(q, 1, n)) = n
  OBVIOUS
<1>3. \A i \in 1 .. n : SubSeq(q, 1, n)[i] = q[i]
  OBVIOUS
<1> QED BY <1>1, <1>2, <1>3

\* Two sequences after each other.
LEMMA ConcatShape ==
    ASSUME NEW q \in Seq(Unit), NEW r \in Seq(Unit)
    PROVE  /\ q \o r \in Seq(Unit)
           /\ Len(q \o r) = Len(q) + Len(r)
           /\ \A i \in 1 .. Len(q) : (q \o r)[i] = q[i]
           /\ \A i \in 1 .. Len(r) : (q \o r)[Len(q) + i] = r[i]
<1>1. q \o r \in Seq(Unit) /\ Len(q \o r) = Len(q) + Len(r)
  OBVIOUS
<1>2. \A i \in 1 .. Len(q) : (q \o r)[i] = q[i]
  OBVIOUS
<1>3. \A i \in 1 .. Len(r) : (q \o r)[Len(q) + i] = r[i]
  OBVIOUS
<1> QED BY <1>1, <1>2, <1>3

\* What follows the end of a stream extends it.
LEMMA StreamExtended ==
    ASSUME NEW b \in Seq(Unit), NEW q \in Seq(Unit), NEW r \in Seq(Unit), NEW w \in Seq(Unit),
           NEW c \in Nat, NEW n \in Nat, c <= n, Streams(b, q, w, c),
           Len(r) = n - c, \A i \in 1 .. (n - c) : r[i] = w[c + i]
    PROVE  q \o r \in Seq(Unit) /\ Streams(b, q \o r, w, n)
<1>1. Len(b) \in Nat /\ Len(q) \in Nat /\ c = Len(b) + Len(q)
  BY DEF Streams
<1>2. q \o r \in Seq(Unit) /\ Len(q \o r) = Len(q) + Len(r)
  BY ConcatShape
<1>3. n = Len(b) + Len(q \o r)
  BY <1>1, <1>2
<1>4. ASSUME NEW i \in 1 .. Len(q \o r) PROVE (q \o r)[i] = w[Len(b) + i]
  <2>1. CASE i <= Len(q)
    <3>1. i \in 1 .. Len(q)
      BY <1>1, <1>2, <2>1
    <3>2. (q \o r)[i] = q[i] /\ q[i] = w[Len(b) + i]
      BY <3>1, ConcatShape DEF Streams
    <3> QED BY <3>2
  <2>2. CASE i > Len(q)
    <3>1. PICK j \in 1 .. (n - c) : i = Len(q) + j
      <4>1. i - Len(q) \in 1 .. (n - c) /\ i = Len(q) + (i - Len(q))
        BY <1>1, <1>2, <2>2
      <4> QED BY <4>1
    <3>2. (q \o r)[Len(q) + j] = r[j]
      BY <3>1, ConcatShape
    <3>3. Len(b) + i = c + j
      BY <1>1, <3>1
    <3> QED BY <3>1, <3>2, <3>3
  <2> QED BY <1>1, <1>2, <2>1, <2>2
<1> QED BY <1>2, <1>3, <1>4 DEF Streams

\* Moving the first n units of the queue behind the buffer keeps the stream.
LEMMA StreamMoved ==
    ASSUME NEW b \in Seq(Unit), NEW q \in Seq(Unit), NEW w \in Seq(Unit),
           NEW c \in Nat, NEW n \in Nat, n <= Len(q), Streams(b, q, w, c)
    PROVE  /\ b \o SubSeq(q, 1, n) \in Seq(Unit) /\ SubSeq(q, n + 1, Len(q)) \in Seq(Unit)
           /\ Len(b \o SubSeq(q, 1, n)) = Len(b) + n
           /\ Streams(b \o SubSeq(q, 1, n), SubSeq(q, n + 1, Len(q)), w, c)
<1> DEFINE a == SubSeq(q, 1, n)
           s == SubSeq(q, n + 1, Len(q))
<1>a. a \in Seq(Unit) /\ Len(a) = n /\ \A i \in 1 .. n : a[i] = q[i]
  BY FrontShape
<1>s. s \in Seq(Unit) /\ Len(s) = Len(q) - n /\ \A i \in 1 .. (Len(q) - n) : s[i] = q[n + i]
  <2>1. Len(q) \in Nat /\ Len(q) <= Len(q)
    OBVIOUS
  <2> QED BY <2>1, PartShape, Zenon
<1> HIDE DEF a, s
<1>1. /\ Len(b) \in Nat /\ Len(q) \in Nat /\ c = Len(b) + Len(q)
      /\ \A i \in 1 .. Len(b) : b[i] = w[i]
      /\ \A i \in 1 .. Len(q) : q[i] = w[Len(b) + i]
  BY DEF Streams
<1>2. b \o a \in Seq(Unit) /\ Len(b \o a) = Len(b) + n
  BY <1>a, ConcatShape
<1>3. c = Len(b \o a) + Len(s)
  BY <1>1, <1>2, <1>s
<1>4. ASSUME NEW i \in 1 .. Len(b \o a) PROVE (b \o a)[i] = w[i]
  <2>1. CASE i <= Len(b)
    <3>1. i \in 1 .. Len(b)
      BY <1>1, <1>2, <2>1
    <3>2. (b \o a)[i] = b[i]
      BY <1>a, <3>1, ConcatShape
    <3> QED BY <1>1, <3>1, <3>2
  <2>2. CASE i > Len(b)
    <3>1. PICK j \in 1 .. n : i = Len(b) + j
      <4>1. i - Len(b) \in 1 .. n /\ i = Len(b) + (i - Len(b))
        BY <1>1, <1>2, <2>2
      <4> QED BY <4>1
    <3>2. (b \o a)[Len(b) + j] = a[j]
      BY <1>a, <3>1, ConcatShape
    <3>3. j \in 1 .. Len(q)
      BY <1>1, <3>1
    <3> QED BY <1>a, <1>1, <3>1, <3>2, <3>3
  <2> QED BY <1>1, <1>2, <2>1, <2>2
<1>5. ASSUME NEW i \in 1 .. Len(s) PROVE s[i] = w[Len(b \o a) + i]
  <2>1. i \in 1 .. (Len(q) - n) /\ n + i \in 1 .. Len(q)
    BY <1>s, <1>1
  <2>2. Len(b) + (n + i) = Len(b \o a) + i
    BY <1>1, <1>2, <2>1
  <2> QED BY <1>s, <1>1, <2>1, <2>2
<1>6. Streams(b \o a, s, w, c)
  BY <1>3, <1>4, <1>5 DEF Streams
<1> QED BY <1>s, <1>2, <1>6 DEF a, s

-----------------------------------------------------------------------------
(* Reading.                                                                 *)

\* What the invariant says of the types, as the steps below use it.
LEMMA ReadTypes ==
    ReadInv => /\ request \in Seq(Unit) /\ socket \in Seq(Unit) /\ dataBuffer \in Seq(Unit)
               /\ sent \in Nat /\ Len(request) \in Nat /\ Len(socket) \in Nat
               /\ MaxLength \in Nat /\ PartLength \in Nat /\ dataLength \in Nat /\ noffset \in Nat /\ nread \in Nat
               /\ dataLength <= MaxLength /\ noffset <= MaxLength /\ nread <= MaxLength
               /\ dataLength = Len(dataBuffer) /\ sent <= Len(request)
               /\ sent = dataLength + Len(socket)
BY ReadAssumption DEF ReadInv, TypeOK, StreamInv, Streams

\* Segments arrive behind what is in the socket.
LEMMA ArriveKeepsReadInv == ReadInv /\ Arrive => ReadInv'
<1> SUFFICES ASSUME ReadInv, Arrive PROVE ReadInv'
  OBVIOUS
<1>1. PICK n \in sent + 1 .. Len(request) :
         sent' = n /\ socket' = socket \o SubSeq(request, sent + 1, n)
  BY DEF Arrive
<1>2. n \in Nat /\ sent <= n /\ n <= Len(request)
  BY <1>1, ReadTypes
<1>3. Streams(dataBuffer, socket, request, sent)
  BY DEF ReadInv, StreamInv
<1>4. socket' \in Seq(Unit) /\ Streams(dataBuffer, socket', request, n)
  <2> DEFINE r == SubSeq(request, sent + 1, n)
  <2>1. r \in Seq(Unit) /\ Len(r) = n - sent /\ \A i \in 1 .. (n - sent) : r[i] = request[sent + i]
    <3>1. request \in Seq(Unit) /\ sent \in Nat
      BY ReadTypes
    <3> QED BY <1>2, <3>1, PartShape
  <2> HIDE DEF r
  <2>2. socket \o r \in Seq(Unit) /\ Streams(dataBuffer, socket \o r, request, n)
    BY <1>2, <1>3, <2>1, ReadTypes, StreamExtended
  <2> QED BY <1>1, <2>2 DEF r
<1>5. UNCHANGED <<MaxLength, PartLength, request, closed, dataBuffer, dataLength, noffset, nread, pc, code,
                  Uri, Headers, Content>>
  BY DEF Arrive, readVars, parseVars
<1>6. sent' \in 0 .. Len(request)
  BY <1>1, <1>2, ReadTypes
<1>7. TypeOK'
  BY <1>4, <1>5, <1>6 DEF ReadInv, TypeOK
<1>8. StreamInv'
  BY <1>1, <1>4, <1>5 DEF ReadInv, StreamInv
<1>9. OffsetInv'
  BY <1>5 DEF ReadInv, OffsetInv
<1> QED BY <1>7, <1>8, <1>9 DEF ReadInv

\* recv() moves the first bytes of the socket behind what is in the buffer.
LEMMA RecvKeepsReadInv == ReadInv /\ Recv => ReadInv'
<1> SUFFICES ASSUME ReadInv, Recv PROVE ReadInv'
  OBVIOUS
<1>0. noffset = dataLength /\ pc = "recv"
  BY DEF ReadInv, OffsetInv, Recv
<1>1. PICK n \in Nat : nread' = n /\ n <= Len(socket) /\ n <= MaxLength - dataLength
  <2>1. nread' = IF Len(socket) < MaxLength - dataLength THEN Len(socket) ELSE MaxLength - dataLength
    BY <1>0 DEF Recv, SmallerOf
  <2>2. MaxLength - dataLength \in Nat /\ Len(socket) \in Nat
    BY ReadTypes
  <2>3. CASE Len(socket) < MaxLength - dataLength
    <3>1. nread' = Len(socket) /\ Len(socket) <= Len(socket) /\ Len(socket) <= MaxLength - dataLength
      BY <2>1, <2>2, <2>3
    <3> QED BY <2>2, <3>1, Zenon
  <2>4. CASE ~(Len(socket) < MaxLength - dataLength)
    <3>1. /\ nread' = MaxLength - dataLength /\ MaxLength - dataLength <= Len(socket)
          /\ MaxLength - dataLength <= MaxLength - dataLength
      BY <2>1, <2>2, <2>4
    <3> QED BY <2>2, <3>1, Zenon
  <2> QED BY <2>3, <2>4
<1>2. Streams(dataBuffer, socket, request, sent)
  BY DEF ReadInv, StreamInv
<1>3. SubSeq(dataBuffer, 1, noffset) = dataBuffer
  BY <1>0, ReadTypes, SubSeqFull
<1>4. /\ dataBuffer' \in Seq(Unit) /\ socket' \in Seq(Unit)
      /\ Len(dataBuffer') = Len(dataBuffer) + n
      /\ Streams(dataBuffer', socket', request, sent)
  <2>1. /\ dataBuffer \in Seq(Unit) /\ socket \in Seq(Unit) /\ request \in Seq(Unit)
        /\ sent \in Nat /\ n <= Len(socket)
    BY <1>1, ReadTypes
  <2>2. dataBuffer' = dataBuffer \o SubSeq(socket, 1, n) /\ socket' = SubSeq(socket, n + 1, Len(socket))
    BY <1>1, <1>3 DEF Recv
  <2> QED BY <1>2, <2>1, <2>2, StreamMoved
<1>5. dataLength' = dataLength + n
  BY <1>1 DEF Recv
<1>6. UNCHANGED <<MaxLength, PartLength, request, sent, closed, noffset, code, Uri, Headers, Content>>
  BY DEF Recv, parseVars
<1>7. pc' = IF n > 0 THEN "test" ELSE "parse"
  BY <1>1 DEF Recv
<1>8. dataLength' \in 0 .. MaxLength /\ nread' \in 0 .. MaxLength
  BY <1>1, <1>5, ReadTypes
<1>9. pc' \in {"test", "parse"}
  BY <1>7
<1>10. TypeOK'
  BY <1>0, <1>4, <1>6, <1>8, <1>9 DEF ReadInv, TypeOK
<1>11. StreamInv'
  BY <1>4, <1>5, <1>6, ReadTypes DEF StreamInv
<1>12. noffset' + nread' = dataLength'
  BY <1>0, <1>1, <1>5, <1>6, ReadTypes
<1>13. OffsetInv'
  BY <1>9, <1>12 DEF OffsetInv
<1> QED BY <1>10, <1>11, <1>13 DEF ReadInv

\* The test of the loop goes on where the last recv() ended, and only with room.
LEMMA TestKeepsReadInv == ReadInv /\ Test => ReadInv'
<1> SUFFICES ASSUME ReadInv, Test PROVE ReadInv'
  OBVIOUS
<1>1. noffset + nread = dataLength /\ pc = "test"
  BY DEF ReadInv, OffsetInv, Test
<1>2. UNCHANGED <<MaxLength, PartLength, request, sent, socket, closed, dataBuffer, dataLength, nread, code,
                  Uri, Headers, Content>>
  BY DEF Test, netVars, parseVars
<1>3. noffset' = (IF socket = <<>> THEN noffset ELSE dataLength)
  BY <1>1 DEF Test
<1>4. noffset' \in 0 .. MaxLength
  BY <1>3, ReadTypes
<1>5. pc' \in {"recv", "parse"}
  BY DEF Test
<1>6. pc' = "recv" => socket # <<>> /\ noffset' + Len(socket) < MaxLength
  BY DEF Test
<1>7. pc' = "recv" => noffset' = dataLength /\ noffset' < MaxLength
  BY <1>3, <1>6, ReadTypes
<1>8. TypeOK'
  BY <1>1, <1>2, <1>4, <1>5 DEF ReadInv, TypeOK
<1>9. StreamInv'
  BY <1>2 DEF ReadInv, StreamInv
<1>10. OffsetInv'
  BY <1>2, <1>5, <1>7 DEF OffsetInv
<1> QED BY <1>8, <1>9, <1>10 DEF ReadInv

-----------------------------------------------------------------------------
(* Parsing.                                                                 *)

\* A head has PartLength units and starts with what has been received.
LEMMA HeadShape ==
    ASSUME ReadInv, NEW head \in Heads
    PROVE  /\ Len(head) = PartLength /\ head \in Seq(Unit)
           /\ \A i \in 1 .. PartLength : i <= dataLength => head[i] = dataBuffer[i]
<1>1. PICK k \in Nat : SmallerOf(dataLength, PartLength) = k
  BY ReadTypes DEF SmallerOf
<1>2. /\ k <= dataLength /\ k <= PartLength /\ PartLength \in Nat
      /\ \A i \in 1 .. PartLength : i <= dataLength => i \in 1 .. k
  BY <1>1, ReadTypes DEF SmallerOf
<1> DEFINE received == SubSeq(dataBuffer, 1, k)
<1>3. received \in Seq(Unit) /\ Len(received) = k /\ \A i \in 1 .. k : received[i] = dataBuffer[i]
  <2>1. dataBuffer \in Seq(Unit) /\ k <= Len(dataBuffer)
    BY <1>2, ReadTypes
  <2> QED BY <2>1, FrontShape
<1>4. PICK rest \in [1 .. PartLength - Len(received) -> Unit] : head = received \o rest
  BY <1>1 DEF Heads
<1> HIDE DEF received
<1>5. PICK m \in Nat : m = PartLength - k
  BY <1>2
<1>6. rest \in Seq(Unit) /\ Len(rest) = m
  <2>1. rest \in [1 .. m -> Unit]
    BY <1>3, <1>4, <1>5
  <2> QED BY <2>1
<1>7. /\ head \in Seq(Unit) /\ Len(head) = k + m
      /\ \A i \in 1 .. k : head[i] = received[i]
  BY <1>3, <1>4, <1>6, ConcatShape
<1>8. k + m = PartLength
  BY <1>2, <1>5
<1> QED BY <1>2, <1>3, <1>7, <1>8

\* The first empty line is in one place.
LEMMA OneSeparator ==
    ASSUME NEW head \in Seq(Unit), NEW p \in Nat \ {0}, NEW r \in Nat,
           SeparatorAt(head, p), SeparatorAt(head, r)
    PROVE  r = p
<1>1. p \in DOMAIN head /\ head[p] = "sep" /\ \A i \in DOMAIN head : i < p => head[i] # "sep"
  BY DEF SeparatorAt
<1>2. r # 0
  BY <1>1 DEF SeparatorAt
<1>3. r \in DOMAIN head /\ head[r] = "sep" /\ \A i \in DOMAIN head : i < r => head[i] # "sep"
  BY <1>2 DEF SeparatorAt
<1>4. ~(r < p) /\ ~(p < r)
  BY <1>1, <1>3
<1> QED BY <1>4

\* The parser writes the outcome and nothing else.
LEMMA ParseKeepsReadInv == ReadInv /\ (ParseEmpty \/ ParseHead) => ReadInv'
<1>1. ASSUME ReadInv, ParseEmpty PROVE ReadInv'
  <2>1. pc' = "done" /\ code' = 400
    BY <1>1 DEF ParseEmpty
  <2>2. UNCHANGED <<MaxLength, PartLength, request, sent, socket, closed, dataBuffer, dataLength, noffset, nread,
                    Uri, Headers, Content>>
    BY <1>1 DEF ParseEmpty, netVars, readVars
  <2>3. TypeOK'
    BY <1>1, <2>1, <2>2 DEF ReadInv, TypeOK, NotYet
  <2>4. StreamInv' /\ OffsetInv'
    BY <1>1, <2>1, <2>2 DEF ReadInv, StreamInv, OffsetInv
  <2> QED BY <2>3, <2>4 DEF ReadInv
<1>2. ASSUME ReadInv, ParseHead PROVE ReadInv'
  <2>1. pc' = "done" /\ dataLength > 0
    BY <1>2 DEF ParseHead
  <2>2. UNCHANGED <<MaxLength, PartLength, request, sent, socket, closed, dataBuffer, dataLength, noffset, nread>>
    BY <1>2 DEF ParseHead, netVars, readVars
  <2>3. code' \in {0, 400, 405, 431} /\ Uri' \in BOOLEAN
    <3>1. code' \in {0, 400, 405, 431}
      BY <1>2 DEF ParseHead
    <3>2. PICK head \in Heads, p \in 0 .. PartLength :
             Uri' = Uri \/ Uri' = (1 \in (IF p = 0 THEN 1 .. Len(head) ELSE 1 .. p - 2))
      BY <1>2 DEF ParseHead
    <3>3. Uri \in BOOLEAN
      BY <1>2 DEF ReadInv, TypeOK
    <3> DEFINE first == 1 \in (IF p = 0 THEN 1 .. Len(head) ELSE 1 .. p - 2)
    <3>4. first \in BOOLEAN
      OBVIOUS
    <3>5. Uri' = Uri \/ Uri' = first
      BY <3>2
    <3> HIDE DEF first
    <3>6. Uri' \in BOOLEAN
      BY <3>3, <3>4, <3>5, Zenon
    <3> QED BY <3>1, <3>6
  <2>4. Headers' \subseteq 2 .. PartLength /\ Content' \in Seq(Unit)
    <3>1. PICK head \in Heads, p \in 0 .. PartLength :
             \/ UNCHANGED <<Headers, Content>>
             \/ /\ Headers' = {i \in (IF p = 0 THEN 1 .. Len(head) ELSE 1 .. p - 2) : i > 1 /\ head[i] = "hdr"}
                /\ Content' = IF p = 0 THEN Content ELSE ContentFrom(p)
      BY <1>2 DEF ParseHead
    <3>2. PartLength \in Nat /\ Len(head) = PartLength /\ p \in Nat /\ p <= PartLength
      BY <1>2, <3>1, ReadTypes, HeadShape
    <3>3. Content \in Seq(Unit) /\ Headers \subseteq 2 .. PartLength
      BY <1>2 DEF ReadInv, TypeOK
    <3>4. ContentFrom(p) \in Seq(Unit)
      BY <1>2, <3>2, ReadTypes DEF ContentFrom
    <3>5. \A i \in (IF p = 0 THEN 1 .. Len(head) ELSE 1 .. p - 2) : i > 1 => i \in 2 .. PartLength
      BY <3>2
    <3> QED BY <3>1, <3>3, <3>4, <3>5
  <2>6. TypeOK'
    BY <1>2, <2>1, <2>2, <2>3, <2>4 DEF ReadInv, TypeOK, NotYet
  <2>7. StreamInv'
    BY <1>2, <2>2 DEF ReadInv, StreamInv
  <2>8. OffsetInv'
    BY <2>1 DEF OffsetInv
  <2> QED BY <2>6, <2>7, <2>8 DEF ReadInv
<1> QED BY <1>1, <1>2

\* The steps that move no byte.
LEMMA OtherKeepsReadInv == ReadInv /\ (CloseSend \/ RecvFail \/ UNCHANGED vars) => ReadInv'
<1>1. ASSUME ReadInv, CloseSend PROVE ReadInv'
  BY <1>1 DEF CloseSend, ReadInv, TypeOK, StreamInv, OffsetInv, readVars, parseVars
<1>2. ASSUME ReadInv, RecvFail PROVE ReadInv'
  BY <1>2 DEF RecvFail, ReadInv, TypeOK, StreamInv, OffsetInv, netVars, readVars, NotYet
<1>3. ASSUME ReadInv, UNCHANGED vars PROVE ReadInv'
  BY <1>3 DEF ReadInv, TypeOK, StreamInv, OffsetInv, vars, netVars, readVars, parseVars
<1> QED BY <1>1, <1>2, <1>3

\* The invariant holds at the start, when nothing has come.
LEMMA InitReadInv == Init => ReadInv
<1> SUFFICES ASSUME Init PROVE ReadInv
  OBVIOUS
<1>1. MaxLength \in Nat /\ request \in Seq(Unit) /\ Len(request) \in Nat
  BY ReadAssumption DEF Init
<1>2. TypeOK
  <2>1. /\ sent \in 0 .. Len(request)
        /\ dataLength \in 0 .. MaxLength /\ noffset \in 0 .. MaxLength /\ nread \in 0 .. MaxLength
    BY <1>1 DEF Init
  <2>2. socket \in Seq(Unit) /\ dataBuffer \in Seq(Unit) /\ Content \in Seq(Unit)
    BY DEF Init
  <2>3. /\ MaxLength \in MaxLengths /\ PartLength \in PartLengths /\ request \in Requests
        /\ closed \in BOOLEAN /\ Uri \in BOOLEAN /\ Headers \subseteq 2 .. PartLength
    BY DEF Init
  <2>4. pc = "recv" /\ code = NotYet
    BY DEF Init
  <2> QED BY <2>1, <2>2, <2>3, <2>4 DEF TypeOK
<1>3. StreamInv
  BY DEF Init, StreamInv, Streams
<1>4. OffsetInv
  BY <1>1 DEF Init, OffsetInv
<1> QED BY <1>2, <1>3, <1>4 DEF ReadInv

\* Every step keeps the invariant.
LEMMA NextKeepsReadInv == ReadInv /\ [Next]_vars => ReadInv'
BY ArriveKeepsReadInv, RecvKeepsReadInv, TestKeepsReadInv, ParseKeepsReadInv, OtherKeepsReadInv
DEF Next, Done

\* The invariant holds always.
LEMMA ReadInvAlways == Spec => []ReadInv
BY InitReadInv, NextKeepsReadInv, PTL DEF Spec

-----------------------------------------------------------------------------
(* What the reader and the parser promise.                                  *)

\* The reader's offsets stay inside the buffer, and the parser's outcomes are
\* statuses it knows: TypeOK of every state.
THEOREM TypeCorrect == Spec => []TypeOK
BY ReadInvAlways, PTL DEF ReadInv

\* The buffer is the beginning of the request, for any request, limits and
\* segmentation: the recv() calls leave no gap, and none is made without room.
THEOREM BytesInOrder == Spec => []ReadsPrefix
<1>1. ReadInv => ReadsPrefix
  <2> SUFFICES ASSUME ReadInv PROVE ReadsPrefix
    OBVIOUS
  <2>1. dataLength = Len(dataBuffer) /\ Len(dataBuffer) <= Len(request)
    BY ReadTypes
  <2>2. \A i \in 1 .. Len(dataBuffer) : dataBuffer[i] = request[i]
    BY DEF ReadInv, StreamInv, Streams
  <2>3. IsPrefix(dataBuffer, request)
    <3> DEFINE front == SubSeq(request, 1, Len(dataBuffer))
    <3>1. front \in Seq(Unit) /\ Len(front) = Len(dataBuffer)
          /\ \A i \in 1 .. Len(dataBuffer) : front[i] = request[i]
      <4>1. request \in Seq(Unit) /\ Len(dataBuffer) \in Nat
        BY ReadTypes
      <4> QED BY <2>1, <4>1, FrontShape, Zenon
    <3>2. dataBuffer = front
      <4> HIDE DEF front
      <4>1. dataBuffer \in Seq(Unit)
        BY ReadTypes
      <4> QED BY <2>2, <3>1, <4>1, SeqEqual
    <3> QED BY <2>1, <3>2 DEF IsPrefix
  <2> QED BY <2>1, <2>3 DEF ReadInv, OffsetInv, ReadsPrefix
<1> QED BY <1>1, ReadInvAlways, PTL

\* The parser finds the separator and the content of a request that it has whole.
LEMMA ParseHeadComplete ==
    ASSUME ReadInv, ParseHead, NEW p \in 3 .. PartLength, dataLength = Len(request),
           SeparatorAt(request, p), request[1] = "get"
    PROVE  code' = 0 /\ Uri' /\ Content' = SubSeq(request, p + 1, Len(request))
<1>1. /\ request \in Seq(Unit) /\ dataBuffer \in Seq(Unit) /\ Len(dataBuffer) = Len(request)
      /\ PartLength \in Nat /\ p \in Nat /\ p >= 3 /\ p <= PartLength
  BY ReadTypes
<1>2. /\ p \in 1 .. Len(request) /\ request[p] = "sep"
      /\ \A i \in 1 .. Len(request) : i < p => request[i] # "sep"
  BY <1>1 DEF SeparatorAt
<1>3. \A i \in 1 .. Len(request) : dataBuffer[i] = request[i]
  BY <1>1 DEF ReadInv, StreamInv, Streams
<1>4. dataBuffer = request
  BY <1>1, <1>3, SeqEqual
<1>5. PICK head \in Heads, r \in 0 .. PartLength :
         LET lines == IF r = 0 THEN 1 .. Len(head) ELSE 1 .. r - 2
         IN  /\ SeparatorAt(head, r)
             /\ \/ ~(head # <<>> /\ head[1] \in {"get", "tab"})
                \/ head[1] = "tab" /\ 1 \in lines
                \/ /\ code' = IF r = 0 THEN 431 ELSE 0
                   /\ Uri' = (1 \in lines)
                   /\ Content' = IF r = 0 THEN Content ELSE ContentFrom(r)
  BY DEF ParseHead
<1>6. /\ head \in Seq(Unit) /\ Len(head) = PartLength
      /\ \A i \in 1 .. PartLength : i <= dataLength => head[i] = request[i]
  BY <1>4, <1>5, HeadShape
<1>7. Len(request) \in Nat /\ \A i \in 1 .. p : i \in 1 .. PartLength /\ i <= dataLength
  BY <1>1, <1>2
<1>8. \A i \in 1 .. p : head[i] = request[i]
  BY <1>6, <1>7
<1>9. head[1] = "get" /\ head[p] = "sep"
  BY <1>1, <1>2, <1>8
<1>10. \A i \in 1 .. Len(head) : i < p => head[i] # "sep"
  BY <1>1, <1>2, <1>6, <1>7, <1>8
<1>11. SeparatorAt(head, p)
  BY <1>1, <1>6, <1>9, <1>10 DEF SeparatorAt
<1>12. r = p
  <2>1. p \in Nat \ {0} /\ r \in Nat
    BY <1>1, <1>5
  <2> QED BY <1>5, <1>6, <1>11, <2>1, OneSeparator
<1>13. p # 0 /\ 1 \in 1 .. p - 2 /\ head # <<>>
  BY <1>1, <1>6
<1>14. code' = 0 /\ Content' = ContentFrom(p)
  BY <1>5, <1>9, <1>12, <1>13
<1>15. Uri'
  BY <1>5, <1>9, <1>12, <1>13
<1> QED BY <1>4, <1>14, <1>15 DEF ContentFrom

\* A request that arrived whole, with a known method, at least one header line
\* and its header inside the limit, is accepted with its path and its whole content, whatever memory follows it in the head.
THEOREM WholeRequestAccepted == Spec => []CompleteRequestParsed
<1>1. Init => CompleteRequestParsed
  BY DEF Init, CompleteRequestParsed
<1>2. ASSUME ReadInv, CompleteRequestParsed, [Next]_vars PROVE CompleteRequestParsed'
  <2>1. CASE ParseHead
    <3> SUFFICES ASSUME NEW p \in 3 .. PartLength', (dataLength = Len(request))',
                        SeparatorAt(request', p), request'[1] = "get"
                 PROVE  code' = 0 /\ Uri' /\ Content' = SubSeq(request', p + 1, Len(request'))
      BY DEF CompleteRequestParsed
    <3>1. request' = request /\ dataLength' = dataLength /\ PartLength' = PartLength
      BY <2>1 DEF ParseHead, netVars, readVars
    <3> QED BY <1>2, <2>1, <3>1, ParseHeadComplete
  <2>2. CASE ParseEmpty
    <3>1. dataLength' = 0 /\ request' = request /\ PartLength' = PartLength
      BY <2>2 DEF ParseEmpty, netVars, readVars
    <3>2. ASSUME NEW p \in 3 .. PartLength, 0 = Len(request) PROVE ~SeparatorAt(request, p)
      <4>1. request \in Seq(Unit) /\ p # 0
        BY <1>2, ReadTypes
      <4>2. p \notin DOMAIN request
        BY <4>1, <3>2
      <4> QED BY <4>1, <4>2 DEF SeparatorAt
    <3> QED BY <3>1, <3>2 DEF CompleteRequestParsed
  <2>3. CASE RecvFail
    BY <2>3 DEF RecvFail, CompleteRequestParsed
  <2>4. CASE Recv \/ Test
    <3>1. pc' # "done"
      BY <2>4 DEF Recv, Test
    <3> QED BY <3>1 DEF CompleteRequestParsed
  <2>5. CASE Arrive \/ CloseSend \/ Done \/ UNCHANGED vars
    <3>1. UNCHANGED <<pc, code, dataLength, request, PartLength, Uri, Content>>
      BY <2>5 DEF Arrive, CloseSend, Done, vars, netVars, readVars, parseVars
    <3> QED BY <1>2, <3>1 DEF CompleteRequestParsed, SeparatorAt
  <2> QED BY <1>2, <2>1, <2>2, <2>3, <2>4, <2>5 DEF Next
<1> QED BY <1>1, <1>2, ReadInvAlways, PTL DEF Spec
=============================================================================
