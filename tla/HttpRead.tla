------------------------------ MODULE HttpRead ------------------------------
(***************************************************************************)
(* HttpImpl::Process (src/kernel/net/impl/httpimpl.cpp): a request is read  *)
(* by ReadBufferImpl::Read, in as many calls of recv() as there happen to   *)
(* be bytes, and parsed by http_parse_request.                              *)
(*                                                                          *)
(* The bytes are grouped into units: "get" is a request line with a known   *)
(* method and a path, "bad" one with an unknown method, "tab" one whose     *)
(* path ends with a tabulator, "hdr" a header line, "sep" the empty line    *)
(* that ends the header, "body" a piece of the content.  A limit counts     *)
(* units.  Segments arrive between any two system calls.                    *)
(***************************************************************************)
EXTENDS Naturals, Sequences, SequencesExt

CONSTANTS Requests,    \* what clients may send
          MaxLengths,  \* the values query-limit may have
          PartLengths  \* the values header-limit may have

Unit == {"get", "bad", "tab", "hdr", "sep", "body"}

ASSUME ReadAssumption ==
    /\ Requests \subseteq Seq(Unit)
    /\ MaxLengths \subseteq Nat
    /\ PartLengths \subseteq Nat

VARIABLES
    MaxLength,   \* query-limit of the listener: the size of the buffer
    PartLength,  \* header-limit of the listener: how much of the buffer is the head
    request,     \* what the client sends
    sent,        \* how many units of it have left the client
    socket,      \* units in the socket's receive buffer
    closed,      \* the client has closed its side, or the connection is reset
    dataBuffer,  \* what has been written to the buffer
    dataLength,  \* ReadBufferImpl::dataLength
    noffset,     \* Read's local: where the next recv() writes
    nread,       \* Read's local: the last result of recv()
    pc,          \* where the handler is
    code,        \* 0: accepted; else the status of the answer
    Uri,         \* TRUE: Request.Uri has been assigned
    Headers,     \* the positions of the header lines kept
    Content      \* Request.Content

netVars == <<MaxLength, PartLength, request, sent, socket, closed>>
readVars == <<dataBuffer, dataLength, noffset, nread>>
parseVars == <<code, Uri, Headers, Content>>
vars == <<netVars, readVars, pc, parseVars>>

NotYet == 1  \* code before an outcome is known
SmallerOf(a, b) == IF a < b THEN a ELSE b

Init ==
    /\ MaxLength \in MaxLengths
    /\ PartLength \in PartLengths
    /\ request \in Requests
    /\ sent = 0
    /\ socket = <<>>
    /\ closed = FALSE
    /\ dataBuffer = <<>> /\ dataLength = 0
    /\ noffset = 0 /\ nread = 0
    /\ pc = "recv"
    /\ code = NotYet /\ Uri = FALSE /\ Headers = {} /\ Content = <<>>

-----------------------------------------------------------------------------
(* The client and the network.                                              *)

Arrive ==
    /\ ~closed
    /\ \E n \in sent + 1 .. Len(request) :
          /\ sent' = n
          /\ socket' = socket \o SubSeq(request, sent + 1, n)
    /\ UNCHANGED <<MaxLength, PartLength, request, closed, readVars, pc, parseVars>>

CloseSend ==
    /\ ~closed
    /\ closed' = TRUE
    /\ UNCHANGED <<MaxLength, PartLength, request, sent, socket, readVars, pc, parseVars>>

-----------------------------------------------------------------------------
(* ReadBufferImpl::Read.                                                    *)

\* recv() blocks until there is something, or the client has closed; into a
\* buffer of length 0 it then reads nothing.
Recv ==
    /\ pc = "recv"
    /\ socket # <<>> \/ closed
    /\ nread' = SmallerOf(Len(socket), MaxLength - noffset)
    /\ dataBuffer' = SubSeq(dataBuffer, 1, noffset) \o SubSeq(socket, 1, nread')
    /\ socket' = SubSeq(socket, nread' + 1, Len(socket))
    /\ dataLength' = dataLength + nread'
    /\ pc' = IF nread' > 0 THEN "test" ELSE "parse"
    /\ UNCHANGED <<MaxLength, PartLength, request, sent, closed, noffset, parseVars>>

\* The connection was reset, or a signal came while recv() was waiting, whose
\* handler was installed without SA_RESTART: 408.
RecvFail ==
    /\ pc = "recv"
    /\ closed \/ socket = <<>>
    /\ code' = 408
    /\ pc' = "done"
    /\ UNCHANGED <<netVars, readVars, Uri, Headers, Content>>

\* Bug: the reader waits for the end of the stream.
Test_UntilEof ==
    /\ pc = "test"
    /\ noffset' = noffset + nread
    /\ pc' = IF noffset' < MaxLength THEN "recv" ELSE "parse"
    /\ UNCHANGED <<netVars, dataBuffer, dataLength, nread, parseVars>>

\* Bug: the offset is not advanced.
Test_NoAdvance ==
    /\ pc = "test"
    /\ pc' = IF socket # <<>> /\ noffset + Len(socket) < MaxLength THEN "recv" ELSE "parse"
    /\ UNCHANGED <<netVars, readVars, parseVars>>

\* The condition of the loop: go on while more bytes are there (FIONREAD) and
\* all of them fit.
Test ==
    /\ pc = "test"
    /\ noffset' = IF socket = <<>> THEN noffset ELSE noffset + nread
    /\ pc' = IF socket # <<>> /\ noffset' + Len(socket) < MaxLength THEN "recv" ELSE "parse"
    /\ UNCHANGED <<netVars, dataBuffer, dataLength, nread, parseVars>>

-----------------------------------------------------------------------------
(* http_parse_request.                                                      *)

\* The head is the first PartLength units of the buffer, whatever was received:
\* the rest of it is memory nobody has written, behind the buffer too when
\* header-limit is larger than query-limit.
Heads ==
    LET received == SubSeq(dataBuffer, 1, SmallerOf(dataLength, PartLength))
    IN  {received \o rest : rest \in [1 .. PartLength - Len(received) -> Unit]}

\* The first empty line is at p; p = 0: there is none.
SeparatorAt(head, p) ==
    /\ p = 0 \/ (p \in DOMAIN head /\ head[p] = "sep")
    /\ \A i \in DOMAIN head : p = 0 \/ i < p => head[i] # "sep"

\* Bug: the content starts with the separator.
ContentFrom_Separator(p) == SubSeq(dataBuffer, p, dataLength)

ContentFrom(p) == SubSeq(dataBuffer, p + 1, dataLength)

ParseEmpty ==
    /\ pc = "parse"
    /\ dataLength = 0
    /\ code' = 400
    /\ pc' = "done"
    /\ UNCHANGED <<netVars, readVars, Uri, Headers, Content>>

\* A head that does not start with a known method, the empty head of a
\* header-limit of 0 too, is refused.  The line that ends with the separator is
\* not looked at any more: neither a request line without headers nor the last
\* header.
ParseHead ==
    /\ pc = "parse"
    /\ dataLength > 0
    /\ \E head \in Heads, p \in 0 .. PartLength :
          LET lines == IF p = 0 THEN 1 .. Len(head) ELSE 1 .. p - 2
              method == head # <<>> /\ head[1] \in {"get", "tab"}
          IN  /\ SeparatorAt(head, p)
              /\ \/ /\ ~method
                    /\ code' = 405
                    /\ UNCHANGED <<Uri, Headers, Content>>
                 \/ /\ method /\ head[1] = "tab" /\ 1 \in lines
                    /\ code' = 400
                    /\ UNCHANGED <<Uri, Headers, Content>>
                 \/ /\ method /\ (head[1] = "get" \/ 1 \notin lines)
                    /\ code' = IF p = 0 THEN 431 ELSE 0
                    /\ Uri' = (1 \in lines)
                    /\ Headers' = {i \in lines : i > 1 /\ head[i] = "hdr"}
                    /\ Content' = IF p = 0 THEN Content ELSE ContentFrom(p)
    /\ pc' = "done"
    /\ UNCHANGED <<netVars, readVars>>

-----------------------------------------------------------------------------

Process == Recv \/ Test \/ ParseEmpty \/ ParseHead

\* The request has been read and parsed, or refused.
Done == pc = "done" /\ UNCHANGED vars

Next ==
    \/ Arrive \/ CloseSend
    \/ Recv \/ RecvFail \/ Test \/ ParseEmpty \/ ParseHead
    \/ Done

Spec == Init /\ [][Next]_vars

\* The handler's thread runs when it can; nothing makes a client send, and
\* nothing makes recv() fail.
FairSpec == Spec /\ WF_vars(Process)

-----------------------------------------------------------------------------
(* Properties.                                                              *)

\* Every variable has the shape the code gives it, and an outcome is one of the
\* statuses Process knows.
TypeOK ==
    /\ MaxLength \in MaxLengths
    /\ PartLength \in PartLengths
    /\ request \in Requests
    /\ sent \in 0 .. Len(request)
    /\ socket \in Seq(Unit)
    /\ closed \in BOOLEAN
    /\ dataBuffer \in Seq(Unit)
    /\ dataLength \in 0 .. MaxLength
    /\ noffset \in 0 .. MaxLength
    /\ nread \in 0 .. MaxLength
    /\ pc \in {"recv", "test", "parse", "done"}
    /\ code \in {0, NotYet, 400, 405, 408, 431}
    /\ pc = "done" <=> code # NotYet
    /\ Uri \in BOOLEAN
    /\ Headers \subseteq 2 .. PartLength
    /\ Content \in Seq(Unit)

\* What has been read is the beginning of what the client sent: the calls of
\* recv() leave no gap and overwrite nothing, however the segments arrive, and
\* in a buffer that has a length none is made without room, when it would return
\* 0 and a full buffer would look like a client that has closed.
ReadsPrefix ==
    /\ dataLength = Len(dataBuffer)
    /\ IsPrefix(dataBuffer, request)
    /\ pc = "recv" => noffset = dataLength
    /\ pc = "recv" /\ MaxLength > 0 => noffset < MaxLength

\* A request that was received to its end, with a known method, at least one
\* header line and a header that fits the limit, is accepted with its path and
\* its whole content, whatever unwritten memory follows it in the head.  Without
\* a header line (p = 2) the request line is not looked at and there is no path.
CompleteRequestParsed ==
    \A p \in 3 .. PartLength :
        pc = "done" /\ code # 408 /\ dataLength = Len(request)
          /\ SeparatorAt(request, p) /\ request[1] = "get"
          => /\ code = 0
             /\ Uri
             /\ Content = SubSeq(request, p + 1, Len(request))

\* The comments of the configuration: a limit of 0 is no limit.  Of what a client
\* has sent something is read, and a known method is recognised.
ZeroIsUnlimited ==
    pc = "done" /\ code # 408 /\ sent > 0 =>
        /\ MaxLength = 0 => dataLength > 0
        /\ PartLength = 0 /\ request[1] = "get" => code # 405

\* Once something has come, or the client has closed, the request is accepted or
\* refused: the reader does not wait for more.
ReadEnds == (socket # <<>> \/ closed) ~> pc = "done"
=============================================================================
