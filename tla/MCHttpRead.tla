----------------------------- MODULE MCHttpRead -----------------------------
(* An instance of HttpRead for TLC.                                         *)
EXTENDS HttpRead

\* A request with content, one that is shorter than the head, one without
\* headers, two that are refused, one whose header is too long, one that is
\* longer than the buffer, and nothing at all.
SomeRequests ==
    {<<"get", "hdr", "hdr", "sep", "body", "body">>,
     <<"get", "hdr", "sep">>,
     <<"get", "sep">>,
     <<"bad", "hdr", "sep">>,
     <<"tab", "hdr", "sep">>,
     <<"get", "hdr", "hdr", "hdr", "sep">>,
     <<"get", "hdr", "sep", "body", "body", "body", "body", "body">>,
     <<>>}
=============================================================================
