----------------------------- MODULE HttpServer -----------------------------
(* http/server.rs: where one request ends and the next begins on a connection *)
(* a front end may pipeline, when the connection is closed, and the permits   *)
(* that bound the connections. A stream is a sequence of units: heads, chunk  *)
(* sizes, blank lines and data, a body's data perhaps looking like a head.    *)
EXTENDS Naturals, Sequences, FiniteSets, SequencesExt

CONSTANTS
    HsConns,
    HsTalkers,      \* the connections on which any stream is sent; on the others one plain request
    HsMax,          \* MAX_CONNECTIONS
    HsRequests,     \* MAX_REQUESTS_PER_CONNECTION
    HsBody          \* MAX_BODY_BYTES, in units

VARIABLES
    hsServer,       \* "accepting", "draining", "returned"
    hsPermits,
    hsConn,         \* connection -> position, request number, unread input, head, last response
    hsServed        \* history: the heads dispatched

vars == <<hsServer, hsPermits, hsConn, hsServed>>

-----------------------------------------------------------------------------
(* What clients send *)

\* lengths: the Content-Length headers, each the list of its values; codings: Transfer-Encoding.
Request(lengths, codings, close, honest) ==
    [k |-> "head", lengths |-> lengths, codings |-> codings, close |-> close, honest |-> honest]
Unit(k) == [k |-> k]
Size(n) == [k |-> "size", n |-> n]
Blank == Unit("blank")
Data == Unit("data")
\* Data that reads like a request's head.
Lure == Request(<<>>, <<>>, FALSE, FALSE)
Plain == Request(<<>>, <<>>, FALSE, TRUE)

WellFormed == {
    <<Plain>>,
    <<Request(<<>>, <<>>, TRUE, TRUE)>>,
    <<Request(<<<<0>>>>, <<>>, FALSE, TRUE)>>,
    <<Request(<<<<2>>>>, <<>>, FALSE, TRUE), Lure, Data>>,
    <<Request(<<<<1, 1>>>>, <<>>, FALSE, TRUE), Lure>>,
    <<Request(<<>>, <<"chunked">>, FALSE, TRUE), Size(1), Lure, Blank, Size(0), Lure, Blank>> }
\* A head two readers could frame differently: neither it nor what follows may be taken as a request.
Ambiguous == {
    <<Request(<<<<3>>>>, <<"chunked">>, FALSE, FALSE), Size(0), Blank, Lure>>,
    <<Request(<<<<0>>>>, <<"chunked">>, FALSE, FALSE), Size(1), Lure, Blank, Size(0), Blank>>,
    <<Request(<<<<0, 1>>>>, <<>>, FALSE, FALSE), Lure>>,
    <<Request(<<<<0>>, <<1>>>>, <<>>, FALSE, FALSE), Lure>>,
    <<Request(<<>>, <<"gzip">>, FALSE, FALSE), Lure>>,
    <<Request(<<>>, <<"chunked", "chunked">>, FALSE, FALSE), Size(0), Blank>> }
\* Refused or cut short.
Broken == {
    <<Data>>, <<Blank, Lure>>,
    <<Request(<<<<HsBody + 1>>>>, <<>>, FALSE, FALSE), Lure>>,
    <<Request(<<<<2>>>>, <<>>, FALSE, FALSE), Data>>,
    <<Request(<<>>, <<"chunked">>, FALSE, FALSE), Size(2), Data>>,
    <<Request(<<>>, <<"chunked">>, FALSE, FALSE), Size(1), Data, Data, Lure>>,
    <<Request(<<>>, <<"chunked">>, FALSE, FALSE), Size(HsBody + 1), Lure>> }

Offered(c) ==
    IF c \in HsTalkers
    THEN {a \o b : a \in WellFormed \cup Ambiguous \cup {<<>>}, b \in WellFormed \cup Broken}
    ELSE {<<Plain>>}

-----------------------------------------------------------------------------
(* framing and the body: what is taken from the input, or an error *)

Refusal == [how |-> "error", n |-> 0]
FramingPrefersChunked(h) ==
    IF h.codings # <<>> THEN IF h.codings = <<"chunked">> THEN [how |-> "chunked", n |-> 0] ELSE Refusal
    ELSE IF h.lengths = <<>> THEN [how |-> "length", n |-> 0]
    ELSE IF Len(h.lengths) = 1 /\ Cardinality(ToSet(h.lengths[1])) = 1 /\ h.lengths[1][1] <= HsBody
         THEN [how |-> "length", n |-> h.lengths[1][1]] ELSE Refusal
Framing(h) ==
    IF h.codings # <<>>
    THEN IF h.lengths = <<>> /\ h.codings = <<"chunked">> THEN [how |-> "chunked", n |-> 0] ELSE Refusal
    ELSE IF h.lengths = <<>> THEN [how |-> "length", n |-> 0]
    ELSE IF Len(h.lengths) = 1 /\ Cardinality(ToSet(h.lengths[1])) = 1 /\ h.lengths[1][1] <= HsBody
         THEN [how |-> "length", n |-> h.lengths[1][1]] ELSE Refusal

Idle == [pc |-> "new", n |-> 0, in |-> <<>>, head |-> Plain, frame |-> Refusal, body |-> 0, keep |-> FALSE]

Init ==
    /\ hsServer = "accepting" /\ hsPermits = HsMax
    /\ hsConn = [c \in HsConns |-> Idle]
    /\ hsServed = {}

Set(c, r) == hsConn' = [hsConn EXCEPT ![c] = r]
\* serve_connection returns: the permit is dropped with the task.
Close(c) ==
    /\ Set(c, [hsConn[c] EXCEPT !.pc = "closed"])
    /\ hsPermits' = hsPermits + 1
    /\ UNCHANGED <<hsServer, hsServed>>
\* An error response, which says close, and the end of the connection.
Refuse(c) == Close(c)
Goto(c, r) == Set(c, r) /\ UNCHANGED <<hsServer, hsPermits, hsServed>>

-----------------------------------------------------------------------------
(* serve *)

Accept(c) ==
    /\ hsServer = "accepting" /\ hsConn[c] = Idle
    /\ IF hsPermits = 0
       THEN Set(c, [Idle EXCEPT !.pc = "closed"]) /\ UNCHANGED hsPermits
       ELSE /\ \E s \in Offered(c) : Set(c, [Idle EXCEPT !.pc = "head", !.n = 1, !.in = s])
            /\ hsPermits' = hsPermits - 1
    /\ UNCHANGED <<hsServer, hsServed>>

Shutdown == hsServer = "accepting" /\ hsServer' = "draining" /\ UNCHANGED <<hsPermits, hsConn, hsServed>>
\* Every permit is back, or the deadline has passed.
Drained ==
    /\ hsServer = "draining" /\ hsServer' = "returned"
    /\ UNCHANGED <<hsPermits, hsConn, hsServed>>

-----------------------------------------------------------------------------
(* serve_connection *)

\* The client closed before a request, or sent none in time.
NoRequest(c) == hsConn[c].pc = "head" /\ hsConn[c].in = <<>> /\ Close(c)

ReadHead(c) ==
    LET t == hsConn[c] IN
    /\ t.pc = "head" /\ t.in # <<>>
    /\ IF Head(t.in).k = "head" THEN Goto(c, [t EXCEPT !.pc = "frame", !.head = Head(t.in), !.in = Tail(t.in)])
       ELSE Refuse(c)

ReadFraming(c) ==
    LET t == hsConn[c]
        f == Framing(t.head)
    IN  /\ t.pc = "frame"
        /\ IF f.how = "error" THEN Refuse(c)
           ELSE Goto(c, [t EXCEPT !.pc = IF f.how = "chunked" THEN "size" ELSE "exact", !.frame = f, !.body = 0])

\* A body cut short is answered when the client closes or the time for it has passed.
ReadExact(c) ==
    LET t == hsConn[c] IN
    /\ t.pc = "exact"
    /\ IF Len(t.in) < t.frame.n THEN Refuse(c)
       ELSE Goto(c, [t EXCEPT !.pc = IF t.frame.how = "chunked" THEN "end" ELSE "dispatch",
                              !.body = @ + t.frame.n, !.in = SubSeq(t.in, t.frame.n + 1, Len(t.in))])

ReadChunkSize(c) ==
    LET t == hsConn[c] IN
    /\ t.pc = "size"
    /\ IF t.in = <<>> \/ Head(t.in).k # "size" \/ t.body + Head(t.in).n > HsBody THEN Refuse(c)
       ELSE Goto(c, [t EXCEPT !.pc = IF Head(t.in).n = 0 THEN "trailer" ELSE "exact",
                              !.frame.n = Head(t.in).n, !.in = Tail(t.in)])
ReadChunkEnd(c) ==
    LET t == hsConn[c] IN
    /\ t.pc = "end"
    /\ IF t.in = <<>> \/ Head(t.in) # Blank THEN Refuse(c)
       ELSE Goto(c, [t EXCEPT !.pc = "size", !.in = Tail(t.in)])
ReadTrailer(c) ==
    LET t == hsConn[c] IN
    /\ t.pc = "trailer"
    /\ IF t.in = <<>> THEN Refuse(c)
       ELSE Goto(c, [t EXCEPT !.pc = IF Head(t.in) = Blank THEN "dispatch" ELSE "trailer", !.in = Tail(t.in)])

KeepAlive(t) == ~t.head.close /\ t.n < HsRequests

Dispatch(c) ==
    LET t == hsConn[c] IN
    /\ t.pc = "dispatch"
    /\ hsServed' = hsServed \cup {t.head}
    /\ Set(c, [t EXCEPT !.pc = "write", !.keep = KeepAlive(t)])
    /\ UNCHANGED <<hsServer, hsPermits>>

WriteResponse(c) ==
    LET t == hsConn[c] IN
    /\ t.pc = "write"
    /\ \/ Close(c)
       \/ t.keep /\ Goto(c, [t EXCEPT !.pc = "head", !.n = @ + 1])

Next ==
    \/ \E c \in HsConns :
        Accept(c) \/ NoRequest(c) \/ ReadHead(c) \/ ReadFraming(c) \/ ReadExact(c) \/ ReadChunkSize(c)
        \/ ReadChunkEnd(c) \/ ReadTrailer(c) \/ Dispatch(c) \/ WriteResponse(c)
    \/ Shutdown \/ Drained

Spec == Init /\ [][Next]_vars

-----------------------------------------------------------------------------

\* No unit of a body, no head two readers could frame differently and nothing behind one is served
\* as a request, however requests are pipelined and chunked on the connection.
NothingIsSmuggled == \A h \in hsServed : h.honest

=============================================================================
