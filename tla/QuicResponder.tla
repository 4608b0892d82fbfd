---------------------------- MODULE QuicResponder ----------------------------
(* proxy/quic_handshake.rs: a ClientHello arrives in CRYPTO fragments, in   *)
(* any order, once or more; when it is whole the server flight is split     *)
(* into datagrams and the peer forgotten. Sizes are in bytes, keys and      *)
(* contents are left out.                                                   *)
EXTENDS Integers, Sequences, FiniteSets, SequencesExt

CONSTANTS
    QhConns,        \* (peer, connection ID)
    QhFragments,    \* CRYPTO frames: <<offset, end>>
    QhHello,        \* length of the ClientHello
    QhSizes,        \* sizes of client datagrams
    QhFlights,      \* lengths of the handshake flight: the certificate names the domain
    QhCids,         \* lengths of the client's connection ID
    QhMax,          \* MAX_PENDING
    QhDatagrams,    \* bound: datagrams of the clients
    QhTtl           \* PENDING_TTL in ticks

VARIABLES
    qhPend,     \* pending: connection -> NoPending or [received, bytes, age]
    qhFlight, qhCid,
    qhGot,      \* history: connection -> bytes received
    qhSent,     \* history: connection -> bytes sent
    qhLeft

vars == <<qhPend, qhFlight, qhCid, qhGot, qhSent, qhLeft>>

MaxDatagram == 1200
AmplificationLimit == 3
MaxCryptoBytes == 65536
TagLen == 16
ScidLen == 8
NoPending == [received |-> <<>>, bytes |-> 0, age |-> -1]
Pending == {k \in QhConns : qhPend[k] # NoPending}

Init ==
    /\ qhPend = [k \in QhConns |-> NoPending]
    /\ qhFlight \in QhFlights /\ qhCid \in QhCids
    /\ qhGot = [k \in QhConns |-> 0] /\ qhSent = [k \in QhConns |-> 0]
    /\ qhLeft = QhDatagrams

-----------------------------------------------------------------------------
(* Packets *)

VarintLen(n) == IF n <= 63 THEN 1 ELSE IF n <= 16383 THEN 2 ELSE 4
PacketOverhead(initial, payload) ==
    1 + 4 + 1 + qhCid + 1 + ScidLen + (IF initial THEN 1 ELSE 0)
      + VarintLen(4 + payload + TagLen) + 4 + TagLen
AckFrame == 5
ConnectionCloseFrame == 5
CryptoFrameOverhead(offset, len) == 1 + VarintLen(offset) + VarintLen(len)
ServerHello == 122

\* The Initial carries the acknowledgement and the ServerHello, or the alert in its place.
InitialPayload(alert) ==
    AckFrame + (IF alert THEN ConnectionCloseFrame
                ELSE CryptoFrameOverhead(0, ServerHello) + ServerHello)

\* One round of the loop over the flight: s is [full, cur, sent, offset, stop], the bytes of
\* the datagrams that are full and of the one being filled, the bytes counted against the
\* budget and the position in the flight.
StepUnbounded(s, budget) ==
    LET room == IF s.cur > MaxDatagram THEN 0 ELSE MaxDatagram - s.cur
        fixed == PacketOverhead(FALSE, 0) + CryptoFrameOverhead(s.offset, qhFlight - s.offset)
        rest == qhFlight - s.offset
        take == IF room - fixed < rest THEN room - fixed ELSE rest
        frame == CryptoFrameOverhead(s.offset, take) + take
        packet == PacketOverhead(FALSE, frame) + frame
    IN  IF rest = 0 THEN [s EXCEPT !.stop = TRUE]
        ELSE IF room <= fixed + 32 THEN [s EXCEPT !.full = @ + s.cur, !.cur = 0]
        ELSE [s EXCEPT !.cur = @ + packet, !.sent = @ + packet, !.offset = @ + take]
Step(s, budget) ==
    LET room == IF s.cur > MaxDatagram THEN 0 ELSE MaxDatagram - s.cur
        fixed == PacketOverhead(FALSE, 0) + CryptoFrameOverhead(s.offset, qhFlight - s.offset)
        rest == qhFlight - s.offset
        take == IF room - fixed < rest THEN room - fixed ELSE rest
        frame == CryptoFrameOverhead(s.offset, take) + take
        packet == PacketOverhead(FALSE, frame) + frame
    IN  IF rest = 0 THEN [s EXCEPT !.stop = TRUE]
        ELSE IF room <= fixed + 32 THEN [s EXCEPT !.full = @ + s.cur, !.cur = 0]
        ELSE IF s.sent + packet > budget THEN [s EXCEPT !.stop = TRUE]
        ELSE [s EXCEPT !.cur = @ + packet, !.sent = @ + packet, !.offset = @ + take]

Round(s, budget) == IF s.stop THEN s ELSE Step(s, budget)
Rounds == 2 * (qhFlight \div 1000) + 4
Initial(alert) == PacketOverhead(TRUE, InitialPayload(alert)) + InitialPayload(alert)
Start(alert) == [full |-> 0, cur |-> Initial(alert), sent |-> Initial(alert), offset |-> 0, stop |-> FALSE]

\* assemble: the bytes of its datagrams, full ones and the last.
Assemble(alert, budget) ==
    LET run[i \in 0..Rounds] == IF i = 0 THEN Start(alert) ELSE Round(run[i - 1], budget)
        end == IF alert THEN Start(alert) ELSE run[Rounds]
    IN  IF Initial(alert) > budget THEN 0 ELSE end.full + end.cur

-----------------------------------------------------------------------------
(* Reassembly *)

Before(a, b) == a[1] < b[1] \/ (a[1] = b[1] /\ a[2] < b[2])
Sorted(ranges) == SortSeq(ranges, Before)

Grow(n, range) == IF range[1] <= n /\ range[2] > n THEN range[2] ELSE n
Contiguous(ranges) == FoldLeft(Grow, 0, Sorted(ranges))
CompleteHandshakeMessage(ranges) == Contiguous(ranges) >= QhHello

Expire(pend) == [k \in QhConns |-> IF pend[k].age >= QhTtl THEN NoPending ELSE pend[k]]

\* send_quic_responses, when the device's budget and the socket take every datagram.
SendQuicResponses(k, bytes) == qhSent' = [qhSent EXCEPT ![k] = @ + bytes]

\* try_handle. A frame beyond the limit ends it after the pending state was taken out.
HandleDatagram(k) ==
    /\ qhLeft > 0 /\ qhLeft' = qhLeft - 1
    /\ \E size \in QhSizes, frag \in QhFragments, alert \in BOOLEAN :
        LET pend == Expire(qhPend)
            held == {c \in QhConns : pend[c] # NoPending}
            old == pend[k]
            ranges == Append(old.received, frag)
            bytes == old.bytes + size
            out == Assemble(alert, AmplificationLimit * bytes)
        IN  /\ qhGot' = [qhGot EXCEPT ![k] = @ + size]
            /\ \/ /\ k \notin held /\ Cardinality(held) >= QhMax
                  /\ qhPend' = pend /\ UNCHANGED qhSent
               \/ /\ k \in held \/ Cardinality(held) < QhMax
                  /\ \/ /\ frag[2] > MaxCryptoBytes
                        /\ qhPend' = [pend EXCEPT ![k] = NoPending]
                        /\ UNCHANGED qhSent
                     \/ /\ frag[2] <= MaxCryptoBytes /\ ~CompleteHandshakeMessage(ranges)
                        /\ qhPend' = [pend EXCEPT ![k] =
                              [received |-> Sorted(ranges), bytes |-> bytes,
                               age |-> IF k \in held THEN old.age ELSE 0]]
                        /\ UNCHANGED qhSent
                     \/ /\ frag[2] <= MaxCryptoBytes /\ CompleteHandshakeMessage(ranges)
                        /\ qhPend' = [pend EXCEPT ![k] = NoPending]
                        /\ SendQuicResponses(k, out)
    /\ UNCHANGED <<qhFlight, qhCid>>

\* handle_timeouts, every 50 ms, and the passing of time.
HandleTimeouts ==
    /\ Expire(qhPend) # qhPend
    /\ qhPend' = Expire(qhPend)
    /\ UNCHANGED <<qhFlight, qhCid, qhGot, qhSent, qhLeft>>
Tick ==
    /\ Pending # {}
    /\ qhPend' = [k \in QhConns |-> IF k \in Pending /\ qhPend[k].age < QhTtl
                                    THEN [qhPend[k] EXCEPT !.age = @ + 1] ELSE qhPend[k]]
    /\ qhPend' # qhPend
    /\ UNCHANGED <<qhFlight, qhCid, qhGot, qhSent, qhLeft>>

Next == (\E k \in QhConns : HandleDatagram(k)) \/ HandleTimeouts \/ Tick

Spec == Init /\ [][Next]_vars

-----------------------------------------------------------------------------

\* An address that has not proved itself gets at most three times the bytes it sent, however
\* its ClientHello was split, repeated, dropped and sent again.
AmplificationBound == \A k \in QhConns : qhSent[k] <= AmplificationLimit * qhGot[k]
=============================================================================
