---------------------------- MODULE CoverTraffic ----------------------------
(* proxy/transform.rs and the first half of proxy/responder.rs: a datagram   *)
(* is classified, and the padding before its payload is rewritten so that   *)
(* the whole reads as QUIC, DNS, STUN or SIP; a stranger's probe gets the   *)
(* answer of the protocol it speaks. Lengths and framing are kept, bytes    *)
(* that only look random are left out.                                      *)
EXTENDS Naturals, Sequences, FiniteSetsExt

CONSTANTS
    CtPads,         \* values of S1..S4
    CtLong,         \* S4 where the text of a SIP or STUN answer fits
    CtPayloads,     \* transport messages' sizes
    CtNames,        \* QNAME lengths of the client's last query, 0: none seen
    CtHosts, CtSeqs,\* lengths of the host and of the CSeq line of a SIP response
    CtBytes         \* bytes of a probe's header

VARIABLES
    ctIn,           \* the datagram: what it is, before it is looked at
    ctOut           \* what became of it

vars == <<ctIn, ctOut>>

Lesser(a, b) == IF a < b THEN a ELSE b
MaxDatagram == 65535     \* bytes of a UDP datagram

-----------------------------------------------------------------------------
(* wg/params.rs and CbPacketType *)

ValidateCbParams(s) ==
    /\ s[1] + 56 # s[2]
    /\ s[3] + 56 # s[4] /\ s[4] + 56 # s[3]

ExpectedMessageSize(t) == CASE t = 1 -> 148 [] t = 2 -> 92 [] t = 3 -> 64 [] OTHER -> 0
SizeFits(s, t, total) ==
    IF t = 4 THEN total >= s[4] + 32 ELSE total = s[t] + ExpectedMessageSize(t)

\* The header stands at the offset of the packet's own type; what stands at another offset
\* is ciphertext that may fall into another range (seen: the types whose range it hits).
ClassifyCbPacket(d) ==
    LET hits == {t \in 1..4 : SizeFits(d.s, t, d.total) /\ t \in d.seen}
    IN  IF hits = {} THEN 0 ELSE Min(hits)

-----------------------------------------------------------------------------
(* The four imitations: what the rewritten prefix says about the datagram.   *)
(* "covers" is where the last advertised length ends.                        *)

Opaque == [frame |-> "none"]

\* apply_quic_padding_short has no length field.
QuicShort == [frame |-> "short"]

\* write_dns_opt_response: the option's data reach to the end of the datagram.
DnsOpt(total, question) ==
    LET at == 12 + question + 11
        rdlength == Lesser(total - at, 65535)
    IN  [frame |-> "dns", written |-> at + 4, covers |-> at + rdlength, option |-> (at + 4) + Lesser(total - at - 4, 65535)]
DnsNull(pad, total) ==
    [frame |-> "dns", written |-> Lesser(pad, IF pad >= 28 THEN 28 ELSE IF pad >= 17 THEN 17 ELSE 12),
     covers |-> IF pad >= 28 THEN 28 + (total - 28) ELSE 0, option |-> 0]
EchoFits(pad, qname) == qname > 0 /\ qname + 4 <= 259 /\ 12 + qname + 4 + 11 + 4 <= pad
ApplyDnsPadding(pad, total, qname) ==
    IF pad < 32 THEN DnsNull(pad, total)
    ELSE DnsOpt(total, IF EchoFits(pad, qname) THEN qname + 4 ELSE 5)

\* apply_stun_padding: XOR-MAPPED-ADDRESS, then SOFTWARE up to 124 characters.
StunBody(pad) == IF pad > 20 THEN ((pad - 20) \div 4) * 4 ELSE 0
ApplyStunPadding(pad) ==
    LET mapped == IF StunBody(pad) >= 12 THEN 12 ELSE 0
        rest == StunBody(pad) - mapped
        software == IF rest >= 4 THEN 4 + Lesser(rest - 4, 124) ELSE 0
    IN  [frame |-> "stun", written |-> mapped + software, length |-> mapped + software]

\* Divided by ten until one digit is left.
DecimalDigits(n) ==
    LET digits[v \in 0..MaxDatagram] == IF v >= 10 THEN digits[v \div 10] + 1 ELSE 1
    IN  digits[n]

\* put_line writes a line when the blank line still fits after it.
PutLine(pos, n, len) == pos + n + 2 <= len
StatusLine(first, len) ==
    LET sizes == <<20, 21, 16>>
        fits == {k \in 0..2 : PutLine(0, sizes[((first + k) % 3) + 1], len)}
    IN  IF fits = {} THEN 0 ELSE sizes[((first + Min(fits)) % 3) + 1]
Mandatory(host, cseq) == <<53 + host, 34 + host, 32 + host, 20 + host, cseq>>

\* The position after n lines, and how many fit up to the first that does not.
After(pos, lines, n) ==
    LET end[i \in 0..Len(lines)] == IF i = 0 THEN pos ELSE end[i - 1] + lines[i]
    IN  end[n]
Fitting(pos, lines, len) == Max({n \in 0..Len(lines) : n = 0 \/ PutLine(After(pos, lines, n), 0, len)})

\* The value counts its own digits: one or two spaces after the colon make it solvable.
ContentLength(pos, len, total) ==
    LET end(w, digits) == pos + 15 + w + digits + 4
        good == {x \in (1..2) \X (1..DecimalDigits(total)) :
                    /\ end(x[1], x[2]) <= len
                    /\ DecimalDigits(total - end(x[1], x[2])) = x[2]}
        best == CHOOSE x \in good : \A y \in good : x[1] < y[1] \/ (x[1] = y[1] /\ x[2] <= y[2])
    IN  IF good = {} THEN Opaque
        ELSE [frame |-> "length", end |-> end(best[1], best[2]), body |-> total - end(best[1], best[2])]
\* The line's own digits are left out of the count.
ContentLengthForgets(pos, len, total) ==
    LET end == pos + 15 + 1 + 1 + 4
    IN  IF end > len THEN Opaque
        ELSE [frame |-> "length", end |-> end + DecimalDigits(total - end) - 1, body |-> total - end]
SipBody(pos, len, total) == ContentLength(pos, len, total)

ApplySipPadding(pad, total, first, host, cseq) ==
    LET status == StatusLine(first, pad)
        lines == Mandatory(host, cseq)
        n == Fitting(status, lines, pad)
        pos == After(status, lines, n)
    IN  IF status = 0 THEN [frame |-> "fragment"]
        ELSE [frame |-> "sip", headers |-> n, pos |-> pos,
              length |-> IF n = 5 THEN SipBody(pos, pad, total) ELSE Opaque]

\* apply_cb_transform: an unknown packet, and one without padding, stays as it is.
ApplyCbTransform(d) ==
    LET t == ClassifyCbPacket(d)
        pad == d.s[t]
    IN  IF t = 0 THEN [type |-> 0, pad |-> 0, cover |-> Opaque]
        ELSE [type |-> t, pad |-> pad,
              cover |-> IF pad = 0 \/ pad >= d.total THEN Opaque
                        ELSE CASE d.proto = "quic" -> QuicShort
                               [] d.proto = "dns" -> ApplyDnsPadding(pad, d.total, d.qname)
                               [] d.proto = "stun" -> ApplyStunPadding(pad)
                               [] OTHER -> ApplySipPadding(pad, d.total, d.first, d.host, d.cseq)]

-----------------------------------------------------------------------------
(* responder.rs: detect_protocol on a probe's first six bytes, in its order.  *)
(* The text of a SIP request starts with a letter and is in SipDialogs.       *)

\* Fault: any version at all passes.
AnyVersion(v) == TRUE

IsQuicVersion(v) ==
    \/ v = <<0, 0, 0, 1>> \/ v = <<107, 51, 67, 207>>
    \/ v[1] = 255 /\ v[2] = 0 /\ v[3] = 0 /\ v[4] # 0
    \/ \A i \in 1..4 : v[i] % 16 = 10

\* The sixth byte is the DCID's length; the probe is long enough for it and an empty SCID.
LooksQuic(b) == b[1] >= 192 /\ IsQuicVersion(SubSeq(b, 2, 5)) /\ b[6] <= 20
HasStunCookie(b) == b[5] = 33 /\ b[6] = 18
LooksStun(b) == HasStunCookie(b) /\ b[1] = 0 /\ b[2] = 1 /\ b[3] = 0 /\ b[4] = 0
\* QR and opcode clear, one question; its name and class are well formed or not.
IsPlausibleDnsQuery(b, question) == b[3] < 8 /\ b[5] = 0 /\ b[6] = 1 /\ question > 0

DetectProtocol(b, question) ==
    IF LooksQuic(b) THEN "quic"
    ELSE IF LooksStun(b) THEN "stun"
    ELSE IF ~HasStunCookie(b) /\ IsPlausibleDnsQuery(b, question) THEN "dns"
    ELSE "none"

\* generate_response_for_client: version negotiation swaps the IDs, SERVFAIL echoes the
\* question within 512 bytes, the STUN answer carries one address.
GenerateResponse(proto, b, question, v6) ==
    CASE proto = "quic" -> 11 + b[6]
      [] proto = "dns" -> IF 12 + question <= 512 THEN 12 + question ELSE 12
      [] proto = "stun" -> 20 + 4 + (IF v6 THEN 20 ELSE 8)
      [] OTHER -> 0

-----------------------------------------------------------------------------
Nothing == [kind |-> "none"]
Init == ctIn = Nothing /\ ctOut = Nothing

\* The backend sends a message of type t under an accepted configuration.
Packet ==
    /\ ctIn = Nothing
    /\ \E s \in [1..4 -> CtPads], t \in 1..4, size \in CtPayloads, other \in 0..4 :
        /\ ValidateCbParams(s)
        /\ \E proto \in {"quic", "dns"}, qname \in CtNames :
            ctIn' = [kind |-> "packet", s |-> s, t |-> t, seen |-> {t, other},
                     total |-> s[t] + (IF t = 4 THEN size ELSE ExpectedMessageSize(t)),
                     proto |-> proto, qname |-> qname]
    /\ UNCHANGED ctOut

\* Wide paddings, where the text of a SIP or STUN answer fits.
LongPacket ==
    /\ ctIn = Nothing
    /\ \E pad \in CtLong, size \in CtPayloads, first \in 0..2, host \in CtHosts, cseq \in CtSeqs,
          proto \in {"sip", "stun", "dns"} :
        ctIn' = [kind |-> "packet", s |-> <<0, 0, 0, pad>>, t |-> 4, seen |-> {4}, total |-> pad + size,
                 proto |-> proto, qname |-> 255, first |-> first, host |-> host, cseq |-> cseq]
    /\ UNCHANGED ctOut

Transform ==
    /\ ctIn.kind = "packet" /\ ctOut = Nothing
    /\ ctOut' = [kind |-> "packet", out |-> ApplyCbTransform(ctIn)]
    /\ UNCHANGED ctIn

\* A stranger's datagram; question is the length of its question, 0 when malformed.
Heads == {0, 192} \X CtBytes \X CtBytes \X CtBytes \X {0, 33, 207} \X {1, 18, 21}
Probe ==
    /\ ctIn = Nothing
    /\ \E b \in Heads, question \in {0, 5, 500} :
        ctIn' = [kind |-> "probe", b |-> b, question |-> question, total |-> 20 + question]
    /\ UNCHANGED ctOut
Answer ==
    /\ ctIn.kind = "probe" /\ ctOut = Nothing
    /\ \E v6 \in BOOLEAN :
        LET proto == DetectProtocol(ctIn.b, ctIn.question) IN
        ctOut' = [kind |-> "answer", proto |-> proto,
                  size |-> GenerateResponse(proto, ctIn.b, ctIn.question, v6)]
    /\ UNCHANGED ctIn

Sent == ctOut # Nothing /\ ctIn' = Nothing /\ ctOut' = Nothing

Next == Packet \/ LongPacket \/ Transform \/ Probe \/ Answer \/ Sent
Spec == Init /\ [][Next]_vars

-----------------------------------------------------------------------------

\* No length a rewritten prefix advertises leaves the datagram: DNS records and the SIP body
\* end where the datagram does, STUN attributes inside the padding and on a word boundary,
\* and nothing is written past the padding (transform.rs, "no trailing bytes").
Framed(d, pad, c) ==
    CASE c.frame = "dns" -> /\ c.written <= pad
                            /\ pad >= 28 => c.covers = d.total
                            /\ pad >= 32 => c.option = d.total
      [] c.frame = "stun" -> c.length % 4 = 0 /\ 20 + c.length <= Max({pad, 20})
      [] c.frame = "sip" -> /\ c.pos + 2 <= pad
                            /\ c.length.frame = "length" =>
                                /\ c.length.end <= pad
                                /\ c.length.body = d.total - c.length.end
                            /\ c.headers = 5 /\ c.pos + 15 + 2 + DecimalDigits(d.total) + 4 <= pad =>
                                c.length.frame = "length"
      [] OTHER -> TRUE
CoverFramesTheDatagram ==
    ctOut.kind = "packet" => Framed(ctIn, ctOut.out.pad, ctOut.out.cover)

\* A datagram is taken for what it is. A handshake message is recognised whatever its
\* ciphertext looks like, so its own padding is rewritten and nothing of the message
\* (validate_cb_params' S1 + 56 # S2, classify_cb_packet's order); a stranger's DNS query is
\* answered as one, whatever its transaction ID, and with no more bytes than it has
\* (is_quic_version, generate_dns_servfail).
DatagramsAreToldApart ==
    /\ ctOut.kind = "packet" /\ ctIn.t \in {1, 2} => ctOut.out.type = ctIn.t
    /\ ctOut.kind = "answer" /\ IsPlausibleDnsQuery(ctIn.b, ctIn.question) =>
          ctOut.proto = "dns" /\ ctOut.size <= ctIn.total
=============================================================================
