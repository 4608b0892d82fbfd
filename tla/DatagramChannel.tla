--------------------------- MODULE DatagramChannel ---------------------------
(* What a datagram tunnel promises its two ends: it may lose and reorder,   *)
(* but hands over only what was sent, whole, and at most once.              *)
EXTENDS Sequences, SequencesExt

CONSTANT Datagrams

VARIABLES sent, got

Init == sent = {} /\ got = <<>>

Send(d) == d \notin sent /\ sent' = sent \cup {d} /\ UNCHANGED got
Deliver(d) == d \in sent \ Range(got) /\ got' = Append(got, d) /\ UNCHANGED sent

Next == \E d \in Datagrams : Send(d) \/ Deliver(d)
Spec == Init /\ [][Next]_<<sent, got>>
=============================================================================
