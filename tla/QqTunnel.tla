------------------------------ MODULE QqTunnel ------------------------------
(* QQ-DNS, one direction: qqdns/engine.rs cuts a datagram into DNS queries  *)
(* and queues copies for the resolvers, the other end's qqdns/reassembly.rs *)
(* puts it together. Queries are lost, repeated and reordered on their way. *)
EXTENDS Naturals, Sequences, FiniteSets, FiniteSetsExt

CONSTANTS
    Datagrams,      \* 1..n, in the order the local application sends them
    Length,         \* base32 characters of each
    Room,           \* chunk_len of each send domain, a sequence
    Half,           \* 32 in the code: fragment indices below 2 * Half
    Offsets,        \* TOTAL_DATA_OFFSET
    Resolvers,      \* number of dns_ips
    Tries,          \* retries + 1
    QueueSize,      \* PACKETS_QUEUE_SIZE
    WaitLimit, AssembleTime, NetLife, \* packets_wait_time_limit, ASSEMBLE_TIME, a query's life in the network
    Gaps,           \* least times between two uses of an offset
    MaxNow

VARIABLES
    qqNow, qqGap,
    qqAt,           \* h_recv's counters [off, dom, res]
    qqUsed,         \* offset -> time after its last use, 0 when there is none
    qqQueue, qqJob, \* per resolver: waiting jobs, and the one being sent
    qqNet,          \* queries that may still arrive
    qqSlot,         \* the reassembler's slots
    qqKnown,        \* last_h_addr of the receiving end: fixed (server), learned or none (client)
    qqSent, qqGot,
    qqHeard         \* chunks whose query arrived

timeVars == <<qqNow, qqGap>>
sendVars == <<qqAt, qqUsed, qqQueue, qqSent>>
recvVars == <<qqSlot, qqKnown, qqGot, qqHeard>>
vars == <<timeVars, sendVars, qqJob, qqNet, recvVars>>

OffsetIds == 0..(Offsets - 1)
Lines == 0..(Resolvers - 1)
NoJob == [d |-> 0]
Empty == [st |-> "empty"]
\* Only with offsets far enough apart is the tunnel a DatagramChannel.
Safe == qqGap > 0

-----------------------------------------------------------------------------
(* codec.rs *)

\* number_to_base32_lower: the offset in a field of fixed width, so it wraps.
NumberToBase32(n) == n % Offsets

\* get_base32_final_domains walks the send domains round-robin; what n of them carry.
Carried(dom, n) ==
    LET sum[i \in 0..(2 * Half)] == IF i = 0 THEN 0 ELSE sum[i - 1] + Room[((dom + i - 1) % Len(Room)) + 1]
    IN  sum[n]
Pieces(len, dom) ==
    LET enough == {n \in 1..(2 * Half) : Carried(dom, n) >= len}
    IN  IF enough = {} THEN 0 ELSE Min(enough)      \* too long for 64 fragments: dropped
Chunk(d, dom, i) ==
    [d |-> d, from |-> Carried(dom, i),
     to |-> IF Carried(dom, i + 1) >= Length[d] THEN Length[d] ELSE Carried(dom, i + 1)]

\* The fragment character holds five bits of the index, the magic one the sixth and the
\* last flag.
Magic(i, n) == IF i + 1 < n THEN IF i >= Half THEN "8" ELSE "0" ELSE IF i >= Half THEN "9" ELSE "1"
GetBase32FinalDomains(d, off, dom) ==
    LET n == Pieces(Length[d], dom)
    IN  [i \in 1..n |-> [off |-> NumberToBase32(off), frag |-> (i - 1) % Half,
                         magic |-> Magic(i - 1, n), chunk |-> Chunk(d, dom, i - 1)]]

GetChunkData(q) ==
    [off |-> q.off, part |-> q.frag + (IF q.magic \in {"8", "9"} THEN Half ELSE 0),
     last |-> q.magic \in {"1", "9"}, chunk |-> q.chunk]

\* b32_decode_nopad of the joined chunks: datagram d, or something nobody sent.
Decode(parts) ==
    LET n == Len(parts)
        d == parts[1].d
        whole == /\ parts[1].from = 0 /\ parts[n].to = Length[d]
                 /\ \A i \in 1..n : parts[i].d = d
                 /\ \A i \in 1..(n - 1) : parts[i].to = parts[i + 1].from
    IN  IF whole THEN d ELSE 0

-----------------------------------------------------------------------------
(* engine.rs: the sending end *)

\* rr_seed starts the counters anywhere; the order of the rest does not depend on it.
Init ==
    /\ qqNow = 0 /\ qqGap \in Gaps
    /\ qqAt = [off |-> 0, dom |-> 0, res |-> 0]
    /\ qqUsed = [o \in OffsetIds |-> 0]
    /\ qqQueue = [r \in Lines |-> <<>>] /\ qqJob = [r \in Lines |-> NoJob]
    /\ qqNet = {}
    /\ qqSlot = [o \in OffsetIds |-> Empty]
    /\ qqKnown \in {"fixed", "none"}
    /\ qqSent = {} /\ qqGot = <<>> /\ qqHeard = {}

NextDatagram == Cardinality(qqSent) + 1
\* The application is slow enough for the offsets in use (Gaps).
OffsetIsFree == qqUsed[qqAt.off] > 0 => qqNow + 1 >= qqUsed[qqAt.off] + qqGap

\* try_send: one copy per try, each to the next resolver's queue; a full queue drops it.
Enqueue(queue, d, frags) ==
    [r \in Lines |->
        LET mine == {t \in 0..(Tries - 1) : (qqAt.res + t) % Resolvers = r}
            job(t) == [d |-> d, frags |-> frags, entry |-> qqNow, try |-> t]
            copies == [k \in 1..Cardinality(mine) |->
                            job(CHOOSE t \in mine : Cardinality({u \in mine : u < t}) = k - 1)]
            all == queue[r] \o copies
        IN  SubSeq(all, 1, Min({Len(all), Max({QueueSize, Len(queue[r])})}))]

HRecv ==
    /\ NextDatagram \in Datagrams /\ OffsetIsFree
    /\ LET d == NextDatagram
           frags == GetBase32FinalDomains(d, qqAt.off, qqAt.dom)
       IN  /\ qqSent' = qqSent \cup {d}
           /\ IF frags = <<>>
              THEN UNCHANGED <<qqAt, qqUsed, qqQueue>>
              ELSE /\ qqAt' = [off |-> (qqAt.off + 1) % Offsets,
                               dom |-> (qqAt.dom + Len(frags)) % Len(Room),
                               res |-> (qqAt.res + Tries) % Resolvers]
                   /\ qqUsed' = [qqUsed EXCEPT ![qqAt.off] = qqNow + 1]
                   /\ qqQueue' = Enqueue(qqQueue, d, frags)
    /\ UNCHANGED <<timeVars, qqJob, qqNet, recvVars>>

\* wan_send_worker: a job that waited too long is dropped.
TakeJob(r) ==
    /\ qqJob[r] = NoJob /\ qqQueue[r] # <<>>
    /\ qqQueue' = [qqQueue EXCEPT ![r] = Tail(@)]
    /\ LET job == Head(qqQueue[r]) IN
        qqJob' = [qqJob EXCEPT ![r] =
                    IF qqNow - job.entry > WaitLimit THEN NoJob
                    ELSE [d |-> job.d, frags |-> job.frags, try |-> job.try, k |-> 0]]
    /\ UNCHANGED <<timeVars, qqAt, qqUsed, qqSent, qqNet, recvVars>>

\* Every other try sends the fragments in reverse.
SendFragment(r) ==
    /\ qqJob[r] # NoJob
    /\ LET job == qqJob[r]
           n == Len(job.frags)
           i == IF job.try % 2 = 1 THEN n - job.k ELSE job.k + 1
       IN  /\ qqNet' = qqNet \cup {[q |-> job.frags[i], born |-> qqNow]}
           /\ qqJob' = [qqJob EXCEPT ![r] = IF job.k + 1 = n THEN NoJob ELSE [job EXCEPT !.k = @ + 1]]
    /\ UNCHANGED <<timeVars, sendVars, recvVars>>
SendError(r) ==
    /\ qqJob[r] # NoJob
    /\ qqJob' = [qqJob EXCEPT ![r] = NoJob]
    /\ UNCHANGED <<timeVars, sendVars, qqNet, recvVars>>
WanSendWorker(r) == TakeJob(r) \/ SendFragment(r) \/ SendError(r)

-----------------------------------------------------------------------------
(* reassembly.rs *)

Expired(slot) == slot.st # "empty" /\ qqNow - slot.at >= AssembleTime
Lazily(slot) == IF Expired(slot) THEN Empty ELSE slot

BeginForgetsLast(c) ==
    IF c.last /\ c.part = 0
    THEN [slot |-> [st |-> "done", at |-> qqNow], out |-> <<c.chunk>>]
    ELSE [slot |-> [st |-> "assembling", at |-> qqNow, parts |-> {c}, rec |-> 1,
                    big |-> c.part + 1, last |-> FALSE], out |-> <<>>]
\* The first fragment of a slot.
Begin(c) ==
    IF c.last /\ c.part = 0
    THEN [slot |-> [st |-> "done", at |-> qqNow], out |-> <<c.chunk>>]
    ELSE [slot |-> [st |-> "assembling", at |-> qqNow, parts |-> {c}, rec |-> 1,
                    big |-> c.part + 1, last |-> c.last], out |-> <<>>]

Inconsistent(slot, c) ==
    LET grows == c.part + 1 > slot.big
    IN  \/ c.last /\ slot.last
        \/ grows /\ slot.last
        \/ ~grows /\ c.last

PartAt(parts, i) == CHOOSE p \in parts : p.part = i
Joined(parts, n) == [i \in 1..n |-> PartAt(parts, i - 1).chunk]
Complete(slot) == slot.last /\ slot.rec = slot.big

\* A further one: a repeat is ignored, a contradiction poisons the slot.
Extend(slot, c) ==
    LET more == [slot EXCEPT !.parts = @ \cup {c}, !.rec = @ + 1, !.last = @ \/ c.last,
                             !.big = Max({@, c.part + 1})]
    IN  IF \E p \in slot.parts : p.part = c.part THEN [slot |-> slot, out |-> <<>>]
        ELSE IF Inconsistent(slot, c) THEN [slot |-> [st |-> "rejected", at |-> qqNow], out |-> <<>>]
        ELSE IF Complete(more)
        THEN [slot |-> [st |-> "done", at |-> qqNow], out |-> Joined(more.parts, more.rec)]
        ELSE [slot |-> more, out |-> <<>>]

NewDataEventForgets(slot, c) ==
    LET r == IF slot.st = "assembling" THEN Extend(slot, c) ELSE Begin(c)
    IN  IF r.out = <<>> THEN r ELSE [r EXCEPT !.slot = Empty]
NewDataEvent(slot, c) ==
    CASE slot.st = "empty" -> Begin(c)
      [] slot.st = "assembling" -> Extend(slot, c)
      [] OTHER -> [slot |-> slot, out |-> <<>>]

Sweep ==
    /\ \E o \in OffsetIds : Expired(qqSlot[o])
    /\ qqSlot' = [o \in OffsetIds |-> Lazily(qqSlot[o])]
    /\ UNCHANGED <<timeVars, sendVars, qqJob, qqNet, qqKnown, qqGot, qqHeard>>

(* engine.rs: the receiving end *)

\* The query stays in the network: it may come again.
WanRecv ==
    \E m \in qqNet :
        LET c == GetChunkData(m.q)
            r == NewDataEvent(Lazily(qqSlot[c.off]), c)
        IN  /\ ~(c.part = 2 * Half - 1 /\ ~c.last)
            /\ qqSlot' = [qqSlot EXCEPT ![c.off] = r.slot]
            /\ qqGot' = IF r.out # <<>> /\ qqKnown # "none" THEN Append(qqGot, Decode(r.out)) ELSE qqGot
            /\ qqHeard' = qqHeard \cup {m.q.chunk}
            /\ UNCHANGED <<timeVars, sendVars, qqJob, qqNet, qqKnown>>

\* A client learns where to deliver from the first datagram its own application sends.
LearnAddress ==
    /\ qqKnown = "none" /\ qqKnown' = "learned"
    /\ UNCHANGED <<timeVars, sendVars, qqJob, qqNet, qqSlot, qqGot, qqHeard>>

\* Pacing is far below a time unit: a job is sent within one.
Tick ==
    /\ qqNow < MaxNow /\ qqNow' = qqNow + 1
    /\ \A r \in Lines : qqJob[r] = NoJob
    /\ qqNet' = {m \in qqNet : qqNow' - m.born <= NetLife}
    /\ UNCHANGED <<qqGap, sendVars, qqJob, recvVars>>

Next == HRecv \/ (\E r \in Lines : WanSendWorker(r)) \/ WanRecv \/ Sweep \/ LearnAddress \/ Tick

Spec == Init /\ [][Next]_vars

-----------------------------------------------------------------------------

\* With offsets far enough apart, a datagram all of whose queries arrived is delivered:
\* no slot is poisoned, and none expires half way (assemble_time against the life of a
\* query, packets_wait_time_limit).
WholeDatagramArrives ==
    Safe /\ qqKnown = "fixed" => \A d \in qqSent :
        UNION {(c.from + 1)..c.to : c \in {h \in qqHeard : h.d = d}} = 1..Length[d]
            => \E k \in DOMAIN qqGot : qqGot[k] = d

\* The tunnel is a datagram channel: mixing and repeats only with offsets reused early.
Channel == INSTANCE DatagramChannel WITH
    sent <- IF Safe THEN qqSent ELSE {}, got <- IF Safe THEN qqGot ELSE <<>>
Refines == Channel!Spec
=============================================================================
