---------------------------- MODULE ActivityStore ----------------------------
(* activity.rs: every interval the poller reads the kernel's counters, then   *)
(* the roster, then adds the differences to an in-memory record per client.   *)
(* Peers are created, deleted and rotated, the interface restarts and the     *)
(* history is purged in between.                                              *)
EXTENDS Integers

CONSTANTS
    AcClients,      \* row ids, never used twice
    AcBytes,        \* bound: bytes a client moves
    AcDays,         \* bound: the calendar
    AcEvents        \* bound: administrative events

VARIABLES
    acDay,
    acRetention,    \* general_table.activity_retention_days
    acRows,         \* clients_table: ids
    acKernel,       \* peers of the interface: id -> bytes since the peer was added
    acStore,        \* id -> [total, baseline, days: day -> bytes]
    acPoll,         \* the poller: position and what it has read
    acPurged, acPruned,  \* purged_while_disabled, last_prune_day
    acLeft,
    acMoved         \* history: id -> bytes it really moved

vars == <<acDay, acRetention, acRows, acKernel, acStore, acPoll, acPurged, acPruned, acLeft, acMoved>>

Unknown == -1
Fresh == [total |-> 0, baseline |-> Unknown, days |-> [d \in {} |-> 0]]
Without(f, S) == [x \in DOMAIN f \ S |-> f[x]]
Put(f, x, y) == [z \in DOMAIN f \cup {x} |-> IF z = x THEN y ELSE f[z]]
Idle == [pc |-> "idle"]

Init ==
    /\ acDay = 1 /\ acRetention \in {0, 1}
    /\ acRows \in SUBSET AcClients
    /\ acKernel = [i \in acRows |-> 0]
    /\ acStore = [i \in {} |-> Fresh]
    /\ acPoll = Idle /\ acPurged = FALSE /\ acPruned = 0
    /\ acLeft = AcEvents
    /\ acMoved = [i \in AcClients |-> 0]

-----------------------------------------------------------------------------
(* record_samples *)

Delta(e, counter) ==
    IF e.baseline = Unknown \/ counter < e.baseline THEN 0 ELSE counter - e.baseline

SampleKeepsBaseline(e, counter) ==
    LET d == Delta(e, counter)
        b == IF e.baseline = Unknown THEN counter ELSE e.baseline
    IN  [total |-> e.total + d, baseline |-> b,
         days |-> Put(e.days, acDay, (IF acDay \in DOMAIN e.days THEN e.days[acDay] ELSE 0) + d)]
Sampled(e, counter) ==
    LET d == Delta(e, counter)
    IN  [total |-> e.total + d, baseline |-> counter,
         days |-> Put(e.days, acDay, (IF acDay \in DOMAIN e.days THEN e.days[acDay] ELSE 0) + d)]

RecordSamples(samples) ==
    [i \in DOMAIN acStore \cup DOMAIN samples |->
        LET e == IF i \in DOMAIN acStore THEN acStore[i] ELSE Fresh
        IN  IF i \in DOMAIN samples THEN Sampled(e, samples[i]) ELSE e]

\* prune_before: the days, then the records left with nothing.
PruneBefore(store, cutoff) ==
    LET pruned == [i \in DOMAIN store |->
                    [store[i] EXCEPT !.days = Without(@, {d \in DOMAIN @ : d < cutoff})]]
    IN  Without(pruned, {i \in DOMAIN pruned : DOMAIN pruned[i].days = {} /\ pruned[i].total = 0})

-----------------------------------------------------------------------------
(* run and poll_once *)

\* A disabled history is purged once.
Disabled ==
    /\ acPoll = Idle /\ acRetention = 0
    /\ acStore' = IF acPurged THEN acStore ELSE [i \in {} |-> Fresh]
    /\ acPurged' = TRUE
    /\ UNCHANGED <<acDay, acRetention, acRows, acKernel, acPoll, acPruned, acLeft, acMoved>>

DumpPeers ==
    /\ acPoll = Idle /\ acRetention > 0
    /\ acPurged' = FALSE
    /\ acPoll' = [pc |-> IF DOMAIN acKernel = {} THEN "prune" ELSE "roster", days |-> acRetention,
                  peers |-> acKernel]
    /\ UNCHANGED <<acDay, acRetention, acRows, acKernel, acStore, acPruned, acLeft, acMoved>>

DumpFails ==
    /\ acPoll = Idle /\ acRetention > 0 /\ acLeft > 0
    /\ acLeft' = acLeft - 1
    /\ acPurged' = FALSE
    /\ acPoll' = [pc |-> "prune", days |-> acRetention]
    /\ UNCHANGED <<acDay, acRetention, acRows, acKernel, acStore, acPruned, acMoved>>

GetAllClients ==
    /\ acPoll.pc = "roster"
    /\ acPoll' = [pc |-> "retain", days |-> acPoll.days, peers |-> acPoll.peers, rows |-> acRows]
    /\ UNCHANGED <<acDay, acRetention, acRows, acKernel, acStore, acPurged, acPruned, acLeft, acMoved>>

RetainClients ==
    /\ acPoll.pc = "retain"
    /\ acStore' = Without(acStore, DOMAIN acStore \ acPoll.rows)
    /\ acPoll' = [acPoll EXCEPT !.pc = "record"]
    /\ UNCHANGED <<acDay, acRetention, acRows, acKernel, acPurged, acPruned, acLeft, acMoved>>

\* A row is sampled when the dump has its peer, once it shook hands.
Record ==
    /\ acPoll.pc = "record"
    /\ LET seen == {i \in acPoll.rows \cap DOMAIN acPoll.peers : acPoll.peers[i] > 0}
       IN  acStore' = RecordSamples([i \in seen |-> acPoll.peers[i]])
    /\ acPoll' = [acPoll EXCEPT !.pc = "prune"]
    /\ UNCHANGED <<acDay, acRetention, acRows, acKernel, acPurged, acPruned, acLeft, acMoved>>

\* Once a day.
Prune ==
    /\ acPoll.pc = "prune"
    /\ acStore' = IF acPruned = acDay THEN acStore ELSE PruneBefore(acStore, acDay - acPoll.days)
    /\ acPruned' = acDay
    /\ acPoll' = Idle
    /\ UNCHANGED <<acDay, acRetention, acRows, acKernel, acPurged, acLeft, acMoved>>

-----------------------------------------------------------------------------
(* The rest of the system *)

Event == acLeft > 0 /\ acLeft' = acLeft - 1

Traffic(i) ==
    /\ i \in DOMAIN acKernel /\ acMoved[i] < AcBytes
    /\ acKernel' = [acKernel EXCEPT ![i] = @ + 1]
    /\ acMoved' = [acMoved EXCEPT ![i] = @ + 1]
    /\ UNCHANGED <<acDay, acRetention, acRows, acStore, acPoll, acPurged, acPruned, acLeft>>

\* A deleted row and the record with it; the peer leaves with the sync that follows.
DeleteClient(i) ==
    /\ i \in acRows /\ Event
    /\ acRows' = acRows \ {i}
    /\ acStore' = Without(acStore, {i})
    /\ UNCHANGED <<acDay, acRetention, acKernel, acPoll, acPurged, acPruned, acMoved>>
Synced(i) ==
    /\ i \in DOMAIN acKernel \ acRows
    /\ acKernel' = Without(acKernel, {i})
    /\ UNCHANGED <<acDay, acRetention, acRows, acStore, acPoll, acPurged, acPruned, acLeft, acMoved>>

\* A restart of the interface, or a rotated key, begins a peer's counters anew.
CountersReset(i) ==
    /\ i \in DOMAIN acKernel /\ acKernel[i] > 0 /\ Event
    /\ acKernel' = [acKernel EXCEPT ![i] = 0]
    /\ UNCHANGED <<acDay, acRetention, acRows, acStore, acPoll, acPurged, acPruned, acMoved>>

Purge ==
    /\ Event
    /\ acStore' = [i \in {} |-> Fresh]
    /\ UNCHANGED <<acDay, acRetention, acRows, acKernel, acPoll, acPurged, acPruned, acMoved>>

SetRetention(n) ==
    /\ n # acRetention /\ Event
    /\ acRetention' = n
    /\ UNCHANGED <<acDay, acRows, acKernel, acStore, acPoll, acPurged, acPruned, acMoved>>

Midnight ==
    /\ acDay < AcDays
    /\ acDay' = acDay + 1
    /\ UNCHANGED <<acRetention, acRows, acKernel, acStore, acPoll, acPurged, acPruned, acLeft, acMoved>>

Next ==
    \/ Disabled \/ DumpPeers \/ DumpFails \/ GetAllClients \/ RetainClients \/ Record \/ Prune
    \/ Purge \/ Midnight \/ \E n \in {0, 1} : SetRetention(n)
    \/ \E i \in AcClients : Traffic(i) \/ DeleteClient(i) \/ Synced(i) \/ CountersReset(i)

Spec == Init /\ [][Next]_vars

-----------------------------------------------------------------------------

\* A client is never shown more traffic than it moved, nor a day more than the total: counters
\* that restart, purges and late samples only lose (record_samples).
TotalsAreRealTraffic ==
    \A i \in DOMAIN acStore :
        /\ acStore[i].total <= acMoved[i]
        /\ \A d \in DOMAIN acStore[i].days : acStore[i].days[d] <= acStore[i].total
=============================================================================
