----------------------------- MODULE AddressPool -----------------------------
(* Which tunnel address a peer has: cidr.rs, the allocator of db.rs, the      *)
(* handlers of api/clients.rs and change_cidr of api/admin.rs. Addresses are  *)
(* numbers; a network is an address, host bits included, and a size. Each     *)
(* database call is atomic and no lock spans two of them.                     *)
EXTENDS Integers, FiniteSets, FiniteSetsExt

CONSTANTS
    ApHandlers,
    ApV4, ApV6,      \* networks an operator may choose; v6 may be Unset
    ApQuota,         \* MAX_CLIENTS_PER_USER
    ApClients,       \* bound: rows ever inserted
    ApEvents         \* bound: requests

VARIABLES
    apNet,       \* interfaces_table: [v4, v6]
    apRow,       \* clients_table: id -> [v4, v6, mine]
    apNext, apTask, apLeft,
    apExcused    \* history: the last change of network was cut short or overlapped

vars == <<apNet, apRow, apNext, apTask, apLeft, apExcused>>

Unset == [addr |-> 0, size |-> 0]
Null == 0

-----------------------------------------------------------------------------
(* cidr.rs *)

Network(n) == n.addr - (n.addr % n.size)
Broadcast(n) == Network(n) + n.size - 1
Contains(n, a) == n.size # 0 /\ a \in Network(n)..Broadcast(n)

\* The range is counted from the address as it was written.
HostsFromAddr(n) == IF n.size > 2 THEN (n.addr + 1)..(n.addr + n.size - 2) ELSE n.addr..(n.addr + n.size - 1)
Hosts(n) == IF n.size > 2 THEN (Network(n) + 1)..(Broadcast(n) - 1) ELSE Network(n)..Broadcast(n)
Hosts6(n) == Network(n)..Broadcast(n)

ServerIp(n) == n.addr + 1

(* db.rs: the first host that is neither the server's nor used. *)
FreeV4(n, used) == Hosts(n) \ (used \cup {ServerIp(n)})
FreeV6(n, used) == Hosts6(n) \ (used \cup {n.addr, ServerIp(n)})

UsedV4 == {apRow[i].v4 : i \in DOMAIN apRow}
UsedV6 == {apRow[i].v6 : i \in DOMAIN apRow} \ {Null}

-----------------------------------------------------------------------------
Idle == [pc |-> "idle"]
Goto(h, l) == apTask' = [apTask EXCEPT ![h] = l]
Busy == {h \in ApHandlers : apTask[h] # Idle}
Changing == {h \in ApHandlers : apTask[h].pc \in {"list", "reassign"}}

Init ==
    /\ apNet \in [v4 : ApV4, v6 : ApV6]
    /\ apRow = [i \in {} |-> 0]
    /\ apNext = 1
    /\ apTask = [h \in ApHandlers |-> Idle]
    /\ apLeft = ApEvents
    /\ apExcused = FALSE

Begin(h) ==
    apTask[h] = Idle /\ apLeft > 0 /\ apLeft' = apLeft - 1
Overlaps == apExcused' = (apExcused \/ Changing # {})

-----------------------------------------------------------------------------
(* create_client *)

AtQuota(mine) == mine >= ApQuota

\* A non-admin's clients are counted; an administrator's are not.
CreateClient(h, admin) ==
    /\ Begin(h) /\ Overlaps
    /\ admin \/ ~AtQuota(Cardinality({i \in DOMAIN apRow : apRow[i].mine}))
    /\ Goto(h, [pc |-> "interface", mine |-> ~admin])
    /\ UNCHANGED <<apNet, apRow, apNext>>

GetInterface(h) ==
    /\ apTask[h].pc = "interface"
    /\ Goto(h, [pc |-> "insert", mine |-> apTask[h].mine, net |-> apNet])
    /\ UNCHANGED <<apNet, apRow, apNext, apLeft, apExcused>>

\* create_client_alloc_ip: one transaction, in the network read before it; without a free
\* address the request fails.
CreateClientAllocIp(h) ==
    /\ apTask[h].pc = "insert"
    /\ LET n == apTask[h].net
           v4 == FreeV4(n.v4, UsedV4)
           v6 == IF n.v6 = Unset THEN {Null} ELSE FreeV6(n.v6, UsedV6)
           row == [v4 |-> Min(v4), v6 |-> Min(v6), mine |-> apTask[h].mine]
       IN  IF v4 = {} \/ v6 = {} \/ apNext > ApClients THEN UNCHANGED <<apRow, apNext>>
           ELSE /\ apRow' = [i \in DOMAIN apRow \cup {apNext} |-> IF i = apNext THEN row ELSE apRow[i]]
                /\ apNext' = apNext + 1
    /\ Goto(h, Idle)
    /\ apExcused' = (apExcused \/ Changing # {} \/ apTask[h].net # apNet)
    /\ UNCHANGED <<apNet, apLeft>>

-----------------------------------------------------------------------------
(* change_cidr *)

UpdateCidr(h, n4, n6) ==
    /\ Begin(h) /\ apExcused' = (Busy # {})
    /\ apNet' = [v4 |-> n4, v6 |-> n6]
    /\ Goto(h, [pc |-> "list"])
    /\ UNCHANGED <<apRow, apNext>>

ListClients(h) ==
    /\ apTask[h].pc = "list"
    /\ Goto(h, [pc |-> "reassign", todo |-> DOMAIN apRow, net |-> apNet, v4 |-> {}, v6 |-> {}])
    /\ UNCHANGED <<apNet, apRow, apNext, apLeft, apExcused>>

\* UNIQUE refuses an address another row still has; an UPDATE of a row that is gone does nothing.
Conflict(i, a4, a6) ==
    \E j \in DOMAIN apRow \ {i} : apRow[j].v4 = a4 \/ (a6 # Null /\ apRow[j].v6 = a6)

Reassign(h) ==
    /\ apTask[h].pc = "reassign" /\ apTask[h].todo # {}
    /\ LET l == apTask[h]
           i == Min(l.todo)
           v4 == FreeV4(l.net.v4, l.v4)
           v6 == IF l.net.v6 = Unset THEN {Null} ELSE FreeV6(l.net.v6, l.v6)
           fails == v4 = {} \/ v6 = {} \/ (i \in DOMAIN apRow /\ Conflict(i, Min(v4), Min(v6)))
       IN  /\ apRow' = IF fails \/ i \notin DOMAIN apRow THEN apRow
                       ELSE [apRow EXCEPT ![i].v4 = Min(v4),
                                          ![i].v6 = IF l.net.v6 = Unset THEN @ ELSE Min(v6)]
           /\ Goto(h, IF fails THEN Idle
                      ELSE [l EXCEPT !.todo = @ \ {i}, !.v4 = @ \cup {Min(v4)}, !.v6 = @ \cup {Min(v6)}])
           /\ apExcused' = (apExcused \/ fails)
    /\ UNCHANGED <<apNet, apNext, apLeft>>

ChangeReturns(h) ==
    /\ apTask[h].pc = "reassign" /\ apTask[h].todo = {}
    /\ Goto(h, Idle)
    /\ UNCHANGED <<apNet, apRow, apNext, apLeft, apExcused>>

-----------------------------------------------------------------------------
(* update_client and delete_client *)

\* The network is read and the address looked for in it, then written.
UpdateClient(h, i, a) ==
    /\ Begin(h) /\ Overlaps
    /\ i \in DOMAIN apRow /\ Contains(apNet.v4, a)
    /\ Goto(h, [pc |-> "write", id |-> i, v4 |-> a, net |-> apNet])
    /\ UNCHANGED <<apNet, apRow, apNext>>

WriteClient(h) ==
    /\ apTask[h].pc = "write"
    /\ LET l == apTask[h]
       IN  apRow' = IF l.id \notin DOMAIN apRow \/ Conflict(l.id, l.v4, Null) THEN apRow
                    ELSE [apRow EXCEPT ![l.id].v4 = l.v4]
    /\ Goto(h, Idle)
    /\ apExcused' = (apExcused \/ Changing # {} \/ apTask[h].net # apNet)
    /\ UNCHANGED <<apNet, apNext, apLeft>>

DeleteClient(h, i) ==
    /\ Begin(h) /\ Overlaps
    /\ i \in DOMAIN apRow
    /\ apRow' = [j \in DOMAIN apRow \ {i} |-> apRow[j]]
    /\ UNCHANGED <<apNet, apNext, apTask>>

Next ==
    \E h \in ApHandlers :
        \/ \E admin \in BOOLEAN : CreateClient(h, admin)
        \/ GetInterface(h) \/ CreateClientAllocIp(h)
        \/ \E n4 \in ApV4, n6 \in ApV6 : UpdateCidr(h, n4, n6)
        \/ ListClients(h) \/ Reassign(h) \/ ChangeReturns(h) \/ WriteClient(h)
        \/ \E i \in DOMAIN apRow :
            \/ DeleteClient(h, i)
            \/ \E n \in ApV4 : UpdateClient(h, i, Network(n) + 1) \/ UpdateClient(h, i, Network(n) + 3)

Spec == Init /\ [][Next]_vars

-----------------------------------------------------------------------------

\* Once a change of network went through alone, every peer has an address in it, the ones
\* created and moved since included (create_client_alloc_ip, change_cidr, update_client).
PeersAreInTheRange ==
    Busy = {} /\ ~apExcused =>
        \A i \in DOMAIN apRow :
            /\ Contains(apNet.v4, apRow[i].v4)
            /\ apNet.v6 # Unset /\ apRow[i].v6 # Null => Contains(apNet.v6, apRow[i].v6)

=============================================================================
