---------------------------- MODULE ProxySessions ----------------------------
(* proxy/proxy.rs and proxy/session.rs: one receive loop creates a session  *)
(* and a relay task per client address; a cleanup task expires silent       *)
(* clients; a relay whose backend socket fails removes its session itself.  *)
(* The maps are shared, each access holds one shard's lock.                 *)
EXTENDS Naturals, FiniteSets

CONSTANTS
    PsClients, PsProtocols,
    PsMax,          \* max_sessions, also MetricsStore's max_clients
    PsRelays,       \* bound: relays ever spawned
    PsPackets,      \* bound: datagrams from clients
    PsFaults        \* bound: failing backend sockets

VARIABLES
    psSess,     \* client -> NoSession or [gen, idle]
    psCount,    \* session_count
    psMet,      \* clients with an entry in MetricsStore
    psProto,    \* client_protocols: client -> protocol or "none"
    psHandle,   \* relay_handles: client -> generation or 0
    psRelay,    \* generation -> [st, c, lock]
    psLoop,     \* the receive loop's position
    psClean,    \* the cleanup task: the expired clients it still has to tear down
    psLeft

tables == <<psSess, psCount, psMet, psProto>>
vars == <<tables, psHandle, psRelay, psLoop, psClean, psLeft>>

Gens == 1..PsRelays
NoSession == [gen |-> 0, idle |-> TRUE]
NoRelayGeneration == 0
Present(c) == psSess[c] # NoSession
Sessions == {c \in PsClients : Present(c)}
Spawned == {g \in Gens : psRelay[g].st # "unborn"}
Handling(c) == psLoop.pc \notin {"recv", "stopped"} /\ psLoop.c = c
\* At an await, where an abort takes effect.
Abortable(g) == psRelay[g].st = "run"
Abort(relay, g) ==
    IF g = 0 THEN relay ELSE IF relay[g].st = "run" THEN [relay EXCEPT ![g].st = "ended"] ELSE relay

Init ==
    /\ psSess = [c \in PsClients |-> NoSession]
    /\ psCount = 0 /\ psMet = {}
    /\ psProto = [c \in PsClients |-> "none"]
    /\ psHandle = [c \in PsClients |-> 0]
    /\ psRelay = [g \in Gens |-> [st |-> "unborn", c |-> "none", lock |-> "none"]]
    /\ psLoop = [pc |-> "recv"]
    /\ psClean = {}
    /\ psLeft = [packets |-> PsPackets, faults |-> PsFaults]

-----------------------------------------------------------------------------
(* handle_client_packet *)

MetricsFor(c) == IF c \in psMet \/ Cardinality(psMet) < PsMax THEN psMet \cup {c} ELSE psMet

\* handle_probe locks a client to the first protocol detected; without a metrics entry too.
LockedProtocol(c, detected) == IF psProto[c] = "none" THEN detected ELSE psProto[c]

\* A datagram that classifies as AmneziaWG (cb) skips the probe; a stranger's that does not
\* is dropped, unless a session exists.
ReceivePacket(c) ==
    /\ psLoop.pc = "recv" /\ psLeft.packets > 0
    /\ psLeft' = [psLeft EXCEPT !.packets = @ - 1]
    /\ psMet' = MetricsFor(c)
    /\ \E cb \in BOOLEAN, detected \in PsProtocols \cup {"none"} :
        /\ cb => detected = "none"
        /\ psProto' = [psProto EXCEPT ![c] = LockedProtocol(c, detected)]
        /\ psLoop' = IF ~cb /\ ~Present(c) THEN psLoop ELSE [pc |-> "lookup", c |-> c]
    /\ UNCHANGED <<psSess, psCount, psHandle, psRelay, psClean>>

\* The fast path of get_or_create, and its check of the capacity before the socket is bound.
Lookup ==
    /\ psLoop.pc = "lookup"
    /\ LET c == psLoop.c IN
        /\ psSess' = IF Present(c) THEN [psSess EXCEPT ![c].idle = FALSE] ELSE psSess
        /\ psLoop' = IF Present(c) THEN [pc |-> "recv"]
                     ELSE [pc |-> IF psCount >= PsMax THEN "refuse" ELSE "insert", c |-> c]
    /\ UNCHANGED <<psCount, psMet, psProto, psHandle, psRelay, psClean, psLeft>>

\* The socket is bound: the entry's lock decides. Nobody else inserts.
InsertSession ==
    /\ psLoop.pc = "insert"
    /\ LET c == psLoop.c IN
        IF psCount >= PsMax
        THEN psLoop' = [psLoop EXCEPT !.pc = "refuse"] /\ UNCHANGED <<psSess, psCount>>
        ELSE /\ psCount' = psCount + 1
             /\ psSess' = [psSess EXCEPT ![c] = [gen |-> NoRelayGeneration, idle |-> FALSE]]
             /\ psLoop' = [psLoop EXCEPT !.pc = "register"]
    /\ UNCHANGED <<psMet, psProto, psHandle, psRelay, psClean, psLeft>>

\* Without a session nothing of the client stays behind.
Refuse ==
    /\ psLoop.pc = "refuse"
    /\ psMet' = psMet \ {psLoop.c}
    /\ psProto' = [psProto EXCEPT ![psLoop.c] = "none"]
    /\ psLoop' = [pc |-> "recv"]
    /\ UNCHANGED <<psSess, psCount, psHandle, psRelay, psClean, psLeft>>

-----------------------------------------------------------------------------
(* spawn_session_relay *)

SetRelayGeneration(c, g) ==
    psSess' = IF Present(c) THEN [psSess EXCEPT ![c].gen = g] ELSE psSess

Register ==
    /\ psLoop.pc = "register"
    /\ LET g == Cardinality(Spawned) + 1 IN
        /\ g \in Gens
        /\ SetRelayGeneration(psLoop.c, g)
        /\ psRelay' = [psRelay EXCEPT ![g] = [st |-> "run", c |-> psLoop.c, lock |-> "none"]]
        /\ psLoop' = [pc |-> "swap", c |-> psLoop.c, gen |-> g]
    /\ UNCHANGED <<psCount, psMet, psProto, psHandle, psClean, psLeft>>

\* The old relay is aborted, the new handle stored; a task that is already over leaves none.
Swap ==
    /\ psLoop.pc = "swap"
    /\ LET c == psLoop.c
           g == psLoop.gen
       IN  /\ psRelay' = Abort(psRelay, psHandle[c])
           /\ psHandle' = [psHandle EXCEPT ![c] = IF psRelay[g].st = "ended" THEN 0 ELSE g]
    /\ psLoop' = [pc |-> "recv"]
    /\ UNCHANGED <<tables, psClean, psLeft>>

-----------------------------------------------------------------------------
(* The relay task *)

\* Backend traffic reaches the client and keeps no session alive.
Relay(g) ==
    /\ Abortable(g)
    /\ psRelay' = [psRelay EXCEPT ![g].lock = IF @ = "none" THEN psProto[psRelay[g].c] ELSE @]
    /\ UNCHANGED <<tables, psHandle, psLoop, psClean, psLeft>>
RelayTouches(g) ==
    /\ Abortable(g)
    /\ LET c == psRelay[g].c IN
        psSess' = IF Present(c) THEN [psSess EXCEPT ![c].idle = FALSE] ELSE psSess
    /\ UNCHANGED <<psCount, psMet, psProto, psRelay, psHandle, psLoop, psClean, psLeft>>
SendToClient(g) == Relay(g)

RecvFails(g) ==
    /\ Abortable(g) /\ psLeft.faults > 0
    /\ psLeft' = [psLeft EXCEPT !.faults = @ - 1]
    /\ psRelay' = [psRelay EXCEPT ![g].st = "failed"]
    /\ UNCHANGED <<tables, psHandle, psLoop, psClean>>

\* SessionTable::remove: only an entry that was there is uncounted.
Remove(c) ==
    /\ psSess' = [psSess EXCEPT ![c] = NoSession]
    /\ psCount' = IF Present(c) THEN psCount - 1 ELSE psCount

\* By address: whichever session is there now.
RelayRemovesSession(g) ==
    /\ psRelay[g].st = "failed"
    /\ Remove(psRelay[g].c)
    /\ psRelay' = [psRelay EXCEPT ![g].st = "wiping"]
    /\ UNCHANGED <<psMet, psProto, psHandle, psLoop, psClean, psLeft>>
RelayWipes(g) ==
    /\ psRelay[g].st = "wiping"
    /\ psMet' = psMet \ {psRelay[g].c}
    /\ psProto' = [psProto EXCEPT ![psRelay[g].c] = "none"]
    /\ psRelay' = [psRelay EXCEPT ![g].st = "leaving"]
    /\ UNCHANGED <<psSess, psCount, psHandle, psLoop, psClean, psLeft>>
RelayLeaves(g) ==
    /\ psRelay[g].st = "leaving"
    /\ LET c == psRelay[g].c IN
        psHandle' = IF psHandle[c] = g THEN [psHandle EXCEPT ![c] = 0] ELSE psHandle
    /\ psRelay' = [psRelay EXCEPT ![g].st = "ended"]
    /\ UNCHANGED <<tables, psLoop, psClean, psLeft>>

-----------------------------------------------------------------------------
(* spawn_cleanup_task *)

\* session_ttl of silence; the loop does not dwell on one packet that long.
FallSilent(c) ==
    /\ Present(c) /\ ~psSess[c].idle
    /\ ~Handling(c)
    /\ psSess' = [psSess EXCEPT ![c].idle = TRUE]
    /\ UNCHANGED <<psCount, psMet, psProto, psHandle, psRelay, psLoop, psClean, psLeft>>

Expired == {c \in Sessions : psSess[c].idle}

\* cleanup_expired removes the sessions and reports the generation of their relays.
CleanupExpired ==
    /\ psLoop.pc # "stopped" /\ psClean = {} /\ Expired # {}
    /\ psClean' = {[c |-> c, gen |-> psSess[c].gen, pc |-> "abort"] : c \in Expired}
    /\ psSess' = [c \in PsClients |-> IF c \in Expired THEN NoSession ELSE psSess[c]]
    /\ psCount' = psCount - Cardinality(Expired)
    /\ UNCHANGED <<psMet, psProto, psHandle, psRelay, psLoop, psLeft>>

\* The relay goes, whoever's it is.
AbortAnyRelay(t) ==
    /\ t.pc = "abort"
    /\ psRelay' = Abort(psRelay, psHandle[t.c])
    /\ psHandle' = [psHandle EXCEPT ![t.c] = 0]
    /\ psClean' = (psClean \ {t}) \cup {[t EXCEPT !.pc = "check"]}
    /\ UNCHANGED <<tables, psLoop, psLeft>>
AbortExpiredRelay(t) ==
    /\ t.pc = "abort"
    /\ LET own == t.gen # NoRelayGeneration /\ psHandle[t.c] = t.gen IN
        /\ psRelay' = IF own THEN Abort(psRelay, t.gen) ELSE psRelay
        /\ psHandle' = IF own THEN [psHandle EXCEPT ![t.c] = 0] ELSE psHandle
    /\ psClean' = (psClean \ {t}) \cup {[t EXCEPT !.pc = "check"]}
    /\ UNCHANGED <<tables, psLoop, psLeft>>
SpareIfBack(t) ==
    /\ t.pc = "check"
    /\ psClean' = (psClean \ {t}) \cup (IF Present(t.c) THEN {} ELSE {[t EXCEPT !.pc = "wipe"]})
    /\ UNCHANGED <<tables, psHandle, psRelay, psLoop, psLeft>>
WipeAuxiliary(t) ==
    /\ t.pc = "wipe"
    /\ psMet' = psMet \ {t.c}
    /\ psProto' = [psProto EXCEPT ![t.c] = "none"]
    /\ psClean' = psClean \ {t}
    /\ UNCHANGED <<psSess, psCount, psHandle, psRelay, psLoop, psLeft>>
TeardownExpiredClient(t) == AbortExpiredRelay(t) \/ SpareIfBack(t) \/ WipeAuxiliary(t)

-----------------------------------------------------------------------------
\* run: the signal is seen between two packets; the cleanup task and every relay with a
\* handle are aborted (a teardown without an await runs to its end, here it is cut short).
Shutdown ==
    /\ psLoop.pc = "recv"
    /\ psLoop' = [pc |-> "stopped"]
    /\ psRelay' = [g \in Gens |-> IF psRelay[g].st = "run" /\ psHandle[psRelay[g].c] = g
                                  THEN [psRelay[g] EXCEPT !.st = "ended"] ELSE psRelay[g]]
    /\ psHandle' = [c \in PsClients |-> 0]
    /\ UNCHANGED <<tables, psClean, psLeft>>

Cleanup == CleanupExpired \/ \E t \in psClean : TeardownExpiredClient(t)
ReceiveLoop == Lookup \/ InsertSession \/ Refuse \/ Register \/ Swap

Next ==
    \/ \E c \in PsClients : ReceivePacket(c) \/ FallSilent(c)
    \/ ReceiveLoop \/ Cleanup \/ Shutdown
    \/ \E g \in Gens : SendToClient(g) \/ RecvFails(g) \/ RelayRemovesSession(g) \/ RelayWipes(g)
                        \/ RelayLeaves(g)

\* The runtime polls every task that is ready, and time passes.
Fairness ==
    /\ WF_vars(ReceiveLoop) /\ WF_vars(Cleanup)
    /\ \A c \in PsClients : WF_vars(FallSilent(c))
    /\ \A g \in Gens : WF_vars(RelayRemovesSession(g)) /\ WF_vars(RelayWipes(g)) /\ WF_vars(RelayLeaves(g))
Spec == Init /\ [][Next]_vars /\ Fairness

-----------------------------------------------------------------------------

\* Once the loop is done with a client's packet, a session of the client has the relay that
\* was registered for it, reachable by its handle: no teardown of an older session of the
\* address takes it (teardown_expired_client, the generation).
SessionHasItsRelay ==
    \A c \in Sessions :
        ~Handling(c) /\ psLoop.pc # "stopped" =>
            /\ psSess[c].gen # NoRelayGeneration
            /\ psRelay[psSess[c].gen].st \in {"run", "failed"}
            /\ psHandle[c] = psSess[c].gen

\* A client that stays silent loses its session, however long the backend keeps sending to it
\* (only packets from the client touch a session).
SilentSessionExpires == <>(psLoop.pc = "stopped") \/ <>[](Sessions = {})
=============================================================================
