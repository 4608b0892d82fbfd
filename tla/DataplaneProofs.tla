-------------------------- MODULE DataplaneProofs ---------------------------
(* Machine-checked proofs about the packet path: the sessions and relays   *)
(* of the imitating proxy, its SIP dialogs, probe budget, QUIC flights and *)
(* cover traffic, that the QQ-DNS tunnel implements a datagram channel,    *)
(* and that a datagram all of whose queries arrived is delivered.          *)
EXTENDS MCDataplane, Sequences, FiniteSetTheorems, WellFoundedInduction, NaturalsInduction, TLAPS

-----------------------------------------------------------------------------
(* Sessions and relays: any number of clients, protocols, packets and      *)
(* faults; PsRelays bounds the relays ever spawned.                        *)

(* Where a relay task may stand.                                           *)
RelayStates == {"unborn", "run", "failed", "wiping", "leaving", "ended"}

(* handle_packet has put the client's session in the table and has not     *)
(* stored its relay's handle yet.                                          *)
Registering(c) == psLoop.pc \in {"register", "swap"} /\ psLoop.c = c

(* A client's locked protocol, or none.                                    *)
Locks == PsProtocols \cup {"none"}

(* What the model keeps of a relay.                                        *)
RelayRecords == [st : RelayStates, c : PsClients \cup {"none"}, lock : Locks]

(* The types of the session tables, the receive loop and the cleanup       *)
(* tasks.                                                                  *)
SessionsTypeOK ==
    /\ psSess \in [PsClients -> [gen : 0..PsRelays, idle : BOOLEAN]]
    /\ psProto \in [PsClients -> Locks]
    /\ psHandle \in [PsClients -> 0..PsRelays]
    /\ psRelay \in [1..PsRelays -> RelayRecords]
    /\ psLoop.pc \in {"recv", "stopped", "lookup", "insert", "refuse", "register", "swap"}
    /\ psLoop.pc \notin {"recv", "stopped"} => psLoop.c \in PsClients
    /\ psLoop.pc = "insert" => psLoop = [pc |-> "insert", c |-> psLoop.c]
    /\ psLoop.pc = "swap" => psLoop.gen \in 1..PsRelays
    /\ psClean \subseteq [c : PsClients, gen : 0..PsRelays, pc : {"abort", "check", "wipe"}]

(* Relays are numbered in the order they are spawned and each is some      *)
(* client's.                                                               *)
SpawnInv ==
    /\ \A g \in 1..PsRelays : psRelay[g].st # "unborn" => psRelay[g].c \in PsClients
    /\ \E n \in 0..PsRelays : PS!Spawned = 1..n

(* Relay g was spawned for client c.                                       *)
Owns(c, g) == psRelay[g].st # "unborn" /\ psRelay[g].c = c

(* A table entry of a client names a relay of that client; a cleanup that  *)
(* is under way names one its client's session no longer has, and the loop *)
(* is about to store one that is not stored yet.                           *)
OwnershipInv ==
    /\ \A c \in PsClients : psHandle[c] # 0 => Owns(c, psHandle[c])
    /\ \A c \in PsClients : psSess[c].gen # 0 => Owns(c, psSess[c].gen)
    /\ \A t \in psClean : t.gen # 0 => Owns(t.c, t.gen) /\ psSess[t.c].gen # t.gen
    /\ psLoop.pc = "swap" => Owns(psLoop.c, psLoop.gen) /\ psHandle[psLoop.c] # psLoop.gen

(* While the loop runs, a session's relay is alive, the stored handle is   *)
(* the session's, and the one about to be stored is too. Ownership is what *)
(* makes this inductive: a cleanup compares generations, and an old one of *)
(* the same client can never equal the present one.                        *)
RelayInv ==
    psLoop.pc # "stopped" =>
    /\ \A c \in PsClients : psSess[c].gen # 0 => psRelay[psSess[c].gen].st \in {"run", "failed"}
    /\ \A c \in PsClients : PS!Present(c) /\ ~Registering(c) => psSess[c].gen # 0 /\ psHandle[c] = psSess[c].gen
    /\ psLoop.pc = "swap" /\ PS!Present(psLoop.c) => psSess[psLoop.c].gen = psLoop.gen

(* The inductive invariant.                                                *)
SessionsInv == SessionsTypeOK /\ SpawnInv /\ OwnershipInv /\ RelayInv

(* Aborting a relay changes the state of that relay alone, and gives birth *)
(* to none.                                                                *)
LEMMA AbortOnly ==
    ASSUME NEW relay \in [1..PsRelays -> RelayRecords], NEW g \in 0..PsRelays
    PROVE  /\ PS!Abort(relay, g) \in [1..PsRelays -> RelayRecords]
           /\ \A i \in 1..PsRelays :
                /\ PS!Abort(relay, g)[i].c = relay[i].c
                /\ PS!Abort(relay, g)[i].st = "unborn" <=> relay[i].st = "unborn"
                /\ i # g => PS!Abort(relay, g)[i] = relay[i]
  BY DEF PS!Abort, RelayRecords, RelayStates

(* Moving a relay to a state changes nothing else of it and no other       *)
(* relay.                                                                  *)
LEMMA StateOnly ==
    ASSUME NEW g \in 1..PsRelays, NEW st \in RelayStates, NEW relay \in [1..PsRelays -> RelayRecords]
    PROVE  /\ [relay EXCEPT ![g].st = st] \in [1..PsRelays -> RelayRecords]
           /\ [relay[g] EXCEPT !.st = st] \in RelayRecords
           /\ [relay EXCEPT ![g].st = st][g].st = st
           /\ \A i \in 1..PsRelays :
                /\ [relay EXCEPT ![g].st = st][i].c = relay[i].c
                /\ i # g => [relay EXCEPT ![g].st = st][i] = relay[i]
  BY DEF RelayRecords

(* Every step keeps the types.                                             *)
LEMMA SessionsTypeStep ==
    ASSUME PsRelays \in Nat, SessionsTypeOK, SpawnInv, [PS!Next]_(PS!vars)
    PROVE  SessionsTypeOK'
<1>a. 0 \in 0..PsRelays /\ \A g \in 1..PsRelays : g \in 0..PsRelays
  OBVIOUS
<1>0. \A g \in 1..PsRelays : psRelay[g].st # "unborn" => psRelay[g].c \in PsClients
  BY DEF SpawnInv
<1> USE DEF SessionsTypeOK, PS!Present, PS!NoSession, PS!NoRelayGeneration, PS!tables, PS!Gens,
       RelayRecords, RelayStates, Locks
<1>1. ASSUME NEW c \in PsClients, PS!ReceivePacket(c) PROVE SessionsTypeOK'
  BY <1>1 DEF PS!ReceivePacket, PS!LockedProtocol
<1>2. ASSUME NEW c \in PsClients, PS!FallSilent(c) PROVE SessionsTypeOK'
  BY <1>2 DEF PS!FallSilent
<1>3. CASE PS!Lookup
  BY <1>3 DEF PS!Lookup
<1>4. CASE PS!InsertSession
  <2>1. psLoop.c \in PsClients /\ psLoop = [pc |-> "insert", c |-> psLoop.c]
    BY <1>4 DEF PS!InsertSession
  <2>2. psLoop' \in {[pc |-> "refuse", c |-> psLoop.c], [pc |-> "register", c |-> psLoop.c]}
    BY <1>4, <2>1 DEF PS!InsertSession
  <2>3. psSess' \in [PsClients -> [gen : 0..PsRelays, idle : BOOLEAN]]
    <3>1. psSess' = psSess \/ psSess' = [psSess EXCEPT ![psLoop.c] = [gen |-> 0, idle |-> FALSE]]
      BY <1>4 DEF PS!InsertSession
    <3>2. [gen |-> 0, idle |-> FALSE] \in [gen : 0..PsRelays, idle : BOOLEAN]
      BY <1>a
    <3> QED BY <2>1, <3>1, <3>2
  <2> QED BY <1>4, <2>1, <2>2, <2>3 DEF PS!InsertSession
<1>5. CASE PS!Refuse
  BY <1>5 DEF PS!Refuse
<1>6. CASE PS!Register
  <2> DEFINE g == PS!Cardinality(PS!Spawned) + 1
  <2>1. /\ g \in 1..PsRelays
        /\ psSess' = IF PS!Present(psLoop.c) THEN [psSess EXCEPT ![psLoop.c].gen = g] ELSE psSess
        /\ psRelay' = [psRelay EXCEPT ![g] = [st |-> "run", c |-> psLoop.c, lock |-> "none"]]
        /\ psLoop' = [pc |-> "swap", c |-> psLoop.c, gen |-> g]
    BY <1>6 DEF PS!Register, PS!SetRelayGeneration
  <2> HIDE DEF g
  <2>2. psLoop.c \in PsClients /\ UNCHANGED <<psProto, psHandle, psClean>>
    BY <1>6 DEF PS!Register
  <2>3. psSess' \in [PsClients -> [gen : 0..PsRelays, idle : BOOLEAN]]
    <3>1. CASE PS!Present(psLoop.c)
      BY <2>1, <2>2, <3>1, <1>a, ZenonT(40)
    <3>2. CASE ~PS!Present(psLoop.c)
      BY <2>1, <3>2
    <3> QED BY <3>1, <3>2
  <2>4. psRelay' \in [1..PsRelays -> RelayRecords]
    BY <2>1, <2>2
  <2> QED BY <2>1, <2>2, <2>3, <2>4
<1>7. CASE PS!Swap
  <2>1. psHandle' \in [PsClients -> 0..PsRelays]
    BY <1>7 DEF PS!Swap
  <2>2. psRelay' \in [1..PsRelays -> RelayRecords]
    BY <1>7, AbortOnly DEF PS!Swap
  <2> QED BY <1>7, <2>1, <2>2 DEF PS!Swap
<1>8. CASE PS!CleanupExpired
  BY <1>8 DEF PS!CleanupExpired, PS!Expired, PS!Sessions
<1>9. ASSUME NEW t \in psClean, PS!AbortExpiredRelay(t) PROVE SessionsTypeOK'
  <2>1. psHandle' \in [PsClients -> 0..PsRelays] /\ t.gen \in 0..PsRelays
    BY <1>9 DEF PS!AbortExpiredRelay
  <2>2. psRelay' \in [1..PsRelays -> RelayRecords]
    BY <1>9, <2>1, AbortOnly DEF PS!AbortExpiredRelay
  <2> QED BY <1>9, <2>1, <2>2 DEF PS!AbortExpiredRelay
<1>10. ASSUME NEW t \in psClean, PS!SpareIfBack(t) PROVE SessionsTypeOK'
  BY <1>10 DEF PS!SpareIfBack
<1>11. ASSUME NEW t \in psClean, PS!WipeAuxiliary(t) PROVE SessionsTypeOK'
  BY <1>11 DEF PS!WipeAuxiliary
<1>12. CASE PS!Shutdown
  <2>0. ASSUME NEW g \in 1..PsRelays PROVE [psRelay[g] EXCEPT !.st = "ended"] \in RelayRecords
    <3>1. "ended" \in RelayStates /\ psRelay \in [1..PsRelays -> RelayRecords]
      OBVIOUS
    <3> HIDE DEF RelayRecords, RelayStates
    <3> QED BY <3>1, StateOnly
  <2>1. psRelay' \in [1..PsRelays -> RelayRecords]
    <3> HIDE DEF RelayRecords
    <3> QED BY <1>12, <2>0 DEF PS!Shutdown
  <2>2. psHandle' \in [PsClients -> 0..PsRelays]
    BY <1>12, <1>a DEF PS!Shutdown
  <2> QED BY <1>12, <2>1, <2>2 DEF PS!Shutdown
<1>13. ASSUME NEW g \in PS!Gens, PS!Relay(g) PROVE SessionsTypeOK'
  BY <1>13, <1>0 DEF PS!Relay, PS!Abortable
<1>14. ASSUME NEW g \in PS!Gens, PS!RecvFails(g) PROVE SessionsTypeOK'
  BY <1>14, <1>0, ZenonT(40) DEF PS!RecvFails, PS!Abortable
<1>15. ASSUME NEW g \in PS!Gens, PS!RelayRemovesSession(g) PROVE SessionsTypeOK'
  <2>1. psRelay' = [psRelay EXCEPT ![g].st = "wiping"] /\ psRelay[g].c \in PsClients
        /\ psSess' = [psSess EXCEPT ![psRelay[g].c] = PS!NoSession]
    BY <1>15, <1>0 DEF PS!RelayRemovesSession, PS!Remove
  <2>2. psRelay' \in [1..PsRelays -> RelayRecords]
    <3>1. "wiping" \in RelayStates /\ psRelay \in [1..PsRelays -> RelayRecords] /\ g \in 1..PsRelays
      OBVIOUS
    <3> HIDE DEF RelayRecords, RelayStates
    <3> QED BY <2>1, <3>1, StateOnly
  <2>3. PS!NoSession \in [gen : 0..PsRelays, idle : BOOLEAN]
    BY <1>a
  <2>4. psSess' \in [PsClients -> [gen : 0..PsRelays, idle : BOOLEAN]]
    BY <2>1, <2>3
  <2> QED BY <1>15, <2>2, <2>4 DEF PS!RelayRemovesSession
<1>16. ASSUME NEW g \in PS!Gens, PS!RelayWipes(g) PROVE SessionsTypeOK'
  BY <1>16, <1>0, ZenonT(40) DEF PS!RelayWipes
<1>17. ASSUME NEW g \in PS!Gens, PS!RelayLeaves(g) PROVE SessionsTypeOK'
  <2>1. psRelay' \in [1..PsRelays -> RelayRecords]
    BY <1>17 DEF PS!RelayLeaves
  <2>2. psHandle' \in [PsClients -> 0..PsRelays]
    BY <1>17, <1>0, <1>a DEF PS!RelayLeaves
  <2> QED BY <1>17, <2>1, <2>2 DEF PS!RelayLeaves
<1>18. CASE UNCHANGED PS!vars
  BY <1>18 DEF PS!vars
<1> QED
  BY <1>1, <1>2, <1>3, <1>4, <1>5, <1>6, <1>7, <1>8, <1>9, <1>10, <1>11, <1>12,
     <1>13, <1>14, <1>15, <1>16, <1>17, <1>18
     DEF PS!Next, PS!ReceiveLoop, PS!Cleanup, PS!TeardownExpiredClient, PS!SendToClient

(* What registering does: the first relay not spawned yet is the client's  *)
(* from now on.                                                            *)
LEMMA RegisterSpawns ==
    ASSUME PsRelays \in Nat, SessionsTypeOK, SpawnInv, PS!Register
    PROVE  \E g \in 1..PsRelays :
             /\ psRelay[g].st = "unborn" /\ psLoop.c \in PsClients
             /\ PS!Spawned = 1..(g - 1)
             /\ psSess' = IF PS!Present(psLoop.c) THEN [psSess EXCEPT ![psLoop.c].gen = g] ELSE psSess
             /\ psRelay' = [psRelay EXCEPT ![g] = [st |-> "run", c |-> psLoop.c, lock |-> "none"]]
             /\ psLoop' = [pc |-> "swap", c |-> psLoop.c, gen |-> g]
             /\ UNCHANGED <<psHandle, psClean>>
<1>1. PICK n \in 0..PsRelays : PS!Spawned = 1..n
  BY DEF SpawnInv
<1>2. Cardinality(PS!Spawned) = n
  BY <1>1, FS_Interval
<1>3. PS!Cardinality(PS!Spawned) = Cardinality(PS!Spawned)
  BY DEF PS!Cardinality, Cardinality
<1>4. n + 1 \in 1..PsRelays
  BY <1>2, <1>3 DEF PS!Register, PS!Gens
<1>5. psRelay[n + 1].st = "unborn"
  BY <1>1, <1>4 DEF PS!Spawned, PS!Gens
<1>6. psLoop.c \in PsClients
  BY DEF PS!Register, SessionsTypeOK
<1>7. PS!Cardinality(PS!Spawned) + 1 = n + 1 /\ PS!Spawned = 1..((n + 1) - 1)
  BY <1>1, <1>2, <1>3
<1>8. /\ psSess' = IF PS!Present(psLoop.c) THEN [psSess EXCEPT ![psLoop.c].gen = n + 1] ELSE psSess
      /\ psRelay' = [psRelay EXCEPT ![n + 1] = [st |-> "run", c |-> psLoop.c, lock |-> "none"]]
      /\ psLoop' = [pc |-> "swap", c |-> psLoop.c, gen |-> n + 1]
  BY <1>7 DEF PS!Register, PS!SetRelayGeneration
<1>9. UNCHANGED <<psHandle, psClean>>
  BY DEF PS!Register
<1> QED
  BY <1>4, <1>5, <1>6, <1>7, <1>8, <1>9

(* No other step spawns a relay or changes whose it is.                    *)
LEMMA OnlyRegisterSpawns ==
    ASSUME PsRelays \in Nat, SessionsTypeOK, ~PS!Register, [PS!Next]_(PS!vars)
    PROVE  \A i \in 1..PsRelays :
             psRelay'[i].c = psRelay[i].c /\ (psRelay'[i].st = "unborn" <=> psRelay[i].st = "unborn")
<1> DEFINE SameRelays == \A i \in 1..PsRelays :
        psRelay'[i].c = psRelay[i].c /\ (psRelay'[i].st = "unborn" <=> psRelay[i].st = "unborn")
<1> USE DEF SessionsTypeOK, PS!tables, PS!Gens, RelayRecords
<1>1. ASSUME NEW c \in PsClients, PS!ReceivePacket(c) PROVE SameRelays
  BY <1>1 DEF PS!ReceivePacket
<1>2. ASSUME NEW c \in PsClients, PS!FallSilent(c) PROVE SameRelays
  BY <1>2 DEF PS!FallSilent
<1>3. CASE PS!Lookup
  BY <1>3 DEF PS!Lookup
<1>4. CASE PS!InsertSession
  BY <1>4 DEF PS!InsertSession
<1>5. CASE PS!Refuse
  BY <1>5 DEF PS!Refuse
<1>6. CASE PS!Swap
  BY <1>6, AbortOnly, SMTT(30) DEF PS!Swap
<1>7. CASE PS!CleanupExpired
  BY <1>7 DEF PS!CleanupExpired, PS!Expired, PS!Sessions
<1>8. ASSUME NEW t \in psClean, PS!AbortExpiredRelay(t) PROVE SameRelays
  BY <1>8, AbortOnly DEF PS!AbortExpiredRelay
<1>9. ASSUME NEW t \in psClean, PS!SpareIfBack(t) PROVE SameRelays
  BY <1>9 DEF PS!SpareIfBack
<1>10. ASSUME NEW t \in psClean, PS!WipeAuxiliary(t) PROVE SameRelays
  BY <1>10 DEF PS!WipeAuxiliary
<1>11. CASE PS!Shutdown
  BY <1>11 DEF PS!Shutdown
<1>12. ASSUME NEW g \in PS!Gens, PS!Relay(g) PROVE SameRelays
  BY <1>12 DEF PS!Relay, PS!Abortable
<1>13. ASSUME NEW g \in PS!Gens, PS!RecvFails(g) PROVE SameRelays
  BY <1>13 DEF PS!RecvFails, PS!Abortable
<1>14. ASSUME NEW g \in PS!Gens, PS!RelayRemovesSession(g) PROVE SameRelays
  BY <1>14 DEF PS!RelayRemovesSession, PS!Remove
<1>15. ASSUME NEW g \in PS!Gens, PS!RelayWipes(g) PROVE SameRelays
  BY <1>15 DEF PS!RelayWipes
<1>16. ASSUME NEW g \in PS!Gens, PS!RelayLeaves(g) PROVE SameRelays
  BY <1>16 DEF PS!RelayLeaves
<1>17. CASE UNCHANGED PS!vars
  BY <1>17 DEF PS!vars
<1> QED
  BY <1>1, <1>2, <1>3, <1>4, <1>5, <1>6, <1>7, <1>8, <1>9, <1>10, <1>11, <1>12,
     <1>13, <1>14, <1>15, <1>16, <1>17
     DEF PS!Next, PS!ReceiveLoop, PS!Cleanup, PS!TeardownExpiredClient, PS!SendToClient

(* Every step keeps SpawnInv.                                              *)
LEMMA SpawnStep ==
    ASSUME PsRelays \in Nat, SessionsTypeOK, SpawnInv, [PS!Next]_(PS!vars)
    PROVE  SpawnInv'
<1>1. CASE PS!Register
  <2>1. PICK g \in 1..PsRelays :
             /\ psLoop.c \in PsClients
             /\ PS!Spawned = 1..(g - 1)
             /\ psRelay' = [psRelay EXCEPT ![g] = [st |-> "run", c |-> psLoop.c, lock |-> "none"]]
    BY <1>1, RegisterSpawns
  <2>2. /\ psRelay'[g].st = "run" /\ psRelay'[g].c = psLoop.c
        /\ \A i \in 1..PsRelays : i # g => psRelay'[i] = psRelay[i]
    BY <2>1 DEF SessionsTypeOK
  <2>3. \A i \in 1..PsRelays : i \in PS!Spawned' <=> i \in PS!Spawned \/ i = g
    BY <2>2 DEF PS!Spawned, PS!Gens
  <2>4. PS!Spawned' = 1..g
    BY <2>1, <2>3 DEF PS!Spawned, PS!Gens
  <2>5. \A i \in 1..PsRelays : psRelay'[i].st # "unborn" => psRelay'[i].c \in PsClients
    BY <2>1, <2>2 DEF SpawnInv
  <2> QED
    BY <2>4, <2>5 DEF SpawnInv
<1>2. CASE ~PS!Register
  <2>1. \A i \in 1..PsRelays :
             psRelay'[i].c = psRelay[i].c /\ (psRelay'[i].st = "unborn" <=> psRelay[i].st = "unborn")
    BY <1>2, OnlyRegisterSpawns
  <2>2. PS!Spawned' = PS!Spawned
    BY <2>1 DEF PS!Spawned, PS!Gens
  <2> QED
    BY <2>1, <2>2 DEF SpawnInv
<1> QED
  BY <1>1, <1>2

(* A relay is never given to another client.                               *)
LEMMA OwnershipKept ==
    ASSUME PsRelays \in Nat, SessionsTypeOK, SpawnInv, [PS!Next]_(PS!vars)
    PROVE  \A c \in PsClients, g \in 1..PsRelays : Owns(c, g) => Owns(c, g)'
<1>1. CASE PS!Register
  <2>1. PICK g \in 1..PsRelays :
             /\ psRelay[g].st = "unborn"
             /\ psRelay' = [psRelay EXCEPT ![g] = [st |-> "run", c |-> psLoop.c, lock |-> "none"]]
    BY <1>1, RegisterSpawns
  <2> QED
    BY <2>1 DEF SessionsTypeOK, Owns
<1>2. CASE ~PS!Register
  BY <1>2, OnlyRegisterSpawns DEF Owns
<1> QED
  BY <1>1, <1>2

(* Every step keeps OwnershipInv: a generation is taken out of the session *)
(* before it is handed to a cleanup.                                       *)
LEMMA OwnershipStep ==
    ASSUME PsRelays \in Nat, SessionsTypeOK, SpawnInv, OwnershipInv, [PS!Next]_(PS!vars)
    PROVE  OwnershipInv'
<1>a. \A g \in 0..PsRelays : g # 0 => g \in 1..PsRelays
  OBVIOUS
<1>b. \A c \in PsClients, g \in 1..PsRelays : Owns(c, g) => Owns(c, g)'
  BY OwnershipKept
<1> USE DEF SessionsTypeOK, OwnershipInv, PS!Present, PS!NoSession, PS!NoRelayGeneration, PS!tables, PS!Gens
<1>1. ASSUME NEW c \in PsClients, PS!ReceivePacket(c) PROVE OwnershipInv'
  BY <1>1, <1>a, <1>b DEF PS!ReceivePacket, PS!LockedProtocol
<1>2. ASSUME NEW c \in PsClients, PS!FallSilent(c) PROVE OwnershipInv'
  BY <1>2, <1>a, <1>b DEF PS!FallSilent
<1>3. CASE PS!Lookup
  BY <1>3, <1>a, <1>b DEF PS!Lookup
<1>4. CASE PS!InsertSession
  <2>1. psLoop = [pc |-> "insert", c |-> psLoop.c] /\ psLoop.c \in PsClients
    BY <1>4 DEF PS!InsertSession
  <2>2. psLoop'.pc \in {"refuse", "register"} /\ UNCHANGED <<psHandle, psClean>>
    BY <1>4, <2>1 DEF PS!InsertSession
  <2>3. psSess' = psSess \/ psSess' = [psSess EXCEPT ![psLoop.c] = [gen |-> 0, idle |-> FALSE]]
    BY <1>4 DEF PS!InsertSession
  <2>4. \A c \in PsClients : psSess'[c].gen \in {psSess[c].gen, 0}
    BY <2>1, <2>3, SMTT(30)
  <2> QED
    BY <1>a, <1>b, <2>2, <2>4
<1>5. CASE PS!Refuse
  BY <1>5, <1>a, <1>b DEF PS!Refuse
<1>6. CASE PS!Register
  <2>1. PICK g \in 1..PsRelays :
             /\ psRelay[g].st = "unborn" /\ psLoop.c \in PsClients
             /\ psSess' = IF PS!Present(psLoop.c) THEN [psSess EXCEPT ![psLoop.c].gen = g] ELSE psSess
             /\ psRelay' = [psRelay EXCEPT ![g] = [st |-> "run", c |-> psLoop.c, lock |-> "none"]]
             /\ psLoop' = [pc |-> "swap", c |-> psLoop.c, gen |-> g]
             /\ UNCHANGED <<psHandle, psClean>>
    BY <1>6, RegisterSpawns
  <2>2. Owns(psLoop.c, g)' /\ \A c \in PsClients : ~Owns(c, g)
    BY <2>1 DEF Owns
  <2>3. \A c \in PsClients : psSess'[c].gen \in {psSess[c].gen} \/ (c = psLoop.c /\ psSess'[c].gen = g)
    BY <2>1
  <2>4. (\A c \in PsClients : psHandle[c] # 0 => Owns(c, psHandle[c]))'
    BY <1>a, <1>b, <2>1
  <2>5. (\A c \in PsClients : psSess[c].gen # 0 => Owns(c, psSess[c].gen))'
    BY <1>a, <1>b, <2>2, <2>3, <2>1
  <2>6. (\A t \in psClean : t.gen # 0 => Owns(t.c, t.gen) /\ psSess[t.c].gen # t.gen)'
    BY <1>a, <1>b, <2>1, <2>2, <2>3
  <2>7. (psLoop.pc = "swap" => Owns(psLoop.c, psLoop.gen) /\ psHandle[psLoop.c] # psLoop.gen)'
    BY <1>a, <2>1, <2>2
  <2> HIDE DEF SessionsTypeOK
  <2> QED
    BY <2>4, <2>5, <2>6, <2>7
<1>7. CASE PS!Swap
  <2>1. /\ psLoop.c \in PsClients /\ psLoop.gen \in 1..PsRelays /\ psLoop'.pc = "recv"
        /\ \A c \in PsClients : psHandle'[c] \in {psHandle[c], 0} \/ (c = psLoop.c /\ psHandle'[c] = psLoop.gen)
        /\ psLoop.pc = "swap" /\ UNCHANGED <<psSess, psClean>>
    BY <1>7 DEF PS!Swap
  <2> QED
    BY <1>a, <1>b, <2>1
<1>8. CASE PS!CleanupExpired
  BY <1>8, <1>a, <1>b DEF PS!CleanupExpired, PS!Expired, PS!Sessions
<1>9. ASSUME NEW t \in psClean, PS!AbortExpiredRelay(t) PROVE OwnershipInv'
  <2>1. psHandle' = psHandle \/ psHandle' = [psHandle EXCEPT ![t.c] = 0]
    BY <1>9 DEF PS!AbortExpiredRelay
  <2>2. \A c \in PsClients : psHandle'[c] \in {psHandle[c], 0}
    BY <2>1
  <2>3. psClean' = (psClean \ {t}) \cup {[t EXCEPT !.pc = "check"]} /\ UNCHANGED <<psSess, psLoop>>
    BY <1>9 DEF PS!AbortExpiredRelay
  <2>4. \A u \in psClean' : \E v \in psClean : u.c = v.c /\ u.gen = v.gen
    BY <2>3
  <2> QED
    BY <1>a, <1>b, <2>2, <2>3, <2>4
<1>10. ASSUME NEW t \in psClean, PS!SpareIfBack(t) PROVE OwnershipInv'
  <2>1. /\ \A u \in psClean' : \E v \in psClean : u.c = v.c /\ u.gen = v.gen
        /\ UNCHANGED <<psSess, psLoop, psHandle>>
    BY <1>10 DEF PS!SpareIfBack
  <2> QED
    BY <1>a, <1>b, <2>1
<1>11. ASSUME NEW t \in psClean, PS!WipeAuxiliary(t) PROVE OwnershipInv'
  BY <1>11, <1>a, <1>b DEF PS!WipeAuxiliary
<1>12. CASE PS!Shutdown
  <2>1. psLoop'.pc = "stopped" /\ psHandle' = [c \in PsClients |-> 0] /\ UNCHANGED <<psSess, psClean>>
    BY <1>12 DEF PS!Shutdown
  <2> QED
    BY <1>a, <1>b, <2>1
<1>13. ASSUME NEW g \in PS!Gens, PS!Relay(g) PROVE OwnershipInv'
  BY <1>13, <1>a, <1>b DEF PS!Relay, PS!Abortable
<1>14. ASSUME NEW g \in PS!Gens, PS!RecvFails(g) PROVE OwnershipInv'
  BY <1>14, <1>a, <1>b DEF PS!RecvFails, PS!Abortable
<1>15. ASSUME NEW g \in PS!Gens, PS!RelayRemovesSession(g) PROVE OwnershipInv'
  BY <1>15, <1>a, <1>b DEF PS!RelayRemovesSession, PS!Remove
<1>16. ASSUME NEW g \in PS!Gens, PS!RelayWipes(g) PROVE OwnershipInv'
  BY <1>16, <1>a, <1>b DEF PS!RelayWipes
<1>17. ASSUME NEW g \in PS!Gens, PS!RelayLeaves(g) PROVE OwnershipInv'
  BY <1>17, <1>a, <1>b DEF PS!RelayLeaves
<1>18. CASE UNCHANGED PS!vars
  BY <1>18, <1>a, <1>b DEF PS!vars
<1> QED
  BY <1>1, <1>2, <1>3, <1>4, <1>5, <1>6, <1>7, <1>8, <1>9, <1>10, <1>11, <1>12, <1>13, <1>14, <1>15, <1>16,
         <1>17, <1>18
     DEF PS!Next, PS!ReceiveLoop, PS!Cleanup, PS!TeardownExpiredClient, PS!SendToClient

(* Every step keeps RelayInv: a cleanup aborts and wipes only what is of   *)
(* the generation it was started for.                                      *)
LEMMA RelayStep ==
    ASSUME PsRelays \in Nat, SessionsTypeOK, SpawnInv, OwnershipInv, RelayInv, [PS!Next]_(PS!vars)
    PROVE  RelayInv'
<1>a. \A g \in 0..PsRelays : g # 0 => g \in 1..PsRelays
  OBVIOUS
<1> USE DEF SessionsTypeOK, RelayInv, Registering, PS!Present, PS!NoSession, PS!NoRelayGeneration,
       PS!tables, PS!Gens
<1>1. ASSUME NEW c \in PsClients, PS!ReceivePacket(c) PROVE RelayInv'
  BY <1>1, <1>a DEF PS!ReceivePacket, PS!LockedProtocol
<1>2. ASSUME NEW c \in PsClients, PS!FallSilent(c) PROVE RelayInv'
  BY <1>2, <1>a DEF PS!FallSilent
<1>3. CASE PS!Lookup
  BY <1>3, <1>a DEF PS!Lookup
<1>4. CASE PS!InsertSession
  <2>1. psLoop = [pc |-> "insert", c |-> psLoop.c] /\ psLoop.c \in PsClients
    BY <1>4 DEF PS!InsertSession
  <2>2. UNCHANGED <<psHandle, psRelay>>
    BY <1>4 DEF PS!InsertSession
  <2>3. CASE psCount >= PsMax
    <3>1. psSess' = psSess /\ psLoop' = [pc |-> "refuse", c |-> psLoop.c]
      BY <1>4, <2>1, <2>3 DEF PS!InsertSession
    <3> QED BY <2>1, <2>2, <3>1
  <2>4. CASE ~(psCount >= PsMax)
    <3>1. /\ psSess' = [psSess EXCEPT ![psLoop.c] = [gen |-> 0, idle |-> FALSE]]
          /\ psLoop' = [pc |-> "register", c |-> psLoop.c]
      BY <1>4, <2>1, <2>4 DEF PS!InsertSession
    <3>2. psSess'[psLoop.c].gen = 0 /\ \A c \in PsClients : c # psLoop.c => psSess'[c] = psSess[c]
      BY <2>1, <3>1
    <3>3. psLoop.pc # "stopped" /\ ~(psLoop.pc \in {"register", "swap"})
      BY <2>1
    <3>4. psLoop'.pc = "register" /\ psLoop'.c = psLoop.c
      BY <3>1
    <3>5. (\A c \in PsClients : psSess[c].gen # 0 => psRelay[psSess[c].gen].st \in {"run", "failed"})'
      BY <2>2, <3>2, <3>3
    <3>6. (\A c \in PsClients : PS!Present(c) /\ ~Registering(c) => psSess[c].gen # 0 /\ psHandle[c] = psSess[c].gen)'
      BY <2>2, <3>2, <3>3, <3>4
    <3> HIDE DEF SessionsTypeOK
    <3> QED BY <3>4, <3>5, <3>6
  <2> QED BY <2>3, <2>4
<1>5. CASE PS!Refuse
  BY <1>5, <1>a DEF PS!Refuse
<1>6. CASE PS!Register
  <2>1. PICK g \in 1..PsRelays :
             /\ psRelay[g].st = "unborn" /\ psLoop.c \in PsClients
             /\ psSess' = IF PS!Present(psLoop.c) THEN [psSess EXCEPT ![psLoop.c].gen = g] ELSE psSess
             /\ psRelay' = [psRelay EXCEPT ![g] = [st |-> "run", c |-> psLoop.c, lock |-> "none"]]
             /\ psLoop' = [pc |-> "swap", c |-> psLoop.c, gen |-> g]
             /\ UNCHANGED <<psHandle, psClean>>
    BY <1>6, RegisterSpawns
  <2>2. psLoop.pc = "register"
    BY <1>6 DEF PS!Register
  <2>3. psRelay'[g].st = "run" /\ \A i \in 1..PsRelays : i # g => psRelay'[i] = psRelay[i]
    BY <2>1 DEF RelayRecords
  <2>4. \A c \in PsClients : c # psLoop.c => psSess'[c] = psSess[c]
    BY <2>1
  <2>5. PS!Present(psLoop.c)' => psSess'[psLoop.c].gen = g
    BY <2>1
  <2>6. psSess'[psLoop.c].gen \in {psSess[psLoop.c].gen, g}
    BY <2>1
  <2>7. (\A c \in PsClients : psSess[c].gen # 0 => psRelay[psSess[c].gen].st \in {"run", "failed"})'
    BY <2>1, <2>2, <2>3, <2>4, <2>6, <1>a
  <2> QED
    BY <2>1, <2>2, <2>4, <2>5, <2>7
<1>7. CASE PS!Swap
  <2> DEFINE c == psLoop.c
             g == psLoop.gen
  <2>1. /\ psLoop.pc = "swap" /\ c \in PsClients /\ g \in 1..PsRelays
        /\ psRelay' = PS!Abort(psRelay, psHandle[c])
        /\ psHandle' = [psHandle EXCEPT ![c] = IF psRelay[g].st = "ended" THEN 0 ELSE g]
        /\ psLoop' = [pc |-> "recv"] /\ psSess' = psSess
    BY <1>7 DEF PS!Swap
  <2> HIDE DEF c, g
  <2>2. PS!Present(c) => psSess[c].gen = g
    BY <2>1 DEF c, g
  <2>3. ~PS!Present(c) => psSess[c].gen = 0
    BY <2>1
  <2>4. psHandle[c] # g
    BY <2>1 DEF OwnershipInv, c, g
  <2>5. \A d \in PsClients : psSess[d].gen # 0 => psSess[d].gen # psHandle[c]
    BY <2>1, <2>2, <2>3, <2>4, <1>a DEF OwnershipInv, Owns
  <2>6. \A d \in PsClients : psSess[d].gen # 0 => psRelay'[psSess[d].gen] = psRelay[psSess[d].gen]
    BY <2>1, <2>5, <1>a, AbortOnly
  <2>7. (\A d \in PsClients : psSess[d].gen # 0 => psRelay[psSess[d].gen].st \in {"run", "failed"})'
    BY <2>1, <2>6
  <2>8. \A d \in PsClients : PS!Present(d) => psSess[d].gen # 0 /\ psHandle'[d] = psSess[d].gen
    <3>1. ASSUME PS!Present(c) PROVE psSess[c].gen # 0 /\ psHandle'[c] = psSess[c].gen
      <4>1. psSess[c].gen = g /\ g # 0
        BY <3>1, <2>1, <2>2
      <4>2. psRelay[psSess[c].gen].st \in {"run", "failed"}
        BY <4>1, <2>1
      <4> QED BY <4>1, <4>2, <2>1
    <3>2. ASSUME NEW d \in PsClients, d # c, PS!Present(d)
          PROVE  psSess[d].gen # 0 /\ psHandle'[d] = psSess[d].gen
      BY <3>2, <2>1 DEF c
    <3> QED BY <3>1, <3>2
  <2> QED
    BY <2>1, <2>7, <2>8
<1>8. CASE PS!CleanupExpired
  BY <1>8, <1>a DEF PS!CleanupExpired, PS!Expired, PS!Sessions
<1>9. ASSUME NEW t \in psClean, PS!AbortExpiredRelay(t) PROVE RelayInv'
  <2>1. CASE t.gen # 0 /\ psHandle[t.c] = t.gen /\ psLoop.pc # "stopped"
    <3>1. /\ psRelay' = PS!Abort(psRelay, t.gen)
          /\ psHandle' = [psHandle EXCEPT ![t.c] = 0]
          /\ t.c \in PsClients /\ t.gen \in 1..PsRelays
      BY <1>9, <2>1 DEF PS!AbortExpiredRelay
    <3>2. psSess' = psSess /\ psLoop' = psLoop
      BY <1>9 DEF PS!AbortExpiredRelay
    <3>3. \A d \in PsClients : psSess[d].gen # 0 => psSess[d].gen # t.gen
      BY <2>1, <3>1, <1>a DEF OwnershipInv, Owns
    <3>4. \A d \in PsClients : psSess[d].gen # 0 => psRelay'[psSess[d].gen] = psRelay[psSess[d].gen]
      BY <3>1, <3>3, <1>a, AbortOnly, ZenonT(40)
    <3>5. PS!Present(t.c) => Registering(t.c)
      BY <2>1, <3>1, <3>3
    <3>6. \A d \in PsClients : PS!Present(d) /\ ~Registering(d) => psHandle'[d] = psHandle[d]
      BY <3>1, <3>5
    <3> QED
      BY <2>1, <3>2, <3>4, <3>6
  <2>2. CASE ~(t.gen # 0 /\ psHandle[t.c] = t.gen)
    <3>1. psRelay' = psRelay /\ psHandle' = psHandle /\ psSess' = psSess /\ psLoop' = psLoop
      BY <1>9, <2>2 DEF PS!AbortExpiredRelay
    <3> QED BY <3>1
  <2>3. CASE psLoop.pc = "stopped"
    BY <1>9, <2>3 DEF PS!AbortExpiredRelay
  <2> QED BY <2>1, <2>2, <2>3
<1>10. ASSUME NEW t \in psClean, PS!SpareIfBack(t) PROVE RelayInv'
  BY <1>10, <1>a DEF PS!SpareIfBack
<1>11. ASSUME NEW t \in psClean, PS!WipeAuxiliary(t) PROVE RelayInv'
  BY <1>11, <1>a DEF PS!WipeAuxiliary
<1>12. CASE PS!Shutdown
  BY <1>12, <1>a DEF PS!Shutdown
<1>13. ASSUME NEW g \in PS!Gens, PS!Relay(g) PROVE RelayInv'
  BY <1>13, <1>a DEF PS!Relay, PS!Abortable
<1>14. ASSUME NEW g \in PS!Gens, PS!RecvFails(g) PROVE RelayInv'
  BY <1>14, <1>a DEF PS!RecvFails, PS!Abortable
<1>15. ASSUME NEW g \in PS!Gens, PS!RelayRemovesSession(g) PROVE RelayInv'
  <2> DEFINE c == psRelay[g].c
  <2>1. /\ psSess' = [psSess EXCEPT ![c] = PS!NoSession]
        /\ psRelay' = [psRelay EXCEPT ![g].st = "wiping"]
        /\ psHandle' = psHandle /\ psLoop' = psLoop
    BY <1>15 DEF PS!RelayRemovesSession, PS!Remove
  <2>2. \A d \in PsClients : d = c => psSess'[d].gen = 0 /\ ~PS!Present(d)'
    BY <2>1
  <2>3. \A d \in PsClients : d # c => psSess'[d] = psSess[d] /\ psSess[d].gen # g
    BY <2>1 DEF OwnershipInv, Owns
  <2>4. \A i \in 1..PsRelays : i # g => psRelay'[i] = psRelay[i]
    BY <2>1
  <2> HIDE DEF c
  <2> QED
    BY <2>1, <2>2, <2>3, <2>4, <1>a
<1>16. ASSUME NEW g \in PS!Gens, PS!RelayWipes(g) PROVE RelayInv'
  <2>1. /\ psRelay[g].st = "wiping" /\ psRelay' = [psRelay EXCEPT ![g].st = "leaving"]
        /\ UNCHANGED <<psSess, psHandle, psLoop>>
    BY <1>16 DEF PS!RelayWipes
  <2>2. \A i \in 1..PsRelays : i # g => psRelay'[i] = psRelay[i]
    BY <2>1
  <2> QED
    BY <2>1, <2>2, <1>a
<1>17. ASSUME NEW g \in PS!Gens, PS!RelayLeaves(g) PROVE RelayInv'
  <2>1. /\ psRelay[g].st = "leaving" /\ psRelay' = [psRelay EXCEPT ![g].st = "ended"]
        /\ UNCHANGED <<psSess, psLoop>>
    BY <1>17 DEF PS!RelayLeaves
  <2>2. \A i \in 1..PsRelays : i # g => psRelay'[i] = psRelay[i]
    BY <2>1
  <2>3. \A d \in PsClients : psHandle'[d] # psHandle[d] => psHandle[d] = g
    BY <1>17 DEF PS!RelayLeaves
  <2> QED
    BY <2>1, <2>2, <2>3, <1>a, ZenonT(40)
<1>18. CASE UNCHANGED PS!vars
  BY <1>18, <1>a DEF PS!vars
<1> QED
  BY <1>1, <1>2, <1>3, <1>4, <1>5, <1>6, <1>7, <1>8, <1>9, <1>10, <1>11, <1>12, <1>13, <1>14, <1>15, <1>16,
         <1>17, <1>18
     DEF PS!Next, PS!ReceiveLoop, PS!Cleanup, PS!TeardownExpiredClient, PS!SendToClient

(* A session in the table has its own live relay whatever an older relay's *)
(* teardown, an idle sweep or a failing relay does in between (the         *)
(* generation checks of the proxy's relay cleanup).                        *)
THEOREM RelaysAreHeld ==
    ASSUME PsRelays \in Nat
    PROVE  PS!Spec => []SessionHasItsRelay
<1>1. PS!Init => SessionsInv
  <2> SUFFICES ASSUME PS!Init PROVE SessionsInv
    OBVIOUS
  <2>1. SessionsTypeOK
    BY DEF PS!Init, SessionsTypeOK, RelayRecords, RelayStates, Locks, PS!Gens, PS!NoSession
  <2>2. SpawnInv
    <3>1. PS!Spawned = 1..0
      BY DEF PS!Init, PS!Spawned, PS!Gens
    <3> QED BY <3>1 DEF PS!Init, SpawnInv, PS!Gens
  <2>3. OwnershipInv /\ RelayInv
    BY DEF PS!Init, OwnershipInv, RelayInv, PS!NoSession, PS!Present
  <2> QED BY <2>1, <2>2, <2>3 DEF SessionsInv
<1>2. SessionsInv /\ [PS!Next]_(PS!vars) => SessionsInv'
  BY SessionsTypeStep, SpawnStep, OwnershipStep, RelayStep DEF SessionsInv
<1>3. SessionsInv => SessionHasItsRelay
  BY DEF SessionsInv, SessionsTypeOK, RelayInv, Registering, SessionHasItsRelay, PS!SessionHasItsRelay,
         PS!Sessions, PS!Handling, PS!NoRelayGeneration
<1> QED
  BY <1>1, <1>2, <1>3, PTL DEF PS!Spec

-----------------------------------------------------------------------------
(* SIP dialogs: any number of calls, requests and deferred tasks.          *)

(* The shape of the dialog and of the receive loop's locals.               *)
DialogTypeOK ==
    /\ sdDialog # SD!NoDialog =>
         sdDialog = [stage |-> sdDialog.stage, call |-> sdDialog.call, cseq |-> sdDialog.cseq,
                     inviteCseq |-> sdDialog.inviteCseq]
    /\ sdDialog.stage \in {"none", "Idle", "Invited", "Ringing", "Established", "Terminated"}
    /\ sdLoop # SD!Recv =>
         /\ sdLoop = [pc |-> sdLoop.pc, m |-> sdLoop.m, stored |-> sdLoop.stored, fresh |-> sdLoop.fresh,
                      call |-> sdLoop.call, before |-> sdLoop.before, todo |-> sdLoop.todo,
                      all |-> sdLoop.all, sent |-> sdLoop.sent]

(* A dialog in progress has an INVITE that waits for its answer, and so    *)
(* has the INVITE whose first responses the loop is sending.               *)
InviteInv ==
    /\ SD!InProgress(sdDialog.stage) => sdInvite = "pending"
    /\ sdLoop.pc = "send" /\ sdLoop.stored /\ sdLoop.m = "INVITE"
         /\ sdLoop.before \in {"Idle", "Terminated"} /\ sdDialog # SD!NoDialog
       => sdInvite = "pending" /\ sdDialog.stage = "Idle"

(* The inductive invariant: no answer has been sent late.                  *)
DialogInv == DialogTypeOK /\ InviteInv /\ ~sdLate

(* Every step of the loop and of the deferred tasks keeps DialogInv.       *)
LEMMA DialogStep ==
    ASSUME DialogInv, [SD!Next]_(SD!vars)
    PROVE  DialogInv'
<1> USE DEF DialogInv, DialogTypeOK, InviteInv, SD!NoDialog, SD!Recv, SD!InProgress
<1>1. ASSUME NEW call \in SdCalls, SD!Invite(call) PROVE DialogInv'
  BY <1>1 DEF SD!Invite, SD!Request, SD!Respond, SD!FromRequest, SD!UpdateRequestHeaders
<1>2. ASSUME NEW call \in SdCalls, NEW m \in SD!Methods \ {"INVITE"}, SD!InDialog(m, call)
      PROVE  DialogInv'
  BY <1>2 DEF SD!InDialog, SD!Request, SD!Respond, SD!FromRequest, SD!UpdateRequestHeaders
<1>3. CASE SD!MalformedInvite
  BY <1>3 DEF SD!MalformedInvite, SD!Request, SD!Respond, SD!FromRequest
<1>4. CASE SD!SendResponse
  BY <1>4 DEF SD!SendResponse
<1>5. CASE SD!AdvanceStage
  BY <1>5 DEF SD!AdvanceStage, SD!StageAfterImmediateResponse, SD!SipNextStage
<1>6. CASE SD!SpawnDeferred
  BY <1>6 DEF SD!SpawnDeferred
<1>7. CASE SD!Forget
  BY <1>7 DEF SD!Forget
<1>8. ASSUME NEW g \in SD!Tasks, SD!DeferredRinging(g) PROVE DialogInv'
  BY <1>8 DEF SD!DeferredRinging
<1>9. ASSUME NEW g \in SD!Tasks, SD!DeferredOk(g) PROVE DialogInv'
  <2>1. PICK sent \in BOOLEAN : IF SD!Answers(g, sent)
          THEN /\ sdDialog' = [sdDialog EXCEPT !.stage = "Established"]
               /\ sdInvite' = "answered"
               /\ sdLate' = (sdLate \/ sdInvite # "pending")
          ELSE UNCHANGED <<sdDialog, sdInvite, sdLate>>
    BY <1>9 DEF SD!DeferredOk
  <2>2. CASE SD!Answers(g, sent)
    <3>1. SD!InProgress(sdDialog.stage) /\ sdDialog # SD!NoDialog
      BY <2>2 DEF SD!Answers
    <3>2. ~sdLate'
      BY <2>1, <2>2, <3>1
    <3> QED BY <1>9, <2>1, <2>2, <3>1, <3>2 DEF SD!DeferredOk
  <2>3. CASE ~SD!Answers(g, sent)
    BY <1>9, <2>1, <2>3 DEF SD!DeferredOk
  <2> QED BY <2>2, <2>3
<1>10. CASE UNCHANGED SD!vars
  BY <1>10 DEF SD!vars
<1> QED
  BY <1>1, <1>2, <1>3, <1>4, <1>5, <1>6, <1>7, <1>8, <1>9, <1>10 DEF SD!Next

(* A deferred 200 OK is sent only for an INVITE that still waits for one:  *)
(* CANCEL, BYE and a new INVITE racing the timer do not make it answer     *)
(* twice (the deferred response tasks of the SIP responder).               *)
THEOREM AnswersAreDue == SD!Spec => []AnswerIsDue
<1>1. SD!Init => DialogInv
  BY DEF SD!Init, DialogInv, DialogTypeOK, InviteInv, SD!NoDialog, SD!Recv, SD!InProgress
<1>2. DialogInv /\ [SD!Next]_(SD!vars) => DialogInv'
  BY DialogStep
<1>3. DialogInv => AnswerIsDue
  BY DEF DialogInv, AnswerIsDue, SD!AnswerIsDue
<1> QED
  BY <1>1, <1>2, <1>3, PTL DEF SD!Spec

-----------------------------------------------------------------------------
(* The probe budget: any number of tasks, any rate, any payload sizes and  *)
(* any ceiling.                                                            *)

(* What has been sent since the last reset and what the state word still   *)
(* allows add up to no more than the ceiling, whatever the other tasks     *)
(* hold of the word.                                                       *)
BudgetInv ==
    /\ pbTask = [t \in PbTasks |-> pbTask[t]]
    /\ pbState \in [bytes : Nat, ts : Nat]
    /\ pbNow \in Nat /\ pbSince \in Nat
    /\ \A t \in PbTasks :
        pbTask[t].pc \in {"budget", "budgetcas"} => pbTask[t].size \in Nat /\ pbTask[t].now \in Nat
    /\ pbSince + pbState.bytes <= PbBytes

(* Every step keeps BudgetInv: a task that loaded an old word fails its    *)
(* compare-and-swap.                                                       *)
LEMMA BudgetStep ==
    ASSUME PbBytes \in Nat, PbSizes \subseteq Nat, BudgetInv, PB!Next
    PROVE  BudgetInv'
<1> USE DEF BudgetInv, PB!words, PB!Goto, PB!Idle
<1>1. CASE PB!Tick
  BY <1>1 DEF PB!Tick
<1>2. ASSUME NEW t \in PbTasks, PB!ReadTokenClock(t) PROVE BudgetInv'
  BY <1>2 DEF PB!ReadTokenClock
<1>3. ASSUME NEW t \in PbTasks, PB!LoadTokens(t) PROVE BudgetInv'
  BY <1>3 DEF PB!LoadTokens
<1>4. ASSUME NEW t \in PbTasks, PB!SwapTokens(t) PROVE BudgetInv'
  BY <1>4 DEF PB!SwapTokens
<1>5. ASSUME NEW t \in PbTasks, PB!Forward(t) PROVE BudgetInv'
  BY <1>5 DEF PB!Forward
<1>6. ASSUME NEW t \in PbTasks, PB!ReplyInline(t) PROVE BudgetInv'
  BY <1>6 DEF PB!ReplyInline
<1>7. ASSUME NEW t \in PbTasks, PB!ReadBudgetClock(t) PROVE BudgetInv'
  BY <1>7 DEF PB!ReadBudgetClock, PB!End
<1>8. ASSUME NEW t \in PbTasks, PB!LoadBudget(t) PROVE BudgetInv'
  BY <1>8 DEF PB!LoadBudget
<1>9. ASSUME NEW t \in PbTasks, PB!SwapBudget(t) PROVE BudgetInv'
  BY <1>9 DEF PB!SwapBudget, PB!End, PB!Available, PB!Exchanged, PB!Unchanged
<1> QED
  BY <1>1, <1>2, <1>3, <1>4, <1>5, <1>6, <1>7, <1>8, <1>9 DEF PB!Next

(* Between two resets the device sends strangers no more than the ceiling, *)
(* however the tasks' loads and swaps of the packed word interleave (the   *)
(* lock-free budget of the probe responder).                               *)
THEOREM BudgetHolds ==
    ASSUME PbBytes \in Nat, PbSizes \subseteq Nat
    PROVE  PB!Spec => []CeilingBetweenResets
<1>1. PB!Init => BudgetInv
  BY DEF PB!Init, BudgetInv, PB!Idle
<1>2. BudgetInv /\ [PB!Next]_(PB!vars) => BudgetInv'
  <2>1. CASE PB!Next
    BY <2>1, BudgetStep
  <2>2. CASE UNCHANGED PB!vars
    BY <2>2 DEF PB!vars, PB!words, BudgetInv
  <2> QED BY <2>1, <2>2
<1>3. BudgetInv => CeilingBetweenResets
  BY DEF BudgetInv, CeilingBetweenResets, PB!CeilingBetweenResets
<1> QED
  BY <1>1, <1>2, <1>3, PTL DEF PB!Spec

-----------------------------------------------------------------------------
(* The QQ-DNS tunnel: any datagrams, send domains, resolvers, retries and  *)
(* queue sizes, any number of offsets, and clocks related as TunnelSetting *)
(* says.                                                                   *)

(* The clocks the refinement needs: a slot lives longer than a query can   *)
(* wait and travel (ASSEMBLE_TIME against packets_wait_time_limit and a    *)
(* query's life), and an application that is slow enough for its offsets   *)
(* (a positive gap) leaves a slot time to expire after the last of its     *)
(* queries. A gap of 0 promises nothing and is allowed.                    *)
TunnelSetting ==
    /\ Half \in Nat /\ Half > 0 /\ Offsets \in Nat /\ Offsets > 0
    /\ Resolvers \in Nat /\ Tries \in Nat /\ QueueSize \in Nat
    /\ WaitLimit \in Nat /\ NetLife \in Nat /\ AssembleTime \in Nat /\ Gaps \subseteq Nat
    /\ AssembleTime > WaitLimit + NetLife
    /\ \A g \in Gaps : g > 0 => g >= WaitLimit + NetLife + AssembleTime

(* A non-empty set of naturals has a least element, by well-founded        *)
(* induction.                                                              *)
LEMMA NatHasLeast ==
    ASSUME NEW T \in SUBSET Nat, T # {}
    PROVE  \E x \in T : \A y \in T : x <= y
<1> DEFINE R == OpToRel(<, Nat)
<1>1. PICK x \in T : \A y \in T : ~(<<y, x>> \in R)
  BY NatLessThanWellFounded, WFMin, Zenon
<1>2. \A y \in T : <<y, x>> \in R <=> y < x
  BY DEF OpToRel
<1> HIDE DEF R
<1>3. \A y \in T : y \in Nat
  OBVIOUS
<1>4. \A y \in T : ~(y < x)
  BY <1>1, <1>2, Zenon
<1>5. \A y \in T : x <= y
  BY <1>3, <1>4
<1> QED BY <1>5

(* What the i-th send domain from dom on carries.                          *)
RoomAt(dom, i) == Room[((dom + i - 1) % Len(Room)) + 1]

(* s adds up what the first m domains from dom on carry.                   *)
Sums(s, dom, m) ==
    /\ s = [i \in 0..m |-> s[i]] /\ s[0] = 0
    /\ \A i \in 1..m : s[i] = s[i - 1] + RoomAt(dom, i)

(* Such sums exist for any number of domains: the least number without one *)
(* is neither zero nor one more than another.                              *)
LEMMA RoomsSum ==
    ASSUME NEW m \in Nat, NEW dom
    PROVE  \E s : Sums(s, dom, m)
<1> DEFINE T == {k \in 0..m : ~\E s : Sums(s, dom, k)}
<1>1. ASSUME T # {} PROVE FALSE
  <2>0. T \in SUBSET Nat
    OBVIOUS
  <2>1. PICK k \in T : \A j \in T : k <= j
    <3> HIDE DEF T
    <3> QED BY <1>1, <2>0, NatHasLeast
  <2>2. k \in 0..m /\ ~\E s : Sums(s, dom, k)
    OBVIOUS
  <2>3. CASE k = 0
    <3>1. Sums([i \in 0..0 |-> 0], dom, 0)
      BY DEF Sums
    <3> QED BY <2>2, <2>3, <3>1
  <2>4. CASE k > 0
    <3>1. k - 1 \in 0..m /\ k - 1 \notin T
      BY <2>1, <2>2, <2>4
    <3>2. PICK s : Sums(s, dom, k - 1)
      BY <3>1
    <3> DEFINE h == [i \in 0..k |-> IF i = k THEN s[k - 1] + RoomAt(dom, k) ELSE s[i]]
    <3>3. Sums(h, dom, k)
      <4>1. s[0] = 0 /\ \A i \in 1..(k - 1) : s[i] = s[i - 1] + RoomAt(dom, i)
        BY <3>2 DEF Sums
      <4>2. k \in Nat /\ 0 \in 0..k /\ 0 # k
        BY <2>2, <2>4
      <4>3. h[0] = 0 /\ h = [i \in 0..k |-> h[i]]
        BY <4>1, <4>2
      <4>4. ASSUME NEW i \in 1..k PROVE h[i] = h[i - 1] + RoomAt(dom, i)
        <5>1. i \in 0..k /\ i - 1 \in 0..k /\ i - 1 # k
          BY <4>2
        <5>2. CASE i = k
          BY <5>1, <5>2
        <5>3. CASE i # k
          BY <4>1, <4>2, <5>1, <5>3
        <5> QED BY <5>2, <5>3
      <4> HIDE DEF h
      <4> QED BY <4>3, <4>4 DEF Sums
    <3> QED BY <2>2, <3>3
  <2> QED BY <2>2, <2>3, <2>4
<1>2. m \in 0..m
  OBVIOUS
<1> QED BY <1>1, <1>2

(* So Carried, a recursive function, obeys its equation: no domain carries *)
(* nothing, one more carries what it has room for.                         *)
LEMMA CarriedSums ==
    ASSUME Half \in Nat, NEW dom
    PROVE  /\ QQ!Carried(dom, 0) = 0
           /\ \A i \in 1..(2 * Half) : QQ!Carried(dom, i) = QQ!Carried(dom, i - 1) + RoomAt(dom, i)
<1> DEFINE m == 2 * Half
           sum == CHOOSE f : f = [i \in 0..m |-> IF i = 0 THEN 0 ELSE f[i - 1] + Room[((dom + i - 1) % Len(Room)) + 1]]
<1>1. \A n : QQ!Carried(dom, n) = sum[n]
  BY DEF QQ!Carried
<1>2. m \in Nat
  OBVIOUS
<1> HIDE DEF m
<1>3. PICK s : Sums(s, dom, m)
  BY <1>2, RoomsSum
<1>4. \A i \in 0..m : i # 0 => i \in 1..m
  BY <1>2
<1>5. s = [i \in 0..m |-> IF i = 0 THEN 0 ELSE s[i - 1] + Room[((dom + i - 1) % Len(Room)) + 1]]
  BY <1>3, <1>4 DEF Sums, RoomAt
<1>6. sum = [i \in 0..m |-> IF i = 0 THEN 0 ELSE sum[i - 1] + Room[((dom + i - 1) % Len(Room)) + 1]]
  BY <1>5
<1> HIDE DEF sum
<1>7. 0 \in 0..m /\ \A i \in 1..m : i \in 0..m /\ i # 0
  BY <1>2
<1>8. sum[0] = 0 /\ \A i \in 1..m : sum[i] = sum[i - 1] + RoomAt(dom, i)
  BY <1>6, <1>7 DEF RoomAt
<1> QED BY <1>1, <1>8 DEF m

(* Pieces is the least number of domains that carry the datagram, when     *)
(* there is one.                                                           *)
LEMMA LeastPieces ==
    ASSUME Half \in Nat, NEW len, NEW dom, QQ!Pieces(len, dom) # 0
    PROVE  LET n == QQ!Pieces(len, dom)
           IN  /\ n \in 1..(2 * Half) /\ QQ!Carried(dom, n) >= len
               /\ \A i \in 1..(2 * Half) : i < n => ~(QQ!Carried(dom, i) >= len)
<1> DEFINE enough == {n \in 1..(2 * Half) : QQ!Carried(dom, n) >= len}
<1>1. QQ!Pieces(len, dom) = IF enough = {} THEN 0 ELSE QQ!Min(enough)
  BY DEF QQ!Pieces
<1>2. enough # {} /\ enough \in SUBSET Nat
  BY <1>1
<1>3. PICK x \in enough : \A y \in enough : x <= y
  BY <1>2, NatHasLeast
<1>4. QQ!Min(enough) \in enough /\ \A y \in enough : QQ!Min(enough) <= y
  <2> HIDE DEF enough
  <2> QED BY <1>3 DEF QQ!Min
<1> QED BY <1>1, <1>2, <1>4

(* The remainder of a number below twice its divisor.                      *)
LEMMA ModSmall ==
    ASSUME NEW x \in Nat, NEW h \in Nat, h > 0
    PROVE  /\ x < h => x % h = x
           /\ h <= x /\ x < 2 * h => x % h = x - h
OBVIOUS

(* The queries f are datagram d cut up for offset o: each says its place,  *)
(* the last says so, and their chunks decode to d.                         *)
CutOf(o, f, d) ==
    /\ Len(f) \in Nat \ {0} /\ f # <<>>
    /\ \A i \in 1..Len(f) : LET c == QQ!GetChunkData(f[i])
                            IN  /\ c.off = o /\ c.part = i - 1 /\ c.last \in BOOLEAN /\ (c.last <=> i = Len(f))
                                /\ c.chunk = f[i].chunk
    /\ QQ!Decode([i \in 1..Len(f) |-> f[i].chunk]) = d

(* get_base32_final_domains cuts a datagram up so that get_chunk_data and  *)
(* b32_decode give it back: the fragment character and the magic one hold  *)
(* the index between them, and the chunks follow each other from the first *)
(* character to the last.                                                  *)
LEMMA DomainsCut ==
    ASSUME TunnelSetting, NEW o \in QQ!OffsetIds, NEW d, NEW dom, QQ!GetBase32FinalDomains(d, o, dom) # <<>>
    PROVE  CutOf(o, QQ!GetBase32FinalDomains(d, o, dom), d)
<1> DEFINE n == QQ!Pieces(Length[d], dom)
           f == QQ!GetBase32FinalDomains(d, o, dom)
<1>0. Half \in Nat /\ Half > 0 /\ Offsets \in Nat /\ Offsets > 0
  BY DEF TunnelSetting
<1>1. f = [i \in 1..n |-> [off |-> QQ!NumberToBase32(o), frag |-> (i - 1) % Half,
                           magic |-> QQ!Magic(i - 1, n), chunk |-> QQ!Chunk(d, dom, i - 1)]]
  BY DEF QQ!GetBase32FinalDomains
<1>2. n # 0
  <2> SUFFICES ASSUME n = 0 PROVE FALSE
    OBVIOUS
  <2>1. 1..n = {}
    OBVIOUS
  <2> QED BY <1>1, <2>1
<1>3. /\ n \in 1..(2 * Half) /\ QQ!Carried(dom, n) >= Length[d]
      /\ \A i \in 1..(2 * Half) : i < n => ~(QQ!Carried(dom, i) >= Length[d])
  BY <1>0, <1>2, LeastPieces
<1> HIDE DEF n
<1>4. Len(f) = n /\ n \in Nat \ {0}
  BY <1>0, <1>1, <1>3
<1>5. ASSUME NEW i \in 1..n
      PROVE  LET c == QQ!GetChunkData(f[i])
             IN  /\ c.off = o /\ c.part = i - 1 /\ c.last \in BOOLEAN /\ (c.last <=> i = n)
                 /\ c.chunk = f[i].chunk
  <2>1. f[i] = [off |-> QQ!NumberToBase32(o), frag |-> (i - 1) % Half,
                magic |-> QQ!Magic(i - 1, n), chunk |-> QQ!Chunk(d, dom, i - 1)]
    BY <1>1
  <2> HIDE DEF f
  <2>2. QQ!NumberToBase32(o) = o
    <3>1. o \in Nat /\ o < Offsets
      BY <1>0 DEF QQ!OffsetIds
    <3> QED BY <1>0, <3>1, ModSmall DEF QQ!NumberToBase32
  <2>3. /\ QQ!Magic(i - 1, n) \in {"8", "9"} <=> i - 1 >= Half
        /\ QQ!Magic(i - 1, n) \in {"1", "9"} <=> i = n
    BY <1>0, <1>4 DEF QQ!Magic
  <2>4. (i - 1) % Half = IF i - 1 >= Half THEN i - 1 - Half ELSE i - 1
    <3>1. i - 1 \in Nat /\ i - 1 < 2 * Half
      BY <1>0, <1>3
    <3> HIDE DEF n
    <3> QED BY <1>0, <3>1, ModSmall
  <2>5. QQ!GetChunkData(f[i]).part = i - 1
    BY <1>0, <2>1, <2>3, <2>4 DEF QQ!GetChunkData
  <2>6. QQ!GetChunkData(f[i]).last \in BOOLEAN /\ (QQ!GetChunkData(f[i]).last <=> i = n)
    <3>1. QQ!GetChunkData(f[i]).last = (i = n)
      BY <2>1, <2>3 DEF QQ!GetChunkData
    <3> QED BY <3>1
  <2>7. QQ!GetChunkData(f[i]).off = o /\ QQ!GetChunkData(f[i]).chunk = f[i].chunk
    BY <2>1, <2>2 DEF QQ!GetChunkData
  <2> QED BY <2>5, <2>6, <2>7
<1> DEFINE p == [i \in 1..n |-> f[i].chunk]
<1>6. \A i \in 1..n : p[i] = QQ!Chunk(d, dom, i - 1)
  BY <1>1
<1>7. QQ!Decode(p) = d
  <2>1. Len(p) = n
    BY <1>4
  <2> HIDE DEF p
  <2>c. \A i \in 1..n :
            /\ p[i].d = d /\ p[i].from = QQ!Carried(dom, i - 1)
            /\ p[i].to = IF QQ!Carried(dom, (i - 1) + 1) >= Length[d] THEN Length[d] ELSE QQ!Carried(dom, (i - 1) + 1)
    <3> SUFFICES ASSUME NEW i \in 1..n
                 PROVE  /\ p[i].d = d /\ p[i].from = QQ!Carried(dom, i - 1)
                        /\ p[i].to = IF QQ!Carried(dom, (i - 1) + 1) >= Length[d] THEN Length[d]
                                     ELSE QQ!Carried(dom, (i - 1) + 1)
      OBVIOUS
    <3>1. p[i] = QQ!Chunk(d, dom, i - 1)
      BY <1>6
    <3> QED BY <3>1 DEF QQ!Chunk
  <2>2. \A i \in 1..n : p[i].d = d /\ p[i].from = QQ!Carried(dom, i - 1)
    BY <2>c
  <2>3. p[n].to = Length[d]
    <3>1. (n - 1) + 1 = n /\ n \in 1..n
      BY <1>4
    <3> QED BY <1>3, <2>c, <3>1
  <2>4. \A i \in 1..(n - 1) : p[i].to = p[i + 1].from
    <3> SUFFICES ASSUME NEW i \in 1..(n - 1) PROVE p[i].to = p[i + 1].from
      OBVIOUS
    <3>1. i \in 1..n /\ i + 1 \in 1..n /\ i \in 1..(2 * Half) /\ i < n /\ (i - 1) + 1 = i /\ (i + 1) - 1 = i
      BY <1>0, <1>3
    <3>2. ~(QQ!Carried(dom, i) >= Length[d])
      BY <1>3, <3>1
    <3>3. p[i].to = QQ!Carried(dom, i)
      BY <2>c, <3>1, <3>2
    <3> QED BY <2>2, <3>1, <3>3
  <2>5. p[1].from = 0
    <3>1. 1 \in 1..n /\ 1 - 1 = 0
      BY <1>4
    <3> QED BY <1>0, <2>2, <3>1, CarriedSums
  <2>6. 1 \in 1..n
    BY <1>4
  <2> QED BY <2>1, <2>2, <2>3, <2>4, <2>5, <2>6 DEF QQ!Decode
<1> HIDE DEF f
<1>8. [i \in 1..Len(f) |-> f[i].chunk] = p
  BY <1>4
<1>9. f # <<>>
  BY DEF f
<1> HIDE DEF p
<1>10. CutOf(o, f, d)
  BY <1>4, <1>5, <1>7, <1>8, <1>9 DEF CutOf
<1> QED BY <1>10 DEF f

(* A slot under assembly holds exactly the fragments of some places of one *)
(* cut f, not of all of them: how many, the furthest, and whether the last *)
(* is among them.                                                          *)
Assembling(slot, f) ==
    /\ \E P : slot \in [st : {"assembling"}, at : Nat, parts : SUBSET P, rec : Nat, big : Nat, last : BOOLEAN]
    /\ \E I : /\ I \subseteq 1..Len(f) /\ I # 1..Len(f)
              /\ slot.parts = {QQ!GetChunkData(f[i]) : i \in I}
              /\ slot.rec = Cardinality(I)
              /\ slot.big \in I /\ \A i \in I : i <= slot.big
              /\ (slot.last <=> Len(f) \in I)

(* A step of the reassembler that completes datagram d.                    *)
Delivers(r, d) == r.slot = [st |-> "done", at |-> qqNow] /\ r.out # <<>> /\ QQ!Decode(r.out) = d

(* The larger of two naturals.                                             *)
LEMMA MaxOfTwo ==
    ASSUME NEW a \in Nat, NEW b \in Nat
    PROVE  QQ!Max({a, b}) = IF a >= b THEN a ELSE b
<1> DEFINE x == IF a >= b THEN a ELSE b
<1>1. x \in {a, b} /\ \A y \in {a, b} : x >= y
  OBVIOUS
<1>2. \A z \in {a, b} : (\A y \in {a, b} : z >= y) => z = x
  OBVIOUS
<1> HIDE DEF x
<1>3. QQ!Max({a, b}) = x
  BY <1>1, <1>2 DEF QQ!Max
<1> QED BY <1>3 DEF x

(* A sequence of one element.                                              *)
LEMMA OneLong ==
    ASSUME NEW x
    PROVE  <<x>> = [k \in 1..1 |-> x]
OBVIOUS

(* The first fragment of a cut starts an assembly of it, or is the whole   *)
(* of it.                                                                  *)
LEMMA BeginStep ==
    ASSUME qqNow \in Nat, NEW o, NEW f, NEW d, CutOf(o, f, d), NEW i \in 1..Len(f),
           NEW c, c = QQ!GetChunkData(f[i])
    PROVE  LET r == QQ!Begin(c)
           IN  \/ r.out = <<>> /\ Assembling(r.slot, f) /\ r.slot.at = qqNow /\ r.slot.parts = {c}
               \/ Delivers(r, d)
<1>0. Len(f) \in Nat \ {0} /\ c.part = i - 1 /\ c.last \in BOOLEAN
      /\ (c.last <=> i = Len(f)) /\ c.chunk = f[i].chunk
      /\ QQ!Decode([k \in 1..Len(f) |-> f[k].chunk]) = d
  BY DEF CutOf
<1>1. CASE c.last /\ c.part = 0
  <2>1. i = 1 /\ Len(f) = 1
    <3>1. i = Len(f) /\ i - 1 = 0
      BY <1>0, <1>1, Zenon
    <3>2. Len(f) \in Nat
      BY <1>0
    <3>3. ASSUME NEW n \in Nat, n - 1 = 0 PROVE n = 1
      BY <3>3
    <3> QED BY <3>1, <3>2, <3>3, Zenon
  <2>2. QQ!Begin(c) = [slot |-> [st |-> "done", at |-> qqNow], out |-> <<c.chunk>>]
    BY <1>1 DEF QQ!Begin
  <2>3. <<c.chunk>> = [k \in 1..Len(f) |-> f[k].chunk]
    <3>1. [k \in 1..Len(f) |-> f[k].chunk] = [k \in 1..1 |-> c.chunk]
      BY <1>0, <2>1
    <3> QED BY <3>1, OneLong
  <2>4. QQ!Decode(<<c.chunk>>) = d /\ <<c.chunk>> # <<>>
    BY <1>0, <2>3
  <2> QED BY <2>2, <2>4 DEF Delivers
<1>2. CASE ~(c.last /\ c.part = 0)
  <2> DEFINE t == [st |-> "assembling", at |-> qqNow, parts |-> {c}, rec |-> 1, big |-> c.part + 1, last |-> c.last]
  <2>1. QQ!Begin(c) = [slot |-> t, out |-> <<>>]
    BY <1>2 DEF QQ!Begin
  <2>2. t \in [st : {"assembling"}, at : Nat, parts : SUBSET {c}, rec : Nat, big : Nat, last : BOOLEAN]
    BY <1>0
  <2>f. t.parts = {c} /\ t.rec = 1 /\ t.big = c.part + 1 /\ t.last = c.last /\ t.at = qqNow
    OBVIOUS
  <2> HIDE DEF t
  <2>s. {i} \subseteq 1..Len(f) /\ Cardinality({i}) = 1
    BY FS_Singleton
  <2>g. {QQ!GetChunkData(f[k]) : k \in {i}} = {c}
    OBVIOUS
  <2>h. t.big = i /\ (t.last <=> Len(f) \in {i})
    BY <1>0, <2>f
  <2>3. /\ {i} \subseteq 1..Len(f) /\ t.parts = {QQ!GetChunkData(f[k]) : k \in {i}}
        /\ t.rec = Cardinality({i}) /\ t.big = i /\ (t.last <=> Len(f) \in {i}) /\ t.at = qqNow
    BY <2>f, <2>s, <2>g, <2>h
  <2>n. {i} # 1..Len(f)
    <3> SUFFICES ASSUME {i} = 1..Len(f) PROVE FALSE
      OBVIOUS
    <3>1. Len(f) \in 1..Len(f) /\ 1 \in 1..Len(f)
      BY <1>0
    <3>2. i = Len(f) /\ i = 1
      BY <3>1
    <3>3. c.part = 0
      BY <1>0, <3>2
    <3> QED BY <1>0, <1>2, <3>2, <3>3
  <2>4. Assembling(t, f)
    <3>1. \E I : /\ I \subseteq 1..Len(f) /\ I # 1..Len(f) /\ t.parts = {QQ!GetChunkData(f[k]) : k \in I}
                 /\ t.rec = Cardinality(I) /\ t.big \in I /\ \A k \in I : k <= t.big
                 /\ (t.last <=> Len(f) \in I)
      <4>1. {i} \subseteq 1..Len(f) /\ {i} # 1..Len(f) /\ t.big \in {i} /\ \A k \in {i} : k <= t.big
        BY <1>0, <2>3, <2>n
      <4> QED BY <2>3, <4>1
    <3> QED BY <2>2, <3>1 DEF Assembling
  <2> QED BY <2>1, <2>3, <2>4, <2>f
<1> QED BY <1>1, <1>2

(* A further fragment of the same cut is a repeat, extends the assembly,   *)
(* or completes it: as many fragments as the furthest place, the last      *)
(* among them, are all of them. It never contradicts the ones before, so   *)
(* no slot is poisoned.                                                    *)
LEMMA ExtendStep ==
    ASSUME NEW o, NEW f, NEW d, CutOf(o, f, d), NEW i \in 1..Len(f),
           NEW c, c = QQ!GetChunkData(f[i]), NEW slot, Assembling(slot, f)
    PROVE  LET r == QQ!Extend(slot, c)
           IN  \/ r.out = <<>> /\ r.slot = slot /\ c \in slot.parts
               \/ r.out = <<>> /\ Assembling(r.slot, f) /\ r.slot.at = slot.at /\ r.slot.parts = slot.parts \cup {c}
               \/ Delivers(r, d)
<1>0. Len(f) \in Nat \ {0} /\ c.part = i - 1 /\ c.last \in BOOLEAN
      /\ (c.last <=> i = Len(f)) /\ c.chunk = f[i].chunk
      /\ QQ!Decode([k \in 1..Len(f) |-> f[k].chunk]) = d
      /\ \A k \in 1..Len(f) : QQ!GetChunkData(f[k]).part = k - 1 /\ QQ!GetChunkData(f[k]).chunk = f[k].chunk
  BY DEF CutOf
<1>1. PICK P : slot \in [st : {"assembling"}, at : Nat, parts : SUBSET P, rec : Nat, big : Nat, last : BOOLEAN]
  BY DEF Assembling
<1>2. PICK I : /\ I \subseteq 1..Len(f) /\ I # 1..Len(f)
               /\ slot.parts = {QQ!GetChunkData(f[k]) : k \in I}
               /\ slot.rec = Cardinality(I)
               /\ slot.big \in I /\ \A k \in I : k <= slot.big
               /\ (slot.last <=> Len(f) \in I)
  BY DEF Assembling
<1> DEFINE more == [slot EXCEPT !.parts = @ \cup {c}, !.rec = @ + 1, !.last = @ \/ c.last,
                               !.big = QQ!Max({@, c.part + 1})]
<1>3. QQ!Extend(slot, c) =
        IF \E p \in slot.parts : p.part = c.part THEN [slot |-> slot, out |-> <<>>]
        ELSE IF QQ!Inconsistent(slot, c) THEN [slot |-> [st |-> "rejected", at |-> qqNow], out |-> <<>>]
        ELSE IF QQ!Complete(more)
        THEN [slot |-> [st |-> "done", at |-> qqNow], out |-> QQ!Joined(more.parts, more.rec)]
        ELSE [slot |-> more, out |-> <<>>]
  BY DEF QQ!Extend
<1>4. CASE \E p \in slot.parts : p.part = c.part
  <2>1. PICK k \in I : QQ!GetChunkData(f[k]).part = c.part
    BY <1>2, <1>4
  <2>2. k \in 1..Len(f) /\ k - 1 = i - 1
    BY <1>0, <1>2, <2>1
  <2>3. k = i
    BY <1>0, <2>2
  <2>4. c \in slot.parts
    BY <1>2, <2>1, <2>3
  <2> QED BY <1>3, <1>4, <2>4
<1>5. CASE ~\E p \in slot.parts : p.part = c.part
  <2>1. i \notin I /\ i \in Nat
    BY <1>2, <1>5
  <2>c. ~QQ!Inconsistent(slot, c)
    <3>1. slot.big \in 1..Len(f) /\ c.part + 1 = i /\ slot.big # i
      <4>1. c.part + 1 = (i - 1) + 1 /\ slot.big \in I
        BY <1>0, <1>2
      <4>2. (i - 1) + 1 = i
        BY <2>1
      <4> QED BY <1>2, <2>1, <4>1, <4>2
    <3>2. c.last => i = Len(f)
      BY <1>0
    <3>3. slot.last => Len(f) \in I /\ Len(f) <= slot.big
      BY <1>2
    <3>4. ~(c.last /\ slot.last)
      BY <2>1, <3>2, <3>3
    <3>5. ~(c.part + 1 > slot.big /\ slot.last)
      BY <1>0, <3>1, <3>3
    <3>6. ~(~(c.part + 1 > slot.big) /\ c.last)
      BY <1>0, <3>1, <3>2
    <3> QED BY <3>4, <3>5, <3>6 DEF QQ!Inconsistent
  <2> DEFINE J == I \cup {i}
             b == IF slot.big >= i THEN slot.big ELSE i
  <2>2. QQ!Max({slot.big, c.part + 1}) = b /\ b \in Nat
    <3>1. slot.big \in Nat /\ c.part + 1 = i
      BY <1>0, <1>1
    <3> QED BY <2>1, <3>1, MaxOfTwo
  <2>3. /\ more \in [st : {"assembling"}, at : Nat, parts : SUBSET (P \cup {c}), rec : Nat, big : Nat, last : BOOLEAN]
        /\ more.parts = slot.parts \cup {c} /\ more.rec = slot.rec + 1 /\ more.last = (slot.last \/ c.last)
        /\ more.big = b /\ more.at = slot.at
    <3> DEFINE R(X) == [st : {"assembling"}, at : Nat, parts : SUBSET X, rec : Nat, big : Nat, last : BOOLEAN]
               one == [slot EXCEPT !.parts = @ \cup {c}]
               two == [one EXCEPT !.rec = @ + 1]
               three == [two EXCEPT !.last = @ \/ c.last]
               four == [three EXCEPT !.big = QQ!Max({@, c.part + 1})]
    <3>0. more = four
      BY <1>1
    <3>1. /\ one \in R(P \cup {c}) /\ one.parts = slot.parts \cup {c} /\ one.rec = slot.rec
          /\ one.last = slot.last /\ one.big = slot.big /\ one.at = slot.at
      BY <1>1
    <3> HIDE DEF one
    <3>2. /\ two \in R(P \cup {c}) /\ two.parts = slot.parts \cup {c} /\ two.rec = slot.rec + 1
          /\ two.last = slot.last /\ two.big = slot.big /\ two.at = slot.at
      BY <3>1
    <3> HIDE DEF two
    <3>3. /\ three \in R(P \cup {c}) /\ three.parts = slot.parts \cup {c} /\ three.rec = slot.rec + 1
          /\ three.last = (slot.last \/ c.last) /\ three.big = slot.big /\ three.at = slot.at
      BY <3>2
    <3> HIDE DEF three
    <3>4. /\ four \in R(P \cup {c}) /\ four.parts = slot.parts \cup {c} /\ four.rec = slot.rec + 1
          /\ four.last = (slot.last \/ c.last) /\ four.big = b /\ four.at = slot.at
      <4> HIDE DEF b
      <4> QED BY <2>2, <3>3
    <3> HIDE DEF more, four
    <3> QED BY <3>0, <3>4
  <2> HIDE DEF more
  <2>4. IsFiniteSet(I) /\ Cardinality(J) = Cardinality(I) + 1
    <3>1. IsFiniteSet(1..Len(f))
      BY <1>0, FS_Interval
    <3>2. IsFiniteSet(I)
      BY <1>2, <3>1, FS_Subset
    <3> QED BY <2>1, <3>2, FS_AddElement
  <2>5. /\ J \subseteq 1..Len(f) /\ more.parts = {QQ!GetChunkData(f[k]) : k \in J}
        /\ more.rec = Cardinality(J) /\ (more.last <=> Len(f) \in J)
    <3>1. {QQ!GetChunkData(f[k]) : k \in J} = {QQ!GetChunkData(f[k]) : k \in I} \cup {c}
      OBVIOUS
    <3>2. J \subseteq 1..Len(f) /\ (Len(f) \in J <=> (Len(f) \in I \/ i = Len(f)))
      BY <1>2
    <3> HIDE DEF J
    <3>3. (more.last <=> Len(f) \in J)
      <4>1. (slot.last <=> Len(f) \in I)
        BY <1>2
      <4>2. (c.last <=> i = Len(f))
        BY <1>0
      <4>3. (slot.last \/ c.last) <=> (Len(f) \in J)
        BY <3>2, <4>1, <4>2, Zenon
      <4>4. more.last = (slot.last \/ c.last)
        BY <2>3
      <4> QED BY <4>3, <4>4, Zenon
    <3> QED BY <1>2, <2>3, <2>4, <3>1, <3>2, <3>3
  <2>6. more.big \in J /\ \A k \in J : k <= more.big
    BY <1>0, <1>1, <1>2, <2>3
  <2> HIDE DEF J, b
  <2>7. CASE QQ!Complete(more)
    <3>1. more.last /\ more.rec = more.big
      BY <2>7 DEF QQ!Complete
    <3>2. J = 1..Len(f) /\ more.rec = Len(f)
      <4>1. more.big = Len(f)
        <5>1. Len(f) \in J /\ more.big \in 1..Len(f)
          BY <2>5, <2>6, <3>1
        <5>2. Len(f) <= more.big
          BY <2>6, <5>1
        <5> QED BY <1>0, <5>1, <5>2
      <4>2. IsFiniteSet(1..Len(f)) /\ Cardinality(1..Len(f)) = Len(f)
        BY <1>0, FS_Interval, SMTT(30)
      <4> QED BY <2>5, <3>1, <4>1, <4>2, FS_Subset
    <3>3. QQ!Joined(more.parts, more.rec) = [k \in 1..Len(f) |-> f[k].chunk]
      <4>1. ASSUME NEW k \in 1..Len(f) PROVE QQ!PartAt(more.parts, k - 1).chunk = f[k].chunk
        <5>1. QQ!GetChunkData(f[k]) \in more.parts /\ QQ!GetChunkData(f[k]).part = k - 1
          BY <1>0, <2>5, <3>2
        <5>2. \A p \in more.parts : p.part = k - 1 => p = QQ!GetChunkData(f[k])
          BY <1>0, <2>5, <3>2
        <5>3. QQ!PartAt(more.parts, k - 1) = QQ!GetChunkData(f[k])
          BY <5>1, <5>2 DEF QQ!PartAt
        <5> QED BY <1>0, <5>3
      <4> QED BY <3>2, <4>1 DEF QQ!Joined
    <3>4. QQ!Joined(more.parts, more.rec) # <<>>
      BY <1>0, <3>3
    <3>5. QQ!Extend(slot, c) = [slot |-> [st |-> "done", at |-> qqNow], out |-> QQ!Joined(more.parts, more.rec)]
      BY <1>3, <1>5, <2>7, <2>c
    <3>6. QQ!Decode(QQ!Joined(more.parts, more.rec)) = d
      BY <1>0, <3>3
    <3> QED BY <3>4, <3>5, <3>6 DEF Delivers
  <2>8. CASE ~QQ!Complete(more)
    <3>1. QQ!Extend(slot, c) = [slot |-> more, out |-> <<>>]
      BY <1>3, <1>5, <2>8, <2>c
    <3>n. J # 1..Len(f)
      <4> SUFFICES ASSUME J = 1..Len(f) PROVE FALSE
        OBVIOUS
      <4>1. Cardinality(1..Len(f)) = Len(f) /\ Len(f) \in 1..Len(f)
        <5>1. Len(f) \in Nat /\ 1 \in Nat /\ Len(f) >= 1
          BY <1>0
        <5> QED BY <5>1, FS_Interval
      <4>2. more.big = Len(f)
        BY <1>0, <2>6, <4>1
      <4>3. more.rec = more.big /\ more.last
        BY <2>5, <4>1, <4>2
      <4> QED BY <2>8, <4>3 DEF QQ!Complete
    <3>2. Assembling(more, f)
      BY <2>3, <2>5, <2>6, <3>n DEF Assembling
    <3> QED BY <2>3, <3>1, <3>2
  <2> QED BY <2>7, <2>8
<1> QED BY <1>4, <1>5

(* The types of the tunnel, and that every datagram handed over was sent.  *)
TunnelTypes ==
    /\ qqNow \in Nat /\ qqGap \in Gaps /\ qqAt.off \in QQ!OffsetIds
    /\ qqUsed \in [QQ!OffsetIds -> Nat] /\ \A o \in QQ!OffsetIds : qqUsed[o] <= qqNow + 1
    /\ qqSlot = [o \in QQ!OffsetIds |-> qqSlot[o]]
    /\ qqJob = [r \in QQ!Lines |-> qqJob[r]] /\ qqQueue = [r \in QQ!Lines |-> qqQueue[r]]
    /\ (\E m \in Nat : qqSent = 1..m) /\ qqSent \subseteq Datagrams
    /\ qqGot \in Seq(qqSent)

(* Every offset in use belongs to one datagram (own) cut in one way (cut), *)
(* and no two to the same.                                                 *)
CutInv(cut, own) ==
    /\ \A o \in QQ!OffsetIds : qqUsed[o] > 0 => own[o] \in qqSent /\ CutOf(o, cut[o], own[o])
    /\ \A o, p \in QQ!OffsetIds : qqUsed[o] > 0 /\ qqUsed[p] > 0 /\ o # p => own[o] # own[p]

(* A queued job that is not too old is the cut of an offset used when it   *)
(* was queued.                                                             *)
JobOK(j, cut) ==
    /\ j.entry \in Nat /\ j.entry <= qqNow
    /\ qqNow - j.entry <= WaitLimit =>
           \E o \in QQ!OffsetIds : qqUsed[o] = j.entry + 1 /\ j.frags = cut[o]

(* The resolvers' queues hold such jobs only.                              *)
QueueInv(cut) ==
    \A r \in QQ!Lines : \E S : qqQueue[r] \in Seq(S) /\ \A j \in S : JobOK(j, cut)

(* A job that is being sent is the cut of an offset used no longer ago     *)
(* than a job may wait.                                                    *)
Sending(job, cut) ==
    /\ \E S : job \in [d : S, frags : S, try : S, k : Nat]
    /\ \E o \in QQ!OffsetIds : /\ qqUsed[o] > 0 /\ qqNow <= qqUsed[o] - 1 + WaitLimit
                               /\ job.frags = cut[o] /\ job.k < Len(cut[o])

(* Every worker is idle or sends such a job.                               *)
JobInv(cut) == \A r \in QQ!Lines : qqJob[r] = QQ!NoJob \/ Sending(qqJob[r], cut)

(* A query in the network is a fragment of the datagram its offset is in   *)
(* use for, sent no later than a job may wait and no longer ago than a     *)
(* query lives.                                                            *)
QueryOK(m, cut) ==
    /\ m.born \in Nat /\ m.born <= qqNow /\ qqNow - m.born <= NetLife
    /\ \E o \in QQ!OffsetIds : /\ qqUsed[o] > 0 /\ m.born <= qqUsed[o] - 1 + WaitLimit
                               /\ \E i \in 1..Len(cut[o]) : m.q = cut[o][i]

(* The network holds such queries only.                                    *)
NetInv(cut) == \A m \in qqNet : QueryOK(m, cut)

(* A slot that has not expired was started after its offset was last used, *)
(* early enough for the next use, and what it assembles is the cut of that *)
(* use.                                                                    *)
SlotOK(o, slot, cut) ==
    \/ slot = QQ!Empty
    \/ /\ slot.st # "empty" /\ slot.at \in Nat /\ slot.at <= qqNow /\ qqUsed[o] > 0
       /\ qqNow - slot.at < AssembleTime =>
              /\ slot.at >= qqUsed[o] - 1 /\ slot.at <= qqUsed[o] - 1 + WaitLimit + NetLife
              /\ slot.st = "assembling" => Assembling(slot, cut[o])

(* Every slot is such a slot.                                              *)
SlotInv(cut) == \A o \in QQ!OffsetIds : SlotOK(o, qqSlot[o], cut)

(* When the datagram of an offset has been handed over, no query of it can *)
(* arrive any more or the slot says done.                                  *)
OnceInv(own) ==
    \A o \in QQ!OffsetIds : (qqUsed[o] > 0 /\ \E k \in 1..Len(qqGot) : qqGot[k] = own[o]) =>
        \/ qqNow > qqUsed[o] - 1 + WaitLimit + NetLife
        \/ qqSlot[o].st = "done" /\ qqSlot[o].at \in Nat /\ qqSlot[o].at >= qqUsed[o] - 1

(* The inductive invariant for given cuts and owners. The age of every     *)
(* job, query and slot against the last use of its offset is what makes it *)
(* inductive: whatever is left of a use is gone or expired when the offset *)
(* is used again.                                                          *)
TunnelInv(cut, own) ==
    /\ TunnelTypes /\ CutInv(cut, own) /\ QueueInv(cut) /\ JobInv(cut) /\ NetInv(cut)
    /\ SlotInv(cut) /\ OnceInv(own)

(* The inductive invariant.                                                *)
TunnelIInv == qqGap \in Nat /\ (QQ!Safe => \E cut, own : TunnelInv(cut, own))

(* It holds initially.                                                     *)
LEMMA TunnelStarts ==
    ASSUME TunnelSetting, QQ!Init
    PROVE  TunnelIInv
<1>1. qqGap \in Nat /\ qqGap \in Gaps /\ Offsets \in Nat /\ Offsets > 0
  BY DEF QQ!Init, TunnelSetting
<1>2. TunnelTypes
  <2>1. qqNow \in Nat /\ qqAt.off \in QQ!OffsetIds
    BY <1>1 DEF QQ!Init, QQ!OffsetIds
  <2>2. qqUsed \in [QQ!OffsetIds -> Nat] /\ \A o \in QQ!OffsetIds : qqUsed[o] <= qqNow + 1
    BY DEF QQ!Init
  <2>3. qqSlot = [o \in QQ!OffsetIds |-> qqSlot[o]]
        /\ qqJob = [r \in QQ!Lines |-> qqJob[r]] /\ qqQueue = [r \in QQ!Lines |-> qqQueue[r]]
    BY DEF QQ!Init
  <2>4. qqSent = 1..0 /\ qqSent \subseteq Datagrams /\ qqGot \in Seq(qqSent)
    BY DEF QQ!Init
  <2> QED BY <1>1, <2>1, <2>2, <2>3, <2>4 DEF TunnelTypes
<1>3. \A cut, own : CutInv(cut, own)
  BY DEF CutInv, QQ!Init
<1>4. \A cut : QueueInv(cut)
  <2> SUFFICES ASSUME NEW cut, NEW r \in QQ!Lines
               PROVE  \E S : qqQueue[r] \in Seq(S) /\ \A j \in S : JobOK(j, cut)
    BY DEF QueueInv
  <2>1. qqQueue[r] \in Seq({})
    BY DEF QQ!Init
  <2> QED BY <2>1
<1>5. \A cut : JobInv(cut) /\ NetInv(cut) /\ SlotInv(cut)
  BY DEF JobInv, NetInv, SlotInv, SlotOK, QQ!Init
<1>6. \A own : OnceInv(own)
  BY DEF OnceInv, QQ!Init
<1>7. \A cut, own : TunnelInv(cut, own)
  BY <1>2, <1>3, <1>4, <1>5, <1>6 DEF TunnelInv
<1> QED BY <1>1, <1>7 DEF TunnelIInv

(* The next datagram is a new one.                                         *)
LEMMA SetIsFinite ==
    ASSUME TunnelTypes
    PROVE  /\ QQ!NextDatagram \notin qqSent
           /\ \E m \in Nat : qqSent \cup {QQ!NextDatagram} = 1..m
<1>1. PICK m \in Nat : qqSent = 1..m
  BY DEF TunnelTypes
<1>2. QQ!Cardinality(qqSent) = Cardinality(qqSent)
  BY DEF QQ!Cardinality, QQ!IsFiniteSet, Cardinality, IsFiniteSet
<1>3. Cardinality(1..m) = m
  BY FS_Interval
<1>4. QQ!NextDatagram = m + 1
  BY <1>1, <1>2, <1>3 DEF QQ!NextDatagram
<1>5. qqSent \cup {m + 1} = 1..(m + 1) /\ m + 1 \notin qqSent
  BY <1>1
<1> QED BY <1>4, <1>5

(* When an offset is used again, a slot of its last use has had time to    *)
(* expire.                                                                 *)
LEMMA FreeOffset ==
    ASSUME TunnelSetting, QQ!Safe, TunnelTypes, QQ!OffsetIsFree, qqUsed[qqAt.off] > 0
    PROVE  qqNow >= qqUsed[qqAt.off] - 1 + WaitLimit + NetLife + AssembleTime
<1>1. qqUsed[qqAt.off] \in Nat /\ qqNow \in Nat
  BY DEF TunnelTypes
<1>2. /\ WaitLimit \in Nat /\ NetLife \in Nat /\ AssembleTime \in Nat /\ qqGap \in Nat
      /\ qqGap >= WaitLimit + NetLife + AssembleTime
  BY DEF TunnelSetting, TunnelTypes, QQ!Safe
<1>3. qqNow + 1 >= qqUsed[qqAt.off] + qqGap
  BY DEF QQ!OffsetIsFree
<1> QED BY <1>1, <1>2, <1>3

(* The smaller of two naturals.                                            *)
LEMMA MinOfTwo ==
    ASSUME NEW a \in Nat, NEW b \in Nat
    PROVE  QQ!Min({a, b}) \in Nat /\ QQ!Min({a, b}) <= a
<1> DEFINE x == IF a <= b THEN a ELSE b
<1>1. x \in {a, b} /\ \A y \in {a, b} : x <= y
  OBVIOUS
<1>2. \A z \in {a, b} : (\A y \in {a, b} : z <= y) => z = x
  OBVIOUS
<1>3. x \in Nat /\ x <= a
  OBVIOUS
<1> HIDE DEF x
<1>4. QQ!Min({a, b}) = x
  BY <1>1, <1>2 DEF QQ!Min
<1> QED BY <1>3, <1>4

(* A prefix of a sequence.                                                 *)
LEMMA PrefixOfASeq ==
    ASSUME NEW T, NEW q \in Seq(T), NEW n \in Nat, n <= Len(q)
    PROVE  SubSeq(q, 1, n) \in Seq(T)
OBVIOUS

(* A set of tries has a size.                                              *)
LEMMA CountInRange ==
    ASSUME NEW n \in Nat, NEW M, M \subseteq 0..(n - 1)
    PROVE  QQ!Cardinality(M) \in Nat
<1>1. IsFiniteSet(0..(n - 1))
  BY FS_Interval
<1>2. Cardinality(M) \in Nat
  BY <1>1, FS_Subset, FS_CardinalityType
<1> QED BY <1>2 DEF QQ!Cardinality, QQ!IsFiniteSet, Cardinality, IsFiniteSet

(* try_send leaves a queue with jobs it had and jobs of the new datagram.  *)
LEMMA EnqueueAdds ==
    ASSUME TunnelSetting, NEW queue, NEW r \in QQ!Lines, NEW S, queue[r] \in Seq(S), NEW d, NEW frags
    PROVE  \E T : /\ QQ!Enqueue(queue, d, frags)[r] \in Seq(T)
                  /\ \A j \in T : j \in S \/ (j.entry = qqNow /\ j.frags = frags)
<1> DEFINE mine == {t \in 0..(Tries - 1) : (qqAt.res + t) % Resolvers = r}
           job(t) == [d |-> d, frags |-> frags, entry |-> qqNow, try |-> t]
           c == QQ!Cardinality(mine)
           copies == [k \in 1..c |-> job(CHOOSE t \in mine : QQ!Cardinality({u \in mine : u < t}) = k - 1)]
           all == queue[r] \o copies
           n == QQ!Min({Len(all), QQ!Max({QueueSize, Len(queue[r])})})
           T == S \cup {copies[k] : k \in 1..c}
<1>1. QQ!Enqueue(queue, d, frags)[r] = SubSeq(all, 1, n)
  BY DEF QQ!Enqueue
<1>2. c \in Nat
  <2>1. Tries \in Nat /\ mine \subseteq 0..(Tries - 1)
    BY DEF TunnelSetting
  <2> HIDE DEF mine
  <2> QED BY <2>1, CountInRange
<1>3. \A k \in 1..c : copies[k].entry = qqNow /\ copies[k].frags = frags
  <2> HIDE DEF mine, c
  <2> QED OBVIOUS
<1>4. copies \in [1..c -> {copies[k] : k \in 1..c}]
  <2> HIDE DEF mine, c, job
  <2> QED OBVIOUS
<1> HIDE DEF mine, c, job, copies
<1>5. copies \in Seq(T) /\ queue[r] \in Seq(T)
  <2>1. {copies[k] : k \in 1..c} \subseteq T
    OBVIOUS
  <2>2. copies \in [1..c -> T]
    BY <1>4, <2>1
  <2>3. S \subseteq T
    OBVIOUS
  <2> HIDE DEF T
  <2> QED BY <1>2, <2>2, <2>3
<1>6. \A j \in T : j \in S \/ (j.entry = qqNow /\ j.frags = frags)
  BY <1>3
<1> HIDE DEF T
<1>7. all \in Seq(T) /\ Len(all) \in Nat /\ Len(queue[r]) \in Nat
  BY <1>5
<1>8. n \in Nat /\ n <= Len(all)
  <2>1. QueueSize \in Nat
    BY DEF TunnelSetting
  <2>2. QQ!Max({QueueSize, Len(queue[r])}) \in Nat
    BY <1>7, <2>1, MaxOfTwo
  <2> HIDE DEF all
  <2> QED BY <1>7, <2>2, MinOfTwo
<1> HIDE DEF all, n
<1> QED BY <1>1, <1>6, <1>7, <1>8, PrefixOfASeq

(* An empty slot, or one whose last use has expired.                       *)
Idle(slot) == slot = QQ!Empty \/ (slot.st # "empty" /\ slot.at \in Nat /\ qqNow - slot.at >= AssembleTime)

(* What sending does to cuts and owners: nothing, or one offset whose slot *)
(* is idle belongs to the new datagram.                                    *)
Reuses(cut, own, c2, o2) ==
    \/ qqUsed' = qqUsed /\ c2 = cut /\ o2 = own
    \/ \E a \in QQ!OffsetIds :
           /\ Idle(qqSlot[a]) /\ qqUsed'[a] = qqNow + 1
           /\ c2[a] = QQ!GetBase32FinalDomains(QQ!NextDatagram, a, qqAt.dom) /\ c2[a] # <<>>
           /\ o2[a] = QQ!NextDatagram
           /\ \A o \in QQ!OffsetIds : o # a => qqUsed'[o] = qqUsed[o] /\ c2[o] = cut[o] /\ o2[o] = own[o]

(* Sending a datagram gives its offset a new owner and a new cut; nothing  *)
(* of the last use is left to disturb them.                                *)
LEMMA SendStep ==
    ASSUME TunnelSetting, QQ!Safe, NEW cut, NEW own, TunnelInv(cut, own), QQ!HRecv
    PROVE  \E c2, o2 : TunnelInv(c2, o2)' /\ Reuses(cut, own, c2, o2)
<1> DEFINE d == QQ!NextDatagram
           at == qqAt.off
           frags == QQ!GetBase32FinalDomains(d, at, qqAt.dom)
<1>0. TunnelTypes /\ CutInv(cut, own) /\ QueueInv(cut) /\ JobInv(cut) /\ NetInv(cut) /\ SlotInv(cut)
      /\ OnceInv(own)
  BY DEF TunnelInv
<1>1. /\ d \in Datagrams /\ QQ!OffsetIsFree /\ qqSent' = qqSent \cup {d}
      /\ UNCHANGED <<qqNow, qqGap, qqJob, qqNet, qqSlot, qqGot>>
      /\ IF frags = <<>> THEN UNCHANGED <<qqAt, qqUsed, qqQueue>>
         ELSE /\ qqAt'.off = (at + 1) % Offsets /\ qqUsed' = [qqUsed EXCEPT ![at] = qqNow + 1]
              /\ qqQueue' = QQ!Enqueue(qqQueue, d, frags)
  BY DEF QQ!HRecv, QQ!timeVars, QQ!recvVars
<1>2. /\ qqNow \in Nat /\ qqGap \in Gaps /\ at \in QQ!OffsetIds
      /\ qqUsed \in [QQ!OffsetIds -> Nat] /\ \A o \in QQ!OffsetIds : qqUsed[o] <= qqNow + 1
      /\ qqSlot = [o \in QQ!OffsetIds |-> qqSlot[o]]
      /\ qqJob = [r \in QQ!Lines |-> qqJob[r]] /\ qqQueue = [r \in QQ!Lines |-> qqQueue[r]]
      /\ qqSent \subseteq Datagrams /\ qqGot \in Seq(qqSent)
  BY <1>0 DEF TunnelTypes
<1>3. d \notin qqSent
      /\ (\E m \in Nat : qqSent' = 1..m) /\ qqSent' \subseteq Datagrams /\ qqGot' \in Seq(qqSent')
  <2>1. d \notin qqSent /\ (\E m \in Nat : qqSent' = 1..m)
    BY <1>0, <1>1, SetIsFinite
  <2>2. qqSent' \subseteq Datagrams /\ qqSent \subseteq qqSent'
    BY <1>1, <1>2
  <2>3. qqGot \in Seq(qqSent')
    BY <1>2, <2>2
  <2> QED BY <1>1, <2>1, <2>2, <2>3
<1>4. CASE frags = <<>>
  <2>1. UNCHANGED <<qqNow, qqGap, qqAt, qqUsed, qqQueue, qqJob, qqNet, qqSlot, qqGot>>
        /\ qqSent \subseteq qqSent'
    BY <1>1, <1>4
  <2>2. TunnelTypes'
    BY <1>2, <1>3, <2>1 DEF TunnelTypes
  <2>3. CutInv(cut, own)'
    BY <1>0, <2>1 DEF CutInv
  <2>4. QueueInv(cut)' /\ JobInv(cut)'
    BY <1>0, <2>1 DEF QueueInv, JobOK, JobInv, Sending
  <2>5. NetInv(cut)' /\ SlotInv(cut)' /\ OnceInv(own)'
    BY <1>0, <2>1 DEF NetInv, QueryOK, SlotInv, SlotOK, OnceInv
  <2>6. TunnelInv(cut, own)'
    BY <2>2, <2>3, <2>4, <2>5 DEF TunnelInv
  <2>7. Reuses(cut, own, cut, own)
    BY <2>1 DEF Reuses
  <2> QED BY <2>6, <2>7
<1>5. CASE frags # <<>>
  <2> DEFINE c2 == [o \in QQ!OffsetIds |-> IF o = at THEN frags ELSE cut[o]]
             o2 == [o \in QQ!OffsetIds |-> IF o = at THEN d ELSE own[o]]
  <2>0. PICK f, e, a : f = c2 /\ e = o2 /\ a = at
    OBVIOUS
  <2>1. /\ qqUsed' \in [QQ!OffsetIds -> Nat] /\ qqUsed'[a] = qqNow + 1
        /\ \A o \in QQ!OffsetIds : o # a => qqUsed'[o] = qqUsed[o] /\ f[o] = cut[o] /\ e[o] = own[o]
        /\ f[a] = frags /\ e[a] = d /\ a \in QQ!OffsetIds
    <3> HIDE DEF d, frags, at
    <3> QED BY <1>1, <1>2, <1>5, <2>0
  <2>2. CutOf(a, frags, d)
    BY <1>2, <1>5, <2>0, DomainsCut
  <2>3. qqUsed[a] > 0 => qqNow >= qqUsed[a] - 1 + WaitLimit + NetLife + AssembleTime
    BY <1>0, <1>1, <2>0, FreeOffset
  <2>4. qqUsed[a] \in Nat /\ WaitLimit \in Nat /\ NetLife \in Nat /\ AssembleTime \in Nat /\ AssembleTime > 0
    BY <1>2, <2>0 DEF TunnelSetting
  <2>q. qqQueue' = QQ!Enqueue(qqQueue, d, frags)
    BY <1>1, <1>5
  <2>f. frags = QQ!GetBase32FinalDomains(QQ!NextDatagram, a, qqAt.dom) /\ d = QQ!NextDatagram
    BY <2>0
  <2> HIDE DEF d, frags, c2, o2
  <2>5. TunnelTypes'
    <3>1. qqAt'.off \in QQ!OffsetIds
      <4>1. Offsets \in Nat /\ Offsets > 0 /\ at + 1 \in Nat
        BY <1>2, SMTT(30) DEF TunnelSetting, QQ!OffsetIds
      <4>2. (at + 1) % Offsets \in 0..(Offsets - 1)
        <5> HIDE DEF at
        <5> QED BY <4>1
      <4> QED BY <1>1, <1>5, <4>2 DEF QQ!OffsetIds
    <3>2. \A o \in QQ!OffsetIds : qqUsed'[o] <= qqNow' + 1
      BY <1>1, <1>2, <2>1
    <3>3. qqQueue' = [r \in QQ!Lines |-> qqQueue'[r]]
      BY <2>q DEF QQ!Enqueue
    <3>4. qqNow' \in Nat /\ qqGap' \in Gaps /\ qqSlot' = [o \in QQ!OffsetIds |-> qqSlot'[o]]
          /\ qqJob' = [r \in QQ!Lines |-> qqJob'[r]]
      BY <1>1, <1>2
    <3> QED BY <1>3, <2>1, <3>1, <3>2, <3>3, <3>4 DEF TunnelTypes
  <2>6. CutInv(f, e)'
    <3>1. \A o \in QQ!OffsetIds : o # a /\ qqUsed'[o] > 0 =>
              own[o] \in qqSent /\ own[o] # d /\ CutOf(o, cut[o], own[o])
      BY <1>0, <1>3, <2>1 DEF CutInv
    <3>2. ASSUME NEW o \in QQ!OffsetIds, qqUsed'[o] > 0
          PROVE  e[o] \in qqSent' /\ CutOf(o, f[o], e[o])
      <4>1. CASE o = a
        BY <1>1, <2>1, <2>2, <4>1
      <4>2. CASE o # a
        BY <1>1, <2>1, <3>1, <3>2, <4>2
      <4> QED BY <4>1, <4>2
    <3>3. \A o, p \in QQ!OffsetIds : qqUsed'[o] > 0 /\ qqUsed'[p] > 0 /\ o # p => e[o] # e[p]
      BY <1>0, <2>1, <3>1 DEF CutInv
    <3> QED BY <3>2, <3>3 DEF CutInv
  <2>7. QueueInv(f)'
    <3> SUFFICES ASSUME NEW r \in QQ!Lines
                 PROVE  \E T : qqQueue'[r] \in Seq(T) /\ \A j \in T : JobOK(j, f)'
      BY DEF QueueInv
    <3>1. PICK S : qqQueue[r] \in Seq(S) /\ \A j \in S : JobOK(j, cut)
      BY <1>0 DEF QueueInv
    <3>2. PICK T : /\ qqQueue'[r] \in Seq(T)
                   /\ \A j \in T : j \in S \/ (j.entry = qqNow /\ j.frags = frags)
      BY <2>q, <3>1, EnqueueAdds
    <3>3. ASSUME NEW j \in T PROVE JobOK(j, f)'
      <4>1. CASE j \in S
        <5>1. JobOK(j, cut)
          BY <3>1, <4>1
        <5>2. j.entry \in Nat /\ j.entry <= qqNow
          BY <5>1 DEF JobOK
        <5>3. ASSUME qqNow - j.entry <= WaitLimit
              PROVE  \E o \in QQ!OffsetIds : qqUsed'[o] = j.entry + 1 /\ j.frags = f[o]
          <6>1. PICK o \in QQ!OffsetIds : qqUsed[o] = j.entry + 1 /\ j.frags = cut[o]
            BY <5>1, <5>3 DEF JobOK
          <6>2. o # a
            BY <1>2, <2>3, <2>4, <5>2, <5>3, <6>1, SMTT(30)
          <6> QED BY <2>1, <6>1, <6>2
        <5> QED BY <1>1, <5>2, <5>3 DEF JobOK
      <4>2. CASE j.entry = qqNow /\ j.frags = frags
        BY <1>1, <1>2, <2>1, <4>2 DEF JobOK
      <4> QED BY <3>2, <4>1, <4>2
    <3> QED BY <3>2, <3>3
  <2>8. JobInv(f)'
    <3> SUFFICES ASSUME NEW r \in QQ!Lines, qqJob'[r] # QQ!NoJob PROVE Sending(qqJob[r], f)'
      BY <1>1 DEF JobInv
    <3>1. Sending(qqJob[r], cut)
      BY <1>0, <1>1 DEF JobInv
    <3>2. PICK o \in QQ!OffsetIds : /\ qqUsed[o] > 0 /\ qqNow <= qqUsed[o] - 1 + WaitLimit
                                    /\ qqJob[r].frags = cut[o] /\ qqJob[r].k < Len(cut[o])
      BY <3>1 DEF Sending
    <3>3. o # a
      BY <1>2, <2>3, <2>4, <3>2
    <3>4. \E S : qqJob[r] \in [d : S, frags : S, try : S, k : Nat]
      BY <3>1 DEF Sending
    <3>5. qqUsed'[o] = qqUsed[o] /\ f[o] = cut[o]
      BY <2>1, <3>3
    <3> QED BY <1>1, <3>2, <3>4, <3>5 DEF Sending
  <2>9. NetInv(f)'
    <3> SUFFICES ASSUME NEW m \in qqNet PROVE QueryOK(m, f)'
      BY <1>1 DEF NetInv
    <3>1. QueryOK(m, cut)
      BY <1>0 DEF NetInv
    <3>2. m.born \in Nat /\ m.born <= qqNow /\ qqNow - m.born <= NetLife
      BY <3>1 DEF QueryOK
    <3>3. PICK o \in QQ!OffsetIds : /\ qqUsed[o] > 0 /\ m.born <= qqUsed[o] - 1 + WaitLimit
                                    /\ \E i \in 1..Len(cut[o]) : m.q = cut[o][i]
      BY <3>1 DEF QueryOK
    <3>4. o # a
      BY <1>2, <2>3, <2>4, <3>2, <3>3, SMTT(30)
    <3>5. qqUsed'[o] = qqUsed[o] /\ f[o] = cut[o]
      BY <2>1, <3>4
    <3> QED BY <1>1, <3>2, <3>3, <3>5 DEF QueryOK
  <2>10. SlotInv(f)'
    <3> SUFFICES ASSUME NEW o \in QQ!OffsetIds PROVE SlotOK(o, qqSlot[o], f)'
      BY DEF SlotInv
    <3>1. SlotOK(o, qqSlot[o], cut)
      BY <1>0 DEF SlotInv
    <3>2. CASE o # a
      <4>1. qqUsed'[o] = qqUsed[o] /\ f[o] = cut[o]
        BY <2>1, <3>2
      <4> QED BY <1>1, <3>1, <4>1 DEF SlotOK
    <3>3. CASE o = a /\ qqSlot[o] # QQ!Empty
      <4>1. qqSlot[o].st # "empty" /\ qqSlot[o].at \in Nat /\ qqSlot[o].at <= qqNow /\ qqUsed[o] > 0
        BY <3>1, <3>3 DEF SlotOK
      <4>2. ~(qqNow - qqSlot[o].at < AssembleTime)
        <5> SUFFICES ASSUME qqNow - qqSlot[o].at < AssembleTime PROVE FALSE
          OBVIOUS
        <5>1. qqSlot[o].at <= qqUsed[o] - 1 + WaitLimit + NetLife
          BY <3>1, <3>3 DEF SlotOK
        <5> QED BY <1>2, <2>3, <2>4, <3>3, <4>1, <5>1
      <4>3. qqUsed'[o] > 0
        BY <1>2, <2>1, <3>3
      <4> QED BY <1>1, <4>1, <4>2, <4>3 DEF SlotOK
    <3>4. CASE qqSlot[o] = QQ!Empty
      BY <1>1, <3>4 DEF SlotOK, QQ!Empty
    <3> QED BY <3>2, <3>3, <3>4
  <2>11. OnceInv(e)'
    <3> SUFFICES ASSUME NEW o \in QQ!OffsetIds, qqUsed'[o] > 0, NEW k \in 1..Len(qqGot'), qqGot'[k] = e[o]
                 PROVE  \/ qqNow' > qqUsed'[o] - 1 + WaitLimit + NetLife
                        \/ qqSlot'[o].st = "done" /\ qqSlot'[o].at \in Nat /\ qqSlot'[o].at >= qqUsed'[o] - 1
      BY DEF OnceInv
    <3>1. qqGot[k] \in qqSent /\ k \in 1..Len(qqGot)
      BY <1>1, <1>2
    <3>2. o # a
      BY <1>1, <1>3, <2>1, <3>1
    <3>3. qqUsed'[o] = qqUsed[o] /\ e[o] = own[o]
      BY <2>1, <3>2
    <3> QED BY <1>0, <1>1, <3>1, <3>3 DEF OnceInv
  <2>12. TunnelInv(f, e)'
    BY <2>5, <2>6, <2>7, <2>8, <2>9, <2>10, <2>11 DEF TunnelInv
  <2>13. Idle(qqSlot[a])
    <3> SUFFICES ASSUME qqSlot[a] # QQ!Empty
                 PROVE  qqSlot[a].st # "empty" /\ qqSlot[a].at \in Nat /\ qqNow - qqSlot[a].at >= AssembleTime
      BY DEF Idle
    <3>1. SlotOK(a, qqSlot[a], cut)
      BY <1>0, <2>1 DEF SlotInv
    <3>2. qqSlot[a].st # "empty" /\ qqSlot[a].at \in Nat /\ qqSlot[a].at <= qqNow /\ qqUsed[a] > 0
      BY <3>1 DEF SlotOK
    <3>3. qqNow - qqSlot[a].at < AssembleTime => qqSlot[a].at <= qqUsed[a] - 1 + WaitLimit + NetLife
      BY <3>1 DEF SlotOK
    <3> QED BY <1>2, <2>3, <2>4, <3>2, <3>3, SMTT(30)
  <2>14. Reuses(cut, own, f, e)
    BY <1>5, <2>1, <2>13, <2>f DEF Reuses
  <2> QED BY <2>12, <2>14
<1> QED BY <1>4, <1>5

(* A worker drops what is too old and sends fragments of the datagram the  *)
(* offset is in use for.                                                   *)
LEMMA WorkerStep ==
    ASSUME TunnelSetting, QQ!Safe, NEW cut, NEW own, TunnelInv(cut, own), NEW r \in QQ!Lines, QQ!WanSendWorker(r)
    PROVE  TunnelInv(cut, own)'
<1>0. TunnelTypes /\ CutInv(cut, own) /\ QueueInv(cut) /\ JobInv(cut) /\ NetInv(cut) /\ SlotInv(cut)
      /\ OnceInv(own)
  BY DEF TunnelInv
<1>1. UNCHANGED <<qqNow, qqGap, qqAt, qqUsed, qqSent, qqSlot, qqGot>>
  BY DEF QQ!WanSendWorker, QQ!TakeJob, QQ!SendFragment, QQ!SendError, QQ!timeVars, QQ!sendVars, QQ!recvVars
<1>2. CutInv(cut, own)' /\ SlotInv(cut)' /\ OnceInv(own)'
  BY <1>0, <1>1 DEF CutInv, SlotInv, SlotOK, OnceInv
<1>3. /\ qqNow \in Nat /\ WaitLimit \in Nat /\ NetLife \in Nat
      /\ qqUsed \in [QQ!OffsetIds -> Nat]
      /\ qqJob = [l \in QQ!Lines |-> qqJob[l]] /\ qqQueue = [l \in QQ!Lines |-> qqQueue[l]]
  BY <1>0 DEF TunnelTypes, TunnelSetting
<1>4. ASSUME qqJob' = [l \in QQ!Lines |-> qqJob'[l]], qqQueue' = [l \in QQ!Lines |-> qqQueue'[l]]
      PROVE  TunnelTypes'
  BY <1>0, <1>1, <1>4 DEF TunnelTypes
<1>5. CASE QQ!TakeJob(r)
  <2> DEFINE job == Head(qqQueue[r])
  <2>1. /\ qqQueue[r] # <<>> /\ qqNet' = qqNet
        /\ qqQueue' = [qqQueue EXCEPT ![r] = Tail(@)]
        /\ qqJob' = [qqJob EXCEPT ![r] = IF qqNow - job.entry > WaitLimit THEN QQ!NoJob
                                         ELSE [d |-> job.d, frags |-> job.frags, try |-> job.try, k |-> 0]]
    BY <1>5 DEF QQ!TakeJob
  <2>2. PICK S : qqQueue[r] \in Seq(S) /\ \A j \in S : JobOK(j, cut)
    BY <1>0 DEF QueueInv
  <2>3. job \in S /\ Tail(qqQueue[r]) \in Seq(S)
    BY <2>1, <2>2
  <2>4. JobOK(job, cut)
    BY <2>2, <2>3
  <2>5. TunnelTypes'
    BY <1>3, <1>4, <2>1
  <2>6. \A j : JobOK(j, cut) => JobOK(j, cut)'
    BY <1>1 DEF JobOK
  <2>7. QueueInv(cut)'
    <3> SUFFICES ASSUME NEW l \in QQ!Lines
                 PROVE  \E T : qqQueue'[l] \in Seq(T) /\ \A j \in T : JobOK(j, cut)'
      BY DEF QueueInv
    <3>1. CASE l = r
      <4>1. qqQueue'[l] = Tail(qqQueue[r])
        BY <1>3, <2>1, <3>1
      <4> QED BY <2>2, <2>3, <2>6, <4>1
    <3>2. CASE l # r
      <4>1. qqQueue'[l] = qqQueue[l]
        BY <1>3, <2>1, <3>2
      <4>2. PICK T : qqQueue[l] \in Seq(T) /\ \A j \in T : JobOK(j, cut)
        BY <1>0 DEF QueueInv
      <4> QED BY <2>6, <4>1, <4>2
    <3> QED BY <3>1, <3>2
  <2>8. JobInv(cut)'
    <3> SUFFICES ASSUME NEW l \in QQ!Lines PROVE qqJob'[l] = QQ!NoJob \/ Sending(qqJob[l], cut)'
      BY DEF JobInv
    <3>1. CASE l # r
      <4>1. qqJob'[l] = qqJob[l]
        BY <1>3, <2>1, <3>1
      <4> QED BY <1>0, <1>1, <4>1 DEF JobInv, Sending
    <3>2. CASE l = r /\ qqNow - job.entry > WaitLimit
      <4> HIDE DEF job
      <4> QED BY <1>3, <2>1, <3>2
    <3>3. CASE l = r /\ ~(qqNow - job.entry > WaitLimit)
      <4> DEFINE new == [d |-> job.d, frags |-> job.frags, try |-> job.try, k |-> 0]
      <4>1. qqJob'[l] = new
        <5> HIDE DEF job
        <5> QED BY <1>3, <2>1, <3>3
      <4>2. job.entry \in Nat /\ job.entry <= qqNow
        BY <2>4 DEF JobOK
      <4>3. qqNow - job.entry <= WaitLimit
        <5> HIDE DEF job
        <5> QED BY <1>3, <3>3, <4>2
      <4>4. PICK o \in QQ!OffsetIds : qqUsed[o] = job.entry + 1 /\ job.frags = cut[o]
        BY <2>4, <4>3 DEF JobOK
      <4>5. new \in [d : {job.d, job.frags, job.try}, frags : {job.d, job.frags, job.try},
                     try : {job.d, job.frags, job.try}, k : Nat]
            /\ new.frags = job.frags /\ new.k = 0
        <5> HIDE DEF job
        <5> QED OBVIOUS
      <4> HIDE DEF job, new
      <4>6. qqUsed[o] > 0 /\ qqNow <= qqUsed[o] - 1 + WaitLimit
        BY <1>3, <4>2, <4>3, <4>4
      <4>7. 0 < Len(cut[o])
        <5>1. CutOf(o, cut[o], own[o])
          BY <1>0, <4>6 DEF CutInv
        <5> QED BY <5>1 DEF CutOf
      <4>8. Sending(new, cut)
        BY <4>4, <4>5, <4>6, <4>7 DEF Sending
      <4> QED BY <1>1, <4>1, <4>8 DEF Sending
    <3> HIDE DEF job
    <3> QED BY <3>1, <3>2, <3>3
  <2>9. NetInv(cut)'
    BY <1>0, <1>1, <2>1 DEF NetInv, QueryOK
  <2> QED BY <1>2, <2>5, <2>7, <2>8, <2>9 DEF TunnelInv
<1>6. CASE QQ!SendError(r)
  <2>1. qqNet' = qqNet /\ qqQueue' = qqQueue /\ qqJob' = [qqJob EXCEPT ![r] = QQ!NoJob]
    BY <1>6 DEF QQ!SendError, QQ!sendVars
  <2>2. TunnelTypes'
    BY <1>3, <1>4, <2>1
  <2>3. JobInv(cut)'
    BY <1>0, <1>1, <1>3, <2>1 DEF JobInv, Sending
  <2>4. QueueInv(cut)' /\ NetInv(cut)'
    BY <1>0, <1>1, <2>1 DEF QueueInv, JobOK, NetInv, QueryOK
  <2> QED BY <1>2, <2>2, <2>3, <2>4 DEF TunnelInv
<1>7. CASE QQ!SendFragment(r)
  <2> DEFINE job == qqJob[r]
             n == Len(job.frags)
             i == IF job.try % 2 = 1 THEN n - job.k ELSE job.k + 1
  <2>1. /\ job # QQ!NoJob /\ qqQueue' = qqQueue
        /\ qqNet' = qqNet \cup {[q |-> job.frags[i], born |-> qqNow]}
        /\ qqJob' = [qqJob EXCEPT ![r] = IF job.k + 1 = n THEN QQ!NoJob ELSE [job EXCEPT !.k = @ + 1]]
    BY <1>7 DEF QQ!SendFragment, QQ!sendVars
  <2>2. Sending(job, cut)
    BY <1>0, <2>1 DEF JobInv
  <2>3. PICK S : job \in [d : S, frags : S, try : S, k : Nat]
    BY <2>2 DEF Sending
  <2>4. PICK o \in QQ!OffsetIds : /\ qqUsed[o] > 0 /\ qqNow <= qqUsed[o] - 1 + WaitLimit
                                  /\ job.frags = cut[o] /\ job.k < Len(cut[o])
    BY <2>2 DEF Sending
  <2>5. n \in Nat /\ n = Len(cut[o]) /\ job.k \in Nat /\ job.k < n
    <3>1. CutOf(o, cut[o], own[o])
      BY <1>0, <2>4 DEF CutInv
    <3>2. Len(cut[o]) \in Nat
      BY <3>1 DEF CutOf
    <3> HIDE DEF job
    <3> QED BY <2>3, <2>4, <3>2
  <2>6. i \in 1..n
    <3> HIDE DEF job, n
    <3> QED BY <2>5
  <2> HIDE DEF i
  <2>7. NetInv(cut)'
    <3> DEFINE m == [q |-> job.frags[i], born |-> qqNow]
    <3>1. m.q = cut[o][i] /\ m.born = qqNow
      BY <2>4
    <3>2. qqNet' = qqNet \cup {m}
      BY <2>1
    <3> HIDE DEF m, job, n
    <3>3. QueryOK(m, cut)
      BY <1>3, <2>4, <2>5, <2>6, <3>1 DEF QueryOK
    <3>4. \A q \in qqNet \cup {m} : QueryOK(q, cut)
      BY <1>0, <3>3 DEF NetInv
    <3>5. \A q : QueryOK(q, cut) => QueryOK(q, cut)'
      BY <1>1 DEF QueryOK
    <3> QED BY <3>2, <3>4, <3>5 DEF NetInv
  <2>8. JobInv(cut)'
    <3> SUFFICES ASSUME NEW l \in QQ!Lines PROVE qqJob'[l] = QQ!NoJob \/ Sending(qqJob[l], cut)'
      BY DEF JobInv
    <3>1. CASE l # r
      <4>1. qqJob'[l] = qqJob[l]
        <5> HIDE DEF job, n
        <5> QED BY <1>3, <2>1, <3>1
      <4> QED BY <1>0, <1>1, <4>1 DEF JobInv, Sending
    <3>2. CASE l = r /\ job.k + 1 = n
      <4> HIDE DEF job, n
      <4> QED BY <1>3, <2>1, <3>2
    <3>3. CASE l = r /\ job.k + 1 # n
      <4> DEFINE new == [job EXCEPT !.k = @ + 1]
      <4> HIDE DEF job, n
      <4>1. qqJob'[l] = new
        BY <1>3, <2>1, <3>3
      <4>2. new \in [d : S, frags : S, try : S, k : Nat] /\ new.frags = job.frags /\ new.k = job.k + 1
        BY <2>3
      <4> HIDE DEF new
      <4>3. new.k < Len(cut[o])
        BY <2>5, <3>3, <4>2
      <4>4. Sending(new, cut)
        BY <2>4, <4>2, <4>3 DEF Sending
      <4> QED BY <1>1, <4>1, <4>4 DEF Sending
    <3> HIDE DEF job, n
    <3> QED BY <3>1, <3>2, <3>3
  <2>9. TunnelTypes'
    <3> HIDE DEF job, n
    <3> QED BY <1>3, <1>4, <2>1
  <2>10. QueueInv(cut)'
    <3>1. qqQueue' = qqQueue
      BY <2>1
    <3> QED BY <1>0, <1>1, <3>1 DEF QueueInv, JobOK
  <2> QED BY <1>2, <2>7, <2>8, <2>9, <2>10 DEF TunnelInv
<1> QED BY <1>5, <1>6, <1>7 DEF QQ!WanSendWorker

(* Time only takes queries and jobs away, and expires slots.               *)
LEMMA TickStep ==
    ASSUME TunnelSetting, QQ!Safe, NEW cut, NEW own, TunnelInv(cut, own), QQ!Tick
    PROVE  TunnelInv(cut, own)'
<1>0. TunnelTypes /\ CutInv(cut, own) /\ QueueInv(cut) /\ JobInv(cut) /\ NetInv(cut) /\ SlotInv(cut)
      /\ OnceInv(own)
  BY DEF TunnelInv
<1>1. /\ UNCHANGED <<qqGap, qqAt, qqUsed, qqQueue, qqJob, qqSent, qqSlot, qqGot>>
      /\ qqNow' = qqNow + 1 /\ qqNet' = {m \in qqNet : qqNow' - m.born <= NetLife}
      /\ \A r \in QQ!Lines : qqJob[r] = QQ!NoJob
  BY DEF QQ!Tick, QQ!sendVars, QQ!recvVars
<1>2. /\ qqNow \in Nat /\ WaitLimit \in Nat /\ NetLife \in Nat /\ AssembleTime \in Nat
      /\ qqUsed \in [QQ!OffsetIds -> Nat] /\ \A o \in QQ!OffsetIds : qqUsed[o] <= qqNow + 1
  BY <1>0 DEF TunnelTypes, TunnelSetting
<1>3. TunnelTypes'
  <2>1. \A o \in QQ!OffsetIds : qqUsed'[o] <= qqNow' + 1
    BY <1>1, <1>2
  <2> QED BY <1>0, <1>1, <1>2, <2>1 DEF TunnelTypes
<1>4. CutInv(cut, own)' /\ JobInv(cut)'
  BY <1>0, <1>1 DEF CutInv, JobInv
<1>5. QueueInv(cut)'
  <2>1. ASSUME NEW j, JobOK(j, cut) PROVE JobOK(j, cut)'
    BY <1>1, <1>2, <2>1 DEF JobOK
  <2> QED BY <1>0, <1>1, <2>1 DEF QueueInv
<1>6. NetInv(cut)'
  <2> SUFFICES ASSUME NEW m \in qqNet' PROVE QueryOK(m, cut)'
    BY DEF NetInv
  <2>1. m \in qqNet /\ qqNow' - m.born <= NetLife
    BY <1>1
  <2>2. QueryOK(m, cut)
    BY <1>0, <2>1 DEF NetInv
  <2> QED BY <1>1, <1>2, <2>1, <2>2, SMTT(30) DEF QueryOK
<1>7. SlotInv(cut)'
  <2>1. ASSUME NEW o \in QQ!OffsetIds, SlotOK(o, qqSlot[o], cut) PROVE SlotOK(o, qqSlot[o], cut)'
    BY <1>1, <1>2, <2>1 DEF SlotOK
  <2> QED BY <1>0, <2>1 DEF SlotInv
<1>8. OnceInv(own)'
  <2> SUFFICES ASSUME NEW o \in QQ!OffsetIds, qqUsed[o] > 0, \E k \in 1..Len(qqGot) : qqGot[k] = own[o]
               PROVE  \/ qqNow + 1 > qqUsed[o] - 1 + WaitLimit + NetLife
                      \/ qqSlot[o].st = "done" /\ qqSlot[o].at \in Nat /\ qqSlot[o].at >= qqUsed[o] - 1
    BY <1>1 DEF OnceInv
  <2>1. \/ qqNow > qqUsed[o] - 1 + WaitLimit + NetLife
        \/ qqSlot[o].st = "done" /\ qqSlot[o].at \in Nat /\ qqSlot[o].at >= qqUsed[o] - 1
    BY <1>0 DEF OnceInv
  <2>2. qqUsed[o] \in Nat
    BY <1>2
  <2> QED BY <1>2, <2>1, <2>2
<1> QED BY <1>3, <1>4, <1>5, <1>6, <1>7, <1>8 DEF TunnelInv

(* A swept slot that said done has outlived every query of its datagram.   *)
LEMMA SweepStep ==
    ASSUME TunnelSetting, QQ!Safe, NEW cut, NEW own, TunnelInv(cut, own), QQ!Sweep
    PROVE  TunnelInv(cut, own)'
<1>0. TunnelTypes /\ CutInv(cut, own) /\ QueueInv(cut) /\ JobInv(cut) /\ NetInv(cut) /\ SlotInv(cut)
      /\ OnceInv(own)
  BY DEF TunnelInv
<1>1. /\ UNCHANGED <<qqNow, qqGap, qqAt, qqUsed, qqQueue, qqSent, qqJob, qqNet, qqGot>>
      /\ qqSlot' = [o \in QQ!OffsetIds |-> QQ!Lazily(qqSlot[o])]
  BY DEF QQ!Sweep, QQ!timeVars, QQ!sendVars
<1>2. /\ qqNow \in Nat /\ WaitLimit \in Nat /\ NetLife \in Nat /\ AssembleTime \in Nat
      /\ AssembleTime > WaitLimit + NetLife /\ qqUsed \in [QQ!OffsetIds -> Nat]
  BY <1>0 DEF TunnelTypes, TunnelSetting
<1>3. \A o \in QQ!OffsetIds : qqSlot'[o] = QQ!Empty \/ (qqSlot'[o] = qqSlot[o] /\ ~QQ!Expired(qqSlot[o]))
  BY <1>1 DEF QQ!Lazily
<1>4. TunnelTypes'
  BY <1>0, <1>1 DEF TunnelTypes
<1>5. CutInv(cut, own)' /\ QueueInv(cut)' /\ JobInv(cut)' /\ NetInv(cut)'
  BY <1>0, <1>1 DEF CutInv, QueueInv, JobOK, JobInv, Sending, NetInv, QueryOK
<1>6. SlotInv(cut)'
  BY <1>0, <1>1, <1>3 DEF SlotInv, SlotOK
<1>7. OnceInv(own)'
  <2> SUFFICES ASSUME NEW o \in QQ!OffsetIds, qqUsed[o] > 0, \E k \in 1..Len(qqGot) : qqGot[k] = own[o]
               PROVE  \/ qqNow > qqUsed[o] - 1 + WaitLimit + NetLife
                      \/ qqSlot'[o].st = "done" /\ qqSlot'[o].at \in Nat /\ qqSlot'[o].at >= qqUsed[o] - 1
    BY <1>1 DEF OnceInv
  <2>1. \/ qqNow > qqUsed[o] - 1 + WaitLimit + NetLife
        \/ qqSlot[o].st = "done" /\ qqSlot[o].at \in Nat /\ qqSlot[o].at >= qqUsed[o] - 1
    BY <1>0 DEF OnceInv
  <2>2. CASE qqSlot'[o] = qqSlot[o]
    BY <2>1, <2>2
  <2>3. CASE qqSlot'[o] # qqSlot[o]
    <3>1. QQ!Expired(qqSlot[o])
      BY <1>1, <2>3 DEF QQ!Lazily
    <3>2. qqNow - qqSlot[o].at >= AssembleTime
      BY <3>1 DEF QQ!Expired
    <3>3. qqUsed[o] \in Nat
      BY <1>2
    <3> QED BY <1>2, <2>1, <3>2, <3>3
  <2> QED BY <2>2, <2>3
<1> QED BY <1>4, <1>5, <1>6, <1>7 DEF TunnelInv

(* Nothing the invariant reads changes when the address is learned.        *)
LEMMA LearnStep ==
    ASSUME NEW cut, NEW own, TunnelInv(cut, own),
           UNCHANGED <<qqNow, qqGap, qqAt, qqUsed, qqQueue, qqSent, qqJob, qqNet, qqSlot, qqGot>>
    PROVE  TunnelInv(cut, own)'
<1>0. TunnelTypes /\ CutInv(cut, own) /\ QueueInv(cut) /\ JobInv(cut) /\ NetInv(cut) /\ SlotInv(cut)
      /\ OnceInv(own)
  BY DEF TunnelInv
<1>1. TunnelTypes' /\ CutInv(cut, own)'
  BY <1>0 DEF TunnelTypes, CutInv
<1>2. QueueInv(cut)' /\ JobInv(cut)' /\ NetInv(cut)'
  BY <1>0 DEF QueueInv, JobOK, JobInv, Sending, NetInv, QueryOK
<1>3. SlotInv(cut)' /\ OnceInv(own)'
  BY <1>0 DEF SlotInv, SlotOK, OnceInv
<1> QED BY <1>1, <1>2, <1>3 DEF TunnelInv

(* Datagram d has been handed over.                                        *)
Handed(d) == \E k \in 1..Len(qqGot) : qqGot[k] = d

(* A query that arrives leaves the invariant, and hands over nothing or a  *)
(* sent datagram that has not been handed over before.                     *)
LEMMA ReceiveStep ==
    ASSUME TunnelSetting, QQ!Safe, NEW cut, NEW own, TunnelInv(cut, own), QQ!WanRecv
    PROVE  /\ TunnelInv(cut, own)'
           /\ qqSent' = qqSent
           /\ qqGot' = qqGot \/ \E d \in qqSent : ~Handed(d) /\ qqGot' = Append(qqGot, d)
<1>0. TunnelTypes /\ CutInv(cut, own) /\ QueueInv(cut) /\ JobInv(cut) /\ NetInv(cut) /\ SlotInv(cut)
      /\ OnceInv(own)
  BY DEF TunnelInv
<1> DEFINE C(m) == QQ!GetChunkData(m.q)
           R(m) == QQ!NewDataEvent(QQ!Lazily(qqSlot[C(m).off]), C(m))
<1>1. PICK m \in qqNet : /\ qqSlot' = [qqSlot EXCEPT ![C(m).off] = R(m).slot]
                         /\ qqGot' = IF R(m).out # <<>> /\ qqKnown # "none" THEN Append(qqGot, QQ!Decode(R(m).out)) ELSE qqGot
                         /\ UNCHANGED <<qqNow, qqGap, qqAt, qqUsed, qqQueue, qqSent, qqJob, qqNet>>
  BY DEF QQ!WanRecv, QQ!timeVars, QQ!sendVars
<1>2. QueryOK(m, cut)
  BY <1>0 DEF NetInv
<1>3. PICK o \in QQ!OffsetIds : /\ qqUsed[o] > 0 /\ m.born <= qqUsed[o] - 1 + WaitLimit
                                /\ \E i \in 1..Len(cut[o]) : m.q = cut[o][i]
  BY <1>2 DEF QueryOK
<1>4. PICK i \in 1..Len(cut[o]) : m.q = cut[o][i]
  BY <1>3
<1>5. CutOf(o, cut[o], own[o]) /\ own[o] \in qqSent
  BY <1>0, <1>3 DEF CutInv
<1>6. PICK c : c = QQ!GetChunkData(cut[o][i])
  OBVIOUS
<1>7. C(m) = c /\ c.off = o
  BY <1>4, <1>5, <1>6 DEF CutOf
<1>8. PICK slot, r : slot = qqSlot[o] /\ r = QQ!NewDataEvent(QQ!Lazily(slot), c)
  OBVIOUS
<1>9. /\ qqSlot' = [qqSlot EXCEPT ![o] = r.slot]
      /\ qqGot' = IF r.out # <<>> /\ qqKnown # "none" THEN Append(qqGot, QQ!Decode(r.out)) ELSE qqGot
  BY <1>1, <1>7, <1>8
<1> HIDE DEF C, R
<1>10. /\ qqNow \in Nat /\ WaitLimit \in Nat /\ NetLife \in Nat /\ AssembleTime \in Nat
       /\ AssembleTime > WaitLimit + NetLife /\ qqUsed[o] \in Nat /\ qqUsed[o] <= qqNow + 1
       /\ qqSlot = [p \in QQ!OffsetIds |-> qqSlot[p]] /\ qqGot \in Seq(qqSent)
  BY <1>0, <1>3 DEF TunnelTypes, TunnelSetting
<1>11. qqNow >= qqUsed[o] - 1 /\ qqNow <= qqUsed[o] - 1 + WaitLimit + NetLife
  <2>1. m.born \in Nat /\ m.born <= qqNow /\ qqNow - m.born <= NetLife
    BY <1>2 DEF QueryOK
  <2>2. m.born <= qqUsed[o] - 1 + WaitLimit
    BY <1>3
  <2>3. qqUsed[o] \in Nat /\ qqUsed[o] <= qqNow + 1 /\ qqNow \in Nat /\ WaitLimit \in Nat /\ NetLife \in Nat
    BY <1>10
  <2> QED BY <2>1, <2>2, <2>3
<1>12. SlotOK(o, slot, cut)
  BY <1>0, <1>8 DEF SlotInv
<1>13. Handed(own[o]) => slot.st = "done" /\ ~QQ!Expired(slot)
  <2> SUFFICES ASSUME Handed(own[o]) PROVE slot.st = "done" /\ ~QQ!Expired(slot)
    OBVIOUS
  <2>1. slot.st = "done" /\ slot.at \in Nat /\ slot.at >= qqUsed[o] - 1
    <3>1. \/ qqNow > qqUsed[o] - 1 + WaitLimit + NetLife
          \/ slot.st = "done" /\ slot.at \in Nat /\ slot.at >= qqUsed[o] - 1
      BY <1>0, <1>3, <1>8 DEF OnceInv, Handed
    <3>2. ~(qqNow > qqUsed[o] - 1 + WaitLimit + NetLife)
      <4>1. qqUsed[o] \in Nat /\ qqNow \in Nat /\ WaitLimit \in Nat /\ NetLife \in Nat
        BY <1>10
      <4> QED BY <1>11, <4>1
    <3> QED BY <3>1, <3>2
  <2>2. ~(qqNow - slot.at >= AssembleTime)
    BY <1>10, <1>11, <2>1, SMTT(30)
  <2> QED BY <2>1, <2>2 DEF QQ!Expired
<1>14. \/ r.out = <<>> /\ r.slot = slot
       \/ r.out = <<>> /\ SlotOK(o, r.slot, cut) /\ ~Handed(own[o])
       \/ Delivers(r, own[o]) /\ ~Handed(own[o])
  <2>1. CASE QQ!Lazily(slot) = QQ!Empty
    <3>1. r = QQ!Begin(c)
      BY <1>8, <2>1 DEF QQ!NewDataEvent, QQ!Empty
    <3>2. ~Handed(own[o])
      BY <1>13, <2>1 DEF QQ!Lazily, QQ!Empty
    <3>3. \/ r.out = <<>> /\ Assembling(r.slot, cut[o]) /\ r.slot.at = qqNow
          \/ Delivers(r, own[o])
      BY <1>5, <1>6, <1>10, <3>1, BeginStep
    <3>4. ASSUME Assembling(r.slot, cut[o]), r.slot.at = qqNow PROVE SlotOK(o, r.slot, cut)
      <4>1. r.slot.st = "assembling"
        BY <3>4 DEF Assembling
      <4> QED BY <1>3, <1>10, <1>11, <3>4, <4>1 DEF SlotOK
    <3> QED BY <3>2, <3>3, <3>4
  <2>2. CASE QQ!Lazily(slot) # QQ!Empty /\ slot.st = "assembling"
    <3>1. QQ!Lazily(slot) = slot /\ ~QQ!Expired(slot)
      BY <2>2 DEF QQ!Lazily
    <3>2. r = QQ!Extend(slot, c)
      BY <1>8, <2>2, <3>1 DEF QQ!NewDataEvent
    <3>3. slot # QQ!Empty
      BY <2>2, <3>1
    <3>4. /\ slot.at \in Nat /\ slot.at <= qqNow /\ slot.at >= qqUsed[o] - 1
          /\ slot.at <= qqUsed[o] - 1 + WaitLimit + NetLife /\ Assembling(slot, cut[o])
      <4>1. slot.st # "empty" /\ slot.at \in Nat /\ slot.at <= qqNow
        BY <1>12, <3>3 DEF SlotOK
      <4>2. qqNow - slot.at < AssembleTime
        BY <1>10, <3>1, <4>1 DEF QQ!Expired
      <4> QED BY <1>12, <2>2, <3>3, <4>1, <4>2 DEF SlotOK
    <3>5. ~Handed(own[o])
      BY <1>13, <2>2
    <3>6. \/ r.out = <<>> /\ r.slot = slot
          \/ r.out = <<>> /\ Assembling(r.slot, cut[o]) /\ r.slot.at = slot.at
          \/ Delivers(r, own[o])
      BY <1>5, <1>6, <3>2, <3>4, ExtendStep
    <3>7. ASSUME Assembling(r.slot, cut[o]), r.slot.at = slot.at PROVE SlotOK(o, r.slot, cut)
      <4>1. r.slot.st = "assembling"
        BY <3>7 DEF Assembling
      <4> QED BY <1>3, <1>10, <1>11, <3>4, <3>7, <4>1 DEF SlotOK
    <3> QED BY <3>5, <3>6, <3>7
  <2>3. CASE QQ!Lazily(slot) # QQ!Empty /\ slot.st # "assembling"
    <3>1. QQ!Lazily(slot) = slot
      BY <2>3 DEF QQ!Lazily
    <3>2. slot.st # "empty"
      BY <1>12, <2>3, <3>1 DEF SlotOK
    <3>3. r = [slot |-> slot, out |-> <<>>]
      BY <1>8, <2>3, <3>1, <3>2 DEF QQ!NewDataEvent
    <3> QED BY <3>3
  <2> QED BY <2>1, <2>2, <2>3
<1>15. qqSlot'[o] = r.slot /\ (\A p \in QQ!OffsetIds : p # o => qqSlot'[p] = qqSlot[p])
       /\ qqSlot' = [p \in QQ!OffsetIds |-> qqSlot'[p]]
  BY <1>9, <1>10
<1>16. ASSUME Delivers(r, own[o])
       PROVE  r.slot.st = "done" /\ r.slot.at = qqNow /\ QQ!Decode(r.out) = own[o] /\ SlotOK(o, r.slot, cut)
  <2>1. r.slot.st = "done" /\ r.slot.at = qqNow /\ QQ!Decode(r.out) = own[o]
    BY <1>16 DEF Delivers
  <2> QED BY <1>3, <1>10, <1>11, <2>1 DEF SlotOK
<1>17. qqGot' = qqGot \/ (Delivers(r, own[o]) /\ ~Handed(own[o]) /\ qqGot' = Append(qqGot, own[o]))
  BY <1>9, <1>14, <1>16
<1>18. SlotInv(cut)'
  <2> SUFFICES ASSUME NEW p \in QQ!OffsetIds PROVE SlotOK(p, qqSlot[p], cut)'
    BY DEF SlotInv
  <2>1. SlotOK(p, qqSlot'[p], cut)
    <3>1. CASE p = o
      BY <1>12, <1>14, <1>15, <1>16, <3>1
    <3>2. CASE p # o
      BY <1>0, <1>15, <3>2 DEF SlotInv
    <3> QED BY <3>1, <3>2
  <2> QED BY <1>1, <2>1 DEF SlotOK
<1>19. qqGot' \in Seq(qqSent)
  <2>1. own[o] \in qqSent /\ qqGot \in Seq(qqSent)
    BY <1>5, <1>10
  <2>2. Append(qqGot, own[o]) \in Seq(qqSent)
    BY <2>1
  <2> QED BY <1>17, <2>1, <2>2
<1>20. OnceInv(own)'
  <2> SUFFICES ASSUME NEW p \in QQ!OffsetIds, qqUsed[p] > 0, Handed(own[p])'
               PROVE  \/ qqNow > qqUsed[p] - 1 + WaitLimit + NetLife
                      \/ qqSlot'[p].st = "done" /\ qqSlot'[p].at \in Nat /\ qqSlot'[p].at >= qqUsed[p] - 1
    BY <1>1 DEF OnceInv, Handed
  <2>1. CASE Handed(own[p])
    <3>1. \/ qqNow > qqUsed[p] - 1 + WaitLimit + NetLife
          \/ qqSlot[p].st = "done" /\ qqSlot[p].at \in Nat /\ qqSlot[p].at >= qqUsed[p] - 1
      BY <1>0, <2>1 DEF OnceInv, Handed
    <3>2. qqSlot'[p] = qqSlot[p]
      BY <1>8, <1>14, <1>15, <2>1
    <3> QED BY <3>1, <3>2
  <2>2. CASE ~Handed(own[p])
    <3>1. Delivers(r, own[o]) /\ qqGot' = Append(qqGot, own[o])
      BY <1>17, <2>2 DEF Handed
    <3>2. own[p] = own[o]
      <4>1. PICK k \in 1..Len(qqGot') : qqGot'[k] = own[p]
        BY DEF Handed
      <4>2. /\ Len(qqGot') = Len(qqGot) + 1 /\ Len(qqGot) \in Nat
            /\ \A l \in 1..Len(qqGot) : qqGot'[l] = qqGot[l]
            /\ qqGot'[Len(qqGot) + 1] = own[o]
        BY <1>10, <3>1
      <4>3. k \notin 1..Len(qqGot)
        BY <2>2, <4>1, <4>2 DEF Handed
      <4>4. k = Len(qqGot) + 1
        BY <4>1, <4>2, <4>3
      <4> QED BY <4>1, <4>2, <4>4
    <3>3. p = o
      BY <1>0, <1>3, <3>2 DEF CutInv
    <3> QED BY <1>10, <1>11, <1>15, <1>16, <3>1, <3>3
  <2> QED BY <2>1, <2>2
<1>21. TunnelTypes'
  BY <1>0, <1>1, <1>15, <1>19 DEF TunnelTypes
<1>22. CutInv(cut, own)' /\ QueueInv(cut)' /\ JobInv(cut)' /\ NetInv(cut)'
  BY <1>0, <1>1 DEF CutInv, QueueInv, JobOK, JobInv, Sending, NetInv, QueryOK
<1>23. TunnelInv(cut, own)'
  BY <1>18, <1>20, <1>21, <1>22 DEF TunnelInv
<1> QED BY <1>1, <1>5, <1>17, <1>23

(* Every step keeps TunnelIInv.                                            *)
LEMMA TunnelKeeps ==
    ASSUME TunnelSetting, TunnelIInv, [QQ!Next]_(QQ!vars)
    PROVE  TunnelIInv'
<1>1. qqGap' = qqGap
  BY DEF QQ!Next, QQ!HRecv, QQ!WanSendWorker, QQ!TakeJob, QQ!SendFragment, QQ!SendError, QQ!WanRecv, QQ!Sweep,
         QQ!LearnAddress, QQ!Tick, QQ!vars, QQ!timeVars
<1>2. qqGap' \in Nat
  BY <1>1 DEF TunnelIInv
<1>3. ASSUME QQ!Safe PROVE \E c2, o2 : TunnelInv(c2, o2)'
  <2>1. PICK cut, own : TunnelInv(cut, own)
    BY <1>3 DEF TunnelIInv
  <2>2. CASE QQ!HRecv
    BY <1>3, <2>1, <2>2, SendStep
  <2>3. CASE \E r \in QQ!Lines : QQ!WanSendWorker(r)
    BY <1>3, <2>1, <2>3, WorkerStep
  <2>4. CASE QQ!WanRecv
    BY <1>3, <2>1, <2>4, ReceiveStep
  <2>5. CASE QQ!Sweep
    BY <1>3, <2>1, <2>5, SweepStep
  <2>6. CASE QQ!LearnAddress \/ UNCHANGED QQ!vars
    <3>1. UNCHANGED <<qqNow, qqGap, qqAt, qqUsed, qqQueue, qqSent, qqJob, qqNet, qqSlot, qqGot>>
      BY <2>6 DEF QQ!LearnAddress, QQ!vars, QQ!timeVars, QQ!sendVars, QQ!recvVars
    <3>2. TunnelInv(cut, own)'
      BY <2>1, <3>1, LearnStep
    <3> QED BY <3>2
  <2>7. CASE QQ!Tick
    BY <1>3, <2>1, <2>7, TickStep
  <2> QED BY <2>2, <2>3, <2>4, <2>5, <2>6, <2>7 DEF QQ!Next
<1> QED BY <1>1, <1>2, <1>3 DEF TunnelIInv, QQ!Safe

(* Every step of the tunnel is a step of the channel or a stutter.         *)
LEMMA TunnelMaps ==
    ASSUME TunnelSetting, TunnelIInv, [QQ!Next]_(QQ!vars)
    PROVE  [QQ!Channel!Next]_<<IF QQ!Safe THEN qqSent ELSE {}, IF QQ!Safe THEN qqGot ELSE <<>> >>
<1> DEFINE s == IF QQ!Safe THEN qqSent ELSE {}
           g == IF QQ!Safe THEN qqGot ELSE <<>>
<1>1. qqGap' = qqGap
  BY DEF QQ!Next, QQ!HRecv, QQ!WanSendWorker, QQ!TakeJob, QQ!SendFragment, QQ!SendError, QQ!WanRecv, QQ!Sweep,
         QQ!LearnAddress, QQ!Tick, QQ!vars, QQ!timeVars
<1>2. CASE ~QQ!Safe
  BY <1>1, <1>2 DEF QQ!Safe
<1>3. CASE QQ!Safe
  <2>1. PICK cut, own : TunnelInv(cut, own)
    BY <1>3 DEF TunnelIInv
  <2>2. TunnelTypes
    BY <2>1 DEF TunnelInv
  <2>3. s = qqSent /\ g = qqGot /\ s' = qqSent' /\ g' = qqGot'
    BY <1>1, <1>3 DEF QQ!Safe
  <2>4. CASE QQ!HRecv
    <3>1. QQ!NextDatagram \in Datagrams /\ qqSent' = qqSent \cup {QQ!NextDatagram} /\ qqGot' = qqGot
      BY <2>4 DEF QQ!HRecv, QQ!recvVars
    <3>2. QQ!NextDatagram \notin qqSent
      BY <2>2, SetIsFinite
    <3> QED BY <1>3, <2>3, <3>1, <3>2 DEF QQ!Channel!Next, QQ!Channel!Send
  <2>5. CASE QQ!WanRecv
    <3>1. qqSent' = qqSent /\ (qqGot' = qqGot \/ \E d \in qqSent : ~Handed(d) /\ qqGot' = Append(qqGot, d))
      BY <1>3, <2>1, <2>5, ReceiveStep
    <3>2. CASE qqGot' = qqGot
      BY <2>3, <3>1, <3>2
    <3>3. ASSUME NEW d \in qqSent, ~Handed(d), qqGot' = Append(qqGot, d)
          PROVE  QQ!Channel!Next
      <4>1. d \notin QQ!Channel!Range(qqGot)
        <5>1. DOMAIN qqGot = 1..Len(qqGot)
          BY <2>2 DEF TunnelTypes
        <5>2. \A k \in 1..Len(qqGot) : qqGot[k] # d
          BY <3>3 DEF Handed
        <5> QED BY <5>1, <5>2, Zenon DEF QQ!Channel!Range
      <4>2. d \in Datagrams
        BY <2>2, <3>3 DEF TunnelTypes
      <4>3. QQ!Channel!Deliver(d)
        BY <2>3, <3>1, <3>3, <4>1 DEF QQ!Channel!Deliver
      <4> QED BY <4>2, <4>3 DEF QQ!Channel!Next
    <3> QED BY <3>1, <3>2, <3>3
  <2>6. CASE (\E r \in QQ!Lines : QQ!WanSendWorker(r)) \/ QQ!Sweep \/ QQ!LearnAddress \/ QQ!Tick \/ UNCHANGED QQ!vars
    <3>1. qqSent' = qqSent /\ qqGot' = qqGot
      BY <2>6 DEF QQ!WanSendWorker, QQ!TakeJob, QQ!SendFragment, QQ!SendError, QQ!Sweep, QQ!LearnAddress,
             QQ!Tick,
                  QQ!vars, QQ!timeVars, QQ!sendVars, QQ!recvVars
    <3> QED BY <2>3, <3>1
  <2> QED BY <2>4, <2>5, <2>6 DEF QQ!Next
<1> QED BY <1>2, <1>3

(* The tunnel implements DatagramChannel: with queries lost, repeated,     *)
(* reordered and late, it hands over only datagrams that were sent, whole  *)
(* and at most once (engine.rs and reassembly.rs of qqdns).                *)
THEOREM TunnelIsAChannel ==
    ASSUME TunnelSetting
    PROVE  QQ!Spec => Refines
<1>1. QQ!Init => TunnelIInv
  BY TunnelStarts
<1>2. TunnelIInv /\ [QQ!Next]_(QQ!vars) => TunnelIInv'
  BY TunnelKeeps
<1> DEFINE s == IF QQ!Safe THEN qqSent ELSE {}
           g == IF QQ!Safe THEN qqGot ELSE <<>>
<1>3. QQ!Init => QQ!Channel!Init
  BY DEF QQ!Init, QQ!Channel!Init
<1>4. TunnelIInv /\ [QQ!Next]_(QQ!vars) => [QQ!Channel!Next]_<<s, g>>
  BY TunnelMaps
<1> QED BY <1>1, <1>2, <1>3, <1>4, PTL DEF QQ!Spec, Refines, QQ!Refines, QQ!Channel!Spec

(* What the code checks of the data: h_recv skips an empty datagram,       *)
(* get_chunk_len refuses a domain without room, and the engine's config    *)
(* one without send domains.                                               *)
CutSetting ==
    /\ \A d \in Datagrams : Length[d] \in Nat \ {0}
    /\ Room \in Seq(Nat \ {0}) /\ Room # <<>>

(* Every domain has room for something.                                    *)
LEMMA RoomIsPositive ==
    ASSUME CutSetting, NEW dom \in Nat, NEW i \in Nat \ {0}
    PROVE  RoomAt(dom, i) \in Nat \ {0}
<1> DEFINE x == dom + i - 1
<1>1. Len(Room) \in Nat \ {0} /\ \A k \in 1..Len(Room) : Room[k] \in Nat \ {0}
  BY DEF CutSetting
<1>2. x \in Nat
  OBVIOUS
<1> HIDE DEF x
<1>3. (x % Len(Room)) + 1 \in 1..Len(Room)
  BY <1>1, <1>2
<1> QED BY <1>1, <1>3 DEF RoomAt, x

(* The more domains, the more they carry, up to m of them.                 *)
Grows(dom, m) ==
    \A i \in 0..m : QQ!Carried(dom, i) \in Nat /\ \A j \in 0..m : i < j => QQ!Carried(dom, i) < QQ!Carried(dom, j)

(* Carried grows with every domain, by the least number up to which it     *)
(* does not.                                                               *)
LEMMA CarriedGrows ==
    ASSUME CutSetting, Half \in Nat, NEW dom \in Nat
    PROVE  Grows(dom, 2 * Half)
<1> DEFINE m == 2 * Half
           c(i) == QQ!Carried(dom, i)
           T == {k \in 0..m : ~Grows(dom, k)}
<1>0. m \in Nat /\ c(0) = 0
      /\ \A i \in 1..m : c(i) = c(i - 1) + RoomAt(dom, i) /\ RoomAt(dom, i) \in Nat \ {0}
  <2>1. m \in Nat /\ \A i \in 1..m : i \in Nat \ {0}
    OBVIOUS
  <2>2. \A i \in 1..m : RoomAt(dom, i) \in Nat \ {0}
    BY <2>1, RoomIsPositive
  <2>3. c(0) = 0 /\ \A i \in 1..m : c(i) = c(i - 1) + RoomAt(dom, i)
    BY CarriedSums
  <2> QED BY <2>1, <2>2, <2>3
<1> HIDE DEF m
<1>1. ASSUME T # {} PROVE FALSE
  <2>0. T \in SUBSET Nat
    OBVIOUS
  <2>1. PICK k \in T : \A j \in T : k <= j
    <3> HIDE DEF T
    <3> QED BY <1>1, <2>0, NatHasLeast
  <2>2. k \in 0..m /\ ~Grows(dom, k)
    OBVIOUS
  <2>3. CASE k = 0
    <3>1. \A i \in 0..0 : i = 0
      OBVIOUS
    <3> QED BY <1>0, <2>2, <2>3, <3>1 DEF Grows
  <2>4. CASE k > 0
    <3>1. k - 1 \in 0..m /\ k - 1 \notin T /\ k \in 1..m
      <4>1. k - 1 \in 0..m /\ k \in 1..m /\ ~(k <= k - 1)
        BY <1>0, <2>2, <2>4
      <4> HIDE DEF T
      <4> QED BY <2>1, <4>1
    <3>2. Grows(dom, k - 1)
      BY <3>1
    <3> HIDE DEF T, c
    <3>3. \A i \in 0..(k - 1) : c(i) \in Nat /\ \A j \in 0..(k - 1) : i < j => c(i) < c(j)
      BY <3>2 DEF Grows, c
    <3>4. c(k) = c(k - 1) + RoomAt(dom, k) /\ RoomAt(dom, k) \in Nat \ {0}
      BY <1>0, <3>1
    <3>5. k - 1 \in 0..(k - 1) /\ c(k - 1) \in Nat
      BY <2>2, <3>1, <3>3
    <3>6. c(k) \in Nat /\ c(k - 1) < c(k)
      BY <3>4, <3>5
    <3>7. \A i \in 0..k : i = k \/ i \in 0..(k - 1)
      BY <2>2
    <3>8. \A i \in 0..(k - 1) : c(i) < c(k)
      <4> SUFFICES ASSUME NEW i \in 0..(k - 1) PROVE c(i) < c(k)
        OBVIOUS
      <4>1. CASE i = k - 1
        BY <3>6, <4>1
      <4>2. CASE i # k - 1
        <5>1. i < k - 1
          BY <2>2, <4>2
        <5>2. c(i) < c(k - 1) /\ c(i) \in Nat
          BY <3>3, <3>5, <5>1
        <5> QED BY <3>5, <3>6, <5>2
      <4> QED BY <4>1, <4>2
    <3>9. ASSUME NEW i \in 0..k PROVE c(i) \in Nat /\ \A j \in 0..k : i < j => c(i) < c(j)
      <4>1. CASE i = k
        <5>1. \A j \in 0..k : ~(i < j)
          BY <2>2, <4>1
        <5> QED BY <3>6, <4>1, <5>1
      <4>2. CASE i # k
        <5>1. i \in 0..(k - 1)
          BY <3>7, <4>2
        <5> QED BY <3>3, <3>7, <3>8, <5>1
      <4> QED BY <4>1, <4>2
    <3>10. Grows(dom, k)
      BY <3>9 DEF Grows, c
    <3> QED BY <2>2, <3>10
  <2> QED BY <2>2, <2>3, <2>4
<1>2. m \in 0..m
  BY <1>0
<1> QED BY <1>1, <1>2 DEF m

(* The chunks of cut f are non-empty pieces of datagram d, each after the  *)
(* ones before it.                                                         *)
Spread(f, d) ==
    \A i \in 1..Len(f) :
        /\ f[i].chunk.d = d /\ f[i].chunk.from \in Nat /\ f[i].chunk.to \in Nat
        /\ f[i].chunk.from < f[i].chunk.to /\ f[i].chunk.to <= Length[d]
        /\ \A j \in 1..Len(f) : i < j => f[i].chunk.to <= f[j].chunk.from

(* get_base32_final_domains cuts so: no fewer domains carry the datagram,  *)
(* so every chunk starts before its end.                                   *)
LEMMA DomainsSpread ==
    ASSUME Half \in Nat, CutSetting, NEW o, NEW d \in Datagrams, NEW dom \in Nat,
           QQ!GetBase32FinalDomains(d, o, dom) # <<>>
    PROVE  Spread(QQ!GetBase32FinalDomains(d, o, dom), d)
<1> DEFINE n == QQ!Pieces(Length[d], dom)
           f == QQ!GetBase32FinalDomains(d, o, dom)
           c(i) == QQ!Carried(dom, i)
           m == 2 * Half
<1>1. f = [i \in 1..n |-> [off |-> QQ!NumberToBase32(o), frag |-> (i - 1) % Half,
                           magic |-> QQ!Magic(i - 1, n), chunk |-> QQ!Chunk(d, dom, i - 1)]]
  BY DEF QQ!GetBase32FinalDomains
<1>2. n # 0
  <2> SUFFICES ASSUME n = 0 PROVE FALSE
    OBVIOUS
  <2>1. 1..n = {}
    OBVIOUS
  <2> QED BY <1>1, <2>1
<1>3. n \in 1..m /\ c(n) >= Length[d] /\ \A i \in 1..m : i < n => ~(c(i) >= Length[d])
  BY <1>2, LeastPieces
<1>4. Grows(dom, m) /\ m \in Nat
  BY CarriedGrows
<1> HIDE DEF n, m
<1>5. Length[d] \in Nat \ {0} /\ c(0) = 0
  BY CarriedSums DEF CutSetting
<1>6. n \in Nat /\ n > 0 /\ n <= m /\ Len(f) = n
  BY <1>1, <1>3, <1>4
<1>7. \A i \in 1..n : f[i].chunk = QQ!Chunk(d, dom, i - 1)
  BY <1>1
<1> HIDE DEF f, c
<1>8. \A i \in 0..n : i \in 0..m /\ (i < n => i = 0 \/ (i \in 1..m))
  BY <1>4, <1>6
<1>9. \A i \in 0..n : c(i) \in Nat /\ (\A j \in 0..n : i < j => c(i) < c(j)) /\ (i < n => c(i) < Length[d])
  BY <1>3, <1>4, <1>5, <1>8 DEF Grows, c
<1>10. ASSUME NEW i \in 1..n
       PROVE  /\ f[i].chunk.d = d /\ f[i].chunk.from = c(i - 1)
              /\ f[i].chunk.to = IF c(i) >= Length[d] THEN Length[d] ELSE c(i)
  <2>1. (i - 1) + 1 = i
    BY <1>6
  <2>2. f[i].chunk = [d |-> d, from |-> c(i - 1), to |-> IF c(i) >= Length[d] THEN Length[d] ELSE c(i)]
    BY <1>7, <2>1 DEF QQ!Chunk, c
  <2> QED BY <2>2
<1>11. ASSUME NEW i \in 1..n
       PROVE  /\ f[i].chunk.d = d /\ f[i].chunk.from \in Nat /\ f[i].chunk.to \in Nat
              /\ f[i].chunk.from < f[i].chunk.to /\ f[i].chunk.to <= Length[d]
              /\ \A j \in 1..n : i < j => f[i].chunk.to <= f[j].chunk.from
  <2>1. i \in 0..n /\ i - 1 \in 0..n /\ i - 1 < n /\ i - 1 < i
    BY <1>6
  <2>2. c(i) \in Nat /\ c(i - 1) \in Nat /\ c(i - 1) < c(i) /\ c(i - 1) < Length[d]
    BY <1>9, <2>1
  <2>3. f[i].chunk.to \in Nat /\ f[i].chunk.to <= c(i) /\ f[i].chunk.to <= Length[d]
        /\ c(i - 1) < f[i].chunk.to
    BY <1>5, <1>10, <2>2
  <2>4. ASSUME NEW j \in 1..n, i < j PROVE f[i].chunk.to <= f[j].chunk.from
    <3>1. j - 1 \in 0..n /\ (i = j - 1 \/ i < j - 1)
      BY <1>6, <2>4
    <3>2. c(i) <= c(j - 1) /\ c(j - 1) \in Nat
      BY <1>9, <2>1, <2>2, <3>1
    <3>3. f[j].chunk.from = c(j - 1)
      BY <1>10
    <3> QED BY <2>2, <2>3, <3>2, <3>3
  <2> QED BY <1>10, <2>2, <2>3, <2>4
<1>12. Spread(f, d)
  BY <1>6, <1>11 DEF Spread
<1> QED BY <1>12 DEF f

(* Some character of datagram d was in none of the chunks heard.           *)
Lost(d, heard) == \E x \in 1..Length[d] : \A h \in heard : h.d = d => x \notin (h.from + 1)..h.to

(* What was heard of d are chunks of cut f at places I.                    *)
HeardIn(heard, d, f, I) == \A h \in heard : h.d = d => \E i \in I : h = f[i].chunk

(* When a place of the cut is missing, the first character of its chunk is *)
(* in no other.                                                            *)
LEMMA PartMissing ==
    ASSUME NEW f, NEW d, Spread(f, d), Length[d] \in Nat, Len(f) \in Nat, NEW I, I \subseteq 1..Len(f), I # 1..Len(f),
           NEW heard, HeardIn(heard, d, f, I)
    PROVE  Lost(d, heard)
<1>1. PICK k \in 1..Len(f) : k \notin I
  OBVIOUS
<1> DEFINE x == f[k].chunk.from + 1
<1>2. /\ f[k].chunk.from \in Nat /\ f[k].chunk.to \in Nat
      /\ f[k].chunk.from < f[k].chunk.to /\ f[k].chunk.to <= Length[d]
  BY DEF Spread
<1>3. x \in 1..Length[d]
  BY <1>2
<1>4. ASSUME NEW h \in heard, h.d = d PROVE x \notin (h.from + 1)..h.to
  <2>1. PICK i \in I : h = f[i].chunk
    BY <1>4 DEF HeardIn
  <2>2. i \in 1..Len(f) /\ i # k
    BY <1>1, <2>1
  <2>3. i < k \/ k < i
    BY <2>2
  <2>4. f[i].chunk.from \in Nat /\ f[i].chunk.to \in Nat
    BY <2>2 DEF Spread
  <2>5. f[i].chunk.to <= f[k].chunk.from \/ f[k].chunk.to <= f[i].chunk.from
    BY <2>2, <2>3 DEF Spread
  <2> QED BY <1>2, <2>1, <2>4, <2>5, SMTT(30)
<1> HIDE DEF x
<1> QED BY <1>3, <1>4 DEF Lost

(* What was heard of d is in the slot.                                     *)
HeardBy(slot, heard, d) == \A h \in heard : h.d = d => \E p \in slot.parts : p.chunk = h

(* While a slot that has all that was heard is unfinished, a character is  *)
(* missing.                                                                *)
LEMMA UnfinishedIsLost ==
    ASSUME NEW o, NEW f, NEW d, CutOf(o, f, d), Spread(f, d), Length[d] \in Nat, NEW slot, Assembling(slot, f),
           NEW heard, HeardBy(slot, heard, d)
    PROVE  Lost(d, heard)
<1>1. Len(f) \in Nat /\ \A i \in 1..Len(f) : QQ!GetChunkData(f[i]).chunk = f[i].chunk
  BY DEF CutOf
<1>2. PICK I : I \subseteq 1..Len(f) /\ I # 1..Len(f) /\ slot.parts = {QQ!GetChunkData(f[i]) : i \in I}
  BY DEF Assembling
<1>3. HeardIn(heard, d, f, I)
  BY <1>1, <1>2 DEF HeardIn, HeardBy
<1> QED BY <1>1, <1>2, <1>3, PartMissing

(* The slot of an offset is idle and nothing of its datagram was heard, or *)
(* it is assembling the datagram and has all that was heard of it.         *)
Awaits(o, f, d) ==
    \/ Idle(qqSlot[o]) /\ \A h \in qqHeard : h.d # d
    \/ /\ qqSlot[o].st = "assembling" /\ qqSlot[o].at \in Nat /\ qqSlot[o].at >= qqUsed[o] - 1
       /\ Assembling(qqSlot[o], f)
       /\ HeardBy(qqSlot[o], qqHeard, d)

(* Only sent datagrams are heard of, and every offset in use has a cut     *)
(* that is spread.                                                         *)
SpreadInv(cut, own) ==
    /\ qqAt.dom \in Nat
    /\ \A h \in qqHeard : h.d \in qqSent
    /\ \A o \in QQ!OffsetIds : qqUsed[o] > 0 => Spread(cut[o], own[o])

(* Every datagram sent was handed over or has not been heard whole.        *)
HandedOrLost == \A d \in qqSent : Handed(d) \/ Lost(d, qqHeard)

(* As long as queries of an offset's datagram may arrive and it was not    *)
(* handed over, its slot awaits the rest: it has not expired, because a    *)
(* slot lives longer than a job can wait and a query travel.               *)
AwaitInv(cut, own) ==
    \A o \in QQ!OffsetIds :
        (qqUsed[o] > 0 /\ ~Handed(own[o]) /\ qqNow <= qqUsed[o] - 1 + WaitLimit + NetLife)
            => Awaits(o, cut[o], own[o])

(* The inductive invariant for given cuts and owners, on top of TunnelInv. *)
(* AwaitInv makes it inductive: what was heard is what the slot holds.     *)
WholeInv(cut, own) ==
    /\ TunnelInv(cut, own) /\ SpreadInv(cut, own)
    /\ qqKnown = "fixed" => HandedOrLost /\ AwaitInv(cut, own)

(* The inductive invariant.                                                *)
WholeIInv == qqGap \in Nat /\ (QQ!Safe => \E cut, own : WholeInv(cut, own))

(* It holds initially.                                                     *)
LEMMA WholeStarts ==
    ASSUME TunnelSetting, CutSetting, QQ!Init
    PROVE  WholeIInv
<1>1. TunnelIInv
  BY TunnelStarts
<1>2. \A cut, own : SpreadInv(cut, own) /\ HandedOrLost /\ AwaitInv(cut, own)
  BY DEF QQ!Init, SpreadInv, HandedOrLost, AwaitInv
<1> QED BY <1>1, <1>2 DEF TunnelIInv, WholeIInv, WholeInv

(* Steps that touch neither what was heard nor the slots keep it.          *)
LEMMA WholeFrame ==
    ASSUME NEW cut, NEW own, WholeInv(cut, own), TunnelInv(cut, own)',
           UNCHANGED <<qqNow, qqAt, qqUsed, qqSent, qqSlot, qqGot, qqHeard>>,
           qqKnown' = "fixed" => qqKnown = "fixed"
    PROVE  WholeInv(cut, own)'
<1>1. SpreadInv(cut, own)'
  BY DEF WholeInv, SpreadInv
<1>2. HandedOrLost => HandedOrLost'
  BY DEF HandedOrLost, Handed
<1>3. AwaitInv(cut, own) => AwaitInv(cut, own)'
  BY DEF AwaitInv, Awaits, Handed, Idle
<1> QED BY <1>1, <1>2, <1>3 DEF WholeInv

(* Time passing keeps it: an idle slot stays idle, and a later moment is   *)
(* in the time of the query only if this one is.                           *)
LEMMA WholeTick ==
    ASSUME TunnelSetting, QQ!Safe, NEW cut, NEW own, WholeInv(cut, own), QQ!Tick
    PROVE  WholeInv(cut, own)'
<1>0. TunnelInv(cut, own) /\ TunnelInv(cut, own)'
  BY TickStep DEF WholeInv
<1>1. qqNow' = qqNow + 1 /\ UNCHANGED <<qqAt, qqUsed, qqSent, qqSlot, qqGot, qqHeard, qqKnown>>
  BY DEF QQ!Tick, QQ!sendVars, QQ!recvVars
<1>2. qqNow \in Nat /\ WaitLimit \in Nat /\ NetLife \in Nat /\ AssembleTime \in Nat
      /\ qqUsed \in [QQ!OffsetIds -> Nat]
  BY <1>0 DEF TunnelInv, TunnelTypes, TunnelSetting
<1>3. SpreadInv(cut, own)'
  BY <1>1 DEF WholeInv, SpreadInv
<1>4. HandedOrLost => HandedOrLost'
  BY <1>1 DEF HandedOrLost, Handed
<1>5. ASSUME AwaitInv(cut, own) PROVE AwaitInv(cut, own)'
  <2> SUFFICES ASSUME NEW o \in QQ!OffsetIds, qqUsed[o] > 0, ~Handed(own[o]),
                      qqNow + 1 <= qqUsed[o] - 1 + WaitLimit + NetLife
               PROVE  Awaits(o, cut[o], own[o])'
    BY <1>1 DEF AwaitInv, Handed
  <2>1. qqUsed[o] \in Nat
    BY <1>2
  <2>2. qqNow <= qqUsed[o] - 1 + WaitLimit + NetLife
    BY <1>2, <2>1
  <2>3. Awaits(o, cut[o], own[o])
    BY <1>5, <2>2 DEF AwaitInv
  <2>4. Idle(qqSlot[o]) => Idle(qqSlot[o])'
    BY <1>1, <1>2 DEF Idle
  <2> QED BY <1>1, <2>3, <2>4 DEF Awaits
<1> QED BY <1>0, <1>1, <1>3, <1>4, <1>5 DEF WholeInv

(* The sweep takes no slot that still awaits queries.                      *)
LEMMA WholeSweep ==
    ASSUME TunnelSetting, QQ!Safe, NEW cut, NEW own, WholeInv(cut, own), QQ!Sweep
    PROVE  WholeInv(cut, own)'
<1>0. TunnelInv(cut, own) /\ TunnelInv(cut, own)'
  BY SweepStep DEF WholeInv
<1>1. /\ UNCHANGED <<qqNow, qqAt, qqUsed, qqSent, qqGot, qqHeard, qqKnown>>
      /\ qqSlot' = [o \in QQ!OffsetIds |-> QQ!Lazily(qqSlot[o])]
  BY DEF QQ!Sweep, QQ!timeVars, QQ!sendVars
<1>2. /\ qqNow \in Nat /\ WaitLimit \in Nat /\ NetLife \in Nat /\ AssembleTime \in Nat
      /\ AssembleTime > WaitLimit + NetLife /\ qqUsed \in [QQ!OffsetIds -> Nat]
  BY <1>0 DEF TunnelInv, TunnelTypes, TunnelSetting
<1>3. SpreadInv(cut, own)'
  BY <1>1 DEF WholeInv, SpreadInv
<1>4. HandedOrLost => HandedOrLost'
  BY <1>1 DEF HandedOrLost, Handed
<1>5. ASSUME AwaitInv(cut, own) PROVE AwaitInv(cut, own)'
  <2> SUFFICES ASSUME NEW o \in QQ!OffsetIds, qqUsed[o] > 0, ~Handed(own[o]),
                      qqNow <= qqUsed[o] - 1 + WaitLimit + NetLife
               PROVE  Awaits(o, cut[o], own[o])'
    BY <1>1 DEF AwaitInv, Handed
  <2>1. Awaits(o, cut[o], own[o])
    BY <1>5 DEF AwaitInv
  <2>2. qqSlot'[o] = QQ!Empty \/ qqSlot'[o] = qqSlot[o]
    BY <1>1 DEF QQ!Lazily
  <2>3. CASE Idle(qqSlot[o]) /\ \A h \in qqHeard : h.d # own[o]
    <3>1. Idle(qqSlot[o])'
      BY <1>1, <2>2, <2>3 DEF Idle
    <3> QED BY <1>1, <2>3, <3>1 DEF Awaits
  <2>4. CASE ~(Idle(qqSlot[o]) /\ \A h \in qqHeard : h.d # own[o])
    <3>1. qqSlot[o].at \in Nat /\ qqSlot[o].at >= qqUsed[o] - 1
      BY <2>1, <2>4 DEF Awaits
    <3>2. qqUsed[o] \in Nat
      BY <1>2
    <3>3. ~(qqNow - qqSlot[o].at >= AssembleTime)
      BY <1>2, <3>1, <3>2
    <3>4. qqSlot'[o] = qqSlot[o]
      BY <1>1, <3>3 DEF QQ!Lazily, QQ!Expired
    <3> QED BY <1>1, <2>1, <2>4, <3>4 DEF Awaits
  <2> QED BY <2>3, <2>4
<1> QED BY <1>0, <1>1, <1>3, <1>4, <1>5 DEF WholeInv

(* A datagram of which nothing was heard is not whole.                     *)
LEMMA NothingHeard ==
    ASSUME CutSetting, NEW d \in Datagrams, NEW heard, \A h \in heard : h.d # d
    PROVE  Lost(d, heard)
<1>1. 1 \in 1..Length[d]
  BY DEF CutSetting
<1> QED BY <1>1 DEF Lost

(* A new datagram has been heard of by nobody, and finds its slot idle.    *)
LEMMA WholeSend ==
    ASSUME TunnelSetting, CutSetting, QQ!Safe, NEW cut, NEW own, WholeInv(cut, own), QQ!HRecv
    PROVE  \E c2, o2 : WholeInv(c2, o2)'
<1> DEFINE d == QQ!NextDatagram
<1>0. TunnelInv(cut, own) /\ SpreadInv(cut, own) /\ TunnelTypes
  BY DEF WholeInv, TunnelInv
<1>1. PICK c2, o2 : TunnelInv(c2, o2)' /\ Reuses(cut, own, c2, o2)
  BY <1>0, SendStep
<1>2. /\ d \in Datagrams /\ qqSent' = qqSent \cup {d}
      /\ UNCHANGED <<qqNow, qqSlot, qqGot, qqHeard, qqKnown>>
  BY DEF QQ!HRecv, QQ!timeVars, QQ!recvVars
<1>3. d \notin qqSent /\ \A h \in qqHeard : h.d # d
  BY <1>0, SetIsFinite DEF SpreadInv
<1>4. HandedOrLost => HandedOrLost'
  <2> SUFFICES ASSUME HandedOrLost, NEW e \in qqSent' PROVE Handed(e) \/ Lost(e, qqHeard)
    BY <1>2 DEF HandedOrLost, Handed
  <2>1. CASE e = d
    BY <1>2, <1>3, <2>1, NothingHeard
  <2>2. CASE e # d
    BY <1>2, <2>2 DEF HandedOrLost
  <2> QED BY <2>1, <2>2
<1>5. qqNow \in Nat /\ qqUsed \in [QQ!OffsetIds -> Nat] /\ qqAt.dom \in Nat /\ qqAt.off \in QQ!OffsetIds
  BY <1>0 DEF TunnelTypes, SpreadInv
<1>6. qqAt'.dom \in Nat
  <2> DEFINE frags == QQ!GetBase32FinalDomains(d, qqAt.off, qqAt.dom)
  <2>1. frags = <<>> => qqAt' = qqAt
    BY DEF QQ!HRecv
  <2>2. ASSUME frags # <<>> PROVE qqAt'.dom \in Nat
    <3>1. CutOf(qqAt.off, frags, d)
      BY <1>5, <2>2, DomainsCut
    <3>2. qqAt'.dom = (qqAt.dom + Len(frags)) % Len(Room)
      BY <2>2 DEF QQ!HRecv
    <3> HIDE DEF frags
    <3>3. Len(frags) \in Nat
      BY <3>1 DEF CutOf
    <3>4. Len(Room) \in Nat \ {0}
      BY DEF CutSetting
    <3> QED BY <1>5, <3>2, <3>3, <3>4
  <2> QED BY <1>5, <2>1, <2>2
<1> HIDE DEF d
<1>7. CASE qqUsed' = qqUsed /\ c2 = cut /\ o2 = own
  <2>1. SpreadInv(cut, own)'
    BY <1>0, <1>2, <1>6, <1>7 DEF SpreadInv
  <2>2. AwaitInv(cut, own) => AwaitInv(cut, own)'
    BY <1>2, <1>7 DEF AwaitInv, Awaits, Handed, Idle
  <2> QED BY <1>1, <1>2, <1>4, <1>7, <2>1, <2>2 DEF WholeInv
<1>8. CASE ~(qqUsed' = qqUsed /\ c2 = cut /\ o2 = own)
  <2>1. PICK a \in QQ!OffsetIds :
           /\ Idle(qqSlot[a]) /\ qqUsed'[a] = qqNow + 1
           /\ c2[a] = QQ!GetBase32FinalDomains(d, a, qqAt.dom) /\ c2[a] # <<>>
           /\ o2[a] = d
           /\ \A o \in QQ!OffsetIds : o # a => qqUsed'[o] = qqUsed[o] /\ c2[o] = cut[o] /\ o2[o] = own[o]
    BY <1>1, <1>8 DEF Reuses, d
  <2>2. Spread(c2[a], o2[a])
    BY <1>2, <1>5, <2>1, DomainsSpread DEF TunnelSetting
  <2>3. SpreadInv(c2, o2)'
    <3>1. \A o \in QQ!OffsetIds : qqUsed'[o] > 0 => Spread(c2[o], o2[o])
      BY <1>0, <2>1, <2>2 DEF SpreadInv
    <3> QED BY <1>0, <1>2, <1>6, <3>1 DEF SpreadInv
  <2>4. ASSUME AwaitInv(cut, own) PROVE AwaitInv(c2, o2)'
    <3> SUFFICES ASSUME NEW o \in QQ!OffsetIds, qqUsed'[o] > 0, ~Handed(o2[o]),
                        qqNow <= qqUsed'[o] - 1 + WaitLimit + NetLife
                 PROVE  Awaits(o, c2[o], o2[o])'
      BY <1>2 DEF AwaitInv, Handed
    <3>1. CASE o = a
      <4>1. Idle(qqSlot[o])'
        BY <1>2, <2>1, <3>1 DEF Idle
      <4> QED BY <1>2, <1>3, <2>1, <3>1, <4>1 DEF Awaits
    <3>2. CASE o # a
      <4>1. qqUsed'[o] = qqUsed[o] /\ c2[o] = cut[o] /\ o2[o] = own[o]
        BY <2>1, <3>2
      <4>2. Awaits(o, cut[o], own[o])
        BY <2>4, <4>1 DEF AwaitInv
      <4> QED BY <1>2, <4>1, <4>2 DEF Awaits, Idle
    <3> QED BY <3>1, <3>2
  <2> QED BY <1>1, <1>2, <1>4, <2>3, <2>4 DEF WholeInv
<1> QED BY <1>7, <1>8

(* A query that arrives is in the slot afterwards, or completes its        *)
(* datagram.                                                               *)
LEMMA WholeReceive ==
    ASSUME TunnelSetting, CutSetting, QQ!Safe, NEW cut, NEW own, WholeInv(cut, own), QQ!WanRecv
    PROVE  WholeInv(cut, own)'
<1>0. /\ TunnelInv(cut, own) /\ SpreadInv(cut, own) /\ TunnelTypes /\ CutInv(cut, own) /\ NetInv(cut)
      /\ SlotInv(cut)
  BY DEF WholeInv, TunnelInv
<1>i. TunnelInv(cut, own)'
  BY <1>0, ReceiveStep
<1> DEFINE C(m) == QQ!GetChunkData(m.q)
           R(m) == QQ!NewDataEvent(QQ!Lazily(qqSlot[C(m).off]), C(m))
<1>1. PICK m \in qqNet :
          /\ qqSlot' = [qqSlot EXCEPT ![C(m).off] = R(m).slot]
          /\ qqGot' = IF R(m).out # <<>> /\ qqKnown # "none" THEN Append(qqGot, QQ!Decode(R(m).out)) ELSE qqGot
          /\ qqHeard' = qqHeard \cup {m.q.chunk}
          /\ UNCHANGED <<qqNow, qqAt, qqUsed, qqSent, qqKnown>>
  BY DEF QQ!WanRecv, QQ!timeVars, QQ!sendVars
<1>2. QueryOK(m, cut)
  BY <1>0 DEF NetInv
<1>3. PICK o \in QQ!OffsetIds : /\ qqUsed[o] > 0 /\ m.born <= qqUsed[o] - 1 + WaitLimit
                                /\ \E i \in 1..Len(cut[o]) : m.q = cut[o][i]
  BY <1>2 DEF QueryOK
<1>4. PICK i \in 1..Len(cut[o]) : m.q = cut[o][i]
  BY <1>3
<1>5. CutOf(o, cut[o], own[o]) /\ own[o] \in qqSent /\ Spread(cut[o], own[o])
  BY <1>0, <1>3 DEF CutInv, SpreadInv
<1>6. PICK c : c = QQ!GetChunkData(cut[o][i])
  OBVIOUS
<1>7. C(m) = c /\ c.off = o /\ c.chunk = m.q.chunk
  BY <1>4, <1>5, <1>6 DEF CutOf
<1>8. PICK slot, r : slot = qqSlot[o] /\ r = QQ!NewDataEvent(QQ!Lazily(slot), c)
  OBVIOUS
<1>9. /\ qqSlot' = [qqSlot EXCEPT ![o] = r.slot]
      /\ qqGot' = IF r.out # <<>> /\ qqKnown # "none" THEN Append(qqGot, QQ!Decode(r.out)) ELSE qqGot
      /\ qqHeard' = qqHeard \cup {c.chunk}
  BY <1>1, <1>7, <1>8
<1> HIDE DEF C, R
<1>10. /\ qqNow \in Nat /\ WaitLimit \in Nat /\ NetLife \in Nat /\ AssembleTime \in Nat
       /\ AssembleTime > WaitLimit + NetLife /\ qqUsed[o] \in Nat /\ qqUsed[o] <= qqNow + 1
       /\ qqSlot = [p \in QQ!OffsetIds |-> qqSlot[p]] /\ qqGot \in Seq(qqSent) /\ qqSent \subseteq Datagrams
  BY <1>0, <1>3 DEF TunnelTypes, TunnelSetting
<1>11. qqNow >= qqUsed[o] - 1 /\ qqNow <= qqUsed[o] - 1 + WaitLimit + NetLife
  <2>1. m.born \in Nat /\ m.born <= qqNow /\ qqNow - m.born <= NetLife
    BY <1>2 DEF QueryOK
  <2>2. m.born <= qqUsed[o] - 1 + WaitLimit
    BY <1>3
  <2>3. qqUsed[o] \in Nat /\ qqUsed[o] <= qqNow + 1 /\ qqNow \in Nat /\ WaitLimit \in Nat /\ NetLife \in Nat
    BY <1>10
  <2> QED BY <2>1, <2>2, <2>3
<1>12. c.chunk.d = own[o]
  BY <1>4, <1>5, <1>7 DEF Spread
<1>13. SpreadInv(cut, own)'
  BY <1>0, <1>1, <1>5, <1>9, <1>12 DEF SpreadInv
<1>14. qqSlot'[o] = r.slot /\ \A p \in QQ!OffsetIds : p # o => qqSlot'[p] = qqSlot[p]
  BY <1>9, <1>10
<1>15. \A d : Handed(d) => Handed(d)'
  <2>1. /\ Len(qqGot) \in Nat
        /\ \A x : /\ Len(Append(qqGot, x)) = Len(qqGot) + 1
                  /\ \A k \in 1..Len(qqGot) : Append(qqGot, x)[k] = qqGot[k]
    BY <1>10
  <2>2. \A k \in 1..Len(qqGot) : k \in 1..Len(qqGot') /\ qqGot'[k] = qqGot[k]
    BY <1>9, <2>1
  <2> QED BY <2>2 DEF Handed
<1>16. ASSUME qqKnown = "fixed", Delivers(r, own[o]) PROVE Handed(own[o])'
  <2>1. qqGot' = Append(qqGot, own[o])
    BY <1>9, <1>16 DEF Delivers
  <2>2. Len(qqGot) + 1 \in 1..Len(qqGot') /\ qqGot'[Len(qqGot) + 1] = own[o]
    BY <1>10, <2>1
  <2> QED BY <2>2 DEF Handed
<1>17. ASSUME qqKnown = "fixed", AwaitInv(cut, own), ~Handed(own[o])'
       PROVE  /\ Assembling(r.slot, cut[o]) /\ r.slot.at \in Nat /\ r.slot.at >= qqUsed[o] - 1
              /\ HeardBy(r.slot, qqHeard', own[o])
  <2>1. Awaits(o, cut[o], own[o])
    BY <1>3, <1>11, <1>15, <1>17 DEF AwaitInv
  <2>2. CASE Idle(slot) /\ \A h \in qqHeard : h.d # own[o]
    <3>1. QQ!Lazily(slot) = QQ!Empty
      BY <2>2 DEF Idle, QQ!Lazily, QQ!Expired, QQ!Empty
    <3>2. r = QQ!Begin(c)
      BY <1>8, <3>1 DEF QQ!NewDataEvent, QQ!Empty
    <3>3. Assembling(r.slot, cut[o]) /\ r.slot.at = qqNow /\ r.slot.parts = {c}
      BY <1>5, <1>6, <1>10, <1>16, <1>17, <3>2, BeginStep
    <3>4. HeardBy(r.slot, qqHeard', own[o])
      BY <1>9, <2>2, <3>3 DEF HeardBy
    <3> QED BY <1>10, <1>11, <3>3, <3>4
  <2>3. CASE ~(Idle(slot) /\ \A h \in qqHeard : h.d # own[o])
    <3>1. /\ slot.st = "assembling" /\ slot.at \in Nat /\ slot.at >= qqUsed[o] - 1
          /\ Assembling(slot, cut[o]) /\ HeardBy(slot, qqHeard, own[o])
      BY <1>8, <2>1, <2>3 DEF Awaits
    <3>2. ~(qqNow - slot.at >= AssembleTime)
      BY <1>10, <1>11, <3>1, SMTT(30)
    <3>3. QQ!Lazily(slot) = slot
      BY <3>2 DEF QQ!Lazily, QQ!Expired
    <3>4. r = QQ!Extend(slot, c)
      BY <1>8, <3>1, <3>3 DEF QQ!NewDataEvent
    <3>5. \/ r.slot = slot /\ c \in slot.parts
          \/ Assembling(r.slot, cut[o]) /\ r.slot.at = slot.at /\ r.slot.parts = slot.parts \cup {c}
      BY <1>5, <1>6, <1>16, <1>17, <3>1, <3>4, ExtendStep
    <3>6. HeardBy(r.slot, qqHeard', own[o])
      BY <1>9, <3>1, <3>5 DEF HeardBy
    <3> QED BY <3>1, <3>5, <3>6
  <2> QED BY <2>2, <2>3
<1>18. ASSUME qqKnown = "fixed", AwaitInv(cut, own) PROVE AwaitInv(cut, own)'
  <2> SUFFICES ASSUME NEW p \in QQ!OffsetIds, qqUsed[p] > 0, ~Handed(own[p])',
                      qqNow <= qqUsed[p] - 1 + WaitLimit + NetLife
               PROVE  Awaits(p, cut[p], own[p])'
    BY <1>1 DEF AwaitInv
  <2>1. CASE p = o
    <3>1. r.slot.st = "assembling"
      BY <1>17, <1>18, <2>1 DEF Assembling
    <3> QED BY <1>1, <1>14, <1>17, <1>18, <2>1, <3>1 DEF Awaits
  <2>2. CASE p # o
    <3>1. own[p] # own[o]
      BY <1>0, <1>3, <2>2 DEF CutInv
    <3>2. Awaits(p, cut[p], own[p])
      BY <1>15, <1>18 DEF AwaitInv
    <3>3. qqSlot'[p] = qqSlot[p]
      BY <1>14, <2>2
    <3>4. \A h \in qqHeard' : h.d = own[p] => h \in qqHeard
      BY <1>9, <1>12, <3>1
    <3>5. qqHeard \subseteq qqHeard'
      BY <1>9
    <3> QED BY <1>1, <3>2, <3>3, <3>4, <3>5 DEF Awaits, Idle, HeardBy
  <2> QED BY <2>1, <2>2
<1>19. ASSUME qqKnown = "fixed", AwaitInv(cut, own), HandedOrLost PROVE HandedOrLost'
  <2> SUFFICES ASSUME NEW d \in qqSent, ~Handed(d)' PROVE Lost(d, qqHeard')
    BY <1>1 DEF HandedOrLost
  <2>1. CASE d = own[o]
    <3>1. Length[d] \in Nat
      BY <1>10 DEF CutSetting
    <3> QED BY <1>5, <1>17, <1>19, <2>1, <3>1, UnfinishedIsLost
  <2>2. CASE d # own[o]
    <3>1. Lost(d, qqHeard)
      BY <1>15, <1>19 DEF HandedOrLost
    <3> QED BY <1>9, <1>12, <2>2, <3>1 DEF Lost
  <2> QED BY <2>1, <2>2
<1> QED BY <1>1, <1>13, <1>18, <1>19, <1>i DEF WholeInv

(* Every step keeps WholeIInv.                                             *)
LEMMA WholeKeeps ==
    ASSUME TunnelSetting, CutSetting, WholeIInv, [QQ!Next]_(QQ!vars)
    PROVE  WholeIInv'
<1>1. qqGap' = qqGap
  BY DEF QQ!Next, QQ!HRecv, QQ!WanSendWorker, QQ!TakeJob, QQ!SendFragment, QQ!SendError, QQ!WanRecv, QQ!Sweep,
         QQ!LearnAddress, QQ!Tick, QQ!vars, QQ!timeVars
<1>2. qqGap' \in Nat
  BY <1>1 DEF WholeIInv
<1>3. ASSUME QQ!Safe PROVE \E c2, o2 : WholeInv(c2, o2)'
  <2>1. PICK cut, own : WholeInv(cut, own)
    BY <1>3 DEF WholeIInv
  <2>i. TunnelInv(cut, own)
    BY <2>1 DEF WholeInv
  <2>2. CASE QQ!HRecv
    BY <1>3, <2>1, <2>2, WholeSend
  <2>3. CASE \E r \in QQ!Lines : QQ!WanSendWorker(r)
    <3>1. PICK r \in QQ!Lines : QQ!WanSendWorker(r)
      BY <2>3
    <3>2. TunnelInv(cut, own)'
      BY <1>3, <2>i, <3>1, WorkerStep
    <3>3. UNCHANGED <<qqNow, qqAt, qqUsed, qqSent, qqSlot, qqGot, qqHeard, qqKnown>>
      BY <3>1 DEF QQ!WanSendWorker, QQ!TakeJob, QQ!SendFragment, QQ!SendError, QQ!timeVars, QQ!sendVars,
             QQ!recvVars
    <3>4. WholeInv(cut, own)'
      BY <2>1, <3>2, <3>3, WholeFrame
    <3> QED BY <3>4
  <2>4. CASE QQ!WanRecv
    <3>1. WholeInv(cut, own)'
      BY <1>3, <2>1, <2>4, WholeReceive
    <3> QED BY <3>1
  <2>5. CASE QQ!Sweep
    <3>1. WholeInv(cut, own)'
      BY <1>3, <2>1, <2>5, WholeSweep
    <3> QED BY <3>1
  <2>6. CASE QQ!LearnAddress \/ UNCHANGED QQ!vars
    <3>1. /\ UNCHANGED <<qqNow, qqGap, qqAt, qqUsed, qqQueue, qqSent, qqJob, qqNet, qqSlot, qqGot, qqHeard>>
          /\ qqKnown' = "fixed" => qqKnown = "fixed"
      BY <2>6 DEF QQ!LearnAddress, QQ!vars, QQ!timeVars, QQ!sendVars, QQ!recvVars
    <3>2. TunnelInv(cut, own)'
      BY <2>i, <3>1, LearnStep
    <3>3. WholeInv(cut, own)'
      BY <2>1, <3>1, <3>2, WholeFrame
    <3> QED BY <3>3
  <2>7. CASE QQ!Tick
    <3>1. WholeInv(cut, own)'
      BY <1>3, <2>1, <2>7, WholeTick
    <3> QED BY <3>1
  <2> QED BY <2>2, <2>3, <2>4, <2>5, <2>6, <2>7 DEF QQ!Next
<1> QED BY <1>1, <1>2, <1>3 DEF WholeIInv, QQ!Safe

(* With offsets far enough apart, a datagram all of whose queries have     *)
(* arrived in any order and number has been handed over: no slot is        *)
(* poisoned and none expires half way (new_data_event and the sweep of     *)
(* reassembly.rs against wan_send_worker's wait limit in engine.rs).       *)
THEOREM WholeDatagramsArrive ==
    ASSUME TunnelSetting, CutSetting
    PROVE  QQ!Spec => []WholeDatagramArrives
<1>1. QQ!Init => WholeIInv
  BY WholeStarts
<1>2. WholeIInv /\ [QQ!Next]_(QQ!vars) => WholeIInv'
  BY WholeKeeps
<1>3. ASSUME WholeIInv PROVE WholeDatagramArrives
  <2> SUFFICES ASSUME QQ!Safe, qqKnown = "fixed", NEW d \in qqSent,
                      UNION {(c.from + 1)..c.to : c \in {h \in qqHeard : h.d = d}} = 1..Length[d]
               PROVE  \E k \in DOMAIN qqGot : qqGot[k] = d
    BY DEF WholeDatagramArrives, QQ!WholeDatagramArrives
  <2>1. PICK cut, own : WholeInv(cut, own)
    BY <1>3 DEF WholeIInv
  <2>2. HandedOrLost /\ TunnelTypes
    BY <2>1 DEF WholeInv, TunnelInv
  <2>3. ~Lost(d, qqHeard)
    <3> SUFFICES ASSUME Lost(d, qqHeard) PROVE FALSE
      OBVIOUS
    <3>1. PICK x \in 1..Length[d] : \A h \in qqHeard : h.d = d => x \notin (h.from + 1)..h.to
      BY DEF Lost
    <3>2. PICK h \in qqHeard : h.d = d /\ x \in (h.from + 1)..h.to
      BY ZenonT(30)
    <3> QED BY <3>1, <3>2
  <2>4. DOMAIN qqGot = 1..Len(qqGot)
    BY <2>2 DEF TunnelTypes
  <2> QED BY <2>2, <2>3, <2>4 DEF HandedOrLost, Handed
<1> QED BY <1>1, <1>2, <1>3, PTL DEF QQ!Spec

-----------------------------------------------------------------------------
(* The QUIC responder: any connections, fragments and ClientHello, any     *)
(* sizes of datagrams, flights and connection IDs.                         *)

(* What assemble holds between two rounds.                                 *)
FlightStates == [full : Nat, cur : Nat, sent : Nat, offset : Nat, stop : BOOLEAN]

(* The bytes counted are those of the datagrams, full ones and the current *)
(* one, and within the budget.                                             *)
WithinBudget(s, budget) ==
    s \in FlightStates /\ s.sent = s.full + s.cur /\ s.sent <= budget /\ s.offset <= qhFlight

(* Sizes of packets and frames are natural numbers.                        *)
LEMMA PacketSizes ==
    ASSUME qhCid \in Nat
    PROVE  /\ \A p \in Nat, b \in BOOLEAN : QH!PacketOverhead(b, p) \in Nat
           /\ \A o \in Nat, l \in Nat : QH!CryptoFrameOverhead(o, l) \in Nat
           /\ \A a \in BOOLEAN : QH!Initial(a) \in Nat
<1>1. \A n \in Nat : QH!VarintLen(n) \in Nat
  BY DEF QH!VarintLen
<1>2. ASSUME NEW p \in Nat, NEW b \in BOOLEAN PROVE QH!PacketOverhead(b, p) \in Nat
  <2>1. 4 + p + QH!TagLen \in Nat /\ QH!TagLen = 16 /\ QH!ScidLen = 8
    BY DEF QH!TagLen, QH!ScidLen
  <2>2. QH!VarintLen(4 + p + QH!TagLen) \in Nat
    BY <1>1, <2>1
  <2> DEFINE v == QH!VarintLen(4 + p + QH!TagLen)
             i == IF b THEN 1 ELSE 0
  <2>3. QH!PacketOverhead(b, p) = 1 + 4 + 1 + qhCid + 1 + 8 + i + v + 4 + 16
    BY <2>1 DEF QH!PacketOverhead
  <2>4. v \in Nat /\ i \in Nat
    BY <2>2
  <2> HIDE DEF v, i
  <2> QED BY <2>3, <2>4
<1>3. ASSUME NEW o \in Nat, NEW l \in Nat PROVE QH!CryptoFrameOverhead(o, l) \in Nat
  BY <1>1 DEF QH!CryptoFrameOverhead
<1>4. ASSUME NEW a \in BOOLEAN PROVE QH!Initial(a) \in Nat
  <2>1. QH!InitialPayload(a) \in Nat
    <3>1. QH!ServerHello \in Nat /\ 0 \in Nat
      BY DEF QH!ServerHello
    <3>2. QH!CryptoFrameOverhead(0, QH!ServerHello) \in Nat
      BY <1>3, <3>1
    <3> QED BY <3>1, <3>2 DEF QH!InitialPayload, QH!AckFrame, QH!ConnectionCloseFrame
  <2> DEFINE x == QH!PacketOverhead(TRUE, QH!InitialPayload(a))
             y == QH!InitialPayload(a)
  <2>2. x \in Nat /\ y \in Nat
    BY <1>2, <2>1
  <2>3. QH!Initial(a) = x + y
    BY DEF QH!Initial
  <2> HIDE DEF x, y
  <2> QED BY <2>2, <2>3
<1> QED BY <1>2, <1>3, <1>4

(* A round keeps to the budget: it fills the current datagram only with a  *)
(* packet that fits, and takes no more than is left of the flight.         *)
LEMMA RoundWithinBudget ==
    ASSUME qhCid \in Nat, qhFlight \in Nat, NEW budget \in Nat, NEW s, WithinBudget(s, budget)
    PROVE  WithinBudget(QH!Round(s, budget), budget)
<1> DEFINE room == IF s.cur > QH!MaxDatagram THEN 0 ELSE QH!MaxDatagram - s.cur
           rest == qhFlight - s.offset
           header == QH!PacketOverhead(FALSE, 0)
           fixed == header + QH!CryptoFrameOverhead(s.offset, rest)
           take == IF room - fixed < rest THEN room - fixed ELSE rest
           frame == QH!CryptoFrameOverhead(s.offset, take) + take
           wrap == QH!PacketOverhead(FALSE, frame)
           packet == wrap + frame
           t == QH!Round(s, budget)
<1>0. s \in FlightStates /\ s.sent = s.full + s.cur /\ s.sent <= budget /\ s.offset <= qhFlight
  BY DEF WithinBudget
<1>1. s.full \in Nat /\ s.cur \in Nat /\ s.sent \in Nat /\ s.offset \in Nat /\ rest \in Nat
  BY <1>0 DEF FlightStates
<1>2. room \in Nat
  BY <1>1 DEF QH!MaxDatagram
<1>3. fixed \in Nat
  <2> HIDE DEF rest
  <2>1. QH!PacketOverhead(FALSE, 0) \in Nat /\ QH!CryptoFrameOverhead(s.offset, rest) \in Nat
    BY <1>1, PacketSizes
  <2> HIDE DEF header
  <2>2. header \in Nat
    BY <2>1 DEF header
  <2> QED BY <2>1, <2>2
<1>4. t = IF s.stop THEN s
          ELSE IF rest = 0 THEN [s EXCEPT !.stop = TRUE]
          ELSE IF room <= fixed + 32 THEN [s EXCEPT !.full = @ + s.cur, !.cur = 0]
          ELSE IF s.sent + packet > budget THEN [s EXCEPT !.stop = TRUE]
          ELSE [s EXCEPT !.cur = @ + packet, !.sent = @ + packet, !.offset = @ + take]
  BY DEF QH!Round, QH!Step
<1> SUFFICES WithinBudget(t, budget)
  OBVIOUS
<1> HIDE DEF room, rest, header, fixed, t
<1>5. ASSUME ~(room <= fixed + 32) PROVE take \in Nat /\ s.offset + take <= qhFlight /\ packet \in Nat
  <2>1. take \in Nat /\ s.offset + take <= qhFlight
    <3>1. rest = qhFlight - s.offset
      BY DEF rest
    <3> QED BY <1>1, <1>2, <1>3, <1>5, <3>1
  <2> HIDE DEF take
  <2>2. QH!CryptoFrameOverhead(s.offset, take) \in Nat
    BY <1>1, <2>1, PacketSizes
  <2>3. frame \in Nat
    BY <2>1, <2>2
  <2> HIDE DEF frame
  <2>4. wrap \in Nat
    BY <2>3, PacketSizes
  <2> HIDE DEF wrap
  <2> QED BY <2>1, <2>3, <2>4
<1> HIDE DEF take, frame, wrap, packet
<1>6. CASE t = s
  BY <1>6
<1>7. CASE t = [s EXCEPT !.stop = TRUE]
  BY <1>0, <1>7 DEF FlightStates, WithinBudget
<1>8. CASE t = [s EXCEPT !.full = @ + s.cur, !.cur = 0]
  <2> DEFINE f == s.full + s.cur
  <2>1. t = [s EXCEPT !.full = f, !.cur = 0] /\ f \in Nat
    BY <1>1, <1>8
  <2>s. s.sent = f
    BY <1>0
  <2> HIDE DEF f
  <2>2. t \in FlightStates /\ t.full = f /\ t.cur = 0 /\ t.sent = s.sent /\ t.offset = s.offset
    BY <1>0, <2>1 DEF FlightStates
  <2>3. t.sent = t.full + t.cur
    BY <2>1, <2>2, <2>s
  <2> QED BY <1>0, <2>2, <2>3 DEF WithinBudget
<1>9. CASE /\ t = [s EXCEPT !.cur = @ + packet, !.sent = @ + packet, !.offset = @ + take]
           /\ ~(room <= fixed + 32) /\ ~(s.sent + packet > budget)
  <2> DEFINE c == s.cur + packet
             n == s.sent + packet
             o == s.offset + take
  <2>1. t = [s EXCEPT !.cur = c, !.sent = n, !.offset = o]
    BY <1>9
  <2>2. c \in Nat /\ n \in Nat /\ o \in Nat /\ n <= budget /\ o <= qhFlight /\ n = s.full + c
    BY <1>0, <1>1, <1>5, <1>9
  <2> HIDE DEF c, n, o
  <2>3. t \in FlightStates /\ t.full = s.full /\ t.cur = c /\ t.sent = n /\ t.offset = o
    BY <1>0, <2>1, <2>2 DEF FlightStates
  <2> QED BY <2>2, <2>3 DEF WithinBudget
<1>10. \/ t = s \/ t = [s EXCEPT !.stop = TRUE] \/ t = [s EXCEPT !.full = @ + s.cur, !.cur = 0]
       \/ /\ t = [s EXCEPT !.cur = @ + packet, !.sent = @ + packet, !.offset = @ + take]
          /\ ~(room <= fixed + 32) /\ ~(s.sent + packet > budget)
  BY <1>4
<1> QED BY <1>6, <1>7, <1>8, <1>9, <1>10

(* r holds the states of the loop, round by round.                         *)
Loops(r, first, budget, m) ==
    /\ r = [i \in 0..m |-> r[i]] /\ r[0] = first
    /\ \A i \in 1..m : r[i] = QH!Round(r[i - 1], budget)

(* The loop runs for any number of rounds: the least number it cannot is   *)
(* neither zero nor one more than another.                                 *)
LEMMA LoopExists ==
    ASSUME NEW m \in Nat, NEW first, NEW budget
    PROVE  \E r : Loops(r, first, budget, m)
<1> DEFINE T == {k \in 0..m : ~\E r : Loops(r, first, budget, k)}
<1>1. ASSUME T # {} PROVE FALSE
  <2>0. T \in SUBSET Nat
    OBVIOUS
  <2>1. PICK k \in T : \A j \in T : k <= j
    <3> HIDE DEF T
    <3> QED BY <1>1, <2>0, NatHasLeast
  <2>2. k \in 0..m /\ ~\E r : Loops(r, first, budget, k)
    OBVIOUS
  <2>3. CASE k = 0
    <3>1. Loops([i \in 0..0 |-> first], first, budget, 0)
      BY DEF Loops
    <3> QED BY <2>2, <2>3, <3>1
  <2>4. CASE k > 0
    <3>1. k - 1 \in 0..m /\ k - 1 \notin T
      BY <2>1, <2>2, <2>4
    <3>2. PICK r : Loops(r, first, budget, k - 1)
      BY <3>1
    <3> DEFINE h == [i \in 0..k |-> IF i = k THEN QH!Round(r[k - 1], budget) ELSE r[i]]
    <3>3. Loops(h, first, budget, k)
      <4>1. r[0] = first /\ \A i \in 1..(k - 1) : r[i] = QH!Round(r[i - 1], budget)
        BY <3>2 DEF Loops
      <4>2. k \in Nat /\ 0 \in 0..k /\ 0 # k
        BY <2>2, <2>4
      <4>3. h[0] = first /\ h = [i \in 0..k |-> h[i]]
        BY <4>1, <4>2
      <4>4. ASSUME NEW i \in 1..k PROVE h[i] = QH!Round(h[i - 1], budget)
        <5>1. i \in 0..k /\ i - 1 \in 0..k /\ i - 1 # k
          BY <4>2
        <5>2. CASE i = k
          BY <5>1, <5>2
        <5>3. CASE i # k
          BY <4>1, <4>2, <5>1, <5>3
        <5> QED BY <5>2, <5>3
      <4> HIDE DEF h
      <4> QED BY <4>3, <4>4 DEF Loops
    <3> QED BY <2>2, <3>3
  <2> QED BY <2>2, <2>3, <2>4
<1>2. m \in 0..m
  OBVIOUS
<1> QED BY <1>1, <1>2

(* So the whole loop keeps to the budget, by the least round that does     *)
(* not.                                                                    *)
LEMMA LoopWithinBudget ==
    ASSUME qhCid \in Nat, qhFlight \in Nat, NEW budget \in Nat, NEW first, WithinBudget(first, budget),
           NEW m \in Nat, NEW r, Loops(r, first, budget, m)
    PROVE  WithinBudget(r[m], budget)
<1> DEFINE T == {k \in 0..m : ~WithinBudget(r[k], budget)}
<1>1. ASSUME T # {} PROVE FALSE
  <2>0. T \in SUBSET Nat
    OBVIOUS
  <2>1. PICK k \in T : \A j \in T : k <= j
    <3> HIDE DEF T
    <3> QED BY <1>1, <2>0, NatHasLeast
  <2>2. k \in 0..m /\ ~WithinBudget(r[k], budget)
    OBVIOUS
  <2>3. k # 0
    BY <2>2 DEF Loops
  <2>4. k - 1 \in 0..m /\ k - 1 \notin T /\ k \in 1..m
    BY <2>1, <2>2, <2>3
  <2>5. WithinBudget(r[k - 1], budget)
    BY <2>4
  <2>6. r[k] = QH!Round(r[k - 1], budget)
    BY <2>4 DEF Loops
  <2> HIDE DEF T
  <2> QED BY <2>2, <2>5, <2>6, RoundWithinBudget
<1>2. m \in 0..m
  OBVIOUS
<1> QED BY <1>1, <1>2

(* assemble returns at most the budget it was given.                       *)
LEMMA AssembleWithinBudget ==
    ASSUME qhCid \in Nat, qhFlight \in Nat, NEW budget \in Nat, NEW alert \in BOOLEAN
    PROVE  QH!Assemble(alert, budget) \in Nat /\ QH!Assemble(alert, budget) <= budget
<1> DEFINE first == QH!Start(alert)
           run == CHOOSE f : f = [i \in 0..QH!Rounds |-> IF i = 0 THEN first ELSE QH!Round(f[i - 1], budget)]
           end == IF alert THEN first ELSE run[QH!Rounds]
<1>1. QH!Assemble(alert, budget) = IF QH!Initial(alert) > budget THEN 0 ELSE end.full + end.cur
  BY DEF QH!Assemble
<1>2. QH!Rounds \in Nat
  BY DEF QH!Rounds
<1>3. QH!Initial(alert) \in Nat
  BY PacketSizes
<1>4. CASE QH!Initial(alert) > budget
  BY <1>1, <1>4
<1>5. CASE ~(QH!Initial(alert) > budget)
  <2>1. WithinBudget(first, budget)
    BY <1>3, <1>5 DEF WithinBudget, FlightStates, QH!Start
  <2> HIDE DEF first
  <2>2. PICK r : Loops(r, first, budget, QH!Rounds)
    BY <1>2, LoopExists
  <2>3. \A i \in 0..QH!Rounds : i # 0 => i \in 1..QH!Rounds
    BY <1>2
  <2>4. r = [i \in 0..QH!Rounds |-> IF i = 0 THEN first ELSE QH!Round(r[i - 1], budget)]
    BY <2>2, <2>3 DEF Loops
  <2>5. run = [i \in 0..QH!Rounds |-> IF i = 0 THEN first ELSE QH!Round(run[i - 1], budget)]
    BY <2>4
  <2> HIDE DEF run
  <2>6. Loops(run, first, budget, QH!Rounds)
    <3>1. 0 \in 0..QH!Rounds /\ \A i \in 1..QH!Rounds : i \in 0..QH!Rounds /\ i # 0
      BY <1>2
    <3> QED BY <2>5, <3>1 DEF Loops
  <2>7. WithinBudget(run[QH!Rounds], budget)
    BY <1>2, <2>1, <2>6, LoopWithinBudget
  <2>8. WithinBudget(end, budget)
    BY <2>1, <2>7
  <2> HIDE DEF end
  <2>9. end.full \in Nat /\ end.cur \in Nat /\ end.full + end.cur <= budget
    BY <2>8 DEF WithinBudget, FlightStates
  <2> QED BY <1>1, <1>5, <2>9
<1> QED BY <1>4, <1>5

(* What is pending of a connection; S is what its ranges are drawn from.   *)
QhPendings(S) == [received : S, bytes : Nat, age : Int]

(* The types of the pending connections and the byte counts.               *)
AmplTypeOK ==
    /\ qhFlight \in Nat /\ qhCid \in Nat
    /\ \E S : qhPend \in [QhConns -> QhPendings(S)]
    /\ qhGot \in [QhConns -> Nat] /\ qhSent \in [QhConns -> Nat]

(* The inductive invariant: what was sent, and three times what is still   *)
(* pending, is covered by what was received; an expired or refused         *)
(* connection gives up its credit.                                         *)
AmplInv == AmplTypeOK /\ \A k \in QhConns : qhSent[k] + 3 * qhPend[k].bytes <= 3 * qhGot[k]

(* Expiry lowers what is pending.                                          *)
LEMMA PendingUpdates ==
    ASSUME NEW S, NEW pend \in [QhConns -> QhPendings(S)]
    PROVE  \E T : /\ S \subseteq T /\ QH!NoPending \in QhPendings(T) /\ QhPendings(S) \subseteq QhPendings(T)
                  /\ QH!Expire(pend) \in [QhConns -> QhPendings(T)]
                  /\ \A k \in QhConns : QH!Expire(pend)[k].bytes <= pend[k].bytes
<1> DEFINE T == S \cup {<<>>}
<1>1. S \subseteq T /\ <<>> \in T
  OBVIOUS
<1> HIDE DEF T
<1>2. QhPendings(S) \subseteq QhPendings(T)
  BY <1>1 DEF QhPendings
<1>3. QH!NoPending \in QhPendings(T) /\ QH!NoPending.bytes = 0
  BY <1>1 DEF QH!NoPending, QhPendings
<1>4. QH!Expire(pend) = [k \in QhConns |-> IF pend[k].age >= QhTtl THEN QH!NoPending ELSE pend[k]]
  BY DEF QH!Expire
<1>5. QH!Expire(pend) \in [QhConns -> QhPendings(T)]
  BY <1>2, <1>3, <1>4
<1>6. ASSUME NEW k \in QhConns PROVE QH!Expire(pend)[k].bytes <= pend[k].bytes
  <2>1. QH!Expire(pend)[k] = QH!NoPending \/ QH!Expire(pend)[k] = pend[k]
    BY <1>4
  <2>2. pend[k].bytes \in Nat
    BY DEF QhPendings
  <2> QED BY <1>3, <2>1, <2>2
<1> QED BY <1>1, <1>2, <1>3, <1>5, <1>6

(* A step that sends and receives nothing, and adds nothing pending, keeps *)
(* AmplInv.                                                                *)
LEMMA SentCovered ==
    ASSUME AmplInv, UNCHANGED <<qhFlight, qhCid, qhGot, qhSent>>, NEW S, qhPend' \in [QhConns -> QhPendings(S)],
           \A k \in QhConns : qhPend'[k].bytes <= qhPend[k].bytes
    PROVE  AmplInv'
<1>1. ASSUME NEW k \in QhConns PROVE qhSent'[k] + 3 * qhPend'[k].bytes <= 3 * qhGot'[k]
  <2>1. /\ qhSent[k] + 3 * qhPend[k].bytes <= 3 * qhGot[k] /\ qhPend'[k].bytes <= qhPend[k].bytes
    BY DEF AmplInv
  <2>2. qhSent[k] \in Nat /\ qhPend[k].bytes \in Nat /\ qhGot[k] \in Nat /\ qhPend'[k].bytes \in Nat
    BY DEF AmplInv, AmplTypeOK, QhPendings
  <2> QED BY <2>1, <2>2
<1>2. AmplTypeOK'
  BY DEF AmplInv, AmplTypeOK
<1> QED BY <1>1, <1>2 DEF AmplInv

(* A client's datagram keeps AmplInv: refused, kept with its bytes, or     *)
(* answered within three times what is pending with it.                    *)
LEMMA DatagramCovered ==
    ASSUME QhSizes \subseteq Nat, AmplInv, NEW k \in QhConns, QH!HandleDatagram(k)
    PROVE  AmplInv'
<1>0. PICK S : qhPend \in [QhConns -> QhPendings(S)]
  BY DEF AmplInv, AmplTypeOK
<1> DEFINE pend == QH!Expire(qhPend)
           old == pend[k]
<1>1. PICK U : /\ S \subseteq U /\ QH!NoPending \in QhPendings(U) /\ pend \in [QhConns -> QhPendings(U)]
               /\ \A c \in QhConns : pend[c].bytes <= qhPend[c].bytes
  BY <1>0, PendingUpdates
<1> DEFINE Handled(size, alert, ranges, age) ==
               /\ qhGot' = [qhGot EXCEPT ![k] = @ + size]
               /\ \/ qhPend' = pend /\ UNCHANGED qhSent
                  \/ qhPend' = [pend EXCEPT ![k] = QH!NoPending] /\ UNCHANGED qhSent
                  \/ /\ qhPend' = [pend EXCEPT ![k] =
                           [received |-> ranges, bytes |-> old.bytes + size, age |-> age]]
                     /\ UNCHANGED qhSent
                  \/ /\ qhPend' = [pend EXCEPT ![k] = QH!NoPending]
                     /\ qhSent' = [qhSent EXCEPT ![k] =
                           @ + QH!Assemble(alert, QH!AmplificationLimit * (old.bytes + size))]
<1>h. PICK size \in QhSizes, alert \in BOOLEAN :
        \E ranges : \E age \in {old.age, 0} : Handled(size, alert, ranges, age)
  BY DEF QH!HandleDatagram, QH!SendQuicResponses
<1>r. PICK ranges : \E age \in {old.age, 0} : Handled(size, alert, ranges, age)
  BY <1>h
<1>2. PICK age \in {old.age, 0} : Handled(size, alert, ranges, age)
  BY <1>r
<1> HIDE DEF pend
<1>3. size \in Nat /\ UNCHANGED <<qhFlight, qhCid>> /\ qhFlight \in Nat /\ qhCid \in Nat
      /\ qhGot \in [QhConns -> Nat] /\ qhSent \in [QhConns -> Nat]
  BY DEF QH!HandleDatagram, AmplInv, AmplTypeOK
<1> DEFINE V == U \cup {ranges}
<1>4. U \subseteq V /\ ranges \in V
  OBVIOUS
<1> HIDE DEF V
<1>5. pend \in [QhConns -> QhPendings(V)] /\ QH!NoPending \in QhPendings(V) /\ QH!NoPending.bytes = 0
  BY <1>1, <1>4 DEF QhPendings, QH!NoPending
<1>6. old.bytes \in Nat /\ old.age \in Int /\ old.bytes <= qhPend[k].bytes
  BY <1>1, <1>5 DEF QhPendings
<1> HIDE DEF old
<1>7. old.bytes + size \in Nat /\ age \in Int
  BY <1>2, <1>3, <1>6
<1> DEFINE wait == [received |-> ranges, bytes |-> old.bytes + size, age |-> age]
<1>8. wait \in QhPendings(V) /\ wait.bytes = old.bytes + size
  BY <1>4, <1>7 DEF QhPendings
<1> DEFINE limit == 3 * (old.bytes + size)
           out == QH!Assemble(alert, limit)
<1>9. limit \in Nat /\ QH!AmplificationLimit * (old.bytes + size) = limit
  BY <1>7 DEF QH!AmplificationLimit
<1>10. out \in Nat /\ out <= limit
  <2> HIDE DEF limit
  <2> QED BY <1>3, <1>9, AssembleWithinBudget
<1>11. \/ qhPend' = pend /\ UNCHANGED qhSent
       \/ qhPend' = [pend EXCEPT ![k] = QH!NoPending] /\ UNCHANGED qhSent
       \/ qhPend' = [pend EXCEPT ![k] = wait] /\ UNCHANGED qhSent
       \/ qhPend' = [pend EXCEPT ![k] = QH!NoPending] /\ qhSent' = [qhSent EXCEPT ![k] = @ + out]
  BY <1>2, <1>9
<1> HIDE DEF wait, out
<1>12. qhPend' \in [QhConns -> QhPendings(V)] /\ \A c \in QhConns : c # k => qhPend'[c] = pend[c]
  BY <1>5, <1>8, <1>11
<1>13. /\ qhGot' \in [QhConns -> Nat] /\ qhGot'[k] = qhGot[k] + size
       /\ \A c \in QhConns : c # k => qhGot'[c] = qhGot[c]
  BY <1>2, <1>3
<1>14. qhSent' \in [QhConns -> Nat] /\ \A c \in QhConns : c # k => qhSent'[c] = qhSent[c]
  BY <1>3, <1>10, <1>11
<1>15. AmplTypeOK'
  BY <1>3, <1>12, <1>13, <1>14 DEF AmplTypeOK
<1>16. ASSUME NEW c \in QhConns, c # k PROVE qhSent'[c] + 3 * qhPend'[c].bytes <= 3 * qhGot'[c]
  <2>1. qhSent[c] + 3 * qhPend[c].bytes <= 3 * qhGot[c] /\ pend[c].bytes <= qhPend[c].bytes
    BY <1>1 DEF AmplInv
  <2>2. qhSent[c] \in Nat /\ qhGot[c] \in Nat /\ pend[c].bytes \in Nat /\ qhPend[c].bytes \in Nat
    BY <1>0, <1>3, <1>5 DEF QhPendings
  <2>3. qhSent[c] + 3 * pend[c].bytes <= 3 * qhGot[c]
    BY <2>1, <2>2
  <2> QED BY <1>12, <1>13, <1>14, <1>16, <2>3
<1>17. qhSent'[k] + 3 * qhPend'[k].bytes <= 3 * qhGot'[k]
  <2>1. qhSent[k] + 3 * qhPend[k].bytes <= 3 * qhGot[k]
    BY DEF AmplInv
  <2>2. qhSent[k] \in Nat /\ qhGot[k] \in Nat /\ qhPend[k].bytes \in Nat
    BY <1>0, <1>3 DEF QhPendings
  <2>3. \/ qhPend'[k].bytes = old.bytes /\ qhSent'[k] = qhSent[k]
        \/ qhPend'[k].bytes = 0 /\ qhSent'[k] = qhSent[k]
        \/ qhPend'[k].bytes = old.bytes + size /\ qhSent'[k] = qhSent[k]
        \/ qhPend'[k].bytes = 0 /\ qhSent'[k] = qhSent[k] + out
    BY <1>3, <1>5, <1>8, <1>11 DEF old
  <2>4. out <= 3 * (old.bytes + size)
    BY <1>10
  <2> HIDE DEF limit
  <2> QED BY <1>3, <1>6, <1>10, <1>13, <2>1, <2>2, <2>3, <2>4
<1> QED BY <1>15, <1>16, <1>17 DEF AmplInv

(* An address that has not proved itself gets at most three times the      *)
(* bytes it sent, however its ClientHello is split, repeated, dropped and  *)
(* sent again (try_handle, assemble, expire).                              *)
THEOREM StrangersGetThreefold ==
    ASSUME QhSizes \subseteq Nat, QhFlights \subseteq Nat, QhCids \subseteq Nat
    PROVE  QH!Spec => []AmplificationBound
<1>1. QH!Init => AmplInv
  <2> SUFFICES ASSUME QH!Init PROVE AmplInv
    OBVIOUS
  <2>1. /\ qhPend = [k \in QhConns |-> QH!NoPending] /\ qhGot = [k \in QhConns |-> 0]
        /\ qhSent = [k \in QhConns |-> 0] /\ qhFlight \in Nat /\ qhCid \in Nat
    BY DEF QH!Init
  <2>2. QH!NoPending \in QhPendings({<<>>}) /\ QH!NoPending.bytes = 0
    BY DEF QH!NoPending, QhPendings
  <2>3. AmplTypeOK
    BY <2>1, <2>2 DEF AmplTypeOK
  <2> QED BY <2>1, <2>2, <2>3 DEF AmplInv
<1>2. AmplInv /\ [QH!Next]_(QH!vars) => AmplInv'
  <2> SUFFICES ASSUME AmplInv, [QH!Next]_(QH!vars) PROVE AmplInv'
    OBVIOUS
  <2>0. PICK S : qhPend \in [QhConns -> QhPendings(S)]
    BY DEF AmplInv, AmplTypeOK
  <2>n. \A k \in QhConns : qhPend[k].bytes <= qhPend[k].bytes
    BY <2>0 DEF QhPendings
  <2>1. CASE UNCHANGED QH!vars
    BY <2>0, <2>1, <2>n, SentCovered DEF QH!vars
  <2>2. ASSUME NEW k \in QhConns, QH!HandleDatagram(k) PROVE AmplInv'
    BY <2>2, DatagramCovered
  <2>3. CASE QH!HandleTimeouts
    <3>1. qhPend' = QH!Expire(qhPend) /\ UNCHANGED <<qhFlight, qhCid, qhGot, qhSent>>
      BY <2>3 DEF QH!HandleTimeouts
    <3>2. PICK T : /\ QH!Expire(qhPend) \in [QhConns -> QhPendings(T)]
                   /\ \A k \in QhConns : QH!Expire(qhPend)[k].bytes <= qhPend[k].bytes
      BY <2>0, PendingUpdates
    <3> QED BY <3>1, <3>2, SentCovered
  <2>4. CASE QH!Tick
    <3>1. /\ UNCHANGED <<qhFlight, qhCid, qhGot, qhSent>>
          /\ qhPend' = [k \in QhConns |-> IF k \in QH!Pending /\ qhPend[k].age < QhTtl
                                          THEN [qhPend[k] EXCEPT !.age = @ + 1] ELSE qhPend[k]]
      BY <2>4 DEF QH!Tick
    <3>2. ASSUME NEW k \in QhConns
          PROVE  [qhPend[k] EXCEPT !.age = @ + 1] \in QhPendings(S)
                 /\ [qhPend[k] EXCEPT !.age = @ + 1].bytes = qhPend[k].bytes
      BY <2>0 DEF QhPendings
    <3>3. qhPend' \in [QhConns -> QhPendings(S)]
      BY <2>0, <3>1, <3>2
    <3>4. \A k \in QhConns : qhPend'[k].bytes = qhPend[k].bytes
      BY <3>1, <3>2
    <3>5. \A k \in QhConns : qhPend'[k].bytes <= qhPend[k].bytes
      BY <2>n, <3>4
    <3> QED BY <3>1, <3>3, <3>5, SentCovered
  <2> QED BY <2>1, <2>2, <2>3, <2>4 DEF QH!Next
<1>3. AmplInv => AmplificationBound
  <2> SUFFICES ASSUME AmplInv, NEW k \in QhConns PROVE qhSent[k] <= QH!AmplificationLimit * qhGot[k]
    BY DEF AmplificationBound, QH!AmplificationBound
  <2>1. qhSent[k] + 3 * qhPend[k].bytes <= 3 * qhGot[k]
    BY DEF AmplInv
  <2>2. qhSent[k] \in Nat /\ qhPend[k].bytes \in Nat /\ qhGot[k] \in Nat
    BY DEF AmplInv, AmplTypeOK, QhPendings
  <2> QED BY <2>1, <2>2 DEF QH!AmplificationLimit
<1> QED BY <1>1, <1>2, <1>3, PTL DEF QH!Spec

-----------------------------------------------------------------------------
(* Cover traffic: any paddings, payloads, names, hosts and CSeq lines, in  *)
(* datagrams UDP can carry.                                                *)

(* Lengths are naturals, and a padded message fits a UDP datagram.         *)
CoverSetting ==
    /\ CtPads \subseteq Nat /\ CtLong \subseteq Nat /\ CtPayloads \subseteq Nat
    /\ CtNames \subseteq Nat /\ CtHosts \subseteq Nat /\ CtSeqs \subseteq Nat
    /\ \A p \in CtPads \cup CtLong, n \in CtPayloads \cup {148} : p + n <= CT!MaxDatagram

(* The number of decimal digits of a number below 100000.                  *)
DigitsOf(v) == IF v < 10 THEN 1 ELSE IF v < 100 THEN 2 ELSE IF v < 1000 THEN 3 ELSE IF v < 10000 THEN 4 ELSE 5

(* decimal_digits, which divides by ten until one digit is left, counts    *)
(* them.                                                                   *)
LEMMA DigitsCounted ==
    ASSUME NEW v \in Nat, v <= CT!MaxDatagram
    PROVE  CT!DecimalDigits(v) = DigitsOf(v)
<1> DEFINE g == [x \in 0..CT!MaxDatagram |-> DigitsOf(x)]
           Step(f, x) == IF x >= 10 THEN f[x \div 10] + 1 ELSE 1
           Def(f) == f = [x \in 0..CT!MaxDatagram |-> Step(f, x)]
           d == CHOOSE f : Def(f)
<1>0. CT!MaxDatagram \in Nat /\ CT!MaxDatagram = 65535
  BY DEF CT!MaxDatagram
<1>5. CT!DecimalDigits(v) = d[v]
  BY DEF CT!DecimalDigits
<1>d. CT!MaxDatagram \in Nat /\ CT!MaxDatagram < 100000 /\ v <= CT!MaxDatagram
  BY <1>0
<1>a. CT!MaxDatagram \in Nat /\ CT!MaxDatagram < 100000 /\ v \in 0..CT!MaxDatagram
  BY <1>d
<1>b. ASSUME NEW x \in Nat PROVE x \div 10 \in Nat /\ 10 * (x \div 10) <= x /\ x < 10 * (x \div 10) + 10
  OBVIOUS
<1>c. ASSUME NEW x \in Nat, NEW q \in Nat, 10 * q <= x, x < 10 * q + 10, x < 100000, x >= 10
      PROVE  q <= x /\ DigitsOf(x) = DigitsOf(q) + 1
  BY <1>c DEF DigitsOf
<1>1. \A x \in 0..CT!MaxDatagram : x >= 10 => x \div 10 \in 0..CT!MaxDatagram /\ DigitsOf(x) = DigitsOf(x \div 10) + 1
  <2> SUFFICES ASSUME NEW x \in 0..CT!MaxDatagram, x >= 10
               PROVE  x \div 10 \in 0..CT!MaxDatagram /\ DigitsOf(x) = DigitsOf(x \div 10) + 1
    OBVIOUS
  <2> DEFINE q == x \div 10
  <2>1. x \in Nat /\ x <= CT!MaxDatagram /\ x < 100000
    BY <1>a
  <2>2. q \in Nat /\ 10 * q <= x /\ x < 10 * q + 10
    BY <1>b, <2>1
  <2> HIDE DEF q
  <2>3. q <= x /\ DigitsOf(x) = DigitsOf(q) + 1
    BY <1>c, <2>1, <2>2
  <2>4. q \in 0..CT!MaxDatagram
    BY <1>a, <2>1, <2>2, <2>3
  <2> QED BY <2>3, <2>4 DEF q
<1>2. \A x \in 0..CT!MaxDatagram : ~(x >= 10) => DigitsOf(x) = 1
  BY <1>a DEF DigitsOf
<1>3. Def(g)
  BY <1>1, <1>2
<1>4. Def(d)
  <2> HIDE DEF Def, g, Step
  <2> QED BY <1>3, Zenon
<1> HIDE DEF d
<1>f. \A x \in 0..CT!MaxDatagram : d[x] = Step(d, x)
  <2> HIDE DEF Step
  <2> QED BY <1>4
<1>6. \A x \in 0..CT!MaxDatagram : d[x] = IF x >= 10 THEN d[x \div 10] + 1 ELSE 1
  BY <1>f
<1>7. ASSUME NEW x \in 0..CT!MaxDatagram, x < 10 PROVE d[x] = 1
  BY <1>6, <1>7, <1>a
<1>e. ASSUME NEW x \in 0..CT!MaxDatagram, x >= 10
      PROVE  /\ d[x] = d[x \div 10] + 1 /\ x \div 10 \in 0..CT!MaxDatagram
             /\ 10 * (x \div 10) <= x /\ x < 10 * (x \div 10) + 10
  BY <1>6, <1>1, <1>b, <1>a, <1>e
<1>8. ASSUME NEW x \in 0..CT!MaxDatagram, 10 <= x, x < 100 PROVE d[x] = 2
  <2> DEFINE q == x \div 10
  <2>1. d[x] = d[q] + 1 /\ q \in 0..CT!MaxDatagram /\ 10 * q <= x /\ x < 10 * q + 10
    BY <1>e, <1>8, <1>a
  <2> HIDE DEF q
  <2> QED BY <1>7, <1>8, <2>1, <1>a
<1>9. ASSUME NEW x \in 0..CT!MaxDatagram, 100 <= x, x < 1000 PROVE d[x] = 3
  <2> DEFINE q == x \div 10
  <2>1. d[x] = d[q] + 1 /\ q \in 0..CT!MaxDatagram /\ 10 * q <= x /\ x < 10 * q + 10
    BY <1>e, <1>9, <1>a
  <2> HIDE DEF q
  <2> QED BY <1>8, <1>9, <2>1, <1>a
<1>10. ASSUME NEW x \in 0..CT!MaxDatagram, 1000 <= x, x < 10000 PROVE d[x] = 4
  <2> DEFINE q == x \div 10
  <2>1. d[x] = d[q] + 1 /\ q \in 0..CT!MaxDatagram /\ 10 * q <= x /\ x < 10 * q + 10
    BY <1>e, <1>10, <1>a
  <2> HIDE DEF q
  <2> QED BY <1>9, <1>10, <2>1, <1>a
<1>11. ASSUME NEW x \in 0..CT!MaxDatagram, 10000 <= x PROVE d[x] = 5
  <2> DEFINE q == x \div 10
  <2>1. d[x] = d[q] + 1 /\ q \in 0..CT!MaxDatagram /\ 10 * q <= x /\ x < 10 * q + 10
    BY <1>e, <1>11, <1>a
  <2> HIDE DEF q
  <2> QED BY <1>10, <1>11, <2>1, <1>a
<1>12. v < 10 \/ (10 <= v /\ v < 100) \/ (100 <= v /\ v < 1000) \/ (1000 <= v /\ v < 10000) \/ 10000 <= v
  OBVIOUS
<1> QED BY <1>5, <1>7, <1>8, <1>9, <1>10, <1>11, <1>12, <1>a DEF DigitsOf

(* The positions after each of a response's five mandatory lines are       *)
(* naturals.                                                               *)
LEMMA LinesEnd ==
    ASSUME NEW p \in Nat, NEW lines, Len(lines) = 5, \A i \in 1..5 : lines[i] \in Nat
    PROVE  CT!After(p, lines, 0) = p /\ \A n \in 0..5 : CT!After(p, lines, n) \in Nat
<1> DEFINE a1 == p + lines[1]
           a2 == a1 + lines[2]
           a3 == a2 + lines[3]
           a4 == a3 + lines[4]
           a5 == a4 + lines[5]
           g == [i \in 0..5 |-> IF i = 0 THEN p ELSE IF i = 1 THEN a1 ELSE IF i = 2 THEN a2
                                ELSE IF i = 3 THEN a3 ELSE IF i = 4 THEN a4 ELSE a5]
           Def(f) == f = [i \in 0..5 |-> IF i = 0 THEN p ELSE f[i - 1] + lines[i]]
           e == CHOOSE f : Def(f)
<1>1. \A i \in 0..5 : i = 0 \/ i = 1 \/ i = 2 \/ i = 3 \/ i = 4 \/ i = 5
  OBVIOUS
<1>2. g[0] = p /\ g[1] = a1 /\ g[2] = a2 /\ g[3] = a3 /\ g[4] = a4 /\ g[5] = a5
  OBVIOUS
<1>3. \A i \in 0..5 : g[i] = IF i = 0 THEN p ELSE g[i - 1] + lines[i]
  <2> HIDE DEF g
  <2> QED BY <1>1, <1>2
<1>4. g = [i \in 0..5 |-> g[i]]
  OBVIOUS
<1>5. Def(g)
  <2> HIDE DEF g
  <2> QED BY <1>3, <1>4
<1>6. Def(e)
  <2> HIDE DEF Def, g
  <2> QED BY <1>5, Zenon
<1>7. \A n \in 0..5 : CT!After(p, lines, n) = e[n]
  BY DEF CT!After
<1> HIDE DEF e
<1>8. \A i \in 0..5 : e[i] = IF i = 0 THEN p ELSE e[i - 1] + lines[i]
  BY <1>6
<1>9. e[0] = p /\ e[1] = e[0] + lines[1] /\ e[2] = e[1] + lines[2] /\ e[3] = e[2] + lines[3]
      /\ e[4] = e[3] + lines[4] /\ e[5] = e[4] + lines[5]
  BY <1>8
<1>10. lines[1] \in Nat /\ lines[2] \in Nat /\ lines[3] \in Nat /\ lines[4] \in Nat /\ lines[5] \in Nat
  OBVIOUS
<1>11. e[0] \in Nat /\ e[1] \in Nat /\ e[2] \in Nat /\ e[3] \in Nat /\ e[4] \in Nat /\ e[5] \in Nat
  BY <1>9, <1>10
<1> QED BY <1>1, <1>7, <1>9, <1>11

(* A Content-Length that counts its own digits: with one or two spaces     *)
(* after the colon some number of digits is right. As the line grows by a  *)
(* digit the value shrinks by one, so its own digits meet the number, or   *)
(* step over it at a power of ten, where the second space makes up for it. *)
LEMMA LengthSolvable ==
    ASSUME NEW total \in Nat, total <= CT!MaxDatagram, NEW p \in Nat, NEW len \in Nat, len < total,
           p + 2 + DigitsOf(total) <= len
    PROVE  \E w \in 1..2, k \in 1..DigitsOf(total) :
              p + w + k <= len /\ DigitsOf(total - (p + w + k)) = k
<1> DEFINE D == DigitsOf(total)
<1> SUFFICES ASSUME \A w \in 1..2, k \in 1..D : ~(p + w + k <= len /\ DigitsOf(total - (p + w + k)) = k)
             PROVE  FALSE
  OBVIOUS
<1>1. D \in 1..5
  BY DEF DigitsOf
<1>2. \A w \in 1..2, k \in 1..D : p + w + k <= len
  <2> HIDE DEF D
  <2>1. p + 2 + D <= len
    BY DEF D
  <2> QED BY <1>1, <2>1
<1>3. \A w \in 1..2, k \in 1..D : DigitsOf(total - (p + w + k)) # k
  <2> HIDE DEF D
  <2> QED BY <1>2
<1> DEFINE N(x, k) == DigitsOf(total - (p + x)) # k
<1>4. \A k \in 1..D : N(1 + k, k) /\ N(2 + k, k)
  <2> HIDE DEF D
  <2>1. \A k \in 1..D : p + 1 + k = p + (1 + k) /\ p + 2 + k = p + (2 + k)
    BY <1>1
  <2> QED BY <1>3, <2>1
<1> DEFINE B == total - p
<1>5. B \in Nat /\ B > 2 + D
  <2>1. p + 2 + D <= len
    OBVIOUS
  <2> HIDE DEF D
  <2> QED BY <1>1, <2>1
<1>6. \A x \in Nat : total - (p + x) = B - x
  OBVIOUS
<1>7. B <= total
  OBVIOUS
<1> DEFINE M(x, k) == DigitsOf(B - x) # k
<1>8. \A k \in 1..D : M(1 + k, k) /\ M(2 + k, k)
  <2>1. \A k \in 1..D : 1 + k \in Nat /\ 2 + k \in Nat
    <3> HIDE DEF D
    <3> QED BY <1>1
  <2> HIDE DEF D, B
  <2> QED BY <1>4, <1>6, <2>1
<1>9. D >= 1 => M(2, 1) /\ M(3, 1)
  <2> HIDE DEF D, B, M
  <2> QED BY <1>1, <1>8
<1>10. D >= 2 => M(3, 2) /\ M(4, 2)
  <2> HIDE DEF D, B, M
  <2> QED BY <1>1, <1>8
<1>11. D >= 3 => M(4, 3) /\ M(5, 3)
  <2> HIDE DEF D, B, M
  <2> QED BY <1>1, <1>8
<1>12. D >= 4 => M(5, 4) /\ M(6, 4)
  <2> HIDE DEF D, B, M
  <2> QED BY <1>1, <1>8
<1>13. D >= 5 => M(6, 5) /\ M(7, 5)
  <2> HIDE DEF D, B, M
  <2> QED BY <1>1, <1>8
<1>14. total \in Nat /\ total <= 65535
  BY DEF CT!MaxDatagram
<1>15. D = DigitsOf(total)
  OBVIOUS
<1> HIDE DEF B, D
<1> QED BY <1>1, <1>5, <1>7, <1>9, <1>10, <1>11, <1>12, <1>13, <1>14, <1>15 DEF DigitsOf

(* A DNS prefix is written within the padding, and its record and its      *)
(* option end where the datagram does.                                     *)
LEMMA DnsFramed ==
    ASSUME NEW pad \in Nat, NEW total \in Nat, NEW qname \in Nat, pad < total, total <= CT!MaxDatagram,
           NEW c, c = CT!ApplyDnsPadding(pad, total, qname)
    PROVE  /\ c.frame = "dns" /\ c.written <= pad
           /\ pad >= 28 => c.covers = total
           /\ pad >= 32 => c.option = total
<1>0. total <= 65535
  BY DEF CT!MaxDatagram
<1>1. CASE pad < 32
  <2>1. c = CT!DnsNull(pad, total)
    BY <1>1 DEF CT!ApplyDnsPadding
  <2>2. /\ c.frame = "dns" /\ c.covers = (IF pad >= 28 THEN 28 + (total - 28) ELSE 0)
        /\ c.written = CT!Lesser(pad, IF pad >= 28 THEN 28 ELSE IF pad >= 17 THEN 17 ELSE 12)
    BY <2>1 DEF CT!DnsNull
  <2>3. c.written <= pad
    BY <2>2 DEF CT!Lesser
  <2> QED BY <1>1, <2>2, <2>3
<1>2. CASE ~(pad < 32)
  <2> DEFINE q == IF CT!EchoFits(pad, qname) THEN qname + 4 ELSE 5
             at == 12 + q + 11
  <2>1. c = CT!DnsOpt(total, q)
    BY <1>2 DEF CT!ApplyDnsPadding
  <2>2. q \in Nat /\ 12 + q + 11 + 4 <= pad
    BY <1>2 DEF CT!EchoFits
  <2> HIDE DEF q
  <2>3. /\ c.frame = "dns" /\ c.written = at + 4 /\ c.covers = at + CT!Lesser(total - at, 65535)
        /\ c.option = (at + 4) + CT!Lesser(total - at - 4, 65535)
    BY <2>1 DEF CT!DnsOpt
  <2>4. at \in Nat /\ at + 4 <= pad
    BY <2>2
  <2> HIDE DEF at
  <2>5. CT!Lesser(total - at, 65535) = total - at /\ CT!Lesser(total - at - 4, 65535) = total - at - 4
    BY <1>0, <2>4 DEF CT!Lesser
  <2> QED BY <2>3, <2>4, <2>5
<1> QED BY <1>1, <1>2

(* A STUN prefix advertises whole words that end within the padding.       *)
LEMMA StunFramed ==
    ASSUME NEW pad \in Nat, NEW c, c = CT!ApplyStunPadding(pad)
    PROVE  c.frame = "stun" /\ c.length % 4 = 0 /\ 20 + c.length <= CT!Max({pad, 20})
<1> DEFINE q == IF pad > 20 THEN (pad - 20) \div 4 ELSE 0
           mapped == IF CT!StunBody(pad) >= 12 THEN 12 ELSE 0
           rest == CT!StunBody(pad) - mapped
           software == IF rest >= 4 THEN 4 + CT!Lesser(rest - 4, 124) ELSE 0
<1>1. q \in Nat /\ (pad > 20 => 20 + q * 4 <= pad) /\ (~(pad > 20) => q = 0)
  OBVIOUS
<1>2. CT!StunBody(pad) = q * 4
  BY DEF CT!StunBody
<1>3. c.frame = "stun" /\ c.length = mapped + software
  BY DEF CT!ApplyStunPadding
<1> HIDE DEF q
<1>4. \E k \in Nat : mapped + software = 4 * k /\ k <= q
  <2>1. CASE q < 3
    <3>1. mapped = 0 /\ rest = q * 4
      BY <1>1, <1>2, <2>1
    <3>2. software = q * 4
      <4> HIDE DEF rest
      <4> QED BY <1>1, <2>1, <3>1 DEF CT!Lesser
    <3> HIDE DEF mapped, software
    <3>3. mapped + software = 4 * q
      BY <1>1, <3>1, <3>2
    <3> QED BY <1>1, <3>3
  <2>2. CASE q >= 3
    <3>1. mapped = 12 /\ rest = q * 4 - 12
      BY <1>1, <1>2, <2>2
    <3>2. CASE q <= 35
      <4>1. software = q * 4 - 12
        <5> HIDE DEF rest
        <5> QED BY <1>1, <2>2, <3>1, <3>2 DEF CT!Lesser
      <4> HIDE DEF mapped, software
      <4>2. mapped + software = 4 * q
        BY <1>1, <3>1, <4>1
      <4> QED BY <1>1, <4>2
    <3>3. CASE q > 35
      <4>1. software = 128
        <5> HIDE DEF rest
        <5> QED BY <1>1, <2>2, <3>1, <3>3 DEF CT!Lesser
      <4> HIDE DEF mapped, software
      <4>2. mapped + software = 4 * 35 /\ 35 \in Nat /\ 35 <= q
        BY <1>1, <3>1, <3>3, <4>1
      <4> QED BY <4>2
    <3> QED BY <1>1, <3>2, <3>3
  <2> QED BY <1>1, <2>1, <2>2
<1>5. PICK k \in Nat : c.length = 4 * k /\ k <= q
  <2> HIDE DEF mapped, software
  <2> QED BY <1>3, <1>4
<1> DEFINE m == CT!Max({pad, 20})
<1>6. m \in {pad, 20} /\ \A y \in {pad, 20} : m >= y
  <2>1. \E x \in {pad, 20} : \A y \in {pad, 20} : x >= y
    <3>1. CASE pad >= 20
      BY <3>1
    <3>2. CASE ~(pad >= 20)
      BY <3>2
    <3> QED BY <3>1, <3>2
  <2> QED BY <2>1 DEF CT!Max
<1>7. m \in Nat /\ m >= pad /\ m >= 20
  <2> HIDE DEF m
  <2> QED BY <1>6
<1> HIDE DEF m
<1>8. 20 + 4 * k <= m
  BY <1>1, <1>5, <1>7
<1>9. (4 * k) % 4 = 0
  OBVIOUS
<1> QED BY <1>3, <1>5, <1>8, <1>9 DEF m

(* apply_sip_padding's search ends in a length that is the body's, and     *)
(* finds one whenever the longest candidate fits.                          *)
LEMMA LengthFound ==
    ASSUME NEW p \in Nat, NEW len \in Nat, NEW total \in Nat, len < total, total <= CT!MaxDatagram,
           NEW c, c = CT!SipBody(p, len, total)
    PROVE  /\ c.frame = "length" => c.end <= len /\ c.body = total - c.end
           /\ p + 15 + 2 + CT!DecimalDigits(total) + 4 <= len => c.frame = "length"
<1> DEFINE D == CT!DecimalDigits(total)
           end(w, k) == p + 15 + w + k + 4
           good == {x \in (1..2) \X (1..D) : /\ end(x[1], x[2]) <= len
                                            /\ CT!DecimalDigits(total - end(x[1], x[2])) = x[2]}
           Least(x) == \A y \in good : x[1] < y[1] \/ (x[1] = y[1] /\ x[2] <= y[2])
           best == CHOOSE x \in good : Least(x)
<1>1. D = DigitsOf(total) /\ D \in 1..5
  <2>1. D = DigitsOf(total)
    BY DigitsCounted
  <2> HIDE DEF D
  <2> QED BY <2>1 DEF DigitsOf
<1>2. c = IF good = {} THEN CT!Opaque ELSE [frame |-> "length", end |-> end(best[1], best[2]), body |-> total - end(best[1], best[2])]
  BY DEF CT!SipBody, CT!ContentLength
<1>3. CT!Opaque.frame = "none"
  BY DEF CT!Opaque
<1>4. ASSUME good # {} PROVE \E x \in good : Least(x)
  <2> DEFINE T == {10 * x[1] + x[2] : x \in good}
  <2>1. \A x \in good : x[1] \in 1..2 /\ x[2] \in 1..5
    <3> HIDE DEF D
    <3> QED BY <1>1
  <2> HIDE DEF good
  <2>2. T \in SUBSET Nat /\ T # {}
    BY <1>4, <2>1
  <2>3. PICK m \in T : \A y \in T : m <= y
    <3> HIDE DEF T
    <3> QED BY <2>2, NatHasLeast
  <2>4. PICK x \in good : m = 10 * x[1] + x[2]
    OBVIOUS
  <2>5. ASSUME NEW y \in good PROVE x[1] < y[1] \/ (x[1] = y[1] /\ x[2] <= y[2])
    <3>1. 10 * x[1] + x[2] <= 10 * y[1] + y[2]
      BY <2>3, <2>4
    <3>2. x[1] \in 1..2 /\ x[2] \in 1..5 /\ y[1] \in 1..2 /\ y[2] \in 1..5
      BY <2>1
    <3> QED BY <3>1, <3>2
  <2> QED BY <2>5
<1>5. ASSUME good # {} PROVE c.frame = "length" /\ c.end <= len /\ c.body = total - c.end
  <2>1. best \in good
    <3> HIDE DEF good, Least
    <3> QED BY <1>4, <1>5
  <2>2. end(best[1], best[2]) <= len
    <3> HIDE DEF best, end, D
    <3> QED BY <2>1
  <2> HIDE DEF best, end, good
  <2> QED BY <1>2, <1>5, <2>2
<1>6. ASSUME p + 15 + 2 + D + 4 <= len PROVE good # {}
  <2> DEFINE P == p + 19
  <2>1. P \in Nat /\ P + 2 + D <= len /\ \A w, k \in Nat : end(w, k) = P + w + k
    <3> HIDE DEF D
    <3> QED BY <1>1, <1>6
  <2> HIDE DEF P
  <2>2. PICK w \in 1..2, k \in 1..D : P + w + k <= len /\ DigitsOf(total - (P + w + k)) = k
    <3> HIDE DEF D
    <3> QED BY <1>1, <2>1, LengthSolvable
  <2>3. w \in Nat /\ k \in Nat /\ w \in 1..2 /\ k \in 1..D
    <3> HIDE DEF D
    <3> QED BY <1>1
  <2> DEFINE v == total - (P + w + k)
  <2>4. v \in Nat /\ v <= CT!MaxDatagram
    <3>1. total <= 65535
      BY DEF CT!MaxDatagram
    <3>2. v \in Nat /\ v <= 65535
      <4> HIDE DEF D
      <4> QED BY <2>1, <2>2, <2>3, <3>1
    <3> QED BY <3>2 DEF CT!MaxDatagram
  <2>5. CT!DecimalDigits(v) = k
    <3>1. CT!DecimalDigits(v) = DigitsOf(v)
      <4> HIDE DEF v
      <4> QED BY <2>4, DigitsCounted
    <3> QED BY <2>2, <3>1
  <2>6. end(w, k) = P + w + k
    BY <2>1, <2>3
  <2>7. end(w, k) <= len /\ CT!DecimalDigits(total - end(w, k)) = k
    <3> HIDE DEF end, D
    <3> QED BY <2>2, <2>5, <2>6
  <2> HIDE DEF end, D
  <2>8. <<w, k>> \in good
    BY <2>3, <2>7
  <2> QED BY <2>8
<1>7. good = {} => c.frame # "length"
  <2> HIDE DEF good, best, end
  <2> QED BY <1>2, <1>3
<1> HIDE DEF good
<1> QED BY <1>5, <1>6, <1>7

(* The status line that is written fits the padding with the blank line    *)
(* after it.                                                               *)
LEMMA StatusFits ==
    ASSUME NEW pad \in Nat, NEW first \in 0..2, CT!StatusLine(first, pad) # 0
    PROVE  CT!StatusLine(first, pad) \in Nat /\ CT!StatusLine(first, pad) + 2 <= pad
<1> DEFINE sizes == <<20, 21, 16>>
           at(k) == sizes[((first + k) % 3) + 1]
           fits == {k \in 0..2 : CT!PutLine(0, at(k), pad)}
<1>1. CT!StatusLine(first, pad) = IF fits = {} THEN 0 ELSE at(CT!Min(fits))
  BY DEF CT!StatusLine
<1>2. fits # {}
  BY <1>1
<1>3. fits \in SUBSET Nat
  OBVIOUS
<1>4. CT!Min(fits) \in fits
  <2> HIDE DEF fits
  <2>1. \E x \in fits : \A y \in fits : x <= y
    BY <1>2, <1>3, NatHasLeast
  <2> QED BY <2>1 DEF CT!Min
<1>5. ASSUME NEW k \in 0..2 PROVE at(k) \in Nat
  <2>1. ((first + k) % 3) + 1 \in 1..3
    OBVIOUS
  <2> QED BY <2>1
<1> HIDE DEF at
<1>6. PICK k \in 0..2 : k = CT!Min(fits) /\ CT!PutLine(0, at(k), pad)
  BY <1>4
<1>7. CT!StatusLine(first, pad) = at(k)
  <2> HIDE DEF fits
  <2> QED BY <1>1, <1>2, <1>6
<1>8. at(k) \in Nat
  BY <1>5
<1> QED BY <1>6, <1>7, <1>8 DEF CT!PutLine

(* What a SIP prefix says of the datagram.                                 *)
SipOK(c, pad, total) ==
    /\ c.frame = "sip" /\ c.pos + 2 <= pad
    /\ c.length.frame = "length" => c.length.end <= pad /\ c.length.body = total - c.length.end
    /\ c.headers = 5 /\ c.pos + 15 + 2 + CT!DecimalDigits(total) + 4 <= pad => c.length.frame = "length"

(* A SIP prefix that is more than a fragment says so.                      *)
LEMMA SipFramed ==
    ASSUME NEW pad \in Nat, NEW total \in Nat, NEW first \in 0..2, NEW host \in Nat, NEW cseq \in Nat,
           pad < total, total <= CT!MaxDatagram,
           NEW c, c = CT!ApplySipPadding(pad, total, first, host, cseq), c.frame # "fragment"
    PROVE  SipOK(c, pad, total)
<1> DEFINE status == CT!StatusLine(first, pad)
           lines == CT!Mandatory(host, cseq)
           n == CT!Fitting(status, lines, pad)
           pos == CT!After(status, lines, n)
           fit == {k \in 0..5 : k = 0 \/ CT!PutLine(CT!After(status, lines, k), 0, pad)}
           body == IF n = 5 THEN CT!SipBody(pos, pad, total) ELSE CT!Opaque
<1>1. c = IF status = 0 THEN [frame |-> "fragment"]
          ELSE [frame |-> "sip", headers |-> n, pos |-> pos, length |-> body]
  BY DEF CT!ApplySipPadding
<1>2. status # 0
  <2> HIDE DEF status, n, pos, body
  <2> QED BY <1>1
<1>3. status \in Nat /\ status + 2 <= pad
  BY <1>2, StatusFits
<1>4. Len(lines) = 5 /\ \A i \in 1..5 : lines[i] \in Nat
  <2>1. Len(lines) = 5 /\ lines[1] \in Nat /\ lines[2] \in Nat /\ lines[3] \in Nat /\ lines[4] \in Nat
        /\ lines[5] \in Nat
    BY DEF CT!Mandatory
  <2> HIDE DEF lines
  <2>2. \A i \in 1..5 : i = 1 \/ i = 2 \/ i = 3 \/ i = 4 \/ i = 5
    OBVIOUS
  <2> QED BY <2>1, <2>2
<1>5. n = CT!Max(fit)
  <2> HIDE DEF status
  <2>1. Len(lines) = 5
    BY <1>4
  <2> HIDE DEF lines
  <2> QED BY <2>1 DEF CT!Fitting
<1> HIDE DEF status, lines
<1>6. CT!After(status, lines, 0) = status /\ \A k \in 0..5 : CT!After(status, lines, k) \in Nat
  BY <1>3, <1>4, LinesEnd
<1>7. CT!Max(fit) \in fit
  <2> DEFINE T == {5 - k : k \in fit}
  <2>1. \A k \in fit : k \in 0..5
    OBVIOUS
  <2>2. 0 \in fit
    OBVIOUS
  <2> HIDE DEF fit
  <2>3. T \in SUBSET Nat /\ T # {}
    BY <2>1, <2>2
  <2>4. PICK m \in T : \A y \in T : m <= y
    <3> HIDE DEF T
    <3> QED BY <2>3, NatHasLeast
  <2>5. PICK x \in fit : m = 5 - x
    OBVIOUS
  <2>6. ASSUME NEW y \in fit PROVE x >= y
    <3>1. 5 - y \in T
      OBVIOUS
    <3>2. m <= 5 - y
      BY <2>4, <3>1
    <3>3. x \in 0..5 /\ y \in 0..5
      BY <2>1
    <3> QED BY <2>5, <3>2, <3>3
  <2> QED BY <2>6 DEF CT!Max
<1>8. n \in 0..5 /\ (n = 0 \/ CT!PutLine(CT!After(status, lines, n), 0, pad))
  <2> HIDE DEF n
  <2> QED BY <1>5, <1>7
<1> HIDE DEF n
<1>9. pos \in Nat /\ pos + 2 <= pad
  BY <1>3, <1>6, <1>8 DEF CT!PutLine
<1> HIDE DEF pos
<1>10. c.frame = "sip" /\ c.headers = n /\ c.pos = pos /\ c.length = body
  <2> HIDE DEF body
  <2> QED BY <1>1, <1>2
<1>11. CASE n = 5
  <2>1. body = CT!SipBody(pos, pad, total)
    BY <1>11
  <2> HIDE DEF body
  <2>2. /\ body.frame = "length" => body.end <= pad /\ body.body = total - body.end
        /\ pos + 15 + 2 + CT!DecimalDigits(total) + 4 <= pad => body.frame = "length"
    BY <1>9, <2>1, LengthFound
  <2> QED BY <1>9, <1>10, <2>2 DEF SipOK
<1>12. CASE n # 5
  <2>1. body = CT!Opaque /\ CT!Opaque.frame = "none"
    BY <1>12 DEF CT!Opaque
  <2> HIDE DEF body
  <2> QED BY <1>9, <1>10, <1>12, <2>1 DEF SipOK
<1> QED BY <1>11, <1>12

(* A datagram of the backend: sizes, paddings and, for a handshake         *)
(* message, what the accepted parameters and the range of its header say.  *)
PacketOK(d) ==
    /\ d.kind = "packet" /\ d.t \in 1..4 /\ d.total \in Nat /\ d.total <= CT!MaxDatagram /\ d.qname \in Nat
    /\ \A i \in 1..4 : d.s[i] \in Nat
    /\ d.t \in {1, 2} => /\ CT!ValidateCbParams(d.s) /\ d.t \in d.seen
                        /\ d.total = d.s[d.t] + CT!ExpectedMessageSize(d.t)
    /\ d.proto \notin {"quic", "dns", "stun"} => d.first \in 0..2 /\ d.host \in Nat /\ d.cseq \in Nat

(* A stranger's datagram.                                                  *)
ProbeOK(d) ==
    /\ d.kind = "probe" /\ d.question \in {0, 5, 500} /\ d.total = 20 + d.question
    /\ d.b = <<d.b[1], d.b[2], d.b[3], d.b[4], d.b[5], d.b[6]>>

(* The inductive invariant: what was sent is what the transformation, or   *)
(* the responder, makes of the datagram still at hand.                     *)
CoverInv ==
    /\ ctIn = CT!Nothing \/ PacketOK(ctIn) \/ ProbeOK(ctIn)
    /\ \/ ctOut = CT!Nothing
       \/ /\ ctOut.kind = "packet" /\ ctIn.kind = "packet"
          /\ ctOut.out = CT!ApplyCbTransform(ctIn)
       \/ /\ ctOut.kind = "answer" /\ ctIn.kind = "probe"
          /\ ctOut.proto = CT!DetectProtocol(ctIn.b, ctIn.question)
          /\ \E v6 \in BOOLEAN : ctOut.size = CT!GenerateResponse(ctOut.proto, ctIn.b, ctIn.question, v6)

(* The backend's messages are such datagrams.                              *)
LEMMA PacketMade ==
    ASSUME CoverSetting, CT!Packet PROVE PacketOK(ctIn')
<1>0. PICK s \in [1..4 -> CtPads], t \in 1..4, size \in CtPayloads, other \in 0..4 :
        /\ CT!ValidateCbParams(s)
        /\ \E proto \in {"quic", "dns"}, qname \in CtNames :
            ctIn' = [kind |-> "packet", s |-> s, t |-> t, seen |-> {t, other},
                     total |-> s[t] + (IF t = 4 THEN size ELSE CT!ExpectedMessageSize(t)),
                     proto |-> proto, qname |-> qname]
  BY Zenon DEF CT!Packet
<1>1. PICK proto \in {"quic", "dns"}, qname \in CtNames :
        /\ CT!ValidateCbParams(s)
        /\ ctIn' = [kind |-> "packet", s |-> s, t |-> t, seen |-> {t, other},
                    total |-> s[t] + (IF t = 4 THEN size ELSE CT!ExpectedMessageSize(t)),
                    proto |-> proto, qname |-> qname]
  BY <1>0, Zenon
<1> DEFINE d == ctIn'
           n == IF t = 4 THEN size ELSE CT!ExpectedMessageSize(t)
<1>2. /\ d.kind = "packet" /\ d.s = s /\ d.t = t /\ d.seen = {t, other} /\ d.total = s[t] + n
      /\ d.proto = proto /\ d.qname = qname
  <2> HIDE DEF n
  <2> QED BY <1>1 DEF n
<1>3. n \in Nat /\ (n \in CtPayloads \/ n <= 148) /\ (t \in {1, 2} => n = CT!ExpectedMessageSize(t))
  <2>1. CASE t = 4
    BY <2>1 DEF CoverSetting
  <2>2. CASE t # 4
    BY <2>2 DEF CT!ExpectedMessageSize
  <2> QED BY <2>1, <2>2
<1>4. s[t] \in CtPads /\ s[t] \in Nat /\ \A i \in 1..4 : s[i] \in Nat
  BY DEF CoverSetting
<1>5. CT!MaxDatagram \in Nat
  BY DEF CT!MaxDatagram
<1> HIDE DEF n, d
<1>6. s[t] + n <= CT!MaxDatagram
  <2>1. \A p \in CtPads, x \in CtPayloads \cup {148} : p + x <= CT!MaxDatagram
    BY DEF CoverSetting
  <2>2. CASE n \in CtPayloads
    BY <1>4, <2>1, <2>2
  <2>3. CASE n <= 148
    <3>1. s[t] + 148 <= CT!MaxDatagram
      BY <1>4, <2>1
    <3> QED BY <1>3, <1>4, <1>5, <2>3, <3>1
  <2> QED BY <1>3, <2>2, <2>3
<1>7. qname \in Nat
  BY DEF CoverSetting
<1>8. PacketOK(d)
  <2>1. d.kind = "packet" /\ d.t \in 1..4 /\ d.total \in Nat /\ d.total <= CT!MaxDatagram /\ d.qname \in Nat
    BY <1>2, <1>3, <1>4, <1>6, <1>7
  <2>2. \A i \in 1..4 : d.s[i] \in Nat
    BY <1>2, <1>4
  <2>3. d.t \in {1, 2} => /\ CT!ValidateCbParams(d.s) /\ d.t \in d.seen
                          /\ d.total = d.s[d.t] + CT!ExpectedMessageSize(d.t)
    BY <1>1, <1>2, <1>3
  <2>4. d.proto \in {"quic", "dns", "stun"}
    BY <1>2
  <2> QED BY <2>1, <2>2, <2>3, <2>4 DEF PacketOK
<1> QED BY <1>8 DEF d

(* So are those with wide paddings.                                        *)
LEMMA LongPacketMade ==
    ASSUME CoverSetting, CT!LongPacket PROVE PacketOK(ctIn')
<1>1. PICK pad \in CtLong, size \in CtPayloads, first \in 0..2, host \in CtHosts, cseq \in CtSeqs, proto \in {"sip", "stun", "dns"} :
        ctIn' = [kind |-> "packet", s |-> <<0, 0, 0, pad>>, t |-> 4, seen |-> {4}, total |-> pad + size,
                 proto |-> proto, qname |-> 255, first |-> first, host |-> host, cseq |-> cseq]
  BY DEF CT!LongPacket
<1>2. pad \in Nat /\ size \in Nat /\ pad + size <= CT!MaxDatagram /\ host \in Nat /\ cseq \in Nat
  BY DEF CoverSetting
<1> DEFINE d == ctIn'
<1>3. /\ d.kind = "packet" /\ d.s = <<0, 0, 0, pad>> /\ d.t = 4 /\ d.total = pad + size /\ d.qname = 255
      /\ d.first = first /\ d.host = host /\ d.cseq = cseq
  BY <1>1
<1> HIDE DEF d
<1>4. \A i \in 1..4 : d.s[i] \in Nat
  <2>1. d.s[1] = 0 /\ d.s[2] = 0 /\ d.s[3] = 0 /\ d.s[4] = pad
    BY <1>3
  <2>2. \A i \in 1..4 : i = 1 \/ i = 2 \/ i = 3 \/ i = 4
    OBVIOUS
  <2> QED BY <1>2, <2>1, <2>2
<1>5. PacketOK(d)
  BY <1>2, <1>3, <1>4 DEF PacketOK
<1> QED BY <1>5 DEF d

(* Every step keeps CoverInv.                                              *)
LEMMA CoverStep ==
    ASSUME CoverSetting, CoverInv, [CT!Next]_(CT!vars) PROVE CoverInv'
<1>0. CT!Nothing.kind = "none"
  BY DEF CT!Nothing
<1>1. CASE CT!Packet
  <2>1. PacketOK(ctIn')
    BY <1>1, PacketMade
  <2>2. ctOut' = CT!Nothing
    BY <1>0, <1>1 DEF CT!Packet, CoverInv
  <2> QED BY <2>1, <2>2 DEF CoverInv
<1>2. CASE CT!LongPacket
  <2>1. PacketOK(ctIn')
    BY <1>2, LongPacketMade
  <2>2. ctOut' = CT!Nothing
    BY <1>0, <1>2 DEF CT!LongPacket, CoverInv
  <2> QED BY <2>1, <2>2 DEF CoverInv
<1>3. CASE CT!Transform
  <2>1. ctIn' = ctIn /\ ctIn.kind = "packet" /\ ctOut'.kind = "packet"
        /\ ctOut'.out = CT!ApplyCbTransform(ctIn)
    BY <1>3 DEF CT!Transform
  <2> QED BY <2>1 DEF CoverInv
<1>4. CASE CT!Probe
  <2>1. ProbeOK(ctIn')
    <3>1. PICK b \in CT!Heads, question \in {0, 5, 500} :
              ctIn' = [kind |-> "probe", b |-> b, question |-> question, total |-> 20 + question]
      BY <1>4 DEF CT!Probe
    <3>2. b = <<b[1], b[2], b[3], b[4], b[5], b[6]>>
      BY DEF CT!Heads
    <3> QED BY <3>1, <3>2 DEF ProbeOK
  <2>2. ctOut' = CT!Nothing
    BY <1>0, <1>4 DEF CT!Probe, CoverInv
  <2> QED BY <2>1, <2>2 DEF CoverInv
<1>5. CASE CT!Answer
  <2>1. PICK v6 \in BOOLEAN : ctOut' = [kind |-> "answer", proto |-> CT!DetectProtocol(ctIn.b, ctIn.question),
            size |-> CT!GenerateResponse(CT!DetectProtocol(ctIn.b, ctIn.question), ctIn.b, ctIn.question, v6)]
    BY <1>5 DEF CT!Answer
  <2>2. ctIn' = ctIn /\ ctIn.kind = "probe"
    BY <1>5 DEF CT!Answer
  <2>3. /\ ctOut'.kind = "answer" /\ ctOut'.proto = CT!DetectProtocol(ctIn.b, ctIn.question)
        /\ ctOut'.size = CT!GenerateResponse(ctOut'.proto, ctIn.b, ctIn.question, v6)
    BY <2>1
  <2> QED BY <2>2, <2>3 DEF CoverInv
<1>6. CASE CT!Sent
  BY <1>6 DEF CT!Sent, CoverInv
<1>7. CASE UNCHANGED CT!vars
  BY <1>7 DEF CT!vars, CoverInv
<1> QED BY <1>1, <1>2, <1>3, <1>4, <1>5, <1>6, <1>7 DEF CT!Next

(* A handshake message is classified as what it is: an initiation is       *)
(* looked for first, and a response has no initiation's size, because S1 + *)
(* 56 # S2.                                                                *)
LEMMA HandshakeClassified ==
    ASSUME NEW d, PacketOK(d), d.t \in {1, 2} PROVE CT!ClassifyCbPacket(d) = d.t
<1> DEFINE hits == {t \in 1..4 : CT!SizeFits(d.s, t, d.total) /\ t \in d.seen}
<1>1. CT!ClassifyCbPacket(d) = IF hits = {} THEN 0 ELSE CT!Min(hits)
  BY DEF CT!ClassifyCbPacket
<1>2. d.s[1] \in Nat /\ d.s[2] \in Nat /\ d.s[1] + 56 # d.s[2] /\ d.t \in d.seen
  BY DEF PacketOK, CT!ValidateCbParams
<1>3. d.total = d.s[d.t] + (IF d.t = 1 THEN 148 ELSE 92)
  BY DEF PacketOK, CT!ExpectedMessageSize
<1>4. d.t \in hits
  BY <1>2, <1>3 DEF CT!SizeFits, CT!ExpectedMessageSize
<1>5. d.t = 2 => 1 \notin hits
  BY <1>2, <1>3 DEF CT!SizeFits, CT!ExpectedMessageSize
<1>6. \A y \in hits : y \in 1..4
  OBVIOUS
<1> HIDE DEF hits
<1>7. \A y \in hits : d.t <= y
  BY <1>5, <1>6
<1>8. CT!Min(hits) \in hits /\ \A y \in hits : CT!Min(hits) <= y
  BY <1>4, <1>7 DEF CT!Min
<1>9. CT!Min(hits) = d.t
  <2>1. CT!Min(hits) <= d.t /\ d.t <= CT!Min(hits) /\ CT!Min(hits) \in 1..4
    BY <1>4, <1>6, <1>7, <1>8
  <2> QED BY <2>1
<1> QED BY <1>1, <1>4, <1>9

(* The version's last byte is the datagram's fifth.                        *)
LEMMA VersionBytes ==
    ASSUME NEW a1, NEW a2, NEW a3, NEW a4, NEW a5, NEW a6
    PROVE  SubSeq(<<a1, a2, a3, a4, a5, a6>>, 2, 5)[4] = a5
<1> DEFINE b == <<a1, a2, a3, a4, a5, a6>>
           S == {a1, a2, a3, a4, a5, a6}
<1>0. a1 \in S /\ a2 \in S /\ a3 \in S /\ a4 \in S /\ a5 \in S /\ a6 \in S
  OBVIOUS
<1> HIDE DEF S
<1>1. b \in Seq(S) /\ Len(b) = 6 /\ b[5] = a5
  BY <1>0
<1> HIDE DEF b
<1>2. SubSeq(b, 2, 5)[4] = b[5]
  BY <1>1
<1> QED BY <1>1, <1>2 DEF b

(* A plausible DNS query is neither QUIC, whose versions do not end in a   *)
(* zero byte, nor STUN, whose cookie does not begin with one.              *)
LEMMA QueryDetected ==
    ASSUME NEW b, NEW question, b = <<b[1], b[2], b[3], b[4], b[5], b[6]>>, CT!IsPlausibleDnsQuery(b, question)
          PROVE  CT!DetectProtocol(b, question) = "dns"
<1>1. b[5] = 0 /\ b[6] = 1
  BY DEF CT!IsPlausibleDnsQuery
<1>2. ~CT!HasStunCookie(b)
  BY <1>1 DEF CT!HasStunCookie
<1> DEFINE v == SubSeq(b, 2, 5)
<1>3. v[4] = 0
  <2>1. SubSeq(<<b[1], b[2], b[3], b[4], b[5], b[6]>>, 2, 5)[4] = b[5]
    BY VersionBytes
  <2> QED BY <1>1, <2>1
<1>4. ~CT!IsQuicVersion(v)
  <2> HIDE DEF v
  <2> QED BY <1>3 DEF CT!IsQuicVersion
<1>5. ~CT!LooksQuic(b) /\ ~CT!LooksStun(b)
  BY <1>2, <1>4 DEF CT!LooksQuic, CT!LooksStun
<1> QED BY <1>2, <1>5 DEF CT!DetectProtocol

(* A handshake message is recognised whatever its ciphertext looks like,   *)
(* and a stranger's DNS query is answered as one and with no more bytes    *)
(* than it has (classify_cb_packet, validate_cb_params, detect_protocol,   *)
(* generate_dns_servfail).                                                 *)
THEOREM ApartFromEachOther ==
    ASSUME CoverSetting PROVE CT!Spec => []DatagramsAreToldApart
<1>1. CT!Init => CoverInv
  BY DEF CT!Init, CoverInv
<1>2. CoverInv /\ [CT!Next]_(CT!vars) => CoverInv'
  BY CoverStep
<1>3. CoverInv => DatagramsAreToldApart
  <2> SUFFICES ASSUME CoverInv PROVE DatagramsAreToldApart
    OBVIOUS
  <2>0. CT!Nothing.kind = "none"
    BY DEF CT!Nothing
  <2>1. ASSUME ctOut.kind = "packet", ctIn.t \in {1, 2} PROVE ctOut.out.type = ctIn.t
    <3>1. PacketOK(ctIn) /\ ctOut.out = CT!ApplyCbTransform(ctIn)
      BY <2>0, <2>1 DEF CoverInv, ProbeOK
    <3>2. CT!ClassifyCbPacket(ctIn) = ctIn.t
      BY <2>1, <3>1, HandshakeClassified
    <3> QED BY <2>1, <3>1, <3>2 DEF CT!ApplyCbTransform
  <2>2. ASSUME ctOut.kind = "answer", CT!IsPlausibleDnsQuery(ctIn.b, ctIn.question)
        PROVE  ctOut.proto = "dns" /\ ctOut.size <= ctIn.total
    <3>1. /\ ProbeOK(ctIn) /\ ctOut.proto = CT!DetectProtocol(ctIn.b, ctIn.question)
          /\ \E v6 \in BOOLEAN : ctOut.size = CT!GenerateResponse(ctOut.proto, ctIn.b, ctIn.question, v6)
      BY <2>0, <2>2 DEF CoverInv, PacketOK
    <3>2. ctOut.proto = "dns"
      BY <2>2, <3>1, QueryDetected DEF ProbeOK
    <3>3. ctOut.size = IF 12 + ctIn.question <= 512 THEN 12 + ctIn.question ELSE 12
      BY <3>1, <3>2 DEF CT!GenerateResponse
    <3>4. ctIn.question \in Nat /\ ctIn.total = 20 + ctIn.question
      BY <3>1 DEF ProbeOK
    <3> QED BY <3>2, <3>3, <3>4
  <2> QED BY <2>1, <2>2 DEF DatagramsAreToldApart, CT!DatagramsAreToldApart
<1> QED BY <1>1, <1>2, <1>3, PTL DEF CT!Spec

(* A classified packet has one of the four types.                          *)
LEMMA ClassInRange ==
    ASSUME NEW d, CT!ClassifyCbPacket(d) # 0 PROVE CT!ClassifyCbPacket(d) \in 1..4
<1> DEFINE hits == {t \in 1..4 : CT!SizeFits(d.s, t, d.total) /\ t \in d.seen}
<1>1. CT!ClassifyCbPacket(d) = IF hits = {} THEN 0 ELSE CT!Min(hits)
  BY DEF CT!ClassifyCbPacket
<1>2. hits # {} /\ hits \in SUBSET Nat
  BY <1>1
<1>3. CT!Min(hits) \in hits
  <2> HIDE DEF hits
  <2>1. \E x \in hits : \A y \in hits : x <= y
    BY <1>2, NatHasLeast
  <2> QED BY <2>1 DEF CT!Min
<1> QED BY <1>1, <1>2, <1>3

(* No length that a rewritten prefix advertises leaves the datagram,       *)
(* nothing is written past the padding, and a SIP response whose Content-  *)
(* Length fits has one (apply_dns_padding, apply_stun_padding,             *)
(* apply_sip_padding).                                                     *)
THEOREM CoverIsFramed ==
    ASSUME CoverSetting PROVE CT!Spec => []CoverFramesTheDatagram
<1>1. CT!Init => CoverInv
  BY DEF CT!Init, CoverInv
<1>2. CoverInv /\ [CT!Next]_(CT!vars) => CoverInv'
  BY CoverStep
<1>3. CoverInv => CoverFramesTheDatagram
  <2> SUFFICES ASSUME CoverInv, ctOut.kind = "packet" PROVE CT!Framed(ctIn, ctOut.out.pad, ctOut.out.cover)
    BY DEF CoverFramesTheDatagram, CT!CoverFramesTheDatagram
  <2>0. CT!Nothing.kind = "none" /\ CT!Opaque.frame = "none" /\ CT!QuicShort.frame = "short"
    BY DEF CT!Nothing, CT!Opaque, CT!QuicShort
  <2>1. PacketOK(ctIn) /\ ctOut.out = CT!ApplyCbTransform(ctIn)
    BY <2>0 DEF CoverInv, ProbeOK
  <2> DEFINE t == CT!ClassifyCbPacket(ctIn)
             pad == ctIn.s[t]
             total == ctIn.total
             cover == IF pad = 0 \/ pad >= total THEN CT!Opaque
                      ELSE CASE ctIn.proto = "quic" -> CT!QuicShort
                             [] ctIn.proto = "dns" -> CT!ApplyDnsPadding(pad, total, ctIn.qname)
                             [] ctIn.proto = "stun" -> CT!ApplyStunPadding(pad)
                             [] OTHER -> CT!ApplySipPadding(pad, total, ctIn.first, ctIn.host, ctIn.cseq)
  <2>2. ASSUME NEW c, NEW p, c.frame \notin {"dns", "stun", "sip"} PROVE CT!Framed(ctIn, p, c)
    BY <2>2 DEF CT!Framed
  <2>3. CASE t = 0
    <3>1. ctOut.out.cover = CT!Opaque
      BY <2>1, <2>3 DEF CT!ApplyCbTransform
    <3> QED BY <2>0, <2>2, <3>1
  <2>4. CASE t # 0
    <3>1. t \in 1..4
      BY <2>4, ClassInRange
    <3>2. ctOut.out.pad = pad /\ ctOut.out.cover = cover
      BY <2>1, <2>4 DEF CT!ApplyCbTransform
    <3> HIDE DEF t
    <3>3. pad \in Nat /\ total \in Nat /\ total <= CT!MaxDatagram /\ ctIn.qname \in Nat
      BY <2>1, <3>1 DEF PacketOK
    <3> SUFFICES CT!Framed(ctIn, pad, cover)
      BY <3>2
    <3>4. CASE pad = 0 \/ pad >= total
      <4>1. cover = CT!Opaque
        BY <3>4
      <4> QED BY <2>0, <2>2, <4>1
    <3>5. CASE ~(pad = 0 \/ pad >= total)
      <4>0. pad < total
        BY <3>3, <3>5
      <4>1. CASE ctIn.proto = "quic"
        <5>1. cover = CT!QuicShort
          BY <3>5, <4>1
        <5> QED BY <2>0, <2>2, <5>1
      <4>2. CASE ctIn.proto = "dns"
        <5>1. cover = CT!ApplyDnsPadding(pad, total, ctIn.qname)
          BY <3>5, <4>2
        <5> HIDE DEF cover, pad, total
        <5>2. /\ cover.frame = "dns" /\ cover.written <= pad
              /\ pad >= 28 => cover.covers = total
              /\ pad >= 32 => cover.option = total
          BY <3>3, <4>0, <5>1, DnsFramed
        <5> QED BY <5>2 DEF CT!Framed, total
      <4>3. CASE ctIn.proto = "stun"
        <5>1. cover = CT!ApplyStunPadding(pad)
          BY <3>5, <4>3
        <5> HIDE DEF cover, pad
        <5>2. cover.frame = "stun" /\ cover.length % 4 = 0 /\ 20 + cover.length <= CT!Max({pad, 20})
          BY <3>3, <5>1, StunFramed
        <5> QED BY <5>2 DEF CT!Framed
      <4>4. CASE ctIn.proto \notin {"quic", "dns", "stun"}
        <5>1. cover = CT!ApplySipPadding(pad, total, ctIn.first, ctIn.host, ctIn.cseq)
          BY <3>5, <4>4
        <5>2. ctIn.first \in 0..2 /\ ctIn.host \in Nat /\ ctIn.cseq \in Nat
          BY <2>1, <4>4 DEF PacketOK
        <5> DEFINE first == ctIn.first
                   host == ctIn.host
                   cseq == ctIn.cseq
        <5>5. cover = CT!ApplySipPadding(pad, total, first, host, cseq)
          BY <5>1
        <5>6. first \in 0..2 /\ host \in Nat /\ cseq \in Nat
          BY <5>2
        <5> HIDE DEF cover, pad, total, first, host, cseq
        <5>3. CASE cover.frame = "fragment"
          BY <2>2, <5>3
        <5>4. CASE cover.frame # "fragment"
          <6>1. SipOK(cover, pad, total)
            BY <3>3, <4>0, <5>5, <5>6, <5>4, SipFramed, Zenon
          <6> QED BY <6>1 DEF SipOK, CT!Framed, total
        <5> QED BY <5>3, <5>4
      <4> QED BY <4>1, <4>2, <4>3, <4>4
    <3> QED BY <3>4, <3>5
  <2> QED BY <2>3, <2>4
<1> QED BY <1>1, <1>2, <1>3, PTL DEF CT!Spec
=============================================================================
