---------------------------- MODULE MCDataplane ----------------------------
(* What carries packets: the QQ-DNS tunnel and the imitating proxy, one part *)
(* at a time.                                                                *)
EXTENDS Naturals

CONSTANTS
    Datagrams, Length, Room, Half, Offsets, Resolvers, Tries, QueueSize,
    WaitLimit, AssembleTime, NetLife, Gaps, MaxNow,
    QsHandlers, QsEngines, QsEvents,
    PxHandlers, PxTasks, PxEvents, PxFaults,
    PsClients, PsProtocols, PsMax, PsRelays, PsPackets, PsFaults,
    SdCalls, SdRequests, SdTasks,
    PbTasks, PbSizes, PbBytes, PbRate, PbPermits, PbSeconds,
    QhConns, QhFragments, QhHello, QhSizes, QhFlights, QhCids, QhMax, QhDatagrams, QhTtl,
    CtPads, CtLong, CtPayloads, CtNames, CtHosts, CtSeqs, CtBytes,
    Parts

VARIABLES
    part,
    qqNow, qqGap, qqAt, qqUsed, qqQueue, qqJob, qqNet, qqSlot, qqKnown, qqSent, qqGot, qqHeard,
    qsRow, qsLive, qsEng, qsError, qsTask, qsLeft, qsOverlap, qsFailed,
    pxRow, pxConf, pxWg, pxChain, pxRun, pxLive, pxTask, pxLeft, pxOverlap, pxFailed,
    psSess, psCount, psMet, psProto, psHandle, psRelay, psLoop, psClean, psLeft,
    sdDialog, sdLoop, sdTask, sdHandle, sdInvite, sdLate, sdLeft,
    pbNow, pbState, pbTokens, pbFree, pbTask, pbSince, pbForward,
    qhPend, qhFlight, qhCid, qhGot, qhSent, qhLeft,
    ctIn, ctOut

QQ == INSTANCE QqTunnel
QS == INSTANCE QqSupervisor
PX == INSTANCE ProxySupervisor
PS == INSTANCE ProxySessions
SD == INSTANCE SipDialogs
PB == INSTANCE ProbeBudget
QH == INSTANCE QuicResponder
CT == INSTANCE CoverTraffic

qqVars == <<qqNow, qqGap, qqAt, qqUsed, qqQueue, qqJob, qqNet, qqSlot, qqKnown, qqSent, qqGot, qqHeard>>
qsVars == <<qsRow, qsLive, qsEng, qsError, qsTask, qsLeft, qsOverlap, qsFailed>>
pxVars == <<pxRow, pxConf, pxWg, pxChain, pxRun, pxLive, pxTask, pxLeft, pxOverlap, pxFailed>>
psVars == <<psSess, psCount, psMet, psProto, psHandle, psRelay, psLoop, psClean, psLeft>>
sdVars == <<sdDialog, sdLoop, sdTask, sdHandle, sdInvite, sdLate, sdLeft>>
pbVars == <<pbNow, pbState, pbTokens, pbFree, pbTask, pbSince, pbForward>>
qhVars == <<qhPend, qhFlight, qhCid, qhGot, qhSent, qhLeft>>
ctVars == <<ctIn, ctOut>>

vars == <<part, qqVars, qsVars, pxVars, psVars, sdVars, pbVars, qhVars, ctVars>>

Init ==
    /\ part \in Parts
    /\ QQ!Init /\ (part = "tunnel" \/ (qqKnown = "fixed" /\ qqGap = 0))
    /\ QS!Init /\ PX!Init /\ PS!Init /\ SD!Init /\ PB!Init /\ CT!Init
    /\ QH!Init /\ (part = "quic" \/ (qhFlight = 1600 /\ qhCid = 0))

Next ==
    \/ part = "tunnel" /\ QQ!Next /\ UNCHANGED <<part, qsVars, pxVars, psVars, sdVars, pbVars, qhVars, ctVars>>
    \/ part = "engine" /\ QS!Next /\ UNCHANGED <<part, qqVars, pxVars, psVars, sdVars, pbVars, qhVars, ctVars>>
    \/ part = "proxy" /\ PX!Next /\ UNCHANGED <<part, qqVars, qsVars, psVars, sdVars, pbVars, qhVars, ctVars>>
    \/ part = "sessions" /\ PS!Next /\ UNCHANGED <<part, qqVars, qsVars, pxVars, sdVars, pbVars, qhVars, ctVars>>
    \/ part = "sip" /\ SD!Next /\ UNCHANGED <<part, qqVars, qsVars, pxVars, psVars, pbVars, qhVars, ctVars>>
    \/ part = "budget" /\ PB!Next /\ UNCHANGED <<part, qqVars, qsVars, pxVars, psVars, sdVars, qhVars, ctVars>>
    \/ part = "quic" /\ QH!Next /\ UNCHANGED <<part, qqVars, qsVars, pxVars, psVars, sdVars, pbVars, ctVars>>
    \/ part = "cover" /\ CT!Next /\ UNCHANGED <<part, qqVars, qsVars, pxVars, psVars, sdVars, pbVars, qhVars>>

Spec == Init /\ [][Next]_vars

-----------------------------------------------------------------------------
\* The QQ-DNS tunnel hands over only what was sent, whole, and at most once.
Refines == QQ!Refines
\* A datagram all of whose queries arrived is delivered.
WholeDatagramArrives == QQ!WholeDatagramArrives
\* The QQ-DNS engine that runs has the settings as they are saved.
EngineHasTheSettings == QS!EngineHasTheSettings
\* An enabled proxy fronts the public port with AmneziaWG behind it.
ProxyFrontsThePort == PX!ProxyFrontsThePort
\* A session keeps its own relay whatever an older one's teardown does.
SessionHasItsRelay == PS!SessionHasItsRelay
\* A deferred SIP answer is sent only to an INVITE that waits for one.
AnswerIsDue == SD!AnswerIsDue
\* Between two resets the device sends strangers no more than the ceiling.
CeilingBetweenResets == PB!CeilingBetweenResets
\* The QUIC responder sends a stranger at most three times what it received.
AmplificationBound == QH!AmplificationBound
\* A datagram is taken for what it is.
DatagramsAreToldApart == CT!DatagramsAreToldApart
\* The lengths a rewritten padding advertises end with the datagram.
CoverFramesTheDatagram == CT!CoverFramesTheDatagram

-----------------------------------------------------------------------------
Lengths == <<4, 9, 3>>
Rooms == <<1, 2>>
Fragments == {<<0, 600>>, <<600, 1100>>, <<500, 1300>>, <<1100, 1500>>, <<0, 70000>>}
LongPads == (1..60) \cup (180..340)
=============================================================================
