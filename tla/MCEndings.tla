----------------------------- MODULE MCEndings -----------------------------
(* What must come to an end: an expired peer over crashes and restarts, the  *)
(* session of a client that fell silent and a call of the privileged helper, *)
(* one part at a time.                                                       *)
EXTENDS Naturals

CONSTANTS
    Handlers, Cron, Main, InitClients, FirewallEnabled, Expiries, MaxRequests, MaxCrashes,
    PsClients, PsProtocols, PsMax, PsRelays, PsPackets, PsFaults,
    PhCallers, PhSilent, PhCalls, PhFaults

VARIABLES
    part,
    rows, nextId, conf, kern, fw, pc, op, text, expired, booted, requests, crashes,
    ver, hist, wrote, overlap,
    psSess, psCount, psMet, psProto, psHandle, psRelay, psLoop, psClean, psLeft,
    phHelper, phSocket, phConf, phKernel, phConn, phLeft

PY == INSTANCE PeerSync
PS == INSTANCE ProxySessions
PH == INSTANCE PrivHelper

pyVars == <<rows, nextId, conf, kern, fw, pc, op, text, expired, booted, requests, crashes,
            ver, hist, wrote, overlap>>
psVars == <<psSess, psCount, psMet, psProto, psHandle, psRelay, psLoop, psClean, psLeft>>
phVars == <<phHelper, phSocket, phConf, phKernel, phConn, phLeft>>
vars == <<part, pyVars, psVars, phVars>>

Init ==
    /\ part \in {"peers", "sessions", "helper"}
    /\ PY!Init
    /\ PS!Init
    /\ PH!Init /\ (part = "helper" \/ phKernel = 0)

Next ==
    \/ part = "peers" /\ PY!Next /\ UNCHANGED <<part, psVars, phVars>>
    \/ part = "sessions" /\ PS!Next /\ UNCHANGED <<part, pyVars, phVars>>
    \/ part = "helper" /\ PH!Next /\ UNCHANGED <<part, pyVars, psVars>>

\* Each part's own fairness; the session table and the helper's socket ask for nothing in
\* their initial state, and the startup and cron only where the peers are the part at work.
FairSpec ==
    /\ Init /\ [][Next]_vars
    /\ WF_pyVars(part = "peers" /\ PY!CronStep)
    /\ WF_pyVars(part = "peers" /\ PY!BootStep)
    /\ \A p \in Handlers : WF_pyVars(part = "peers" /\ (PY!HandlerWrite(p) \/ PY!Step(p)))
    /\ PS!Fairness /\ PH!Fairness

-----------------------------------------------------------------------------
\* An expired row is disabled in the end.
ExpiredRowIsRetired == PY!ExpiredRowIsRetired
\* A silent client's session goes.
SilentSessionExpires == PS!SilentSessionExpires
\* A call of the helper is answered, or fails.
CallReturns == PH!CallReturns
=============================================================================
