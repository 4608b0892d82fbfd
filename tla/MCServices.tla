---------------------------- MODULE MCServices ----------------------------
(* The services beside the tunnel, one part at a time: the others stay in   *)
(* their initial state, so the state spaces add up and do not multiply.     *)
EXTENDS Naturals

CONSTANTS
    Users, MaxChildren, MaxEvents, MaxAttempts,
    Handlers, Kinds, SvChildren, SvEvents, SvAttempts,
    Names, Admins, Reconcilers, MuEvents,
    Clients, MdAdmins, Downloads, MdKeys, MdEvents,
    Peers, XlAdmins, Snis, XlEvents,
    Writers, MaxWrites, MaxFaults,
    Parts

VARIABLES
    part,
    ttRow, ttUsers, ttWait, ttRec, ttApi, ttProc, ttTries, ttChild, ttPermit, ttPoll, ttStats, ttLeft,
    svKind, svRow, svFile, svProc, svTries, svChild, svTask, svLeft, svLost, svOverlap, svFailed,
    muDb, muLive, muUp, muAdmin, muRec, muLeft, muClean,
    mdRow, mdKey, mdServer, mdHeld, mdAdmin, mdDl, mdLeft, mdRevoked, mdRaced, mdOverlap,
    xlRow, xlPeer, xlConf, xlLinks, xlTask, xlShare, xlSeq, xlLeft, xlRegen, xlMessy,
    sfData, sfTarget, sfPartial, sfWrites, sfFaults, sfPc, sfFd, sfVer

TT == INSTANCE TrustTunnel
CS == INSTANCE ChildServices
TU == INSTANCE TelemtUsers
MD == INSTANCE MdnsvpnClients
XL == INSTANCE XrayLinks
SF == INSTANCE SecretFile WITH data <- sfData, target <- sfTarget, partial <- sfPartial,
        writes <- sfWrites, faults <- sfFaults, pc <- sfPc, fd <- sfFd, ver <- sfVer

ttVars == <<ttRow, ttUsers, ttWait, ttRec, ttApi, ttProc, ttTries, ttChild, ttPermit, ttPoll, ttStats, ttLeft>>
csVars == <<svKind, svRow, svFile, svProc, svTries, svChild, svTask, svLeft, svLost, svOverlap, svFailed>>
tuVars == <<muDb, muLive, muUp, muAdmin, muRec, muLeft, muClean>>
mdVars == <<mdRow, mdKey, mdServer, mdHeld, mdAdmin, mdDl, mdLeft, mdRevoked, mdRaced, mdOverlap>>
xlVars == <<xlRow, xlPeer, xlConf, xlLinks, xlTask, xlShare, xlSeq, xlLeft, xlRegen, xlMessy>>
sfVars == <<sfData, sfTarget, sfPartial, sfWrites, sfFaults, sfPc, sfFd, sfVer>>

vars == <<part, ttVars, csVars, tuVars, mdVars, xlVars, sfVars>>

Init ==
    /\ part \in Parts
    /\ TT!Init /\ (part = "trusttunnel" \/ (~ttRow.on /\ ttUsers = [n \in Users |-> TT!Absent]))
    /\ CS!Init /\ (part = "children" \/ svKind = "tor")
    /\ TU!Init /\ MD!Init
    /\ XL!Init /\ (part = "xray" \/ ~xlRow.on)
    /\ SF!Init

Next ==
    \/ part = "trusttunnel" /\ TT!Next /\ UNCHANGED <<part, csVars, tuVars, mdVars, xlVars, sfVars>>
    \/ part = "children" /\ CS!Next /\ UNCHANGED <<part, ttVars, tuVars, mdVars, xlVars, sfVars>>
    \/ part = "telemt" /\ TU!Next /\ UNCHANGED <<part, ttVars, csVars, mdVars, xlVars, sfVars>>
    \/ part = "mdnsvpn" /\ MD!Next /\ UNCHANGED <<part, ttVars, csVars, tuVars, xlVars, sfVars>>
    \/ part = "xray" /\ XL!Next /\ UNCHANGED <<part, ttVars, csVars, tuVars, mdVars, sfVars>>
    \/ part = "file" /\ SF!Next /\ UNCHANGED <<part, ttVars, csVars, tuVars, mdVars, xlVars>>

Spec == Init /\ [][Next]_vars

\* TrustTunnel's own fairness; a behaviour of another part never satisfies it, so only
\* TrustTunnel's count for the temporal property.
FairSpec == Spec /\ TT!Fairness

\* The endpoint that runs is the recorded one, and serves the roster as it is saved.
EndpointServesTheRoster == TT!EndpointServesTheRoster
\* Each byte a poll saw is in the totals once.
TrafficIsCountedOnce == TT!TrafficIsCountedOnce
\* The poll drops an expired user from the endpoint.
ExpiredUserIsDropped == TT!ExpiredUserIsDropped
\* What was saved last is what runs.
LastSaveIsServed == CS!LastSaveIsServed
\* An undisturbed reconcile brings names and ad tags to telemt.
ReconcileConverges == TU!ReconcileConverges
\* A delete with rotateKey shuts the client out.
RevokedClientIsOut == MD!RevokedClientIsOut
\* A share link works as long as what it names stays.
LinksAreServed == XL!LinksAreServed
\* A reader of a rendered file sees one whole version.
ReaderSeesWhole == SF!ReaderSeesWhole
=============================================================================
