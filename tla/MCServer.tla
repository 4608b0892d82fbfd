------------------------------ MODULE MCServer ------------------------------
(* The administration server: database, secrets, addresses, first setup,     *)
(* activity, firewall, HTTP, settings and client keys, one part at a time.   *)
EXTENDS Naturals, TLC

CONSTANTS
    DbChanges, DbFaults,
    ScStarts, ScCalls,
    ApHandlers, ApV4, ApV6, ApQuota, ApClients, ApEvents,
    SwVisitors, SwUsers, SwStarts,
    AcClients, AcBytes, AcDays, AcEvents,
    FwHandlers, FwPeers, FwEvents, FwFaults,
    HsConns, HsTalkers, HsMax, HsRequests, HsBody,
    AsHandlers, AsForms, AsPad, AsSources, AsKeys, AsLimit, AsWindow, AsTime, AsScrapes,
    CkHandlers, CkRequests,
    h1, h2,
    Parts

VARIABLES
    part,
    dbMode, dbDisk, dbDamaged, dbMem, dbPc, dbAt, dbRestored, dbSnap, dbLeft, dbTaken, dbSaved,
    scCell, scKey, scPc, scStored, scWritten, scAnswer, scLeft,
    apNet, apRow, apNext, apTask, apLeft, apExcused,
    swUnattended, swValid, swStep, swCount, swHost, swServer, swTask, swLeft,
    acDay, acRetention, acRows, acKernel, acStore, acPoll, acPurged, acPruned, acLeft, acMoved,
    fwMode, fwRow, fwPeer, fwUp, fwNft, fwLegacy, fwTask, fwLeft, fwExcused,
    hsServer, hsPermits, hsConn, hsServed,
    asGeneral, asKeys, asIface, asProxy, asHooks, asDefaults, asHelper, asTask, asLeft, asOverlap,
    asNow, asTried, asScrapes, asJudged, asLeaked,
    ckRows, ckLinks, ckMode, ckNextId, ckNextKey, ckNextToken, ckRequests, ckPc, ckLoc, ckOnce, ckSent

DB == INSTANCE Database
SC == INSTANCE Secrets
AP == INSTANCE AddressPool
SW == INSTANCE SetupWizard
AC == INSTANCE ActivityStore
FW == INSTANCE Firewall
HS == INSTANCE HttpServer
AS == INSTANCE AdminSettings
CK == INSTANCE ClientKeys WITH
    Handlers <- CkHandlers, MaxRequests <- CkRequests, rows <- ckRows, links <- ckLinks, mode <- ckMode, nextId <- ckNextId,
    nextKey <- ckNextKey, nextToken <- ckNextToken, requests <- ckRequests, pc <- ckPc,
    loc <- ckLoc, once <- ckOnce, sent <- ckSent

dbVars == <<dbMode, dbDisk, dbDamaged, dbMem, dbPc, dbAt, dbRestored, dbSnap, dbLeft, dbTaken, dbSaved>>
scVars == <<scCell, scKey, scPc, scStored, scWritten, scAnswer, scLeft>>
apVars == <<apNet, apRow, apNext, apTask, apLeft, apExcused>>
swVars == <<swUnattended, swValid, swStep, swCount, swHost, swServer, swTask, swLeft>>
acVars == <<acDay, acRetention, acRows, acKernel, acStore, acPoll, acPurged, acPruned, acLeft, acMoved>>
fwVars == <<fwMode, fwRow, fwPeer, fwUp, fwNft, fwLegacy, fwTask, fwLeft, fwExcused>>
hsVars == <<hsServer, hsPermits, hsConn, hsServed>>
asVars == <<asGeneral, asKeys, asIface, asProxy, asHooks, asDefaults, asHelper, asTask, asLeft, asOverlap,
    asNow, asTried, asScrapes, asJudged, asLeaked>>
ckVars == <<ckRows, ckLinks, ckMode, ckNextId, ckNextKey, ckNextToken, ckRequests, ckPc, ckLoc, ckOnce, ckSent>>

vars == <<part, dbVars, scVars, apVars, swVars, acVars, fwVars, hsVars, asVars, ckVars>>

\* A part that is not the one at work stays in one of its initial states.
Init ==
    /\ part \in Parts
    /\ DB!Init /\ (part = "database" \/ (dbMode = "volatile" /\ ~dbDamaged))
    /\ SC!Init /\ (part = "secrets" \/ scCell = <<"users", "totp_key">>)
    /\ AP!Init /\ (part = "addresses" \/ apNet = [v4 |-> [addr |-> 8, size |-> 8], v6 |-> AP!Unset])
    /\ SW!Init /\ (part = "setup" \/ (~swUnattended /\ ~swValid))
    /\ AC!Init /\ (part = "activity" \/ (acRetention = 0 /\ acRows = AcClients))
    /\ FW!Init /\ (part = "firewall" \/ (fwMode = [helper |-> FALSE, ipv6 |-> FALSE] /\ ~fwUp))
    /\ HS!Init
    /\ AS!Init /\ (part \in {"settings", "metrics"} \/ (~asProxy /\ ~asHelper /\ asGeneral.password = 0))
    /\ CK!Init

Next ==
    \/ part = "database" /\ DB!Next /\ UNCHANGED <<part, scVars, apVars, swVars, acVars, fwVars, hsVars, asVars, ckVars>>
    \/ part = "secrets" /\ SC!Next /\ UNCHANGED <<part, dbVars, apVars, swVars, acVars, fwVars, hsVars, asVars, ckVars>>
    \/ part = "addresses" /\ AP!Next /\ UNCHANGED <<part, dbVars, scVars, swVars, acVars, fwVars, hsVars, asVars, ckVars>>
    \/ part = "setup" /\ SW!Next /\ UNCHANGED <<part, dbVars, scVars, apVars, acVars, fwVars, hsVars, asVars, ckVars>>
    \/ part = "activity" /\ AC!Next /\ UNCHANGED <<part, dbVars, scVars, apVars, swVars, fwVars, hsVars, asVars, ckVars>>
    \/ part = "firewall" /\ FW!Next /\ UNCHANGED <<part, dbVars, scVars, apVars, swVars, acVars, hsVars, asVars, ckVars>>
    \/ part = "http" /\ HS!Next /\ UNCHANGED <<part, dbVars, scVars, apVars, swVars, acVars, fwVars, asVars, ckVars>>
    \/ part = "settings" /\ AS!FormsNext /\ UNCHANGED <<part, dbVars, scVars, apVars, swVars, acVars, fwVars, hsVars, ckVars>>
    \/ part = "metrics" /\ AS!MetricsNext /\ UNCHANGED <<part, dbVars, scVars, apVars, swVars, acVars, fwVars, hsVars, ckVars>>
    \/ part = "keys" /\ CK!Next /\ UNCHANGED <<part, dbVars, scVars, apVars, swVars, acVars, fwVars, hsVars, asVars>>

Spec == Init /\ [][Next]_vars

-----------------------------------------------------------------------------
\* A server that serves has every table and column this release reads.
SchemaIsComplete == DB!SchemaIsComplete
\* A start from memory mode serves a whole backup, or the first-run installation when there is none.
RestartServesABackup == DB!RestartServesABackup
\* A read of an encrypted column returns the secret last written, or fails.
ReadReturnsTheSecret == SC!ReadReturnsTheSecret
\* After an undisturbed change of network every peer has an address in it.
PeersAreInTheRange == AP!PeersAreInTheRange
\* The host in every configuration is written by an administrator.
HostIsWrittenByAnAdmin == SW!HostIsWrittenByAnAdmin
\* A client is never shown more traffic than it moved.
TotalsAreRealTraffic == AC!TotalsAreRealTraffic
\* After the last rebuild a peer reaches what is opened to it and nothing else.
PeersAreConfined == FW!PeersAreConfined
\* Under DNS lockdown no query of a peer leaves for anywhere but the target.
LockdownHolds == FW!LockdownHolds
\* A one-time link serves one caller, and a key generated under `never' leaves the server once.
HandedOutOnce == CK!HandedOutOnce
\* Nothing but a request that is framed one way is served.
NothingIsSmuggled == HS!NothingIsSmuggled
\* Metrics go to nobody without the stored password, and guesses at it are limited.
MetricsAreGuarded == AS!MetricsAreGuarded

-----------------------------------------------------------------------------
Handlers == {h1, h2}
Symmetry == Permutations(Handlers)
NetworksV4 == {[addr |-> 8, size |-> 8], [addr |-> 12, size |-> 8], [addr |-> 17, size |-> 4]}
NetworksV6 == {[addr |-> 0, size |-> 0], [addr |-> 32, size |-> 8]}
=============================================================================
