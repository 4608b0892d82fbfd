----------------------------- MODULE XrayLinks -----------------------------
(***************************************************************************)
(* The Xray inbound and its peers as the admin API changes them, the        *)
(* server configuration rendered from them and the share links handed out.  *)
(* The supervisor's process is XraySupervisor's subject: here a reconcile   *)
(* reads the rows and, a step later, the server serves them.                *)
(***************************************************************************)
EXTENDS Naturals, FiniteSets

CONSTANTS
    Peers,       \* xray client ids
    XlAdmins,    \* admin requests that may run at once
    Snis,        \* server names
    XlEvents     \* bound: requests and failing reconciles

VARIABLES
    xlRow,       \* the inbound: on, transport, path, key, names
    xlPeer,      \* peer -> none, on, off or gone
    xlConf,      \* what the running server was configured with; NoConf when it is down
    xlLinks,     \* links handed out
    xlTask,      \* admin request -> where it is
    xlShare,     \* the share request: the peer it has read
    xlSeq,       \* keys and paths generated so far
    xlLeft,      \* what is left of XlEvents
    xlRegen,     \* history: how often the path was regenerated on purpose
    xlMessy      \* history: two admin requests at once, or a reconcile that failed

vars == <<xlRow, xlPeer, xlConf, xlLinks, xlTask, xlShare, xlSeq, xlLeft, xlRegen, xlMessy>>

NoConf == [up |-> FALSE]
Idle == [pc |-> "idle"]

Init ==
    /\ xlRow \in [on : BOOLEAN, transport : {"tcp"}, path : {0}, key : {0}, names : {Snis}]
    /\ xlPeer = [p \in Peers |-> "none"]
    /\ xlConf = NoConf
    /\ xlLinks = {}
    /\ xlTask = [a \in XlAdmins |-> Idle]
    /\ xlShare = Idle
    /\ xlSeq = 0 /\ xlLeft = XlEvents /\ xlRegen = 0 /\ xlMessy = FALSE

Event == xlLeft > 0 /\ xlLeft' = xlLeft - 1
Enabled(peers) == {p \in Peers : peers[p] = "on"}

-----------------------------------------------------------------------------
(* What is rendered *)

\* Peers that are switched off are left out; expires_at is not looked at.
GenerateServerConfig(row, peers) ==
    [up |-> TRUE, transport |-> row.transport, key |-> row.key, names |-> row.names,
     path |-> IF row.transport = "xhttp" THEN row.path ELSE 0, peers |-> Enabled(peers)]
CanGenerate(row) == row.transport = "xhttp" => row.path # 0

ShouldRemainDisabled(row, peers) == ~row.on \/ row.key = 0 \/ Enabled(peers) = {}

\* The first name unless the query asks for another the row has.
PickSni(row, want) == want \in row.names
BuildVlessUrl(row, peer, sni) ==
    [peer |-> peer, transport |-> row.transport, key |-> row.key, sni |-> sni,
     path |-> IF row.transport = "xhttp" THEN row.path ELSE 0, regen |-> xlRegen]
BuildAmneziaJson(row, peer, sni) == BuildVlessUrl(row, peer, sni)
BuildVariants(row, peer) == {BuildVlessUrl(row, peer, sni) : sni \in row.names}
CanBuild(row) == row.key # 0 /\ (row.transport = "xhttp" => row.path # 0)

\* The handshake and the request as Xray-core checks them (external).
Admits(conf, link) ==
    /\ conf.up
    /\ link.key = conf.key /\ link.transport = conf.transport /\ link.path = conf.path
    /\ link.sni \in conf.names /\ link.peer \in conf.peers

-----------------------------------------------------------------------------
(* Admin handlers: the rows, then reconcile_supervisor *)

Begin(a, pc) ==
    /\ Event
    /\ xlTask[a].pc = "idle"
    /\ xlTask' = [xlTask EXCEPT ![a] = [pc |-> pc]]
    /\ xlMessy' = (xlMessy \/ \E b \in XlAdmins : xlTask[b].pc # "idle")
    /\ UNCHANGED <<xlConf, xlLinks, xlShare>>

\* validate_inbound_update: at least one name, a known transport.
ValidateInboundUpdate(names, transport) == names # {} /\ transport \in {"tcp", "xhttp"}

\* A switch to xhttp reads the row first, and makes up a path when there is none.
UpdateInbound(a, on, names) ==
    /\ ValidateInboundUpdate(names, xlRow.transport)
    /\ xlRow' = [xlRow EXCEPT !.on = on, !.names = names]
    /\ Begin(a, "reconcile")
    /\ UNCHANGED <<xlPeer, xlSeq, xlRegen>>
SwitchToTcp(a) ==
    /\ xlRow' = [xlRow EXCEPT !.transport = "tcp"]
    /\ Begin(a, "reconcile")
    /\ UNCHANGED <<xlPeer, xlSeq, xlRegen>>
SwitchToXhttp(a) ==
    /\ Begin(a, IF xlRow.path = 0 THEN "makePath" ELSE "keepPath")
    /\ UNCHANGED <<xlRow, xlPeer, xlSeq, xlRegen>>
SaveXhttp(a) ==
    /\ xlTask[a].pc \in {"makePath", "keepPath"}
    /\ IF xlTask[a].pc = "makePath"
       THEN xlSeq' = xlSeq + 1 /\ xlRow' = [xlRow EXCEPT !.transport = "xhttp", !.path = xlSeq']
       ELSE UNCHANGED xlSeq /\ xlRow' = [xlRow EXCEPT !.transport = "xhttp"]
    /\ xlTask' = [xlTask EXCEPT ![a] = [pc |-> "reconcile"]]
    /\ UNCHANGED <<xlPeer, xlConf, xlLinks, xlShare, xlLeft, xlRegen, xlMessy>>

RegenerateKeys(a) ==
    /\ xlSeq' = xlSeq + 1
    /\ xlRow' = [xlRow EXCEPT !.key = xlSeq']
    /\ Begin(a, "reconcile")
    /\ UNCHANGED <<xlPeer, xlRegen>>
RegenerateXhttpPath(a) ==
    /\ xlSeq' = xlSeq + 1
    /\ xlRow' = [xlRow EXCEPT !.path = xlSeq']
    /\ xlRegen' = xlRegen + 1
    /\ Begin(a, "reconcile")
    /\ UNCHANGED xlPeer

CreatePeer(a, p) ==
    /\ xlPeer[p] = "none"
    /\ xlPeer' = [xlPeer EXCEPT ![p] = "on"]
    /\ Begin(a, "reconcile")
    /\ UNCHANGED <<xlRow, xlSeq, xlRegen>>
UpdatePeer(a, p) ==
    /\ xlPeer[p] \in {"on", "off"}
    /\ xlPeer' = [xlPeer EXCEPT ![p] = IF @ = "on" THEN "off" ELSE "on"]
    /\ Begin(a, "reconcile")
    /\ UNCHANGED <<xlRow, xlSeq, xlRegen>>
DeletePeerWithoutReconcile(a, p) ==
    /\ xlPeer[p] \in {"on", "off"}
    /\ xlPeer' = [xlPeer EXCEPT ![p] = "gone"]
    /\ Begin(a, "idle")
    /\ UNCHANGED <<xlRow, xlSeq, xlRegen>>
DeletePeer(a, p) ==
    /\ xlPeer[p] \in {"on", "off"}
    /\ xlPeer' = [xlPeer EXCEPT ![p] = "gone"]
    /\ Begin(a, "reconcile")
    /\ UNCHANGED <<xlRow, xlSeq, xlRegen>>

ReconcileReads(a) ==
    /\ xlTask[a].pc = "reconcile"
    /\ xlTask' = [xlTask EXCEPT ![a] = [pc |-> "serve",
            conf |-> IF ShouldRemainDisabled(xlRow, xlPeer) THEN NoConf
                     ELSE GenerateServerConfig(xlRow, xlPeer), ok |-> CanGenerate(xlRow)]]
    /\ UNCHANGED <<xlRow, xlPeer, xlConf, xlLinks, xlShare, xlSeq, xlLeft, xlRegen, xlMessy>>
ReconcileServes(a) ==
    /\ xlTask[a].pc = "serve"
    /\ \/ xlTask[a].ok /\ xlConf' = xlTask[a].conf /\ UNCHANGED <<xlLeft, xlMessy>>
       \/ ~xlTask[a].ok /\ UNCHANGED <<xlConf, xlLeft, xlMessy>>
       \/ Event /\ xlMessy' = TRUE /\ UNCHANGED xlConf
    /\ xlTask' = [xlTask EXCEPT ![a] = Idle]
    /\ UNCHANGED <<xlRow, xlPeer, xlLinks, xlShare, xlSeq, xlRegen>>
ReconcileSupervisor(a) == ReconcileReads(a) \/ ReconcileServes(a)

-----------------------------------------------------------------------------
(* Share requests: the peer, then the inbound and the host, then the links *)

LoadForShare(p) ==
    /\ xlShare = Idle
    /\ xlPeer[p] \in {"on", "off"}
    /\ xlShare' = [pc |-> "build", peer |-> p]
    /\ UNCHANGED <<xlRow, xlPeer, xlConf, xlLinks, xlTask, xlSeq, xlLeft, xlRegen, xlMessy>>
Hand(links) ==
    /\ xlShare # Idle
    /\ xlLinks' = IF CanBuild(xlRow) THEN xlLinks \cup links ELSE xlLinks
    /\ xlShare' = Idle
    /\ UNCHANGED <<xlRow, xlPeer, xlConf, xlTask, xlSeq, xlLeft, xlRegen, xlMessy>>
ClientShareUrl(sni) == PickSni(xlRow, sni) /\ Hand({BuildVlessUrl(xlRow, xlShare.peer, sni)})
ClientAmneziaJson(sni) == PickSni(xlRow, sni) /\ Hand({BuildAmneziaJson(xlRow, xlShare.peer, sni)})
ClientVariants == Hand(BuildVariants(xlRow, xlShare.peer))

Next ==
    \/ \E a \in XlAdmins :
        \/ \E on \in BOOLEAN, names \in SUBSET Snis : UpdateInbound(a, on, names)
        \/ SwitchToTcp(a) \/ SwitchToXhttp(a) \/ SaveXhttp(a)
        \/ RegenerateKeys(a) \/ RegenerateXhttpPath(a)
        \/ \E p \in Peers : CreatePeer(a, p) \/ UpdatePeer(a, p) \/ DeletePeer(a, p)
        \/ ReconcileSupervisor(a)
    \/ \E p \in Peers : LoadForShare(p)
    \/ \E sni \in Snis : ClientShareUrl(sni) \/ ClientAmneziaJson(sni)
    \/ ClientVariants

Spec == Init /\ [][Next]_vars

-----------------------------------------------------------------------------

AtRest == \A a \in XlAdmins : xlTask[a].pc = "idle"

\* With the requests one at a time, a link handed out keeps working while its peer, the
\* keypair and the name stay, and nobody regenerated the path: a switch to tcp and back
\* included. A peer that is off or gone is let in by none of its links (update_inbound,
\* generate_server_config, build_vless_url).
LinksAreServed ==
    AtRest /\ ~xlMessy => \A link \in xlLinks :
        /\ xlPeer[link.peer] # "on" => ~Admits(xlConf, link)
        /\ (/\ xlRow.on /\ xlPeer[link.peer] = "on"
            /\ link.key = xlRow.key /\ link.transport = xlRow.transport
            /\ link.sni \in xlRow.names /\ link.regen = xlRegen) => Admits(xlConf, link)
=============================================================================
