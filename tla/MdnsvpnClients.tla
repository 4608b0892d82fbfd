--------------------------- MODULE MdnsvpnClients ---------------------------
(***************************************************************************)
(* MasterDnsVPN clients.  One key serves them all, so a client is revoked   *)
(* only by a delete that also replaces the key.  The handlers run at once:  *)
(* a download reads the client and then the inbound, a delete removes the   *)
(* row, replaces the key and reconciles the server, in separate steps.      *)
(***************************************************************************)
EXTENDS Naturals, FiniteSets

CONSTANTS
    Clients,      \* client ids
    MdAdmins,     \* admin requests that may run at once
    Downloads,    \* downloads that may run at once
    MdKeys,       \* bound: keys ever generated
    MdEvents      \* bound: requests and failing reconciles

VARIABLES
    mdRow,       \* client -> row: none, here or gone, resolvers, socks auth, enabled
    mdKey,       \* encryption_key of the inbound row
    mdServer,    \* the key the running server took from its key file
    mdHeld,      \* what left the server: artifacts with their client and key
    mdAdmin,     \* admin request -> where it is
    mdDl,        \* download -> where it is
    mdLeft,      \* what is left of MdEvents
    mdRevoked,   \* history: clients whose rotating delete answered "revoked"
    mdRaced,     \* history: clients with a download under way when their row went
    mdOverlap    \* history: two admin requests at work at once, or a failed reconcile

vars == <<mdRow, mdKey, mdServer, mdHeld, mdAdmin, mdDl, mdLeft, mdRevoked, mdRaced, mdOverlap>>

Idle == [pc |-> "idle", client |-> 0, key |-> 0, rotate |-> FALSE]
NoDl == [pc |-> "idle", client |-> 0, kind |-> "zip", resolvers |-> "none"]
NoRow == [st |-> "none", resolvers |-> "none", socks |-> FALSE, on |-> TRUE]

Init ==
    /\ mdRow = [c \in Clients |-> NoRow]
    /\ mdKey = 1 /\ mdServer = 1
    /\ mdHeld = {}
    /\ mdAdmin = [a \in MdAdmins |-> Idle]
    /\ mdDl = [d \in Downloads |-> NoDl]
    /\ mdLeft = MdEvents
    /\ mdRevoked = {} /\ mdRaced = {} /\ mdOverlap = FALSE

Event == mdLeft > 0 /\ mdLeft' = mdLeft - 1

-----------------------------------------------------------------------------
(* The artifacts *)

\* An empty column stands for the built-in list.
ClientResolverList(resolvers) == IF resolvers = "none" THEN "default" ELSE resolvers

\* The TOML carries the key and the SOCKS login; resolvers are a file of their own, and
\* the JSON form has no room for them.
RenderClientToml(client, key) == [client |-> client, key |-> key, resolvers |-> "none"]
RenderClientJson(client, key) == [client |-> client, key |-> key, resolvers |-> "none"]
RenderResolversTxt(client, list) == [client |-> client, key |-> 0, resolvers |-> list]
ShareUrl(client, key, list) == [client |-> client, key |-> key, resolvers |-> list]
BundleZip(client, key, list) ==
    [client |-> client, key |-> RenderClientToml(client, key).key,
     resolvers |-> RenderResolversTxt(client, list).resolvers]

RenderBundle(kind, client, key, resolvers) ==
    LET list == ClientResolverList(resolvers)
    IN  CASE kind = "toml" -> RenderClientToml(client, key)
          [] kind = "json" -> RenderClientJson(client, key)
          [] kind = "txt" -> RenderResolversTxt(client, list)
          [] kind \in {"url", "qr"} -> ShareUrl(client, key, list)
          [] kind = "zip" -> BundleZip(client, key, list)

-----------------------------------------------------------------------------
(* Admin handlers *)

\* socks5_pass is required with socks5_user.
CreateClient(c, resolvers, socks) ==
    /\ Event
    /\ mdRow[c].st = "none"       \* ids are never given twice
    /\ mdRow' = [mdRow EXCEPT ![c] = [st |-> "here", resolvers |-> resolvers, socks |-> socks, on |-> TRUE]]
    /\ UNCHANGED <<mdKey, mdServer, mdHeld, mdAdmin, mdDl, mdRevoked, mdRaced, mdOverlap>>

UpdateClient(c, resolvers, on) ==
    /\ Event
    /\ mdRow[c].st = "here"
    /\ mdRow' = [mdRow EXCEPT ![c].resolvers = resolvers, ![c].on = on]
    /\ UNCHANGED <<mdKey, mdServer, mdHeld, mdAdmin, mdDl, mdRevoked, mdRaced, mdOverlap>>

Enter == mdOverlap' = (mdOverlap \/ \E a \in MdAdmins : mdAdmin[a].pc # "idle")

\* The row goes first; without rotateKey that is all.
DeleteClientKeepsKey(a, c, rotate) ==
    /\ Event
    /\ mdAdmin[a].pc = "idle"
    /\ mdRow[c].st = "here"
    /\ mdRow' = [mdRow EXCEPT ![c].st = "gone"]
    /\ mdAdmin' = [mdAdmin EXCEPT ![a] = [Idle EXCEPT !.pc = "read", !.client = c, !.rotate = rotate]]
    /\ Enter
    /\ UNCHANGED <<mdKey, mdServer, mdHeld, mdDl, mdRevoked, mdRaced>>
DeleteClient(a, c, rotate) ==
    /\ Event
    /\ mdAdmin[a].pc = "idle"
    /\ mdRow[c].st = "here"
    /\ mdRow' = [mdRow EXCEPT ![c].st = "gone"]
    /\ mdRaced' = IF \E d \in Downloads : mdDl[d].pc # "idle" /\ mdDl[d].client = c
                  THEN mdRaced \cup {c} ELSE mdRaced
    /\ mdAdmin' = [mdAdmin EXCEPT ![a] = IF rotate
            THEN [Idle EXCEPT !.pc = "rotate", !.client = c, !.rotate = TRUE] ELSE Idle]
    /\ Enter
    /\ UNCHANGED <<mdKey, mdServer, mdHeld, mdDl, mdRevoked>>

RegenerateKey(a) ==
    /\ Event
    /\ mdAdmin[a].pc = "idle"
    /\ mdAdmin' = [mdAdmin EXCEPT ![a] = [Idle EXCEPT !.pc = "rotate"]]
    /\ Enter
    /\ UNCHANGED <<mdRow, mdKey, mdServer, mdHeld, mdDl, mdRevoked, mdRaced>>

\* generate_key: 16 random bytes, never one of an earlier row.
GenerateKey == mdKey + 1
UpdateEncryptionKey(a) ==
    /\ mdAdmin[a].pc = "rotate"
    /\ mdKey < MdKeys
    /\ mdKey' = GenerateKey
    /\ mdAdmin' = [mdAdmin EXCEPT ![a].pc = "read"]
    /\ UNCHANGED <<mdRow, mdServer, mdHeld, mdDl, mdLeft, mdRevoked, mdRaced, mdOverlap>>

\* reconcile_supervisor: the row is read, the key file written and the server restarted
\* on it. A failure is only logged, and the answer is the same.
ReadInbound(a) ==
    /\ mdAdmin[a].pc = "read"
    /\ mdAdmin' = [mdAdmin EXCEPT ![a].pc = "restart", ![a].key = mdKey]
    /\ UNCHANGED <<mdRow, mdKey, mdServer, mdHeld, mdDl, mdLeft, mdRevoked, mdRaced, mdOverlap>>

WriteKeyFileAndRestart(a) ==
    /\ mdAdmin[a].pc = "restart"
    /\ \/ mdServer' = mdAdmin[a].key /\ UNCHANGED <<mdLeft, mdOverlap>>
       \/ Event /\ mdOverlap' = TRUE /\ UNCHANGED mdServer
    /\ mdRevoked' = IF mdAdmin[a].rotate THEN mdRevoked \cup {mdAdmin[a].client} ELSE mdRevoked
    /\ mdAdmin' = [mdAdmin EXCEPT ![a] = Idle]
    /\ UNCHANGED <<mdRow, mdKey, mdHeld, mdDl, mdRaced>>

ReconcileSupervisor(a) == ReadInbound(a) \/ WriteKeyFileAndRestart(a)

-----------------------------------------------------------------------------
(* Downloads *)

\* load_for_share reads the client, then the inbound.
LoadClient(d, c, kind) ==
    /\ Event
    /\ mdDl[d].pc = "idle"
    /\ mdRow[c].st = "here"
    /\ mdDl' = [mdDl EXCEPT ![d] = [pc |-> "inbound", client |-> c, kind |-> kind,
                                    resolvers |-> mdRow[c].resolvers]]
    /\ UNCHANGED <<mdRow, mdKey, mdServer, mdHeld, mdAdmin, mdRevoked, mdRaced, mdOverlap>>

LoadInbound(d) ==
    /\ mdDl[d].pc = "inbound"
    /\ mdHeld' = mdHeld \cup {RenderBundle(mdDl[d].kind, mdDl[d].client, mdKey, mdDl[d].resolvers)}
    /\ mdDl' = [mdDl EXCEPT ![d] = NoDl]
    /\ UNCHANGED <<mdRow, mdKey, mdServer, mdAdmin, mdLeft, mdRevoked, mdRaced, mdOverlap>>

\* The six download endpoints.
ClientConfigToml(d, c) == LoadClient(d, c, "toml")
ClientResolversTxt(d, c) == LoadClient(d, c, "txt")
ClientConfigJson(d, c) == LoadClient(d, c, "json")
ClientShareUrl(d, c) == LoadClient(d, c, "url")
ClientBundleZip(d, c) == LoadClient(d, c, "zip")
ClientQrcode(d, c) == LoadClient(d, c, "qr")

Next ==
    \/ \E c \in Clients :
        \/ \E socks \in BOOLEAN : CreateClient(c, "none", socks)
        \/ (\E on \in BOOLEAN : UpdateClient(c, "own", on))
    \/ \E a \in MdAdmins :
        \/ \E c \in Clients, rotate \in BOOLEAN : DeleteClient(a, c, rotate)
        \/ RegenerateKey(a) \/ UpdateEncryptionKey(a) \/ ReconcileSupervisor(a)
    \/ \E d \in Downloads :
        \/ \E c \in Clients :
            \/ ClientConfigToml(d, c) \/ ClientResolversTxt(d, c) \/ ClientConfigJson(d, c)
            \/ ClientShareUrl(d, c) \/ ClientBundleZip(d, c) \/ ClientQrcode(d, c)
        \/ LoadInbound(d)

Spec == Init /\ [][Next]_vars

-----------------------------------------------------------------------------

\* Once a delete with rotateKey has answered "revoked", nothing that client ever
\* downloaded opens the server, unless a download was under way when its row went, two
\* admin requests ran at once or the reconcile failed (delete_client,
\* update_mdnsvpn_encryption_key, reconcile_supervisor, load_for_share).
RevokedClientIsOut ==
    ~mdOverlap => \A c \in mdRevoked \ mdRaced :
        \A f \in mdHeld : f.client = c => f.key # mdServer
=============================================================================
