--------------------------- MODULE ServicesProofs ---------------------------
(* Machine-checked proofs about the transports' services: revocation of    *)
(* DNS-tunnel clients, rendered credential files, Xray share links,        *)
(* telemt's users, the children of the other transports and TrustTunnel's  *)
(* endpoint.                                                               *)
EXTENDS MCServices, FiniteSetTheorems, NaturalsInduction, WellFoundedInduction, TLAPS

-----------------------------------------------------------------------------
(* MasterDnsVPN clients: any number of clients, admin requests, downloads  *)
(* and rotations of the shared key.                                        *)

(* A client's row.                                                         *)
MdRows == [st : {"none", "here", "gone"}, resolvers : {"none", "own"}, socks : BOOLEAN, on : BOOLEAN]

(* Where an admin's request may stand.                                     *)
MdPcs == {"idle", "rotate", "read", "restart"}

(* What may be downloaded.                                                 *)
DownloadKinds == {"toml", "txt", "json", "url", "zip", "qr"}

(* What an admin's request holds between its steps.                        *)
MdTasks == [pc : MdPcs, client : Clients \cup {0}, key : Nat, rotate : BOOLEAN]

(* The types of the table, the key, the requests and what clients hold.    *)
ClientsTypeOK ==
    /\ mdRow \in [Clients -> MdRows]
    /\ mdKey \in Nat /\ mdServer \in Nat
    /\ mdAdmin \in [MdAdmins -> MdTasks]
    /\ mdDl \in [Downloads -> [pc : {"idle", "inbound"}, client : Clients \cup {0},
                               kind : DownloadKinds, resolvers : {"none", "own"}]]
    /\ mdHeld \subseteq [client : Clients \cup {0}, key : Nat, resolvers : {"none", "own", "default"}]
    /\ \A d \in Downloads : mdDl[d].pc = "inbound" => mdDl[d].client \in Clients
    /\ \A a \in MdAdmins : mdAdmin[a].rotate => mdAdmin[a].client \in Clients /\ mdAdmin[a].pc # "idle"
    /\ mdRevoked \subseteq Clients

(* Keys count upwards: no file holds a key later than the stored one, and  *)
(* while the requests come one at a time the server never runs a later one *)
(* either, and a request that is about to restart it holds the stored one. *)
KeysInv ==
    /\ 1 <= mdServer /\ 1 <= mdKey
    /\ \A a \in MdAdmins : mdAdmin[a].pc = "restart" => 1 <= mdAdmin[a].key
    /\ \A f \in mdHeld : f.key <= mdKey
    /\ ~mdOverlap =>
        /\ mdServer <= mdKey
        /\ \A a, b \in MdAdmins : mdAdmin[a].pc # "idle" /\ mdAdmin[b].pc # "idle" => a = b
        /\ \A a \in MdAdmins : mdAdmin[a].pc = "restart" => mdAdmin[a].key = mdKey

(* A deleted client with no download under way when its row went.          *)
Settled(c) == mdRow[c].st = "gone" /\ c \notin mdRaced

(* No download is under way for such a client: load_for_share finds no     *)
(* row.                                                                    *)
QuietInv == \A c \in Clients : Settled(c) => \A d \in Downloads : mdDl[d].pc = "inbound" => mdDl[d].client # c

(* Everything the client holds is of a key before k.                       *)
OlderThan(c, k) == \A f \in mdHeld : f.client = c => f.key < k

(* Once the key was rotated for a deleted client, what it holds is older   *)
(* than the stored key, and once the delete answered, older than the       *)
(* server's: the step from the first to the second is the reconcile in     *)
(* between.                                                                *)
RevokedInv ==
    /\ \A a \in MdAdmins : mdAdmin[a].rotate => mdRow[mdAdmin[a].client].st = "gone"
    /\ \A c \in mdRevoked : mdRow[c].st = "gone"
    /\ ~mdOverlap =>
        /\ \A a \in MdAdmins : mdAdmin[a].rotate /\ mdAdmin[a].pc \in {"read", "restart"} /\ Settled(mdAdmin[a].client)
                => OlderThan(mdAdmin[a].client, mdKey)
        /\ \A c \in mdRevoked : Settled(c) => OlderThan(c, mdServer)

(* The inductive invariant.                                                *)
ClientsInv == ClientsTypeOK /\ KeysInv /\ QuietInv /\ RevokedInv

(* The updates of a row keep its type.                                     *)
LEMMA RowUpdates ==
    ASSUME NEW r \in MdRows, NEW on \in BOOLEAN
    PROVE  [r EXCEPT !.resolvers = "own", !.on = on] \in MdRows /\ [r EXCEPT !.st = "gone"] \in MdRows
  BY DEF MdRows

(* A request that read the key goes on to the restart with it.             *)
LEMMA TaskUpdates ==
    ASSUME NEW Cl, NEW r \in [pc : MdPcs, client : Cl, key : Nat, rotate : BOOLEAN], NEW k \in Nat
    PROVE  /\ [r EXCEPT !.pc = "restart", !.key = k] \in [pc : MdPcs, client : Cl, key : Nat, rotate : BOOLEAN]
           /\ [r EXCEPT !.pc = "restart", !.key = k].rotate = r.rotate
           /\ [r EXCEPT !.pc = "restart", !.key = k].client = r.client
           /\ [r EXCEPT !.pc = "restart", !.key = k].pc = "restart"
<1>1. [r EXCEPT !.pc = "restart", !.key = k].rotate = r.rotate
  OBVIOUS
<1>2. [r EXCEPT !.pc = "restart", !.key = k].client = r.client
  OBVIOUS
<1>3. [r EXCEPT !.pc = "restart", !.key = k].pc = "restart"
  OBVIOUS
<1>4. [r EXCEPT !.pc = "restart", !.key = k] \in [pc : MdPcs, client : Cl, key : Nat, rotate : BOOLEAN]
  BY DEF MdPcs
<1> QED BY <1>1, <1>2, <1>3, <1>4

(* The request of a delete: it goes on only if it rotates the key.         *)
TaskOf(c, rotate) == IF rotate THEN [MD!Idle EXCEPT !.pc = "rotate", !.client = c, !.rotate = TRUE] ELSE MD!Idle

(* What such a request holds.                                              *)
LEMMA DeleterTask ==
    ASSUME NEW Cl, NEW c \in Cl, 0 \in Cl, NEW rotate \in BOOLEAN
    PROVE  /\ TaskOf(c, rotate) \in [pc : MdPcs, client : Cl, key : Nat, rotate : BOOLEAN]
           /\ TaskOf(c, rotate).pc \in {"rotate", "idle"}
           /\ TaskOf(c, rotate).rotate => TaskOf(c, rotate).client = c /\ TaskOf(c, rotate).pc # "idle"
<1> DEFINE t == [MD!Idle EXCEPT !.pc = "rotate", !.client = c, !.rotate = TRUE]
<1>1. MD!Idle \in [pc : MdPcs, client : Cl, key : Nat, rotate : BOOLEAN]
  BY DEF MD!Idle, MdPcs
<1>2. t \in [pc : MdPcs, client : Cl, key : Nat, rotate : BOOLEAN]
  BY <1>1 DEF MdPcs
<1>3. t.pc = "rotate"
  BY <1>1
<1>4. t.client = c
  BY <1>1
<1>5. MD!Idle.pc = "idle" /\ ~MD!Idle.rotate
  BY DEF MD!Idle
<1> HIDE DEF t
<1>6. CASE rotate
  <2>1. TaskOf(c, rotate) = t
    BY <1>6 DEF TaskOf, t
  <2> QED BY <2>1, <1>2, <1>3, <1>4
<1>7. CASE ~rotate
  <2>1. TaskOf(c, rotate) = MD!Idle
    BY <1>7 DEF TaskOf
  <2> QED BY <2>1, <1>1, <1>5
<1> QED BY <1>6, <1>7

(* What a delete starts.                                                   *)
LEMMA DeleterRuns ==
    ASSUME NEW a \in MdAdmins, NEW c \in Clients, NEW rotate \in BOOLEAN, MD!DeleteClient(a, c, rotate)
    PROVE  /\ mdAdmin' = [mdAdmin EXCEPT ![a] = TaskOf(c, rotate)]
           /\ TaskOf(c, rotate) \in MdTasks
           /\ TaskOf(c, rotate).pc \in {"rotate", "idle"}
           /\ TaskOf(c, rotate).rotate => TaskOf(c, rotate).client = c /\ TaskOf(c, rotate).pc # "idle"
<1>1. mdAdmin' = [mdAdmin EXCEPT ![a] = TaskOf(c, rotate)]
  BY DEF MD!DeleteClient, TaskOf
<1> DEFINE Cl == Clients \cup {0}
<1>2. c \in Cl /\ 0 \in Cl /\ MdTasks = [pc : MdPcs, client : Cl, key : Nat, rotate : BOOLEAN]
  BY DEF MdTasks
<1> HIDE DEF Cl
<1> QED BY <1>1, <1>2, DeleterTask

(* A downloaded bundle is the client's, and holds the stored key or none.  *)
LEMMA BundleOf ==
    ASSUME NEW kind \in DownloadKinds, NEW c, NEW k \in Nat, NEW r \in {"none", "own"}
    PROVE  /\ MD!RenderBundle(kind, c, k, r).client = c
           /\ MD!RenderBundle(kind, c, k, r).key \in {0, k}
           /\ MD!RenderBundle(kind, c, k, r) \in [client : {c}, key : Nat, resolvers : {"none", "own", "default"}]
  BY DEF MD!RenderBundle, DownloadKinds, MD!RenderClientToml, MD!RenderClientJson, MD!RenderResolversTxt,
         MD!ShareUrl, MD!BundleZip, MD!ClientResolverList

(* Every step keeps the types.                                             *)
LEMMA ClientsTypeStep ==
    ASSUME ClientsTypeOK, [MD!Next]_(MD!vars)
    PROVE  ClientsTypeOK'
<1> USE DEF ClientsTypeOK, MdRows, MdPcs, MdTasks
<1>1. ASSUME NEW c \in Clients, NEW socks \in BOOLEAN, MD!CreateClient(c, "none", socks) PROVE ClientsTypeOK'
  BY <1>1 DEF MD!CreateClient, MD!Event
<1>2. ASSUME NEW c \in Clients, NEW on \in BOOLEAN, MD!UpdateClient(c, "own", on) PROVE ClientsTypeOK'
  <2>1. mdRow' = [mdRow EXCEPT ![c].resolvers = "own", ![c].on = on]
        /\ UNCHANGED <<mdKey, mdServer, mdHeld, mdAdmin, mdDl, mdRevoked>>
    BY <1>2 DEF MD!UpdateClient
  <2>2. mdRow' = [mdRow EXCEPT ![c] = [mdRow[c] EXCEPT !.resolvers = "own", !.on = on]]
    BY <2>1
  <2>3. [mdRow[c] EXCEPT !.resolvers = "own", !.on = on] \in MdRows
    <3>1. mdRow[c] \in MdRows
      OBVIOUS
    <3> HIDE DEF MdRows, ClientsTypeOK
    <3> QED BY <3>1, RowUpdates
  <2> QED BY <2>1, <2>2, <2>3
<1>3. ASSUME NEW a \in MdAdmins, NEW c \in Clients, NEW rotate \in BOOLEAN, MD!DeleteClient(a, c, rotate)
      PROVE  ClientsTypeOK'
  <2> DEFINE task == TaskOf(c, rotate)
  <2>1. mdAdmin' = [mdAdmin EXCEPT ![a] = task]
    BY <1>3, DeleterRuns
  <2>2. task \in MdTasks
    BY <1>3, DeleterRuns
  <2>3. task.rotate => task.client \in Clients /\ task.pc # "idle"
    BY <1>3, DeleterRuns
  <2>4. mdRow' = [mdRow EXCEPT ![c].st = "gone"] /\ UNCHANGED <<mdKey, mdServer, mdHeld, mdDl, mdRevoked>>
    BY <1>3 DEF MD!DeleteClient
  <2>5. mdRow' \in [Clients -> MdRows]
    BY <2>4
  <2> HIDE DEF task, MdTasks, MdRows
  <2> QED BY <2>1, <2>2, <2>3, <2>4, <2>5
<1>4. ASSUME NEW a \in MdAdmins, MD!RegenerateKey(a) PROVE ClientsTypeOK'
  BY <1>4 DEF MD!RegenerateKey, MD!Event, MD!Enter, MD!Idle
<1>5. ASSUME NEW a \in MdAdmins, MD!UpdateEncryptionKey(a) PROVE ClientsTypeOK'
  BY <1>5 DEF MD!UpdateEncryptionKey, MD!GenerateKey
<1>6. ASSUME NEW a \in MdAdmins, MD!ReadInbound(a) PROVE ClientsTypeOK'
  <2>1. /\ mdAdmin' = [mdAdmin EXCEPT ![a].pc = "restart", ![a].key = mdKey] /\ mdAdmin[a].pc = "read"
        /\ UNCHANGED <<mdRow, mdKey, mdServer, mdHeld, mdDl, mdRevoked>>
    BY <1>6 DEF MD!ReadInbound
  <2>2. mdAdmin' = [mdAdmin EXCEPT ![a] = [mdAdmin[a] EXCEPT !.pc = "restart", !.key = mdKey]]
    BY <2>1
  <2>3. mdAdmin[a] \in MdTasks
    OBVIOUS
  <2>4. /\ mdAdmin'[a] \in MdTasks /\ mdAdmin'[a].pc = "restart"
        /\ mdAdmin'[a].rotate = mdAdmin[a].rotate /\ mdAdmin'[a].client = mdAdmin[a].client
    <3> DEFINE t == [mdAdmin[a] EXCEPT !.pc = "restart", !.key = mdKey]
    <3>1. t \in MdTasks /\ t.pc = "restart" /\ t.rotate = mdAdmin[a].rotate /\ t.client = mdAdmin[a].client
      BY <2>3, TaskUpdates
    <3>2. mdAdmin'[a] = t
      BY <2>2
    <3> HIDE DEF t, MdTasks
    <3> QED BY <3>1, <3>2
  <2> HIDE DEF MdTasks, MdRows
  <2> QED BY <2>1, <2>2, <2>4
<1>7. ASSUME NEW a \in MdAdmins, MD!WriteKeyFileAndRestart(a) PROVE ClientsTypeOK'
  BY <1>7 DEF MD!WriteKeyFileAndRestart, MD!Event, MD!Idle
<1>8. ASSUME NEW d \in Downloads, NEW c \in Clients, NEW kind \in DownloadKinds, MD!LoadClient(d, c, kind)
      PROVE  ClientsTypeOK'
  BY <1>8 DEF MD!LoadClient, MD!Event
<1>9. ASSUME NEW d \in Downloads, MD!LoadInbound(d) PROVE ClientsTypeOK'
  <2> DEFINE f == MD!RenderBundle(mdDl[d].kind, mdDl[d].client, mdKey, mdDl[d].resolvers)
  <2>1. mdDl[d].client \in Clients /\ mdHeld' = mdHeld \cup {f} /\ mdDl' = [mdDl EXCEPT ![d] = MD!NoDl]
        /\ mdDl[d].pc = "inbound"
        /\ UNCHANGED <<mdRow, mdKey, mdServer, mdAdmin, mdRevoked, mdRaced, mdOverlap>>
    BY <1>9 DEF MD!LoadInbound, ClientsTypeOK
  <2>2. f.client = mdDl[d].client /\ f.key \in {0, mdKey}
        /\ f \in [client : {mdDl[d].client}, key : Nat, resolvers : {"none", "own", "default"}]
    BY BundleOf DEF ClientsTypeOK
  <2> HIDE DEF f
  <2> QED BY <2>1, <2>2 DEF MD!NoDl, DownloadKinds
<1>10. CASE UNCHANGED MD!vars
  BY <1>10 DEF MD!vars
<1> QED
  <2> HIDE DEF ClientsTypeOK, MdRows, MdPcs, MdTasks
  <2> QED BY <1>1, <1>2, <1>3, <1>4, <1>5, <1>6, <1>7, <1>8, <1>9, <1>10
     DEF MD!Next, MD!ReconcileSupervisor, MD!ClientConfigToml, MD!ClientResolversTxt, MD!ClientConfigJson,
         MD!ClientShareUrl, MD!ClientBundleZip, MD!ClientQrcode, DownloadKinds

(* Every step keeps KeysInv.                                               *)
LEMMA KeysStep ==
    ASSUME ClientsTypeOK, KeysInv, [MD!Next]_(MD!vars)
    PROVE  KeysInv'
<1> USE DEF ClientsTypeOK, KeysInv, MdPcs, MdTasks
<1>1. ASSUME NEW c \in Clients, NEW socks \in BOOLEAN, MD!CreateClient(c, "none", socks) PROVE KeysInv'
  BY <1>1 DEF MD!CreateClient, MD!Event
<1>2. ASSUME NEW c \in Clients, NEW on \in BOOLEAN, MD!UpdateClient(c, "own", on) PROVE KeysInv'
  BY <1>2 DEF MD!UpdateClient, MD!Event
<1>3. ASSUME NEW a \in MdAdmins, NEW c \in Clients, NEW rotate \in BOOLEAN, MD!DeleteClient(a, c, rotate)
      PROVE  KeysInv'
  BY <1>3 DEF MD!DeleteClient, MD!Event, MD!Enter, MD!Idle
<1>4. ASSUME NEW a \in MdAdmins, MD!RegenerateKey(a) PROVE KeysInv'
  BY <1>4 DEF MD!RegenerateKey, MD!Event, MD!Enter, MD!Idle
<1>5. ASSUME NEW a \in MdAdmins, MD!UpdateEncryptionKey(a) PROVE KeysInv'
  BY <1>5 DEF MD!UpdateEncryptionKey, MD!GenerateKey
<1>6. ASSUME NEW a \in MdAdmins, MD!ReadInbound(a) PROVE KeysInv'
  BY <1>6 DEF MD!ReadInbound
<1>7. ASSUME NEW a \in MdAdmins, MD!WriteKeyFileAndRestart(a) PROVE KeysInv'
  BY <1>7 DEF MD!WriteKeyFileAndRestart, MD!Event, MD!Idle
<1>8. ASSUME NEW d \in Downloads, NEW c \in Clients, NEW kind \in DownloadKinds, MD!LoadClient(d, c, kind)
      PROVE  KeysInv'
  BY <1>8 DEF MD!LoadClient, MD!Event
<1>9. ASSUME NEW d \in Downloads, MD!LoadInbound(d) PROVE KeysInv'
  <2> DEFINE f == MD!RenderBundle(mdDl[d].kind, mdDl[d].client, mdKey, mdDl[d].resolvers)
  <2>1. mdDl[d].client \in Clients /\ mdHeld' = mdHeld \cup {f} /\ mdDl' = [mdDl EXCEPT ![d] = MD!NoDl]
        /\ mdDl[d].pc = "inbound"
        /\ UNCHANGED <<mdRow, mdKey, mdServer, mdAdmin, mdRevoked, mdRaced, mdOverlap>>
    BY <1>9 DEF MD!LoadInbound, ClientsTypeOK
  <2>2. f.client = mdDl[d].client /\ f.key \in {0, mdKey}
        /\ f \in [client : {mdDl[d].client}, key : Nat, resolvers : {"none", "own", "default"}]
    BY BundleOf DEF ClientsTypeOK
  <2> HIDE DEF f
  <2> QED BY <2>1, <2>2 DEF MD!NoDl, DownloadKinds
<1>10. CASE UNCHANGED MD!vars
  BY <1>10 DEF MD!vars
<1> QED
  <2> HIDE DEF ClientsTypeOK, KeysInv, MdPcs, MdTasks
  <2> QED BY <1>1, <1>2, <1>3, <1>4, <1>5, <1>6, <1>7, <1>8, <1>9, <1>10
     DEF MD!Next, MD!ReconcileSupervisor, MD!ClientConfigToml, MD!ClientResolversTxt, MD!ClientConfigJson,
         MD!ClientShareUrl, MD!ClientBundleZip, MD!ClientQrcode, DownloadKinds

(* Every step keeps QuietInv.                                              *)
LEMMA QuietStep ==
    ASSUME ClientsTypeOK, QuietInv, [MD!Next]_(MD!vars)
    PROVE  QuietInv'
<1> USE DEF ClientsTypeOK, QuietInv, Settled, MdRows
<1>1. ASSUME NEW c \in Clients, NEW socks \in BOOLEAN, MD!CreateClient(c, "none", socks) PROVE QuietInv'
  BY <1>1 DEF MD!CreateClient, MD!Event
<1>2. ASSUME NEW c \in Clients, NEW on \in BOOLEAN, MD!UpdateClient(c, "own", on) PROVE QuietInv'
  BY <1>2 DEF MD!UpdateClient, MD!Event
<1>3. ASSUME NEW a \in MdAdmins, NEW c \in Clients, NEW rotate \in BOOLEAN, MD!DeleteClient(a, c, rotate)
      PROVE  QuietInv'
  BY <1>3 DEF MD!DeleteClient, MD!Event, MD!Enter, MD!Idle
<1>4. ASSUME NEW a \in MdAdmins, MD!RegenerateKey(a) PROVE QuietInv'
  BY <1>4 DEF MD!RegenerateKey, MD!Event, MD!Enter, MD!Idle
<1>5. ASSUME NEW a \in MdAdmins, MD!UpdateEncryptionKey(a) PROVE QuietInv'
  BY <1>5 DEF MD!UpdateEncryptionKey, MD!GenerateKey
<1>6. ASSUME NEW a \in MdAdmins, MD!ReadInbound(a) PROVE QuietInv'
  BY <1>6 DEF MD!ReadInbound
<1>7. ASSUME NEW a \in MdAdmins, MD!WriteKeyFileAndRestart(a) PROVE QuietInv'
  BY <1>7 DEF MD!WriteKeyFileAndRestart, MD!Event, MD!Idle
<1>8. ASSUME NEW d \in Downloads, NEW c \in Clients, NEW kind \in DownloadKinds, MD!LoadClient(d, c, kind)
      PROVE  QuietInv'
  BY <1>8 DEF MD!LoadClient, MD!Event
<1>9. ASSUME NEW d \in Downloads, MD!LoadInbound(d) PROVE QuietInv'
  <2> DEFINE f == MD!RenderBundle(mdDl[d].kind, mdDl[d].client, mdKey, mdDl[d].resolvers)
  <2>1. mdDl[d].client \in Clients /\ mdHeld' = mdHeld \cup {f} /\ mdDl' = [mdDl EXCEPT ![d] = MD!NoDl]
        /\ mdDl[d].pc = "inbound"
        /\ UNCHANGED <<mdRow, mdKey, mdServer, mdAdmin, mdRevoked, mdRaced, mdOverlap>>
    BY <1>9 DEF MD!LoadInbound, ClientsTypeOK
  <2>2. f.client = mdDl[d].client /\ f.key \in {0, mdKey}
        /\ f \in [client : {mdDl[d].client}, key : Nat, resolvers : {"none", "own", "default"}]
    BY BundleOf DEF ClientsTypeOK
  <2> HIDE DEF f
  <2> QED BY <2>1, <2>2 DEF MD!NoDl, DownloadKinds
<1>10. CASE UNCHANGED MD!vars
  BY <1>10 DEF MD!vars
<1> QED
  <2> HIDE DEF ClientsTypeOK, QuietInv, Settled, MdRows
  <2> QED BY <1>1, <1>2, <1>3, <1>4, <1>5, <1>6, <1>7, <1>8, <1>9, <1>10
     DEF MD!Next, MD!ReconcileSupervisor, MD!ClientConfigToml, MD!ClientResolversTxt, MD!ClientConfigJson,
         MD!ClientShareUrl, MD!ClientBundleZip, MD!ClientQrcode, DownloadKinds

(* Every step keeps RevokedInv.                                            *)
LEMMA RevokedStep ==
    ASSUME ClientsTypeOK, KeysInv, QuietInv, RevokedInv, [MD!Next]_(MD!vars)
    PROVE  RevokedInv'
<1> USE DEF ClientsTypeOK, KeysInv, QuietInv, RevokedInv, Settled, OlderThan, MdRows, MdPcs, MdTasks
<1>1. ASSUME NEW c \in Clients, NEW socks \in BOOLEAN, MD!CreateClient(c, "none", socks) PROVE RevokedInv'
  BY <1>1 DEF MD!CreateClient, MD!Event
<1>2. ASSUME NEW c \in Clients, NEW on \in BOOLEAN, MD!UpdateClient(c, "own", on) PROVE RevokedInv'
  BY <1>2 DEF MD!UpdateClient, MD!Event
<1>3. ASSUME NEW a \in MdAdmins, NEW c \in Clients, NEW rotate \in BOOLEAN, MD!DeleteClient(a, c, rotate)
      PROVE  RevokedInv'
  <2> DEFINE task == TaskOf(c, rotate)
  <2>1. mdAdmin' = [mdAdmin EXCEPT ![a] = task] /\ task.pc \in {"rotate", "idle"}
        /\ (task.rotate => task.client = c)
    <3>1. mdAdmin' = [mdAdmin EXCEPT ![a] = task]
      BY <1>3, DeleterRuns
    <3>2. task.pc \in {"rotate", "idle"} /\ (task.rotate => task.client = c)
      BY <1>3, DeleterRuns
    <3> QED BY <3>1, <3>2
  <2>2. /\ mdRow[c].st = "here" /\ mdRow' = [mdRow EXCEPT ![c].st = "gone"]
        /\ mdRaced \subseteq mdRaced' /\ (mdOverlap => mdOverlap')
        /\ UNCHANGED <<mdKey, mdServer, mdHeld, mdDl, mdRevoked>>
    BY <1>3 DEF MD!DeleteClient, MD!Enter
  <2>3. \A d \in Clients : mdRow'[d].st = (IF d = c THEN "gone" ELSE mdRow[d].st)
    BY <2>2
  <2>4. \A b \in MdAdmins : b # a => mdAdmin'[b] = mdAdmin[b]
    BY <2>1
  <2>5. mdAdmin'[a] = task
    BY <2>1
  <2>6. c \notin mdRevoked /\ \A b \in MdAdmins : mdAdmin[b].rotate => mdAdmin[b].client # c
    BY <2>2
  <2> HIDE DEF task
  <2> QED BY <2>1, <2>2, <2>3, <2>4, <2>5, <2>6
<1>4. ASSUME NEW a \in MdAdmins, MD!RegenerateKey(a) PROVE RevokedInv'
  BY <1>4, ZenonT(40) DEF MD!RegenerateKey, MD!Event, MD!Enter, MD!Idle
<1>5. ASSUME NEW a \in MdAdmins, MD!UpdateEncryptionKey(a) PROVE RevokedInv'
  BY <1>5 DEF MD!UpdateEncryptionKey, MD!GenerateKey
<1>6. ASSUME NEW a \in MdAdmins, MD!ReadInbound(a) PROVE RevokedInv'
  BY <1>6 DEF MD!ReadInbound
<1>7. ASSUME NEW a \in MdAdmins, MD!WriteKeyFileAndRestart(a) PROVE RevokedInv'
  BY <1>7 DEF MD!WriteKeyFileAndRestart, MD!Event, MD!Idle
<1>8. ASSUME NEW d \in Downloads, NEW c \in Clients, NEW kind \in DownloadKinds, MD!LoadClient(d, c, kind)
      PROVE  RevokedInv'
  BY <1>8 DEF MD!LoadClient, MD!Event
<1>9. ASSUME NEW d \in Downloads, MD!LoadInbound(d) PROVE RevokedInv'
  <2> DEFINE f == MD!RenderBundle(mdDl[d].kind, mdDl[d].client, mdKey, mdDl[d].resolvers)
  <2>1. mdDl[d].client \in Clients /\ mdHeld' = mdHeld \cup {f} /\ mdDl' = [mdDl EXCEPT ![d] = MD!NoDl]
        /\ mdDl[d].pc = "inbound"
        /\ UNCHANGED <<mdRow, mdKey, mdServer, mdAdmin, mdRevoked, mdRaced, mdOverlap>>
    BY <1>9 DEF MD!LoadInbound, ClientsTypeOK
  <2>2. f.client = mdDl[d].client /\ f.key \in {0, mdKey}
        /\ f \in [client : {mdDl[d].client}, key : Nat, resolvers : {"none", "own", "default"}]
    BY BundleOf DEF ClientsTypeOK
  <2> HIDE DEF f
  <2> QED BY <2>1, <2>2 DEF MD!NoDl, DownloadKinds
<1>10. CASE UNCHANGED MD!vars
  BY <1>10 DEF MD!vars
<1> QED
  <2> HIDE DEF ClientsTypeOK, KeysInv, QuietInv, RevokedInv, Settled, OlderThan, MdRows, MdPcs, MdTasks
  <2> QED BY <1>1, <1>2, <1>3, <1>4, <1>5, <1>6, <1>7, <1>8, <1>9, <1>10
     DEF MD!Next, MD!ReconcileSupervisor, MD!ClientConfigToml, MD!ClientResolversTxt, MD!ClientConfigJson,
         MD!ClientShareUrl, MD!ClientBundleZip, MD!ClientQrcode, DownloadKinds

(* Once a delete with rotateKey has answered, nothing the client ever      *)
(* downloaded opens the server, unless a download was under way when its   *)
(* row went, two admin requests overlapped or a reconcile failed           *)
(* (delete_client, update_mdnsvpn_encryption_key, load_for_share).         *)
THEOREM RevokedClientsStayOut == MD!Spec => []RevokedClientIsOut
<1>1. MD!Init => ClientsInv
  BY DEF MD!Init, ClientsInv, ClientsTypeOK, KeysInv, QuietInv, RevokedInv, MdRows, MdPcs, MdTasks,
         MD!NoRow, MD!Idle, MD!NoDl, DownloadKinds
<1>2. ClientsInv /\ [MD!Next]_(MD!vars) => ClientsInv'
  BY ClientsTypeStep, KeysStep, QuietStep, RevokedStep DEF ClientsInv
<1>3. ClientsInv => RevokedClientIsOut
  BY DEF ClientsInv, ClientsTypeOK, KeysInv, RevokedInv, Settled, OlderThan, RevokedClientIsOut,
         MD!RevokedClientIsOut
<1> QED
  BY <1>1, <1>2, <1>3, PTL DEF MD!Spec

-----------------------------------------------------------------------------
(* Rendered files: any number of writes, failing calls and deaths in the   *)
(* middle of one, by one writer at a time.                                 *)

(* Where a write holds the partial file open.                              *)
Writing == {"block1", "block2", "chmod", "rename"}

(* The types of the directory, the blocks on disk and the writers.         *)
FileTypeOK ==
    /\ sfWrites \in 0..MaxWrites
    /\ sfTarget \in 0..MaxWrites /\ sfPartial \in 0..MaxWrites
    /\ sfData \in [SF!Inodes -> Nat \X Nat]
    /\ sfPc \in [Writers -> {"idle", "open"} \cup Writing]
    /\ sfFd \in [Writers -> 0..MaxWrites]
    /\ sfVer \in [Writers -> Nat]

(* The target is one version, whole, and never the file being written; a   *)
(* writer has written what it is past of.                                  *)
FileInv ==
    /\ sfTarget # 0 => sfTarget # sfPartial /\ \E v \in 1..sfWrites : sfData[sfTarget] = SF!Whole(v)
    /\ \A w \in Writers :
        /\ sfPc[w] # "idle" => sfVer[w] \in 1..sfWrites
        /\ sfPc[w] \in Writing => sfPartial # 0 /\ sfFd[w] = sfPartial
        /\ sfPc[w] = "block2" => sfData[sfPartial][1] = sfVer[w]
        /\ sfPc[w] \in {"chmod", "rename"} => sfData[sfPartial] = SF!Whole(sfVer[w])

(* Writing one block leaves the other alone.                               *)
LEMMA BlockWritten ==
    ASSUME NEW b \in Nat \X Nat, NEW v \in Nat
    PROVE  [b EXCEPT ![1] = v] = <<v, b[2]>> /\ [b EXCEPT ![2] = v] = <<b[1], v>>
  OBVIOUS

(* Every step keeps the types and FileInv, a failing call and a death      *)
(* after any of them included.                                             *)
LEMMA FileStep ==
    ASSUME FileTypeOK, FileInv, MaxWrites \in Nat, \A v, w \in Writers : v = w, [SF!Next]_(SF!vars)
    PROVE  FileTypeOK' /\ FileInv'
<1> USE DEF FileTypeOK, FileInv, Writing, SF!Inodes, SF!Goto, SF!Return
<1>0. \A i \in 1..MaxWrites : i \in 0..MaxWrites
  OBVIOUS
<1>1. ASSUME NEW w \in Writers, SF!WriteAtomic(w) PROVE FileTypeOK' /\ FileInv'
  BY <1>1, SMTT(30) DEF SF!WriteAtomic
<1>2. ASSUME NEW w \in Writers, SF!OpenPartial(w) PROVE FileTypeOK' /\ FileInv'
  <2>1. PICK i \in SF!Inodes : /\ i # 0 /\ i # sfTarget /\ sfPartial' = i
                               /\ sfData' = [sfData EXCEPT ![i] = <<0, 0>>] /\ sfFd' = [sfFd EXCEPT ![w] = i]
    <3>1. CASE sfPartial # 0
      <4>1. sfPartial \in SF!Inodes /\ sfPartial # sfTarget
        BY <3>1
      <4>2. sfPartial' = sfPartial /\ sfData' = [sfData EXCEPT ![sfPartial] = <<0, 0>>]
            /\ sfFd' = [sfFd EXCEPT ![w] = sfPartial]
        BY <1>2, <3>1 DEF SF!OpenPartial, SF!Opened, SF!Empty
      <4> QED BY <3>1, <4>1, <4>2
    <3>2. CASE sfPartial = 0
      <4>1. PICK i \in SF!Inodes : SF!Free(i) /\ SF!Opened(w, i) /\ sfPartial' = i
        BY <1>2, <3>2 DEF SF!OpenPartial
      <4>2. i # 0 /\ i # sfTarget
        BY <4>1 DEF SF!Free
      <4>3. sfData' = [sfData EXCEPT ![i] = <<0, 0>>] /\ sfFd' = [sfFd EXCEPT ![w] = i]
        BY <4>1 DEF SF!Opened, SF!Empty
      <4> HIDE DEF SF!Inodes, FileTypeOK, FileInv
      <4> QED BY <4>1, <4>2, <4>3
    <3> QED BY <3>1, <3>2
  <2>2. sfPc' = [sfPc EXCEPT ![w] = "block1"] /\ sfPc[w] = "open"
        /\ UNCHANGED <<sfTarget, sfWrites, sfFaults, sfVer>>
    BY <1>2 DEF SF!OpenPartial
  <2>3. <<0, 0>> \in Nat \X Nat
    OBVIOUS
  <2>4. sfTarget # 0 => sfData'[sfTarget] = sfData[sfTarget]
    BY <2>1
  <2> QED BY <2>1, <2>2, <2>3, <2>4, <1>0
<1>3. ASSUME NEW w \in Writers, SF!WriteBlock(w) PROVE FileTypeOK' /\ FileInv'
  <2> DEFINE i == sfPartial
  <2>1. i \in SF!Inodes /\ sfFd[w] = i /\ sfVer[w] \in Nat /\ sfData[i] \in Nat \X Nat /\ sfTarget # i
    BY <1>3 DEF SF!WriteBlock
  <2>2. UNCHANGED <<sfTarget, sfPartial, sfWrites, sfFaults, sfFd, sfVer>>
    BY <1>3 DEF SF!WriteBlock
  <2>3. CASE sfPc[w] = "block1"
    <3>1. sfData' = [sfData EXCEPT ![i] = <<sfVer[w], sfData[i][2]>>] /\ sfPc' = [sfPc EXCEPT ![w] = "block2"]
      BY <1>3, <2>1, <2>3, BlockWritten DEF SF!WriteBlock
    <3>2. <<sfVer[w], sfData[i][2]>> \in Nat \X Nat /\ <<sfVer[w], sfData[i][2]>>[1] = sfVer[w]
      BY <2>1
    <3> QED BY <2>1, <2>2, <2>3, <3>1, <3>2, SMTT(30)
  <2>4. CASE sfPc[w] = "block2"
    <3>1. sfData' = [sfData EXCEPT ![i] = <<sfData[i][1], sfVer[w]>>] /\ sfPc' = [sfPc EXCEPT ![w] = "chmod"]
      BY <1>3, <2>1, <2>4, BlockWritten DEF SF!WriteBlock
    <3>2. <<sfData[i][1], sfVer[w]>> \in Nat \X Nat /\ <<sfData[i][1], sfVer[w]>> = SF!Whole(sfVer[w])
      BY <2>1, <2>4 DEF SF!Whole
    <3> QED BY <2>1, <2>2, <2>4, <3>1, <3>2
  <2> QED BY <1>3, <2>3, <2>4 DEF SF!WriteBlock
<1>4. ASSUME NEW w \in Writers, SF!Chmod(w) PROVE FileTypeOK' /\ FileInv'
  BY <1>4 DEF SF!Chmod
<1>5. ASSUME NEW w \in Writers, SF!Rename(w) PROVE FileTypeOK' /\ FileInv'
  <2>1. sfPartial # 0 /\ sfVer[w] \in 1..sfWrites /\ sfData[sfPartial] = SF!Whole(sfVer[w])
    BY <1>5 DEF SF!Rename
  <2>2. sfTarget' = sfPartial /\ sfPartial' = 0 /\ sfPc' = [sfPc EXCEPT ![w] = "idle"]
        /\ sfFd' = [sfFd EXCEPT ![w] = 0] /\ sfVer' = [sfVer EXCEPT ![w] = 0] /\ UNCHANGED <<sfData, sfWrites>>
    BY <1>5, <2>1 DEF SF!Rename
  <2>3. \A v \in Writers : sfPc'[v] = "idle"
    BY <2>2
  <2>4. FileTypeOK'
    BY <2>2
  <2> QED BY <2>1, <2>2, <2>3, <2>4
<1>6. ASSUME NEW w \in Writers, SF!IoError(w) PROVE FileTypeOK' /\ FileInv'
  BY <1>6, SMTT(30) DEF SF!IoError
<1>7. ASSUME SF!Crash PROVE FileTypeOK' /\ FileInv'
  BY <1>7 DEF SF!Crash
<1>8. ASSUME UNCHANGED SF!vars PROVE FileTypeOK' /\ FileInv'
  BY <1>8 DEF SF!vars
<1> QED
  BY <1>1, <1>2, <1>3, <1>4, <1>5, <1>6, <1>7, <1>8 DEF SF!Next

(* A reader finds no file or one version, whole, wherever a call failed or *)
(* the service died, as long as one write to a path runs at a time         *)
(* (write_atomic).                                                         *)
THEOREM FilesAreWhole ==
    ASSUME MaxWrites \in Nat, \A v, w \in Writers : v = w
    PROVE  SF!Spec => []ReaderSeesWhole
<1>1. SF!Init => FileTypeOK /\ FileInv
  BY DEF SF!Init, FileTypeOK, FileInv, SF!Inodes, SF!Empty, Writing
<1>2. FileTypeOK /\ FileInv /\ [SF!Next]_(SF!vars) => (FileTypeOK /\ FileInv)'
  BY FileStep
<1>3. FileTypeOK /\ FileInv => ReaderSeesWhole
  BY DEF FileInv, ReaderSeesWhole, SF!ReaderSeesWhole
<1> QED
  BY <1>1, <1>2, <1>3, PTL DEF SF!Spec

-----------------------------------------------------------------------------
(* Xray share links: any number of peers, names and admin requests.        *)

(* The links that may be handed out.                                       *)
LinkSet == [peer : Peers, transport : {"tcp", "xhttp"}, key : Nat \ {0}, sni : Snis, path : Nat, regen : Nat]

(* The inbound's row.                                                      *)
InboundRows == [on : BOOLEAN, transport : {"tcp", "xhttp"}, path : Nat, key : Nat, names : SUBSET Snis]

(* The types of the row, the peers, the links and the share under way.     *)
LinksTypeOK ==
    /\ xlRow \in InboundRows
    /\ xlPeer \in [Peers -> {"none", "on", "off", "gone"}]
    /\ xlLinks \subseteq LinkSet
    /\ DOMAIN xlTask = XlAdmins
    /\ xlSeq \in Nat /\ xlRegen \in Nat /\ xlMessy \in BOOLEAN
    /\ xlShare # XL!Idle => xlShare.peer \in Peers

(* An xhttp inbound has a path, also between the steps of an update that   *)
(* is about to become one; links carry a path exactly when they are xhttp  *)
(* ones.                                                                   *)
PathInv ==
    /\ xlRow.transport = "xhttp" => xlRow.path # 0
    /\ \A a \in XlAdmins : xlTask[a].pc = "keepPath" => xlRow.path # 0
    /\ \A link \in xlLinks :
        /\ link.regen <= xlRegen
        /\ link.transport = "tcp" => link.path = 0
        /\ link.transport = "xhttp" => link.path # 0

(* What the server file would be for the row and the peers as they are.    *)
Rendered == IF XL!ShouldRemainDisabled(xlRow, xlPeer) THEN XL!NoConf ELSE XL!GenerateServerConfig(xlRow, xlPeer)

(* With one request at a time: one that is about to serve holds the file   *)
(* for the row as it is, at rest that file is served, and a link made      *)
(* since the last regeneration has the row's path.                         *)
ServingInv == ~xlMessy =>
    /\ \A a, b \in XlAdmins : xlTask[a].pc # "idle" /\ xlTask[b].pc # "idle" => a = b
    /\ \A a \in XlAdmins : xlTask[a].pc = "makePath" => xlRow.path = 0
    /\ \A a \in XlAdmins : xlTask[a].pc = "serve" => xlTask[a].ok /\ xlTask[a].conf = Rendered
    /\ XL!AtRest => xlConf = Rendered
    /\ \A link \in xlLinks : link.transport = "xhttp" /\ link.regen = xlRegen => link.path = xlRow.path

(* The inductive invariant.                                                *)
LinksInv == LinksTypeOK /\ PathInv /\ ServingInv

(* What the updates of the row change, and that they keep its type.        *)
LEMMA InboundUpdates ==
    ASSUME NEW r \in InboundRows
    PROVE  /\ LET q == [r EXCEPT !.transport = "tcp"] IN q \in InboundRows /\ q.path = r.path /\ q.transport = "tcp"
           /\ LET q == [r EXCEPT !.transport = "xhttp"] IN q \in InboundRows /\ q.path = r.path
           /\ \A k \in Nat : LET q == [r EXCEPT !.key = k]
                             IN  q \in InboundRows /\ q.path = r.path /\ q.transport = r.transport
           /\ \A k \in Nat : LET q == [r EXCEPT !.path = k] IN q \in InboundRows /\ q.path = k
           /\ \A k \in Nat : LET q == [r EXCEPT !.transport = "xhttp", !.path = k]
                             IN  q \in InboundRows /\ q.path = k
<1> USE DEF InboundRows
<1>1. LET q == [r EXCEPT !.transport = "tcp"] IN q \in InboundRows /\ q.path = r.path /\ q.transport = "tcp"
  OBVIOUS
<1>2. LET q == [r EXCEPT !.transport = "xhttp"] IN q \in InboundRows /\ q.path = r.path
  OBVIOUS
<1>3. \A k \in Nat : LET q == [r EXCEPT !.key = k] IN q \in InboundRows /\ q.path = r.path /\ q.transport = r.transport
  OBVIOUS
<1>4. \A k \in Nat : LET q == [r EXCEPT !.path = k] IN q \in InboundRows /\ q.path = k
  OBVIOUS
<1>5. \A k \in Nat : LET q == [r EXCEPT !.transport = "xhttp", !.path = k] IN q \in InboundRows /\ q.path = k
  OBVIOUS
<1> HIDE DEF InboundRows
<1> QED BY <1>1, <1>2, <1>3, <1>4, <1>5

(* A request that changes the row or a peer and goes on to a reconcile     *)
(* keeps LinksInv, provided the path changes only with a regeneration.     *)
LEMMA Begun ==
    ASSUME LinksInv, NEW a \in XlAdmins, NEW l \in {"reconcile", "makePath", "keepPath"}, XL!Begin(a, l),
           xlRow' \in InboundRows, xlPeer' \in [Peers -> {"none", "on", "off", "gone"}],
           xlSeq' \in Nat, xlRegen' \in Nat, xlRegen <= xlRegen',
           xlRow'.transport = "xhttp" => xlRow'.path # 0,
           xlRow.path # 0 => xlRow'.path # 0,
           xlRegen' = xlRegen => xlRow'.path = xlRow.path,
           l = "keepPath" => xlRow'.path # 0,
           l = "makePath" => xlRow'.path = 0
    PROVE  LinksInv'
<1>1. xlTask' = [xlTask EXCEPT ![a] = [pc |-> l]] /\ xlTask[a].pc = "idle"
      /\ UNCHANGED <<xlConf, xlLinks, xlShare>>
  BY DEF XL!Begin
<1>2. xlMessy' \in BOOLEAN /\ (~xlMessy' => ~xlMessy /\ \A b \in XlAdmins : xlTask[b].pc = "idle")
  BY DEF XL!Begin, LinksInv, LinksTypeOK
<1>3. /\ DOMAIN xlTask' = XlAdmins /\ xlTask'[a].pc = l
      /\ \A b \in XlAdmins : b # a => xlTask'[b] = xlTask[b]
  BY <1>1 DEF LinksInv, LinksTypeOK
<1>4. LinksTypeOK'
  BY <1>1, <1>2, <1>3 DEF LinksInv, LinksTypeOK
<1>5. PathInv'
  <2>1. \A link \in xlLinks : link.regen \in Nat
    BY DEF LinksInv, LinksTypeOK, LinkSet
  <2> QED BY <1>1, <1>3, <2>1 DEF LinksInv, PathInv, LinksTypeOK
<1>6. ServingInv'
  <2> SUFFICES ASSUME ~xlMessy' PROVE ServingInv'
    BY DEF ServingInv
  <2>1. \A b \in XlAdmins : b # a => xlTask'[b].pc = "idle"
    BY <1>2, <1>3
  <2>2. ~XL!AtRest'
    BY <1>3 DEF XL!AtRest
  <2>3. \A link \in xlLinks : link.transport = "xhttp" /\ link.regen = xlRegen' => link.path = xlRow'.path
    <3> SUFFICES ASSUME NEW link \in xlLinks, link.transport = "xhttp", link.regen = xlRegen'
                 PROVE  link.path = xlRow'.path
      OBVIOUS
    <3>1. link.regen = xlRegen /\ xlRegen' = xlRegen
      BY DEF LinksInv, LinksTypeOK, LinkSet, PathInv
    <3> QED BY <1>2, <3>1 DEF LinksInv, ServingInv
  <2> QED BY <1>1, <1>3, <2>1, <2>2, <2>3 DEF ServingInv
<1> QED BY <1>4, <1>5, <1>6 DEF LinksInv

(* Handing out links built from the row keeps LinksInv.                    *)
LEMMA Shared ==
    ASSUME LinksInv, NEW links, XL!Hand(links),
           \A link \in links : \E sni \in xlRow.names : link = XL!BuildVlessUrl(xlRow, xlShare.peer, sni)
    PROVE  LinksInv'
<1>1. /\ xlShare # XL!Idle /\ xlShare' = XL!Idle
      /\ UNCHANGED <<xlRow, xlPeer, xlConf, xlTask, xlSeq, xlLeft, xlRegen, xlMessy>>
      /\ xlLinks' = IF XL!CanBuild(xlRow) THEN xlLinks \cup links ELSE xlLinks
  BY DEF XL!Hand
<1>2. \A link \in links : XL!CanBuild(xlRow) =>
        /\ link \in LinkSet /\ link.regen = xlRegen
        /\ link.transport = "tcp" => link.path = 0
        /\ link.transport = "xhttp" => link.path # 0 /\ link.path = xlRow.path
  <2> SUFFICES ASSUME NEW link \in links, XL!CanBuild(xlRow)
               PROVE  /\ link \in LinkSet /\ link.regen = xlRegen
                      /\ link.transport = "tcp" => link.path = 0
                      /\ link.transport = "xhttp" => link.path # 0 /\ link.path = xlRow.path
    OBVIOUS
  <2>1. PICK sni \in xlRow.names : link = XL!BuildVlessUrl(xlRow, xlShare.peer, sni)
    OBVIOUS
  <2>2. /\ xlRow.transport \in {"tcp", "xhttp"} /\ xlRow.path \in Nat /\ xlRow.key \in Nat /\ sni \in Snis
        /\ xlShare.peer \in Peers /\ xlRegen \in Nat
    BY <1>1, <2>1 DEF LinksInv, LinksTypeOK, InboundRows
  <2> QED BY <2>1, <2>2 DEF XL!BuildVlessUrl, XL!CanBuild, LinkSet
<1>3. \A link \in xlLinks' : link \in xlLinks \/ (link \in links /\ XL!CanBuild(xlRow))
  <2>1. CASE XL!CanBuild(xlRow)
    BY <1>1, <2>1
  <2>2. CASE ~XL!CanBuild(xlRow)
    <3>1. xlLinks' = xlLinks
      BY <2>2 DEF XL!Hand
    <3> QED BY <3>1
  <2> QED BY <2>1, <2>2
<1>4. LinksTypeOK' /\ PathInv'
  <2> HIDE DEF LinkSet
  <2> QED BY <1>1, <1>2, <1>3 DEF LinksInv, LinksTypeOK, PathInv
<1>5. ServingInv'
  <2>1. Rendered' = Rendered /\ XL!AtRest' = XL!AtRest
    BY <1>1 DEF Rendered, XL!AtRest, XL!ShouldRemainDisabled, XL!GenerateServerConfig, XL!Enabled
  <2> HIDE DEF Rendered
  <2> QED BY <1>1, <1>2, <1>3, <2>1 DEF LinksInv, ServingInv
<1> QED BY <1>4, <1>5 DEF LinksInv

(* Every step keeps LinksInv.                                              *)
LEMMA LinksStep ==
    ASSUME LinksInv, [XL!Next]_(XL!vars)
    PROVE  LinksInv'
<1>0. /\ xlRow \in InboundRows /\ xlRow.path \in Nat /\ xlSeq \in Nat /\ xlRegen \in Nat
      /\ xlPeer \in [Peers -> {"none", "on", "off", "gone"}] /\ (xlRow.transport = "xhttp" => xlRow.path # 0)
  BY DEF LinksInv, LinksTypeOK, PathInv, InboundRows
<1>1. ASSUME NEW a \in XlAdmins, NEW on \in BOOLEAN, NEW names \in SUBSET Snis, XL!UpdateInbound(a, on, names)
      PROVE  LinksInv'
  <2>1. xlRow' = [xlRow EXCEPT !.on = on, !.names = names] /\ UNCHANGED <<xlPeer, xlSeq, xlRegen>>
        /\ XL!Begin(a, "reconcile")
    BY <1>1 DEF XL!UpdateInbound
  <2>2. xlRow' \in InboundRows /\ xlRow'.path = xlRow.path /\ xlRow'.transport = xlRow.transport
    BY <1>0, <2>1 DEF InboundRows
  <2> QED BY <1>0, <2>1, <2>2, Begun
<1>2. ASSUME NEW a \in XlAdmins, XL!SwitchToTcp(a) PROVE LinksInv'
  <2>1. xlRow' = [xlRow EXCEPT !.transport = "tcp"] /\ UNCHANGED <<xlPeer, xlSeq, xlRegen>>
        /\ XL!Begin(a, "reconcile")
    BY <1>2 DEF XL!SwitchToTcp
  <2>2. xlRow' \in InboundRows /\ xlRow'.path = xlRow.path /\ xlRow'.transport = "tcp"
    BY <1>0, <2>1, InboundUpdates
  <2> QED BY <1>0, <2>1, <2>2, Begun
<1>3. ASSUME NEW a \in XlAdmins, XL!SwitchToXhttp(a) PROVE LinksInv'
  BY <1>0, <1>3, Begun DEF XL!SwitchToXhttp
<1>4. ASSUME NEW a \in XlAdmins, XL!SaveXhttp(a) PROVE LinksInv'
  <2>1. /\ xlTask' = [xlTask EXCEPT ![a] = [pc |-> "reconcile"]] /\ xlTask[a].pc \in {"makePath", "keepPath"}
        /\ UNCHANGED <<xlPeer, xlConf, xlLinks, xlShare, xlLeft, xlRegen, xlMessy>>
    BY <1>4 DEF XL!SaveXhttp
  <2>2. /\ DOMAIN xlTask' = XlAdmins /\ xlTask'[a].pc = "reconcile"
        /\ \A b \in XlAdmins : b # a => xlTask'[b] = xlTask[b]
    BY <2>1 DEF LinksInv, LinksTypeOK
  <2>3. /\ xlRow' \in InboundRows /\ xlRow'.path # 0 /\ xlSeq' \in Nat
        /\ (xlTask[a].pc = "keepPath" => xlRow'.path = xlRow.path)
    <3>1. CASE xlTask[a].pc = "makePath"
      <4>1. xlSeq' = xlSeq + 1 /\ xlRow' = [xlRow EXCEPT !.transport = "xhttp", !.path = xlSeq + 1]
        BY <1>4, <3>1 DEF XL!SaveXhttp
      <4>2. xlSeq + 1 \in Nat /\ xlSeq + 1 # 0
        BY <1>0
      <4> QED BY <3>1, <4>1, <4>2, <1>0, InboundUpdates
    <3>2. CASE xlTask[a].pc = "keepPath"
      <4>1. xlSeq' = xlSeq /\ xlRow' = [xlRow EXCEPT !.transport = "xhttp"] /\ xlRow.path # 0
        BY <1>4, <3>2 DEF XL!SaveXhttp, LinksInv, PathInv
      <4> QED BY <3>2, <4>1, <1>0, InboundUpdates
    <3> QED BY <2>1, <3>1, <3>2
  <2>4. LinksTypeOK' /\ PathInv'
    BY <2>1, <2>2, <2>3 DEF LinksInv, LinksTypeOK, PathInv
  <2>5. ServingInv'
    <3> SUFFICES ASSUME ~xlMessy' PROVE ServingInv'
      BY DEF ServingInv
    <3>1. \A b \in XlAdmins : b # a => xlTask'[b].pc = "idle"
      BY <2>1, <2>2 DEF LinksInv, ServingInv
    <3>2. ~XL!AtRest'
      BY <2>2 DEF XL!AtRest
    <3>3. \A link \in xlLinks : link.transport = "xhttp" /\ link.regen = xlRegen => link.path = xlRow'.path
      BY <2>1, <2>3 DEF LinksInv, ServingInv, PathInv
    <3> QED BY <2>1, <2>2, <3>1, <3>2, <3>3 DEF ServingInv
  <2> QED BY <2>4, <2>5 DEF LinksInv
<1>5. ASSUME NEW a \in XlAdmins, XL!RegenerateKeys(a) PROVE LinksInv'
  <2>1. xlSeq' = xlSeq + 1 /\ xlSeq' \in Nat /\ xlRow' = [xlRow EXCEPT !.key = xlSeq']
        /\ UNCHANGED <<xlPeer, xlRegen>>
    BY <1>0, <1>5 DEF XL!RegenerateKeys
  <2>2. xlRow' \in InboundRows /\ xlRow'.path = xlRow.path /\ xlRow'.transport = xlRow.transport
    BY <1>0, <2>1, InboundUpdates, ZenonT(40)
  <2> QED BY <1>0, <1>5, <2>1, <2>2, Begun DEF XL!RegenerateKeys
<1>6. ASSUME NEW a \in XlAdmins, XL!RegenerateXhttpPath(a) PROVE LinksInv'
  <2>1. /\ xlSeq' = xlSeq + 1 /\ xlSeq' \in Nat /\ xlSeq' # 0 /\ xlRow' = [xlRow EXCEPT !.path = xlSeq']
        /\ UNCHANGED xlPeer /\ xlRegen' = xlRegen + 1
    BY <1>0, <1>6 DEF XL!RegenerateXhttpPath
  <2>2. xlRow' \in InboundRows /\ xlRow'.path # 0
    BY <1>0, <2>1, InboundUpdates
  <2>3. xlRegen' \in Nat /\ xlRegen <= xlRegen' /\ xlRegen' # xlRegen
    BY <1>0, <2>1
  <2> QED BY <1>0, <1>6, <2>1, <2>2, <2>3, Begun DEF XL!RegenerateXhttpPath
<1>7. ASSUME NEW a \in XlAdmins, NEW p \in Peers, XL!CreatePeer(a, p) \/ XL!UpdatePeer(a, p) \/ XL!DeletePeer(a, p)
      PROVE  LinksInv'
  <2>1. xlPeer' \in [Peers -> {"none", "on", "off", "gone"}] /\ UNCHANGED <<xlRow, xlSeq, xlRegen>>
        /\ XL!Begin(a, "reconcile")
    BY <1>0, <1>7 DEF XL!CreatePeer, XL!UpdatePeer, XL!DeletePeer
  <2> QED BY <1>0, <2>1, Begun
<1>8. ASSUME NEW a \in XlAdmins, XL!ReconcileReads(a) PROVE LinksInv'
  <2> DEFINE t == [pc |-> "serve", conf |-> Rendered, ok |-> XL!CanGenerate(xlRow)]
  <2>1. /\ xlTask' = [xlTask EXCEPT ![a] = t] /\ xlTask[a].pc = "reconcile"
        /\ UNCHANGED <<xlRow, xlPeer, xlConf, xlLinks, xlShare, xlSeq, xlLeft, xlRegen, xlMessy>>
    BY <1>8 DEF XL!ReconcileReads, Rendered
  <2>2. t.pc = "serve" /\ t.conf = Rendered /\ t.ok
    BY <1>0 DEF XL!CanGenerate
  <2> HIDE DEF t
  <2>3. /\ DOMAIN xlTask' = XlAdmins /\ xlTask'[a] = t
        /\ \A b \in XlAdmins : b # a => xlTask'[b] = xlTask[b]
    BY <2>1 DEF LinksInv, LinksTypeOK
  <2>4. Rendered' = Rendered
    BY <2>1 DEF Rendered, XL!ShouldRemainDisabled, XL!GenerateServerConfig, XL!Enabled
  <2>5. LinksTypeOK' /\ PathInv'
    BY <2>1, <2>2, <2>3 DEF LinksInv, LinksTypeOK, PathInv
  <2>6. ~XL!AtRest'
    BY <2>2, <2>3 DEF XL!AtRest
  <2>7. ServingInv'
    <3> HIDE DEF Rendered
    <3> QED BY <2>1, <2>2, <2>3, <2>4, <2>6 DEF LinksInv, ServingInv
  <2> QED BY <2>5, <2>7 DEF LinksInv
<1>9. ASSUME NEW a \in XlAdmins, XL!ReconcileServes(a) PROVE LinksInv'
  <2>1. /\ xlTask' = [xlTask EXCEPT ![a] = [pc |-> "idle"]] /\ xlTask[a].pc = "serve"
        /\ UNCHANGED <<xlRow, xlPeer, xlLinks, xlShare, xlSeq, xlRegen>>
    BY <1>9 DEF XL!ReconcileServes, XL!Idle
  <2>2. xlMessy' \in BOOLEAN /\ (~xlMessy' => ~xlMessy /\ (xlTask[a].ok => xlConf' = xlTask[a].conf))
    BY <1>9 DEF XL!ReconcileServes, LinksInv, LinksTypeOK
  <2>3. /\ DOMAIN xlTask' = XlAdmins /\ xlTask'[a].pc = "idle"
        /\ \A b \in XlAdmins : b # a => xlTask'[b] = xlTask[b]
    BY <2>1 DEF LinksInv, LinksTypeOK
  <2>4. Rendered' = Rendered
    BY <2>1 DEF Rendered, XL!ShouldRemainDisabled, XL!GenerateServerConfig, XL!Enabled
  <2>5. LinksTypeOK' /\ PathInv'
    BY <2>1, <2>2, <2>3 DEF LinksInv, LinksTypeOK, PathInv
  <2>6. ServingInv'
    <3> HIDE DEF Rendered
    <3> SUFFICES ASSUME ~xlMessy' PROVE ServingInv'
      BY DEF ServingInv
    <3>1. xlConf' = Rendered /\ \A b \in XlAdmins : xlTask'[b].pc = "idle"
      BY <2>1, <2>2, <2>3 DEF LinksInv, ServingInv
    <3> QED BY <2>1, <2>2, <2>4, <3>1 DEF LinksInv, ServingInv
  <2> QED BY <2>5, <2>6 DEF LinksInv
<1>10. ASSUME NEW p \in Peers, XL!LoadForShare(p) PROVE LinksInv'
  <2>1. /\ xlShare' = [pc |-> "build", peer |-> p]
        /\ UNCHANGED <<xlRow, xlPeer, xlConf, xlLinks, xlTask, xlSeq, xlLeft, xlRegen, xlMessy>>
    BY <1>10 DEF XL!LoadForShare
  <2>2. Rendered' = Rendered /\ XL!AtRest' = XL!AtRest
    BY <2>1 DEF Rendered, XL!AtRest, XL!ShouldRemainDisabled, XL!GenerateServerConfig, XL!Enabled
  <2>3. LinksTypeOK' /\ PathInv'
    BY <2>1 DEF LinksInv, LinksTypeOK, PathInv
  <2>4. ServingInv'
    <3> HIDE DEF Rendered
    <3> QED BY <2>1, <2>2 DEF LinksInv, ServingInv
  <2> QED BY <2>3, <2>4 DEF LinksInv
<1>11. ASSUME NEW sni \in Snis, XL!ClientShareUrl(sni) \/ XL!ClientAmneziaJson(sni) PROVE LinksInv'
  BY <1>11, Shared DEF XL!ClientShareUrl, XL!ClientAmneziaJson, XL!BuildAmneziaJson, XL!PickSni
<1>12. ASSUME XL!ClientVariants PROVE LinksInv'
  BY <1>12, Shared DEF XL!ClientVariants, XL!BuildVariants
<1>13. ASSUME UNCHANGED XL!vars PROVE LinksInv'
  <2>1. Rendered' = Rendered /\ XL!AtRest' = XL!AtRest
    BY <1>13 DEF XL!vars, Rendered, XL!AtRest, XL!ShouldRemainDisabled, XL!GenerateServerConfig, XL!Enabled
  <2>2. LinksTypeOK' /\ PathInv'
    BY <1>13 DEF XL!vars, LinksInv, LinksTypeOK, PathInv
  <2>3. ServingInv'
    <3> HIDE DEF Rendered
    <3> QED BY <1>13, <2>1 DEF XL!vars, LinksInv, ServingInv
  <2> QED BY <2>2, <2>3 DEF LinksInv
<1> QED
  BY <1>1, <1>2, <1>3, <1>4, <1>5, <1>6, <1>7, <1>8, <1>9, <1>10, <1>11, <1>12, <1>13
     DEF XL!Next, XL!ReconcileSupervisor

(* With the requests one at a time, a link keeps working while its peer,   *)
(* the keypair and the name stay and nobody regenerated the path, a switch *)
(* to tcp and back included; a peer that is off or gone is let in by none  *)
(* (update_inbound, generate_server_config, build_vless_url).              *)
THEOREM LinksStayGood == XL!Spec => []LinksAreServed
<1>1. XL!Init => LinksInv
  <2> SUFFICES ASSUME XL!Init PROVE LinksInv
    OBVIOUS
  <2>1. LinksTypeOK /\ PathInv
    <3>1. xlRow \in InboundRows /\ xlRow.transport = "tcp"
      BY DEF XL!Init, InboundRows
    <3>2. xlLinks = {} /\ DOMAIN xlTask = XlAdmins /\ \A a \in XlAdmins : xlTask[a].pc = "idle"
      BY DEF XL!Init, XL!Idle
    <3> QED BY <3>1, <3>2 DEF XL!Init, LinksTypeOK, PathInv
  <2>2. Rendered = XL!NoConf /\ xlConf = XL!NoConf
    BY DEF XL!Init, Rendered, XL!ShouldRemainDisabled
  <2>3. ServingInv
    <3> HIDE DEF Rendered
    <3> QED BY <2>2 DEF XL!Init, ServingInv, XL!Idle
  <2> QED BY <2>1, <2>3 DEF LinksInv
<1>2. LinksInv /\ [XL!Next]_(XL!vars) => LinksInv'
  BY LinksStep
<1>3. LinksInv => LinksAreServed
  <2> SUFFICES ASSUME LinksInv, XL!AtRest, ~xlMessy, NEW link \in xlLinks
      PROVE  /\ xlPeer[link.peer] # "on" => ~XL!Admits(xlConf, link)
             /\ (/\ xlRow.on /\ xlPeer[link.peer] = "on"
                 /\ link.key = xlRow.key /\ link.transport = xlRow.transport
                 /\ link.sni \in xlRow.names /\ link.regen = xlRegen) => XL!Admits(xlConf, link)
    BY DEF LinksAreServed, XL!LinksAreServed
  <2>1. /\ xlConf = Rendered /\ link.peer \in Peers /\ link.key # 0 /\ link.transport \in {"tcp", "xhttp"}
        /\ (link.transport = "tcp" => link.path = 0)
        /\ (link.transport = "xhttp" /\ link.regen = xlRegen => link.path = xlRow.path)
    BY DEF LinksInv, ServingInv, LinksTypeOK, LinkSet, PathInv
  <2>2. CASE XL!ShouldRemainDisabled(xlRow, xlPeer)
    <3>1. ~xlConf.up
      BY <2>1, <2>2 DEF Rendered, XL!NoConf
    <3>2. ~XL!Admits(xlConf, link)
      BY <3>1 DEF XL!Admits
    <3> QED BY <2>1, <2>2, <3>2 DEF XL!ShouldRemainDisabled, XL!Enabled
  <2>3. CASE ~XL!ShouldRemainDisabled(xlRow, xlPeer)
    <3>1. /\ xlConf.up /\ xlConf.key = xlRow.key /\ xlConf.transport = xlRow.transport
          /\ xlConf.names = xlRow.names
          /\ xlConf.path = (IF xlRow.transport = "xhttp" THEN xlRow.path ELSE 0)
          /\ xlConf.peers = XL!Enabled(xlPeer)
      BY <2>1, <2>3 DEF Rendered, XL!GenerateServerConfig
    <3> QED BY <2>1, <3>1 DEF XL!Admits, XL!Enabled
  <2> QED BY <2>2, <2>3
<1> QED
  BY <1>1, <1>2, <1>3, PTL DEF XL!Spec

-----------------------------------------------------------------------------
(* telemt's users: any number of names, admins and reconcilers.            *)

(* A user's ad tag, or none.                                               *)
Tags == {"", "t"}

(* A user.                                                                 *)
LiveUsers == [secret : Nat \ {0}, tag : Tags, on : BOOLEAN]

(* A user or none.                                                         *)
Rows == LiveUsers \cup {TU!None}

(* The table's users, or telemt's.                                         *)
Rosters == [Names -> Rows]

(* What a PATCH may carry.                                                 *)
PatchFields == {[tag |-> t] : t \in Tags} \cup {[on |-> b] : b \in BOOLEAN} \cup {[secret |-> 2]}

(* A call to telemt's API.                                                 *)
CallOK(call) ==
    /\ call.name \in Names
    /\ call.verb \in {"create", "patch", "delete"}
    /\ call.verb = "create" => call.user \in LiveUsers
    /\ call.verb = "patch" => call.user \in PatchFields

(* What a reconciler may have read of telemt's users.                      *)
LiveMaps == {<<>>} \cup {TU!ExtractLiveUserMap(roster) : roster \in Rosters}

(* What a reconciler holds between its steps.                              *)
RecRecords == [pc : {"idle", "wait", "db", "live", "push"}, db : Rosters, live : LiveMaps,
               todo : SUBSET Names, alone : BOOLEAN]

(* The types of the table, telemt's users, the calls and the reconcilers.  *)
UsersTypeOK ==
    /\ muDb \in Rosters /\ muLive \in Rosters
    /\ DOMAIN muAdmin = Admins /\ \A a \in Admins : muAdmin[a] # TU!NoCall => CallOK(muAdmin[a])
    /\ muRec \in [Reconcilers -> RecRecords]

(* telemt and the table agree on a name and its tag.                       *)
Agrees(n) == (muLive[n] = TU!None <=> muDb[n] = TU!None) /\ muLive[n].tag = muDb[n].tag

(* What the reconciler read of a name is still so.                         *)
Seen(r, n) ==
    /\ n \in DOMAIN muRec[r].live <=> muLive[n] # TU!None
    /\ muLive[n] # TU!None => muRec[r].live[n] = muLive[n].tag

(* An undisturbed reconciler is the only one, holds the table as it is,    *)
(* and at each name either has made telemt agree or still knows what       *)
(* telemt has: the loop invariant of reconcile_users_now over the names to *)
(* do.                                                                     *)
AloneInv == \A r \in Reconcilers : muRec[r].pc # "idle" /\ muRec[r].alone =>
    /\ \A q \in Reconcilers : q # r => muRec[q].pc = "idle"
    /\ muRec[r].pc \in {"live", "push"} => muRec[r].db = muDb
    /\ muRec[r].pc = "push" => \A n \in Names : IF n \in muRec[r].todo THEN Seen(r, n) ELSE Agrees(n)

(* After an undisturbed reconcile all names agree.                         *)
CleanInv == muClean => /\ \A r \in Reconcilers : muRec[r].pc = "idle"
                       /\ \A n \in Names : Agrees(n)

(* The inductive invariant.                                                *)
UsersInv == UsersTypeOK /\ AloneInv /\ CleanInv

(* A PATCH replaces the fields it carries.                                 *)
Patched(u, fields) == [f \in DOMAIN u |-> IF f \in DOMAIN fields THEN fields[f] ELSE u[f]]

(* An absent user differs from every user.                                 *)
LEMMA NoneIsNoUser ==
    /\ TU!None \notin LiveUsers /\ TU!None \in Rows /\ TU!None.tag = ""
    /\ \A u \in Rows : u.tag \in Tags /\ (u # TU!None <=> u \in LiveUsers)
<1>1. TU!None.secret = 0 /\ TU!None.tag = ""
  BY DEF TU!None
<1>2. \A u \in LiveUsers : u.secret # 0 /\ u.tag \in Tags
  BY DEF LiveUsers
<1> QED BY <1>1, <1>2 DEF Rows, Tags

(* A created user is one.                                                  *)
LEMMA NewRow ==
    ASSUME NEW tag \in Tags, NEW on \in BOOLEAN
    PROVE  [secret |-> 1, tag |-> tag, on |-> on] \in LiveUsers
<1>1. 1 \in Nat \ {0}
  OBVIOUS
<1> QED BY <1>1 DEF LiveUsers

(* A patched user is one, with the tag the patch carries.                  *)
LEMMA PatchKeepsUser ==
    ASSUME NEW u \in LiveUsers, NEW fields \in PatchFields
    PROVE  Patched(u, fields) \in LiveUsers /\ \A t \in Tags : fields = [tag |-> t] => Patched(u, fields).tag = t
<1>1. DOMAIN u = {"secret", "tag", "on"}
  BY DEF LiveUsers
<1>2. ASSUME NEW t \in Tags, fields = [tag |-> t]
      PROVE  Patched(u, fields) \in LiveUsers /\ Patched(u, fields).tag = t
  <2>1. DOMAIN fields = {"tag"}
    BY <1>2
  <2> QED BY <1>1, <1>2, <2>1 DEF Patched, LiveUsers
<1>3. ASSUME NEW b \in BOOLEAN, fields = [on |-> b]
      PROVE  Patched(u, fields) \in LiveUsers /\ "tag" \notin DOMAIN fields
  <2>1. DOMAIN fields = {"on"}
    BY <1>3
  <2> QED BY <1>1, <1>3, <2>1 DEF Patched, LiveUsers
<1>4. ASSUME fields = [secret |-> 2] PROVE Patched(u, fields) \in LiveUsers /\ "tag" \notin DOMAIN fields
  <2>1. DOMAIN fields = {"secret"}
    BY <1>4
  <2> QED BY <1>1, <1>4, <2>1 DEF Patched, LiveUsers
<1>5. Patched(u, fields) \in LiveUsers
  BY <1>2, <1>3, <1>4 DEF PatchFields
<1> QED BY <1>2, <1>5

(* What telemt does with a call it accepts: it changes one name.           *)
LEMMA AppliedCall ==
    ASSUME UsersTypeOK, NEW call, CallOK(call), call.verb = "patch" => muLive[call.name] # TU!None
    PROVE  /\ TU!Applied(call) \in Rosters
           /\ \A n \in Names : n # call.name => TU!Applied(call)[n] = muLive[n]
           /\ call.verb = "create" => TU!Applied(call)[call.name] = call.user
           /\ call.verb = "delete" => TU!Applied(call)[call.name] = TU!None
           /\ call.verb = "patch" => TU!Applied(call)[call.name] = Patched(muLive[call.name], call.user)
<1> DEFINE u == CASE call.verb = "create" -> call.user
                  [] call.verb = "delete" -> TU!None
                  [] call.verb = "patch" -> Patched(muLive[call.name], call.user)
<1>1. TU!Applied(call) = [muLive EXCEPT ![call.name] = u]
  BY DEF TU!Applied, Patched
<1>2. /\ call.verb = "create" => u = call.user
      /\ call.verb = "delete" => u = TU!None
      /\ call.verb = "patch" => u = Patched(muLive[call.name], call.user)
  OBVIOUS
<1> HIDE DEF u
<1>3. u \in Rows
  <2>1. CASE call.verb = "create"
    BY <1>2, <2>1, NoneIsNoUser DEF CallOK, Rows
  <2>2. CASE call.verb = "delete"
    BY <1>2, <2>2, NoneIsNoUser
  <2>3. CASE call.verb = "patch"
    <3>1. muLive[call.name] \in LiveUsers /\ call.user \in PatchFields
      BY <2>3, NoneIsNoUser DEF CallOK, UsersTypeOK, Rosters
    <3> QED BY <1>2, <2>3, <3>1, PatchKeepsUser DEF Rows
  <2> QED BY <2>1, <2>2, <2>3 DEF CallOK
<1>4. muLive \in [Names -> Rows] /\ call.name \in Names
  BY DEF UsersTypeOK, Rosters, CallOK
<1> HIDE DEF Rows
<1> QED BY <1>1, <1>2, <1>3, <1>4 DEF Rosters

(* A call leaves telemt with users, accepted or not.                       *)
LEMMA RequestType ==
    ASSUME UsersTypeOK, NEW call, CallOK(call), TU!Request(call)
    PROVE  muLive' \in Rosters
<1>1. CASE TU!Accepts(call) /\ muLive' = TU!Applied(call)
  <2>1. call.verb = "patch" => muLive[call.name] # TU!None
    BY <1>1 DEF TU!Accepts
  <2> QED BY <1>1, <2>1, AppliedCall
<1>2. CASE muLive' = muLive
  BY <1>2 DEF UsersTypeOK
<1> QED BY <1>1, <1>2 DEF TU!Request

(* The updates of what a reconciler holds keep its type.                   *)
LEMMA RecordUpdates ==
    ASSUME NEW A, NEW B, NEW C, NEW D,
           NEW rec \in [pc : A, db : B, live : C, todo : D, alone : BOOLEAN]
    PROVE  /\ LET q == [rec EXCEPT !.alone = FALSE]
              IN  q \in [pc : A, db : B, live : C, todo : D, alone : BOOLEAN] /\ q.pc = rec.pc /\ ~q.alone
           /\ \A l \in A : LET q == [rec EXCEPT !.pc = l]
              IN  q \in [pc : A, db : B, live : C, todo : D, alone : BOOLEAN] /\ q.pc = l /\ q.alone = rec.alone
                  /\ q.db = rec.db /\ q.live = rec.live /\ q.todo = rec.todo
           /\ \A d \in D : LET q == [rec EXCEPT !.todo = d]
              IN  q \in [pc : A, db : B, live : C, todo : D, alone : BOOLEAN] /\ q.pc = rec.pc /\ q.alone = rec.alone
                  /\ q.db = rec.db /\ q.live = rec.live /\ q.todo = d
<1>1. LET q == [rec EXCEPT !.alone = FALSE]
      IN  q \in [pc : A, db : B, live : C, todo : D, alone : BOOLEAN] /\ q.pc = rec.pc /\ ~q.alone
  OBVIOUS
<1>2. ASSUME NEW l \in A
      PROVE  LET q == [rec EXCEPT !.pc = l]
             IN  q \in [pc : A, db : B, live : C, todo : D, alone : BOOLEAN] /\ q.pc = l /\ q.alone = rec.alone
                 /\ q.db = rec.db /\ q.live = rec.live /\ q.todo = rec.todo
  OBVIOUS
<1>3. ASSUME NEW d \in D
      PROVE  LET q == [rec EXCEPT !.todo = d]
             IN  q \in [pc : A, db : B, live : C, todo : D, alone : BOOLEAN] /\ q.pc = rec.pc /\ q.alone = rec.alone
                 /\ q.db = rec.db /\ q.live = rec.live /\ q.todo = d
  OBVIOUS
<1> QED BY <1>1, <1>2, <1>3

(* Disturbing the reconcilers leaves each where it stands.                 *)
LEMMA DisturbedRecords ==
    ASSUME muRec \in [Reconcilers -> RecRecords]
    PROVE  /\ TU!Disturbed(muRec) \in [Reconcilers -> RecRecords]
           /\ \A r \in Reconcilers : ~TU!Disturbed(muRec)[r].alone /\ TU!Disturbed(muRec)[r].pc = muRec[r].pc
<1>1. ASSUME NEW rec \in RecRecords
      PROVE  /\ [rec EXCEPT !.alone = FALSE] \in RecRecords /\ ~[rec EXCEPT !.alone = FALSE].alone
             /\ [rec EXCEPT !.alone = FALSE].pc = rec.pc
  BY <1>1, RecordUpdates DEF RecRecords
<1> HIDE DEF RecRecords
<1> QED BY <1>1 DEF TU!Disturbed

(* A step that disturbs every reconciler keeps UsersInv.                   *)
LEMMA DisturbedStep ==
    ASSUME UsersInv, muDb' \in Rosters, muLive' \in Rosters, DOMAIN muAdmin' = Admins,
           \A a \in Admins : muAdmin'[a] # TU!NoCall => CallOK(muAdmin'[a]),
           muRec' = TU!Disturbed(muRec), muClean' = FALSE
    PROVE  UsersInv'
<1>1. muRec' \in [Reconcilers -> RecRecords] /\ \A r \in Reconcilers : ~muRec'[r].alone
  BY DisturbedRecords DEF UsersInv, UsersTypeOK
<1>2. UsersTypeOK'
  BY <1>1 DEF UsersTypeOK
<1> QED BY <1>1, <1>2 DEF UsersInv, AloneInv, CleanInv

(* An admin's request that begins keeps UsersInv.                          *)
LEMMA BeginStep ==
    ASSUME UsersInv, NEW a \in Admins, NEW call, CallOK(call), TU!Begin(a, call), muDb' \in Rosters
    PROVE  UsersInv'
<1>1. muAdmin' = [muAdmin EXCEPT ![a] = call] /\ muRec' = TU!Disturbed(muRec) /\ muClean' = FALSE
      /\ muLive' = muLive
  BY DEF TU!Begin
<1>2. muLive' \in Rosters /\ DOMAIN muAdmin' = Admins
  BY <1>1 DEF UsersInv, UsersTypeOK
<1>3. ASSUME NEW b \in Admins, muAdmin'[b] # TU!NoCall PROVE CallOK(muAdmin'[b])
  BY <1>1, <1>3 DEF UsersInv, UsersTypeOK
<1> QED BY <1>1, <1>2, <1>3, DisturbedStep

(* A reconciler's step keeps UsersInv if it keeps what an undisturbed one  *)
(* knows.                                                                  *)
LEMMA RecordStep ==
    ASSUME UsersInv, NEW r \in Reconcilers, muRec[r].pc # "idle", NEW rec \in RecRecords,
           muRec' = [muRec EXCEPT ![r] = rec], muLive' \in Rosters, UNCHANGED <<muDb, muAdmin, muClean>>,
           rec.pc # "idle" /\ rec.alone =>
               /\ muRec[r].alone
               /\ rec.pc \in {"live", "push"} => rec.db = muDb
               /\ rec.pc = "push" => \A n \in Names : IF n \in rec.todo THEN Seen(r, n)' ELSE Agrees(n)'
    PROVE  UsersInv'
<1>1. ~muClean'
  BY DEF UsersInv, CleanInv
<1>2. muRec'[r] = rec /\ \A q \in Reconcilers : q # r => muRec'[q] = muRec[q]
  BY DEF UsersInv, UsersTypeOK
<1>3. UsersTypeOK'
  BY DEF UsersInv, UsersTypeOK
<1>4. \A q \in Reconcilers : q # r /\ muRec[q].pc # "idle" => ~muRec[q].alone
  BY DEF UsersInv, AloneInv
<1>5. AloneInv'
  <2> SUFFICES ASSUME NEW q \in Reconcilers, muRec'[q].pc # "idle", muRec'[q].alone
               PROVE  /\ \A p \in Reconcilers : p # q => muRec'[p].pc = "idle"
                      /\ muRec'[q].pc \in {"live", "push"} => muRec'[q].db = muDb'
                      /\ muRec'[q].pc = "push" =>
                            \A n \in Names : IF n \in muRec'[q].todo THEN Seen(q, n)' ELSE Agrees(n)'
    BY DEF AloneInv
  <2>1. q = r
    BY <1>2, <1>4
  <2>2. muRec'[q] = rec
    BY <1>2, <2>1
  <2>3. \A p \in Reconcilers : p # q => muRec'[p].pc = "idle"
    BY <1>2, <2>1, <2>2 DEF UsersInv, AloneInv
  <2> HIDE DEF Seen, Agrees
  <2> QED BY <2>1, <2>2, <2>3
<1> QED BY <1>1, <1>3, <1>5 DEF UsersInv, CleanInv

(* A reconciler at rest, and one that starts.                              *)
LEMMA IdleRecord ==
    /\ TU!NoRec \in RecRecords /\ TU!NoRec.pc = "idle"
    /\ \A b \in BOOLEAN : LET q == [TU!NoRec EXCEPT !.pc = "wait", !.alone = b]
                          IN  q \in RecRecords /\ q.pc = "wait" /\ q.alone = b
<1>1. [n \in Names |-> TU!None] \in Rosters
  BY NoneIsNoUser DEF Rosters
<1>2. TU!NoRec \in RecRecords /\ TU!NoRec.pc = "idle"
  BY <1>1 DEF TU!NoRec, RecRecords, LiveMaps
<1>3. ASSUME NEW b \in BOOLEAN
      PROVE  LET q == [TU!NoRec EXCEPT !.pc = "wait", !.alone = b]
             IN  q \in RecRecords /\ q.pc = "wait" /\ q.alone = b
  BY <1>2 DEF RecRecords
<1> QED BY <1>2, <1>3

(* Reconciling one name keeps UsersInv: the calls made for it make it      *)
(* agree or the reconciler counts as disturbed.                            *)
LEMMA ReconcileOneStep ==
    ASSUME UsersInv, NEW r \in Reconcilers, TU!ReconcileOne(r)
    PROVE  UsersInv'
<1> DEFINE rec == muRec[r]
<1>0. rec \in RecRecords /\ rec.pc = "push" /\ UNCHANGED <<muDb, muAdmin, muClean>>
  BY DEF TU!ReconcileOne, UsersInv, UsersTypeOK
<1>1. PICK n \in rec.todo :
        IF TU!CallsFor(r, n) = {}
        THEN UNCHANGED <<muLive, muLeft>> /\ muRec' = [muRec EXCEPT ![r].todo = @ \ {n}]
        ELSE \E call \in TU!CallsFor(r, n) :
             /\ TU!Request(call)
             /\ muRec' = [muRec EXCEPT ![r].todo = @ \ {n}, ![r].alone = @ /\ ~TU!Fails(call)]
  BY DEF TU!ReconcileOne
<1>2. n \in Names /\ rec.todo \in SUBSET Names /\ rec.todo \ {n} \in SUBSET Names /\ rec.db \in Rosters
      /\ rec.db[n] \in Rows
  BY <1>0 DEF RecRecords, Rosters
<1>3. rec.alone => /\ rec.db = muDb
                   /\ \A k \in Names : IF k \in rec.todo THEN Seen(r, k) ELSE Agrees(k)
  BY <1>0 DEF UsersInv, AloneInv
<1>4. muLive \in Rosters /\ \A k \in Names : muLive[k] \in Rows
  BY DEF UsersInv, UsersTypeOK, Rosters
<1>5. CASE TU!CallsFor(r, n) = {}
  <2>1. muLive' = muLive /\ muRec' = [muRec EXCEPT ![r] = [rec EXCEPT !.todo = rec.todo \ {n}]]
    BY <1>1, <1>5
  <2> DEFINE s == [rec EXCEPT !.todo = rec.todo \ {n}]
  <2>2. s \in RecRecords /\ s.pc = "push" /\ s.alone = rec.alone /\ s.db = rec.db /\ s.live = rec.live
        /\ s.todo = rec.todo \ {n}
    BY <1>0, <1>2, RecordUpdates DEF RecRecords
  <2> HIDE DEF s
  <2>3. ASSUME rec.alone PROVE Agrees(n)
    <3>1. Seen(r, n)
      BY <1>1, <1>2, <1>3, <2>3
    <3>2. CASE rec.db[n] = TU!None
      <4>1. n \notin DOMAIN rec.live
        BY <1>5, <3>2 DEF TU!CallsFor
      <4> QED BY <1>3, <2>3, <3>1, <3>2, <4>1 DEF Seen, Agrees
    <3>3. CASE rec.db[n] # TU!None
      <4>1. n \in DOMAIN rec.live /\ TU!AdTagPatch(rec.live[n], rec.db[n]) = {}
        BY <1>5, <3>3 DEF TU!CallsFor
      <4>2. rec.live[n] = rec.db[n].tag
        BY <4>1 DEF TU!AdTagPatch
      <4> QED BY <1>3, <2>3, <3>1, <3>3, <4>1, <4>2 DEF Seen, Agrees
    <3> QED BY <3>2, <3>3
  <2>4. ASSUME s.alone, NEW k \in Names PROVE IF k \in s.todo THEN Seen(r, k)' ELSE Agrees(k)'
    <3>1. muRec'[r].live = muRec[r].live
      BY <2>1, <2>2 DEF UsersInv, UsersTypeOK, s
    <3> QED BY <1>0, <1>3, <2>1, <2>2, <2>3, <2>4, <3>1 DEF Seen, Agrees
  <2> QED BY <1>0, <1>3, <1>4, <2>1, <2>2, <2>4, RecordStep DEF s
<1>6. CASE TU!CallsFor(r, n) # {}
  <2>1. PICK call \in TU!CallsFor(r, n) :
             /\ TU!Request(call)
             /\ muRec' = [muRec EXCEPT ![r].todo = @ \ {n}, ![r].alone = @ /\ ~TU!Fails(call)]
    BY <1>1, <1>6
  <2>2. /\ CallOK(call) /\ call.name = n
        /\ call.verb = "delete" => rec.db[n] = TU!None
        /\ call.verb = "create" => rec.db[n] # TU!None /\ call.user \in LiveUsers /\ call.user.tag = rec.db[n].tag
        /\ call.verb = "patch" => rec.db[n] # TU!None /\ n \in DOMAIN rec.live /\ call.user = [tag |-> rec.db[n].tag]
    <3>1. CASE rec.db[n] = TU!None
      <4>1. call = TU!DeleteCall(n)
        BY <2>1, <3>1 DEF TU!CallsFor
      <4> QED BY <1>2, <3>1, <4>1 DEF TU!DeleteCall, CallOK
    <3>2. CASE rec.db[n] # TU!None /\ n \notin DOMAIN rec.live
      <4>1. call = TU!CreateCall(n, rec.db[n])
        BY <2>1, <3>2 DEF TU!CallsFor
      <4>2. rec.db[n] \in LiveUsers
        BY <1>2, <3>2, NoneIsNoUser
      <4> QED BY <1>2, <3>2, <4>1, <4>2 DEF TU!CreateCall, TU!CreateAdTag, CallOK, LiveUsers
    <3>3. CASE rec.db[n] # TU!None /\ n \in DOMAIN rec.live
      <4>1. PICK f \in TU!AdTagPatch(rec.live[n], rec.db[n]) : call = TU!PatchCall(n, f)
        BY <2>1, <3>3 DEF TU!CallsFor
      <4>2. f = [tag |-> rec.db[n].tag]
        BY <4>1 DEF TU!AdTagPatch
      <4>3. rec.db[n].tag \in Tags
        BY <1>2, NoneIsNoUser
      <4>4. f \in PatchFields
        BY <4>2, <4>3 DEF PatchFields
      <4> QED BY <1>2, <3>3, <4>1, <4>2, <4>4 DEF TU!PatchCall, CallOK
    <3> QED BY <3>1, <3>2, <3>3
  <2>3. muLive' \in Rosters
    BY <2>1, <2>2, RequestType DEF UsersInv
  <2> DEFINE s == [rec EXCEPT !.todo = rec.todo \ {n}, !.alone = rec.alone /\ ~TU!Fails(call)]
  <2>4. muRec' = [muRec EXCEPT ![r] = s]
    BY <2>1
  <2>5. /\ s \in RecRecords /\ s.pc = "push" /\ s.db = rec.db /\ s.live = rec.live /\ s.todo = rec.todo \ {n}
        /\ s.alone = (rec.alone /\ ~TU!Fails(call))
    <3>1. (rec.alone /\ ~TU!Fails(call)) \in BOOLEAN
      OBVIOUS
    <3> QED BY <1>0, <1>2, <3>1 DEF RecRecords
  <2> HIDE DEF s
  <2>6. ASSUME s.alone PROVE Agrees(n)' /\ \A k \in Names : k # n => muLive'[k] = muLive[k]
    <3>1. rec.alone /\ muLive' = TU!Applied(call) /\ Seen(r, n)
      BY <1>1, <1>2, <1>3, <2>5, <2>6 DEF TU!Fails
    <3>2. call.verb = "patch" => muLive[n] \in LiveUsers
      BY <1>2, <1>4, <2>2, <3>1, NoneIsNoUser DEF Seen
    <3>3. /\ \A k \in Names : k # n => muLive'[k] = muLive[k]
          /\ call.verb = "create" => muLive'[n] = call.user
          /\ call.verb = "delete" => muLive'[n] = TU!None
          /\ call.verb = "patch" => muLive'[n] = Patched(muLive[n], call.user)
      BY <2>2, <3>1, <3>2, AppliedCall, NoneIsNoUser DEF UsersInv
    <3>4. CASE call.verb = "create"
      BY <1>0, <1>3, <2>2, <3>1, <3>3, <3>4, NoneIsNoUser DEF Agrees
    <3>5. CASE call.verb = "delete"
      BY <1>0, <1>3, <2>2, <3>1, <3>3, <3>5, NoneIsNoUser DEF Agrees
    <3>6. CASE call.verb = "patch"
      <4>1. rec.db[n].tag \in Tags /\ call.user \in PatchFields
        BY <1>2, <2>2, <3>6, NoneIsNoUser DEF CallOK
      <4>2. muLive'[n] \in LiveUsers /\ muLive'[n].tag = rec.db[n].tag
        BY <2>2, <3>2, <3>3, <3>6, <4>1, PatchKeepsUser
      <4> QED BY <1>0, <1>3, <2>2, <3>1, <3>3, <3>6, <4>2, NoneIsNoUser DEF Agrees
    <3> QED BY <2>2, <3>3, <3>4, <3>5, <3>6 DEF CallOK
  <2>7. ASSUME s.alone, NEW k \in Names PROVE IF k \in s.todo THEN Seen(r, k)' ELSE Agrees(k)'
    <3>1. muRec'[r].live = muRec[r].live
      BY <2>4, <2>5 DEF UsersInv, UsersTypeOK
    <3> QED BY <1>0, <1>3, <2>5, <2>6, <2>7, <3>1 DEF Seen, Agrees
  <2> QED BY <1>0, <1>3, <2>3, <2>4, <2>5, <2>7, RecordStep
<1> QED BY <1>5, <1>6

(* Every step keeps UsersInv.                                              *)
LEMMA UsersStep ==
    ASSUME UsersInv, [TU!Next]_(TU!vars)
    PROVE  UsersInv'
<1>0. muDb \in [Names -> Rows] /\ muLive \in [Names -> Rows] /\ muRec \in [Reconcilers -> RecRecords]
  BY DEF UsersInv, UsersTypeOK, Rosters
<1>1. ASSUME NEW a \in Admins, NEW n \in Names, NEW tag \in {"", "t"}, NEW on \in BOOLEAN, TU!CreateUser(a, n, tag, on)
      PROVE  UsersInv'
  <2> DEFINE row == [secret |-> 1, tag |-> tag, on |-> on]
  <2>1. row \in LiveUsers
    <3>1. tag \in Tags
      BY DEF Tags
    <3> QED BY <3>1, NewRow
  <2>2. muDb' = [muDb EXCEPT ![n] = row] /\ TU!Begin(a, TU!CreateCall(n, row))
    BY <1>1 DEF TU!CreateUser
  <2> HIDE DEF row
  <2>3. muDb' \in Rosters
    BY <1>0, <2>1, <2>2 DEF Rosters, Rows
  <2>4. CallOK(TU!CreateCall(n, row))
    BY <2>1 DEF CallOK, TU!CreateCall, TU!CreateAdTag, LiveUsers, Tags
  <2> QED BY <2>2, <2>3, <2>4, BeginStep
<1>2. ASSUME NEW a \in Admins, NEW n \in Names, NEW fields \in PatchFields, TU!UpdateUser(a, n, fields)
      PROVE  UsersInv'
  <2>1. muDb' = [muDb EXCEPT ![n] = Patched(muDb[n], fields)] /\ TU!Begin(a, TU!PatchCall(n, fields))
        /\ muDb[n] # TU!None
    BY <1>2 DEF TU!UpdateUser, Patched
  <2>2. Patched(muDb[n], fields) \in Rows
    BY <1>0, <2>1, PatchKeepsUser, NoneIsNoUser DEF Rows
  <2>3. muDb' \in Rosters
    BY <1>0, <2>1, <2>2 DEF Rosters
  <2>4. CallOK(TU!PatchCall(n, fields))
    BY DEF CallOK, TU!PatchCall
  <2> QED BY <2>1, <2>3, <2>4, BeginStep
<1>3. ASSUME NEW a \in Admins, NEW n \in Names, TU!DeleteUser(a, n) PROVE UsersInv'
  <2>1. muDb' \in Rosters /\ TU!Begin(a, TU!DeleteCall(n))
    BY <1>0, <1>3, NoneIsNoUser DEF TU!DeleteUser, Rosters
  <2>2. CallOK(TU!DeleteCall(n))
    BY DEF CallOK, TU!DeleteCall
  <2> QED BY <2>1, <2>2, BeginStep
<1>4. ASSUME NEW a \in Admins, NEW n \in Names, TU!RotateSecret(a, n) PROVE UsersInv'
  <2>1. muDb' = [muDb EXCEPT ![n] = [muDb[n] EXCEPT !.secret = 2]]
        /\ TU!Begin(a, TU!PatchCall(n, [secret |-> 2]))
    BY <1>4 DEF TU!RotateSecret
  <2>2. muDb[n] \in LiveUsers
    BY <1>0, <1>4, NoneIsNoUser DEF TU!RotateSecret
  <2>3. [muDb[n] EXCEPT !.secret = 2] \in Rows
    BY <2>2 DEF LiveUsers, Rows
  <2>4. muDb' \in Rosters
    BY <1>0, <2>1, <2>3 DEF Rosters
  <2>5. CallOK(TU!PatchCall(n, [secret |-> 2]))
    BY DEF CallOK, TU!PatchCall, PatchFields
  <2> QED BY <2>1, <2>4, <2>5, BeginStep
<1>5. ASSUME NEW a \in Admins, TU!Push(a) PROVE UsersInv'
  <2>1. /\ muAdmin[a] # TU!NoCall /\ TU!Request(muAdmin[a]) /\ muAdmin' = [muAdmin EXCEPT ![a] = TU!NoCall]
        /\ muRec' = TU!Disturbed(muRec) /\ muClean' = FALSE /\ UNCHANGED muDb
    BY <1>5 DEF TU!Push
  <2>2. CallOK(muAdmin[a])
    BY <2>1 DEF UsersInv, UsersTypeOK
  <2>3. muLive' \in Rosters
    BY <2>1, <2>2, RequestType DEF UsersInv
  <2>4. DOMAIN muAdmin' = Admins /\ \A b \in Admins : muAdmin'[b] # TU!NoCall => CallOK(muAdmin'[b])
    BY <2>1 DEF UsersInv, UsersTypeOK
  <2>5. muDb' \in Rosters
    BY <2>1 DEF UsersInv, UsersTypeOK
  <2> QED BY <2>1, <2>3, <2>4, <2>5, DisturbedStep
<1>6. ASSUME NEW r \in Reconcilers, TU!SpawnUserReconciler(r) PROVE UsersInv'
  <2> DEFINE al == (\A q \in Reconcilers : muRec[q].pc = "idle") /\ (\A a \in Admins : muAdmin[a] = TU!NoCall)
             rec == [TU!NoRec EXCEPT !.pc = "wait", !.alone = al]
  <2>1. muRec' = [TU!Disturbed(muRec) EXCEPT ![r] = rec] /\ muClean' = FALSE /\ UNCHANGED <<muDb, muAdmin>>
    BY <1>6 DEF TU!SpawnUserReconciler
  <2>2. rec \in RecRecords /\ rec.pc = "wait" /\ rec.alone = al
    <3>1. al \in BOOLEAN
      OBVIOUS
    <3> HIDE DEF al
    <3> QED BY <3>1, IdleRecord
  <2> HIDE DEF rec
  <2>3. muLive' \in Rosters
    <3>1. [n \in Names |-> TU!None] \in Rosters
      BY NoneIsNoUser DEF Rosters
    <3> QED BY <1>0, <1>6, <3>1 DEF TU!SpawnUserReconciler, Rosters
  <2>4. /\ muRec' \in [Reconcilers -> RecRecords] /\ muRec'[r] = rec
        /\ \A q \in Reconcilers : q # r => ~muRec'[q].alone /\ muRec'[q].pc = muRec[q].pc
    BY <1>0, <2>1, <2>2, DisturbedRecords
  <2>5. UsersTypeOK'
    BY <2>1, <2>3, <2>4 DEF UsersInv, UsersTypeOK
  <2>6. AloneInv'
    <3> HIDE DEF Seen, Agrees
    <3> QED BY <2>2, <2>4 DEF AloneInv
  <2> QED BY <2>1, <2>5, <2>6 DEF UsersInv, CleanInv
<1>7. ASSUME TU!TelemtDies PROVE UsersInv'
  <2>1. [n \in Names |-> TU!None] \in Rosters
    BY NoneIsNoUser DEF Rosters
  <2>2. /\ muLive' \in Rosters /\ muRec' = TU!Disturbed(muRec) /\ muClean' = FALSE
        /\ UNCHANGED <<muDb, muAdmin>>
    BY <1>7, <2>1 DEF TU!TelemtDies
  <2> QED BY <2>2, DisturbedStep DEF UsersInv, UsersTypeOK
<1>8. ASSUME NEW r \in Reconcilers, TU!WaitUntilAlive(r) PROVE UsersInv'
  <2>1. muRec[r].pc = "wait" /\ UNCHANGED <<muDb, muLive, muAdmin, muClean>> /\ muLive' \in Rosters
    BY <1>8 DEF TU!WaitUntilAlive, UsersInv, UsersTypeOK
  <2>2. CASE muRec' = [muRec EXCEPT ![r].pc = "db"]
    <3> DEFINE rec == [muRec[r] EXCEPT !.pc = "db"]
    <3>1. muRec' = [muRec EXCEPT ![r] = rec]
      BY <2>2
    <3>2. rec \in RecRecords /\ rec.pc = "db" /\ rec.alone = muRec[r].alone
      <4>1. muRec[r] \in RecRecords
        BY <1>0
      <4> QED BY <4>1 DEF RecRecords
    <3> HIDE DEF rec
    <3> QED BY <2>1, <3>1, <3>2, RecordStep
  <2>3. CASE muRec' = [muRec EXCEPT ![r] = TU!NoRec]
    BY <2>1, <2>3, IdleRecord, RecordStep
  <2> QED BY <1>8, <2>2, <2>3 DEF TU!WaitUntilAlive
<1>9. ASSUME NEW r \in Reconcilers, TU!ListDb(r) PROVE UsersInv'
  <2> DEFINE rec == [muRec[r] EXCEPT !.pc = "live", !.db = muDb]
  <2>1. muRec[r].pc = "db" /\ UNCHANGED <<muDb, muLive, muAdmin, muClean>> /\ muLive' \in Rosters
    BY <1>9 DEF TU!ListDb, UsersInv, UsersTypeOK
  <2>2. muRec' = [muRec EXCEPT ![r] = rec]
    BY <1>9 DEF TU!ListDb
  <2>3. rec \in RecRecords /\ rec.pc = "live" /\ rec.alone = muRec[r].alone /\ rec.db = muDb
    <3>1. muRec[r] \in RecRecords /\ muDb \in Rosters
      BY <1>0 DEF Rosters
    <3> QED BY <3>1 DEF RecRecords
  <2> HIDE DEF rec
  <2> QED BY <2>1, <2>2, <2>3, RecordStep
<1>10. ASSUME NEW r \in Reconcilers, TU!ListLive(r) PROVE UsersInv'
  <2>1. muRec[r].pc = "live" /\ UNCHANGED <<muDb, muLive, muAdmin, muClean>> /\ muLive' \in Rosters
    BY <1>10 DEF TU!ListLive, UsersInv, UsersTypeOK
  <2>2. CASE muRec' = [muRec EXCEPT ![r].pc = "push", ![r].live = TU!ExtractLiveUserMap(muLive), ![r].todo = Names]
    <3> DEFINE live == TU!ExtractLiveUserMap(muLive)
               rec == [muRec[r] EXCEPT !.pc = "push", !.live = live, !.todo = Names]
    <3>1. muRec' = [muRec EXCEPT ![r] = rec]
      BY <2>2
    <3>2. live \in LiveMaps
      BY DEF LiveMaps, UsersInv, UsersTypeOK
    <3>3. \A n \in Names : /\ n \in DOMAIN live <=> muLive[n] # TU!None
                           /\ muLive[n] # TU!None => live[n] = muLive[n].tag
      BY DEF TU!ExtractLiveUserMap, TU!Listed
    <3> HIDE DEF live
    <3>4. rec \in RecRecords /\ rec.pc = "push" /\ rec.alone = muRec[r].alone /\ rec.db = muRec[r].db
          /\ rec.live = live /\ rec.todo = Names
      <4>1. muRec[r] \in RecRecords
        BY <1>0
      <4>2. rec \in RecRecords
        BY <3>2, <4>1 DEF RecRecords
      <4>3. rec.pc = "push" /\ rec.alone = muRec[r].alone /\ rec.db = muRec[r].db
        BY <4>1 DEF RecRecords
      <4>4. rec.live = live /\ rec.todo = Names
        BY <4>1 DEF RecRecords
      <4> QED BY <4>2, <4>3, <4>4
    <3> HIDE DEF rec
    <3>5. \A n \in Names : Seen(r, n)'
      <4>1. muRec'[r].live = live
        BY <1>0, <3>1, <3>4
      <4> QED BY <2>1, <3>3, <4>1 DEF Seen
    <3>6. rec.alone => muRec[r].alone /\ rec.db = muDb
      BY <2>1, <3>4 DEF UsersInv, AloneInv
    <3> QED BY <2>1, <3>1, <3>4, <3>5, <3>6, RecordStep
  <2>3. CASE muRec' = [muRec EXCEPT ![r] = TU!NoRec]
    BY <2>1, <2>3, IdleRecord, RecordStep
  <2> QED BY <1>10, <2>2, <2>3 DEF TU!ListLive
<1>11. ASSUME NEW r \in Reconcilers, TU!ReconcileOne(r) PROVE UsersInv'
  BY <1>11, ReconcileOneStep
<1>12. ASSUME NEW r \in Reconcilers, TU!ReconcileEnds(r) PROVE UsersInv'
  <2>1. /\ muRec[r].pc = "push" /\ muRec[r].todo = {} /\ muClean' = muRec[r].alone
        /\ muRec' = [muRec EXCEPT ![r] = TU!NoRec] /\ UNCHANGED <<muDb, muLive, muAdmin>>
    BY <1>12 DEF TU!ReconcileEnds
  <2>2. /\ muRec' \in [Reconcilers -> RecRecords] /\ muRec'[r].pc = "idle"
        /\ \A q \in Reconcilers : q # r => muRec'[q] = muRec[q]
    BY <1>0, <2>1, IdleRecord
  <2>3. UsersTypeOK'
    BY <2>1, <2>2 DEF UsersInv, UsersTypeOK
  <2>4. \A q \in Reconcilers : q # r /\ muRec[q].pc # "idle" => ~muRec[q].alone
    BY <2>1 DEF UsersInv, AloneInv
  <2>5. AloneInv'
    BY <2>2, <2>4 DEF AloneInv
  <2>6. CleanInv'
    <3> SUFFICES ASSUME muRec[r].alone
                 PROVE  (\A q \in Reconcilers : muRec'[q].pc = "idle") /\ \A n \in Names : Agrees(n)'
      BY <2>1 DEF CleanInv
    <3>1. (\A q \in Reconcilers : q # r => muRec[q].pc = "idle") /\ \A n \in Names : Agrees(n)
      BY <2>1 DEF UsersInv, AloneInv
    <3> QED BY <2>1, <2>2, <3>1 DEF Agrees
  <2> QED BY <2>3, <2>5, <2>6 DEF UsersInv
<1>13. ASSUME UNCHANGED TU!vars PROVE UsersInv'
  BY <1>13 DEF TU!vars, UsersInv, UsersTypeOK, AloneInv, CleanInv, Seen, Agrees
<1>14. \A t \in {"", "t"} : [tag |-> t] \in PatchFields
  BY DEF PatchFields, Tags
<1>15. \A b \in BOOLEAN : [on |-> b] \in PatchFields
  BY DEF PatchFields
<1> QED
  BY <1>1, <1>2, <1>3, <1>4, <1>5, <1>6, <1>7, <1>8, <1>9, <1>10, <1>11, <1>12, <1>13, <1>14, <1>15
     DEF TU!Next, TU!ReconcileUsersNow

(* A reconcile that nobody disturbed and none of whose calls failed leaves *)
(* telemt with the names of the table and their ad tags, whatever it held  *)
(* before (reconcile_users_now).                                           *)
THEOREM UndisturbedReconcileConverges == TU!Spec => []ReconcileConverges
<1>1. TU!Init => UsersInv
  <2> SUFFICES ASSUME TU!Init PROVE UsersInv
    OBVIOUS
  <2>1. muDb \in Rosters /\ muLive \in Rosters /\ muRec \in [Reconcilers -> RecRecords]
        /\ \A r \in Reconcilers : muRec[r].pc = "idle"
    BY NoneIsNoUser, IdleRecord DEF TU!Init, Rosters
  <2>2. DOMAIN muAdmin = Admins /\ (\A a \in Admins : muAdmin[a] = TU!NoCall) /\ ~muClean
    BY DEF TU!Init
  <2> QED BY <2>1, <2>2 DEF UsersInv, UsersTypeOK, AloneInv, CleanInv
<1>2. UsersInv /\ [TU!Next]_(TU!vars) => UsersInv'
  BY UsersStep
<1>3. UsersInv => ReconcileConverges
  BY DEF UsersInv, CleanInv, Agrees, ReconcileConverges, TU!ReconcileConverges, TU!Listed
<1> QED
  BY <1>1, <1>2, <1>3, PTL DEF TU!Spec

-----------------------------------------------------------------------------
(* The supervised children: any number of handlers, saves, crashes and     *)
(* children.                                                               *)

(* The transports the supervisors run.                                     *)
KnownKinds == {"mtproxy", "mdnsvpn", "dnscrypt", "tor"}

(* Additional configuration of a row: none, a bridge line that passes the  *)
(* filter, or an option that does not.                                     *)
Extras == {"none", "bridge", "exec"}

(* A transport's row.                                                      *)
BundleRows == [on : BOOLEAN, valid : BOOLEAN, tor : BOOLEAN, extra : Extras, ver : Nat]

(* A rendered configuration file.                                          *)
ConfigFiles == [ver : Nat, extra : Extras, socks : BOOLEAN]

(* Where a task may stand in ensure_running.                               *)
TaskPcs == {"idle", "read", "write", "check", "spawn", "record", "stop", "flag", "gone", "stopped"}

(* What it may have rendered.                                              *)
TaskRows == ConfigFiles \cup {0}

(* A child, or none.                                                       *)
TaskPids == CS!Children \cup {0}

(* What a task does once the child is stopped.                             *)
TaskThens == {"end", "read", "spawn"}

(* What a task holds between its steps.                                    *)
TaskRecords == [pc : TaskPcs, row : TaskRows, pid : TaskPids, then : TaskThens, reset : BOOLEAN]

(* A child's life.                                                         *)
ChildStates == {"unborn", "up", "asked", "dead", "gone"}

(* A child and its watchdog.                                               *)
ChildRecords == [st : ChildStates, cfg : ConfigFiles, flag : BOOLEAN, dog : {"wait", "reaped", "done"}]

(* The types of the row, the file, the record, the children and the tasks; *)
(* only a judged watchdog runs a task of its own, and children are spawned *)
(* in order.                                                               *)
ChildrenTypeOK ==
    /\ svKind \in KnownKinds
    /\ svRow \in BundleRows
    /\ svFile \in ConfigFiles
    /\ svProc \in TaskPids
    /\ svChild \in [CS!Children -> ChildRecords]
    /\ svTask \in [CS!Tasks -> TaskRecords]
    /\ svOverlap \in BOOLEAN /\ svFailed \in BOOLEAN
    /\ \A t \in CS!Tasks : svTask[t].pc \in {"flag", "gone", "record"} => svTask[t].pid # 0
    /\ \A t \in CS!Tasks : svTask[t].pc = "write" => svTask[t].row \in ConfigFiles
    /\ \A c \in CS!Children : svChild[c].dog # "wait" => svChild[c].st = "gone"
    /\ \A c \in CS!Children : svTask[c].pc # "idle" => svChild[c].dog = "done"
    /\ \E k \in 0..SvChildren : \A c \in CS!Children : svChild[c].st # "unborn" <=> c <= k

(* No child should run for the row as it is.                               *)
Unwanted == CS!StaysOff(svRow)

(* The file the row as it is renders to.                                   *)
Current == CS!Generate(svRow)

(* No two tasks have overlapped, and no child was dropped from the record  *)
(* while it ran.                                                           *)
Orderly == ~svOverlap /\ svLost = {}

(* A watchdog that has cleared the record and not judged the exit yet.     *)
Reaped(t) == t \in CS!Children /\ svChild[t].dog = "reaped"

(* A task in the middle of something.                                      *)
Busy(t) == svTask[t].pc # "idle" \/ Reaped(t)

(* The child a task has taken out of the record, or not recorded yet.      *)
HeldBy(t, c) == svTask[t].pc \in {"flag", "gone", "record"} /\ svTask[t].pid = c

(* While things are orderly one task is busy at most.                      *)
SoleInv == Orderly => \A t, u \in CS!Tasks : Busy(t) /\ Busy(u) => t = u

(* While things are orderly the recorded child is nobody's to stop, and    *)
(* every live child is the recorded one or held by a task.                 *)
RecordInv == Orderly =>
    /\ svProc # 0 => svChild[svProc].dog = "wait" /\ ~svChild[svProc].flag
                     /\ svChild[svProc].st \in {"up", "dead", "gone"}
    /\ \A c \in CS!Children : CS!Alive(c) => c = svProc \/ \E t \in CS!Tasks : HeldBy(t, c)

(* What a task may rely on at each place in ensure_running: past the check *)
(* of the row it is wanted and, once written, the file is the row's; the   *)
(* record is empty from the stop to the new child; a task that only stops  *)
(* does so for an unwanted row.                                            *)
Duty(t) ==
    /\ svTask[t].pc \in {"write", "check", "spawn", "record"} => ~Unwanted
    /\ svTask[t].pc = "write" => svTask[t].row = Current
    /\ svTask[t].pc \in {"check", "spawn", "record"} => svFile = Current
    /\ svTask[t].pc \in {"flag", "gone", "stopped", "spawn", "record"} => svProc = 0
    /\ svTask[t].pc \in {"stop", "flag", "gone", "stopped"} =>
            /\ svTask[t].then = "end" => Unwanted
            /\ svTask[t].then = "spawn" => ~Unwanted /\ svFile = Current
    /\ svTask[t].pc = "record" => LET c == svTask[t].pid
                                  IN  /\ svChild[c].dog = "wait" /\ ~svChild[c].flag
                                      /\ svChild[c].st \in {"up", "dead"}
                                      /\ svKind # "mtproxy" => svChild[c].cfg = svFile

(* While things are orderly every task may.                                *)
DutyInv == Orderly => \A t \in CS!Tasks : Duty(t)

(* While things are orderly a reaped watchdog finds no record, and an exit *)
(* somebody asked for leaves nothing to restart.                           *)
JudgeInv == Orderly => \A c \in CS!Children : svChild[c].dog = "reaped" =>
    svProc = 0 /\ (svChild[c].flag => Unwanted \/ svFailed)

(* The recorded child runs the row's file, or there is none for an         *)
(* unwanted row.                                                           *)
Serving ==
    IF Unwanted
    THEN svProc = 0
    ELSE /\ svProc # 0 /\ svFile = Current
         /\ svKind # "mtproxy" => svChild[svProc].cfg = svFile

(* With no task busy and no failed attempt the row is served.              *)
RestInv == Orderly /\ (\A t \in CS!Tasks : ~Busy(t)) /\ ~svFailed => Serving

(* The inductive invariant.                                                *)
ChildrenInv == ChildrenTypeOK /\ SoleInv /\ RecordInv /\ DutyInv /\ JudgeInv /\ RestInv

(* What is asked of the constants: known transports, some handler, and     *)
(* handlers that are no watchdogs.                                         *)
Setting ==
    /\ SvChildren \in Nat /\ Kinds \subseteq KnownKinds
    /\ Handlers # {} /\ Handlers \cap CS!Children = {}

(* What is wanted depends on the transport and the row alone.              *)
LEMMA Frame ==
    ASSUME UNCHANGED <<svKind, svRow>>
    PROVE  Unwanted' = Unwanted /\ Current' = Current
BY DEF Unwanted, Current, CS!StaysOff, CS!Generate, CS!MtproxyStaysOff, CS!MdnsvpnStaysOff,
       CS!DnscryptStaysOff, CS!TorStaysOff, CS!MtproxyValidate, CS!MdnsvpnValidate, CS!ParseResolvers,
       CS!ValidateAdditionalConfig, CS!MtproxyGenerate, CS!MdnsvpnGenerate, CS!DnscryptGenerate, CS!TorGenerate

(* The row renders to a file.                                              *)
LEMMA CurrentType ==
    ASSUME ChildrenTypeOK
    PROVE  Current \in ConfigFiles /\ Unwanted \in BOOLEAN
<1>1. Current \in ConfigFiles
  BY DEF ChildrenTypeOK, KnownKinds, BundleRows, ConfigFiles, Extras, Current, CS!Generate,
         CS!MtproxyGenerate, CS!MdnsvpnGenerate, CS!DnscryptGenerate, CS!TorGenerate
<1>2. Unwanted \in BOOLEAN
  BY DEF ChildrenTypeOK, KnownKinds, BundleRows, Extras, Unwanted, CS!StaysOff,
         CS!MtproxyStaysOff, CS!MdnsvpnStaysOff,
         CS!DnscryptStaysOff, CS!TorStaysOff, CS!MtproxyValidate, CS!MdnsvpnValidate, CS!ParseResolvers,
         CS!ValidateAdditionalConfig
<1> QED BY <1>1, <1>2

(* A task at rest, and the ones that start.                                *)
LEMMA IdleTask ==
    /\ CS!NoTask \in TaskRecords /\ CS!NoTask.pc = "idle" /\ CS!NoTask.then = "end"
    /\ LET q == [CS!NoTask EXCEPT !.pc = "stop"]
       IN  q \in TaskRecords /\ q.pc = "stop" /\ q.then = "end"
    /\ LET q == [CS!NoTask EXCEPT !.pc = "stop", !.then = "read"]
       IN  q \in TaskRecords /\ q.pc = "stop" /\ q.then = "read"
    /\ LET q == [CS!NoTask EXCEPT !.pc = "read", !.reset = FALSE]
       IN  q \in TaskRecords /\ q.pc = "read"
    /\ LET q == [CS!NoTask EXCEPT !.pc = "read"]
       IN  q \in TaskRecords /\ q.pc = "read"
BY DEF CS!NoTask, TaskRecords, TaskPcs, TaskRows, TaskPids, TaskThens

(* A task that ends leaves the others alone.                               *)
LEMMA TaskEnds ==
    ASSUME ChildrenTypeOK, NEW t \in CS!Tasks, CS!End(t)
    PROVE  /\ svTask' \in [CS!Tasks -> TaskRecords] /\ svTask'[t].pc = "idle"
           /\ \A u \in CS!Tasks : u # t => svTask'[u] = svTask[u]
<1>1. CS!NoTask \in TaskRecords /\ CS!NoTask.pc = "idle"
  BY IdleTask
<1> QED BY <1>1 DEF CS!End, ChildrenTypeOK

(* A task that goes on leaves the others alone, and keeps the child it     *)
(* holds.                                                                  *)
LEMMA TaskGoes ==
    ASSUME ChildrenTypeOK, NEW t \in CS!Tasks, NEW l \in TaskPcs, CS!Goto(t, l)
    PROVE  /\ svTask' \in [CS!Tasks -> TaskRecords] /\ svTask'[t].pc = l
           /\ svTask'[t].then = svTask[t].then /\ svTask'[t].pid = svTask[t].pid
           /\ \A u \in CS!Tasks : u # t => svTask'[u] = svTask[u]
BY DEF CS!Goto, ChildrenTypeOK, TaskRecords

(* While things are orderly a task in the middle of something is the only  *)
(* one.                                                                    *)
LEMMA Alone ==
    ASSUME ChildrenInv, Orderly, NEW t \in CS!Tasks, svTask[t].pc # "idle"
    PROVE  /\ \A u \in CS!Tasks : u # t => svTask[u].pc = "idle"
           /\ \A c \in CS!Children : svChild[c].dog # "reaped"
<1>1. \A u \in CS!Tasks : Busy(u) => u = t
  BY DEF ChildrenInv, SoleInv, Busy
<1>2. \A c \in CS!Children : c \in CS!Tasks
  BY DEF CS!Tasks
<1>3. t \in CS!Children => svChild[t].dog = "done"
  BY DEF ChildrenInv, ChildrenTypeOK
<1> QED BY <1>1, <1>2, <1>3 DEF Busy, Reaped

(* A task's step keeps ChildrenInv if it accounts for the live children,   *)
(* for its own duty and, when it ends, for the row being served.           *)
LEMMA TaskStep ==
    ASSUME ChildrenInv, NEW t \in CS!Tasks, svTask[t].pc # "idle",
           svTask' \in [CS!Tasks -> TaskRecords], \A u \in CS!Tasks : u # t => svTask'[u] = svTask[u],
           UNCHANGED <<svKind, svRow, svOverlap>>,
           svFile' \in ConfigFiles, svProc' \in TaskPids, svFailed' \in BOOLEAN,
           svChild' \in [CS!Children -> ChildRecords],
           svLost \subseteq svLost',
           \A c \in CS!Children : svChild'[c].dog = svChild[c].dog
                                  /\ (svChild[c].st = "gone" => svChild'[c].st = "gone"),
           \E k \in 0..SvChildren : \A c \in CS!Children : svChild'[c].st # "unborn" <=> c <= k,
           svTask'[t].pc \in {"flag", "gone", "record"} => svTask'[t].pid # 0,
           svTask'[t].pc = "write" => svTask'[t].row \in ConfigFiles,
           Orderly => /\ svProc' # 0 => svChild'[svProc'].dog = "wait" /\ ~svChild'[svProc'].flag
                                        /\ svChild'[svProc'].st \in {"up", "dead", "gone"}
                      /\ \A c \in CS!Children : svChild'[c].st \in {"up", "asked"} =>
                            \/ c = svProc'
                            \/ svTask'[t].pc \in {"flag", "gone", "record"} /\ svTask'[t].pid = c
                      /\ Duty(t)'
                      /\ svTask'[t].pc = "idle" /\ ~svFailed' => Serving'
    PROVE  ChildrenInv'
<1>0. Orderly' => Orderly
  BY DEF Orderly
<1>1. ChildrenTypeOK'
  <2>1. \A c \in CS!Children : c \in CS!Tasks
    BY DEF CS!Tasks
  <2>2. /\ \A u \in CS!Tasks : svTask'[u].pc \in {"flag", "gone", "record"} => svTask'[u].pid # 0
        /\ \A u \in CS!Tasks : svTask'[u].pc = "write" => svTask'[u].row \in ConfigFiles
    BY DEF ChildrenInv, ChildrenTypeOK
  <2>3. \A c \in CS!Children : svTask'[c].pc # "idle" => svChild'[c].dog = "done"
    BY <2>1 DEF ChildrenInv, ChildrenTypeOK
  <2>4. \A c \in CS!Children : svChild'[c].dog # "wait" => svChild'[c].st = "gone"
    BY DEF ChildrenInv, ChildrenTypeOK
  <2>5. svKind' \in KnownKinds /\ svRow' \in BundleRows /\ svOverlap' \in BOOLEAN
    BY DEF ChildrenInv, ChildrenTypeOK
  <2> QED BY <2>2, <2>3, <2>4, <2>5 DEF ChildrenTypeOK
<1> SUFFICES ASSUME Orderly', Orderly
             PROVE  SoleInv' /\ RecordInv' /\ DutyInv' /\ JudgeInv' /\ RestInv'
  BY <1>0, <1>1 DEF ChildrenInv, SoleInv, RecordInv, DutyInv, JudgeInv, RestInv
<1>2. /\ \A u \in CS!Tasks : u # t => svTask'[u].pc = "idle"
      /\ \A c \in CS!Children : svChild'[c].dog # "reaped"
  BY Alone
<1>3. SoleInv'
  BY <1>2 DEF SoleInv, Busy, Reaped
<1>4. RecordInv'
  BY DEF RecordInv, CS!Alive, HeldBy
<1>5. DutyInv'
  <2> SUFFICES ASSUME NEW u \in CS!Tasks PROVE Duty(u)'
    BY DEF DutyInv
  <2>1. CASE u = t
    BY <2>1
  <2>2. CASE u # t
    BY <1>2, <2>2 DEF Duty
  <2> QED BY <2>1, <2>2
<1>6. JudgeInv'
  BY <1>2 DEF JudgeInv
<1>7. RestInv'
  <2>1. (\A u \in CS!Tasks : ~Busy(u)') => svTask'[t].pc = "idle"
    BY DEF Busy
  <2> QED BY <2>1 DEF RestInv
<1> QED BY <1>3, <1>4, <1>5, <1>6, <1>7

(* A handler that begins while nothing runs keeps ChildrenInv, whatever it *)
(* saved.                                                                  *)
LEMMA Entered ==
    ASSUME ChildrenInv, Handlers \cap CS!Children = {}, NEW h \in Handlers, svTask[h].pc = "idle", CS!Enter,
           svTask' \in [CS!Tasks -> TaskRecords], \A u \in CS!Tasks : u # h => svTask'[u] = svTask[u],
           svTask'[h].pc \in {"read", "stop"}, svTask'[h].pc = "stop" => svTask'[h].then = "read",
           svRow' \in BundleRows, UNCHANGED <<svKind, svFile, svProc, svChild, svLost, svFailed>>
    PROVE  ChildrenInv'
<1>0. h \in CS!Tasks /\ \A c \in CS!Children : c \in CS!Tasks /\ c # h
  BY DEF CS!Tasks
<1>1. svOverlap' \in BOOLEAN /\ (Orderly' => Orderly /\ \A u \in CS!Tasks : ~CS!AtWork(u))
  BY DEF CS!Enter, Orderly, ChildrenInv, ChildrenTypeOK
<1>2. ChildrenTypeOK'
  <2>1. /\ \A u \in CS!Tasks : svTask'[u].pc \in {"flag", "gone", "record"} => svTask'[u].pid # 0
        /\ \A u \in CS!Tasks : svTask'[u].pc = "write" => svTask'[u].row \in ConfigFiles
    BY <1>0 DEF ChildrenInv, ChildrenTypeOK
  <2>2. \A c \in CS!Children : svTask'[c].pc # "idle" => svChild'[c].dog = "done"
    BY <1>0 DEF ChildrenInv, ChildrenTypeOK
  <2> QED BY <1>1, <2>1, <2>2 DEF ChildrenInv, ChildrenTypeOK
<1> SUFFICES ASSUME Orderly', Orderly
             PROVE  SoleInv' /\ RecordInv' /\ DutyInv' /\ JudgeInv' /\ RestInv'
  BY <1>1, <1>2 DEF ChildrenInv, SoleInv, RecordInv, DutyInv, JudgeInv, RestInv
<1>3. \A u \in CS!Tasks : svTask[u].pc = "idle"
  BY <1>1 DEF CS!AtWork
<1>4. \A c \in CS!Children : svChild[c].dog # "reaped"
  BY <1>0, <1>1 DEF CS!AtWork, CS!Spawned, ChildrenInv, ChildrenTypeOK
<1>5. \A u \in CS!Tasks : u # h => svTask'[u].pc = "idle"
  BY <1>3
<1>6. SoleInv'
  BY <1>4, <1>5 DEF SoleInv, Busy, Reaped
<1>7. RecordInv'
  BY <1>3 DEF RecordInv, CS!Alive, HeldBy, ChildrenInv
<1>8. DutyInv'
  <2> SUFFICES ASSUME NEW u \in CS!Tasks PROVE Duty(u)'
    BY DEF DutyInv
  <2>1. svTask'[u].pc = "idle" \/ svTask'[u].pc = "read" \/ (svTask'[u].pc = "stop" /\ svTask'[u].then = "read")
    BY <1>5
  <2> QED BY <2>1 DEF Duty
<1>9. JudgeInv' /\ RestInv'
  BY <1>0, <1>4 DEF JudgeInv, RestInv, Busy
<1> QED BY <1>6, <1>7, <1>8, <1>9

(* The updates of a row keep its type.                                     *)
LEMMA RowUpdate ==
    ASSUME NEW r \in BundleRows
    PROVE  /\ [r EXCEPT !.on = ~@] \in BundleRows /\ [r EXCEPT !.valid = ~@] \in BundleRows
           /\ [r EXCEPT !.tor = ~@] \in BundleRows /\ [r EXCEPT !.ver = @ + 1] \in BundleRows
           /\ [r EXCEPT !.extra = "bridge"] \in BundleRows /\ [r EXCEPT !.extra = "exec"] \in BundleRows
<1> USE DEF BundleRows, Extras
<1>1. [r EXCEPT !.on = ~@] \in BundleRows
  OBVIOUS
<1>2. [r EXCEPT !.valid = ~@] \in BundleRows
  OBVIOUS
<1>3. [r EXCEPT !.tor = ~@] \in BundleRows
  OBVIOUS
<1>4. [r EXCEPT !.ver = @ + 1] \in BundleRows
  OBVIOUS
<1>5. [r EXCEPT !.extra = "bridge"] \in BundleRows /\ [r EXCEPT !.extra = "exec"] \in BundleRows
  OBVIOUS
<1> HIDE DEF BundleRows
<1> QED BY <1>1, <1>2, <1>3, <1>4, <1>5

(* Every admin request keeps ChildrenInv.                                  *)
LEMMA HandlerStep ==
    ASSUME ChildrenInv, Handlers \cap CS!Children = {}, NEW h \in Handlers,
           \/ CS!MtproxyUpdateInbound(h) \/ CS!MtproxyRestart(h)
           \/ CS!MdnsvpnUpdateInbound(h) \/ CS!MdnsvpnRotateKey(h) \/ CS!MdnsvpnRestart(h)
           \/ CS!UpdateBundle(h) \/ CS!SiblingRestarts(h) \/ CS!DnsRestart(h)
    PROVE  ChildrenInv'
<1>0. h \in CS!Tasks /\ svRow \in BundleRows /\ ChildrenTypeOK
  BY DEF CS!Tasks, ChildrenInv, ChildrenTypeOK
<1>1. ASSUME NEW row \in BundleRows, CS!SaveRow(h, row)
      PROVE  ChildrenInv'
  <2>1. svRow' \in BundleRows
    BY <1>1, RowUpdate DEF CS!SaveRow
  <2>2. CS!Goto(h, "read") /\ CS!Enter /\ svTask[h].pc = "idle"
        /\ UNCHANGED <<svKind, svFile, svProc, svChild, svLost, svFailed>>
    BY <1>1 DEF CS!SaveRow
  <2>3. "read" \in TaskPcs
    BY DEF TaskPcs
  <2> QED BY <1>0, <2>1, <2>2, <2>3, TaskGoes, Entered
<1>2. CASE CS!StopFirst(h)
  <2>1. PICK q \in TaskRecords : q.pc = "stop" /\ q.then = "read" /\ svTask' = [svTask EXCEPT ![h] = q]
    BY <1>2, IdleTask DEF CS!StopFirst
  <2>2. svTask' \in [CS!Tasks -> TaskRecords] /\ svTask'[h] = q
        /\ \A u \in CS!Tasks : u # h => svTask'[u] = svTask[u]
    BY <1>0, <2>1 DEF ChildrenTypeOK
  <2>3. CS!Enter /\ svTask[h].pc = "idle" /\ svRow' \in BundleRows
        /\ UNCHANGED <<svKind, svFile, svProc, svChild, svLost, svFailed>>
    BY <1>0, <1>2 DEF CS!StopFirst
  <2> QED BY <2>1, <2>2, <2>3, Entered
<1>3. CASE CS!SiblingRestarts(h)
  <2>1. PICK q \in TaskRecords : q.pc = "read" /\ svTask' = [svTask EXCEPT ![h] = q]
    BY <1>3, IdleTask DEF CS!SiblingRestarts
  <2>2. svTask' \in [CS!Tasks -> TaskRecords] /\ svTask'[h] = q
        /\ \A u \in CS!Tasks : u # h => svTask'[u] = svTask[u]
    BY <1>0, <2>1 DEF ChildrenTypeOK
  <2>3. CS!Enter /\ svTask[h].pc = "idle" /\ svRow' \in BundleRows
        /\ UNCHANGED <<svKind, svFile, svProc, svChild, svLost, svFailed>>
    BY <1>0, <1>3 DEF CS!SiblingRestarts
  <2> QED BY <2>1, <2>2, <2>3, Entered
<1>4. CASE CS!MtproxyUpdateInbound(h) \/ CS!MdnsvpnUpdateInbound(h) \/ CS!MdnsvpnRotateKey(h) \/ CS!UpdateBundle(h)
  <2>1. \E row \in {svRow, [svRow EXCEPT !.on = ~@], [svRow EXCEPT !.tor = ~@],
                   [svRow EXCEPT !.valid = ~@], [svRow EXCEPT !.extra = "bridge"],
                   [svRow EXCEPT !.extra = "exec"]} : CS!SaveRow(h, row)
    BY <1>4 DEF CS!MtproxyUpdateInbound, CS!MdnsvpnUpdateInbound, CS!MdnsvpnRotateKey, CS!UpdateBundle
  <2>2. \E row \in BundleRows : CS!SaveRow(h, row)
    BY <1>0, <2>1, RowUpdate, ZenonT(40)
  <2> QED BY <1>1, <2>2
<1> QED BY <1>2, <1>3, <1>4 DEF CS!MtproxyRestart, CS!MdnsvpnRestart, CS!DnsRestart

(* The cardinality of the component is the library's.                      *)
LEMMA SameCount ==
    ASSUME NEW S
    PROVE  CS!Cardinality(S) = Cardinality(S)
BY DEF CS!Cardinality, Cardinality

(* A spawned child is the next one, reads the file as it is now, and       *)
(* leaves the others alone.                                                *)
LEMMA Born ==
    ASSUME ChildrenTypeOK, SvChildren \in Nat, NEW t, CS!NextChild \in CS!Children, CS!NewChild(t, CS!NextChild)
    PROVE  \E c \in CS!Children :
             /\ c = CS!NextChild /\ svChild[c].st = "unborn" /\ svChild[c].dog = "wait"
             /\ svChild' \in [CS!Children -> ChildRecords]
             /\ svChild'[c].st = "up" /\ svChild'[c].cfg = svFile /\ ~svChild'[c].flag /\ svChild'[c].dog = "wait"
             /\ \A d \in CS!Children : d # c => svChild'[d] = svChild[d]
             /\ \E k \in 0..SvChildren : \A d \in CS!Children : svChild'[d].st # "unborn" <=> d <= k
<1>1. PICK k \in 0..SvChildren : \A c \in CS!Children : svChild[c].st # "unborn" <=> c <= k
  BY DEF ChildrenTypeOK
<1>2. CS!Spawned = 1..k
  BY <1>1 DEF CS!Spawned, CS!Children
<1>3. Cardinality(1..k) = k
  <2>1. 1 \in Int /\ k \in Int /\ k \in Nat
    OBVIOUS
  <2> QED BY <2>1, FS_Interval
<1>4. CS!NextChild = k + 1
  BY <1>2, <1>3, SameCount DEF CS!NextChild
<1> DEFINE c == k + 1
<1>5. c \in CS!Children /\ svChild[c].st = "unborn"
  BY <1>1, <1>4 DEF CS!Children
<1>6. svChild[c].dog = "wait"
  BY <1>5 DEF ChildrenTypeOK
<1>7. [st |-> "up", cfg |-> svFile, flag |-> FALSE, dog |-> "wait"] \in ChildRecords
  BY DEF ChildrenTypeOK, ChildRecords, ChildStates
<1>8. svChild' = [svChild EXCEPT ![c] = [st |-> "up", cfg |-> svFile, flag |-> FALSE, dog |-> "wait"]]
  BY <1>4 DEF CS!NewChild
<1>9. /\ svChild' \in [CS!Children -> ChildRecords]
      /\ svChild'[c] = [st |-> "up", cfg |-> svFile, flag |-> FALSE, dog |-> "wait"]
      /\ \A d \in CS!Children : d # c => svChild'[d] = svChild[d]
  BY <1>5, <1>7, <1>8 DEF ChildrenTypeOK
<1>10. c \in 0..SvChildren /\ \A d \in CS!Children : svChild'[d].st # "unborn" <=> d <= c
  <2> SUFFICES ASSUME NEW d \in CS!Children
        PROVE  c \in 0..SvChildren /\ (svChild'[d].st # "unborn" <=> d <= c)
    BY <1>5 DEF CS!Children
  <2>1. d \in Int /\ c \in 0..SvChildren /\ (d <= c <=> d <= k \/ d = c)
    BY <1>5 DEF CS!Children
  <2> QED BY <1>1, <1>9, <2>1
<1> HIDE DEF c
<1>11. /\ svChild'[c].st = "up" /\ svChild'[c].cfg = svFile /\ ~svChild'[c].flag /\ svChild'[c].dog = "wait"
  BY <1>9
<1>12. c = CS!NextChild
  BY <1>4 DEF c
<1> QED BY <1>5, <1>6, <1>9, <1>10, <1>11, <1>12

(* A task's step that leaves children and record alone.                    *)
LEMMA QuietTaskStep ==
    ASSUME ChildrenInv, NEW t \in CS!Tasks, svTask[t].pc # "idle",
           svTask' \in [CS!Tasks -> TaskRecords], \A u \in CS!Tasks : u # t => svTask'[u] = svTask[u],
           UNCHANGED <<svKind, svRow, svProc, svChild, svLost, svOverlap>>,
           svFile' \in ConfigFiles, svFailed' \in BOOLEAN,
           svTask[t].pc \notin {"flag", "gone", "record"},
           svTask'[t].pc \notin {"flag", "gone", "record"},
           svTask'[t].pc = "write" => svTask'[t].row \in ConfigFiles,
           Orderly => Duty(t)' /\ (svTask'[t].pc = "idle" /\ ~svFailed' => Serving')
    PROVE  ChildrenInv'
<1>1. svProc' \in TaskPids /\ svChild' \in [CS!Children -> ChildRecords]
      /\ \E k \in 0..SvChildren : \A c \in CS!Children : svChild'[c].st # "unborn" <=> c <= k
  BY DEF ChildrenInv, ChildrenTypeOK
<1>2. ASSUME Orderly
      PROVE  /\ svProc' # 0 => svChild'[svProc'].dog = "wait" /\ ~svChild'[svProc'].flag
                               /\ svChild'[svProc'].st \in {"up", "dead", "gone"}
             /\ \A c \in CS!Children : svChild'[c].st \in {"up", "asked"} => c = svProc'
  <2>1. \A u \in CS!Tasks, c \in CS!Children : ~HeldBy(u, c)
    BY <1>2, Alone DEF HeldBy
  <2> QED BY <1>2, <2>1 DEF ChildrenInv, RecordInv, CS!Alive
<1> QED BY <1>1, <1>2, TaskStep

(* Reading the row, writing the file, and mtproxy's check of the running   *)
(* child keep ChildrenInv.                                                 *)
LEMMA EnsureStep ==
    ASSUME ChildrenInv, NEW t \in CS!Tasks,
           CS!ReadRow(t) \/ CS!WriteConfig(t) \/ CS!MtproxyCheck(t)
    PROVE  ChildrenInv'
<1>0. ChildrenTypeOK /\ svTask[t] \in TaskRecords /\ Current \in ConfigFiles
  BY CurrentType DEF ChildrenInv, ChildrenTypeOK
<1>1. CASE CS!ReadRow(t)
  <2>0. svTask[t].pc = "read"
        /\ UNCHANGED <<svKind, svRow, svFile, svProc, svChild, svLost, svOverlap, svFailed>>
    BY <1>1 DEF CS!ReadRow
  <2>f. Unwanted' = Unwanted /\ Current' = Current
    BY <2>0, Frame
  <2>1. PICK q \in TaskRecords :
          /\ svTask' = [svTask EXCEPT ![t] = q]
          /\ \/ q.pc = "stop" /\ q.then = "end" /\ Unwanted
             \/ q.pc = "write" /\ q.row = Current /\ ~Unwanted
    <3>1. CASE Unwanted
      <4> DEFINE q == [CS!NoTask EXCEPT !.pc = "stop"]
      <4>1. svTask' = [svTask EXCEPT ![t] = q]
        BY <1>1, <3>1 DEF CS!ReadRow, Unwanted
      <4>2. q \in TaskRecords /\ q.pc = "stop" /\ q.then = "end"
        BY IdleTask
      <4> HIDE DEF q
      <4> QED BY <3>1, <4>1, <4>2
    <3>2. CASE ~Unwanted
      <4> DEFINE q == [svTask[t] EXCEPT !.pc = "write", !.row = Current]
      <4>1. svTask' = [svTask EXCEPT ![t] = q]
        BY <1>1, <3>2 DEF CS!ReadRow, Unwanted, Current
      <4>2. q \in TaskRecords /\ q.pc = "write" /\ q.row = Current
        <5> HIDE DEF Current
        <5>1. "write" \in TaskPcs /\ Current \in TaskRows
          BY <1>0 DEF TaskPcs, TaskRows
        <5> QED BY <1>0, <5>1 DEF TaskRecords
      <4> HIDE DEF q
      <4> QED BY <3>2, <4>1, <4>2
    <3> QED BY <3>1, <3>2
  <2>2. svTask' \in [CS!Tasks -> TaskRecords] /\ svTask'[t] = q
        /\ \A u \in CS!Tasks : u # t => svTask'[u] = svTask[u]
    BY <1>0, <2>1 DEF ChildrenTypeOK
  <2>3. Duty(t)'
    BY <2>f, <2>1, <2>2 DEF Duty
  <2>4. svFile' \in ConfigFiles /\ svFailed' \in BOOLEAN
        /\ (svTask'[t].pc = "write" => svTask'[t].row \in ConfigFiles)
    BY <1>0, <2>0, <2>1, <2>2 DEF ChildrenTypeOK
  <2> QED BY <2>0, <2>1, <2>2, <2>3, <2>4, QuietTaskStep
<1>2. CASE CS!WriteConfig(t)
  <2>0. svTask[t].pc = "write" /\ UNCHANGED <<svKind, svRow, svProc, svChild, svLost, svOverlap>>
    BY <1>2 DEF CS!WriteConfig
  <2>f. Unwanted' = Unwanted /\ Current' = Current
    BY <2>0, Frame
  <2>1. CASE svFile' = svTask[t].row /\ CS!Goto(t, "check") /\ UNCHANGED svFailed
    <3>0. "check" \in TaskPcs
      BY DEF TaskPcs
    <3>1. /\ svTask' \in [CS!Tasks -> TaskRecords] /\ svTask'[t].pc = "check"
          /\ \A u \in CS!Tasks : u # t => svTask'[u] = svTask[u]
      BY <1>0, <2>1, <3>0, TaskGoes
    <3>2. svFile' \in ConfigFiles
      BY <1>0, <2>0, <2>1 DEF ChildrenTypeOK
    <3>3. Orderly => Duty(t)'
      BY <2>0, <2>f, <2>1, <3>1 DEF Duty, ChildrenInv, DutyInv
    <3>4. svFailed' \in BOOLEAN
      BY <1>0, <2>1 DEF ChildrenTypeOK
    <3> QED BY <2>0, <3>1, <3>2, <3>3, <3>4, QuietTaskStep
  <2>2. CASE CS!End(t) /\ svFailed' = TRUE /\ UNCHANGED svFile
    <3>1. /\ svTask' \in [CS!Tasks -> TaskRecords] /\ svTask'[t].pc = "idle"
          /\ \A u \in CS!Tasks : u # t => svTask'[u] = svTask[u]
      BY <1>0, <2>2, TaskEnds
    <3>2. Duty(t)'
      BY <3>1 DEF Duty
    <3>3. svFile' \in ConfigFiles /\ svFailed' \in BOOLEAN
      BY <1>0, <2>2 DEF ChildrenTypeOK
    <3> QED BY <2>0, <2>2, <3>1, <3>2, <3>3, QuietTaskStep
  <2> QED BY <1>2, <2>1, <2>2 DEF CS!WriteConfig
<1>3. CASE CS!MtproxyCheck(t)
  <2>0. /\ svKind = "mtproxy" /\ svTask[t].pc = "check"
        /\ UNCHANGED <<svKind, svRow, svFile, svProc, svChild, svLost, svOverlap>>
    BY <1>3 DEF CS!MtproxyCheck
  <2>f. Unwanted' = Unwanted /\ Current' = Current
    BY <2>0, Frame
  <2>d. Orderly => ~Unwanted /\ svFile = Current
    BY <2>0 DEF ChildrenInv, DutyInv, Duty
  <2>4. svFile' \in ConfigFiles
    BY <1>0, <2>0 DEF ChildrenTypeOK
  <2>1. CASE svProc # 0
    <3>1. CS!End(t) /\ svFailed' = FALSE
      BY <1>3, <2>1 DEF CS!MtproxyCheck
    <3>2. /\ svTask' \in [CS!Tasks -> TaskRecords] /\ svTask'[t].pc = "idle"
          /\ \A u \in CS!Tasks : u # t => svTask'[u] = svTask[u]
      BY <1>0, <3>1, TaskEnds
    <3>3. Duty(t)'
      BY <3>2 DEF Duty
    <3>4. Orderly => Serving'
      BY <2>0, <2>1, <2>d, <2>f DEF Serving
    <3> QED BY <2>0, <2>4, <3>1, <3>2, <3>3, <3>4, QuietTaskStep
  <2>2. CASE svProc = 0
    <3>0. CS!Goto(t, "spawn") /\ svFailed' = svFailed /\ "spawn" \in TaskPcs
      BY <1>3, <2>2 DEF CS!MtproxyCheck, TaskPcs
    <3>1. /\ svTask' \in [CS!Tasks -> TaskRecords] /\ svTask'[t].pc = "spawn"
          /\ \A u \in CS!Tasks : u # t => svTask'[u] = svTask[u]
      BY <1>0, <3>0, TaskGoes
    <3>2. Orderly => Duty(t)'
      BY <2>0, <2>2, <2>d, <2>f, <3>1 DEF Duty
    <3>3. svFailed' \in BOOLEAN
      BY <1>0, <3>0 DEF ChildrenTypeOK
    <3> QED BY <2>0, <2>4, <3>1, <3>2, <3>3, QuietTaskStep
  <2> QED BY <2>1, <2>2
<1> QED BY <1>1, <1>2, <1>3

(* A task in the middle of something accounts for every live child with    *)
(* the record.                                                             *)
LEMMA OnlyRecorded ==
    ASSUME ChildrenInv, Orderly, NEW t \in CS!Tasks, svTask[t].pc # "idle"
    PROVE  \A c \in CS!Children : CS!Alive(c) => c = svProc \/ HeldBy(t, c)
<1>1. \A u \in CS!Tasks : u # t => svTask[u].pc = "idle"
  BY Alone
<1> QED BY <1>1 DEF ChildrenInv, RecordInv, HeldBy

(* The check that stops a running child before spawning keeps ChildrenInv. *)
LEMMA RestartStep ==
    ASSUME ChildrenInv, NEW t \in CS!Tasks, CS!RestartCheck(t)
    PROVE  ChildrenInv'
<1>0. ChildrenTypeOK /\ svTask[t] \in TaskRecords
  BY DEF ChildrenInv, ChildrenTypeOK
<1>1. svTask[t].pc = "check"
      /\ UNCHANGED <<svKind, svRow, svFile, svProc, svChild, svLost, svOverlap, svFailed>>
  BY DEF CS!RestartCheck
<1>2. Unwanted' = Unwanted /\ Current' = Current
  BY <1>1, Frame
<1>3. Orderly => ~Unwanted /\ svFile = Current
  BY <1>1 DEF ChildrenInv, DutyInv, Duty
<1>4. /\ svTask' \in [CS!Tasks -> TaskRecords] /\ svTask'[t].then = "spawn"
      /\ svTask'[t].pc = IF svProc # 0 THEN "stop" ELSE "spawn"
      /\ \A u \in CS!Tasks : u # t => svTask'[u] = svTask[u]
  <2>1. {"stop", "spawn"} \subseteq TaskPcs /\ "spawn" \in TaskThens
    BY DEF TaskPcs, TaskThens
  <2> QED BY <1>0, <2>1 DEF CS!RestartCheck, ChildrenTypeOK, TaskRecords
<1>5. Orderly => Duty(t)'
  BY <1>1, <1>2, <1>3, <1>4 DEF Duty
<1>6. svFile' \in ConfigFiles /\ svFailed' \in BOOLEAN
  BY <1>0, <1>1 DEF ChildrenTypeOK
<1> QED BY <1>1, <1>4, <1>5, <1>6, QuietTaskStep

(* dnscrypt's check, which reloads the running child or spawns under the   *)
(* lock, keeps ChildrenInv.                                                *)
LEMMA DnscryptStep ==
    ASSUME ChildrenInv, SvChildren \in Nat, NEW t \in CS!Tasks, CS!DnscryptCheck(t)
    PROVE  ChildrenInv'
<1>0. ChildrenTypeOK /\ svFile \in ConfigFiles /\ svProc \in TaskPids /\ svFailed \in BOOLEAN
      /\ svChild \in [CS!Children -> ChildRecords]
  BY DEF ChildrenInv, ChildrenTypeOK
<1>1. svTask[t].pc = "check" /\ CS!End(t) /\ UNCHANGED <<svKind, svRow, svFile, svOverlap>>
  BY DEF CS!DnscryptCheck
<1>2. Unwanted' = Unwanted /\ Current' = Current
  BY <1>1, Frame
<1>3. Orderly => ~Unwanted /\ svFile = Current
  BY <1>1 DEF ChildrenInv, DutyInv, Duty
<1>4. /\ svTask' \in [CS!Tasks -> TaskRecords] /\ svTask'[t].pc = "idle"
      /\ \A u \in CS!Tasks : u # t => svTask'[u] = svTask[u]
  BY <1>0, <1>1, TaskEnds
<1>5. Duty(t)'
  BY <1>4 DEF Duty
<1>6. Orderly => \A c \in CS!Children : svChild[c].st \in {"up", "asked"} => c = svProc
  BY <1>1, OnlyRecorded DEF HeldBy, CS!Alive
<1>7. CASE svProc # 0
  <2>1. /\ svChild' = [svChild EXCEPT ![svProc].cfg = svFile]
        /\ svFailed' = (svChild[svProc].st = "gone") /\ UNCHANGED <<svProc, svLost>>
    BY <1>7 DEF CS!DnscryptCheck
  <2>2. svProc \in CS!Children /\ svFailed' \in BOOLEAN
    BY <1>0, <1>7, <2>1 DEF TaskPids
  <2>3. /\ svChild' \in [CS!Children -> ChildRecords] /\ svChild'[svProc].cfg = svFile
        /\ \A c \in CS!Children : svChild'[c].st = svChild[c].st /\ svChild'[c].dog = svChild[c].dog
                                  /\ svChild'[c].flag = svChild[c].flag
    BY <1>0, <2>1, <2>2 DEF ChildRecords
  <2>4. \E k \in 0..SvChildren : \A c \in CS!Children : svChild'[c].st # "unborn" <=> c <= k
    BY <1>0, <2>3 DEF ChildrenTypeOK
  <2>5. Orderly => Serving'
    BY <1>1, <1>2, <1>3, <1>7, <2>1, <2>3 DEF Serving
  <2>6. Orderly => svChild'[svProc].dog = "wait" /\ ~svChild'[svProc].flag
                   /\ svChild'[svProc].st \in {"up", "dead", "gone"}
    BY <1>7, <2>2, <2>3 DEF ChildrenInv, RecordInv
  <2> QED BY <1>0, <1>1, <1>4, <1>5, <1>6, <1>7, <2>1, <2>2, <2>3, <2>4, <2>5, <2>6, TaskStep
<1>8. CASE svProc = 0
  <2>1. CS!NextChild \in CS!Children /\ CS!NewChild(t, CS!NextChild) /\ CS!SetProc(t, CS!NextChild)
    BY <1>8 DEF CS!DnscryptCheck
  <2>2. PICK c \in CS!Children :
             /\ c = CS!NextChild /\ svChild[c].st = "unborn" /\ svChild[c].dog = "wait"
             /\ svChild' \in [CS!Children -> ChildRecords]
             /\ svChild'[c].st = "up" /\ svChild'[c].cfg = svFile /\ ~svChild'[c].flag /\ svChild'[c].dog = "wait"
             /\ \A d \in CS!Children : d # c => svChild'[d] = svChild[d]
             /\ \E k \in 0..SvChildren : \A d \in CS!Children : svChild'[d].st # "unborn" <=> d <= k
    BY <1>0, <2>1, Born
  <2>3. svProc' = c /\ svLost' = svLost /\ svFailed' = FALSE
    BY <1>8, <2>1, <2>2 DEF CS!SetProc
  <2>4. svProc' \in TaskPids
    BY <2>3 DEF TaskPids
  <2>n. c # 0
    BY DEF CS!Children
  <2>5. Orderly => Serving'
    BY <1>1, <1>2, <1>3, <2>2, <2>3, <2>n DEF Serving
  <2>6. Orderly => \A d \in CS!Children : svChild'[d].st \in {"up", "asked"} => d = c
    BY <1>6, <1>8, <2>2 DEF CS!Children
  <2>7. \A d \in CS!Children : svChild'[d].dog = svChild[d].dog /\ (svChild[d].st = "gone" => svChild'[d].st = "gone")
    BY <2>2
  <2> HIDE DEF Serving, Duty
  <2> QED BY <1>0, <1>1, <1>4, <1>5, <2>2, <2>3, <2>4, <2>5, <2>6, <2>7, TaskStep
<1> QED BY <1>7, <1>8

(* Spawning keeps ChildrenInv.                                             *)
LEMMA SpawnStep ==
    ASSUME ChildrenInv, SvChildren \in Nat, NEW t \in CS!Tasks, CS!SpawnChild(t)
    PROVE  ChildrenInv'
<1>0. ChildrenTypeOK /\ svFile \in ConfigFiles /\ svProc \in TaskPids /\ svFailed \in BOOLEAN
      /\ svTask \in [CS!Tasks -> TaskRecords]
  BY DEF ChildrenInv, ChildrenTypeOK
<1>1. /\ svTask[t].pc = "spawn" /\ CS!NextChild \in CS!Children /\ CS!NewChild(t, CS!NextChild)
      /\ svTask' = [svTask EXCEPT ![t].pc = "record", ![t].pid = CS!NextChild]
      /\ UNCHANGED <<svKind, svRow, svFile, svProc, svLost, svOverlap, svFailed>>
  BY DEF CS!SpawnChild
<1>2. Unwanted' = Unwanted /\ Current' = Current
  BY <1>1, Frame
<1>3. Orderly => ~Unwanted /\ svFile = Current /\ svProc = 0
  BY <1>1 DEF ChildrenInv, DutyInv, Duty
<1>4. PICK c \in CS!Children :
           /\ c = CS!NextChild /\ svChild[c].st = "unborn" /\ svChild[c].dog = "wait"
           /\ svChild' \in [CS!Children -> ChildRecords]
           /\ svChild'[c].st = "up" /\ svChild'[c].cfg = svFile /\ ~svChild'[c].flag /\ svChild'[c].dog = "wait"
           /\ \A d \in CS!Children : d # c => svChild'[d] = svChild[d]
           /\ \E k \in 0..SvChildren : \A d \in CS!Children : svChild'[d].st # "unborn" <=> d <= k
  BY <1>0, <1>1, Born
<1>n. c # 0 /\ 0 \notin CS!Children
  BY DEF CS!Children
<1>5. /\ svTask' \in [CS!Tasks -> TaskRecords] /\ svTask'[t].pc = "record" /\ svTask'[t].pid = c
      /\ \A u \in CS!Tasks : u # t => svTask'[u] = svTask[u]
  <2>1. "record" \in TaskPcs /\ c \in TaskPids /\ svTask' = [svTask EXCEPT ![t].pc = "record", ![t].pid = c]
    BY <1>1, <1>4 DEF TaskPcs, TaskPids
  <2> QED BY <1>0, <2>1 DEF TaskRecords
<1>6. Orderly => \A d \in CS!Children : svChild'[d].st \in {"up", "asked"} => d = c
  <2>1. Orderly => \A d \in CS!Children : svChild[d].st \in {"up", "asked"} => d = svProc
    BY <1>1, OnlyRecorded DEF HeldBy, CS!Alive
  <2> QED BY <1>3, <1>4, <1>n, <2>1
<1>7. Orderly => Duty(t)'
  BY <1>1, <1>2, <1>3, <1>4, <1>5 DEF Duty
<1>8. \A d \in CS!Children : svChild'[d].dog = svChild[d].dog /\ (svChild[d].st = "gone" => svChild'[d].st = "gone")
  BY <1>4
<1> HIDE DEF Duty
<1> QED BY <1>0, <1>1, <1>3, <1>4, <1>5, <1>6, <1>7, <1>8, <1>n, TaskStep

(* Recording the spawned child keeps ChildrenInv.                          *)
LEMMA RecordStepOfChild ==
    ASSUME ChildrenInv, NEW t \in CS!Tasks, CS!RecordChild(t)
    PROVE  ChildrenInv'
<1>0. ChildrenTypeOK /\ svFile \in ConfigFiles /\ svChild \in [CS!Children -> ChildRecords]
      /\ svTask \in [CS!Tasks -> TaskRecords]
  BY DEF ChildrenInv, ChildrenTypeOK
<1>1. /\ svTask[t].pc = "record" /\ CS!End(t) /\ svProc' = svTask[t].pid /\ svFailed' = FALSE
      /\ svLost \subseteq svLost' /\ UNCHANGED <<svKind, svRow, svFile, svChild, svOverlap>>
  BY DEF CS!RecordChild, CS!SetProc
<1>2. Unwanted' = Unwanted /\ Current' = Current
  BY <1>1, Frame
<1>3. Orderly => Duty(t) /\ svProc = 0
  BY <1>1 DEF ChildrenInv, DutyInv, Duty
<1>4. /\ svTask' \in [CS!Tasks -> TaskRecords] /\ svTask'[t].pc = "idle"
      /\ \A u \in CS!Tasks : u # t => svTask'[u] = svTask[u]
  BY <1>0, <1>1, TaskEnds
<1>5. svProc' \in TaskPids /\ svProc' # 0
  BY <1>0, <1>1 DEF ChildrenTypeOK, TaskRecords
<1>6. Orderly => \A c \in CS!Children : svChild[c].st \in {"up", "asked"} => c = svTask[t].pid
  <2>1. 0 \notin CS!Children
    BY DEF CS!Children
  <2> QED BY <1>1, <1>3, <2>1, OnlyRecorded DEF HeldBy, CS!Alive
<1>7. Duty(t)'
  BY <1>4 DEF Duty
<1>8. Orderly => Serving'
  BY <1>1, <1>2, <1>3, <1>5 DEF Serving, Duty
<1>9. Orderly => svChild'[svProc'].dog = "wait" /\ ~svChild'[svProc'].flag /\ svChild'[svProc'].st \in {"up", "dead", "gone"}
  BY <1>1, <1>3 DEF Duty
<1>10. \E k \in 0..SvChildren : \A c \in CS!Children : svChild'[c].st # "unborn" <=> c <= k
  BY <1>0, <1>1 DEF ChildrenTypeOK
<1> HIDE DEF Duty, Serving
<1> QED BY <1>0, <1>1, <1>4, <1>5, <1>6, <1>7, <1>8, <1>9, <1>10, TaskStep

(* Taking the record, signalling the child and waiting for its exit keep   *)
(* ChildrenInv.                                                            *)
LEMMA StopStep ==
    ASSUME ChildrenInv, NEW t \in CS!Tasks, CS!StopIfRunning(t)
    PROVE  ChildrenInv'
<1>0. ChildrenTypeOK /\ svFile \in ConfigFiles /\ svChild \in [CS!Children -> ChildRecords]
      /\ svTask \in [CS!Tasks -> TaskRecords] /\ svProc \in TaskPids /\ svFailed \in BOOLEAN
      /\ svTask[t] \in TaskRecords
  BY DEF ChildrenInv, ChildrenTypeOK
<1>n. 0 \notin CS!Children /\ 0 \in TaskPids
  BY DEF CS!Children, TaskPids
<1>k. \E k \in 0..SvChildren : \A c \in CS!Children : svChild[c].st # "unborn" <=> c <= k
  BY <1>0 DEF ChildrenTypeOK
<1>1. CASE CS!StopTake(t)
  <2>1. /\ svTask[t].pc = "stop" /\ svProc' = 0
        /\ svTask' = [svTask EXCEPT ![t].pid = svProc, ![t].pc = IF svProc = 0 THEN "stopped" ELSE "flag"]
        /\ UNCHANGED <<svKind, svRow, svFile, svChild, svLost, svOverlap, svFailed>>
    BY <1>1 DEF CS!StopTake
  <2>2. Unwanted' = Unwanted /\ Current' = Current
    BY <2>1, Frame
  <2>3. /\ svTask' \in [CS!Tasks -> TaskRecords] /\ svTask'[t].pid = svProc
        /\ svTask'[t].pc = IF svProc = 0 THEN "stopped" ELSE "flag"
        /\ svTask'[t].then = svTask[t].then
        /\ \A u \in CS!Tasks : u # t => svTask'[u] = svTask[u]
    <3>1. {"stopped", "flag"} \subseteq TaskPcs
      BY DEF TaskPcs
    <3> QED BY <1>0, <2>1, <3>1 DEF TaskRecords
  <2>4. Orderly => Duty(t)'
    BY <2>1, <2>2, <2>3 DEF Duty, ChildrenInv, DutyInv
  <2>5. Orderly => \A c \in CS!Children : svChild[c].st \in {"up", "asked"} => c = svProc
    BY <2>1, OnlyRecorded DEF HeldBy, CS!Alive
  <2> HIDE DEF Duty
  <2> QED BY <1>0, <1>n, <1>k, <2>1, <2>3, <2>4, <2>5, TaskStep
<1>2. CASE CS!StopFlag(t)
  <2>1. /\ svTask[t].pc = "flag" /\ CS!Goto(t, "gone") /\ "gone" \in TaskPcs
        /\ UNCHANGED <<svKind, svRow, svFile, svProc, svLost, svOverlap, svFailed>>
    BY <1>2 DEF CS!StopFlag, TaskPcs
  <2>2. Unwanted' = Unwanted /\ Current' = Current
    BY <2>1, Frame
  <2>3. PICK c \in CS!Children : c = svTask[t].pid
    BY <1>0, <2>1 DEF ChildrenTypeOK, TaskRecords, TaskPids
  <2>4. svChild' = [svChild EXCEPT ![c].flag = TRUE, ![c].st = IF @ = "up" THEN "asked" ELSE @]
    BY <1>2, <2>3 DEF CS!StopFlag
  <2>5. /\ svChild' \in [CS!Children -> ChildRecords]
        /\ \A d \in CS!Children : svChild'[d].dog = svChild[d].dog
        /\ \A d \in CS!Children : d # c => svChild'[d] = svChild[d]
        /\ svChild'[c].st = IF svChild[c].st = "up" THEN "asked" ELSE svChild[c].st
    <3>1. "asked" \in ChildStates
      BY DEF ChildStates
    <3> QED BY <1>0, <2>4, <3>1 DEF ChildRecords
  <2>6. /\ svTask' \in [CS!Tasks -> TaskRecords] /\ svTask'[t].pc = "gone" /\ svTask'[t].pid = c
        /\ svTask'[t].then = svTask[t].then
        /\ \A u \in CS!Tasks : u # t => svTask'[u] = svTask[u]
    BY <1>0, <2>1, <2>3, TaskGoes
  <2>7. Orderly => Duty(t)' /\ svProc = 0
    BY <2>1, <2>2, <2>6 DEF Duty, ChildrenInv, DutyInv
  <2>8. Orderly => \A d \in CS!Children : svChild'[d].st \in {"up", "asked"} => d = c
    <3>1. Orderly => \A d \in CS!Children : svChild[d].st \in {"up", "asked"} => d = svProc \/ d = c
      BY <2>1, <2>3, OnlyRecorded DEF HeldBy, CS!Alive
    <3> QED BY <1>n, <2>5, <2>7, <3>1
  <2>9. \A d \in CS!Children : (svChild[d].st = "gone" => svChild'[d].st = "gone")
                              /\ (svChild'[d].st # "unborn" <=> svChild[d].st # "unborn")
    BY <2>5
  <2>10. \E k \in 0..SvChildren : \A d \in CS!Children : svChild'[d].st # "unborn" <=> d <= k
    BY <1>k, <2>9
  <2> HIDE DEF Duty
  <2> QED BY <1>0, <1>n, <2>1, <2>5, <2>6, <2>7, <2>8, <2>9, <2>10, TaskStep
<1>3. CASE CS!StopDone(t)
  <2>1. /\ \/ svTask[t].pc = "stopped"
           \/ svTask[t].pc = "gone" /\ svChild[svTask[t].pid].st = "gone"
        /\ UNCHANGED <<svKind, svRow, svFile, svProc, svChild, svLost, svOverlap>>
    BY <1>3 DEF CS!StopDone
  <2>2. Unwanted' = Unwanted /\ Current' = Current
    BY <2>1, Frame
  <2>3. Orderly => Duty(t) /\ svProc = 0
    BY <2>1 DEF Duty, ChildrenInv, DutyInv
  <2>4. Orderly => \A c \in CS!Children : svChild[c].st \notin {"up", "asked"}
    BY <1>n, <2>1, <2>3, OnlyRecorded DEF HeldBy, CS!Alive
  <2>5. CASE svTask[t].then = "end"
    <3>1. CS!End(t) /\ svFailed' = FALSE
      BY <1>3, <2>5 DEF CS!StopDone
    <3>2. /\ svTask' \in [CS!Tasks -> TaskRecords] /\ svTask'[t].pc = "idle"
          /\ \A u \in CS!Tasks : u # t => svTask'[u] = svTask[u]
      BY <1>0, <3>1, TaskEnds
    <3>3. Duty(t)'
      BY <3>2 DEF Duty
    <3>4. Orderly => Serving'
      BY <2>1, <2>2, <2>3, <2>5 DEF Serving, Duty
    <3> HIDE DEF Duty, Serving
    <3> QED BY <1>0, <1>n, <1>k, <2>1, <2>3, <2>4, <3>1, <3>2, <3>3, <3>4, TaskStep
  <2>6. CASE svTask[t].then # "end"
    <3>1. CS!Goto(t, svTask[t].then) /\ svFailed' = svFailed
      BY <1>3, <2>6 DEF CS!StopDone
    <3>2. PICK l \in TaskPcs : l = svTask[t].then /\ l \in {"read", "spawn"}
      BY <1>0, <2>6 DEF TaskRecords, TaskThens, TaskPcs
    <3>3. /\ svTask' \in [CS!Tasks -> TaskRecords] /\ svTask'[t].pc = l
          /\ \A u \in CS!Tasks : u # t => svTask'[u] = svTask[u]
      BY <1>0, <3>1, <3>2, TaskGoes
    <3>4. Orderly => Duty(t)'
      BY <2>1, <2>2, <2>3, <3>2, <3>3 DEF Duty
    <3> HIDE DEF Duty
    <3> QED BY <1>0, <1>n, <1>k, <2>1, <2>3, <2>4, <3>1, <3>2, <3>3, <3>4, TaskStep
  <2> QED BY <2>5, <2>6
<1> QED BY <1>1, <1>2, <1>3 DEF CS!StopIfRunning

(* A child's exit, its reload of the file and the wait for it keep         *)
(* ChildrenInv.                                                            *)
LEMMA ChildStep ==
    ASSUME ChildrenInv, NEW c \in CS!Children, CS!Dies(c) \/ CS!ChildReloads(c) \/ CS!Wait(c)
    PROVE  ChildrenInv'
<1>0. ChildrenTypeOK /\ svChild \in [CS!Children -> ChildRecords] /\ svFile \in ConfigFiles
  BY DEF ChildrenInv, ChildrenTypeOK
<1>1. UNCHANGED <<svKind, svRow, svFile, svProc, svTask, svLost, svOverlap, svFailed>>
  BY DEF CS!Dies, CS!ChildReloads, CS!Wait
<1>2. Unwanted' = Unwanted /\ Current' = Current
  BY <1>1, Frame
<1>3. /\ svChild' \in [CS!Children -> ChildRecords]
      /\ \A d \in CS!Children : d # c => svChild'[d] = svChild[d]
      /\ svChild'[c].dog = svChild[c].dog /\ svChild'[c].flag = svChild[c].flag
      /\ svKind # "mtproxy" => svChild'[c].cfg = svChild[c].cfg
      /\ \/ svChild[c].st \in {"up", "asked"} /\ svChild'[c].st = "dead"
         \/ svChild'[c].st = svChild[c].st
         \/ /\ svChild[c].st = "dead" /\ svChild'[c].st = "gone"
            /\ \A t \in CS!Tasks : svTask[t].pc = "record" => svTask[t].pid # c
  <2>0. {"dead", "gone"} \subseteq ChildStates
    BY DEF ChildStates
  <2>1. CASE CS!Dies(c)
    BY <1>0, <2>0, <2>1 DEF CS!Dies, ChildRecords
  <2>2. CASE CS!ChildReloads(c)
    BY <1>0, <2>0, <2>2 DEF CS!ChildReloads, ChildRecords
  <2>3. CASE CS!Wait(c)
    BY <1>0, <2>0, <2>3 DEF CS!Wait, ChildRecords
  <2> QED BY <2>1, <2>2, <2>3
<1>4. \A d \in CS!Children :
        /\ svChild'[d].dog = svChild[d].dog /\ svChild'[d].flag = svChild[d].flag
        /\ svKind # "mtproxy" => svChild'[d].cfg = svChild[d].cfg
        /\ svChild'[d].st \in {"up", "asked"} => svChild'[d].st = svChild[d].st
        /\ svChild'[d].st # "unborn" <=> svChild[d].st # "unborn"
        /\ svChild[d].st \in {"up", "dead", "gone"} => svChild'[d].st \in {"up", "dead", "gone"}
        /\ svChild[d].dog # "wait" => svChild'[d].st = "gone"
  <2>1. svChild[c].dog # "wait" => svChild[c].st = "gone"
    BY <1>0 DEF ChildrenTypeOK
  <2> QED BY <1>0, <1>3, <2>1 DEF ChildrenTypeOK
<1>5. \A t \in CS!Tasks : svTask[t].pc = "record" /\ svChild[svTask[t].pid].st \in {"up", "dead"} =>
            svTask[t].pid \in CS!Children /\ svChild'[svTask[t].pid].st \in {"up", "dead"}
  <2>1. \A t \in CS!Tasks : svTask[t].pc = "record" => svTask[t].pid \in CS!Children
    BY <1>0 DEF ChildrenTypeOK, TaskRecords, TaskPids
  <2> QED BY <1>3, <2>1
<1>6. \E k \in 0..SvChildren : \A d \in CS!Children : svChild'[d].st # "unborn" <=> d <= k
  BY <1>0, <1>4 DEF ChildrenTypeOK
<1>7. ChildrenTypeOK'
  BY <1>0, <1>1, <1>3, <1>4, <1>6 DEF ChildrenTypeOK
<1>8. SoleInv'
  BY <1>1, <1>4 DEF ChildrenInv, SoleInv, Busy, Reaped, Orderly
<1>9. RecordInv'
  <2>1. svProc # 0 => svProc \in CS!Children
    BY <1>0 DEF ChildrenTypeOK, TaskPids
  <2> QED BY <1>1, <1>4, <2>1 DEF ChildrenInv, RecordInv, Orderly, CS!Alive, HeldBy
<1>10. DutyInv'
  <2> SUFFICES ASSUME Orderly, NEW t \in CS!Tasks PROVE Duty(t)'
    BY <1>1 DEF DutyInv, Orderly
  <2>1. Duty(t)
    BY DEF ChildrenInv, DutyInv
  <2> QED BY <1>1, <1>2, <1>4, <1>5, <2>1 DEF Duty
<1>11. JudgeInv'
  BY <1>1, <1>2, <1>4 DEF ChildrenInv, JudgeInv, Orderly
<1>12. RestInv'
  <2> SUFFICES ASSUME Orderly, \A t \in CS!Tasks : ~Busy(t), ~svFailed PROVE Serving'
    BY <1>1, <1>4 DEF RestInv, Busy, Reaped, Orderly
  <2>1. Serving
    BY DEF ChildrenInv, RestInv
  <2>2. svProc # 0 => svProc \in CS!Children
    BY <1>0 DEF ChildrenTypeOK, TaskPids
  <2> QED BY <1>1, <1>2, <1>4, <2>1, <2>2 DEF Serving
<1> QED BY <1>7, <1>8, <1>9, <1>10, <1>11, <1>12 DEF ChildrenInv

(* A watchdog that clears the record keeps ChildrenInv; the record it      *)
(* clears while things are orderly is its own child's.                     *)
LEMMA ReapStep ==
    ASSUME ChildrenInv, NEW c \in CS!Children, CS!Reap(c)
    PROVE  ChildrenInv'
<1>0. /\ ChildrenTypeOK /\ svChild \in [CS!Children -> ChildRecords] /\ c \in CS!Tasks
      /\ \A d \in CS!Children : d \in CS!Tasks
  BY DEF ChildrenInv, ChildrenTypeOK, CS!Tasks
<1>1. /\ svChild[c].st = "gone" /\ svChild[c].dog = "wait" /\ svProc' = 0
      /\ svLost' = IF svProc \notin {0, c} THEN svLost \cup {svProc} ELSE svLost
      /\ svChild' = [svChild EXCEPT ![c].dog = "reaped"]
      /\ svOverlap' = (svOverlap \/ \E t \in CS!Tasks \ {c} : CS!AtWork(t))
      /\ UNCHANGED <<svKind, svRow, svFile, svTask, svFailed>>
  BY DEF CS!Reap
<1>2. Unwanted' = Unwanted /\ Current' = Current
  BY <1>1, Frame
<1>3. /\ svChild' \in [CS!Children -> ChildRecords]
      /\ \A d \in CS!Children : d # c => svChild'[d] = svChild[d]
      /\ svChild'[c].dog = "reaped" /\ svChild'[c].flag = svChild[c].flag /\ svChild'[c].st = "gone"
  BY <1>0, <1>1 DEF ChildRecords
<1>4. svTask[c].pc = "idle"
  BY <1>0, <1>1 DEF ChildrenTypeOK
<1>5. \E k \in 0..SvChildren : \A d \in CS!Children : svChild'[d].st # "unborn" <=> d <= k
  BY <1>0, <1>1, <1>3 DEF ChildrenTypeOK
<1>6. ChildrenTypeOK'
  <2>1. svProc' \in TaskPids /\ svOverlap' \in BOOLEAN
    BY <1>0, <1>1 DEF TaskPids, ChildrenTypeOK
  <2> QED BY <1>0, <1>1, <1>3, <1>4, <1>5, <2>1 DEF ChildrenTypeOK
<1>7. ASSUME Orderly'
      PROVE  Orderly /\ svProc \in {0, c} /\ \A t \in CS!Tasks : t # c => ~CS!AtWork(t)
  BY <1>0, <1>1, <1>7 DEF Orderly, ChildrenTypeOK
<1> SUFFICES ASSUME Orderly', Orderly, svProc \in {0, c}, \A t \in CS!Tasks : t # c => ~CS!AtWork(t)
             PROVE  SoleInv' /\ RecordInv' /\ DutyInv' /\ JudgeInv' /\ RestInv'
  BY <1>6, <1>7 DEF ChildrenInv, SoleInv, RecordInv, DutyInv, JudgeInv, RestInv
<1>8. \A t \in CS!Tasks : svTask[t].pc = "idle"
  BY <1>4 DEF CS!AtWork
<1>9. \A d \in CS!Children : svChild[d].dog # "reaped"
  BY <1>0, <1>1 DEF CS!AtWork, CS!Spawned, ChildrenTypeOK
<1>10. \A d \in CS!Children : svChild'[d].st \notin {"up", "asked"}
  <2>1. \A d \in CS!Children : svChild[d].st \in {"up", "asked"} => d = svProc
    BY <1>8 DEF ChildrenInv, RecordInv, CS!Alive, HeldBy
  <2>2. 0 \notin CS!Children
    BY DEF CS!Children
  <2> QED BY <1>1, <1>3, <2>1, <2>2
<1>11. SoleInv'
  BY <1>1, <1>3, <1>8, <1>9 DEF SoleInv, Busy, Reaped
<1>12. RecordInv'
  BY <1>1, <1>10 DEF RecordInv, CS!Alive
<1>13. DutyInv'
  BY <1>1, <1>8 DEF DutyInv, Duty
<1>14. svChild[c].flag => Unwanted \/ svFailed
  <2>1. ASSUME svChild[c].flag PROVE svProc = 0
    BY <1>1, <2>1 DEF ChildrenInv, RecordInv, CS!Children
  <2>2. \A t \in CS!Tasks : ~Busy(t)
    BY <1>8, <1>9 DEF Busy, Reaped
  <2> QED BY <2>1, <2>2 DEF ChildrenInv, RestInv, Serving
<1>15. JudgeInv'
  BY <1>1, <1>2, <1>3, <1>9, <1>14 DEF JudgeInv
<1>16. RestInv'
  BY <1>0, <1>3 DEF RestInv, Busy, Reaped
<1> QED BY <1>11, <1>12, <1>13, <1>15, <1>16

(* A watchdog's verdict keeps ChildrenInv: it restarts a crash and leaves  *)
(* an exit somebody asked for.                                             *)
LEMMA JudgeStep ==
    ASSUME ChildrenInv, NEW c \in CS!Children, CS!Judge(c)
    PROVE  ChildrenInv'
<1>0. /\ ChildrenTypeOK /\ svChild \in [CS!Children -> ChildRecords] /\ c \in CS!Tasks
      /\ \A d \in CS!Children : d \in CS!Tasks
      /\ svTask \in [CS!Tasks -> TaskRecords] /\ svFailed \in BOOLEAN
  BY DEF ChildrenInv, ChildrenTypeOK, CS!Tasks
<1>1. /\ svChild[c].dog = "reaped" /\ svChild' = [svChild EXCEPT ![c].dog = "done"]
      /\ UNCHANGED <<svKind, svRow, svFile, svProc, svLost, svOverlap>>
  BY DEF CS!Judge
<1>2. Unwanted' = Unwanted /\ Current' = Current
  BY <1>1, Frame
<1>3. /\ svChild' \in [CS!Children -> ChildRecords]
      /\ \A d \in CS!Children : d # c => svChild'[d] = svChild[d]
      /\ svChild'[c].dog = "done" /\ svChild'[c].st = svChild[c].st
  BY <1>0, <1>1 DEF ChildRecords
<1>4. svTask[c].pc = "idle" /\ svChild[c].st = "gone"
  BY <1>0, <1>1 DEF ChildrenTypeOK
<1>5. /\ svTask' \in [CS!Tasks -> TaskRecords] /\ svFailed' \in BOOLEAN
      /\ svTask'[c].pc \in {"idle", "read"}
      /\ \A u \in CS!Tasks : u # c => svTask'[u] = svTask[u]
      /\ svTask'[c].pc = "idle" /\ ~svFailed' => Unwanted \/ (svChild[c].flag /\ ~svFailed)
  <2>1. CASE svChild[c].flag \/ Unwanted
    <3>1. UNCHANGED <<svTask, svFailed>>
      BY <2>1 DEF CS!Judge, Unwanted
    <3> QED BY <1>0, <1>4, <2>1, <3>1
  <2>2. CASE ~svChild[c].flag /\ ~Unwanted
    <3>1. /\ svFailed' = (svTries' > SvAttempts)
          /\ IF svTries' > SvAttempts THEN UNCHANGED svTask
             ELSE svTask' = [svTask EXCEPT ![c] = [CS!NoTask EXCEPT !.pc = "read", !.reset = FALSE]]
      BY <2>2 DEF CS!Judge, Unwanted
    <3>2. PICK q \in TaskRecords : q.pc = "read" /\ q = [CS!NoTask EXCEPT !.pc = "read", !.reset = FALSE]
      BY IdleTask
    <3>3. svFailed' \in BOOLEAN
      BY <3>1
    <3>4. CASE svTries' > SvAttempts
      BY <1>0, <1>4, <3>1, <3>4
    <3>5. CASE ~(svTries' > SvAttempts)
      <4>1. svTask' = [svTask EXCEPT ![c] = q]
        BY <3>1, <3>2, <3>5
      <4> QED BY <1>0, <3>2, <3>3, <4>1
    <3> QED BY <3>4, <3>5
  <2> QED BY <2>1, <2>2
<1>6. \E k \in 0..SvChildren : \A d \in CS!Children : svChild'[d].st # "unborn" <=> d <= k
  BY <1>0, <1>1, <1>3 DEF ChildrenTypeOK
<1>7. ChildrenTypeOK'
  BY <1>0, <1>1, <1>3, <1>4, <1>5, <1>6 DEF ChildrenTypeOK
<1>o. Orderly' = Orderly
  BY <1>1 DEF Orderly
<1> SUFFICES ASSUME Orderly', Orderly
             PROVE  SoleInv' /\ RecordInv' /\ DutyInv' /\ JudgeInv' /\ RestInv'
  BY <1>7, <1>o DEF ChildrenInv, SoleInv, RecordInv, DutyInv, JudgeInv, RestInv
<1>8. \A t \in CS!Tasks : Busy(t) => t = c
  BY <1>0, <1>1 DEF ChildrenInv, SoleInv, Busy, Reaped
<1>9. \A t \in CS!Tasks : svTask[t].pc = "idle" /\ (t # c => svTask'[t].pc = "idle")
  BY <1>4, <1>5, <1>8 DEF Busy
<1>10. \A d \in CS!Children : svChild'[d].dog # "reaped"
  BY <1>0, <1>3, <1>8 DEF Busy, Reaped
<1>11. svProc = 0 /\ (svChild[c].flag => Unwanted \/ svFailed)
  BY <1>1 DEF ChildrenInv, JudgeInv
<1>12. \A d \in CS!Children : svChild'[d].st \notin {"up", "asked"}
  <2>1. \A d \in CS!Children : svChild[d].st \in {"up", "asked"} => d = svProc
    BY <1>9 DEF ChildrenInv, RecordInv, CS!Alive, HeldBy
  <2>2. 0 \notin CS!Children
    BY DEF CS!Children
  <2> QED BY <1>3, <1>11, <2>1, <2>2
<1>13. SoleInv'
  BY <1>9, <1>10 DEF SoleInv, Busy, Reaped
<1>14. RecordInv'
  BY <1>1, <1>11, <1>12 DEF RecordInv, CS!Alive
<1>15. DutyInv'
  <2> SUFFICES ASSUME NEW t \in CS!Tasks PROVE Duty(t)'
    BY DEF DutyInv
  <2>1. svTask'[t].pc \in {"idle", "read"}
    BY <1>5, <1>9
  <2> QED BY <2>1 DEF Duty
<1>16. JudgeInv'
  BY <1>10 DEF JudgeInv
<1>17. RestInv'
  <2> SUFFICES ASSUME \A t \in CS!Tasks : ~Busy(t)', ~svFailed' PROVE Serving'
    BY DEF RestInv
  <2>1. svTask'[c].pc = "idle"
    BY <1>0 DEF Busy
  <2> QED BY <1>1, <1>2, <1>5, <1>11, <2>1 DEF Serving
<1> QED BY <1>13, <1>14, <1>15, <1>16, <1>17

(* Init establishes ChildrenInv.                                           *)
LEMMA ChildrenInit ==
    ASSUME Setting, CS!Init
    PROVE  ChildrenInv
<1>0. CS!Boot \in Handlers /\ CS!Boot \in CS!Tasks /\ \A c \in CS!Children : c # CS!Boot /\ c \in CS!Tasks
  BY DEF Setting, CS!Boot, CS!Tasks
<1>1. /\ svTask \in [CS!Tasks -> TaskRecords]
      /\ svTask[CS!Boot].pc = "read" /\ \A t \in CS!Tasks : t # CS!Boot => svTask[t].pc = "idle"
  <2>1. PICK q \in TaskRecords : q.pc = "read" /\ q = [CS!NoTask EXCEPT !.pc = "read"]
    BY IdleTask
  <2>2. CS!NoTask \in TaskRecords /\ CS!NoTask.pc = "idle"
    BY IdleTask
  <2>3. svTask = [t \in CS!Tasks |-> IF t = CS!Boot THEN q ELSE CS!NoTask]
    BY <2>1 DEF CS!Init
  <2> QED BY <1>0, <2>1, <2>2, <2>3
<1>2. CS!NoFile \in ConfigFiles
  BY DEF CS!NoFile, ConfigFiles, Extras
<1>3. /\ svChild \in [CS!Children -> ChildRecords]
      /\ \A c \in CS!Children : svChild[c].st = "unborn" /\ svChild[c].dog = "wait"
  BY <1>2 DEF CS!Init, ChildRecords, ChildStates
<1>4. /\ svKind \in KnownKinds /\ svFile \in ConfigFiles /\ svProc = 0 /\ svProc \in TaskPids
      /\ svOverlap \in BOOLEAN /\ svFailed \in BOOLEAN
  BY <1>2 DEF CS!Init, Setting, TaskPids
<1>5. svRow \in BundleRows
  BY DEF CS!Init, BundleRows, Extras
<1>6. 0 \in 0..SvChildren /\ \A c \in CS!Children : svChild[c].st # "unborn" <=> c <= 0
  BY <1>3 DEF Setting, CS!Children
<1>7. ChildrenTypeOK
  BY <1>0, <1>1, <1>3, <1>4, <1>5, <1>6 DEF ChildrenTypeOK
<1>8. SoleInv /\ RestInv
  BY <1>0, <1>1, <1>3 DEF SoleInv, RestInv, Busy, Reaped
<1>9. RecordInv /\ JudgeInv
  BY <1>3, <1>4 DEF RecordInv, JudgeInv, CS!Alive
<1>10. DutyInv
  <2> SUFFICES ASSUME NEW t \in CS!Tasks PROVE Duty(t)
    BY DEF DutyInv
  <2>1. svTask[t].pc \in {"idle", "read"}
    BY <1>1
  <2> QED BY <2>1 DEF Duty
<1> QED BY <1>7, <1>8, <1>9, <1>10 DEF ChildrenInv

(* Every step keeps ChildrenInv.                                           *)
LEMMA ChildrenNext ==
    ASSUME Setting, ChildrenInv, [CS!Next]_(CS!vars)
    PROVE  ChildrenInv'
<1>0. SvChildren \in Nat /\ Handlers \cap CS!Children = {}
  BY DEF Setting
<1>1. CASE UNCHANGED CS!vars
  <2>1. UNCHANGED <<svKind, svRow, svFile, svProc, svChild, svTask, svLost, svOverlap, svFailed>>
    BY <1>1 DEF CS!vars
  <2>2. Unwanted' = Unwanted /\ Current' = Current
    BY <2>1, Frame
  <2>3. ChildrenTypeOK'
    BY <2>1 DEF ChildrenInv, ChildrenTypeOK
  <2>4. SoleInv' /\ RecordInv' /\ JudgeInv'
    BY <2>1, <2>2 DEF ChildrenInv, SoleInv, RecordInv, JudgeInv, Orderly, Busy, Reaped, HeldBy, CS!Alive
  <2>5. DutyInv' /\ RestInv'
    BY <2>1, <2>2 DEF ChildrenInv, DutyInv, RestInv, Duty, Serving, Orderly, Busy, Reaped
  <2> QED BY <2>3, <2>4, <2>5 DEF ChildrenInv
<1>2. ASSUME NEW t \in CS!Tasks,
             \/ CS!ReadRow(t) \/ CS!WriteConfig(t)
             \/ CS!MtproxyCheck(t) \/ CS!MdnsvpnCheck(t) \/ CS!TorCheck(t) \/ CS!DnscryptCheck(t)
             \/ CS!MtproxySpawn(t) \/ CS!MdnsvpnSpawn(t) \/ CS!TorSpawn(t)
             \/ CS!MtproxyStop(t) \/ CS!MdnsvpnStop(t) \/ CS!DnsStop(t)
      PROVE  ChildrenInv'
  BY <1>0, <1>2, EnsureStep, RestartStep, DnscryptStep, SpawnStep, RecordStepOfChild, StopStep
     DEF CS!MdnsvpnCheck, CS!TorCheck, CS!MtproxySpawn, CS!MdnsvpnSpawn, CS!TorSpawn,
         CS!MtproxyStop, CS!MdnsvpnStop, CS!DnsStop
<1>3. ASSUME NEW c \in CS!Children,
             \/ CS!Dies(c) \/ CS!ChildReloads(c)
             \/ CS!MtproxyWatchdog(c) \/ CS!MdnsvpnWatchdog(c) \/ CS!DnsWatchdog(c)
      PROVE  ChildrenInv'
  BY <1>3, ChildStep, ReapStep, JudgeStep
     DEF CS!MtproxyWatchdog, CS!MdnsvpnWatchdog, CS!DnsWatchdog, CS!Watchdog
<1> QED BY <1>0, <1>1, <1>2, <1>3, HandlerStep DEF CS!Next

(* At rest the recorded child runs the row as it was last saved, and none  *)
(* runs for a row that is off or invalid, unless two tasks overlapped, a   *)
(* child was dropped from the record or the last attempt failed            *)
(* (ensure_running, stop_if_running and the watchdogs of mtproxy, mdnsvpn, *)
(* dnscrypt and tor).                                                      *)
THEOREM LastSaveRuns ==
    ASSUME SvChildren \in Nat, Kinds \subseteq KnownKinds, Handlers # {}, Handlers \cap CS!Children = {}
    PROVE  CS!Spec => []LastSaveIsServed
<1>0. Setting
  BY DEF Setting
<1>1. CS!Init => ChildrenInv
  BY <1>0, ChildrenInit
<1>2. ChildrenInv /\ [CS!Next]_(CS!vars) => ChildrenInv'
  BY <1>0, ChildrenNext
<1>3. ChildrenInv => LastSaveIsServed
  <2> SUFFICES ASSUME ChildrenInv, CS!AtRest, ~svOverlap, ~svFailed, svLost = {}
               PROVE  IF Unwanted
                      THEN \A c \in CS!Spawned : ~CS!Alive(c)
                      ELSE svProc # 0 /\ svChild[svProc].st = "up" /\ svChild[svProc].cfg = Current
    BY DEF LastSaveIsServed, CS!LastSaveIsServed, Unwanted, Current
  <2>0. ChildrenTypeOK /\ Orderly
    BY DEF ChildrenInv, Orderly
  <2>1. \A t \in CS!Tasks : svTask[t].pc = "idle"
    BY DEF CS!AtRest, CS!AtWork
  <2>2. \A c \in CS!Children : c \in CS!Tasks
    BY DEF CS!Tasks
  <2>3. \A c \in CS!Children : svChild[c].st \in {"dead", "gone"} => svChild[c].dog = "done"
    BY <2>2 DEF CS!AtRest, CS!AtWork, CS!Spawned
  <2>4. \A t \in CS!Tasks : ~Busy(t)
    BY <2>0, <2>1, <2>3 DEF Busy, Reaped, ChildrenTypeOK
  <2>5. Serving
    BY <2>0, <2>4 DEF ChildrenInv, RestInv
  <2>6. CASE Unwanted
    <3>1. svProc = 0 /\ 0 \notin CS!Children
      BY <2>5, <2>6 DEF Serving, CS!Children
    <3> QED BY <2>0, <2>1, <2>6, <3>1 DEF ChildrenInv, RecordInv, HeldBy, CS!Spawned
  <2>7. CASE ~Unwanted
    <3>1. svProc # 0 /\ svFile = Current /\ (svKind # "mtproxy" => svChild[svProc].cfg = svFile)
      BY <2>5, <2>7 DEF Serving
    <3>2. svProc \in CS!Children
      BY <2>0, <3>1 DEF ChildrenTypeOK, TaskPids
    <3>3. svChild[svProc].st = "up"
      BY <2>0, <2>3, <3>1, <3>2 DEF ChildrenInv, RecordInv
    <3>4. svKind = "mtproxy" => svChild[svProc].cfg = svFile
      BY <3>2, <3>3 DEF CS!AtRest, CS!Spawned, CS!Alive
    <3> QED BY <2>7, <3>1, <3>3, <3>4
  <2> QED BY <2>6, <2>7
<1> QED BY <1>1, <1>2, <1>3, PTL DEF CS!Spec

-----------------------------------------------------------------------------
(* TrustTunnel's endpoint: any number of users, requests, restarts and     *)
(* endpoint processes.                                                     *)

(* The cardinality of the component is the library's.                      *)
LEMMA TtSameCount ==
    ASSUME NEW S
    PROVE  TT!Cardinality(S) = Cardinality(S)
BY DEF TT!Cardinality, Cardinality

(* A user's expiry.                                                        *)
UserExps == {"never", "due", "past"}

(* A user's row.                                                           *)
UserRows == [on : BOOLEAN, exp : UserExps, pw : {0, 1}, pre : BOOLEAN, in : BOOLEAN]

(* An endpoint process's life.                                             *)
EndpointStates == {"unborn", "up", "asked", "dead"}

(* Its watchdog's.                                                         *)
EndpointDogs == {"wait", "reaped", "done"}

(* An endpoint process; S is what its files and counters are drawn from.   *)
Endpoints(S) == [st : EndpointStates, cfg : SUBSET S, raw : S, seen : S, flag : BOOLEAN, dog : EndpointDogs]

(* A process, or none.                                                     *)
Pids == TT!Children \cup {0}

(* Where a reconcile or a restart may stand.                               *)
RecPcs == {"idle", "decide", "stop", "flag", "gone", "stopped", "record"}

(* Who may wait for RECONCILE_LOCK.                                        *)
Callers == {"none", "api", "deb", "dog", "poll"}

(* What a reconcile holds between its steps.                               *)
Reconciles(S) == [pc : RecPcs, who : Callers, row : SUBSET S, cfg : SUBSET S, pid : Pids]

(* What a restart's stop holds.                                            *)
Restarts == [pc : RecPcs, pid : Pids]

(* The types of the roster, the lock's queue, the reconcile, the restart   *)
(* and the processes, which are spawned in order.                          *)
RosterTypeOK ==
    /\ ttUsers \in [Users -> UserRows]
    /\ ttWait \subseteq Callers
    /\ ttPermit \in BOOLEAN /\ ttProc \in Pids /\ ttApi \in Restarts
    /\ \E S : ttChild \in [TT!Children -> Endpoints(S)] /\ ttRec \in Reconciles(S)
    /\ \E k \in 0..MaxChildren : \A c \in TT!Children : ttChild[c].st # "unborn" <=> c <= k

(* The process serves.                                                     *)
Up(c) == ttChild[c].st = "up"

(* The record is empty from a reconcile's stop to its new child, and a     *)
(* process that serves is the recorded one or held by the reconcile or the *)
(* restart.                                                                *)
HoldInv ==
    /\ ttRec.pc \in {"flag", "gone", "stopped", "record"} => ttProc = 0
    /\ \A c \in TT!Children : Up(c) =>
          \/ c = ttProc
          \/ ttRec.pc \in {"flag", "record"} /\ ttRec.pid = c
          \/ ttApi.pc = "flag" /\ ttApi.pid = c

(* A change of the roster is still to be reconciled: its permit, its place *)
(* in the queue or its reconcile before the roster is read.                *)
Pending == ttPermit \/ "deb" \in ttWait \/ (ttRec.pc = "decide" /\ ttRec.who = "deb")

(* Every user of a file is in the roster, enabled and with that password.  *)
Knows(cfg) == \A n \in Users, pw \in {0, 1} :
    <<n, pw>> \in cfg.creds => ttUsers[n].in /\ ttUsers[n].on /\ ttUsers[n].pw = pw

(* The process is about to be stopped.                                     *)
Doomed(c) ==
    \/ ttRec.pc = "stop" /\ c = ttProc
    \/ ttRec.pc = "flag" /\ ttRec.pid = c
    \/ ttApi.pc = "flag" /\ ttApi.pid = c

(* With no change pending a serving process knows the roster or is about   *)
(* to be stopped, and a reconcile carries files that know it.              *)
KnowsInv == ~Pending =>
    /\ \A c \in TT!Children : Up(c) => Doomed(c) \/ \A cfg \in ttChild[c].cfg : Knows(cfg)
    /\ ttRec.pc \in {"stop", "flag", "gone", "stopped"} => \A cfg \in ttRec.cfg : Knows(cfg)

(* The inductive invariant.                                                *)
RosterInv == RosterTypeOK /\ HoldInv /\ KnowsInv

(* Rendered files know the roster they are rendered from.                  *)
LEMMA RenderedKnows ==
    ASSUME NEW row
    PROVE  Knows(TT!Rendered(row, ttUsers))
BY DEF Knows, TT!Rendered, TT!Credentials, TT!Active, TT!IsActive

(* The updates of a user keep its type, and expiry leaves the rest alone.  *)
LEMMA UserUpdates ==
    ASSUME NEW u \in UserRows
    PROVE  /\ [u EXCEPT !.on = ~@] \in UserRows /\ [u EXCEPT !.pre = ~@] \in UserRows
           /\ [u EXCEPT !.exp = "never"] \in UserRows
           /\ [u EXCEPT !.pw = 1 - @] \in UserRows
           /\ LET q == [u EXCEPT !.exp = "past"]
              IN  q \in UserRows /\ q.in = u.in /\ q.on = u.on /\ q.pw = u.pw
<1> USE DEF UserRows, UserExps
<1>1. [u EXCEPT !.on = ~@] \in UserRows
  OBVIOUS
<1>2. [u EXCEPT !.pre = ~@] \in UserRows
  OBVIOUS
<1>3. [u EXCEPT !.exp = "never"] \in UserRows
  OBVIOUS
<1>4. [u EXCEPT !.pw = 1 - @] \in UserRows
  OBVIOUS
<1>5. LET q == [u EXCEPT !.exp = "past"] IN q \in UserRows /\ q.in = u.in /\ q.on = u.on /\ q.pw = u.pw
  OBVIOUS
<1> HIDE DEF UserRows
<1> QED BY <1>1, <1>2, <1>3, <1>4, <1>5

(* Processes and reconciles drawn from a set are drawn from a larger one.  *)
LEMMA Wider ==
    ASSUME NEW S, NEW T, S \subseteq T
    PROVE  Endpoints(S) \subseteq Endpoints(T) /\ Reconciles(S) \subseteq Reconciles(T)
<1>1. SUBSET S \subseteq SUBSET T
  OBVIOUS
<1>2. Endpoints(S) \subseteq Endpoints(T)
  BY <1>1 DEF Endpoints
<1>3. Reconciles(S) \subseteq Reconciles(T)
  BY <1>1 DEF Reconciles
<1> QED BY <1>2, <1>3

(* No process starts to serve or changes its files.                        *)
KidsGoOn == 
    /\ \E S : ttChild' \in [TT!Children -> Endpoints(S)] /\ ttRec \in Reconciles(S)
    /\ \A c \in TT!Children : /\ ttChild'[c].st = "up" => Up(c) /\ ttChild'[c].cfg = ttChild[c].cfg
                              /\ ttChild'[c].st # "unborn" <=> ttChild[c].st # "unborn"

(* Rewriting what was counted does neither.                                *)
LEMMA SeenSet ==
    ASSUME RosterTypeOK, NEW f, ttChild' = [c \in TT!Children |-> [ttChild[c] EXCEPT !.seen = f[c]]]
    PROVE  KidsGoOn /\ \A c \in TT!Children : ttChild'[c].st = ttChild[c].st /\ ttChild'[c].cfg = ttChild[c].cfg
<1>1. PICK S : ttChild \in [TT!Children -> Endpoints(S)] /\ ttRec \in Reconciles(S)
  BY DEF RosterTypeOK
<1> DEFINE T == S \cup {f[c] : c \in TT!Children}
<1>2. ttChild \in [TT!Children -> Endpoints(T)] /\ ttRec \in Reconciles(T)
      /\ \A c \in TT!Children : f[c] \in T
  BY <1>1, Wider
<1> HIDE DEF T
<1>3. \A c \in TT!Children : [ttChild[c] EXCEPT !.seen = f[c]] \in Endpoints(T)
  BY <1>2 DEF Endpoints
<1>4. \A c \in TT!Children : ttChild'[c].st = ttChild[c].st /\ ttChild'[c].cfg = ttChild[c].cfg
  BY <1>2 DEF Endpoints
<1> QED BY <1>2, <1>3, <1>4 DEF KidsGoOn, Up

(* A step outside the reconcile keeps RosterInv if it starts no process,   *)
(* drops no serving one from the record, and leaves a change of the roster *)
(* pending.                                                                *)
LEMMA RosterFrame ==
    ASSUME RosterInv, KidsGoOn, UNCHANGED ttRec,
           ttUsers' \in [Users -> UserRows], ttWait' \subseteq Callers, ttPermit' \in BOOLEAN, ttApi' \in Restarts,
           ttApi' = ttApi \/ (ttApi.pc # "flag" /\ ttApi'.pc # "flag"),
           ttProc' = ttProc \/ (ttProc' = 0 /\ (ttProc \in TT!Children => ttChild[ttProc].st # "up")),
           Pending => Pending',
           Pending' \/ \A n \in Users : /\ ttUsers'[n].in = ttUsers[n].in /\ ttUsers'[n].on = ttUsers[n].on
                                        /\ ttUsers'[n].pw = ttUsers[n].pw
    PROVE  RosterInv'
<1>0. 0 \in Pids /\ 0 \notin TT!Children
  BY DEF Pids, TT!Children
<1>1. RosterTypeOK'
  <2>1. \E k \in 0..MaxChildren : \A c \in TT!Children : ttChild'[c].st # "unborn" <=> c <= k
    BY DEF RosterInv, RosterTypeOK, KidsGoOn
  <2>2. ttProc' \in Pids
    BY <1>0 DEF RosterInv, RosterTypeOK
  <2>3. \E S : ttChild' \in [TT!Children -> Endpoints(S)] /\ ttRec' \in Reconciles(S)
    BY DEF KidsGoOn
  <2> QED BY <2>1, <2>2, <2>3 DEF RosterTypeOK
<1>2. HoldInv'
  BY <1>0 DEF RosterInv, HoldInv, Up, KidsGoOn
<1>3. KnowsInv'
  <2> SUFFICES ASSUME ~Pending' PROVE KnowsInv'
    BY DEF KnowsInv
  <2>1. \A cfg : Knows(cfg) => Knows(cfg)'
    BY DEF Knows
  <2>2. ~Pending
    OBVIOUS
  <2>3. \A c \in TT!Children : Up(c)' => Up(c) /\ ttChild'[c].cfg = ttChild[c].cfg /\ (Doomed(c) => Doomed(c)')
    BY <1>0 DEF KidsGoOn, Up, Doomed
  <2> QED BY <2>1, <2>2, <2>3 DEF RosterInv, KnowsInv
<1> QED BY <1>1, <1>2, <1>3 DEF RosterInv

(* A step of one process that starts nothing leaves the others alone.      *)
LEMMA OneEndpoint ==
    ASSUME NEW T, ttChild \in [TT!Children -> Endpoints(T)], ttRec \in Reconciles(T),
           NEW x, NEW q, x \in TT!Children => q \in Endpoints(T), ttChild' = [ttChild EXCEPT ![x] = q],
           x \in TT!Children => /\ q.st = "up" => Up(x) /\ q.cfg = ttChild[x].cfg
                                /\ q.st # "unborn" <=> ttChild[x].st # "unborn"
    PROVE  KidsGoOn
<1>1. CASE x \in TT!Children
  <2>1. /\ ttChild' \in [TT!Children -> Endpoints(T)] /\ ttChild'[x] = q
        /\ \A c \in TT!Children : c # x => ttChild'[c] = ttChild[c]
    BY <1>1
  <2> QED BY <1>1, <2>1 DEF KidsGoOn, Up
<1>2. CASE x \notin TT!Children
  <2>1. ttChild' = ttChild
    BY <1>2
  <2> QED BY <2>1 DEF KidsGoOn, Up
<1> QED BY <1>1, <1>2

(* Exits, watchdogs and traffic start nothing.                             *)
LEMMA EndpointSteps ==
    ASSUME RosterTypeOK, NEW c \in TT!Children,
           \/ TT!Dies(c) \/ TT!Reap(c) \/ TT!Judge(c) \/ \E n \in Users : TT!Move(c, n)
    PROVE  KidsGoOn
<1>0. PICK S : ttChild \in [TT!Children -> Endpoints(S)] /\ ttRec \in Reconciles(S)
  BY DEF RosterTypeOK
<1>1. CASE TT!Dies(c)
  <2> DEFINE T == S \cup {[n \in Users |-> 0]}
  <2>1. ttChild \in [TT!Children -> Endpoints(T)] /\ ttRec \in Reconciles(T) /\ [n \in Users |-> 0] \in T
    BY <1>0, Wider
  <2> HIDE DEF T
  <2> DEFINE q == [ttChild[c] EXCEPT !.st = "dead", !.cfg = {}, !.raw = [n \in Users |-> 0]]
  <2>2. ttChild' = [ttChild EXCEPT ![c] = q] /\ ttChild[c].st \in {"up", "asked"}
    BY <1>1 DEF TT!Dies
  <2>3. q \in Endpoints(T) /\ q.st = "dead"
    <3>1. "dead" \in EndpointStates /\ {} \in SUBSET T
      BY DEF EndpointStates
    <3> QED BY <2>1, <3>1 DEF Endpoints
  <2> HIDE DEF q
  <2> QED BY <2>1, <2>2, <2>3, OneEndpoint
<1>2. CASE TT!Reap(c) \/ TT!Judge(c)
  <2>1. PICK d \in EndpointDogs : ttChild' = [ttChild EXCEPT ![c].dog = d]
    BY <1>2 DEF TT!Reap, TT!Judge, EndpointDogs
  <2> DEFINE q == [ttChild[c] EXCEPT !.dog = d]
  <2>2. ttChild' = [ttChild EXCEPT ![c] = q]
    BY <2>1
  <2>3. q \in Endpoints(S) /\ q.st = ttChild[c].st /\ q.cfg = ttChild[c].cfg
    BY <1>0 DEF Endpoints
  <2> HIDE DEF q
  <2> QED BY <1>0, <2>2, <2>3, OneEndpoint DEF Up
<1>3. ASSUME NEW n \in Users, TT!Move(c, n) PROVE KidsGoOn
  <2> DEFINE v == [ttChild[c].raw EXCEPT ![n] = @ + 1]
             T == S \cup {v}
             q == [ttChild[c] EXCEPT !.raw = v]
  <2>2. ttChild' = [ttChild EXCEPT ![c] = q]
    BY <1>3 DEF TT!Move
  <2> HIDE DEF v
  <2>0. S \subseteq T /\ v \in T
    OBVIOUS
  <2> HIDE DEF T
  <2>1. ttChild \in [TT!Children -> Endpoints(T)] /\ ttRec \in Reconciles(T) /\ v \in T
    BY <1>0, <2>0, Wider
  <2>3. q \in Endpoints(T) /\ q.st = ttChild[c].st /\ q.cfg = ttChild[c].cfg
    BY <2>1 DEF Endpoints
  <2> HIDE DEF q
  <2> QED BY <2>1, <2>2, <2>3, OneEndpoint DEF Up
<1> QED BY <1>1, <1>2, <1>3

(* Nor does leaving the processes alone.                                   *)
LEMMA StillUp ==
    ASSUME RosterTypeOK, UNCHANGED ttChild
    PROVE  KidsGoOn
BY DEF RosterTypeOK, KidsGoOn, Up

(* Nor does the poll.                                                      *)
LEMMA PollSteps ==
    ASSUME RosterTypeOK, TT!Fetch \/ TT!Record
    PROVE  KidsGoOn
<1>1. CASE UNCHANGED ttChild
  BY <1>1, StillUp
<1>2. CASE ~UNCHANGED ttChild
  <2>0. PICK S : ttChild \in [TT!Children -> Endpoints(S)] /\ ttRec \in Reconciles(S)
    BY DEF RosterTypeOK
  <2> DEFINE x == ttPoll.pid
             T == S \cup {ttPoll.raw}
             q == [ttChild[x] EXCEPT !.seen = ttPoll.raw]
  <2>2. ttChild' = [ttChild EXCEPT ![x] = q]
    BY <1>2 DEF TT!Fetch, TT!Record, TT!dogVars
  <2> HIDE DEF x
  <2>s. S \subseteq T /\ ttPoll.raw \in T
    OBVIOUS
  <2> HIDE DEF T
  <2>1. ttChild \in [TT!Children -> Endpoints(T)] /\ ttRec \in Reconciles(T) /\ ttPoll.raw \in T
    BY <2>0, <2>s, Wider
  <2>3. x \in TT!Children => q \in Endpoints(T) /\ q.st = ttChild[x].st /\ q.cfg = ttChild[x].cfg
    BY <2>1 DEF Endpoints
  <2> HIDE DEF q
  <2> QED BY <2>1, <2>2, <2>3, OneEndpoint DEF Up
<1> QED BY <1>1, <1>2

(* Nor does forgetting a user's traffic.                                   *)
LEMMA UncountedSteps ==
    ASSUME RosterTypeOK, NEW names, ttChild' = TT!Uncounted(names)
    PROVE  KidsGoOn /\ \A c \in TT!Children : ttChild'[c].st = ttChild[c].st /\ ttChild'[c].cfg = ttChild[c].cfg
<1> DEFINE f == [c \in TT!Children |-> [n \in Users |-> IF n \in names THEN 0 ELSE ttChild[c].seen[n]]]
<1>1. ttChild' = [c \in TT!Children |-> [ttChild[c] EXCEPT !.seen = f[c]]]
  BY DEF TT!Uncounted
<1> HIDE DEF f
<1> QED BY <1>1, SeenSet

(* The inbound's requests, restart, the debounce worker and the poll keep  *)
(* RosterInv.                                                              *)
LEMMA RequestSteps ==
    ASSUME RosterInv,
           \/ TT!UpdateInbound \/ TT!UploadCertificate \/ TT!RegenerateCertificate \/ TT!Restart
           \/ TT!Notified \/ TT!RestartEnsures \/ TT!Fetch \/ TT!Record
    PROVE  RosterInv'
<1>0. RosterTypeOK /\ ttUsers \in [Users -> UserRows] /\ ttWait \subseteq Callers /\ ttPermit \in BOOLEAN
      /\ ttApi \in Restarts /\ {"api", "deb", "poll"} \subseteq Callers
  BY DEF RosterInv, RosterTypeOK, Callers
<1>1. CASE TT!UpdateInbound \/ TT!UploadCertificate \/ TT!RegenerateCertificate
  <2>1. /\ UNCHANGED <<ttUsers, ttRec, ttApi, ttProc, ttChild, ttPermit>> /\ ttWait' = ttWait \cup {"api"}
    BY <1>1 DEF TT!UpdateInbound, TT!UploadCertificate, TT!RegenerateCertificate, TT!StoreCertificate,
                TT!ReconcileNow, TT!dogVars
  <2>2. Pending => Pending'
    BY <2>1 DEF Pending
  <2> QED BY <1>0, <2>1, <2>2, StillUp, RosterFrame
<1>2. CASE TT!Restart
  <2>1. /\ UNCHANGED <<ttUsers, ttRec, ttProc, ttChild, ttPermit, ttWait>>
        /\ ttApi.pc = "idle" /\ ttApi' = [ttApi EXCEPT !.pc = "stop"]
    BY <1>2 DEF TT!Restart, TT!rowVars, TT!dogVars
  <2>2. ttApi' \in Restarts /\ ttApi'.pc = "stop"
    BY <1>0, <2>1 DEF Restarts, RecPcs
  <2>3. Pending => Pending'
    BY <2>1 DEF Pending
  <2> QED BY <1>0, <2>1, <2>2, <2>3, StillUp, RosterFrame
<1>3. CASE TT!RestartEnsures
  <2>1. /\ UNCHANGED <<ttUsers, ttRec, ttProc, ttChild, ttPermit>> /\ ttWait' = ttWait \cup {"api"}
        /\ ttApi.pc = "stopped" /\ ttApi' = [pc |-> "idle", pid |-> 0]
    BY <1>3 DEF TT!RestartEnsures, TT!ReconcileNow, TT!rowVars, TT!dogVars
  <2>2. ttApi' \in Restarts /\ ttApi'.pc = "idle"
    BY <2>1 DEF Restarts, RecPcs, Pids
  <2>3. Pending => Pending'
    BY <2>1 DEF Pending
  <2> QED BY <1>0, <2>1, <2>2, <2>3, StillUp, RosterFrame
<1>4. CASE TT!Notified
  <2>1. /\ UNCHANGED <<ttUsers, ttRec, ttApi, ttProc, ttChild>> /\ ttWait' = ttWait \cup {"deb"}
        /\ ttPermit' = FALSE
    BY <1>4 DEF TT!Notified, TT!rowVars, TT!dogVars
  <2>2. Pending'
    BY <2>1 DEF Pending
  <2> QED BY <1>0, <2>1, <2>2, StillUp, RosterFrame
<1>5. CASE TT!Fetch \/ TT!Record
  <2>1. /\ UNCHANGED <<ttUsers, ttRec, ttApi, ttProc, ttPermit>> /\ ttWait' \in {ttWait, ttWait \cup {"poll"}}
    BY <1>5 DEF TT!Fetch, TT!Record, TT!rowVars, TT!dogVars
  <2>2. Pending => Pending'
    BY <2>1 DEF Pending
  <2> QED BY <1>0, <1>5, <2>1, <2>2, PollSteps, RosterFrame
<1> QED BY <1>1, <1>2, <1>3, <1>4, <1>5

(* The requests that change the roster keep RosterInv: each leaves a       *)
(* permit.                                                                 *)
LEMMA UserSteps ==
    ASSUME RosterInv, NEW n \in Users,
           \/ TT!CreateUser(n) \/ TT!UpdateUser(n) \/ TT!RotatePassword(n) \/ TT!DeleteUser(n) \/ TT!Expire(n)
    PROVE  RosterInv'
<1>0. RosterTypeOK /\ ttUsers \in [Users -> UserRows] /\ ttWait \subseteq Callers /\ ttPermit \in BOOLEAN
      /\ ttApi \in Restarts /\ ttUsers[n] \in UserRows
  BY DEF RosterInv, RosterTypeOK
<1>1. ASSUME NEW u \in UserRows, ttUsers' = [ttUsers EXCEPT ![n] = u]
      PROVE  ttUsers' \in [Users -> UserRows]
  BY <1>0, <1>1
<1>2. CASE TT!CreateUser(n) \/ TT!UpdateUser(n) \/ TT!RotatePassword(n) \/ TT!DeleteUser(n)
  <2>1. /\ UNCHANGED <<ttRec, ttApi, ttProc, ttWait>> /\ ttPermit' = TRUE
    BY <1>2 DEF TT!CreateUser, TT!UpdateUser, TT!RotatePassword, TT!DeleteUser, TT!ReconcileLater, TT!dogVars
  <2>2. KidsGoOn
    <3>1. CASE TT!DeleteUser(n)
      BY <1>0, <3>1, UncountedSteps DEF TT!DeleteUser
    <3>2. CASE UNCHANGED ttChild
      BY <1>0, <3>2, StillUp
    <3> QED BY <1>2, <3>1, <3>2 DEF TT!CreateUser, TT!UpdateUser, TT!RotatePassword, TT!dogVars
  <2>3. ttUsers' \in [Users -> UserRows]
    <3>1. CASE TT!CreateUser(n)
      <4>1. PICK pre \in BOOLEAN, exp \in {"never", "due"} :
              ttUsers' = [ttUsers EXCEPT ![n] = [in |-> TRUE, on |-> TRUE, exp |-> exp, pw |-> ttUsers[n].pw, pre |-> pre]]
        BY <3>1 DEF TT!CreateUser
      <4>2. [in |-> TRUE, on |-> TRUE, exp |-> exp, pw |-> ttUsers[n].pw, pre |-> pre] \in UserRows
        BY <1>0 DEF UserRows, UserExps
      <4> QED BY <1>1, <4>1, <4>2
    <3>2. CASE TT!UpdateUser(n)
      <4>1. \/ ttUsers' = [ttUsers EXCEPT ![n] = [ttUsers[n] EXCEPT !.on = ~@]]
            \/ ttUsers' = [ttUsers EXCEPT ![n] = [ttUsers[n] EXCEPT !.pre = ~@]]
            \/ ttUsers' = [ttUsers EXCEPT ![n] = [ttUsers[n] EXCEPT !.exp = "never"]]
        BY <3>2 DEF TT!UpdateUser
      <4> QED BY <1>0, <1>1, <4>1, UserUpdates
    <3>3. CASE TT!RotatePassword(n)
      <4>1. ttUsers' = [ttUsers EXCEPT ![n] = [ttUsers[n] EXCEPT !.pw = 1 - @]]
        BY <3>3 DEF TT!RotatePassword
      <4> QED BY <1>0, <1>1, <4>1, UserUpdates
    <3>4. CASE TT!DeleteUser(n)
      <4>1. ttUsers' = [ttUsers EXCEPT ![n] = [TT!Absent EXCEPT !.pw = 1 - ttUsers[n].pw]]
        BY <3>4 DEF TT!DeleteUser
      <4>2. [TT!Absent EXCEPT !.pw = 1 - ttUsers[n].pw] \in UserRows
        <5>1. 1 - ttUsers[n].pw \in {0, 1}
          BY <1>0 DEF UserRows
        <5>2. TT!Absent \in UserRows
          BY DEF TT!Absent, UserRows, UserExps
        <5> QED BY <5>1, <5>2 DEF UserRows
      <4> QED BY <1>1, <4>1, <4>2
    <3> QED BY <1>2, <3>1, <3>2, <3>3, <3>4
  <2>4. Pending'
    BY <2>1 DEF Pending
  <2> QED BY <1>0, <2>1, <2>2, <2>3, <2>4, RosterFrame
<1>3. CASE TT!Expire(n)
  <2>1. UNCHANGED <<ttRec, ttApi, ttProc, ttWait, ttChild, ttPermit>>
        /\ ttUsers' = [ttUsers EXCEPT ![n] = [ttUsers[n] EXCEPT !.exp = "past"]]
    BY <1>3 DEF TT!Expire, TT!dogVars
  <2>2. PICK u \in UserRows : /\ u = [ttUsers[n] EXCEPT !.exp = "past"]
                              /\ u.in = ttUsers[n].in /\ u.on = ttUsers[n].on /\ u.pw = ttUsers[n].pw
    BY <1>0, UserUpdates
  <2>3. /\ ttUsers' \in [Users -> UserRows] /\ ttUsers'[n] = u
        /\ \A m \in Users : m # n => ttUsers'[m] = ttUsers[m]
    BY <1>0, <2>1, <2>2
  <2>4. \A m \in Users : /\ ttUsers'[m].in = ttUsers[m].in /\ ttUsers'[m].on = ttUsers[m].on
                          /\ ttUsers'[m].pw = ttUsers[m].pw
    BY <2>2, <2>3
  <2>5. Pending => Pending'
    BY <2>1 DEF Pending
  <2> QED BY <1>0, <2>1, <2>3, <2>4, <2>5, StillUp, RosterFrame
<1> QED BY <1>2, <1>3

(* Exits, watchdogs and traffic keep RosterInv: the slot is cleared of a   *)
(* dead process only.                                                      *)
LEMMA WatchdogSteps ==
    ASSUME RosterInv, NEW c \in TT!Children,
           \/ TT!Dies(c) \/ TT!Watchdog(c) \/ \E n \in Users : TT!Move(c, n)
    PROVE  RosterInv'
<1>0. RosterTypeOK /\ ttUsers \in [Users -> UserRows] /\ ttWait \subseteq Callers /\ ttPermit \in BOOLEAN
      /\ ttApi \in Restarts /\ "dog" \in Callers
  BY DEF RosterInv, RosterTypeOK, Callers
<1>1. KidsGoOn
  BY <1>0, EndpointSteps DEF TT!Watchdog
<1>2. UNCHANGED <<ttUsers, ttRec, ttApi, ttPermit>> /\ ttWait' \in {ttWait, ttWait \cup {"dog"}}
  BY DEF TT!Dies, TT!Watchdog, TT!Reap, TT!Judge, TT!Move, TT!rowVars
<1>3. ttProc' = ttProc \/ (ttProc' = 0 /\ ttProc = c /\ ttChild[c].st = "dead")
  BY DEF TT!Dies, TT!Watchdog, TT!Reap, TT!Judge, TT!Move
<1>4. Pending => Pending'
  BY <1>2 DEF Pending
<1> QED BY <1>0, <1>1, <1>2, <1>3, <1>4, RosterFrame

(* A step of the reconcile or a stop keeps RosterInv if it accounts for    *)
(* every serving process and for the files it carries.                     *)
LEMMA RosterKeeps ==
    ASSUME RosterInv, UNCHANGED <<ttUsers, ttPermit>>, ttWait' \subseteq ttWait,
           ttProc' \in Pids, ttApi' \in Restarts,
           \E S : ttChild' \in [TT!Children -> Endpoints(S)] /\ ttRec' \in Reconciles(S),
           \E k \in 0..MaxChildren : \A c \in TT!Children : ttChild'[c].st # "unborn" <=> c <= k,
           HoldInv',
           ~Pending' => \A c \in TT!Children : Up(c)' =>
                \/ Doomed(c)'
                \/ ~Pending /\ Up(c) /\ ttChild'[c].cfg = ttChild[c].cfg /\ ~Doomed(c)
                \/ \A cfg \in ttChild'[c].cfg : Knows(cfg),
           ~Pending' /\ ttRec'.pc \in {"stop", "flag", "gone", "stopped"} =>
                \/ ~Pending /\ ttRec.pc \in {"stop", "flag", "gone", "stopped"} /\ ttRec'.cfg = ttRec.cfg
                \/ \A cfg \in ttRec'.cfg : Knows(cfg)
    PROVE  RosterInv'
<1>1. RosterTypeOK'
  BY DEF RosterInv, RosterTypeOK
<1>2. KnowsInv'
  <2> SUFFICES ASSUME ~Pending' PROVE KnowsInv'
    BY DEF KnowsInv
  <2>1. \A cfg : Knows(cfg) => Knows(cfg)'
    BY DEF Knows
  <2> QED BY <2>1 DEF RosterInv, KnowsInv
<1> QED BY <1>1, <1>2 DEF RosterInv

(* A reconcile that ends holds nothing.                                    *)
LEMMA ReconcileEnds ==
    ASSUME NEW S, TT!Finish
    PROVE  ttRec' \in Reconciles(S) /\ ttRec'.pc = "idle"
BY DEF TT!Finish, Reconciles, RecPcs, Callers, Pids

(* Taking the lock keeps RosterInv: the change stays pending until the     *)
(* roster is read.                                                         *)
LEMMA LockStep ==
    ASSUME RosterInv, TT!Lock
    PROVE  RosterInv'
<1>0. PICK S : ttChild \in [TT!Children -> Endpoints(S)] /\ ttRec \in Reconciles(S)
  BY DEF RosterInv, RosterTypeOK
<1>1. PICK who \in ttWait : /\ ttWait' = ttWait \ {who}
                            /\ ttRec' = [ttRec EXCEPT !.pc = "decide", !.who = who, !.row = {ttRow}]
  BY DEF TT!Lock
<1>2. ttRec.pc = "idle" /\ UNCHANGED <<ttUsers, ttApi, ttProc, ttChild, ttPermit>>
  BY DEF TT!Lock, TT!rowVars, TT!dogVars
<1> DEFINE T == S \cup {ttRow}
<1>3. S \subseteq T /\ {ttRow} \in SUBSET T
  OBVIOUS
<1> HIDE DEF T
<1>4. ttChild \in [TT!Children -> Endpoints(T)] /\ ttRec \in Reconciles(T)
  BY <1>0, <1>3, Wider
<1>5. ttRec' \in Reconciles(T) /\ ttRec'.pc = "decide" /\ ttRec'.who = who
  <2>1. "decide" \in RecPcs /\ who \in Callers
    BY DEF RecPcs, RosterInv, RosterTypeOK
  <2> QED BY <1>1, <1>3, <1>4, <2>1 DEF Reconciles
<1>6. Pending => Pending'
  BY <1>1, <1>2, <1>5 DEF Pending
<1>7. HoldInv'
  BY <1>2, <1>5 DEF RosterInv, HoldInv, Up
<1>8. \A c \in TT!Children : Up(c)' => Up(c) /\ ttChild'[c].cfg = ttChild[c].cfg /\ (Doomed(c) => Doomed(c)')
  BY <1>2 DEF Up, Doomed
<1>9. /\ ttProc' \in Pids /\ ttApi' \in Restarts
      /\ \E k \in 0..MaxChildren : \A c \in TT!Children : ttChild'[c].st # "unborn" <=> c <= k
  BY <1>2 DEF RosterInv, RosterTypeOK
<1>10. \E Q : ttChild' \in [TT!Children -> Endpoints(Q)] /\ ttRec' \in Reconciles(Q)
  BY <1>2, <1>4, <1>5
<1> QED BY <1>1, <1>2, <1>5, <1>6, <1>7, <1>8, <1>9, <1>10, RosterKeeps

(* Reading the roster keeps RosterInv: the running process has the files   *)
(* rendered from it, or is stopped.                                        *)
LEMMA DecideStep ==
    ASSUME RosterInv, TT!Decide
    PROVE  RosterInv'
<1>0. RosterTypeOK
  BY DEF RosterInv
<1>1. /\ ttRec.pc = "decide" /\ UNCHANGED <<ttUsers, ttWait, ttApi, ttProc, ttPermit>>
      /\ ttChild' = TT!Uncounted({n \in Users : ~ttUsers[n].in})
  BY DEF TT!Decide
<1>2. PICK now :
        \/ /\ TT!Finish /\ ttProc # 0 /\ ttChild[ttProc].cfg = {TT!Rendered(now, ttUsers)}
        \/ \E g \in {{}, {TT!Rendered(now, ttUsers)}} :
              ttRec' = [ttRec EXCEPT !.pc = "stop", !.row = {}, !.cfg = g]
  <2> DEFINE row == CHOOSE r \in ttRec.row : TRUE
             off == TT!ShouldRemainDisabled(row, ttUsers)
             made == [ttRow EXCEPT !.cert = IF off THEN @ ELSE TT!EnsureCertificate(row)]
             n0 == IF TT!EnsureCertificate(row) # row.cert THEN made ELSE row
             go == ~off /\ TT!CanRender(n0, ttUsers)
             cfg == TT!Rendered(n0, ttUsers)
             same == go /\ ttProc # 0 /\ ttChild[ttProc].cfg = {cfg} /\ ttChild[ttProc].st = "up"
  <2>1. IF same THEN TT!Finish
        ELSE ttRec' = [ttRec EXCEPT !.pc = "stop", !.row = {}, !.cfg = IF go THEN {cfg} ELSE {}]
    BY DEF TT!Decide
  <2> HIDE DEF n0, go
  <2> QED BY <2>1
<1>k. Knows(TT!Rendered(now, ttUsers))
  BY RenderedKnows
<1>3. PICK x : x = TT!Rendered(now, ttUsers) /\ Knows(x)
  BY <1>k
<1>4. /\ \E S : ttChild' \in [TT!Children -> Endpoints(S)] /\ ttRec \in Reconciles(S)
      /\ \A c \in TT!Children : ttChild'[c].st = ttChild[c].st /\ ttChild'[c].cfg = ttChild[c].cfg
  BY <1>0, <1>1, UncountedSteps DEF KidsGoOn
<1>5. PICK S : ttChild' \in [TT!Children -> Endpoints(S)] /\ ttRec \in Reconciles(S)
  BY <1>4
<1> DEFINE T == S \cup {x}
<1>6. S \subseteq T /\ {x} \in SUBSET T /\ {} \in SUBSET T
  OBVIOUS
<1> HIDE DEF T
<1>7. ttChild' \in [TT!Children -> Endpoints(T)] /\ ttRec \in Reconciles(T)
  BY <1>5, <1>6, Wider
<1>8. /\ ttProc' \in Pids /\ ttApi' \in Restarts
      /\ \E k \in 0..MaxChildren : \A c \in TT!Children : ttChild'[c].st # "unborn" <=> c <= k
  BY <1>1, <1>4 DEF RosterInv, RosterTypeOK
<1>9. \A c \in TT!Children : Up(c) => c = ttProc \/ (ttApi.pc = "flag" /\ ttApi.pid = c)
  BY <1>1 DEF RosterInv, HoldInv
<1>10. \E Q : ttChild' \in [TT!Children -> Endpoints(Q)] /\ ttRec' \in Reconciles(Q)
       /\ \/ ttRec'.pc = "idle" /\ ttProc # 0 /\ ttChild[ttProc].cfg = {x}
          \/ ttRec'.pc = "stop" /\ ttRec'.cfg \subseteq {x}
  <2>1. CASE TT!Finish /\ ttProc # 0 /\ ttChild[ttProc].cfg = {x}
    BY <1>7, <2>1, ReconcileEnds
  <2>2. ASSUME NEW g \in SUBSET T, g \subseteq {x}, ttRec' = [ttRec EXCEPT !.pc = "stop", !.row = {}, !.cfg = g]
        PROVE  ttRec' \in Reconciles(T) /\ ttRec'.pc = "stop" /\ ttRec'.cfg \subseteq {x}
    <3>1. "stop" \in RecPcs
      BY DEF RecPcs
    <3> QED BY <1>6, <1>7, <2>2, <3>1 DEF Reconciles
  <2> QED BY <1>2, <1>3, <1>6, <1>7, <2>1, <2>2
<1>11. HoldInv'
  BY <1>1, <1>4, <1>9, <1>10 DEF HoldInv, Up
<1>12. \A c \in TT!Children : Up(c)' => Doomed(c)' \/ \A cfg \in ttChild'[c].cfg : Knows(cfg)
  BY <1>1, <1>3, <1>4, <1>9, <1>10 DEF Up, Doomed
<1>13. ttRec'.pc \in {"stop", "flag", "gone", "stopped"} => \A cfg \in ttRec'.cfg : Knows(cfg)
  BY <1>3, <1>10
<1> QED BY <1>1, <1>8, <1>10, <1>11, <1>12, <1>13, RosterKeeps

(* stop_if_running: the child taken out of the record is the one that is   *)
(* signalled.                                                              *)
LEMMA StopTypes ==
    ASSUME NEW S, NEW p, NEW q, p \in Reconciles(S) \/ p \in Restarts, ttProc \in Pids, TT!StopIfRunning(p, q)
    PROVE  /\ p \in Reconciles(S) => q \in Reconciles(S) /\ q.cfg = p.cfg
           /\ p \in Restarts => q \in Restarts
           /\ q.pc \in {"flag", "gone", "stopped"}
           /\ q.pc = "flag" => p.pc = "stop" /\ q.pid = ttProc
           /\ p.pc = "stop" /\ ttProc # 0 => q.pc = "flag"
<1>0. {"flag", "gone", "stopped"} \subseteq RecPcs /\ 0 \in Pids
  BY DEF RecPcs, Pids
<1>1. CASE TT!Take(p, q)
  BY <1>0, <1>1 DEF TT!Take, Reconciles, Restarts
<1>2. CASE TT!Flag(p, q)
  BY <1>0, <1>2 DEF TT!Flag, Reconciles, Restarts
<1>3. CASE TT!Gone(p, q)
  BY <1>0, <1>3 DEF TT!Gone, Reconciles, Restarts
<1> QED BY <1>1, <1>2, <1>3 DEF TT!StopIfRunning

(* stop_if_running starts nothing, and the signalled child serves no more. *)
LEMMA StopKids ==
    ASSUME RosterTypeOK, NEW p, NEW q, TT!StopIfRunning(p, q)
    PROVE  /\ KidsGoOn
           /\ \A c \in TT!Children : p.pc = "flag" /\ p.pid = c => ttChild'[c].st # "up"
           /\ ttProc' = IF p.pc = "stop" THEN 0 ELSE ttProc
<1>0. PICK S : ttChild \in [TT!Children -> Endpoints(S)] /\ ttRec \in Reconciles(S)
  BY DEF RosterTypeOK
<1>1. CASE p.pc = "flag"
  <2> DEFINE x == p.pid
             y == [ttChild[x] EXCEPT !.flag = TRUE, !.st = IF @ = "up" THEN "asked" ELSE @]
  <2>1. ttChild' = [ttChild EXCEPT ![x] = y] /\ ttProc' = ttProc
    BY <1>1 DEF TT!StopIfRunning, TT!Take, TT!Flag, TT!Gone
  <2> HIDE DEF x
  <2>2. x \in TT!Children => y \in Endpoints(S) /\ y.cfg = ttChild[x].cfg
                             /\ y.st = IF ttChild[x].st = "up" THEN "asked" ELSE ttChild[x].st
    <3>1. "asked" \in EndpointStates
      BY DEF EndpointStates
    <3> QED BY <1>0, <3>1 DEF Endpoints
  <2> HIDE DEF y
  <2>3. KidsGoOn
    BY <1>0, <2>1, <2>2, OneEndpoint DEF Up
  <2>4. x \in TT!Children => ttChild'[x].st # "up"
    BY <1>0, <2>1, <2>2
  <2> USE DEF x
  <2> QED BY <1>1, <2>1, <2>3, <2>4
<1>2. CASE p.pc # "flag"
  <2>1. UNCHANGED ttChild /\ ttProc' = IF p.pc = "stop" THEN 0 ELSE ttProc
    BY <1>2 DEF TT!StopIfRunning, TT!Take, TT!Flag, TT!Gone
  <2> QED BY <1>2, <2>1, StillUp
<1> QED BY <1>1, <1>2

(* The stop of a reconcile, under the lock, and that of a restart, outside *)
(* it, keep RosterInv, interleaved as they may be.                         *)
LEMMA StopSteps ==
    ASSUME RosterInv, TT!StopForReconcile \/ TT!StopForRestart
    PROVE  RosterInv'
<1>0. RosterTypeOK /\ ttProc \in Pids /\ ttApi \in Restarts /\ 0 \in Pids /\ 0 \notin TT!Children
  BY DEF RosterInv, RosterTypeOK, Pids, TT!Children
<1>u. UNCHANGED <<ttUsers, ttWait, ttPermit>>
  BY DEF TT!StopForReconcile, TT!StopForRestart, TT!rowVars
<1>1. CASE TT!StopForReconcile
  <2>0. UNCHANGED ttApi /\ TT!StopIfRunning(ttRec, ttRec')
    BY <1>1 DEF TT!StopForReconcile
  <2>1. /\ KidsGoOn
        /\ \A c \in TT!Children : ttRec.pc = "flag" /\ ttRec.pid = c => ttChild'[c].st # "up"
        /\ ttProc' = IF ttRec.pc = "stop" THEN 0 ELSE ttProc
    BY <1>0, <2>0, StopKids
  <2>2. PICK S : ttChild' \in [TT!Children -> Endpoints(S)] /\ ttRec \in Reconciles(S)
    BY <2>1 DEF KidsGoOn
  <2>p. ttRec.pc \in {"stop", "flag", "gone"}
    BY <2>0 DEF TT!StopIfRunning, TT!Take, TT!Flag, TT!Gone
  <2>3. /\ ttRec' \in Reconciles(S) /\ ttRec'.cfg = ttRec.cfg
        /\ ttRec'.pc \in {"flag", "gone", "stopped"}
        /\ ttRec'.pc = "flag" => ttRec.pc = "stop" /\ ttRec'.pid = ttProc
        /\ ttRec.pc = "stop" /\ ttProc # 0 => ttRec'.pc = "flag"
    BY <1>0, <2>0, <2>2, StopTypes
  <2>4. Pending => Pending'
    BY <1>u, <2>p DEF Pending
  <2>5. ttProc' = 0
    BY <2>1, <2>p DEF RosterInv, HoldInv
  <2>6. HoldInv'
    BY <1>0, <2>0, <2>1, <2>3, <2>5, <2>p DEF RosterInv, HoldInv, Up, KidsGoOn
  <2>7. \A c \in TT!Children : Up(c)' => Up(c) /\ ttChild'[c].cfg = ttChild[c].cfg /\ (Doomed(c) => Doomed(c)')
    BY <1>0, <2>0, <2>1, <2>3, <2>p DEF Up, Doomed, KidsGoOn
  <2>8. \E k \in 0..MaxChildren : \A c \in TT!Children : ttChild'[c].st # "unborn" <=> c <= k
    BY <1>0, <2>1 DEF RosterTypeOK, KidsGoOn
  <2> QED BY <1>0, <1>u, <2>0, <2>2, <2>3, <2>4, <2>5, <2>6, <2>7, <2>8, <2>p, RosterKeeps
<1>2. CASE TT!StopForRestart
  <2>0. UNCHANGED ttRec /\ TT!StopIfRunning(ttApi, ttApi')
    BY <1>2 DEF TT!StopForRestart
  <2>1. /\ KidsGoOn
        /\ \A c \in TT!Children : ttApi.pc = "flag" /\ ttApi.pid = c => ttChild'[c].st # "up"
        /\ ttProc' = IF ttApi.pc = "stop" THEN 0 ELSE ttProc
    BY <1>0, <2>0, StopKids
  <2>2. PICK S : ttChild' \in [TT!Children -> Endpoints(S)] /\ ttRec \in Reconciles(S)
    BY <2>1 DEF KidsGoOn
  <2>p. ttApi.pc \in {"stop", "flag", "gone"}
    BY <2>0 DEF TT!StopIfRunning, TT!Take, TT!Flag, TT!Gone
  <2>3. /\ ttApi' \in Restarts
        /\ ttApi'.pc = "flag" => ttApi.pc = "stop" /\ ttApi'.pid = ttProc
        /\ ttApi.pc = "stop" /\ ttProc # 0 => ttApi'.pc = "flag"
    BY <1>0, <2>0, StopTypes
  <2>4. Pending => Pending'
    BY <1>u, <2>0 DEF Pending
  <2>5. ttProc' \in Pids
    BY <1>0, <2>1
  <2>6. HoldInv'
    BY <1>0, <2>0, <2>1, <2>3, <2>p DEF RosterInv, HoldInv, Up, KidsGoOn
  <2>7. \A c \in TT!Children : Up(c)' => Up(c) /\ ttChild'[c].cfg = ttChild[c].cfg /\ (Doomed(c) => Doomed(c)')
    BY <1>0, <2>0, <2>1, <2>3, <2>p DEF Up, Doomed, KidsGoOn
  <2>8. \E k \in 0..MaxChildren : \A c \in TT!Children : ttChild'[c].st # "unborn" <=> c <= k
    BY <1>0, <2>1 DEF RosterTypeOK, KidsGoOn
  <2> QED BY <1>0, <1>u, <2>0, <2>2, <2>3, <2>4, <2>5, <2>6, <2>7, <2>8, <2>p, RosterKeeps
<1> QED BY <1>1, <1>2

(* Ending without a child and recording the new one keep RosterInv.        *)
LEMMA EndSteps ==
    ASSUME RosterInv, TT!EndStopped \/ TT!RecordChild
    PROVE  RosterInv'
<1>0. PICK S : ttChild \in [TT!Children -> Endpoints(S)] /\ ttRec \in Reconciles(S)
  BY DEF RosterInv, RosterTypeOK
<1>1. /\ UNCHANGED <<ttUsers, ttWait, ttApi, ttChild, ttPermit>>
      /\ \/ ttRec.pc = "stopped" /\ ttProc' = ttProc
         \/ ttRec.pc = "record" /\ ttProc' = ttRec.pid
  BY DEF TT!EndStopped, TT!RecordChild, TT!rowVars, TT!dogVars
<1>2. ttRec' \in Reconciles(S) /\ ttRec'.pc = "idle"
  BY ReconcileEnds DEF TT!EndStopped, TT!RecordChild
<1>3. /\ ttProc' \in Pids /\ ttApi' \in Restarts /\ 0 \notin TT!Children
      /\ \E k \in 0..MaxChildren : \A c \in TT!Children : ttChild'[c].st # "unborn" <=> c <= k
  BY <1>0, <1>1 DEF RosterInv, RosterTypeOK, Reconciles, TT!Children
<1>4. HoldInv'
  BY <1>1, <1>2, <1>3 DEF RosterInv, HoldInv, Up
<1>5. Pending' = Pending
  BY <1>1, <1>2 DEF Pending
<1>6. \A c \in TT!Children : Up(c)' => Up(c) /\ ttChild'[c].cfg = ttChild[c].cfg /\ (Doomed(c) => Doomed(c)')
  BY <1>1, <1>2 DEF Up, Doomed
<1>7. \E Q : ttChild' \in [TT!Children -> Endpoints(Q)] /\ ttRec' \in Reconciles(Q)
  BY <1>0, <1>1, <1>2
<1> QED BY <1>1, <1>2, <1>3, <1>4, <1>5, <1>6, <1>7, RosterKeeps

(* The spawned process is the next one.                                    *)
LEMMA NextEndpoint ==
    ASSUME MaxChildren \in Nat, TT!SpawnChild,
           NEW k \in 0..MaxChildren, \A c \in TT!Children : ttChild[c].st # "unborn" <=> c <= k
    PROVE  \E c \in TT!Children :
              /\ c = k + 1 /\ ttRec' = [ttRec EXCEPT !.pc = "record", !.pid = c]
              /\ ttChild' = [ttChild EXCEPT ![c].st = "up", ![c].cfg = ttRec.cfg]
<1>1. TT!Cardinality(TT!Spawned) = k
  <2>1. TT!Spawned = 1..k
    BY DEF TT!Spawned, TT!Children
  <2>2. 1 \in Int /\ k \in Int /\ k \in Nat
    OBVIOUS
  <2>3. Cardinality(1..k) = k
    BY <2>2, FS_Interval
  <2> QED BY <2>1, <2>3, TtSameCount
<1>2. PICK c \in TT!Children : c = k + 1
  BY <1>1 DEF TT!SpawnChild, TT!Children
<1> QED BY <1>1, <1>2 DEF TT!SpawnChild

(* Spawning keeps RosterInv.                                               *)
LEMMA SpawnEndpoint ==
    ASSUME RosterInv, MaxChildren \in Nat, TT!SpawnChild
    PROVE  RosterInv'
<1>0. PICK S : ttChild \in [TT!Children -> Endpoints(S)] /\ ttRec \in Reconciles(S)
  BY DEF RosterInv, RosterTypeOK
<1>1. PICK k \in 0..MaxChildren : \A c \in TT!Children : ttChild[c].st # "unborn" <=> c <= k
  BY DEF RosterInv, RosterTypeOK
<1>2. PICK c \in TT!Children :
          /\ c = k + 1 /\ ttRec' = [ttRec EXCEPT !.pc = "record", !.pid = c]
          /\ ttChild' = [ttChild EXCEPT ![c].st = "up", ![c].cfg = ttRec.cfg]
  BY <1>1, NextEndpoint
<1>3. c = k + 1
  BY <1>2
<1>4. /\ ttRec.pc = "stopped" /\ UNCHANGED <<ttUsers, ttWait, ttApi, ttProc, ttPermit>>
      /\ ttChild' = [ttChild EXCEPT ![c].st = "up", ![c].cfg = ttRec.cfg]
      /\ ttRec' = [ttRec EXCEPT !.pc = "record", !.pid = c]
  BY <1>2 DEF TT!SpawnChild, TT!rowVars
<1>5. /\ ttChild' \in [TT!Children -> Endpoints(S)] /\ ttChild'[c].st = "up" /\ ttChild'[c].cfg = ttRec.cfg
      /\ \A d \in TT!Children : d # c => ttChild'[d] = ttChild[d]
  <2>1. "up" \in EndpointStates /\ ttRec.cfg \in SUBSET S
    BY <1>0 DEF EndpointStates, Reconciles
  <2> QED BY <1>0, <1>4, <2>1 DEF Endpoints
<1>6. ttRec' \in Reconciles(S) /\ ttRec'.pc = "record" /\ ttRec'.pid = c
  <2>1. "record" \in RecPcs /\ c \in Pids
    BY DEF RecPcs, Pids
  <2> QED BY <1>0, <1>4, <2>1 DEF Reconciles
<1>7. c \in 0..MaxChildren /\ \A d \in TT!Children : ttChild'[d].st # "unborn" <=> d <= c
  <2> SUFFICES ASSUME NEW d \in TT!Children
               PROVE  c \in 0..MaxChildren /\ (ttChild'[d].st # "unborn" <=> d <= c)
    BY <1>3 DEF TT!Children
  <2>1. c \in 0..MaxChildren /\ (d <= c <=> d <= k \/ d = c)
    BY <1>3 DEF TT!Children
  <2> QED BY <1>1, <1>5, <2>1
<1>8. ttProc' \in Pids /\ ttApi' \in Restarts /\ ttProc = 0 /\ 0 \notin TT!Children
  BY <1>4 DEF RosterInv, RosterTypeOK, HoldInv, TT!Children
<1>9. HoldInv'
  BY <1>4, <1>5, <1>6, <1>8 DEF RosterInv, HoldInv, Up
<1>10. Pending' = Pending
  BY <1>4, <1>6 DEF Pending
<1>11. ~Pending => \A cfg \in ttRec.cfg : Knows(cfg)
  BY <1>4 DEF RosterInv, KnowsInv
<1>12. \A d \in TT!Children : d # c /\ Up(d)' =>
          Up(d) /\ ttChild'[d].cfg = ttChild[d].cfg /\ (Doomed(d) => Doomed(d)')
  BY <1>4, <1>5, <1>6 DEF Up, Doomed
<1>13. \E Q : ttChild' \in [TT!Children -> Endpoints(Q)] /\ ttRec' \in Reconciles(Q)
  BY <1>5, <1>6
<1>14. \E j \in 0..MaxChildren : \A d \in TT!Children : ttChild'[d].st # "unborn" <=> d <= j
  BY <1>7
<1> QED BY <1>4, <1>5, <1>6, <1>8, <1>9, <1>10, <1>11, <1>12, <1>13, <1>14, RosterKeeps

(* Init establishes RosterInv.                                             *)
LEMMA RosterInit ==
    ASSUME MaxChildren \in Nat, TT!Init
    PROVE  RosterInv
<1> DEFINE z == [n \in Users |-> 0]
<1>1. /\ ttChild = [c \in TT!Children |-> [st |-> "unborn", cfg |-> {}, raw |-> z, seen |-> z,
                                           flag |-> FALSE, dog |-> "wait"]]
      /\ ttRec = [pc |-> "idle", who |-> "none", row |-> {}, cfg |-> {}, pid |-> 0]
      /\ ttApi = [pc |-> "idle", pid |-> 0] /\ ttProc = 0 /\ ttPermit = FALSE /\ ttWait = {"api"}
  BY DEF TT!Init
<1> HIDE DEF z
<1>2. ttChild \in [TT!Children -> Endpoints({z})] /\ \A c \in TT!Children : ttChild[c].st = "unborn"
  BY <1>1 DEF Endpoints, EndpointStates, EndpointDogs
<1>3. ttRec \in Reconciles({z}) /\ ttRec.pc = "idle"
  BY <1>1 DEF Reconciles, RecPcs, Callers, Pids
<1>4. ttApi \in Restarts /\ ttApi.pc = "idle" /\ ttProc \in Pids /\ ttWait \subseteq Callers
      /\ ttPermit \in BOOLEAN
  BY <1>1 DEF Restarts, RecPcs, Pids, Callers
<1>5. ttUsers \in [Users -> UserRows]
  <2>1. TT!Absent \in UserRows
        /\ [in |-> TRUE, on |-> TRUE, exp |-> "due", pw |-> 0, pre |-> FALSE] \in UserRows
    BY DEF TT!Absent, UserRows, UserExps
  <2> QED BY <2>1 DEF TT!Init
<1>6. 0 \in 0..MaxChildren /\ \A c \in TT!Children : ttChild[c].st # "unborn" <=> c <= 0
  BY <1>2 DEF TT!Children
<1>7. RosterTypeOK
  BY <1>2, <1>3, <1>4, <1>5, <1>6 DEF RosterTypeOK
<1>8. HoldInv /\ KnowsInv
  BY <1>2, <1>3 DEF HoldInv, KnowsInv, Up
<1> QED BY <1>7, <1>8 DEF RosterInv

(* Every step keeps RosterInv.                                             *)
LEMMA RosterNext ==
    ASSUME MaxChildren \in Nat, RosterInv, [TT!Next]_(TT!vars)
    PROVE  RosterInv'
<1>1. CASE UNCHANGED TT!vars
  <2>0. RosterTypeOK
    BY DEF RosterInv
  <2>1. UNCHANGED <<ttUsers, ttWait, ttRec, ttApi, ttProc, ttChild, ttPermit>>
    BY <1>1 DEF TT!vars
  <2>2. Pending' = Pending
    BY <2>1 DEF Pending
  <2> QED BY <2>0, <2>1, <2>2, StillUp, RosterFrame DEF RosterTypeOK
<1>2. ASSUME NEW n \in Users,
             \/ TT!CreateUser(n) \/ TT!UpdateUser(n) \/ TT!RotatePassword(n) \/ TT!DeleteUser(n) \/ TT!Expire(n)
      PROVE  RosterInv'
  BY <1>2, UserSteps
<1>3. ASSUME NEW c \in TT!Children,
             \/ TT!Dies(c) \/ TT!Watchdog(c) \/ \E n \in Users : TT!Move(c, n)
      PROVE  RosterInv'
  BY <1>3, WatchdogSteps
<1>4. CASE TT!Reconcile
  BY <1>4, LockStep, DecideStep, StopSteps, EndSteps, SpawnEndpoint DEF TT!Reconcile
<1>5. CASE TT!StopForRestart
  BY <1>5, StopSteps
<1>6. CASE \/ TT!UpdateInbound \/ TT!UploadCertificate \/ TT!RegenerateCertificate \/ TT!Restart
           \/ TT!Notified \/ TT!RestartEnsures \/ TT!Poll
  BY <1>6, RequestSteps DEF TT!Poll
<1> QED BY <1>1, <1>2, <1>3, <1>4, <1>5, <1>6 DEF TT!Next

(* Once every change has been reconciled, a running endpoint is the        *)
(* recorded one and the only one, and every user it knows is in the        *)
(* roster, enabled and with the current password, however requests,        *)
(* restarts outside the lock, crashes and watchdogs interleave (reconcile, *)
(* stop_if_running, RECONCILE_REQUESTED).                                  *)
THEOREM EndpointHoldsTheRoster ==
    ASSUME MaxChildren \in Nat
    PROVE  TT!Spec => []EndpointServesTheRoster
<1>1. TT!Init => RosterInv
  BY RosterInit
<1>2. RosterInv /\ [TT!Next]_(TT!vars) => RosterInv'
  BY RosterNext
<1>3. RosterInv => EndpointServesTheRoster
  <2> SUFFICES ASSUME RosterInv, TT!AtRest, NEW c \in TT!Children, Up(c)
               PROVE  ttProc = c /\ \A cfg \in ttChild[c].cfg : Knows(cfg)
    BY DEF EndpointServesTheRoster, TT!EndpointServesTheRoster, TT!Spawned, Up, Knows
  <2>1. ttRec.pc = "idle" /\ ttApi.pc = "idle" /\ ~Pending
    BY DEF TT!AtRest, Pending
  <2>2. ttProc = c
    BY <2>1 DEF RosterInv, HoldInv
  <2>3. \A cfg \in ttChild[c].cfg : Knows(cfg)
    BY <2>1 DEF RosterInv, KnowsInv, Doomed
  <2> QED BY <2>2, <2>3
<1> QED BY <1>1, <1>2, <1>3, PTL DEF TT!Spec

-----------------------------------------------------------------------------
(* TrustTunnel's traffic statistics, on top of RosterInv: the totals       *)
(* against the sum over the processes of what the polls saw.               *)

(* The types of the totals, the counters and the answer in hand.           *)
CountTypeOK ==
    /\ ttStats = [n \in Users |-> ttStats[n]]
    /\ \A n \in Users : /\ "total" \in DOMAIN ttStats[n] /\ "last" \in DOMAIN ttStats[n]
                        /\ ttStats[n].total \in Nat /\ ttStats[n].last \in Nat
    /\ \A c \in TT!Children : ttChild[c].raw \in [Users -> Nat] /\ ttChild[c].seen \in [Users -> Nat]
    /\ "crossed" \in DOMAIN ttPoll /\ ttPoll.crossed \in BOOLEAN
    /\ ttPoll.raw \in [Users -> Nat]

(* A process not spawned yet has nothing counted; the recorded process,    *)
(* the one about to be recorded and the polled one have been spawned.      *)
BornInv ==
    /\ \A c \in TT!Children : ttChild[c].st = "unborn" => \A n \in Users : ttChild[c].seen[n] = 0
    /\ ttProc # 0 => ttChild[ttProc].st # "unborn"
    /\ ttRec.pc = "record" => ttRec.pid \in TT!Children /\ ttChild[ttRec.pid].st # "unborn"
    /\ ttPoll.pc = "answer" => ttPoll.pid \in TT!Children /\ ttChild[ttPoll.pid].st # "unborn"

(* The answer in hand is of the recorded process, or of one whose record   *)
(* was cleared since; what was last counted is what was seen of that       *)
(* process, and its counters only grew.                                    *)
AnswerBase ==
    ttPoll.pc = "answer" =>
        /\ ttProc \in {0, ttPoll.pid} /\ ttRec.pc # "record"
        /\ \A n \in Users :
            /\ ttStats[n].last = ttChild[ttPoll.pid].seen[n] /\ ttStats[n].last <= ttPoll.raw[n]
            /\ ttChild[ttPoll.pid].st # "dead" => ttPoll.raw[n] <= ttChild[ttPoll.pid].raw[n]

(* What was last counted is what was seen of the recorded process while it *)
(* lives, and no more than its counter.                                    *)
ProcBase ==
    ttProc # 0 /\ ttChild[ttProc].st # "dead" =>
        \A n \in Users : ttStats[n].last = ttChild[ttProc].seen[n] /\ ttStats[n].last <= ttChild[ttProc].raw[n]

(* Between the spawn and the record nothing is counted of the new process. *)
RecBase ==
    ttRec.pc = "record" => \A n \in Users : ttStats[n].last = 0 /\ ttChild[ttRec.pid].seen[n] = 0

(* Unless a reset crossed an answer or a counted process, last_raw is the  *)
(* base of the process whose counters come next: the next fold adds what   *)
(* is new of it, once.                                                     *)
BaseInv == ~ttPoll.crossed => AnswerBase /\ ProcBase /\ RecBase

(* The inductive invariant, with the property as a part.                   *)
CountInv == CountTypeOK /\ BornInv /\ BaseInv /\ TT!TrafficIsCountedOnce

(* A set of naturals that is not empty has a least element.                *)
LEMMA LeastOf ==
    ASSUME NEW T \in SUBSET Nat, T # {}
    PROVE  \E x \in T : \A y \in T : x <= y
<1> DEFINE R == OpToRel(<, Nat)
<1>1. PICK x \in T : \A y \in T : ~(<<y, x>> \in R)
  BY NatLessThanWellFounded, WFMin, Zenon
<1>2. \A y \in T : <<y, x>> \in R <=> y < x
  BY DEF OpToRel
<1> HIDE DEF R
<1>3. \A y \in T : y \in Nat
  OBVIOUS
<1>4. \A y \in T : ~(y < x)
  BY <1>1, <1>2, Zenon
<1>5. \A y \in T : x <= y
  BY <1>3, <1>4
<1> QED BY <1>5

(* g holds the partial sums of f.                                          *)
IsSum(g, f, m) == g \in [0..m -> Nat] /\ g[0] = 0 /\ \A c \in 1..m : g[c] = g[c - 1] + f[c]

(* Every f has partial sums: the least prefix without any is neither empty *)
(* nor one longer than another.                                            *)
LEMMA SumExists ==
    ASSUME NEW m \in Nat, NEW f \in [1..m -> Nat]
    PROVE  \E g : IsSum(g, f, m)
<1> DEFINE T == {k \in 0..m : ~\E g : IsSum(g, f, k)}
<1>1. ASSUME T # {} PROVE FALSE
  <2>0. T \in SUBSET Nat
    OBVIOUS
  <2>1. PICK k \in T : \A j \in T : k <= j
    <3> HIDE DEF T
    <3> QED BY <1>1, <2>0, LeastOf
  <2>2. k \in 0..m /\ ~\E g : IsSum(g, f, k)
    OBVIOUS
  <2>3. CASE k = 0
    <3>1. IsSum([c \in 0..0 |-> 0], f, 0)
      BY DEF IsSum
    <3> QED BY <2>2, <2>3, <3>1
  <2>4. CASE k > 0
    <3>1. k - 1 \in 0..m /\ k - 1 \notin T
      BY <2>1, <2>2, <2>4
    <3>2. PICK g : IsSum(g, f, k - 1)
      BY <3>1
    <3> DEFINE h == [c \in 0..k |-> IF c = k THEN g[k - 1] + f[k] ELSE g[c]]
    <3>3. f[k] \in Nat /\ k \in Nat
      BY <2>2, <2>4
    <3>4. \A c \in 0..k : c # k => c \in 0..(k - 1)
      BY <3>3
    <3>5. IsSum(h, f, k)
      <4>1. g \in [0..(k - 1) -> Nat] /\ g[0] = 0 /\ \A c \in 1..(k - 1) : g[c] = g[c - 1] + f[c]
        BY <3>2 DEF IsSum
      <4>2. k - 1 \in 0..(k - 1) /\ g[k - 1] \in Nat /\ 0 \in 0..k /\ 0 # k
        BY <2>4, <3>3, <4>1
      <4>3. h \in [0..k -> Nat] /\ h[0] = 0
        BY <3>3, <3>4, <4>1, <4>2
      <4>4. ASSUME NEW c \in 1..k PROVE h[c] = h[c - 1] + f[c]
        <5>1. c \in 0..k /\ c - 1 \in 0..k /\ c - 1 # k
          BY <3>3
        <5>2. CASE c = k
          BY <5>1, <5>2
        <5>3. CASE c # k
          BY <3>3, <4>1, <5>1, <5>3
        <5> QED BY <5>2, <5>3
      <4> QED BY <4>3, <4>4 DEF IsSum
    <3> QED BY <2>2, <3>5
  <2> QED BY <2>2, <2>3, <2>4
<1>2. m \in 0..m
  OBVIOUS
<1> QED BY <1>1, <1>2

(* h solves the recursive equation of the sum.                             *)
AddsUp(h, f, m) == h = [c \in 0..m |-> IF c = 0 THEN 0 ELSE h[c - 1] + f[c]]

(* f is what was seen of a user, process by process.                       *)
Column(f, kids, n) == \A c \in 1..MaxChildren : f[c] = kids[c].seen[n]

(* The sums of f and of e differ by what f and e have at b.                *)
Balanced(h, f, g, e, b, m) == h[m] + f[b] = g[m] + e[b]

(* e is f but at b.                                                        *)
SameBut(e, f, b, m) == \A c \in 1..m : c # b => e[c] = f[c]

(* The recursive equation has the partial sums for its only solution.      *)
LEMMA SumUnique ==
    ASSUME NEW m \in Nat, NEW f, NEW g, IsSum(g, f, m), NEW h, AddsUp(h, f, m)
    PROVE  h = g
<1>0. h = [c \in 0..m |-> IF c = 0 THEN 0 ELSE h[c - 1] + f[c]]
  BY DEF AddsUp
<1> DEFINE T == {k \in 0..m : h[k] # g[k]}
<1>1. ASSUME T # {} PROVE FALSE
  <2>0. T \in SUBSET Nat
    OBVIOUS
  <2>1. PICK k \in T : \A j \in T : k <= j
    <3> HIDE DEF T
    <3> QED BY <1>1, <2>0, LeastOf
  <2>2. k \in 0..m /\ h[k] # g[k]
    OBVIOUS
  <2>3. k # 0
    BY <1>0, <2>2 DEF IsSum
  <2>4. k - 1 \in 0..m /\ k - 1 \notin T /\ k \in 1..m
    BY <2>1, <2>2, <2>3
  <2>5. h[k - 1] = g[k - 1]
    BY <2>4
  <2>6. h[k] = h[k - 1] + f[k]
    BY <1>0, <2>2, <2>3
  <2> QED BY <2>2, <2>4, <2>5, <2>6 DEF IsSum
<1>2. \A k \in 0..m : h[k] = g[k]
  BY <1>1
<1>3. h = [k \in 0..m |-> h[k]] /\ g = [k \in 0..m |-> g[k]]
  BY <1>0 DEF IsSum
<1> HIDE DEF T
<1> QED BY <1>2, <1>3

(* Changing f in one place changes the sum by as much.                     *)
LEMMA SumChanges ==
    ASSUME NEW m \in Nat, NEW f \in [1..m -> Nat], NEW g, IsSum(g, f, m),
           NEW e \in [1..m -> Nat], NEW h, IsSum(h, e, m), NEW b \in 1..m, SameBut(e, f, b, m)
    PROVE  Balanced(h, f, g, e, b, m)
<1> DEFINE T == {k \in 0..m : ~(IF k < b THEN h[k] = g[k] ELSE h[k] + f[b] = g[k] + e[b])}
<1>1. ASSUME T # {} PROVE FALSE
  <2>0. T \in SUBSET Nat
    OBVIOUS
  <2>1. PICK k \in T : \A j \in T : k <= j
    <3> HIDE DEF T
    <3> QED BY <1>1, <2>0, LeastOf
  <2>2. k \in 0..m /\ ~(IF k < b THEN h[k] = g[k] ELSE h[k] + f[b] = g[k] + e[b])
    OBVIOUS
  <2>3. k # 0
    BY <2>2 DEF IsSum
  <2>4. k - 1 \in 0..m /\ k - 1 \notin T /\ k \in 1..m
    BY <2>1, <2>2, <2>3
  <2>5. IF k - 1 < b THEN h[k - 1] = g[k - 1] ELSE h[k - 1] + f[b] = g[k - 1] + e[b]
    BY <2>4
  <2>6. h[k] = h[k - 1] + e[k] /\ g[k] = g[k - 1] + f[k] /\ (k # b => e[k] = f[k])
    BY <2>4 DEF IsSum, SameBut
  <2>7. h[k] \in Nat /\ h[k - 1] \in Nat /\ g[k] \in Nat /\ g[k - 1] \in Nat /\ k \in Nat /\ b \in Nat
        /\ f[b] \in Nat /\ e[b] \in Nat /\ f[k] \in Nat
    <3> HIDE DEF T
    <3>1. h \in [0..m -> Nat] /\ g \in [0..m -> Nat]
      BY DEF IsSum
    <3>2. h[k] \in Nat /\ h[k - 1] \in Nat /\ g[k] \in Nat /\ g[k - 1] \in Nat
      BY <2>2, <2>4, <3>1
    <3> QED BY <2>4, <3>2
  <2>8. CASE k = b
    <3>1. h[k - 1] = g[k - 1]
      BY <2>5, <2>7, <2>8
    <3> QED BY <2>2, <2>6, <2>7, <2>8, <3>1, SMTT(30)
  <2>9. CASE k # b
    <3>0. e[k] = f[k]
      BY <2>6, <2>9
    <3>1. CASE k < b
      <4>1. h[k - 1] = g[k - 1] /\ h[k] # g[k]
        BY <2>2, <2>5, <2>7, <3>1
      <4> QED BY <2>6, <3>0, <4>1
    <3>2. CASE k > b
      <4>1. h[k - 1] + f[b] = g[k - 1] + e[b] /\ ~(h[k] + f[b] = g[k] + e[b])
        BY <2>2, <2>5, <2>7, <3>2
      <4>2. h[k] = h[k - 1] + f[k] /\ g[k] = g[k - 1] + f[k]
        BY <2>6, <3>0
      <4>5. h[k - 1] \in Nat /\ g[k - 1] \in Nat /\ f[b] \in Nat /\ e[b] \in Nat /\ f[k] \in Nat
        BY <2>7
      <4>6. h[k - 1] + f[b] = g[k - 1] + e[b]
        BY <4>1
      <4>4. (h[k - 1] + f[k]) + f[b] = (g[k - 1] + f[k]) + e[b]
        <5> DEFINE x == h[k - 1]
                   y == g[k - 1]
                   p == f[b]
                   q == e[b]
                   r == f[k]
        <5>1. x \in Nat /\ y \in Nat /\ p \in Nat /\ q \in Nat /\ r \in Nat /\ x + p = y + q
          BY <4>5, <4>6
        <5> HIDE DEF x, y, p, q, r
        <5>2. (x + r) + p = (y + r) + q
          BY <5>1
        <5> QED BY <5>2 DEF x, y, p, q, r
      <4> QED BY <4>1, <4>2, <4>4
    <3> QED BY <2>7, <2>9, <3>1, <3>2
  <2> QED BY <2>8, <2>9
<1>2. m \in 0..m /\ ~(m < b)
  OBVIOUS
<1> QED BY <1>1, <1>2 DEF Balanced

(* What was seen of a user over the processes.                             *)
SumOver(kids, n) ==
    LET sum[c \in 0..MaxChildren] == IF c = 0 THEN 0 ELSE sum[c - 1] + kids[c].seen[n]
    IN  sum[MaxChildren]

(* It is the last of the partial sums.                                     *)
LEMMA SumOverIs ==
    ASSUME MaxChildren \in Nat, NEW kids, NEW n, NEW f, Column(f, kids, n),
           NEW g, IsSum(g, f, MaxChildren)
    PROVE  SumOver(kids, n) = g[MaxChildren]
<1> DEFINE sum == CHOOSE h : h = [c \in 0..MaxChildren |-> IF c = 0 THEN 0 ELSE h[c - 1] + kids[c].seen[n]]
<1>0. \A c \in 0..MaxChildren : c # 0 => c \in 1..MaxChildren
  OBVIOUS
<1>3. \A c \in 0..MaxChildren : c # 0 => f[c] = kids[c].seen[n]
  BY <1>0 DEF Column
<1>4. g = [c \in 0..MaxChildren |-> IF c = 0 THEN 0 ELSE g[c - 1] + kids[c].seen[n]]
  <2>1. g = [c \in 0..MaxChildren |-> g[c]] /\ g[0] = 0
    BY DEF IsSum
  <2>3. \A c \in 0..MaxChildren : c # 0 => g[c] = g[c - 1] + f[c]
    BY <1>0 DEF IsSum
  <2>4. \A c \in 0..MaxChildren : g[c] = IF c = 0 THEN 0 ELSE g[c - 1] + kids[c].seen[n]
    BY <1>3, <2>1, <2>3
  <2> QED BY <2>1, <2>4
<1>5. sum = [c \in 0..MaxChildren |-> IF c = 0 THEN 0 ELSE sum[c - 1] + kids[c].seen[n]]
  BY <1>4
<1>6. SumOver(kids, n) = sum[MaxChildren]
  BY DEF SumOver
<1> HIDE DEF sum
<1>7. AddsUp(sum, f, MaxChildren)
  BY <1>3, <1>5 DEF AddsUp
<1>8. sum = g
  BY <1>7, SumUnique
<1> QED BY <1>6, <1>8

(* What was seen of a user is a natural number for every process.          *)
Counted(kids, n) == \A c \in TT!Children : kids[c].seen[n] \in Nat

(* A step that counts at one process changes the sum by what it adds       *)
(* there.                                                                  *)
LEMMA SumOne ==
    ASSUME MaxChildren \in Nat, NEW n, NEW kids, Counted(kids, n), NEW lids, Counted(lids, n),
           NEW b \in TT!Children, \A c \in TT!Children : c # b => lids[c].seen[n] = kids[c].seen[n]
    PROVE  SumOver(lids, n) + kids[b].seen[n] = SumOver(kids, n) + lids[b].seen[n]
<1> DEFINE f == [c \in 1..MaxChildren |-> kids[c].seen[n]]
           e == [c \in 1..MaxChildren |-> lids[c].seen[n]]
<1>0. TT!Children = 1..MaxChildren
  BY DEF TT!Children
<1>1. f \in [1..MaxChildren -> Nat] /\ e \in [1..MaxChildren -> Nat]
  BY <1>0 DEF Counted
<1>2. /\ Column(f, kids, n) /\ Column(e, lids, n) /\ SameBut(e, f, b, MaxChildren)
      /\ f[b] = kids[b].seen[n] /\ e[b] = lids[b].seen[n] /\ b \in 1..MaxChildren
  BY <1>0 DEF Column, SameBut
<1> HIDE DEF f, e
<1>3. PICK g : IsSum(g, f, MaxChildren)
  BY <1>1, SumExists
<1>4. PICK h : IsSum(h, e, MaxChildren)
  BY <1>1, SumExists
<1>5. SumOver(kids, n) = g[MaxChildren]
  BY <1>2, <1>3, SumOverIs
<1>6. SumOver(lids, n) = h[MaxChildren]
  BY <1>2, <1>4, SumOverIs
<1>7. Balanced(h, f, g, e, b, MaxChildren)
  <2>1. b \in 1..MaxChildren /\ SameBut(e, f, b, MaxChildren)
    BY <1>2
  <2>2. f \in [1..MaxChildren -> Nat]
    BY <1>1
  <2>3. e \in [1..MaxChildren -> Nat]
    BY <1>1
  <2> QED BY <1>3, <1>4, <2>1, <2>2, <2>3, SumChanges
<1> QED BY <1>2, <1>5, <1>6, <1>7 DEF Balanced

(* The sum depends on what was seen alone.                                 *)
LEMMA SumSame ==
    ASSUME MaxChildren \in Nat, NEW n, NEW kids, Counted(kids, n), NEW lids,
           \A c \in TT!Children : lids[c].seen[n] = kids[c].seen[n]
    PROVE  SumOver(lids, n) = SumOver(kids, n) /\ SumOver(kids, n) \in Nat
<1> DEFINE f == [c \in 1..MaxChildren |-> kids[c].seen[n]]
<1>0. TT!Children = 1..MaxChildren
  BY DEF TT!Children
<1>1. f \in [1..MaxChildren -> Nat]
  BY <1>0 DEF Counted
<1>2. Column(f, kids, n) /\ Column(f, lids, n)
  BY <1>0 DEF Column
<1> HIDE DEF f
<1>3. PICK g : IsSum(g, f, MaxChildren)
  BY <1>1, SumExists
<1>4. SumOver(kids, n) = g[MaxChildren]
  BY <1>2, <1>3, SumOverIs
<1>5. SumOver(lids, n) = g[MaxChildren]
  BY <1>2, <1>3, SumOverIs
<1>6. g[MaxChildren] \in Nat
  BY <1>3 DEF IsSum
<1> QED BY <1>4, <1>5, <1>6

(* Nothing seen, nothing in the sum.                                       *)
LEMMA SumZero ==
    ASSUME MaxChildren \in Nat, NEW n, NEW kids, \A c \in TT!Children : kids[c].seen[n] = 0
    PROVE  SumOver(kids, n) = 0
<1> DEFINE f == [c \in 1..MaxChildren |-> 0]
           g == [c \in 0..MaxChildren |-> 0]
<1>1. IsSum(g, f, MaxChildren)
  BY DEF IsSum
<1>2. Column(f, kids, n)
  BY DEF TT!Children, Column
<1>3. g[MaxChildren] = 0
  OBVIOUS
<1> HIDE DEF f, g
<1> QED BY <1>1, <1>2, <1>3, SumOverIs

(* The property's sum, before and after a step.                            *)
LEMMA SeenIsSum ==
    ASSUME NEW n
    PROVE  TT!Seen(n) = SumOver(ttChild, n) /\ TT!Seen(n)' = SumOver(ttChild', n)
<1>1. TT!Seen(n) = SumOver(ttChild, n)
  BY DEF TT!Seen, SumOver
<1>2. TT!Seen(n)' = SumOver(ttChild', n)
  BY DEF TT!Seen, SumOver
<1> QED BY <1>1, <1>2

(* A step counts nothing: what was seen stays, counters of live processes  *)
(* only grow, and nobody comes back to life.                               *)
KidsMove ==
    \A c \in TT!Children :
        /\ ttChild'[c].seen = ttChild[c].seen /\ ttChild'[c].raw \in [Users -> Nat]
        /\ ttChild'[c].st = "unborn" => ttChild[c].st = "unborn"
        /\ ttChild[c].st = "dead" => ttChild'[c].st = "dead"
        /\ ttChild'[c].st # "dead" => \A n \in Users : ttChild[c].raw[n] <= ttChild'[c].raw[n]

(* Then totals that stay are still the sums.                               *)
LEMMA TotalsStay ==
    ASSUME MaxChildren \in Nat, CountInv, KidsMove, \A n \in Users : ttStats'[n].total = ttStats[n].total,
           ttPoll.crossed => ttPoll'.crossed
    PROVE  TT!TrafficIsCountedOnce'
<1> SUFFICES ASSUME ~ttPoll'.crossed, NEW n \in Users PROVE ttStats'[n].total = TT!Seen(n)'
  BY DEF TT!TrafficIsCountedOnce
<1>1. Counted(ttChild, n) /\ \A c \in TT!Children : ttChild'[c].seen[n] = ttChild[c].seen[n]
  BY DEF CountInv, CountTypeOK, Counted, KidsMove
<1>2. SumOver(ttChild', n) = SumOver(ttChild, n)
  BY <1>1, SumSame
<1>3. ttStats[n].total = TT!Seen(n)
  BY DEF CountInv, TT!TrafficIsCountedOnce
<1> QED BY <1>2, <1>3, SeenIsSum

(* A step that counts nothing and leaves the statistics alone keeps        *)
(* CountInv.                                                               *)
LEMMA CountStays ==
    ASSUME MaxChildren \in Nat, CountInv, RosterTypeOK, KidsMove, UNCHANGED <<ttStats, ttPoll>>,
           ttProc' = ttProc \/ ttProc' = 0, ttRec' = ttRec \/ ttRec'.pc # "record"
    PROVE  CountInv'
<1>0. ttProc # 0 => ttProc \in TT!Children
  BY DEF RosterTypeOK, Pids
<1>1. CountTypeOK'
  BY DEF CountInv, CountTypeOK, KidsMove
<1>2. BornInv'
  BY <1>0 DEF CountInv, BornInv, KidsMove
<1>3. BaseInv'
  <2> SUFFICES ASSUME ~ttPoll.crossed PROVE AnswerBase' /\ ProcBase' /\ RecBase'
    BY DEF BaseInv
  <2>0. AnswerBase /\ ProcBase /\ RecBase /\ BornInv
    BY DEF CountInv, BaseInv
  <2>1. AnswerBase'
    <3> SUFFICES ASSUME ttPoll.pc = "answer", NEW n \in Users
                 PROVE /\ ttProc' \in {0, ttPoll.pid} /\ ttRec'.pc # "record"
                       /\ ttStats[n].last = ttChild'[ttPoll.pid].seen[n] /\ ttStats[n].last <= ttPoll.raw[n]
                       /\ ttChild'[ttPoll.pid].st # "dead" => ttPoll.raw[n] <= ttChild'[ttPoll.pid].raw[n]
      BY <2>0 DEF AnswerBase
    <3>1. ttPoll.pid \in TT!Children
      BY <2>0 DEF BornInv
    <3>2. ttProc' \in {0, ttPoll.pid} /\ ttRec'.pc # "record"
      BY <2>0 DEF AnswerBase
    <3>3. ttStats[n].last = ttChild'[ttPoll.pid].seen[n] /\ ttStats[n].last <= ttPoll.raw[n]
      BY <2>0, <3>1 DEF AnswerBase, KidsMove
    <3>4. ASSUME ttChild'[ttPoll.pid].st # "dead" PROVE ttPoll.raw[n] <= ttChild'[ttPoll.pid].raw[n]
      <4>1. ttPoll.raw[n] <= ttChild[ttPoll.pid].raw[n]
            /\ ttChild[ttPoll.pid].raw[n] <= ttChild'[ttPoll.pid].raw[n]
        BY <2>0, <3>1, <3>4 DEF AnswerBase, KidsMove
      <4>2. ttPoll.raw[n] \in Nat /\ ttChild[ttPoll.pid].raw[n] \in Nat /\ ttChild'[ttPoll.pid].raw[n] \in Nat
        BY <3>1 DEF CountInv, CountTypeOK, KidsMove
      <4> QED BY <4>1, <4>2
    <3> QED BY <3>2, <3>3, <3>4
  <2>2. ProcBase'
    <3> SUFFICES ASSUME ttProc' # 0, ttChild'[ttProc'].st # "dead", NEW n \in Users
                 PROVE  /\ ttStats[n].last = ttChild'[ttProc'].seen[n]
                        /\ ttStats[n].last <= ttChild'[ttProc'].raw[n]
      BY DEF ProcBase
    <3>1. ttProc' = ttProc /\ ttProc \in TT!Children
      BY <1>0
    <3>2. /\ ttStats[n].last = ttChild[ttProc].seen[n] /\ ttStats[n].last <= ttChild[ttProc].raw[n]
          /\ ttChild'[ttProc].seen = ttChild[ttProc].seen /\ ttChild[ttProc].raw[n] <= ttChild'[ttProc].raw[n]
      BY <2>0, <3>1 DEF ProcBase, KidsMove
    <3>3. ttStats[n].last \in Nat /\ ttChild[ttProc].raw[n] \in Nat /\ ttChild'[ttProc].raw[n] \in Nat
      BY <3>1 DEF CountInv, CountTypeOK, KidsMove
    <3> QED BY <3>1, <3>2, <3>3
  <2>3. RecBase'
    BY <2>0 DEF RecBase, BornInv, KidsMove
  <2> QED BY <2>1, <2>2, <2>3
<1> QED BY <1>1, <1>2, <1>3, TotalsStay DEF CountInv

(* A reset of last_raw keeps CountInv: it crosses an answer or a counted   *)
(* process, or nothing has been seen of any live one.                      *)
LEMMA CountMarked ==
    ASSUME MaxChildren \in Nat, CountInv, RosterTypeOK, KidsMove, TT!MarkEndpointRestarted, UNCHANGED ttProc,
           \/ ttRec' = ttRec \/ ttRec'.pc # "record"
           \/ ttRec'.pid \in TT!Children /\ ttChild[ttRec'.pid].st = "unborn" /\ ttChild'[ttRec'.pid].st # "unborn"
    PROVE  CountInv'
<1>0. ttProc # 0 => ttProc \in TT!Children
  BY DEF RosterTypeOK, Pids
<1>1. /\ ttStats' = [n \in Users |-> [ttStats[n] EXCEPT !.last = 0]]
      /\ ttPoll' = [ttPoll EXCEPT !.crossed = @ \/ TT!Crossing]
  BY DEF TT!MarkEndpointRestarted, TT!MarkRestarted
<1>2. /\ "crossed" \in DOMAIN ttPoll' /\ ttPoll'.crossed \in BOOLEAN
      /\ ttPoll'.crossed <=> ttPoll.crossed \/ TT!Crossing
      /\ ttPoll'.pc = ttPoll.pc /\ ttPoll'.pid = ttPoll.pid /\ ttPoll'.raw = ttPoll.raw
  <2> DEFINE b == ttPoll.crossed \/ TT!Crossing
  <2>1. "crossed" \in DOMAIN ttPoll
    BY DEF CountInv, CountTypeOK
  <2>2. ttPoll' = [ttPoll EXCEPT !.crossed = b] /\ b \in BOOLEAN /\ (b <=> ttPoll.crossed \/ TT!Crossing)
    BY <1>1, Zenon
  <2> HIDE DEF b
  <2>3. /\ "crossed" \in DOMAIN ttPoll' /\ ttPoll'.crossed = b
        /\ ttPoll'.pc = ttPoll.pc /\ ttPoll'.pid = ttPoll.pid /\ ttPoll'.raw = ttPoll.raw
    BY <2>1, <2>2
  <2> QED BY <2>2, <2>3, Zenon
<1>3. ASSUME NEW n \in Users
      PROVE  /\ "total" \in DOMAIN ttStats'[n] /\ "last" \in DOMAIN ttStats'[n]
             /\ ttStats'[n].total = ttStats[n].total /\ ttStats'[n].last = 0
  BY <1>1 DEF CountInv, CountTypeOK
<1>4. CountTypeOK'
  <2>1. ttStats' = [n \in Users |-> ttStats'[n]]
    BY <1>1
  <2> QED BY <1>2, <1>3, <2>1 DEF CountInv, CountTypeOK, KidsMove
<1>5. BornInv'
  BY <1>0, <1>2 DEF CountInv, BornInv, KidsMove
<1>6. BaseInv'
  <2> SUFFICES ASSUME ~ttPoll'.crossed PROVE AnswerBase' /\ ProcBase' /\ RecBase'
    BY DEF BaseInv
  <2>0. ~ttPoll.crossed /\ ~TT!Crossing /\ ttPoll'.pc # "answer" /\ RecBase /\ BornInv
    BY <1>2 DEF CountInv, BaseInv, TT!Crossing
  <2>1. ASSUME NEW c \in TT!Children, ttChild[c].st # "dead", NEW n \in Users PROVE ttChild[c].seen[n] = 0
    <3>1. CASE ttChild[c].st = "unborn"
      BY <2>0, <3>1 DEF BornInv
    <3>2. CASE ttChild[c].st # "unborn"
      <4>1. ~(ttChild[c].seen[n] > 0)
        BY <2>0, <2>1, <3>2 DEF TT!Crossing, TT!Spawned
      <4>2. ttChild[c].seen[n] \in Nat
        BY DEF CountInv, CountTypeOK
      <4> QED BY <4>1, <4>2
    <3> QED BY <3>1, <3>2
  <2>2. AnswerBase'
    BY <2>0 DEF AnswerBase
  <2>3. ProcBase'
    <3> SUFFICES ASSUME ttProc # 0, ttChild'[ttProc].st # "dead", NEW n \in Users
                 PROVE  ttStats'[n].last = ttChild'[ttProc].seen[n] /\ ttStats'[n].last <= ttChild'[ttProc].raw[n]
      BY DEF ProcBase
    <3>1. ttChild'[ttProc].seen[n] = 0
      BY <1>0, <2>1 DEF KidsMove
    <3>2. ttChild'[ttProc].raw[n] \in Nat
      BY <1>0 DEF KidsMove
    <3> QED BY <1>3, <3>1, <3>2
  <2>4. RecBase'
    <3> SUFFICES ASSUME ttRec'.pc = "record", NEW n \in Users PROVE ttChild'[ttRec'.pid].seen[n] = 0
      BY <1>3 DEF RecBase
    <3>1. CASE ttRec' = ttRec
      BY <2>0, <3>1 DEF RecBase, BornInv, KidsMove
    <3>2. CASE ttRec' # ttRec
      BY <2>1, <3>2 DEF KidsMove
    <3> QED BY <3>1, <3>2
  <2> QED BY <2>2, <2>3, <2>4
<1>7. TT!TrafficIsCountedOnce'
  BY <1>2, <1>3, TotalsStay
<1> QED BY <1>4, <1>5, <1>6, <1>7 DEF CountInv

(* A step of one process leaves the others alone.                          *)
LEMMA OneKidMoves ==
    ASSUME CountInv, RosterTypeOK, NEW x, NEW q, ttChild' = [ttChild EXCEPT ![x] = q],
           x \in TT!Children =>
              /\ q.seen = ttChild[x].seen /\ q.raw \in [Users -> Nat]
              /\ q.st = "unborn" => ttChild[x].st = "unborn"
              /\ ttChild[x].st = "dead" => q.st = "dead"
              /\ q.st # "dead" => \A n \in Users : ttChild[x].raw[n] <= q.raw[n]
    PROVE  KidsMove
<1> SUFFICES ASSUME NEW c \in TT!Children
             PROVE  /\ ttChild'[c].seen = ttChild[c].seen /\ ttChild'[c].raw \in [Users -> Nat]
                    /\ ttChild'[c].st = "unborn" => ttChild[c].st = "unborn"
                    /\ ttChild[c].st = "dead" => ttChild'[c].st = "dead"
                    /\ ttChild'[c].st # "dead" => \A n \in Users : ttChild[c].raw[n] <= ttChild'[c].raw[n]
  BY DEF KidsMove
<1>0. ttChild = [d \in TT!Children |-> ttChild[d]] /\ ttChild[c].raw \in [Users -> Nat]
  BY DEF RosterTypeOK, CountInv, CountTypeOK
<1>1. CASE x = c
  <2>1. ttChild'[c] = q
    BY <1>0, <1>1
  <2> QED BY <1>1, <2>1
<1>2. CASE x # c
  <2>1. ttChild'[c] = ttChild[c]
    BY <1>0, <1>2
  <2>2. \A n \in Users : ttChild[c].raw[n] <= ttChild[c].raw[n]
    BY <1>0
  <2> QED BY <1>0, <2>1, <2>2
<1> QED BY <1>1, <1>2

(* Leaving the processes alone counts nothing.                             *)
LEMMA KidsRest ==
    ASSUME CountInv, UNCHANGED ttChild
    PROVE  KidsMove
<1>1. \A c \in TT!Children : ttChild[c].raw \in [Users -> Nat]
  BY DEF CountInv, CountTypeOK
<1>2. \A c \in TT!Children, n \in Users : ttChild[c].raw[n] <= ttChild[c].raw[n]
  BY <1>1
<1> QED BY <1>1, <1>2 DEF KidsMove

(* The steps that touch neither statistics nor processes keep CountInv.    *)
LEMMA QuietSteps ==
    ASSUME MaxChildren \in Nat, CountInv, RosterTypeOK,
           \/ TT!UpdateInbound \/ TT!UploadCertificate \/ TT!RegenerateCertificate \/ TT!Restart
           \/ TT!Notified \/ TT!Lock \/ TT!EndStopped \/ TT!RestartEnsures
           \/ \E n \in Users : TT!CreateUser(n) \/ TT!UpdateUser(n) \/ TT!RotatePassword(n) \/ TT!Expire(n)
    PROVE  CountInv'
<1>1. UNCHANGED <<ttStats, ttPoll, ttProc, ttChild>>
  BY DEF TT!UpdateInbound, TT!UploadCertificate, TT!RegenerateCertificate, TT!StoreCertificate, TT!Restart,
         TT!Notified, TT!Lock, TT!EndStopped, TT!RestartEnsures, TT!CreateUser, TT!UpdateUser,
         TT!RotatePassword, TT!Expire, TT!dogVars
<1>2. ttRec' = ttRec \/ ttRec'.pc # "record"
  <2>1. CASE TT!Lock
    <3>1. PICK S : ttRec \in Reconciles(S)
      BY DEF RosterTypeOK
    <3> QED BY <2>1, <3>1 DEF TT!Lock, Reconciles
  <2>2. CASE TT!EndStopped
    BY <2>2 DEF TT!EndStopped, TT!Finish
  <2>3. CASE UNCHANGED ttRec
    BY <2>3
  <2> QED BY <2>1, <2>2, <2>3 DEF TT!UpdateInbound, TT!UploadCertificate, TT!RegenerateCertificate,
         TT!StoreCertificate, TT!Restart, TT!Notified, TT!RestartEnsures, TT!CreateUser, TT!UpdateUser,
         TT!RotatePassword, TT!Expire
<1> QED BY <1>1, <1>2, KidsRest, CountStays

(* Recording the new process keeps CountInv.                               *)
LEMMA RecordingCounts ==
    ASSUME MaxChildren \in Nat, CountInv, RosterTypeOK, TT!RecordChild
    PROVE  CountInv'
<1>1. /\ UNCHANGED <<ttStats, ttPoll, ttChild>> /\ ttProc' = ttRec.pid /\ ttRec.pc = "record"
      /\ ttRec'.pc = "idle"
  BY DEF TT!RecordChild, TT!Finish
<1>2. BornInv' /\ CountTypeOK'
  BY <1>1 DEF CountInv, BornInv, CountTypeOK
<1>3. BaseInv'
  <2> SUFFICES ASSUME ~ttPoll.crossed PROVE AnswerBase' /\ ProcBase' /\ RecBase'
    BY <1>1 DEF BaseInv
  <2>0. AnswerBase /\ RecBase /\ BornInv /\ CountTypeOK
    BY DEF CountInv, BaseInv
  <2>1. \A n \in Users : ttStats[n].last = 0 /\ ttChild[ttRec.pid].seen[n] = 0 /\ ttChild[ttRec.pid].raw[n] \in Nat
    BY <1>1, <2>0 DEF RecBase, BornInv, CountTypeOK
  <2>2. ProcBase'
    BY <1>1, <2>1 DEF ProcBase
  <2>3. AnswerBase' /\ RecBase'
    BY <1>1, <2>0 DEF AnswerBase, RecBase
  <2> QED BY <2>2, <2>3
<1> QED BY <1>1, <1>2, <1>3, KidsRest, TotalsStay DEF CountInv

(* stop_if_running keeps CountInv, the reset after the exit included.      *)
LEMMA StopCounts ==
    ASSUME MaxChildren \in Nat, CountInv, RosterTypeOK, NEW p, NEW q, TT!StopIfRunning(p, q),
           ttRec' = ttRec \/ ttRec'.pc # "record"
    PROVE  CountInv'
<1>1. CASE TT!Take(p, q)
  BY <1>1, KidsRest, CountStays DEF TT!Take
<1>2. CASE TT!Flag(p, q)
  <2> DEFINE x == p.pid
             k == [ttChild[x] EXCEPT !.flag = TRUE, !.st = IF @ = "up" THEN "asked" ELSE @]
  <2>1. ttChild' = [ttChild EXCEPT ![x] = k] /\ UNCHANGED <<ttProc, ttStats, ttPoll>>
    BY <1>2 DEF TT!Flag
  <2> HIDE DEF x
  <2>2. x \in TT!Children =>
           /\ k.seen = ttChild[x].seen /\ k.raw = ttChild[x].raw
           /\ k.st = IF ttChild[x].st = "up" THEN "asked" ELSE ttChild[x].st
    <3>1. PICK S : ttChild \in [TT!Children -> Endpoints(S)]
      BY DEF RosterTypeOK
    <3> QED BY <3>1 DEF Endpoints
  <2>3. x \in TT!Children => ttChild[x].raw \in [Users -> Nat] /\ \A n \in Users : ttChild[x].raw[n] <= ttChild[x].raw[n]
    BY DEF CountInv, CountTypeOK
  <2> HIDE DEF k
  <2>4. KidsMove
    BY <2>1, <2>2, <2>3, OneKidMoves
  <2> QED BY <2>1, <2>4, CountStays
<1>3. CASE TT!Gone(p, q)
  BY <1>3, KidsRest, CountMarked DEF TT!Gone
<1> QED BY <1>1, <1>2, <1>3 DEF TT!StopIfRunning

(* So do the stop under the lock and the one outside it.                   *)
LEMMA StopsCount ==
    ASSUME MaxChildren \in Nat, CountInv, RosterTypeOK, TT!StopForReconcile \/ TT!StopForRestart
    PROVE  CountInv'
<1>1. CASE TT!StopForRestart
  BY <1>1, StopCounts DEF TT!StopForRestart
<1>2. CASE TT!StopForReconcile
  <2>1. PICK S : ttRec \in Reconciles(S)
    BY DEF RosterTypeOK
  <2>2. ttRec'.pc # "record"
    BY <1>2, <2>1 DEF TT!StopForReconcile, TT!StopIfRunning, TT!Take, TT!Flag, TT!Gone, Reconciles
  <2> QED BY <1>2, <2>2, StopCounts DEF TT!StopForReconcile
<1> QED BY <1>1, <1>2

(* Spawning, with its reset, keeps CountInv.                               *)
LEMMA SpawnCounts ==
    ASSUME MaxChildren \in Nat, CountInv, RosterTypeOK, TT!SpawnChild
    PROVE  CountInv'
<1>0. PICK S : ttChild \in [TT!Children -> Endpoints(S)] /\ ttRec \in Reconciles(S)
  BY DEF RosterTypeOK
<1>1. PICK k \in 0..MaxChildren : \A c \in TT!Children : ttChild[c].st # "unborn" <=> c <= k
  BY DEF RosterTypeOK
<1>2. PICK c \in TT!Children :
          /\ c = k + 1 /\ ttRec' = [ttRec EXCEPT !.pc = "record", !.pid = c]
          /\ ttChild' = [ttChild EXCEPT ![c].st = "up", ![c].cfg = ttRec.cfg]
  BY <1>1, NextEndpoint
<1> DEFINE q == [ttChild[c] EXCEPT !.st = "up", !.cfg = ttRec.cfg]
<1>3. ttChild' = [ttChild EXCEPT ![c] = q]
  BY <1>2
<1>4. q.st = "up" /\ q.seen = ttChild[c].seen /\ q.raw = ttChild[c].raw
  BY <1>0 DEF Endpoints
<1>5. ttChild[c].raw \in [Users -> Nat] /\ \A n \in Users : ttChild[c].raw[n] <= ttChild[c].raw[n]
  BY DEF CountInv, CountTypeOK
<1>6. ttChild[c].st = "unborn"
  <2>1. ~(c <= k)
    BY <1>2
  <2> QED BY <1>1, <2>1
<1>7. ttChild'[c].st = "up"
  BY <1>0, <1>3, <1>4
<1>8. ttRec'.pid = c
  BY <1>0, <1>2 DEF Reconciles
<1> HIDE DEF q
<1>9. KidsMove
  BY <1>3, <1>4, <1>5, <1>6, OneKidMoves
<1>10. TT!MarkEndpointRestarted /\ UNCHANGED ttProc
  BY DEF TT!SpawnChild
<1> QED BY <1>6, <1>7, <1>8, <1>9, <1>10, CountMarked

(* Exits, watchdogs with their reset, and traffic keep CountInv.           *)
LEMMA EndpointsCount ==
    ASSUME MaxChildren \in Nat, CountInv, RosterTypeOK, NEW c \in TT!Children,
           \/ TT!Dies(c) \/ TT!Reap(c) \/ TT!Judge(c) \/ \E n \in Users : TT!Move(c, n)
    PROVE  CountInv'
<1>0. PICK S : ttChild \in [TT!Children -> Endpoints(S)]
  BY DEF RosterTypeOK
<1>1. ttChild[c].raw \in [Users -> Nat] /\ \A n \in Users : ttChild[c].raw[n] <= ttChild[c].raw[n]
  BY DEF CountInv, CountTypeOK
<1>2. CASE TT!Dies(c)
  <2> DEFINE q == [ttChild[c] EXCEPT !.st = "dead", !.cfg = {}, !.raw = [n \in Users |-> 0]]
  <2>1. /\ ttChild' = [ttChild EXCEPT ![c] = q] /\ UNCHANGED <<ttStats, ttPoll, ttProc, ttRec>>
    BY <1>2 DEF TT!Dies
  <2>2. q.st = "dead" /\ q.seen = ttChild[c].seen /\ q.raw \in [Users -> Nat]
    BY <1>0 DEF Endpoints
  <2> HIDE DEF q
  <2>3. KidsMove
    BY <2>1, <2>2, OneKidMoves
  <2> QED BY <2>1, <2>3, CountStays
<1>3. CASE TT!Reap(c) \/ TT!Judge(c)
  <2>1. PICK d : ttChild' = [ttChild EXCEPT ![c].dog = d]
    BY <1>3 DEF TT!Reap, TT!Judge
  <2> DEFINE q == [ttChild[c] EXCEPT !.dog = d]
  <2>2. ttChild' = [ttChild EXCEPT ![c] = q]
    BY <2>1
  <2>3. q.st = ttChild[c].st /\ q.seen = ttChild[c].seen /\ q.raw = ttChild[c].raw
    BY <1>0 DEF Endpoints
  <2> HIDE DEF q
  <2>4. KidsMove
    BY <1>1, <2>2, <2>3, OneKidMoves
  <2>5. CASE TT!MarkEndpointRestarted /\ UNCHANGED <<ttProc, ttRec>>
    BY <2>4, <2>5, CountMarked
  <2>6. CASE UNCHANGED <<ttStats, ttPoll, ttRec>> /\ (ttProc' = ttProc \/ ttProc' = 0)
    BY <2>4, <2>6, CountStays
  <2> QED BY <1>3, <2>5, <2>6 DEF TT!Reap, TT!Judge
<1>4. ASSUME NEW n \in Users, TT!Move(c, n) PROVE CountInv'
  <2> DEFINE v == [ttChild[c].raw EXCEPT ![n] = @ + 1]
             q == [ttChild[c] EXCEPT !.raw = v]
  <2>1. ttChild' = [ttChild EXCEPT ![c] = q] /\ UNCHANGED <<ttStats, ttPoll, ttProc, ttRec>>
    BY <1>4 DEF TT!Move
  <2>2. v \in [Users -> Nat] /\ \A m \in Users : ttChild[c].raw[m] <= v[m]
    BY <1>1
  <2> HIDE DEF v
  <2>3. q.st = ttChild[c].st /\ q.seen = ttChild[c].seen /\ q.raw = v
    BY <1>0 DEF Endpoints
  <2> HIDE DEF q
  <2>4. KidsMove
    BY <2>1, <2>2, <2>3, OneKidMoves
  <2> QED BY <2>1, <2>4, CountStays
<1> QED BY <1>2, <1>3, <1>4

(* Forgetting users' traffic keeps CountInv: their totals and their sums   *)
(* become zero.                                                            *)
LEMMA ForgetCounts ==
    ASSUME MaxChildren \in Nat, CountInv, RosterTypeOK, NEW names, ttChild' = TT!Uncounted(names),
           ttStats' = [n \in Users |-> IF n \in names THEN TT!NoEntry ELSE ttStats[n]],
           UNCHANGED <<ttPoll, ttProc>>, ttRec' = ttRec \/ ttRec'.pc # "record"
    PROVE  CountInv'
<1>0. PICK S : ttChild \in [TT!Children -> Endpoints(S)]
  BY DEF RosterTypeOK
<1>p. ttProc # 0 => ttProc \in TT!Children
  BY DEF RosterTypeOK, Pids
<1>t. CountTypeOK /\ BornInv /\ BaseInv
  BY DEF CountInv
<1>1. ASSUME NEW c \in TT!Children
      PROVE  /\ ttChild'[c].st = ttChild[c].st /\ ttChild'[c].raw = ttChild[c].raw
             /\ ttChild'[c].seen = [n \in Users |-> IF n \in names THEN 0 ELSE ttChild[c].seen[n]]
  <2> DEFINE z == [n \in Users |-> IF n \in names THEN 0 ELSE ttChild[c].seen[n]]
  <2>1. ttChild'[c] = [ttChild[c] EXCEPT !.seen = z]
    BY DEF TT!Uncounted
  <2> HIDE DEF z
  <2>2. ttChild'[c].st = ttChild[c].st /\ ttChild'[c].raw = ttChild[c].raw /\ ttChild'[c].seen = z
    BY <1>0, <2>1 DEF Endpoints
  <2> QED BY <2>2 DEF z
<1>2. ASSUME NEW c \in TT!Children, NEW n \in Users
      PROVE  ttChild'[c].seen[n] = IF n \in names THEN 0 ELSE ttChild[c].seen[n]
  BY <1>1
<1>3. ASSUME NEW n \in Users
      PROVE  /\ "total" \in DOMAIN ttStats'[n] /\ "last" \in DOMAIN ttStats'[n]
             /\ ttStats'[n].total = IF n \in names THEN 0 ELSE ttStats[n].total
             /\ ttStats'[n].last = IF n \in names THEN 0 ELSE ttStats[n].last
             /\ ttStats[n].total \in Nat /\ ttStats[n].last \in Nat
  BY <1>t DEF CountTypeOK, TT!NoEntry
<1>4. CountTypeOK'
  <2>1. \A c \in TT!Children : ttChild'[c].raw \in [Users -> Nat] /\ ttChild'[c].seen \in [Users -> Nat]
    <3> SUFFICES ASSUME NEW c \in TT!Children
                 PROVE  ttChild'[c].raw \in [Users -> Nat] /\ ttChild'[c].seen \in [Users -> Nat]
      OBVIOUS
    <3>1. ttChild[c].raw \in [Users -> Nat] /\ ttChild[c].seen \in [Users -> Nat]
      BY <1>t DEF CountTypeOK
    <3>2. [n \in Users |-> IF n \in names THEN 0 ELSE ttChild[c].seen[n]] \in [Users -> Nat]
      BY <3>1
    <3> QED BY <1>1, <3>1, <3>2
  <2>2. \A n \in Users : ttStats'[n].total \in Nat /\ ttStats'[n].last \in Nat
    BY <1>3
  <2>3. ttStats' = [n \in Users |-> ttStats'[n]]
    OBVIOUS
  <2> QED BY <1>3, <1>t, <2>1, <2>2, <2>3 DEF CountTypeOK
<1>5. BornInv'
  <2>1. \A c \in TT!Children : ttChild'[c].st = "unborn" => \A n \in Users : ttChild'[c].seen[n] = 0
    <3> SUFFICES ASSUME NEW c \in TT!Children, ttChild'[c].st = "unborn", NEW n \in Users
                 PROVE  ttChild'[c].seen[n] = 0
      OBVIOUS
    <3>1. ttChild[c].st = "unborn"
      BY <1>1
    <3>2. ttChild[c].seen[n] = 0
      BY <1>t, <3>1 DEF BornInv
    <3> QED BY <1>2, <3>2
  <2>2. \A c \in TT!Children : ttChild'[c].st = ttChild[c].st
    BY <1>1
  <2> QED BY <1>p, <1>t, <2>1, <2>2 DEF BornInv
<1>6. BaseInv'
  <2> SUFFICES ASSUME ~ttPoll.crossed PROVE AnswerBase' /\ ProcBase' /\ RecBase'
    BY DEF BaseInv
  <2>0. AnswerBase /\ ProcBase /\ RecBase
    BY <1>t DEF BaseInv
  <2>1. AnswerBase'
    <3> SUFFICES ASSUME ttPoll.pc = "answer", NEW n \in Users
                 PROVE /\ ttProc' \in {0, ttPoll.pid} /\ ttRec'.pc # "record"
                       /\ ttStats'[n].last = ttChild'[ttPoll.pid].seen[n] /\ ttStats'[n].last <= ttPoll.raw[n]
                       /\ ttChild'[ttPoll.pid].st # "dead" => ttPoll.raw[n] <= ttChild'[ttPoll.pid].raw[n]
      BY <2>0 DEF AnswerBase
    <3>1. ttPoll.pid \in TT!Children /\ ttPoll.raw[n] \in Nat
      BY <1>t DEF BornInv, CountTypeOK
    <3>2. ttProc' \in {0, ttPoll.pid} /\ ttRec'.pc # "record"
      BY <2>0 DEF AnswerBase
    <3>3. /\ ttStats[n].last = ttChild[ttPoll.pid].seen[n] /\ ttStats[n].last <= ttPoll.raw[n]
          /\ ttChild[ttPoll.pid].st # "dead" => ttPoll.raw[n] <= ttChild[ttPoll.pid].raw[n]
      BY <2>0, <3>1 DEF AnswerBase
    <3>4. ttStats'[n].last <= ttPoll.raw[n]
      BY <1>3, <3>1, <3>3
    <3> QED BY <1>1, <1>2, <1>3, <3>1, <3>2, <3>3, <3>4
  <2>2. ProcBase'
    <3> SUFFICES ASSUME ttProc # 0, ttChild'[ttProc].st # "dead", NEW n \in Users
                 PROVE  ttStats'[n].last = ttChild'[ttProc].seen[n] /\ ttStats'[n].last <= ttChild'[ttProc].raw[n]
      BY DEF ProcBase
    <3>1. ttChild[ttProc].raw[n] \in Nat /\ ttChild'[ttProc].raw[n] = ttChild[ttProc].raw[n]
      BY <1>1, <1>p, <1>t DEF CountTypeOK
    <3>2. ttStats[n].last = ttChild[ttProc].seen[n] /\ ttStats[n].last <= ttChild[ttProc].raw[n]
      BY <1>1, <1>p, <2>0 DEF ProcBase
    <3>3. ttStats'[n].last <= ttChild'[ttProc].raw[n]
      BY <1>3, <3>1, <3>2
    <3> QED BY <1>2, <1>3, <1>p, <3>2, <3>3
  <2>3. RecBase'
    BY <1>2, <1>3, <1>t, <2>0 DEF RecBase, BornInv
  <2> QED BY <2>1, <2>2, <2>3
<1>7. TT!TrafficIsCountedOnce'
  <2> SUFFICES ASSUME ~ttPoll.crossed, NEW n \in Users PROVE ttStats'[n].total = TT!Seen(n)'
    BY DEF TT!TrafficIsCountedOnce
  <2>1. CASE n \in names
    <3>1. \A c \in TT!Children : ttChild'[c].seen[n] = 0
      BY <1>2, <2>1
    <3>2. SumOver(ttChild', n) = 0
      BY <3>1, SumZero
    <3> QED BY <1>3, <2>1, <3>2, SeenIsSum
  <2>2. CASE n \notin names
    <3>1. Counted(ttChild, n) /\ \A c \in TT!Children : ttChild'[c].seen[n] = ttChild[c].seen[n]
      BY <1>2, <1>t, <2>2 DEF CountTypeOK, Counted
    <3>2. SumOver(ttChild', n) = SumOver(ttChild, n)
      BY <3>1, SumSame
    <3>3. ttStats[n].total = TT!Seen(n)
      BY DEF CountInv, TT!TrafficIsCountedOnce
    <3> QED BY <1>3, <2>2, <3>2, <3>3, SeenIsSum
  <2> QED BY <2>1, <2>2
<1> QED BY <1>4, <1>5, <1>6, <1>7 DEF CountInv

(* Deleting a user and pruning the statistics to the roster keep CountInv. *)
LEMMA ForgetSteps ==
    ASSUME MaxChildren \in Nat, CountInv, RosterTypeOK, TT!Decide \/ \E n \in Users : TT!DeleteUser(n)
    PROVE  CountInv'
<1>t. ttStats = [n \in Users |-> ttStats[n]]
  BY DEF CountInv, CountTypeOK
<1>1. CASE TT!Decide
  <2> DEFINE names == {n \in Users : ~ttUsers[n].in}
  <2>1. /\ ttChild' = TT!Uncounted(names) /\ UNCHANGED <<ttPoll, ttProc>>
        /\ ttStats' = [n \in Users |-> IF ttUsers[n].in THEN ttStats[n] ELSE TT!NoEntry]
    BY <1>1 DEF TT!Decide
  <2>2. ttStats' = [n \in Users |-> IF n \in names THEN TT!NoEntry ELSE ttStats[n]]
    BY <2>1
  <2>3. ttRec'.pc # "record"
    <3>1. PICK S : ttRec \in Reconciles(S)
      BY DEF RosterTypeOK
    <3>2. \/ ttRec' = [pc |-> "idle", who |-> "none", row |-> {}, cfg |-> {}, pid |-> 0]
          \/ \E cfg : ttRec' = [ttRec EXCEPT !.pc = "stop", !.row = {}, !.cfg = cfg]
      BY <1>1 DEF TT!Decide, TT!Finish
    <3>3. CASE ttRec' = [pc |-> "idle", who |-> "none", row |-> {}, cfg |-> {}, pid |-> 0]
      BY <3>3
    <3>4. ASSUME NEW cfg, ttRec' = [ttRec EXCEPT !.pc = "stop", !.row = {}, !.cfg = cfg]
          PROVE  ttRec'.pc # "record"
      BY <3>1, <3>4 DEF Reconciles
    <3> QED BY <3>2, <3>3, <3>4
  <2> HIDE DEF names
  <2> QED BY <2>1, <2>2, <2>3, ForgetCounts
<1>2. ASSUME NEW n \in Users, TT!DeleteUser(n) PROVE CountInv'
  <2>1. /\ ttChild' = TT!Uncounted({n}) /\ UNCHANGED <<ttPoll, ttProc, ttRec>>
        /\ ttStats' = [ttStats EXCEPT ![n] = TT!NoEntry]
    BY <1>2 DEF TT!DeleteUser
  <2>2. ttStats' = [m \in Users |-> IF m \in {n} THEN TT!NoEntry ELSE ttStats[m]]
    BY <1>t, <2>1
  <2> QED BY <2>1, <2>2, ForgetCounts
<1> QED BY <1>1, <1>2

(* Taking an answer keeps CountInv: no spawn is under way while a process  *)
(* is recorded.                                                            *)
LEMMA FetchCounts ==
    ASSUME MaxChildren \in Nat, CountInv, RosterInv, TT!Fetch
    PROVE  CountInv'
<1>1. /\ UNCHANGED <<ttStats, ttProc, ttRec, ttChild>> /\ ttProc # 0
      /\ ttPoll' = [pc |-> IF ttChild[ttProc].st = "dead" THEN "none" ELSE "answer", pid |-> ttProc,
                    cfg |-> ttChild[ttProc].cfg, raw |-> ttChild[ttProc].raw, crossed |-> ttPoll.crossed]
  BY DEF TT!Fetch, TT!dogVars
<1>2. /\ "crossed" \in DOMAIN ttPoll' /\ ttPoll'.crossed = ttPoll.crossed /\ ttPoll'.pid = ttProc
      /\ ttPoll'.raw = ttChild[ttProc].raw /\ (ttPoll'.pc = "answer" <=> ttChild[ttProc].st # "dead")
  BY <1>1
<1>3. ttProc \in TT!Children /\ ttRec.pc # "record"
  BY <1>1 DEF RosterInv, RosterTypeOK, Pids, HoldInv
<1>t. CountTypeOK /\ BornInv /\ BaseInv /\ ttChild[ttProc].raw \in [Users -> Nat]
  BY <1>3 DEF CountInv, CountTypeOK
<1>4. CountTypeOK'
  BY <1>1, <1>2, <1>t DEF CountTypeOK
<1>5. BornInv'
  BY <1>1, <1>2, <1>3, <1>t DEF BornInv
<1>6. BaseInv'
  <2> SUFFICES ASSUME ~ttPoll.crossed PROVE AnswerBase' /\ ProcBase' /\ RecBase'
    BY <1>2 DEF BaseInv
  <2>0. ProcBase /\ RecBase
    BY <1>t DEF BaseInv
  <2>1. ProcBase' /\ RecBase'
    BY <1>1, <2>0 DEF ProcBase, RecBase
  <2>2. \A n \in Users : ttChild[ttProc].raw[n] <= ttChild[ttProc].raw[n]
    BY <1>t
  <2>3. AnswerBase'
    BY <1>1, <1>2, <1>3, <2>0, <2>2 DEF AnswerBase, ProcBase
  <2> QED BY <2>1, <2>3
<1> QED BY <1>1, <1>2, <1>4, <1>5, <1>6, KidsRest, TotalsStay DEF CountInv

(* Folding an answer keeps CountInv: the clamped delta is exactly what is  *)
(* new of the process.                                                     *)
LEMMA RecordCounts ==
    ASSUME MaxChildren \in Nat, CountInv, RosterTypeOK, TT!Record
    PROVE  CountInv'
<1>1. /\ UNCHANGED <<ttProc, ttRec>>
      /\ ttPoll' = [pc |-> "idle", pid |-> 0, cfg |-> {}, raw |-> [n \in Users |-> 0], crossed |-> ttPoll.crossed]
  BY DEF TT!Record
<1>2. /\ "crossed" \in DOMAIN ttPoll' /\ ttPoll'.crossed = ttPoll.crossed /\ ttPoll'.pc = "idle"
      /\ ttPoll'.raw \in [Users -> Nat]
  BY <1>1
<1>t. CountTypeOK /\ BornInv /\ BaseInv
  BY DEF CountInv
<1>p. ttProc # 0 => ttProc \in TT!Children
  BY DEF RosterTypeOK, Pids
<1>3. CASE UNCHANGED <<ttStats, ttChild>>
  <2>1. CountTypeOK'
    BY <1>2, <1>3, <1>t DEF CountTypeOK
  <2>2. BornInv'
    BY <1>1, <1>2, <1>3, <1>t DEF BornInv
  <2>3. BaseInv'
    BY <1>1, <1>2, <1>3, <1>t DEF BaseInv, AnswerBase, ProcBase, RecBase
  <2> QED BY <1>2, <1>3, <2>1, <2>2, <2>3, KidsRest, TotalsStay DEF CountInv
<1>4. CASE ttPoll.pc = "answer"
  <2> DEFINE x == ttPoll.pid
             raw == ttPoll.raw
  <2>1. /\ ttStats' = [n \in Users |-> [total |-> ttStats[n].total + TT!Delta(raw[n], ttStats[n].last),
                                        last |-> raw[n]]]
        /\ ttChild' = [ttChild EXCEPT ![x].seen = raw]
    BY <1>4 DEF TT!Record, TT!Fold
  <2>2. x \in TT!Children /\ ttChild[x].st # "unborn" /\ raw \in [Users -> Nat]
    BY <1>4, <1>t DEF BornInv, CountTypeOK
  <2>3. /\ ttChild'[x].st = ttChild[x].st /\ ttChild'[x].raw = ttChild[x].raw /\ ttChild'[x].seen = raw
        /\ \A c \in TT!Children : c # x => ttChild'[c] = ttChild[c]
    <3>1. PICK S : ttChild \in [TT!Children -> Endpoints(S)]
      BY DEF RosterTypeOK
    <3> HIDE DEF raw, x
    <3> QED BY <2>1, <2>2, <3>1 DEF Endpoints
  <2>4. ASSUME NEW n \in Users
        PROVE  /\ "total" \in DOMAIN ttStats'[n] /\ "last" \in DOMAIN ttStats'[n]
               /\ ttStats'[n].total = ttStats[n].total + TT!Delta(raw[n], ttStats[n].last)
               /\ ttStats'[n].last = raw[n] /\ raw[n] \in Nat /\ ttStats[n].last \in Nat
               /\ ttStats[n].total \in Nat /\ TT!Delta(raw[n], ttStats[n].last) \in Nat
    <3>1. raw[n] \in Nat /\ ttStats[n].last \in Nat /\ ttStats[n].total \in Nat
      BY <1>t, <2>2 DEF CountTypeOK
    <3>2. TT!Delta(raw[n], ttStats[n].last) \in Nat
      BY <3>1 DEF TT!Delta
    <3> HIDE DEF raw
    <3> QED BY <2>1, <3>1, <3>2
  <2>5. CountTypeOK'
    <3>1. \A c \in TT!Children : ttChild'[c].raw \in [Users -> Nat] /\ ttChild'[c].seen \in [Users -> Nat]
      BY <1>t, <2>2, <2>3 DEF CountTypeOK
    <3>2. \A n \in Users : ttStats'[n].total \in Nat /\ ttStats'[n].last \in Nat
      BY <2>4
    <3>3. ttStats' = [n \in Users |-> ttStats'[n]]
      BY <2>1
    <3> QED BY <1>2, <1>t, <2>4, <3>1, <3>2, <3>3 DEF CountTypeOK
  <2>6. BornInv'
    <3>1. \A c \in TT!Children : /\ ttChild'[c].st = ttChild[c].st
                                 /\ ttChild[c].st = "unborn" => ttChild'[c].seen = ttChild[c].seen
      BY <2>2, <2>3
    <3> QED BY <1>1, <1>2, <1>p, <1>t, <3>1 DEF BornInv
  <2>7. CASE ttPoll.crossed
    BY <1>2, <2>5, <2>6, <2>7 DEF CountInv, BaseInv, TT!TrafficIsCountedOnce
  <2>8. CASE ~ttPoll.crossed
    <3>0. AnswerBase
      BY <1>t, <2>8 DEF BaseInv
    <3>1. BaseInv'
      <4>1. AnswerBase' /\ RecBase'
        BY <1>1, <1>2, <1>4, <3>0 DEF AnswerBase, RecBase
      <4>2. ProcBase'
        BY <1>1, <1>4, <2>3, <2>4, <3>0 DEF AnswerBase, ProcBase
      <4> QED BY <4>1, <4>2 DEF BaseInv
    <3>2. TT!TrafficIsCountedOnce'
      <4> SUFFICES ASSUME NEW n \in Users PROVE ttStats'[n].total = TT!Seen(n)'
        BY DEF TT!TrafficIsCountedOnce
      <4>1. Counted(ttChild, n) /\ Counted(ttChild', n)
        BY <1>t, <2>5 DEF CountTypeOK, Counted
      <4>2. SumOver(ttChild', n) + ttChild[x].seen[n] = SumOver(ttChild, n) + ttChild'[x].seen[n]
        BY <2>2, <2>3, <4>1, SumOne
      <4>3. SumOver(ttChild, n) \in Nat /\ SumOver(ttChild', n) \in Nat
        BY <4>1, SumSame
      <4>4. ttStats[n].total = SumOver(ttChild, n)
        BY <2>8, SeenIsSum DEF CountInv, TT!TrafficIsCountedOnce
      <4>5. ttStats[n].last = ttChild[x].seen[n] /\ ttStats[n].last <= raw[n]
        BY <1>4, <3>0 DEF AnswerBase
      <4>6. ttStats'[n].total = ttStats[n].total + (raw[n] - ttStats[n].last)
        BY <2>4, <4>5 DEF TT!Delta
      <4>7. ttChild'[x].seen[n] = raw[n]
        BY <2>3
      <4>8. ttStats'[n].total = SumOver(ttChild', n)
        <5> DEFINE a == SumOver(ttChild', n)
                   b == SumOver(ttChild, n)
                   r == raw[n]
                   l == ttStats[n].last
        <5>1. a + l = b + r /\ a \in Nat /\ b \in Nat /\ r \in Nat /\ l \in Nat
              /\ ttStats'[n].total = b + (r - l)
          BY <2>4, <4>2, <4>3, <4>4, <4>5, <4>6, <4>7
        <5> HIDE DEF a, b, r, l
        <5>2. b + (r - l) = a
          BY <5>1
        <5> QED BY <5>1, <5>2 DEF a
      <4> QED BY <4>8, SeenIsSum
    <3> QED BY <2>5, <2>6, <3>1, <3>2 DEF CountInv
  <2> QED BY <2>7, <2>8
<1> QED BY <1>3, <1>4 DEF TT!Record

(* Init establishes CountInv.                                              *)
LEMMA CountInit ==
    ASSUME MaxChildren \in Nat, TT!Init
    PROVE  CountInv
<1> DEFINE z == [n \in Users |-> 0]
<1>1. /\ ttChild = [c \in TT!Children |-> [st |-> "unborn", cfg |-> {}, raw |-> z, seen |-> z,
                                           flag |-> FALSE, dog |-> "wait"]]
      /\ ttRec = [pc |-> "idle", who |-> "none", row |-> {}, cfg |-> {}, pid |-> 0] /\ ttProc = 0
      /\ ttPoll = [pc |-> "idle", pid |-> 0, cfg |-> {}, raw |-> z, crossed |-> FALSE]
      /\ ttStats = [n \in Users |-> TT!NoEntry]
  BY DEF TT!Init
<1>2. z \in [Users -> Nat] /\ \A n \in Users : z[n] = 0
  OBVIOUS
<1> HIDE DEF z
<1>3. \A c \in TT!Children : ttChild[c].raw = z /\ ttChild[c].seen = z
  BY <1>1
<1>4. \A n \in Users : /\ "total" \in DOMAIN ttStats[n] /\ "last" \in DOMAIN ttStats[n]
                       /\ ttStats[n].total = 0 /\ ttStats[n].last = 0
  BY <1>1 DEF TT!NoEntry
<1>5. CountTypeOK
  BY <1>1, <1>2, <1>3, <1>4 DEF CountTypeOK
<1>6. BornInv /\ BaseInv
  BY <1>1, <1>2, <1>3 DEF BornInv, BaseInv, AnswerBase, ProcBase, RecBase
<1>7. TT!TrafficIsCountedOnce
  <2> SUFFICES ASSUME NEW n \in Users PROVE ttStats[n].total = TT!Seen(n)
    BY DEF TT!TrafficIsCountedOnce
  <2>1. SumOver(ttChild, n) = 0
    BY <1>2, <1>3, SumZero
  <2> QED BY <1>4, <2>1, SeenIsSum
<1> QED BY <1>5, <1>6, <1>7 DEF CountInv

(* Every step keeps CountInv.                                              *)
LEMMA CountNext ==
    ASSUME MaxChildren \in Nat, RosterInv, CountInv, [TT!Next]_(TT!vars)
    PROVE  CountInv'
<1>0. RosterTypeOK
  BY DEF RosterInv
<1>1. CASE UNCHANGED TT!vars
  <2>1. UNCHANGED <<ttStats, ttPoll, ttProc, ttRec, ttChild>>
    BY <1>1 DEF TT!vars
  <2> QED BY <1>0, <2>1, KidsRest, CountStays
<1>2. ASSUME NEW n \in Users,
             \/ TT!CreateUser(n) \/ TT!UpdateUser(n) \/ TT!RotatePassword(n) \/ TT!DeleteUser(n) \/ TT!Expire(n)
      PROVE  CountInv'
  BY <1>0, <1>2, QuietSteps, ForgetSteps
<1>3. ASSUME NEW c \in TT!Children,
             \/ TT!Dies(c) \/ TT!Watchdog(c) \/ \E n \in Users : TT!Move(c, n)
      PROVE  CountInv'
  BY <1>0, <1>3, EndpointsCount DEF TT!Watchdog
<1>4. CASE TT!Reconcile
  BY <1>0, <1>4, QuietSteps, ForgetSteps, StopsCount, SpawnCounts, RecordingCounts DEF TT!Reconcile
<1>5. CASE TT!StopForRestart
  BY <1>0, <1>5, StopsCount
<1>6. CASE TT!Poll
  BY <1>0, <1>6, FetchCounts, RecordCounts DEF TT!Poll
<1>7. CASE \/ TT!UpdateInbound \/ TT!UploadCertificate \/ TT!RegenerateCertificate \/ TT!Restart
           \/ TT!Notified \/ TT!RestartEnsures
  BY <1>0, <1>7, QuietSteps
<1> QED BY <1>1, <1>2, <1>3, <1>4, <1>5, <1>6, <1>7 DEF TT!Next

(* The totals are what the polls saw of every endpoint process, each byte  *)
(* once, however polls, restarts, crashes and deletions of users           *)
(* interleave, unless a reset of the counters crossed an answer in hand or *)
(* a process already counted (stats::record, mark_endpoint_restarted,      *)
(* retain, forget).                                                        *)
THEOREM BytesAreCountedOnce ==
    ASSUME MaxChildren \in Nat
    PROVE  TT!Spec => []TrafficIsCountedOnce
<1>1. TT!Init => RosterInv /\ CountInv
  BY RosterInit, CountInit
<1>2. RosterInv /\ CountInv /\ [TT!Next]_(TT!vars) => RosterInv' /\ CountInv'
  BY RosterNext, CountNext
<1>3. CountInv => TrafficIsCountedOnce
  BY DEF CountInv, TrafficIsCountedOnce
<1> QED BY <1>1, <1>2, <1>3, PTL DEF TT!Spec
=============================================================================
