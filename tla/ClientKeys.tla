----------------------------- MODULE ClientKeys -----------------------------
(***************************************************************************)
(* Where a peer's private key may be: the retention mode, the one-time     *)
(* links and the ways a configuration leaves the server (api/clients.rs,   *)
(* api/admin.rs, api/routes.rs, db.rs).                                    *)
(*                                                                         *)
(* create and rotate read the retention mode, generate a keypair, store    *)
(* the private half only under `plaintext' and hand the configuration back *)
(* in the response.  A stored key can be shown again by a download or by   *)
(* whoever claims the client's one-time link.  Switching to `never' purges *)
(* the stored keys and then writes the mode.  Each database call is atomic *)
(* and no lock spans two of them.                                          *)
(*                                                                         *)
(* A keypair is its number, in the order of generation; 0 is no key.       *)
(***************************************************************************)
EXTENDS Integers, FiniteSets

CONSTANTS
    Handlers,      \* concurrent request handlers
    MaxRequests    \* bound: requests

VARIABLES
    rows,        \* clients_table: id -> [pub, priv]
    links,       \* one_time_links_table: id -> [token, live]
    mode,        \* general_table.private_key_retention
    nextId, nextKey, nextToken, requests,
    pc,          \* where each handler stands
    loc,         \* what it holds: [id, key, issued, retain, token, mode]
    once,        \* history: keys generated under `never'
    sent         \* history: configurations delivered: [via, key, token]

vars == <<rows, links, mode, nextId, nextKey, nextToken, requests, pc, loc, once, sent>>

NoKey == 0
NoToken == 0
Modes == {"plaintext", "never"}
NoLocal == [id |-> 0, key |-> NoKey, issued |-> FALSE, retain |-> FALSE,
            token |-> NoToken, mode |-> "never"]

(* A handler that holds a token it claimed.                                *)
Holds(h, t) == pc[h] \in {"render", "build"} /\ loc[h].token = t

-----------------------------------------------------------------------------
Init ==
    /\ rows = [i \in {1} |-> [pub |-> 1, priv |-> 1]]
    /\ links = [i \in {} |-> 0]
    /\ mode = "plaintext"
    /\ nextId = 2 /\ nextKey = 2 /\ nextToken = 1
    /\ requests = 0
    /\ pc = [h \in Handlers |-> "idle"]
    /\ loc = [h \in Handlers |-> NoLocal]
    /\ once = {}
    /\ sent = {}

Goto(h, l) == pc' = [pc EXCEPT ![h] = l]

Return(h) ==
    /\ Goto(h, "idle")
    /\ loc' = [loc EXCEPT ![h] = NoLocal]

Accept(h, l, x) ==
    /\ pc[h] = "idle"
    /\ requests < MaxRequests
    /\ requests' = requests + 1
    /\ Goto(h, l)
    /\ loc' = [loc EXCEPT ![h] = x]

-----------------------------------------------------------------------------
(* create_client and rotate_client_key                                     *)

(* The mode is read and a keypair generated, or the caller brings the      *)
(* public half and there is no private one here.                           *)
Generate(h, l, id) ==
    /\ \E issued \in BOOLEAN :
          /\ Accept(h, l, [NoLocal EXCEPT !.id = id, !.key = nextKey, !.issued = issued,
                                          !.retain = (mode = "plaintext")])
          /\ once' = IF issued /\ mode = "never" THEN once \cup {nextKey} ELSE once
    /\ nextKey' = nextKey + 1
    /\ UNCHANGED <<rows, links, mode, nextId, nextToken, sent>>

CreateClient(h) == Generate(h, "insert", 0)

RotateClientKey(h) == \E id \in DOMAIN rows : Generate(h, "replace", id)

(* stored_private_key: the key under `plaintext', else the empty string.   *)
StoredKey(x) == IF x.issued /\ x.retain THEN x.key ELSE NoKey

InsertClient(h) ==
    /\ pc[h] = "insert"
    /\ rows' = [i \in DOMAIN rows \cup {nextId} |->
                   IF i = nextId THEN [pub |-> loc[h].key, priv |-> StoredKey(loc[h])]
                                 ELSE rows[i]]
    /\ nextId' = nextId + 1
    /\ loc' = [loc EXCEPT ![h].id = nextId]
    /\ Goto(h, "save")
    /\ UNCHANGED <<links, mode, nextKey, nextToken, requests, once, sent>>

(* update_client_keypair: both halves in one UPDATE; no row is an error.   *)
UpdateClientKeypair(h) ==
    /\ pc[h] = "replace"
    /\ loc[h].id \in DOMAIN rows
    /\ rows' = [rows EXCEPT ![loc[h].id] = [pub |-> loc[h].key, priv |-> StoredKey(loc[h])]]
    /\ Goto(h, "unlink")
    /\ UNCHANGED <<links, mode, nextId, nextKey, nextToken, requests, loc, once, sent>>

(* delete_one_time_link, whose error is ignored.                           *)
DeleteOneTimeLink(h) ==
    /\ pc[h] = "unlink"
    /\ links' = [i \in DOMAIN links \ {loc[h].id} |-> links[i]]
    /\ Goto(h, "save")
    /\ UNCHANGED <<rows, mode, nextId, nextKey, nextToken, requests, loc, once, sent>>

(* save_config; its failure is a 500 and the key is in nobody's hands.     *)
SaveConfig(h) ==
    /\ pc[h] = "save"
    /\ Goto(h, "issue")
    /\ UNCHANGED <<rows, links, mode, nextId, nextKey, nextToken, requests, loc, once, sent>>

(* The response carries the configuration, rendered from the row (which    *)
(* must still be there) and the key in memory.                             *)
Issue(h) ==
    /\ pc[h] = "issue"
    /\ loc[h].issued => loc[h].id \in DOMAIN rows
    /\ sent' = IF loc[h].issued
               THEN sent \cup {[via |-> "issue", key |-> loc[h].key, token |-> NoToken]}
               ELSE sent
    /\ Return(h)
    /\ UNCHANGED <<rows, links, mode, nextId, nextKey, nextToken, requests, once>>

-----------------------------------------------------------------------------
(* Showing a stored key again                                              *)

Retained(id) == id \in DOMAIN rows /\ rows[id].priv # NoKey

(* client_configuration, client_qrcode: require_retained_key has passed.   *)
Download(h) ==
    /\ \E id \in DOMAIN rows :
          Retained(id) /\ Accept(h, "render", [NoLocal EXCEPT !.id = id])
    /\ UNCHANGED <<rows, links, mode, nextId, nextKey, nextToken, once, sent>>

(* generate_one_time_link: require_retained_key has passed.                *)
GenerateOneTimeLink(h) ==
    /\ \E id \in DOMAIN rows :
          Retained(id) /\ Accept(h, "link_config", [NoLocal EXCEPT !.id = id])
    /\ UNCHANGED <<rows, links, mode, nextId, nextKey, nextToken, once, sent>>

(* It renders the configuration once, to see that it can.                  *)
TryConfig(h) ==
    /\ pc[h] = "link_config"
    /\ Retained(loc[h].id)
    /\ Goto(h, "link_insert")
    /\ UNCHANGED <<rows, links, mode, nextId, nextKey, nextToken, requests, loc, once, sent>>

(* INSERT OR REPLACE; the foreign key needs the client.                    *)
CreateOneTimeLink(h) ==
    /\ pc[h] = "link_insert"
    /\ loc[h].id \in DOMAIN rows
    /\ links' = [i \in DOMAIN links \cup {loc[h].id} |->
                    IF i = loc[h].id
                    THEN [token |-> nextToken, live |-> TRUE]
                    ELSE links[i]]
    /\ nextToken' = nextToken + 1
    /\ Return(h)
    /\ UNCHANGED <<rows, mode, nextId, nextKey, requests, once, sent>>

(* Fault: the link is looked up and left to be deleted later.              *)
ClaimOneTimeLinkByLookup(h) ==
    /\ \E id \in DOMAIN links :
          Accept(h, "render", [NoLocal EXCEPT !.id = id, !.token = links[id].token])
    /\ UNCHANGED <<rows, links, mode, nextId, nextKey, nextToken, once, sent>>

(* GET /cnf/:token: DELETE ... RETURNING, then the expiry.                 *)
ClaimOneTimeLink(h) ==
    /\ \E id \in DOMAIN links :
          /\ links[id].live
          /\ Accept(h, "render", [NoLocal EXCEPT !.id = id, !.token = links[id].token])
          /\ links' = [i \in DOMAIN links \ {id} |-> links[i]]
    /\ UNCHANGED <<rows, mode, nextId, nextKey, nextToken, once, sent>>

(* An expired link is gone all the same.                                   *)
ClaimExpired ==
    /\ \E id \in DOMAIN links :
          /\ ~links[id].live
          /\ links' = [i \in DOMAIN links \ {id} |-> links[i]]
    /\ UNCHANGED <<rows, mode, nextId, nextKey, nextToken, requests, pc, loc, once, sent>>

(* get_client_config reads the row and asks has_private_key ...            *)
GetClientConfig(h) ==
    /\ pc[h] = "render"
    /\ Retained(loc[h].id)
    /\ Goto(h, "build")
    /\ UNCHANGED <<rows, links, mode, nextId, nextKey, nextToken, requests, loc, once, sent>>

(* ... and build_client_config reads the row again and renders that.       *)
BuildClientConfig(h) ==
    /\ pc[h] = "build"
    /\ loc[h].id \in DOMAIN rows
    /\ sent' = sent \cup {[via |-> IF loc[h].token = NoToken THEN "download" ELSE "link",
                           key |-> rows[loc[h].id].priv, token |-> loc[h].token]}
    /\ Return(h)
    /\ UNCHANGED <<rows, links, mode, nextId, nextKey, nextToken, requests, once>>

(* The error returns: no row, no retained key, or save_config failed.      *)
Fails(h) ==
    /\ \/ pc[h] \in {"replace", "link_insert", "build"} /\ loc[h].id \notin DOMAIN rows
       \/ pc[h] = "issue" /\ loc[h].issued /\ loc[h].id \notin DOMAIN rows
       \/ pc[h] \in {"link_config", "render"} /\ ~Retained(loc[h].id)
       \/ pc[h] = "save"
    /\ Return(h)
    /\ UNCHANGED <<rows, links, mode, nextId, nextKey, nextToken, requests, once, sent>>

-----------------------------------------------------------------------------
(* update_general with privateKeyRetention: `never' purges the stored keys *)
(* while the fields are still being validated; the mode is written last.   *)

SetRetention(h) ==
    /\ \E m \in Modes :
          /\ Accept(h, "mode_write", [NoLocal EXCEPT !.mode = m])
          /\ rows' = IF m = "never" THEN [i \in DOMAIN rows |-> [rows[i] EXCEPT !.priv = NoKey]]
                                    ELSE rows
    /\ UNCHANGED <<links, mode, nextId, nextKey, nextToken, once, sent>>

UpdateGeneral(h) ==
    /\ pc[h] = "mode_write"
    /\ mode' = loc[h].mode
    /\ Return(h)
    /\ UNCHANGED <<rows, links, nextId, nextKey, nextToken, requests, once, sent>>

(* A later field of the same body is refused.                              *)
UpdateGeneralRefused(h) ==
    /\ pc[h] = "mode_write"
    /\ Return(h)
    /\ UNCHANGED <<rows, links, mode, nextId, nextKey, nextToken, requests, once, sent>>

(* DELETE of a client cascades to its link.                                *)
DeleteClient ==
    /\ requests < MaxRequests
    /\ requests' = requests + 1
    /\ \E id \in DOMAIN rows :
          /\ rows' = [i \in DOMAIN rows \ {id} |-> rows[i]]
          /\ links' = [i \in DOMAIN links \ {id} |-> links[i]]
    /\ UNCHANGED <<mode, nextId, nextKey, nextToken, pc, loc, once, sent>>

(* Five minutes pass.                                                      *)
LinkExpires ==
    /\ \E id \in DOMAIN links :
          links[id].live /\ links' = [links EXCEPT ![id].live = FALSE]
    /\ UNCHANGED <<rows, mode, nextId, nextKey, nextToken, requests, pc, loc, once, sent>>

-----------------------------------------------------------------------------
IssueStep(h) ==
    \/ CreateClient(h) \/ InsertClient(h)
    \/ RotateClientKey(h) \/ UpdateClientKeypair(h) \/ DeleteOneTimeLink(h)
    \/ SaveConfig(h) \/ Issue(h)

ShowStep(h) ==
    \/ Download(h) \/ GenerateOneTimeLink(h) \/ TryConfig(h) \/ CreateOneTimeLink(h)
    \/ ClaimOneTimeLink(h) \/ GetClientConfig(h) \/ BuildClientConfig(h) \/ Fails(h)

RetentionStep(h) == SetRetention(h) \/ UpdateGeneral(h) \/ UpdateGeneralRefused(h)

Next ==
    \/ \E h \in Handlers : IssueStep(h) \/ ShowStep(h) \/ RetentionStep(h)
    \/ DeleteClient \/ LinkExpires \/ ClaimExpired

Spec == Init /\ [][Next]_vars

-----------------------------------------------------------------------------

(* A one-time link serves one caller: a claimed token is held by one       *)
(* handler, has not been served and cannot be claimed again                *)
(* (claim_one_time_link, "exactly one caller can observe a given row").    *)
ClaimIsExclusive ==
    \A h \in Handlers : \A t \in 1..(nextToken - 1) : Holds(h, t) =>
        /\ \A g \in Handlers \ {h} : ~Holds(g, t)
        /\ \A d \in sent : d.token # t
        /\ \A i \in DOMAIN links : links[i].token # t

(* A key generated under `never' leaves the server only in the response    *)
(* that issued it, whatever the mode becomes later (create_client, "the    *)
(* one-and-only delivery").                                                *)
UnretainedKeyIsIssuedOnce ==
    /\ \A d \in sent : d.via # "issue" => d.key \notin once
    /\ \A i \in DOMAIN rows : rows[i].priv \notin once

(* What is meant for one delivery is delivered once: both of the above.    *)
HandedOutOnce == ClaimIsExclusive /\ UnretainedKeyIsIssuedOnce
=============================================================================
