------------------------------ MODULE PeerSync ------------------------------
(***************************************************************************)
(* How a change of a peer's row reaches the kernel.                        *)
(*                                                                         *)
(* The client table is one SQLite database behind one mutex (db.rs), so a  *)
(* single db:: call is atomic and a sequence of them is not.  Every handler*)
(* of api/clients.rs that changes a row then runs wg::save_config: it      *)
(* renders the enabled rows, truncates and rewrites the .conf file, lets   *)
(* `awg-quick strip' read that file back and feeds the result to           *)
(* `awg syncconf'.  No lock covers these steps, the handlers run on a      *)
(* multi-threaded runtime, and the cron job and the restart endpoint run   *)
(* the same steps, so they interleave freely.  A crash loses every         *)
(* in-flight request and keeps the table, the file and the kernel state.   *)
(*                                                                         *)
(* A peer is named by <<id, gen>>: the row's id (AUTOINCREMENT, never      *)
(* reused) and how many keypairs the row has had.                          *)
(***************************************************************************)
EXTENDS Integers, FiniteSets

CONSTANTS
    Handlers,          \* concurrent request handlers
    Cron,              \* the task of main.rs that runs wg::cron_job
    Main,              \* the thread that runs wg::startup
    InitClients,       \* rows already in the table when the process starts
    FirewallEnabled,   \* interfaces_table.firewall_enabled
    Expiries,          \* the expires_at values requests carry
    MaxRequests,       \* bound: requests that change state
    MaxCrashes         \* bound: crashes of the process

ASSUME PeerSyncConstants ==
    /\ InitClients \in Nat
    /\ MaxRequests \in Nat
    /\ MaxCrashes \in Nat
    /\ FirewallEnabled \in BOOLEAN
    /\ Expiries \subseteq {"none", "future", "past"}
    /\ Cron \notin Handlers
    /\ Main \notin Handlers
    /\ Main # Cron

Procs == Handlers \cup {Cron, Main}

VARIABLES
    rows,       \* clients_table: id -> [gen, enabled, expiry]
    nextId,     \* AUTOINCREMENT
    conf,       \* the .conf file: [ver, peers]
    kern,       \* the running interface: [up, ver, peers]
    fw,         \* the per-client nftables chain: [ver, peers]
    pc,         \* where each process stands in its handler
    op,         \* the request it serves
    text,       \* what it holds in memory: rendered or stripped config, or rules
    expired,    \* cron_job's list of rows still to disable
    booted,     \* wg::startup has returned: the server accepts requests
    requests,   \* requests accepted so far
    crashes,    \* crashes so far
    ver,        \* history: commits to clients_table so far
    hist,       \* history: the enabled peers after each commit
    wrote,      \* history: the commit each request made
    overlap     \* history: another process held an older text at that commit

vars == <<rows, nextId, conf, kern, fw, pc, op, text, expired, booted,
          requests, crashes, ver, hist, wrote, overlap>>

Expiry == {"none", "future", "past"}
Row == [gen : Nat \ {0}, enabled : BOOLEAN, expiry : Expiry]
Ops == {"none", "create", "rotate", "update", "delete", "enable", "disable",
        "restart", "cron", "boot"}
Labels == {"idle", "write", "expire", "read", "open", "fill", "strip", "sync",
           "down", "up", "resync", "refeed", "fwread", "fwapply", "reply", "stale"}

(* The enabled peers of a table: what render_server_config emits and what  *)
(* rebuild_rules opens the chain for.                                      *)
Peers(r) == {<<i, r[i].gen>> : i \in {j \in DOMAIN r : r[j].enabled}}

NoOp == [name |-> "none", id |-> 0]
NoText == [ver |-> 0, peers |-> {}]

(* A process at one of these labels holds a text read from the table.      *)
Holding == {"open", "fill", "strip", "sync", "refeed", "fwapply"}

-----------------------------------------------------------------------------
Init ==
    /\ \E e \in Expiries :
          rows = [i \in 1..InitClients |-> [gen |-> 1, enabled |-> TRUE, expiry |-> e]]
    /\ nextId = InitClients + 1
    /\ conf = NoText
    /\ kern = [up |-> FALSE, ver |-> 0, peers |-> {}]
    /\ fw = NoText
    /\ pc = [p \in Procs |-> IF p = Main THEN "read" ELSE "idle"]
    /\ op = [p \in Procs |-> IF p = Main THEN [name |-> "boot", id |-> 0]
                                         ELSE NoOp]
    /\ text = [p \in Procs |-> NoText]
    /\ expired = {}
    /\ booted = FALSE
    /\ requests = 0
    /\ crashes = 0
    /\ ver = 0
    /\ hist = [v \in 0..0 |-> Peers(rows)]
    /\ wrote = [p \in Procs |-> 0]
    /\ overlap = [p \in Procs |-> FALSE]

-----------------------------------------------------------------------------
(* Requests: the authorised handlers up to their first write.              *)

Goto(p, l) == pc' = [pc EXCEPT ![p] = l]

(* The handler returns: nothing of the request is left.                    *)
Return(p) ==
    /\ Goto(p, "idle")
    /\ op' = [op EXCEPT ![p] = NoOp]
    /\ text' = [text EXCEPT ![p] = NoText]
    /\ wrote' = [wrote EXCEPT ![p] = 0]
    /\ overlap' = [overlap EXCEPT ![p] = FALSE]
    /\ booted' = (booted \/ p = Main)

(* require_auth, the body's validation and db::get_client have passed.     *)
Accept(p, name, id, l) ==
    /\ booted
    /\ p \in Handlers
    /\ pc[p] = "idle"
    /\ requests < MaxRequests
    /\ requests' = requests + 1
    /\ op' = [op EXCEPT ![p] = [name |-> name, id |-> id]]
    /\ Goto(p, l)
    /\ UNCHANGED <<rows, nextId, conf, kern, fw, text, expired, booted,
                   crashes, ver, hist, wrote, overlap>>

AcceptCreate(p) == Accept(p, "create", 0, "write")

AcceptChange(p) ==
    \E id \in DOMAIN rows, name \in {"rotate", "update", "delete", "enable", "disable"} :
        Accept(p, name, id, "write")

(* POST /api/admin/interface/restart: wg::restart, then the firewall.      *)
AcceptRestart(p) == Accept(p, "restart", 0, "down")

(* One UPDATE, INSERT or DELETE on clients_table under the database lock.  *)
Commit(p, newRows) ==
    /\ rows' = newRows
    /\ ver' = ver + 1
    /\ hist' = [v \in 0..(ver + 1) |-> IF v = ver + 1 THEN Peers(newRows) ELSE hist[v]]
    /\ wrote' = [wrote EXCEPT ![p] = ver + 1]
    /\ overlap' = [overlap EXCEPT ![p] = \E q \in Procs : pc[q] \in Holding]

AtWrite(p, name) ==
    /\ pc[p] = "write"
    /\ op[p].name = name
    /\ UNCHANGED <<conf, kern, fw, expired, requests, crashes>>

ToSave(p) ==
    /\ Goto(p, "read")
    /\ UNCHANGED <<op, text, booted>>

(* create_client_alloc_ip inserts an enabled row under a fresh id.         *)
CreateClient(p) ==
    /\ AtWrite(p, "create")
    /\ \E e \in Expiries :
          Commit(p, [i \in DOMAIN rows \cup {nextId} |->
                        IF i = nextId
                        THEN [gen |-> 1, enabled |-> TRUE, expiry |-> e]
                        ELSE rows[i]])
    /\ nextId' = nextId + 1
    /\ ToSave(p)

(* update_client_keypair: the key is replaced, enabled is left alone.      *)
RotateClientKey(p) ==
    /\ AtWrite(p, "rotate")
    /\ op[p].id \in DOMAIN rows
    /\ Commit(p, [rows EXCEPT ![op[p].id].gen = @ + 1])
    /\ UNCHANGED nextId
    /\ ToSave(p)

(* update_client writes the expiry and, if the body has it, enabled.  An   *)
(* UPDATE that matches no row (deleted meanwhile) is no error.             *)
UpdateClient(p) ==
    /\ AtWrite(p, "update")
    /\ \E e \in Expiries, b \in BOOLEAN :
          Commit(p, [i \in DOMAIN rows |->
                        IF i = op[p].id
                        THEN [rows[i] EXCEPT !.expiry = e, !.enabled = b]
                        ELSE rows[i]])
    /\ UNCHANGED nextId
    /\ ToSave(p)

Toggled(r, id, b) ==
    [i \in DOMAIN r |-> IF i = id THEN [r[i] EXCEPT !.enabled = b] ELSE r[i]]

EnableClient(p) ==
    /\ AtWrite(p, "enable")
    /\ Commit(p, Toggled(rows, op[p].id, TRUE))
    /\ UNCHANGED nextId
    /\ ToSave(p)

DisableClient(p) ==
    /\ AtWrite(p, "disable")
    /\ Commit(p, Toggled(rows, op[p].id, FALSE))
    /\ UNCHANGED nextId
    /\ ToSave(p)

DeleteClient(p) ==
    /\ AtWrite(p, "delete")
    /\ op[p].id \in DOMAIN rows
    /\ Commit(p, [i \in DOMAIN rows \ {op[p].id} |-> rows[i]])
    /\ UNCHANGED nextId
    /\ ToSave(p)

(* A rotate or delete of a row deleted meanwhile matches nothing: an error.*)
WriteFindsNoRow(p) ==
    /\ \/ AtWrite(p, "rotate")
       \/ AtWrite(p, "delete")
    /\ op[p].id \notin DOMAIN rows
    /\ Return(p)
    /\ UNCHANGED <<rows, nextId, ver, hist>>

-----------------------------------------------------------------------------
(* cron_job: the list is read once, each expired row is disabled under its *)
(* own lock, and the config is saved once if any row was.                  *)

(* Fault: the comparison of expires_at with the clock is turned around.    *)
CronScanTurned ==
    /\ booted
    /\ pc[Cron] = "idle"
    /\ expired' = {i \in DOMAIN rows : rows[i].enabled /\ rows[i].expiry = "future"}
    /\ expired' # {}
    /\ op' = [op EXCEPT ![Cron] = [name |-> "cron", id |-> 0]]
    /\ Goto(Cron, "expire")
    /\ UNCHANGED <<rows, nextId, conf, kern, fw, text, booted, requests,
                   crashes, ver, hist, wrote, overlap>>

CronScan ==
    /\ booted
    /\ pc[Cron] = "idle"
    /\ LET due == {i \in DOMAIN rows : rows[i].enabled /\ rows[i].expiry = "past"}
       IN /\ due # {}
          /\ expired' = due
    /\ op' = [op EXCEPT ![Cron] = [name |-> "cron", id |-> 0]]
    /\ Goto(Cron, "expire")
    /\ UNCHANGED <<rows, nextId, conf, kern, fw, text, booted, requests,
                   crashes, ver, hist, wrote, overlap>>

CronDisable ==
    /\ pc[Cron] = "expire"
    /\ \E id \in expired :
          /\ \A other \in expired : id <= other
          /\ Commit(Cron, Toggled(rows, id, FALSE))
          /\ expired' = expired \ {id}
    /\ UNCHANGED <<nextId, conf, kern, fw, pc, op, text, booted, requests, crashes>>

CronSave ==
    /\ pc[Cron] = "expire"
    /\ expired = {}
    /\ Goto(Cron, "read")
    /\ UNCHANGED <<rows, nextId, conf, kern, fw, op, text, expired, booted,
                   requests, crashes, ver, hist, wrote, overlap>>

-----------------------------------------------------------------------------
(* save_config                                                             *)

Render == [ver |-> ver, peers |-> Peers(rows)]

UnchangedBySave ==
    UNCHANGED <<rows, nextId, expired, requests, crashes, ver, hist>>

Continue(p, l) ==
    /\ Goto(p, l)
    /\ UNCHANGED <<op, wrote, overlap, booted>>

AfterIface == IF FirewallEnabled THEN "fwread" ELSE "reply"

(* render_server_config: all rows in one get_all_clients.                  *)
ReadRows(p) ==
    /\ pc[p] = "read"
    /\ text' = [text EXCEPT ![p] = Render]
    /\ Continue(p, "open")
    /\ UnchangedBySave
    /\ UNCHANGED <<conf, kern, fw>>

(* open(2) with O_TRUNC: a reader now finds an empty file.                 *)
TruncateConf(p) ==
    /\ pc[p] = "open"
    /\ conf' = [ver |-> text[p].ver, peers |-> {}]
    /\ Continue(p, "fill")
    /\ UnchangedBySave
    /\ UNCHANGED <<kern, fw, text>>

(* Fault: the file is appended to and not rewritten.                       *)
WriteConfAppends(p) ==
    /\ pc[p] = "fill"
    /\ conf' = [ver |-> text[p].ver, peers |-> conf.peers \cup text[p].peers]
    /\ Continue(p, "strip")
    /\ UnchangedBySave
    /\ UNCHANGED <<kern, fw, text>>

WriteConf(p) ==
    /\ pc[p] = "fill"
    /\ conf' = text[p]
    /\ Continue(p, "strip")
    /\ UnchangedBySave
    /\ UNCHANGED <<kern, fw, text>>

(* awg-quick strip reads the file, whoever wrote it last.                  *)
StripConf(p) ==
    /\ pc[p] \in {"strip", "resync"}
    /\ text' = [text EXCEPT ![p] = conf]
    /\ Continue(p, IF pc[p] = "strip" THEN "sync" ELSE "refeed")
    /\ UnchangedBySave
    /\ UNCHANGED <<conf, kern, fw>>

Load(c) == [up |-> TRUE, ver |-> c.ver, peers |-> c.peers]

(* awg syncconf replaces the running peer set; it needs the interface.     *)
(* cron_job ends here; a handler goes on to the firewall.                  *)
SyncConf(p) ==
    /\ pc[p] = "sync"
    /\ kern.up
    /\ kern' = Load(text[p])
    /\ \/ /\ p = Cron
          /\ Return(p)
       \/ /\ p = Main
          /\ Continue(p, "down")
          /\ UNCHANGED text
       \/ /\ p \in Handlers
          /\ Continue(p, AfterIface)
          /\ UNCHANGED text
    /\ UnchangedBySave
    /\ UNCHANGED <<conf, fw>>

(* Fault: a handler drops the error of save_config and goes on.            *)
SaveFailsUnnoticed(p) ==
    /\ pc[p] \in {"open", "fill", "strip", "sync"}
    /\ IF p = Cron
       THEN Return(p)
       ELSE /\ Continue(p, IF p = Main THEN "down" ELSE AfterIface)
            /\ UNCHANGED text
    /\ UnchangedBySave
    /\ UNCHANGED <<conf, kern, fw>>

(* The open, the write or one of the two subprocesses fails.  A handler    *)
(* answers 500, cron_job logs, startup ignores it and goes on.             *)
SaveFails(p) ==
    /\ pc[p] \in {"open", "fill", "strip", "sync"}
    /\ \/ /\ p # Main
          /\ Return(p)
       \/ /\ p = Main
          /\ Continue(p, "down")
          /\ UNCHANGED text
    /\ UnchangedBySave
    /\ UNCHANGED <<conf, kern, fw>>

-----------------------------------------------------------------------------
(* awg-quick down and up (restart, startup).                               *)

(* A failing `down' is ignored: the interface was not up.                  *)
IfaceDown(p) ==
    /\ pc[p] = "down"
    /\ kern' = [kern EXCEPT !.up = FALSE, !.peers = {}]
    /\ Continue(p, "up")
    /\ UnchangedBySave
    /\ UNCHANGED <<conf, fw, text>>

IfaceUp(p) ==
    /\ pc[p] = "up"
    /\ ~kern.up
    /\ kern' = Load(conf)
    /\ Continue(p, IF p = Main THEN "resync" ELSE AfterIface)
    /\ UnchangedBySave
    /\ UNCHANGED <<conf, fw, text>>

(* Fault: a failing `up' is dropped and the caller goes on.                *)
IfaceUpFailsUnnoticed(p) ==
    /\ pc[p] = "up"
    /\ Continue(p, AfterIface)
    /\ UnchangedBySave
    /\ UNCHANGED <<conf, kern, fw, text>>

(* awg-quick up fails, also because another restart brought it up already. *)
IfaceUpFails(p) ==
    /\ pc[p] = "up"
    /\ Return(p)
    /\ UnchangedBySave
    /\ UNCHANGED <<conf, kern, fw>>

(* startup's own cb_sync after bring-up; its failure ends startup, which   *)
(* main.rs logs and goes on from.                                          *)
BootSync ==
    /\ pc[Main] = "refeed"
    /\ kern.up
    /\ kern' = Load(text[Main])
    /\ Continue(Main, AfterIface)
    /\ UnchangedBySave
    /\ UNCHANGED <<conf, fw, text>>

BootSyncFails ==
    /\ pc[Main] \in {"resync", "refeed"}
    /\ Return(Main)
    /\ UnchangedBySave
    /\ UNCHANGED <<conf, kern, fw>>

-----------------------------------------------------------------------------
(* firewall::rebuild_rules: one read of the rows, one nft transaction.     *)

FwRead(p) ==
    /\ pc[p] = "fwread"
    /\ text' = [text EXCEPT ![p] = Render]
    /\ Continue(p, "fwapply")
    /\ UnchangedBySave
    /\ UNCHANGED <<conf, kern, fw>>

FwApply(p) ==
    /\ pc[p] = "fwapply"
    /\ fw' = text[p]
    /\ Continue(p, "reply")
    /\ UnchangedBySave
    /\ UNCHANGED <<conf, kern, text>>

(* Its failure is ignored (.ok()): the caller reports success over a stale *)
(* chain.                                                                  *)
FwFails(p) ==
    /\ pc[p] \in {"fwread", "fwapply"}
    /\ Continue(p, "stale")
    /\ UnchangedBySave
    /\ UNCHANGED <<conf, kern, fw, text>>

Reply(p) ==
    /\ pc[p] \in {"reply", "stale"}
    /\ Return(p)
    /\ UnchangedBySave
    /\ UNCHANGED <<conf, kern, fw>>

-----------------------------------------------------------------------------
(* A row's expires_at passes.                                              *)
ClockPasses ==
    /\ \E i \in DOMAIN rows :
          /\ rows[i].expiry = "future"
          /\ rows' = [rows EXCEPT ![i].expiry = "past"]
    /\ UNCHANGED <<nextId, conf, kern, fw, pc, op, text, expired, booted,
                   requests, crashes, ver, hist, wrote, overlap>>

(* The process dies and starts again: the table, the file, the interface   *)
(* and the chain survive it, the requests do not.                          *)
Crash ==
    /\ crashes < MaxCrashes
    /\ crashes' = crashes + 1
    /\ booted' = FALSE
    /\ pc' = [p \in Procs |-> IF p = Main THEN "read" ELSE "idle"]
    /\ expired' = {}
    /\ wrote' = [p \in Procs |-> 0]
    /\ overlap' = [p \in Procs |-> FALSE]
    /\ op' = [p \in Procs |-> IF p = Main THEN [name |-> "boot", id |-> 0]
                                          ELSE NoOp]
    /\ text' = [p \in Procs |-> NoText]
    /\ UNCHANGED <<rows, nextId, conf, kern, fw, requests, ver, hist>>

-----------------------------------------------------------------------------
HandlerWrite(p) ==
    \/ CreateClient(p) \/ RotateClientKey(p) \/ UpdateClient(p)
    \/ EnableClient(p) \/ DisableClient(p) \/ DeleteClient(p)
    \/ WriteFindsNoRow(p)

SaveStep(p) ==
    \/ ReadRows(p) \/ TruncateConf(p) \/ WriteConf(p) \/ StripConf(p)
    \/ SyncConf(p) \/ SaveFails(p)

IfaceStep(p) == IfaceDown(p) \/ IfaceUp(p) \/ IfaceUpFails(p)

FwStep(p) == FwRead(p) \/ FwApply(p) \/ FwFails(p) \/ Reply(p)

Step(p) == SaveStep(p) \/ IfaceStep(p) \/ FwStep(p)

CronStep == CronScan \/ CronDisable \/ CronSave \/ Step(Cron)

BootStep == BootSync \/ BootSyncFails \/ Step(Main)

Next ==
    \/ \E p \in Handlers : AcceptCreate(p) \/ AcceptChange(p) \/ AcceptRestart(p)
    \/ \E p \in Handlers : HandlerWrite(p) \/ Step(p)
    \/ CronStep
    \/ BootStep
    \/ ClockPasses
    \/ Crash

Spec == Init /\ [][Next]_vars

(* The runtime keeps polling every task it has started, and the cron loop  *)
(* sleeps 60 s and runs again for as long as the process lives.            *)
FairSpec ==
    /\ Spec
    /\ WF_vars(CronStep)
    /\ WF_vars(BootStep)
    /\ \A p \in Handlers : WF_vars(HandlerWrite(p) \/ Step(p))

-----------------------------------------------------------------------------
Text == [ver : Nat, peers : SUBSET (Nat \X Nat)]

(* Type invariant of the tables, the file, the interface and the control   *)
(* state of every process.                                                 *)
TypeOK ==
    /\ nextId \in Nat \ {0}
    /\ DOMAIN rows \subseteq 1..(nextId - 1)
    /\ rows \in [DOMAIN rows -> Row]
    /\ conf \in Text
    /\ kern \in [up : BOOLEAN, ver : Nat, peers : SUBSET (Nat \X Nat)]
    /\ fw \in Text
    /\ pc \in [Procs -> Labels]
    /\ op \in [Procs -> [name : Ops, id : Nat]]
    /\ text \in [Procs -> Text]
    /\ expired \subseteq Nat
    /\ booted \in BOOLEAN
    /\ requests \in Nat
    /\ crashes \in Nat
    /\ ver \in Nat
    /\ hist \in [0..ver -> SUBSET (Nat \X Nat)]
    /\ wrote \in [Procs -> Nat]
    /\ overlap \in [Procs -> BOOLEAN]

(* Whatever the interleaving of saves, restarts and crashes, the running   *)
(* interface accepts the peers of one committed state of clients_table,    *)
(* or none: the file two saves share is never a mixture of two states      *)
(* (save_config, awg-quick strip, awg syncconf).                           *)
KernelIsACommittedState ==
    kern.peers \in {{}, hist[kern.ver]}

(* A handler that reports success has put its own commit into the kernel,  *)
(* and into the chain if the rebuild worked, or a later one, and nothing   *)
(* has undone it since, provided no other process held an older rendering  *)
(* when it committed.  This is what delete, disable and rotate promise;    *)
(* the proviso is what save_config has no lock to ensure.                  *)
UnoverlappedChangeTakesEffect ==
    \A p \in Handlers : ~overlap[p] =>
        /\ pc[p] \in {"reply", "stale"} => kern.ver >= wrote[p]
        /\ pc[p] = "reply" /\ FirewallEnabled => fw.ver >= wrote[p]

(* Startup ends with an interface that runs exactly the rows of the table, *)
(* whatever a crash left in the file and in the kernel, unless writing the *)
(* file failed (startup ignores that).                                     *)
BootRegenerates ==
    pc[Main] \in {"reply", "stale"} /\ conf = Render => kern.up /\ kern.peers = Peers(rows)

(* An expired, enabled row is eventually retired: disabled, deleted or     *)
(* given a new expiry, for as long as the cron task runs (cron_job).       *)
ExpiredRowIsRetired ==
    \A i \in 1..(InitClients + MaxRequests) :
        (i \in DOMAIN rows /\ rows[i].enabled /\ rows[i].expiry = "past")
            ~> ~(i \in DOMAIN rows /\ rows[i].enabled /\ rows[i].expiry = "past")

(* What the comment on rotate_client_key says (api/clients.rs:441, "the    *)
(* old public key stops being accepted the moment the interface reloads"): *)
(* when a rotation reports success, the key it replaced is not accepted.   *)
RotatedKeyRefused ==
    \A p \in Handlers :
        pc[p] \in {"reply", "stale"} /\ op[p].name = "rotate" =>
            kern.peers \cap (hist[wrote[p] - 1] \ hist[wrote[p]]) = {}

-----------------------------------------------------------------------------
(* The strengthening that makes the two save properties inductive; the     *)
(* proofs are in PeerSyncProofs.                                           *)

(* Nothing is newer than the table, and every text is a committed state or *)
(* an emptied file.                                                        *)
IsCommitted(c) == c.ver <= ver /\ c.peers \in {{}, hist[c.ver]}

ContentInv ==
    /\ hist[ver] = Peers(rows)
    /\ IsCommitted(conf) /\ IsCommitted(kern)
    /\ \A p \in Procs : IsCommitted(text[p]) /\ wrote[p] <= ver

(* The server takes requests exactly when startup is over.                 *)
ControlInv ==
    /\ booted <=> pc[Main] = "idle"
    /\ ~booted => pc[Cron] = "idle" /\ \A p \in Handlers : pc[p] = "idle"
    /\ pc[Cron] \in {"idle", "expire", "read", "open", "fill", "strip", "sync"}
    /\ \A p \in Handlers : pc[p] \notin {"resync", "refeed", "expire"}
    /\ \A p \in Handlers : pc[p] \in {"idle", "write", "down", "up"} => wrote[p] = 0

(* After an unoverlapped commit of p nobody can put an older state back.   *)
FreshAfter(p) ==
    /\ \A q \in Procs : pc[q] \in Holding => text[q].ver >= wrote[p]
    /\ (\E q \in Procs : pc[q] \in {"fill", "strip", "sync"}) => conf.ver >= wrote[p]
    /\ pc[p] \in {"fwread", "fwapply", "reply", "stale"} => conf.ver >= wrote[p] /\ kern.ver >= wrote[p]
    /\ pc[p] = "reply" /\ FirewallEnabled => fw.ver >= wrote[p]

FreshInv == \A p \in Handlers : ~overlap[p] => FreshAfter(p)
=============================================================================
