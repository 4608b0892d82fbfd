--------------------------- MODULE PeerSyncProofs ---------------------------
(* Machine-checked proofs about PeerSync, for any number of handlers,      *)
(* clients, requests and crashes.                                          *)
EXTENDS PeerSync, TLAPS

USE PeerSyncConstants

(* The peers rendered from a well-typed table are pairs of naturals.       *)
LEMMA PeersType ==
    ASSUME NEW n \in Nat, NEW r, DOMAIN r \subseteq 1..n, r \in [DOMAIN r -> Row]
    PROVE  Peers(r) \in SUBSET (Nat \X Nat)
  BY DEF Peers, Row

(* Init establishes the types. *)
LEMMA InitTypeOK == Init => TypeOK
  <1> SUFFICES ASSUME Init PROVE TypeOK
    OBVIOUS
  <1> USE DEF Init
  <1>1. PICK e \in Expiries :
           rows = [i \in 1..InitClients |-> [gen |-> 1, enabled |-> TRUE, expiry |-> e]]
    OBVIOUS
  <1>2. DOMAIN rows = 1..InitClients /\ rows \in [1..InitClients -> Row]
    BY <1>1 DEF Row, Expiry
  <1>3. Peers(rows) \in SUBSET (Nat \X Nat)
    BY <1>2, PeersType
  <1>4. DOMAIN rows \subseteq 1..(nextId - 1) /\ rows \in [DOMAIN rows -> Row] /\ nextId \in Nat \ {0}
    <2>1. nextId = InitClients + 1 /\ InitClients \in Nat
      BY DEF PeerSyncConstants
    <2>2. nextId - 1 = InitClients /\ nextId \in Nat \ {0}
      BY <2>1
    <2> QED
      BY <1>2, <2>2
  <1>5. hist \in [0..ver -> SUBSET (Nat \X Nat)] /\ ver \in Nat
    BY <1>3
  <1>6. op \in [Procs -> [name : Ops, id : Nat]] /\ pc \in [Procs -> Labels]
    BY DEF NoOp, Ops, Labels
  <1> QED
    BY <1>4, <1>5, <1>6 DEF TypeOK, Text, NoText

(* What a commit leaves, for any well-typed new table. *)
LEMMA CommitType ==
    ASSUME TypeOK, NEW p \in Procs, NEW n \in Nat, NEW r,
           DOMAIN r \subseteq 1..(n - 1), r \in [DOMAIN r -> Row], Commit(p, r)
    PROVE  /\ rows' = r
           /\ ver' \in Nat
           /\ hist' \in [0..ver' -> SUBSET (Nat \X Nat)]
           /\ wrote' \in [Procs -> Nat]
           /\ overlap' \in [Procs -> BOOLEAN]
  <1>1. Peers(r) \in SUBSET (Nat \X Nat)
    BY DEF Peers, Row
  <1>2. ver \in Nat /\ ver' = ver + 1 /\ hist \in [0..ver -> SUBSET (Nat \X Nat)]
    BY DEF TypeOK, Commit
  <1>3. hist' \in [0..ver' -> SUBSET (Nat \X Nat)]
    BY <1>1, <1>2 DEF Commit
  <1>4. wrote' \in [Procs -> Nat]
    BY <1>2 DEF TypeOK, Commit
  <1>5. (\E q \in Procs : pc[q] \in Holding) \in BOOLEAN
    OBVIOUS
  <1>6. overlap' \in [Procs -> BOOLEAN]
    BY <1>5 DEF TypeOK, Commit
  <1> QED
    BY <1>2, <1>3, <1>4, <1>6 DEF Commit

(* A handler that returns leaves a well-typed control state.               *)
LEMMA ReturnType ==
    ASSUME TypeOK, NEW p \in Procs, Return(p)
    PROVE  /\ pc' \in [Procs -> Labels]
           /\ op' \in [Procs -> [name : Ops, id : Nat]]
           /\ text' \in [Procs -> Text]
           /\ wrote' \in [Procs -> Nat]
           /\ overlap' \in [Procs -> BOOLEAN]
           /\ booted' \in BOOLEAN
  BY DEF TypeOK, Return, Goto, NoOp, NoText, Labels, Ops, Text

(* Changing one column of a row leaves a row. *)
LEMMA RowUpdate ==
    ASSUME NEW x \in Row
    PROVE  /\ \A g \in Nat \ {0} : [x EXCEPT !.gen = g] \in Row
           /\ \A e \in Expiry : [x EXCEPT !.expiry = e] \in Row
           /\ \A b \in BOOLEAN : [x EXCEPT !.enabled = b] \in Row
           /\ x.gen + 1 \in Nat \ {0}
  BY DEF Row

(* toggle_client keeps the types and the ids of the table.                 *)
LEMMA ToggledType ==
    ASSUME TypeOK, NEW id \in Nat, NEW b \in BOOLEAN
    PROVE  /\ DOMAIN Toggled(rows, id, b) \subseteq 1..(nextId - 1)
           /\ Toggled(rows, id, b) \in [DOMAIN Toggled(rows, id, b) -> Row]
  BY ZenonT(40) DEF TypeOK, Toggled, Row

(* What render_server_config produces is a text.                           *)
LEMMA RenderType == TypeOK => Render \in Text
  BY DEF TypeOK, Render, Text, Peers, Row

(* Accepting a request keeps the types.                                    *)
LEMMA AcceptTypeOK ==
    ASSUME TypeOK, NEW p \in Handlers,
           NEW name \in Ops, NEW id \in Nat, NEW l \in Labels, Accept(p, name, id, l)
    PROVE  TypeOK'
  <1>1. [name |-> name, id |-> id] \in [name : Ops, id : Nat]
    OBVIOUS
  <1>2. op' \in [Procs -> [name : Ops, id : Nat]]
    BY <1>1 DEF TypeOK, Accept
  <1>3. pc' \in [Procs -> Labels]
    BY DEF TypeOK, Accept, Goto
  <1>4. requests' \in Nat
    BY DEF TypeOK, Accept
  <1> QED
    BY <1>2, <1>3, <1>4 DEF TypeOK, Accept

(* Each write of a handler of api/clients.rs keeps the types.              *)
LEMMA HandlerWriteTypeOK ==
    ASSUME TypeOK, NEW p \in Handlers, HandlerWrite(p)
    PROVE  TypeOK'
  <1> p \in Procs
    BY DEF Procs
  <1>0. "read" \in Labels /\ pc \in [Procs -> Labels]
    BY DEF Labels, TypeOK
  <1>i. op[p].id \in Nat
    BY DEF TypeOK
  <1>1. CASE CreateClient(p)
    <2>1. PICK e \in Expiries :
             Commit(p, [i \in DOMAIN rows \cup {nextId} |->
                        IF i = nextId
                        THEN [gen |-> 1, enabled |-> TRUE, expiry |-> e]
                        ELSE rows[i]])
      BY <1>1 DEF CreateClient
    <2> DEFINE r == [i \in DOMAIN rows \cup {nextId} |->
                        IF i = nextId
                        THEN [gen |-> 1, enabled |-> TRUE, expiry |-> e]
                        ELSE rows[i]]
    <2>2. [gen |-> 1, enabled |-> TRUE, expiry |-> e] \in Row
      BY DEF Row, Expiry, PeerSyncConstants
    <2>3. r \in [DOMAIN r -> Row]
      BY <2>2 DEF TypeOK
    <2>4. nextId + 1 \in Nat \ {0} /\ nextId \in Nat \ {0} /\ DOMAIN r = DOMAIN rows \cup {nextId}
      BY <1>1 DEF TypeOK, CreateClient
    <2>5. DOMAIN r \subseteq 1..((nextId + 1) - 1)
      BY <2>4 DEF TypeOK
    <2> HIDE DEF r
    <2> QED
      BY <2>1, <2>3, <2>4, <2>5, <1>0, <1>1, CommitType
         DEF CreateClient, AtWrite, ToSave, Goto, TypeOK, r
  <1>2. CASE RotateClientKey(p)
    <2> DEFINE r == [rows EXCEPT ![op[p].id].gen = @ + 1]
    <2>1. r \in [DOMAIN r -> Row] /\ DOMAIN r \subseteq 1..(nextId - 1)
      <3>1. op[p].id \in DOMAIN rows
        BY <1>2 DEF RotateClientKey
      <3>2. rows[op[p].id] \in Row
        BY <3>1 DEF TypeOK
      <3>3. [rows[op[p].id] EXCEPT !.gen = @ + 1] \in Row
        BY <3>2, RowUpdate
      <3> QED
        BY <3>3 DEF TypeOK
    <2>2. Commit(p, r)
      BY <1>2 DEF RotateClientKey
    <2> HIDE DEF r
    <2> QED
      BY <2>1, <2>2, <1>0, <1>2, CommitType
         DEF RotateClientKey, AtWrite, ToSave, Goto, TypeOK
  <1>3. CASE UpdateClient(p)
    <2>1. PICK e \in Expiries, b \in BOOLEAN :
            Commit(p, [i \in DOMAIN rows |->
                        IF i = op[p].id
                        THEN [rows[i] EXCEPT !.expiry = e, !.enabled = b]
                        ELSE rows[i]])
      BY <1>3 DEF UpdateClient
    <2> DEFINE r == [i \in DOMAIN rows |->
                        IF i = op[p].id
                        THEN [rows[i] EXCEPT !.expiry = e, !.enabled = b]
                        ELSE rows[i]]
    <2>2. e \in Expiry
      BY DEF Expiry, PeerSyncConstants
    <2>3. \A i \in DOMAIN rows : [rows[i] EXCEPT !.expiry = e, !.enabled = b] \in Row
      <3> SUFFICES ASSUME NEW i \in DOMAIN rows
                   PROVE  [rows[i] EXCEPT !.expiry = e, !.enabled = b] \in Row
        OBVIOUS
      <3>1. rows[i] \in Row
        BY DEF TypeOK
      <3>2. [rows[i] EXCEPT !.expiry = e] \in Row
        BY <2>2, <3>1, RowUpdate
      <3>3. [[rows[i] EXCEPT !.expiry = e] EXCEPT !.enabled = b] \in Row
        BY <3>2, RowUpdate
      <3> QED
        BY <3>3
    <2>4. r \in [DOMAIN r -> Row] /\ DOMAIN r \subseteq 1..(nextId - 1)
      BY <2>3 DEF TypeOK
    <2>5. Commit(p, r)
      BY <2>1
    <2> HIDE DEF r
    <2> QED
      BY <2>4, <2>5, <1>0, <1>3, CommitType
         DEF UpdateClient, AtWrite, ToSave, Goto, TypeOK
  <1>4. CASE EnableClient(p)
    <2> DEFINE r == Toggled(rows, op[p].id, TRUE)
    <2>1. r \in [DOMAIN r -> Row] /\ DOMAIN r \subseteq 1..(nextId - 1)
      BY <1>i, ToggledType
    <2>2. Commit(p, r)
      BY <1>4 DEF EnableClient
    <2> HIDE DEF r
    <2> QED
      BY <2>1, <2>2, <1>0, <1>4, CommitType
         DEF EnableClient, AtWrite, ToSave, Goto, TypeOK
  <1>5. CASE DisableClient(p)
    <2> DEFINE r == Toggled(rows, op[p].id, FALSE)
    <2>1. r \in [DOMAIN r -> Row] /\ DOMAIN r \subseteq 1..(nextId - 1)
      BY <1>i, ToggledType
    <2>2. Commit(p, r)
      BY <1>5 DEF DisableClient
    <2> HIDE DEF r
    <2> QED
      BY <2>1, <2>2, <1>0, <1>5, CommitType
         DEF DisableClient, AtWrite, ToSave, Goto, TypeOK
  <1>6. CASE DeleteClient(p)
    <2> DEFINE r == [i \in DOMAIN rows \ {op[p].id} |-> rows[i]]
    <2>1. r \in [DOMAIN r -> Row] /\ DOMAIN r \subseteq 1..(nextId - 1)
      BY DEF TypeOK
    <2>2. Commit(p, r)
      BY <1>6 DEF DeleteClient
    <2> HIDE DEF r
    <2> QED
      BY <2>1, <2>2, <1>0, <1>6, CommitType
         DEF DeleteClient, AtWrite, ToSave, Goto, TypeOK
  <1>7. CASE WriteFindsNoRow(p)
    BY <1>7, ReturnType DEF WriteFindsNoRow, AtWrite, TypeOK
  <1> QED
    BY <1>1, <1>2, <1>3, <1>4, <1>5, <1>6, <1>7 DEF HandlerWrite

(* The scan and the disabling of cron_job keep the types.                  *)
LEMMA CronTypeOK ==
    ASSUME TypeOK, CronScan \/ CronDisable \/ CronSave
    PROVE  TypeOK'
  <1>0. Cron \in Procs /\ "expire" \in Labels /\ "read" \in Labels /\ "cron" \in Ops
    BY DEF Procs, Labels, Ops
  <1>1. CASE CronScan
    <2>1. expired' \subseteq DOMAIN rows
      BY <1>1 DEF CronScan
    <2>2. expired' \subseteq Nat
      BY <2>1 DEF TypeOK
    <2>3. [name |-> "cron", id |-> 0] \in [name : Ops, id : Nat]
      BY <1>0
    <2>4. op' \in [Procs -> [name : Ops, id : Nat]] /\ pc' \in [Procs -> Labels]
      BY <1>0, <1>1, <2>3 DEF TypeOK, CronScan, Goto
    <2> QED
      BY <1>1, <2>2, <2>4 DEF TypeOK, CronScan
  <1>2. CASE CronDisable
    <2>1. PICK id \in expired : Commit(Cron, Toggled(rows, id, FALSE)) /\ expired' = expired \ {id}
      BY <1>2 DEF CronDisable
    <2>2. id \in Nat /\ expired' \subseteq Nat
      BY <2>1 DEF TypeOK
    <2> DEFINE r == Toggled(rows, id, FALSE)
    <2>3. r \in [DOMAIN r -> Row] /\ DOMAIN r \subseteq 1..(nextId - 1)
      BY <2>2, ToggledType
    <2>4. Commit(Cron, r)
      BY <2>1
    <2> HIDE DEF r
    <2> QED
      BY <1>0, <1>2, <2>2, <2>3, <2>4, CommitType DEF CronDisable, TypeOK
  <1>3. CASE CronSave
    BY <1>0, <1>3 DEF CronSave, Goto, TypeOK
  <1> QED
    BY <1>1, <1>2, <1>3

(* Saving, bringing up and the firewall keep the types.                    *)
LEMMA StepTypeOK ==
    ASSUME TypeOK, NEW p \in Procs, Step(p) \/ BootSync \/ BootSyncFails
    PROVE  TypeOK'
  <1> USE DEF UnchangedBySave
  <1>0. Main \in Procs /\ {"open", "fill", "strip", "sync", "down", "up", "resync",
                           "refeed", "fwread", "fwapply", "reply", "stale"} \subseteq Labels
    BY DEF Procs, Labels
  <1>a. AfterIface \in Labels
    BY <1>0 DEF AfterIface
  <1>b. ASSUME NEW q \in Procs, NEW l \in Labels, Continue(q, l)
        PROVE  /\ pc' \in [Procs -> Labels]
               /\ UNCHANGED <<op, wrote, overlap, booted>>
    BY <1>b DEF TypeOK, Continue, Goto
  <1>c. conf \in Text /\ \A q \in Procs : text[q] \in Text
    BY DEF TypeOK
  <1>d. \A c \in Text : Load(c) \in [up : BOOLEAN, ver : Nat, peers : SUBSET (Nat \X Nat)]
    BY DEF Load, Text
  <1>1. CASE ReadRows(p)
    BY <1>0, <1>1, <1>b, RenderType DEF ReadRows, TypeOK
  <1>2. CASE TruncateConf(p)
    <2>1. conf' \in Text
      BY <1>2, <1>c DEF TruncateConf, Text
    <2> QED
      BY <1>0, <1>2, <1>b, <2>1 DEF TruncateConf, TypeOK
  <1>3. CASE WriteConf(p)
    BY <1>0, <1>3, <1>b, <1>c DEF WriteConf, TypeOK
  <1>4. CASE StripConf(p)
    BY <1>0, <1>4, <1>b, <1>c DEF StripConf, TypeOK
  <1>5. CASE SyncConf(p)
    BY <1>0, <1>5, <1>a, <1>b, <1>c, <1>d, ReturnType DEF SyncConf, TypeOK
  <1>6. CASE SaveFails(p)
    BY <1>0, <1>6, <1>b, ReturnType DEF SaveFails, TypeOK
  <1>7. CASE IfaceDown(p)
    BY <1>0, <1>7, <1>b DEF IfaceDown, TypeOK
  <1>8. CASE IfaceUp(p)
    BY <1>0, <1>8, <1>a, <1>b, <1>c, <1>d DEF IfaceUp, TypeOK
  <1>9. CASE IfaceUpFails(p)
    BY <1>9, ReturnType DEF IfaceUpFails, TypeOK
  <1>10. CASE BootSync
    BY <1>0, <1>10, <1>a, <1>b, <1>c, <1>d DEF BootSync, TypeOK
  <1>11. CASE BootSyncFails
    BY <1>0, <1>11, ReturnType DEF BootSyncFails, TypeOK
  <1>12. CASE FwRead(p)
    BY <1>0, <1>12, <1>b, RenderType DEF FwRead, TypeOK
  <1>13. CASE FwApply(p)
    BY <1>0, <1>13, <1>b, <1>c DEF FwApply, TypeOK
  <1>14. CASE FwFails(p)
    BY <1>0, <1>14, <1>b DEF FwFails, TypeOK
  <1>15. CASE Reply(p)
    BY <1>15, ReturnType DEF Reply, TypeOK
  <1> QED
    BY <1>1, <1>2, <1>3, <1>4, <1>5, <1>6, <1>7, <1>8, <1>9, <1>10, <1>11, <1>12,
       <1>13, <1>14, <1>15 DEF Step, SaveStep, IfaceStep, FwStep

(* The clock and a crash keep the types.                                   *)
LEMMA OtherTypeOK ==
    ASSUME TypeOK, ClockPasses \/ Crash
    PROVE  TypeOK'
  <1>1. CASE ClockPasses
    <2>1. PICK i \in DOMAIN rows : rows' = [rows EXCEPT ![i].expiry = "past"]
      BY <1>1 DEF ClockPasses
    <2>2. rows[i] \in Row /\ "past" \in Expiry
      BY DEF TypeOK, Expiry
    <2>3. [rows[i] EXCEPT !.expiry = "past"] \in Row
      BY <2>2, RowUpdate
    <2>4. DOMAIN rows' = DOMAIN rows /\ rows' \in [DOMAIN rows' -> Row]
      BY <2>1, <2>3 DEF TypeOK
    <2> QED
      BY <1>1, <2>4 DEF ClockPasses, TypeOK
  <1>2. CASE Crash
    <2>1. pc' \in [Procs -> Labels] /\ op' \in [Procs -> [name : Ops, id : Nat]]
      BY <1>2 DEF Crash, Labels, Ops, NoOp
    <2>2. text' \in [Procs -> Text] /\ wrote' \in [Procs -> Nat] /\ overlap' \in [Procs -> BOOLEAN]
      BY <1>2 DEF Crash, NoText, Text
    <2>3. crashes' \in Nat /\ booted' \in BOOLEAN /\ expired' \subseteq Nat
      <3>1. crashes' = crashes + 1 /\ booted' = FALSE /\ expired' = {}
        BY <1>2 DEF Crash
      <3>2. crashes \in Nat
        BY DEF TypeOK
      <3>3. crashes' \in Nat
        BY <3>1, <3>2
      <3>4. booted' \in BOOLEAN
        BY <3>1
      <3>5. expired' \subseteq Nat
        BY <3>1
      <3> QED
        BY <3>3, <3>4, <3>5
    <2> QED
      BY <1>2, <2>1, <2>2, <2>3 DEF Crash, TypeOK
  <1> QED
    BY <1>1, <1>2

(* Every step keeps the types.                                             *)
LEMMA NextTypeOK == TypeOK /\ [Next]_vars => TypeOK'
  <1> SUFFICES ASSUME TypeOK, [Next]_vars PROVE TypeOK'
    OBVIOUS
  <1>1. ASSUME NEW p \in Handlers, AcceptCreate(p) \/ AcceptChange(p) \/ AcceptRestart(p)
        PROVE  TypeOK'
    <2>1. {"create", "rotate", "update", "delete", "enable", "disable", "restart"} \subseteq Ops
          /\ {"write", "down"} \subseteq Labels /\ DOMAIN rows \subseteq Nat
      BY DEF Ops, Labels, TypeOK
    <2> QED
      BY <1>1, <2>1, AcceptTypeOK DEF AcceptCreate, AcceptChange, AcceptRestart
  <1>2. CASE UNCHANGED vars
    BY <1>2 DEF vars, TypeOK
  <1>3. Cron \in Procs /\ Main \in Procs /\ Handlers \subseteq Procs
    BY DEF Procs
  <1> QED
    BY <1>1, <1>2, <1>3, HandlerWriteTypeOK, CronTypeOK, StepTypeOK, OtherTypeOK
       DEF Next, CronStep, BootStep

(* Every reachable state of the tables, the file, the interface and the    *)
(* request handlers is well typed: wg::save_config and its callers.        *)
THEOREM TypeCorrect == Spec => []TypeOK
  BY InitTypeOK, NextTypeOK, PTL DEF Spec

-----------------------------------------------------------------------------
(* Every text is a committed state of the table.                           *)

(* A commit makes the new table the newest committed state.                *)
LEMMA CommitContent ==
    ASSUME TypeOK, ContentInv, NEW p \in Procs, NEW r, Commit(p, r),
           UNCHANGED <<conf, kern, text>>
    PROVE  ContentInv'
  <1>1. ver \in Nat /\ ver' = ver + 1 /\ rows' = r
    BY DEF TypeOK, Commit
  <1>2. hist'[ver'] = Peers(rows')
    BY <1>1 DEF Commit
  <1>3. \A v \in 0..ver : hist'[v] = hist[v]
    BY <1>1 DEF Commit
  <1>4. ASSUME NEW c, c.ver \in Nat, IsCommitted(c)
        PROVE  c.ver <= ver' /\ c.peers \in {{}, hist'[c.ver]}
    BY <1>1, <1>3, <1>4 DEF IsCommitted
  <1>5. conf.ver \in Nat /\ kern.ver \in Nat /\ \A q \in Procs : text[q].ver \in Nat
    BY DEF TypeOK, Text
  <1>6. IsCommitted(conf)' /\ IsCommitted(kern)'
    BY <1>4, <1>5 DEF ContentInv, IsCommitted
  <1>7. \A q \in Procs : IsCommitted(text[q])'
    BY <1>4, <1>5 DEF ContentInv, IsCommitted
  <1>8. \A q \in Procs : wrote'[q] <= ver'
    BY <1>1, SMTT(30) DEF ContentInv, Commit, TypeOK
  <1> QED
    BY <1>2, <1>6, <1>7, <1>8 DEF ContentInv

(* A step that leaves the table alone and moves only committed texts.      *)
LEMMA MoveContent ==
    ASSUME TypeOK, ContentInv, UNCHANGED <<rows, ver, hist>>,
           IsCommitted(conf'), IsCommitted(kern'),
           \A q \in Procs : IsCommitted(text'[q]) /\ wrote'[q] <= ver
    PROVE  ContentInv'
  BY DEF ContentInv, IsCommitted

(* A return forgets the text, which stays a committed one.                 *)
LEMMA ReturnContent ==
    ASSUME TypeOK, ContentInv, NEW p \in Procs, Return(p)
    PROVE  \A q \in Procs : IsCommitted(text'[q]) /\ wrote'[q] <= ver
  <1>1. IsCommitted(NoText) /\ 0 <= ver
    BY DEF IsCommitted, NoText, TypeOK
  <1> QED
    BY <1>1 DEF Return, ContentInv, TypeOK

(* What is rendered is the newest committed state.                         *)
LEMMA RenderCommitted == TypeOK /\ ContentInv => IsCommitted(Render)
  BY DEF TypeOK, ContentInv, IsCommitted, Render

(* Saving, bringing up and the firewall move committed texts only.         *)
LEMMA StepContent ==
    ASSUME TypeOK, ContentInv, NEW p \in Procs, Step(p) \/ BootSync \/ BootSyncFails
    PROVE  ContentInv'
  <1> USE DEF UnchangedBySave, Continue
  <1>0. /\ Main \in Procs
        /\ IsCommitted(conf) /\ IsCommitted(kern) /\ IsCommitted(Render)
        /\ \A q \in Procs : IsCommitted(text[q]) /\ wrote[q] <= ver
    BY RenderCommitted DEF Procs, ContentInv
  <1>a. \A c : IsCommitted(c) => IsCommitted(Load(c))
    BY DEF IsCommitted, Load
  <1>1. CASE ReadRows(p)
    BY <1>0, <1>1, MoveContent DEF ReadRows, TypeOK
  <1>2. CASE TruncateConf(p)
    <2>1. IsCommitted(conf')
      BY <1>0, <1>2 DEF TruncateConf, IsCommitted
    <2> QED
      BY <1>0, <1>2, <2>1, MoveContent DEF TruncateConf
  <1>3. CASE WriteConf(p)
    BY <1>0, <1>3, MoveContent DEF WriteConf
  <1>4. CASE StripConf(p)
    BY <1>0, <1>4, MoveContent DEF StripConf, TypeOK
  <1>5. CASE SyncConf(p)
    BY <1>0, <1>5, <1>a, ReturnContent, MoveContent DEF SyncConf
  <1>6. CASE SaveFails(p)
    BY <1>0, <1>6, ReturnContent, MoveContent DEF SaveFails
  <1>7. CASE IfaceDown(p)
    <2>1. IsCommitted(kern')
      BY <1>0, <1>7 DEF IfaceDown, IsCommitted, TypeOK
    <2> QED
      BY <1>0, <1>7, <2>1, MoveContent DEF IfaceDown
  <1>8. CASE IfaceUp(p)
    BY <1>0, <1>8, <1>a, MoveContent DEF IfaceUp
  <1>9. CASE IfaceUpFails(p)
    BY <1>0, <1>9, ReturnContent, MoveContent DEF IfaceUpFails
  <1>10. CASE BootSync
    BY <1>0, <1>10, <1>a, MoveContent DEF BootSync
  <1>11. CASE BootSyncFails
    BY <1>0, <1>11, ReturnContent, MoveContent DEF BootSyncFails
  <1>12. CASE FwRead(p)
    BY <1>0, <1>12, MoveContent DEF FwRead, TypeOK
  <1>13. CASE FwApply(p)
    BY <1>0, <1>13, MoveContent DEF FwApply
  <1>14. CASE FwFails(p)
    BY <1>0, <1>14, MoveContent DEF FwFails
  <1>15. CASE Reply(p)
    BY <1>0, <1>15, ReturnContent, MoveContent DEF Reply
  <1> QED
    BY <1>1, <1>2, <1>3, <1>4, <1>5, <1>6, <1>7, <1>8, <1>9, <1>10, <1>11, <1>12,
       <1>13, <1>14, <1>15 DEF Step, SaveStep, IfaceStep, FwStep

(* Each write of a handler keeps the content invariant.                    *)
LEMMA WriteContent ==
    ASSUME TypeOK, ContentInv, NEW p \in Handlers, HandlerWrite(p)
    PROVE  ContentInv'
  <1> p \in Procs
    BY DEF Procs
  <1>1. CASE WriteFindsNoRow(p)
    BY <1>1, ReturnContent, MoveContent DEF WriteFindsNoRow, AtWrite, ContentInv
  <1>2. CASE \E r : Commit(p, r) /\ UNCHANGED <<conf, kern, text>>
    BY <1>2, CommitContent
  <1>3. CASE CreateClient(p) \/ UpdateClient(p)
    BY <1>2, <1>3 DEF CreateClient, UpdateClient, AtWrite, ToSave
  <1>4. CASE RotateClientKey(p) \/ EnableClient(p) \/ DisableClient(p) \/ DeleteClient(p)
    BY <1>2, <1>4 DEF RotateClientKey, EnableClient, DisableClient, DeleteClient, AtWrite, ToSave
  <1> QED
    BY <1>1, <1>3, <1>4 DEF HandlerWrite

(* Every step keeps the content invariant.                                 *)
LEMMA NextContent == TypeOK /\ ContentInv /\ [Next]_vars => ContentInv'
  <1> SUFFICES ASSUME TypeOK, ContentInv, [Next]_vars PROVE ContentInv'
    OBVIOUS
  <1>0. Cron \in Procs /\ Main \in Procs /\ Handlers \subseteq Procs
    BY DEF Procs
  <1>1. ASSUME NEW p \in Handlers, AcceptCreate(p) \/ AcceptChange(p) \/ AcceptRestart(p)
        PROVE  ContentInv'
    BY <1>1, MoveContent DEF AcceptCreate, AcceptChange, AcceptRestart, Accept, ContentInv
  <1>2. CASE UNCHANGED vars
    BY <1>2, MoveContent DEF vars, ContentInv
  <1>3. CASE CronScan \/ CronSave
    BY <1>3, MoveContent DEF CronScan, CronSave, ContentInv
  <1>4. CASE CronDisable
    BY <1>0, <1>4, CommitContent DEF CronDisable
  <1>5. CASE ClockPasses
    <2>1. PICK i \in DOMAIN rows : rows' = [rows EXCEPT ![i].expiry = "past"]
      BY <1>5 DEF ClockPasses
    <2>2. DOMAIN rows' = DOMAIN rows
          /\ \A j \in DOMAIN rows : rows'[j].gen = rows[j].gen /\ rows'[j].enabled = rows[j].enabled
      BY <2>1 DEF TypeOK, Row
    <2>3. Peers(rows') = Peers(rows)
      BY <2>2 DEF Peers
    <2> QED
      BY <1>5, <2>3 DEF ClockPasses, ContentInv, IsCommitted
  <1>6. CASE Crash
    <2>1. IsCommitted(NoText) /\ 0 <= ver
      BY DEF IsCommitted, NoText, TypeOK
    <2>2. \A q \in Procs : text'[q] = NoText /\ wrote'[q] = 0
      BY <1>6 DEF Crash
    <2> QED
      BY <1>6, <2>1, <2>2, MoveContent DEF Crash, ContentInv
  <1> QED
    BY <1>0, <1>1, <1>2, <1>3, <1>4, <1>5, <1>6, StepContent, WriteContent
       DEF Next, CronStep, BootStep

(* Init establishes the content invariant.                                 *)
LEMMA InitContent == Init => ContentInv
  <1> SUFFICES ASSUME Init PROVE ContentInv
    OBVIOUS
  <1>1. ver = 0 /\ hist[0] = Peers(rows)
    BY DEF Init
  <1>2. conf = NoText /\ kern.ver = 0 /\ kern.peers = {}
    BY DEF Init
  <1>3. \A p \in Procs : text[p] = NoText /\ wrote[p] = 0
    BY DEF Init
  <1> QED
    BY <1>1, <1>2, <1>3 DEF ContentInv, IsCommitted, NoText

(* The running interface always accepts the peers of one committed state   *)
(* of clients_table or none, for any number of concurrent savers, restarts *)
(* and crashes (wg::save_config, wg::restart, wg::startup).                *)
THEOREM KernelCommitted == Spec => []KernelIsACommittedState
  <1>1. Init => TypeOK /\ ContentInv
    BY InitTypeOK, InitContent
  <1>2. TypeOK /\ ContentInv /\ [Next]_vars => (TypeOK /\ ContentInv)'
    BY NextTypeOK, NextContent
  <1>3. ContentInv => KernelIsACommittedState
    BY DEF ContentInv, IsCommitted, KernelIsACommittedState
  <1> QED
    BY <1>1, <1>2, <1>3, PTL DEF Spec

-----------------------------------------------------------------------------
(* The control state.                                                      *)

(* Every step keeps the control invariant.                                 *)
LEMMA NextControl == TypeOK /\ ControlInv /\ [Next]_vars => ControlInv'
  <1> SUFFICES ASSUME TypeOK, ControlInv, [Next]_vars PROVE ControlInv'
    OBVIOUS
  <1> USE DEF ControlInv, Procs
  <1>0. pc \in [Procs -> Labels] /\ wrote \in [Procs -> Nat]
        /\ Main \notin Handlers /\ Cron \notin Handlers /\ Main # Cron
    BY DEF TypeOK, PeerSyncConstants
  <1>r. ASSUME NEW p \in Procs, Return(p), pc[p] # "idle", p # Main => booted
        PROVE  ControlInv'
    BY <1>0, <1>r DEF Return, Goto
  <1>1. ASSUME NEW p \in Handlers, AcceptCreate(p) \/ AcceptChange(p) \/ AcceptRestart(p)
        PROVE  ControlInv'
    <2>1. PICK l \in {"write", "down"} : \E name, id : Accept(p, name, id, l)
      BY <1>1 DEF AcceptCreate, AcceptChange, AcceptRestart
    <2> QED
      BY <1>0, <2>1 DEF Accept, Goto
  <1>2. ASSUME NEW p \in Handlers, HandlerWrite(p)
        PROVE  ControlInv'
    <2>0. pc[p] = "write" /\ booted
      BY <1>2 DEF HandlerWrite, CreateClient, RotateClientKey, UpdateClient, EnableClient,
                  DisableClient, DeleteClient, WriteFindsNoRow, AtWrite
    <2>1. CASE WriteFindsNoRow(p)
      BY <1>0, <1>r, <2>0, <2>1 DEF WriteFindsNoRow
    <2>2. CASE ~WriteFindsNoRow(p)
      <3>1. ToSave(p) /\ \E r : Commit(p, r)
        BY <1>2, <2>2 DEF HandlerWrite, CreateClient, RotateClientKey, UpdateClient,
                          EnableClient, DisableClient, DeleteClient
      <3>2. PICK r : Commit(p, r)
        BY <3>1
      <3>3. wrote' = [wrote EXCEPT ![p] = ver + 1] /\ pc' = [pc EXCEPT ![p] = "read"]
            /\ booted' = booted
        BY <3>1, <3>2 DEF Commit, ToSave, Goto
      <3> QED
        BY <1>0, <2>0, <3>3
    <2> QED
      BY <2>1, <2>2
  <1>3. CASE CronScan \/ CronSave
    BY <1>0, <1>3 DEF CronScan, CronSave, Goto
  <1>4. CASE CronDisable
    <2>1. \A p \in Handlers : wrote'[p] = wrote[p]
      BY <1>0, <1>4 DEF CronDisable, Commit
    <2> QED
      BY <1>0, <1>4, <2>1 DEF CronDisable
  <1>a. AfterIface \in {"fwread", "reply"}
    BY DEF AfterIface
  <1>5. ASSUME NEW p \in Procs, Step(p) \/ BootSync \/ BootSyncFails
        PROVE  ControlInv'
    <2> USE DEF UnchangedBySave, Continue, Goto
    <2>1. CASE ReadRows(p)
      BY <1>0, <2>1 DEF ReadRows
    <2>2. CASE TruncateConf(p) \/ WriteConf(p)
      BY <1>0, <2>2 DEF TruncateConf, WriteConf
    <2>3. CASE StripConf(p)
      <3>1. CASE pc[p] = "strip"
        <4>1. pc' = [pc EXCEPT ![p] = "sync"] /\ UNCHANGED <<wrote, booted>>
          BY <2>3, <3>1 DEF StripConf
        <4> QED
          BY <1>0, <3>1, <4>1
      <3>2. CASE pc[p] = "resync"
        <4>1. p = Main
          BY <3>2
        <4>2. pc' = [pc EXCEPT ![p] = "refeed"] /\ UNCHANGED <<wrote, booted>>
          BY <2>3, <3>2 DEF StripConf
        <4> QED
          BY <1>0, <3>2, <4>1, <4>2
      <3> QED
        BY <2>3, <3>1, <3>2 DEF StripConf
    <2>4. CASE SyncConf(p)
      <3>0. pc[p] = "sync"
        BY <2>4 DEF SyncConf
      <3>1. CASE p = Cron
        <4>1. Return(p)
          BY <1>0, <2>4, <3>1 DEF SyncConf
        <4> QED
          BY <1>0, <1>r, <3>0, <4>1
      <3>2. CASE p = Main
        <4>1. pc' = [pc EXCEPT ![p] = "down"] /\ UNCHANGED <<wrote, booted>>
          BY <1>0, <2>4, <3>2 DEF SyncConf
        <4> QED
          BY <1>0, <3>0, <3>2, <4>1
      <3>3. CASE p \in Handlers
        <4>1. pc' = [pc EXCEPT ![p] = AfterIface] /\ UNCHANGED <<wrote, booted>>
          BY <1>0, <2>4, <3>3 DEF SyncConf
        <4> QED
          BY <1>0, <1>a, <3>0, <3>3, <4>1
      <3> QED
        BY <3>1, <3>2, <3>3
    <2>5. CASE SaveFails(p)
      BY <1>0, <1>r, <2>5 DEF SaveFails
    <2>6. CASE IfaceDown(p)
      BY <1>0, <2>6 DEF IfaceDown
    <2>7. CASE IfaceUp(p)
      BY <1>0, <1>a, <2>7 DEF IfaceUp
    <2>8. CASE IfaceUpFails(p)
      BY <1>0, <1>r, <2>8 DEF IfaceUpFails
    <2>9. CASE BootSync
      BY <1>0, <1>a, <2>9 DEF BootSync
    <2>10. CASE BootSyncFails
      BY <1>0, <1>r, <2>10 DEF BootSyncFails
    <2>11. CASE FwRead(p) \/ FwApply(p)
      BY <1>0, <2>11 DEF FwRead, FwApply
    <2>12. CASE FwFails(p)
      BY <1>0, <2>12 DEF FwFails
    <2>13. CASE Reply(p)
      BY <1>0, <1>r, <2>13 DEF Reply
    <2> QED
      BY <1>5, <2>1, <2>2, <2>3, <2>4, <2>5, <2>6, <2>7, <2>8, <2>9, <2>10, <2>11, <2>12,
         <2>13
         DEF Step, SaveStep, IfaceStep, FwStep
  <1>6. CASE ClockPasses
    BY <1>6 DEF ClockPasses
  <1>7. CASE Crash
    BY <1>0, <1>7 DEF Crash
  <1>8. CASE UNCHANGED vars
    BY <1>8 DEF vars
  <1> QED
    BY <1>1, <1>2, <1>3, <1>4, <1>5, <1>6, <1>7, <1>8 DEF Next, CronStep, BootStep

(* Init establishes the control invariant.                                 *)
LEMMA InitControl == Init => ControlInv
  BY DEF Init, ControlInv, Procs, PeerSyncConstants

-----------------------------------------------------------------------------
(* Freshness: nobody can put an older state back.                          *)

(* A process that returns holds no text that could be put back.            *)
LEMMA ReturnFresh ==
    ASSUME TypeOK, FreshInv, NEW p \in Procs, Return(p), UNCHANGED <<conf, kern, fw>>
    PROVE  FreshInv'
  <1> SUFFICES ASSUME NEW h \in Handlers, ~overlap'[h] PROVE FreshAfter(h)'
    BY DEF FreshInv
  <1>0. h \in Procs /\ conf.ver \in Nat /\ kern.ver \in Nat /\ fw.ver \in Nat
        /\ \A q \in Procs : text[q].ver \in Nat
    BY DEF TypeOK, Procs, Text
  <1>1. \A q \in Procs : q # p => pc'[q] = pc[q] /\ text'[q] = text[q]
                                  /\ wrote'[q] = wrote[q] /\ overlap'[q] = overlap[q]
    BY DEF Return, Goto, TypeOK
  <1>2. pc'[p] = "idle" /\ wrote'[p] = 0 /\ text'[p].ver = 0
    BY DEF Return, Goto, TypeOK, NoText
  <1>3. CASE h = p
    BY <1>0, <1>1, <1>2, <1>3 DEF FreshAfter, Holding
  <1>4. CASE h # p
    <2>1. FreshAfter(h) /\ pc'[h] = pc[h] /\ wrote'[h] = wrote[h]
      BY <1>0, <1>1, <1>4 DEF FreshInv
    <2> QED
      BY <1>0, <1>1, <1>2, <2>1 DEF FreshAfter, Holding
  <1> QED
    BY <1>3, <1>4

(* A commit nobody overlapped finds no older text in flight.               *)
LEMMA CommitFresh ==
    ASSUME TypeOK, ContentInv, FreshInv, NEW p \in Procs, NEW r, Commit(p, r),
           NEW l \in {"read", "expire"},
           pc[p] \in {"write", "expire"}, pc' = [pc EXCEPT ![p] = l],
           UNCHANGED <<conf, kern, fw, text>>
    PROVE  FreshInv'
  <1> SUFFICES ASSUME NEW h \in Handlers, ~overlap'[h] PROVE FreshAfter(h)'
    BY DEF FreshInv
  <1>0. h \in Procs
    BY DEF Procs
  <1>1. \A q \in Procs : q # p => pc'[q] = pc[q] /\ wrote'[q] = wrote[q]
                                  /\ overlap'[q] = overlap[q]
    BY DEF Commit, TypeOK
  <1>2. pc'[p] = l
    BY DEF TypeOK
  <1>3. CASE h = p
    <2>1. \A q \in Procs : pc[q] \notin Holding
      BY <1>3 DEF Commit, TypeOK
    <2>2. \A q \in Procs : pc'[q] \notin Holding
      BY <1>1, <1>2, <2>1 DEF Holding
    <2> QED
      BY <1>2, <1>3, <2>2 DEF FreshAfter, Holding
  <1>4. CASE h # p
    <2>1. FreshAfter(h) /\ pc'[h] = pc[h] /\ wrote'[h] = wrote[h]
      BY <1>0, <1>1, <1>4 DEF FreshInv
    <2> QED
      BY <1>0, <1>1, <1>2, <2>1 DEF FreshAfter, Holding
  <1> QED
    BY <1>3, <1>4

(* Saving, bringing up and the firewall put no older state back.           *)
LEMMA StepFresh ==
    ASSUME TypeOK, TypeOK', ContentInv, ControlInv, FreshInv,
           NEW p \in Procs, Step(p) \/ BootSync \/ BootSyncFails
    PROVE  FreshInv'
  <1> USE DEF UnchangedBySave, Continue, Goto
  <1>0. /\ Handlers \subseteq Procs /\ Main \in Procs
        /\ pc \in [Procs -> Labels] /\ text \in [Procs -> Text]
        /\ Main \notin Handlers /\ Cron \notin Handlers /\ Main # Cron
    BY DEF Procs, TypeOK, PeerSyncConstants
  <1>t. /\ conf.ver \in Nat /\ kern.ver \in Nat /\ fw.ver \in Nat /\ ver \in Nat
        /\ \A q \in Procs : text[q].ver \in Nat /\ wrote[q] \in Nat /\ wrote[q] <= ver
    BY DEF TypeOK, Text, ContentInv
  <1>f. \A h \in Handlers : ~overlap[h] => FreshAfter(h)
    BY DEF FreshInv
  <1>i. AfterIface \in {"fwread", "reply"} /\ (AfterIface = "reply" => ~FirewallEnabled)
    BY DEF AfterIface
  <1>m. ASSUME ~booted, wrote' = wrote
        PROVE  FreshInv'
    <2>1. \A h \in Handlers : wrote'[h] = 0
      BY <1>m DEF ControlInv
    <2>2. /\ conf'.ver \in Nat /\ kern'.ver \in Nat /\ fw'.ver \in Nat
          /\ \A q \in Procs : text'[q].ver \in Nat
      BY DEF TypeOK, Text
    <2> QED
      BY <2>1, <2>2 DEF FreshInv, FreshAfter
  <1>1. CASE ReadRows(p) \/ FwRead(p)
    <2> SUFFICES ASSUME NEW h \in Handlers, ~overlap'[h] PROVE FreshAfter(h)'
      BY DEF FreshInv
    <2>1. /\ text' = [text EXCEPT ![p] = Render] /\ UNCHANGED <<wrote, overlap, conf, kern, fw>>
          /\ \/ pc[p] = "read" /\ pc' = [pc EXCEPT ![p] = "open"]
             \/ pc[p] = "fwread" /\ pc' = [pc EXCEPT ![p] = "fwapply"]
      BY <1>1 DEF ReadRows, FwRead
    <2>2. FreshAfter(h)
      BY <1>f, <2>1
    <2>3. Render.ver = ver
      BY DEF Render
    <2> QED
      BY <1>0, <1>t, <2>1, <2>2, <2>3 DEF FreshAfter, Holding
  <1>2. CASE TruncateConf(p) \/ WriteConf(p)
    <2> SUFFICES ASSUME NEW h \in Handlers, ~overlap'[h] PROVE FreshAfter(h)'
      BY DEF FreshInv
    <2>1. /\ conf'.ver = text[p].ver /\ UNCHANGED <<wrote, overlap, kern, fw, text>>
          /\ \/ pc[p] = "open" /\ pc' = [pc EXCEPT ![p] = "fill"]
             \/ pc[p] = "fill" /\ pc' = [pc EXCEPT ![p] = "strip"]
      BY <1>2 DEF TruncateConf, WriteConf
    <2>2. FreshAfter(h)
      BY <1>f, <2>1
    <2>3. text[p].ver >= wrote[h]
      BY <2>1, <2>2 DEF FreshAfter, Holding
    <2> QED
      BY <1>0, <1>t, <2>1, <2>2, <2>3 DEF FreshAfter, Holding
  <1>3. CASE StripConf(p)
    <2>1. CASE pc[p] = "resync"
      <3>1. p = Main /\ ~booted
        BY <1>0, <2>1 DEF ControlInv, Procs
      <3> QED
        BY <1>3, <1>m, <3>1 DEF StripConf
    <2>2. CASE pc[p] = "strip"
      <3> SUFFICES ASSUME NEW h \in Handlers, ~overlap'[h] PROVE FreshAfter(h)'
        BY DEF FreshInv
      <3>1. /\ text' = [text EXCEPT ![p] = conf] /\ UNCHANGED <<wrote, overlap, conf, kern, fw>>
            /\ pc' = [pc EXCEPT ![p] = "sync"]
        BY <1>3, <2>2 DEF StripConf
      <3>2. FreshAfter(h)
        BY <1>f, <3>1
      <3>3. conf.ver >= wrote[h]
        BY <2>2, <3>2 DEF FreshAfter
      <3> QED
        BY <1>0, <1>t, <2>2, <3>1, <3>2, <3>3 DEF FreshAfter, Holding
    <2> QED
      BY <1>3, <2>1, <2>2 DEF StripConf
  <1>4. CASE SyncConf(p)
    <2> SUFFICES ASSUME NEW h \in Handlers, ~overlap'[h] PROVE FreshAfter(h)'
      BY DEF FreshInv
    <2>0. pc[p] = "sync" /\ kern'.ver = text[p].ver /\ UNCHANGED <<conf, fw>>
      BY <1>4 DEF SyncConf, Load
    <2>1. CASE p = Cron
      <3>1. /\ \A q \in Procs : q # p => pc'[q] = pc[q] /\ text'[q] = text[q]
                                  /\ wrote'[q] = wrote[q] /\ overlap'[q] = overlap[q]
            /\ pc'[p] = "idle"
        BY <1>0, <1>4, <2>1 DEF SyncConf, Return, TypeOK
      <3>2. h # p /\ h \in Procs
        BY <1>0, <2>1
      <3>3. FreshAfter(h) /\ text[p].ver >= wrote[h]
        BY <1>f, <2>0, <3>1, <3>2 DEF FreshAfter, Holding
      <3> QED
        BY <1>t, <2>0, <3>1, <3>2, <3>3 DEF FreshAfter, Holding
    <2>2. CASE p # Cron
      <3>1. /\ UNCHANGED <<wrote, overlap, text>>
            /\ \/ p = Main /\ pc' = [pc EXCEPT ![p] = "down"]
               \/ p \in Handlers /\ pc' = [pc EXCEPT ![p] = AfterIface]
        BY <1>0, <1>4, <2>2 DEF SyncConf
      <3>2. FreshAfter(h)
        BY <1>f, <3>1
      <3>3. text[p].ver >= wrote[h] /\ conf.ver >= wrote[h]
        BY <2>0, <3>2 DEF FreshAfter, Holding
      <3>4. CASE p = Main
        BY <1>0, <1>t, <2>0, <3>1, <3>2, <3>3, <3>4 DEF FreshAfter, Holding
      <3>5. CASE p \in Handlers
        BY <1>0, <1>i, <1>t, <2>0, <3>1, <3>2, <3>3, <3>5 DEF FreshAfter, Holding
      <3> QED
        BY <3>1, <3>4, <3>5
    <2> QED
      BY <2>1, <2>2
  <1>5. CASE SaveFails(p)
    <2>1. CASE p = Main
      <3>1. ~booted /\ wrote' = wrote
        BY <1>5, <2>1 DEF SaveFails, ControlInv
      <3> QED
        BY <1>m, <3>1
    <2>2. CASE p # Main
      BY <1>5, <2>2, ReturnFresh DEF SaveFails
    <2> QED
      BY <2>1, <2>2
  <1>6. CASE IfaceDown(p)
    <2> SUFFICES ASSUME NEW h \in Handlers, ~overlap'[h] PROVE FreshAfter(h)'
      BY DEF FreshInv
    <2>1. /\ kern'.ver = kern.ver /\ UNCHANGED <<wrote, overlap, conf, fw, text>>
          /\ pc[p] = "down" /\ pc' = [pc EXCEPT ![p] = "up"]
      BY <1>6 DEF IfaceDown, TypeOK
    <2>2. FreshAfter(h)
      BY <1>f, <2>1
    <2> QED
      BY <1>0, <1>t, <2>1, <2>2 DEF FreshAfter, Holding
  <1>7. CASE IfaceUp(p)
    <2>1. CASE p = Main
      <3>1. ~booted /\ wrote' = wrote
        BY <1>7, <2>1 DEF IfaceUp, ControlInv
      <3> QED
        BY <1>m, <3>1
    <2>2. CASE p # Main
      <3> SUFFICES ASSUME NEW h \in Handlers, ~overlap'[h] PROVE FreshAfter(h)'
        BY DEF FreshInv
      <3>1. /\ kern'.ver = conf.ver /\ UNCHANGED <<wrote, overlap, conf, fw, text>>
            /\ pc[p] = "up" /\ pc' = [pc EXCEPT ![p] = AfterIface]
        BY <1>7, <2>2 DEF IfaceUp, Load
      <3>2. FreshAfter(h) /\ h \in Procs
        BY <1>0, <1>f, <3>1
      <3>3. CASE h = p
        <4>1. wrote[h] = 0
          BY <3>1, <3>3 DEF ControlInv
        <4> QED
          BY <3>1, <4>1 DEF FreshAfter, TypeOK, Text
      <3>4. CASE h # p
        BY <1>0, <1>i, <1>t, <3>1, <3>2, <3>4 DEF FreshAfter, Holding
      <3> QED
        BY <3>3, <3>4
    <2> QED
      BY <2>1, <2>2
  <1>8. CASE BootSync
    BY <1>8, <1>m DEF BootSync, ControlInv
  <1>9. CASE FwApply(p)
    <2> SUFFICES ASSUME NEW h \in Handlers, ~overlap'[h] PROVE FreshAfter(h)'
      BY DEF FreshInv
    <2>1. /\ fw'.ver = text[p].ver /\ UNCHANGED <<wrote, overlap, conf, kern, text>>
          /\ pc[p] = "fwapply" /\ pc' = [pc EXCEPT ![p] = "reply"]
      BY <1>9 DEF FwApply
    <2>2. FreshAfter(h) /\ text[p].ver >= wrote[h]
      BY <1>f, <2>1 DEF FreshAfter, Holding
    <2> QED
      BY <1>0, <1>t, <2>1, <2>2 DEF FreshAfter, Holding
  <1>10. CASE IfaceUpFails(p) \/ BootSyncFails \/ Reply(p)
    BY <1>0, <1>10, ReturnFresh DEF IfaceUpFails, BootSyncFails, Reply
  <1>11. CASE FwFails(p)
    <2> SUFFICES ASSUME NEW h \in Handlers, ~overlap'[h] PROVE FreshAfter(h)'
      BY DEF FreshInv
    <2>1. /\ UNCHANGED <<wrote, overlap, conf, kern, fw, text>>
          /\ pc[p] \in {"fwread", "fwapply"} /\ pc' = [pc EXCEPT ![p] = "stale"]
      BY <1>11 DEF FwFails
    <2>2. FreshAfter(h)
      BY <1>f, <2>1
    <2> QED
      BY <1>0, <1>t, <2>1, <2>2 DEF FreshAfter, Holding
  <1> QED
    BY <1>1, <1>2, <1>3, <1>4, <1>5, <1>6, <1>7, <1>8, <1>9, <1>10, <1>11
       DEF Step, SaveStep, IfaceStep, FwStep

(* Every step keeps the freshness invariant.                               *)
LEMMA NextFresh ==
    TypeOK /\ TypeOK' /\ ContentInv /\ ControlInv /\ FreshInv /\ [Next]_vars => FreshInv'
  <1> SUFFICES ASSUME TypeOK, TypeOK', ContentInv, ControlInv, FreshInv, [Next]_vars
               PROVE  FreshInv'
    OBVIOUS
  <1>0. Cron \in Procs /\ Main \in Procs /\ Handlers \subseteq Procs /\ pc \in [Procs -> Labels]
    BY DEF Procs, TypeOK
  <1>1. ASSUME NEW p \in Handlers, AcceptCreate(p) \/ AcceptChange(p) \/ AcceptRestart(p)
        PROVE  FreshInv'
    <2>1. PICK l \in {"write", "down"} : \E name, id : Accept(p, name, id, l)
      BY <1>1 DEF AcceptCreate, AcceptChange, AcceptRestart
    <2>2. /\ pc' = [pc EXCEPT ![p] = l]
          /\ UNCHANGED <<wrote, overlap, conf, kern, fw, text>>
      BY <2>1 DEF Accept, Goto
    <2> QED
      BY <1>0, <2>2 DEF FreshInv, FreshAfter, Holding
  <1>2. ASSUME NEW p \in Handlers, HandlerWrite(p)
        PROVE  FreshInv'
    <2>1. CASE WriteFindsNoRow(p)
      BY <1>0, <2>1, ReturnFresh DEF WriteFindsNoRow, AtWrite
    <2>2. CASE ~WriteFindsNoRow(p)
      <3>1. /\ pc[p] = "write" /\ ToSave(p) /\ UNCHANGED <<conf, kern, fw>>
            /\ \E r : Commit(p, r)
        BY <1>2, <2>2 DEF HandlerWrite, CreateClient, RotateClientKey, UpdateClient,
                          EnableClient, DisableClient, DeleteClient, AtWrite
      <3> QED
        BY <1>0, <3>1, CommitFresh DEF ToSave, Goto
    <2> QED
      BY <2>1, <2>2
  <1>3. CASE CronScan \/ CronSave
    <2>1. /\ UNCHANGED <<wrote, overlap, conf, kern, fw, text>>
          /\ \E l \in {"expire", "read"} : pc' = [pc EXCEPT ![Cron] = l]
      BY <1>3 DEF CronScan, CronSave, Goto
    <2>2. Cron \notin Handlers
      BY DEF PeerSyncConstants
    <2> QED
      BY <1>0, <2>1, <2>2 DEF FreshInv, FreshAfter, Holding
  <1>4. CASE CronDisable
    <2>1. /\ pc[Cron] = "expire" /\ UNCHANGED <<conf, kern, fw, text>> /\ \E r : Commit(Cron, r)
          /\ pc' = [pc EXCEPT ![Cron] = "expire"]
      BY <1>0, <1>4 DEF CronDisable
    <2> QED
      BY <1>0, <2>1, CommitFresh
  <1>5. CASE ClockPasses
    BY <1>5 DEF ClockPasses, FreshInv, FreshAfter
  <1>6. CASE Crash
    <2>1. \A h \in Handlers : wrote'[h] = 0
      BY <1>0, <1>6 DEF Crash
    <2>2. /\ conf'.ver \in Nat /\ kern'.ver \in Nat /\ fw'.ver \in Nat
          /\ \A q \in Procs : text'[q].ver \in Nat
      BY DEF TypeOK, Text
    <2> QED
      BY <2>1, <2>2 DEF FreshInv, FreshAfter
  <1>7. CASE UNCHANGED vars
    BY <1>7 DEF vars, FreshInv, FreshAfter
  <1> QED
    BY <1>0, <1>1, <1>2, <1>3, <1>4, <1>5, <1>6, <1>7, StepFresh DEF Next, CronStep, BootStep

(* Init establishes the freshness invariant.                               *)
LEMMA InitFresh == Init => FreshInv
  BY DEF Init, FreshInv, FreshAfter, Procs, NoText

(* The inductive invariant. *)
IInv == TypeOK /\ ContentInv /\ ControlInv /\ FreshInv

(* A successful reply means the change (or a later state) is in the kernel *)
(* and in the firewall chain and stays there, unless another process held  *)
(* an older rendering when the change was committed: what the missing lock *)
(* of wg::save_config costs, and all that it costs.                        *)
THEOREM ChangeTakesEffect == Spec => []UnoverlappedChangeTakesEffect
  <1>1. Init => IInv
    BY InitTypeOK, InitContent, InitControl, InitFresh DEF IInv
  <1>2. IInv /\ [Next]_vars => IInv'
    BY NextTypeOK, NextContent, NextControl, NextFresh DEF IInv
  <1>3. IInv => UnoverlappedChangeTakesEffect
    BY DEF IInv, FreshInv, FreshAfter, UnoverlappedChangeTakesEffect
  <1> QED
    BY <1>1, <1>2, <1>3, PTL DEF Spec

-----------------------------------------------------------------------------
(* What wg::startup leaves behind.                                         *)

(* While startup runs nothing else does, so the interface it has brought   *)
(* up holds what the file holds: between the bring-up and the second sync  *)
(* the interface is up, and after that sync it runs the peers of the file. *)
BootInv ==
    /\ pc[Main] \in {"resync", "refeed"} => kern.up
    /\ pc[Main] = "refeed" => text[Main] = conf
    /\ pc[Main] \in {"fwread", "fwapply", "reply", "stale"} =>
          kern.up /\ kern.peers = conf.peers

(* A step of another process happens only once startup is over, and leaves *)
(* the startup thread idle.                                                *)
LEMMA OthersAfterBoot ==
    ASSUME TypeOK, ControlInv, NEW p \in Procs, p # Main, pc[p] # "idle",
           \/ \E l : pc' = [pc EXCEPT ![p] = l]
           \/ UNCHANGED pc
    PROVE  BootInv'
  <1>1. booted
    BY DEF ControlInv, Procs
  <1>2. pc[Main] = "idle" /\ Main \in Procs
    BY <1>1 DEF ControlInv, Procs
  <1>3. pc'[Main] = "idle"
    BY <1>2 DEF TypeOK
  <1> QED
    BY <1>3 DEF BootInv

(* Each step of startup keeps the interface in step with the file.         *)
LEMMA MainBoot ==
    ASSUME TypeOK, ControlInv, BootInv, BootStep
    PROVE  BootInv'
  <1> USE DEF UnchangedBySave, Continue, Goto
  <1>0. Main \in Procs /\ pc \in [Procs -> Labels] /\ text \in [Procs -> Text]
    BY DEF Procs, TypeOK
  <1>1. Main # Cron /\ Main \notin Handlers
    BY DEF PeerSyncConstants
  <1>2. AfterIface \in {"fwread", "reply"}
    BY DEF AfterIface
  <1>3. ASSUME Return(Main) PROVE BootInv'
    BY <1>0, <1>3 DEF Return, BootInv
  <1>4. CASE ReadRows(Main) \/ TruncateConf(Main) \/ WriteConf(Main)
    BY <1>0, <1>4 DEF ReadRows, TruncateConf, WriteConf, BootInv
  <1>5. CASE StripConf(Main)
    BY <1>0, <1>5 DEF StripConf, BootInv
  <1>6. CASE SyncConf(Main)
    BY <1>0, <1>1, <1>6 DEF SyncConf, BootInv
  <1>7. CASE SaveFails(Main)
    BY <1>0, <1>7 DEF SaveFails, BootInv
  <1>8. CASE IfaceDown(Main)
    BY <1>0, <1>8 DEF IfaceDown, BootInv
  <1>9. CASE IfaceUp(Main)
    BY <1>0, <1>9 DEF IfaceUp, Load, BootInv
  <1>10. CASE IfaceUpFails(Main) \/ BootSyncFails \/ Reply(Main)
    BY <1>3, <1>10 DEF IfaceUpFails, BootSyncFails, Reply
  <1>11. CASE BootSync
    BY <1>0, <1>2, <1>11 DEF BootSync, Load, BootInv
  <1>12. CASE FwRead(Main) \/ FwApply(Main) \/ FwFails(Main)
    BY <1>0, <1>12 DEF FwRead, FwApply, FwFails, BootInv
  <1> QED
    BY <1>4, <1>5, <1>6, <1>7, <1>8, <1>9, <1>10, <1>11, <1>12
       DEF BootStep, Step, SaveStep, IfaceStep, FwStep

(* A saving, restarting or firewall step of a process that is not idle     *)
(* changes only that process's place.                                      *)
LEMMA StepMovesOne ==
    ASSUME TypeOK, NEW p \in Procs, Step(p)
    PROVE  pc[p] # "idle" /\ \E l : pc' = [pc EXCEPT ![p] = l]
  BY DEF Step, SaveStep, IfaceStep, FwStep, ReadRows, TruncateConf, WriteConf, StripConf,
         SyncConf, SaveFails, IfaceDown, IfaceUp, IfaceUpFails, FwRead, FwApply, FwFails,
         Reply, Continue, Return, Goto

(* So does a write of a handler.                                           *)
LEMMA WriteMovesOne ==
    ASSUME TypeOK, NEW p \in Handlers, HandlerWrite(p)
    PROVE  pc[p] # "idle" /\ \E l : pc' = [pc EXCEPT ![p] = l]
  <1>1. CASE WriteFindsNoRow(p)
    BY <1>1 DEF WriteFindsNoRow, AtWrite, Return, Goto
  <1>2. CASE ~WriteFindsNoRow(p)
    <2>1. CASE CreateClient(p) \/ UpdateClient(p)
      BY <2>1 DEF CreateClient, UpdateClient, AtWrite, ToSave, Goto
    <2>2. CASE RotateClientKey(p) \/ DeleteClient(p)
      BY <2>2 DEF RotateClientKey, DeleteClient, AtWrite, ToSave, Goto
    <2>3. CASE EnableClient(p) \/ DisableClient(p)
      BY <2>3 DEF EnableClient, DisableClient, AtWrite, ToSave, Goto
    <2> QED
      BY <1>2, <2>1, <2>2, <2>3 DEF HandlerWrite
  <1> QED
    BY <1>1, <1>2

(* Every step keeps the startup invariant.                                 *)
LEMMA NextBoot == TypeOK /\ ControlInv /\ BootInv /\ [Next]_vars => BootInv'
  <1> SUFFICES ASSUME TypeOK, ControlInv, BootInv, [Next]_vars PROVE BootInv'
    OBVIOUS
  <1>0. /\ Cron \in Procs /\ Main \in Procs /\ Handlers \subseteq Procs
        /\ Main # Cron /\ Main \notin Handlers /\ pc \in [Procs -> Labels]
    BY DEF Procs, PeerSyncConstants, TypeOK
  <1>1. ASSUME NEW p \in Handlers, AcceptCreate(p) \/ AcceptChange(p) \/ AcceptRestart(p)
        PROVE  BootInv'
    <2>1. booted /\ \E l : pc' = [pc EXCEPT ![p] = l]
      BY <1>1 DEF AcceptCreate, AcceptChange, AcceptRestart, Accept, Goto
    <2>2. pc[Main] = "idle"
      BY <2>1 DEF ControlInv
    <2>3. pc'[Main] = "idle"
      BY <1>0, <2>1, <2>2
    <2> QED
      BY <2>3 DEF BootInv
  <1>2. ASSUME NEW p \in Handlers, HandlerWrite(p) \/ Step(p)
        PROVE  BootInv'
    BY <1>0, <1>2, WriteMovesOne, StepMovesOne, OthersAfterBoot
  <1>3. CASE CronScan
    <2>1. pc[Main] = "idle" /\ pc' = [pc EXCEPT ![Cron] = "expire"]
      BY <1>3 DEF CronScan, Goto, ControlInv
    <2>2. pc'[Main] = "idle"
      BY <1>0, <2>1
    <2> QED
      BY <2>2 DEF BootInv
  <1>4. CASE CronDisable \/ CronSave
    BY <1>0, <1>4, OthersAfterBoot DEF CronDisable, CronSave, Goto
  <1>5. CASE Step(Cron)
    BY <1>0, <1>5, StepMovesOne, OthersAfterBoot
  <1>6. CASE BootStep
    BY <1>6, MainBoot
  <1>7. CASE ClockPasses
    BY <1>7 DEF ClockPasses, BootInv
  <1>8. CASE Crash
    BY <1>0, <1>8 DEF Crash, BootInv
  <1>9. CASE UNCHANGED vars
    BY <1>9 DEF vars, BootInv
  <1> QED
    BY <1>1, <1>2, <1>3, <1>4, <1>5, <1>6, <1>7, <1>8, <1>9 DEF Next, CronStep

(* Startup ends with an interface that is up and accepts exactly the       *)
(* enabled rows of clients_table, whatever a crash left in the file and in *)
(* the kernel, when the file it wrote is the rendering of the table        *)
(* (wg::startup; a failed write of the file is only logged).               *)
THEOREM StartupRegenerates == Spec => []BootRegenerates
  <1> DEFINE Inv == TypeOK /\ ControlInv /\ BootInv
  <1>1. Init => Inv
    <2>1. Init => BootInv
      BY DEF Init, BootInv, Procs
    <2> QED
      BY <2>1, InitTypeOK, InitControl
  <1>2. Inv /\ [Next]_vars => Inv'
    BY NextTypeOK, NextControl, NextBoot
  <1>3. Inv => BootRegenerates
    BY DEF BootInv, BootRegenerates, Render
  <1> QED
    BY <1>1, <1>2, <1>3, PTL DEF Spec
=============================================================================
