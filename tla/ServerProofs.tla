---------------------------- MODULE ServerProofs ----------------------------
(* Machine-checked proofs about the web server's own state: the setup      *)
(* wizard, the activity store, the address pool, secrets at rest, the      *)
(* clients' private keys, the firewall's chains, the guarded metrics and   *)
(* the framing of HTTP requests.                                           *)
EXTENDS MCServer, SequenceTheorems, WellFoundedInduction, FiniteSetTheorems, TLAPS

-----------------------------------------------------------------------------
(* The setup wizard: any number of visitors.                               *)

(* Where a wizard request may stand.                                       *)
WizardPcs == {"idle", "create", "advance", "authorise", "host", "complete"}

(* Past its first step the wizard has an administrator, a request that is  *)
(* past the account it created counts it, and one that is about to write   *)
(* the host was authorised as one.                                         *)
WizardInv ==
    /\ swTask \in [SwVisitors -> [pc : WizardPcs, admin : BOOLEAN]]
    /\ swCount \in Nat
    /\ swStep = 3 => swCount > 0
    /\ \A v \in SwVisitors :
        /\ swTask[v].pc \in {"advance", "authorise"} => swCount > 0
        /\ swTask[v].pc = "host" => swTask[v].admin
    /\ swHost # "anonymous"

(* Every step of boot, unattended setup and the visitors' requests keeps   *)
(* WizardInv.                                                              *)
LEMMA WizardStep ==
    ASSUME WizardInv, [SW!Next]_(SW!vars)
    PROVE  WizardInv'
<1> USE DEF WizardInv, WizardPcs, SW!Goto, SW!Idle, SW!CreateUser
<1>1. CASE SW!Boot
  BY <1>1 DEF SW!Boot
<1>2. CASE SW!ProvisionUser
  BY <1>2 DEF SW!ProvisionUser
<1>3. CASE SW!ProvisionLists
  BY <1>3 DEF SW!ProvisionLists
<1>4. CASE SW!Crash
  BY <1>4 DEF SW!Crash
<1>5. ASSUME NEW v \in SwVisitors, SW!SetupStep2(v) PROVE WizardInv'
  BY <1>5 DEF SW!SetupStep2
<1>6. ASSUME NEW v \in SwVisitors, SW!CreateAdmin(v) PROVE WizardInv'
  BY <1>6 DEF SW!CreateAdmin
<1>7. ASSUME NEW v \in SwVisitors, SW!AdvanceStep(v) PROVE WizardInv'
  BY <1>7 DEF SW!AdvanceStep
<1>8. ASSUME NEW v \in SwVisitors, SW!Login(v) PROVE WizardInv'
  BY <1>8 DEF SW!Login
<1>9. ASSUME NEW v \in SwVisitors, SW!SetupStep4(v) PROVE WizardInv'
  BY <1>9 DEF SW!SetupStep4
<1>10. ASSUME NEW v \in SwVisitors, SW!RequireAdmin(v) PROVE WizardInv'
  BY <1>10 DEF SW!RequireAdmin
<1>11. ASSUME NEW v \in SwVisitors, SW!UpdateHostPort(v) PROVE WizardInv'
  BY <1>11 DEF SW!UpdateHostPort
<1>12. ASSUME NEW v \in SwVisitors, SW!MarkComplete(v) PROVE WizardInv'
  BY <1>12 DEF SW!MarkComplete
<1>13. CASE UNCHANGED SW!vars
  BY <1>13 DEF SW!vars
<1> QED
  BY <1>1, <1>2, <1>3, <1>4, <1>5, <1>6, <1>7, <1>8, <1>9, <1>10, <1>11, <1>12, <1>13
     DEF SW!Next, SW!UserThenStep

(* The public host is written by the unattended setup or by a visitor who  *)
(* was authorised as an administrator, never anonymously, however the      *)
(* wizard's requests of several visitors interleave (the setup handlers).  *)
THEOREM HostNeedsAnAdmin == SW!Spec => []HostIsWrittenByAnAdmin
<1>1. SW!Init => WizardInv
  BY DEF SW!Init, WizardInv, WizardPcs, SW!Idle
<1>2. WizardInv /\ [SW!Next]_(SW!vars) => WizardInv'
  BY WizardStep
<1>3. WizardInv => HostIsWrittenByAnAdmin
  BY DEF WizardInv, HostIsWrittenByAnAdmin, SW!HostIsWrittenByAnAdmin
<1> QED
  BY <1>1, <1>2, <1>3, PTL DEF SW!Spec

-----------------------------------------------------------------------------
(* The activity store: any clients, any traffic, any number of days and    *)
(* interface restarts.                                                     *)

(* What the kernel counts for a client; nothing for a peer it does not     *)
(* have.                                                                   *)
KernelCount(i) == IF i \in DOMAIN acKernel THEN acKernel[i] ELSE 0

(* A saturating difference.                                                *)
Excess(a, b) == IF a > b THEN a - b ELSE 0

(* The types of the store, the kernel's counters and the poll under way.   *)
ActivityTypeOK ==
    /\ acDay \in Nat /\ acRows \subseteq AcClients
    /\ acMoved \in [AcClients -> Nat]
    /\ acKernel = [i \in DOMAIN acKernel |-> acKernel[i]] /\ DOMAIN acKernel \subseteq AcClients
    /\ \A i \in DOMAIN acKernel : acKernel[i] \in Nat
    /\ acStore = [i \in DOMAIN acStore |-> acStore[i]] /\ DOMAIN acStore \subseteq AcClients
    /\ \A i \in DOMAIN acStore :
        /\ acStore[i] = [total |-> acStore[i].total, baseline |-> acStore[i].baseline,
                         days |-> acStore[i].days]
        /\ acStore[i].total \in Nat /\ acStore[i].baseline \in Nat
        /\ \A d \in DOMAIN acStore[i].days : acStore[i].days[d] \in Nat
    /\ acPoll.pc \in {"idle", "roster", "retain", "record", "prune"}
    /\ acPoll.pc = "roster" =>
         acPoll = [pc |-> "roster", days |-> acPoll.days, peers |-> acPoll.peers]
    /\ acPoll.pc \in {"retain", "record"} =>
         acPoll = [pc |-> acPoll.pc, days |-> acPoll.days, peers |-> acPoll.peers, rows |-> acPoll.rows]
    /\ acPoll.pc \in {"roster", "retain", "record"} =>
         /\ DOMAIN acPoll.peers \subseteq AcClients
         /\ \A i \in DOMAIN acPoll.peers : acPoll.peers[i] \in Nat

(* What is recorded of a client and what the kernel counts beyond the      *)
(* baseline are together no more than what the client moved; so it is for  *)
(* the poll's dump taken a while ago, with what the kernel counted since.  *)
(* That third sum is what makes the invariant inductive: the dump is       *)
(* applied later than it was read.                                         *)
TrafficInv ==
    /\ \A i \in DOMAIN acKernel : acKernel[i] <= acMoved[i]
    /\ \A i \in DOMAIN acStore :
        /\ acStore[i].total + Excess(KernelCount(i), acStore[i].baseline) <= acMoved[i]
        /\ \A d \in DOMAIN acStore[i].days : acStore[i].days[d] <= acStore[i].total
    /\ acPoll.pc \in {"roster", "retain", "record"} => \A i \in DOMAIN acPoll.peers :
        /\ acPoll.peers[i] <= acMoved[i]
        /\ i \in DOMAIN acStore =>
            acStore[i].total + Excess(acPoll.peers[i], acStore[i].baseline)
                + Excess(KernelCount(i), acPoll.peers[i]) <= acMoved[i]

(* The inductive invariant.                                                *)
ActivityInv == ActivityTypeOK /\ TrafficInv

(* What one sample does to a client's record: the first one only sets the  *)
(* baseline, a later one adds what exceeds it, and the day never exceeds   *)
(* the total.                                                              *)
LEMMA SampledRecord ==
    ASSUME NEW e, NEW c \in Nat, e.total \in Nat, e.baseline \in Nat \cup {AC!Unknown},
           \A d \in DOMAIN e.days : e.days[d] \in Nat /\ e.days[d] <= e.total
    PROVE  /\ AC!Sampled(e, c) = [total |-> AC!Sampled(e, c).total, baseline |-> c,
                                  days |-> AC!Sampled(e, c).days]
           /\ e.baseline = AC!Unknown => AC!Sampled(e, c).total = e.total
           /\ e.baseline # AC!Unknown => AC!Sampled(e, c).total = e.total + Excess(c, e.baseline)
           /\ AC!Sampled(e, c).total \in Nat
           /\ \A d \in DOMAIN AC!Sampled(e, c).days :
                /\ AC!Sampled(e, c).days[d] \in Nat
                /\ AC!Sampled(e, c).days[d] <= AC!Sampled(e, c).total
<1> DEFINE gain == AC!Delta(e, c)
           today == IF acDay \in DOMAIN e.days THEN e.days[acDay] ELSE 0
           days == AC!Put(e.days, acDay, today + gain)
<1>1. gain = (IF e.baseline = AC!Unknown THEN 0 ELSE Excess(c, e.baseline)) /\ gain \in Nat
  BY DEF AC!Delta, AC!Unknown, Excess
<1>2. today \in Nat /\ today <= e.total
  OBVIOUS
<1>3. AC!Sampled(e, c) = [total |-> e.total + gain, baseline |-> c, days |-> days]
  BY DEF AC!Sampled
<1>4. \A d \in DOMAIN days : days[d] \in Nat /\ days[d] <= e.total + gain
  <2> HIDE DEF gain, today
  <2> QED BY <1>1, <1>2 DEF AC!Put
<1> HIDE DEF gain, days
<1> QED
  BY <1>1, <1>3, <1>4

(* Recording a poll's samples keeps ActivityInv.                           *)
LEMMA RecordStep ==
    ASSUME ActivityInv, AC!Record
    PROVE  ActivityInv'
<1> DEFINE seen == {i \in acPoll.rows \cap DOMAIN acPoll.peers : acPoll.peers[i] > 0}
           rec(i) == IF i \in DOMAIN acStore THEN acStore[i] ELSE AC!Fresh
<1>1. acPoll.pc = "record" /\ UNCHANGED <<acDay, acRows, acKernel, acMoved>>
  BY DEF AC!Record
<1>2. acStore' = [i \in DOMAIN acStore \cup seen |->
                    IF i \in seen THEN AC!Sampled(rec(i), acPoll.peers[i]) ELSE rec(i)]
  BY DEF AC!Record, AC!RecordSamples
<1>3. acPoll'.pc = "prune"
  BY <1>1 DEF AC!Record, ActivityInv, ActivityTypeOK
<1>4. \A i \in seen : i \in AcClients /\ acPoll.peers[i] \in Nat /\ i \in DOMAIN acPoll.peers
  BY <1>1 DEF ActivityInv, ActivityTypeOK
<1>5. \A i \in AcClients :
        /\ rec(i).total \in Nat /\ rec(i).baseline \in Nat \cup {AC!Unknown}
        /\ \A d \in DOMAIN rec(i).days : rec(i).days[d] \in Nat /\ rec(i).days[d] <= rec(i).total
        /\ rec(i).baseline = AC!Unknown => i \notin DOMAIN acStore
        /\ i \notin DOMAIN acStore => rec(i).total = 0 /\ rec(i).baseline = AC!Unknown
  BY DEF ActivityInv, ActivityTypeOK, TrafficInv, AC!Fresh, AC!Unknown
<1> HIDE DEF seen, rec
<1>6. ASSUME NEW i \in seen
      PROVE  /\ acStore'[i] = [total |-> acStore'[i].total, baseline |-> acPoll.peers[i],
                               days |-> acStore'[i].days]
             /\ rec(i).baseline = AC!Unknown => acStore'[i].total = rec(i).total
             /\ rec(i).baseline # AC!Unknown =>
                  acStore'[i].total = rec(i).total + Excess(acPoll.peers[i], rec(i).baseline)
             /\ acStore'[i].total \in Nat
             /\ \A d \in DOMAIN acStore'[i].days :
                  acStore'[i].days[d] \in Nat /\ acStore'[i].days[d] <= acStore'[i].total
  <2>1. acStore'[i] = AC!Sampled(rec(i), acPoll.peers[i])
    BY <1>2
  <2> QED BY <2>1, <1>4, <1>5, SampledRecord
<1>7. \A i \in DOMAIN acStore \ seen : acStore'[i] = acStore[i]
  BY <1>2 DEF rec
<1>8. DOMAIN acStore' = DOMAIN acStore \cup seen
      /\ acStore' = [i \in DOMAIN acStore' |-> acStore'[i]]
  BY <1>2
<1>9. ActivityTypeOK'
  BY <1>1, <1>3, <1>4, <1>6, <1>7, <1>8 DEF ActivityInv, ActivityTypeOK
<1>10. ASSUME NEW i \in seen
       PROVE  acStore'[i].total + Excess(KernelCount(i), acPoll.peers[i]) <= acMoved[i]
  <2>0. i \in AcClients /\ acPoll.peers[i] \in Nat /\ acMoved[i] \in Nat /\ KernelCount(i) \in Nat
        /\ KernelCount(i) <= acMoved[i]
    BY <1>4 DEF ActivityInv, ActivityTypeOK, TrafficInv, KernelCount
  <2>1. CASE i \in DOMAIN acStore
    <3>1. rec(i) = acStore[i] /\ rec(i).baseline # AC!Unknown
      BY <2>0, <2>1, <1>5 DEF rec
    <3>2. acStore[i].total + Excess(acPoll.peers[i], acStore[i].baseline)
            + Excess(KernelCount(i), acPoll.peers[i]) <= acMoved[i]
      BY <1>1, <1>4, <2>1 DEF ActivityInv, TrafficInv
    <3> QED BY <3>1, <3>2, <1>6
  <2>2. CASE i \notin DOMAIN acStore
    <3>0. rec(i).total = 0 /\ rec(i).baseline = AC!Unknown
      BY <2>0, <2>2, <1>5
    <3>1. acStore'[i].total = 0
      BY <3>0, <1>6
    <3> QED BY <3>1, <2>0 DEF Excess
  <2> QED BY <2>1, <2>2
<1>11. \A i : KernelCount(i)' = KernelCount(i)
  BY <1>1 DEF KernelCount
<1>12. TrafficInv'
  BY <1>1, <1>3, <1>6, <1>7, <1>8, <1>10, <1>11 DEF ActivityInv, TrafficInv
<1> QED
  BY <1>9, <1>12 DEF ActivityInv

(* Pruning old days keeps ActivityInv.                                     *)
LEMMA PruneStep ==
    ASSUME ActivityInv, AC!Prune
    PROVE  ActivityInv'
<1>1. UNCHANGED <<acDay, acRows, acKernel, acMoved>> /\ acPoll' = AC!Idle
  BY DEF AC!Prune
<1>2. DOMAIN acStore' \subseteq DOMAIN acStore /\ acStore' = [i \in DOMAIN acStore' |-> acStore'[i]]
  BY DEF AC!Prune, AC!PruneBefore, AC!Without, ActivityInv, ActivityTypeOK
<1>3. \A i \in DOMAIN acStore' :
        /\ acStore'[i] = [total |-> acStore[i].total, baseline |-> acStore[i].baseline,
                          days |-> acStore'[i].days]
        /\ DOMAIN acStore'[i].days \subseteq DOMAIN acStore[i].days
        /\ \A d \in DOMAIN acStore'[i].days : acStore'[i].days[d] = acStore[i].days[d]
  <2>1. CASE acPruned = acDay
    BY <2>1 DEF AC!Prune, ActivityInv, ActivityTypeOK
  <2>2. CASE acPruned # acDay
    <3> DEFINE cut(i) == AC!Without(acStore[i].days, {d \in DOMAIN acStore[i].days : d < acDay - acPoll.days})
    <3>1. \A i \in DOMAIN acStore' : acStore'[i] = [acStore[i] EXCEPT !.days = cut(i)]
      BY <2>2 DEF AC!Prune, AC!PruneBefore, AC!Without
    <3>2. \A i \in DOMAIN acStore : DOMAIN cut(i) \subseteq DOMAIN acStore[i].days
            /\ \A d \in DOMAIN cut(i) : cut(i)[d] = acStore[i].days[d]
      BY DEF AC!Without
    <3> HIDE DEF cut
    <3>3. \A i \in DOMAIN acStore : [acStore[i] EXCEPT !.days = cut(i)] =
            [total |-> acStore[i].total, baseline |-> acStore[i].baseline, days |-> cut(i)]
      BY DEF ActivityInv, ActivityTypeOK
    <3>4. ASSUME NEW i \in DOMAIN acStore'
          PROVE  acStore'[i] = [total |-> acStore[i].total, baseline |-> acStore[i].baseline,
                                days |-> cut(i)]
      BY <3>1, <3>3, <1>2
    <3>5. ASSUME NEW i \in DOMAIN acStore' PROVE acStore'[i].days = cut(i) /\ i \in DOMAIN acStore
      BY <3>4, <1>2
    <3> QED BY <3>2, <3>4, <3>5
  <2> QED BY <2>1, <2>2
<1>4. ActivityTypeOK'
  BY <1>1, <1>2, <1>3 DEF ActivityInv, ActivityTypeOK, AC!Idle
<1>5. TrafficInv'
  BY <1>1, <1>2, <1>3 DEF ActivityInv, ActivityTypeOK, TrafficInv, AC!Idle, KernelCount
<1> QED
  BY <1>4, <1>5 DEF ActivityInv

(* Every step keeps the types.                                             *)
LEMMA ActivityTypeStep ==
    ASSUME ActivityInv, [AC!Next]_(AC!vars)
    PROVE  ActivityTypeOK'
<1> USE DEF ActivityInv, ActivityTypeOK, AC!Idle, AC!Fresh, AC!Unknown
<1>1. CASE AC!Disabled
  BY <1>1 DEF AC!Disabled
<1>2. CASE AC!DumpPeers
  BY <1>2 DEF AC!DumpPeers
<1>3. CASE AC!DumpFails
  BY <1>3 DEF AC!DumpFails
<1>4. CASE AC!GetAllClients
  BY <1>4 DEF AC!GetAllClients
<1>5. CASE AC!RetainClients
  BY <1>5 DEF AC!RetainClients, AC!Without
<1>6. CASE AC!Record
  BY <1>6, RecordStep
<1>7. CASE AC!Prune
  BY <1>7, PruneStep
<1>8. CASE AC!Purge
  BY <1>8 DEF AC!Purge, AC!Event
<1>9. CASE AC!Midnight
  BY <1>9 DEF AC!Midnight
<1>10. ASSUME NEW n \in {0, 1}, AC!SetRetention(n) PROVE ActivityTypeOK'
  BY <1>10 DEF AC!SetRetention, AC!Event
<1>11. ASSUME NEW i \in AcClients, AC!Traffic(i) PROVE ActivityTypeOK'
  <2>1. acKernel' = [j \in DOMAIN acKernel' |-> acKernel'[j]] /\ DOMAIN acKernel' = DOMAIN acKernel
    BY <1>11 DEF AC!Traffic
  <2>3. \A j \in DOMAIN acKernel : acKernel'[j] = IF j = i THEN acKernel[i] + 1 ELSE acKernel[j]
    BY <1>11 DEF AC!Traffic
  <2>4. \A j \in DOMAIN acKernel' : acKernel'[j] \in Nat
    BY <2>1, <2>3
  <2>2. acMoved' \in [AcClients -> Nat]
    BY <1>11 DEF AC!Traffic
  <2> QED BY <1>11, <2>1, <2>2, <2>4 DEF AC!Traffic
<1>12. ASSUME NEW i \in AcClients, AC!DeleteClient(i) PROVE ActivityTypeOK'
  BY <1>12 DEF AC!DeleteClient, AC!Event, AC!Without
<1>13. ASSUME NEW i \in AcClients, AC!Synced(i) PROVE ActivityTypeOK'
  BY <1>13 DEF AC!Synced, AC!Without
<1>14. ASSUME NEW i \in AcClients, AC!CountersReset(i) PROVE ActivityTypeOK'
  BY <1>14 DEF AC!CountersReset, AC!Event
<1>15. CASE UNCHANGED AC!vars
  BY <1>15 DEF AC!vars
<1> QED
  BY <1>1, <1>2, <1>3, <1>4, <1>5, <1>6, <1>7, <1>8, <1>9, <1>10, <1>11, <1>12, <1>13, <1>14, <1>15
     DEF AC!Next

(* Every step keeps TrafficInv: a counter that restarts from zero lowers   *)
(* the excess, and a client that is forgotten starts a new baseline.       *)
LEMMA TrafficStep ==
    ASSUME ActivityInv, [AC!Next]_(AC!vars)
    PROVE  TrafficInv'
<1> USE DEF ActivityInv, ActivityTypeOK, AC!Idle, AC!Fresh, AC!Unknown, TrafficInv, KernelCount, Excess
<1>1. CASE AC!Disabled
  BY <1>1 DEF AC!Disabled
<1>2. CASE AC!DumpPeers
  BY <1>2 DEF AC!DumpPeers
<1>3. CASE AC!DumpFails
  BY <1>3 DEF AC!DumpFails
<1>4. CASE AC!GetAllClients
  BY <1>4 DEF AC!GetAllClients
<1>5. CASE AC!RetainClients
  BY <1>5 DEF AC!RetainClients, AC!Without
<1>6. CASE AC!Record
  BY <1>6, RecordStep
<1>7. CASE AC!Prune
  BY <1>7, PruneStep
<1>8. CASE AC!Purge
  BY <1>8 DEF AC!Purge, AC!Event
<1>9. CASE AC!Midnight
  BY <1>9 DEF AC!Midnight
<1>10. ASSUME NEW n \in {0, 1}, AC!SetRetention(n) PROVE TrafficInv'
  BY <1>10 DEF AC!SetRetention, AC!Event
<1>11. ASSUME NEW i \in AcClients, AC!Traffic(i) PROVE TrafficInv'
  BY <1>11 DEF AC!Traffic
<1>12. ASSUME NEW i \in AcClients, AC!DeleteClient(i) PROVE TrafficInv'
  BY <1>12 DEF AC!DeleteClient, AC!Event, AC!Without
<1>13. ASSUME NEW i \in AcClients, AC!Synced(i) PROVE TrafficInv'
  BY <1>13 DEF AC!Synced, AC!Without
<1>14. ASSUME NEW i \in AcClients, AC!CountersReset(i) PROVE TrafficInv'
  BY <1>14 DEF AC!CountersReset, AC!Event
<1>15. CASE UNCHANGED AC!vars
  BY <1>15 DEF AC!vars
<1> QED
  BY <1>1, <1>2, <1>3, <1>4, <1>5, <1>6, <1>7, <1>8, <1>9, <1>10, <1>11, <1>12, <1>13, <1>14, <1>15
     DEF AC!Next

(* No total and no day's sum ever exceeds what the client really moved,    *)
(* whatever counter resets, deletions and edits fall between a poll's dump *)
(* and its recording (the activity store's record_samples and the poller). *)
THEOREM TotalsHold == AC!Spec => []TotalsAreRealTraffic
<1>1. AC!Init => ActivityInv
  BY DEF AC!Init, ActivityInv, ActivityTypeOK, TrafficInv, AC!Idle, AC!Fresh, KernelCount, Excess
<1>2. ActivityInv /\ [AC!Next]_(AC!vars) => ActivityInv'
  BY ActivityTypeStep, TrafficStep DEF ActivityInv
<1>3. ActivityInv => TotalsAreRealTraffic
  BY DEF ActivityInv, ActivityTypeOK, TrafficInv, KernelCount, Excess, TotalsAreRealTraffic,
         AC!TotalsAreRealTraffic
<1> QED
  BY <1>1, <1>2, <1>3, PTL DEF AC!Spec

-----------------------------------------------------------------------------
(* The address pool: any number of requests and clients, any networks an   *)
(* operator may choose.                                                    *)

(* A network: an address, host bits included, and a size.                  *)
ApNetworks == [addr : Nat, size : Nat \ {0}]

(* A client's row.                                                         *)
ApRows == [v4 : Int, v6 : Int, mine : BOOLEAN]

(* Sets of client ids.                                                     *)
ApNats == SUBSET Nat

(* Sets of addresses.                                                      *)
ApInts == SUBSET Int

(* What an interface's row may hold.                                       *)
ApNets == [v4 : ApV4, v6 : ApV6]

(* What change_cidr holds while it reassigns.                              *)
Changes == [pc : {"reassign"}, todo : ApNats, net : ApNets, v4 : ApInts, v6 : ApInts]

(* What a request holds at each of its steps; an address about to be       *)
(* written was found in the network the request read.                      *)
ApTaskOK(t) ==
    /\ t.pc \in {"idle", "interface", "insert", "list", "reassign", "write"}
    /\ t.pc = "idle" => t = AP!Idle
    /\ t.pc \in {"interface", "insert"} => t.mine \in BOOLEAN
    /\ t.pc \in {"insert", "reassign"} => t.net \in ApNets
    /\ t.pc = "reassign" =>
        t \in Changes
    /\ t.pc = "write" => t.v4 \in Int /\ AP!Contains(t.net.v4, t.v4)

(* The types of the interface, the clients and the requests.               *)
PoolTypeOK ==
    /\ apNet \in ApNets
    /\ apNext \in Nat
    /\ apRow = [i \in DOMAIN apRow |-> apRow[i]] /\ DOMAIN apRow \subseteq Nat
    /\ \A i \in DOMAIN apRow : apRow[i] \in ApRows
    /\ apTask = [h \in ApHandlers |-> apTask[h]]
    /\ \A h \in ApHandlers : ApTaskOK(apTask[h])

(* A client's addresses are in the interface's networks.                   *)
InRange(i) ==
    /\ AP!Contains(apNet.v4, apRow[i].v4)
    /\ apNet.v6 # AP!Unset /\ apRow[i].v6 # AP!Null => AP!Contains(apNet.v6, apRow[i].v6)

(* Unless the last change of network was cut short or overlapped: a change *)
(* runs alone, with the network as stored, and each client is in range or  *)
(* still to be reassigned by it. The set of clients to do is what makes    *)
(* this a loop invariant.                                                  *)
RangeInv ==
    ~apExcused =>
        /\ \A g, h \in ApHandlers : apTask[g].pc \in {"list", "reassign"} /\ apTask[h] # AP!Idle => g = h
        /\ \A h \in ApHandlers : apTask[h].pc = "reassign" => apTask[h].net = apNet
        /\ \A i \in DOMAIN apRow :
            \/ InRange(i)
            \/ \E h \in ApHandlers : apTask[h].pc = "list" \/ (apTask[h].pc = "reassign" /\ i \in apTask[h].todo)

(* The inductive invariant.                                                *)
PoolInv == PoolTypeOK /\ RangeInv

(* The minimum of a non-empty set of integers that is bounded below is one *)
(* of its members.                                                         *)
LEMMA MinIsTaken ==
    ASSUME NEW a \in Int, NEW S, S # {}, \A x \in S : x \in Int /\ x >= a
    PROVE  AP!Min(S) \in S
<1> DEFINE T == {x - a : x \in S}
<1>1. T \in SUBSET Nat /\ T # {}
  OBVIOUS
<1>2. PICK n \in T : \A m \in T : n <= m
  <2>1. IsWellFoundedOn(OpToRel(<, Nat), Nat)
    BY NatLessThanWellFounded, Zenon
  <2>2. PICK n \in T : \A m \in T : ~(<<m, n>> \in OpToRel(<, Nat))
    BY <1>1, <2>1, WFMin, Zenon
  <2>3. \A m \in T : ~(m < n)
    BY <1>1, <2>2 DEF OpToRel
  <2> QED BY <1>1, <2>3
<1>3. PICK x \in S : n = x - a
  BY <1>2
<1>4. \A y \in S : x <= y
  <2> TAKE y \in S
  <2>1. y - a \in T
    OBVIOUS
  <2>2. n <= y - a
    BY <1>2, <2>1
  <2> QED BY <2>2, <1>3
<1> QED BY <1>4 DEF AP!Min

(* A network starts at a number and ends its size later.                   *)
LEMMA NetworkIsInt ==
    ASSUME NEW n \in ApNetworks
    PROVE  AP!Network(n) \in Int /\ AP!Broadcast(n) = AP!Network(n) + n.size - 1 /\ n.size \in Nat /\ n.size > 0
<1>1. n.addr \in Nat /\ n.size \in Nat /\ n.size > 0
  BY DEF ApNetworks
<1> QED BY <1>1 DEF AP!Network, AP!Broadcast

(* The first free host of a network is in the network (cidr.rs's hosts).   *)
LEMMA FreeAddress ==
    ASSUME NEW n \in ApNetworks, NEW used
    PROVE  /\ AP!FreeV4(n, used) # {} =>
                AP!Min(AP!FreeV4(n, used)) \in Int /\ AP!Contains(n, AP!Min(AP!FreeV4(n, used)))
           /\ AP!FreeV6(n, used) # {} =>
                AP!Min(AP!FreeV6(n, used)) \in Int /\ AP!Contains(n, AP!Min(AP!FreeV6(n, used)))
<1> DEFINE b == AP!Network(n)
<1>1. b \in Int /\ AP!Broadcast(n) = b + n.size - 1 /\ n.size \in Nat /\ n.size > 0
  BY NetworkIsInt
<1>2. \A x \in AP!Hosts(n) \cup AP!Hosts6(n) : x \in Int /\ x >= b /\ AP!Contains(n, x)
  BY <1>1 DEF AP!Hosts, AP!Hosts6, AP!Contains
<1>3. AP!FreeV4(n, used) \subseteq AP!Hosts(n) /\ AP!FreeV6(n, used) \subseteq AP!Hosts6(n)
  BY DEF AP!FreeV4, AP!FreeV6
<1>4. ASSUME NEW S, S \subseteq AP!Hosts(n) \cup AP!Hosts6(n), S # {}
      PROVE  AP!Min(S) \in Int /\ AP!Contains(n, AP!Min(S))
  <2>1. \A x \in S : x \in Int /\ x >= b
    BY <1>2, <1>4
  <2>2. AP!Min(S) \in S
    BY <1>1, <1>4, <2>1, MinIsTaken
  <2> QED BY <1>2, <1>4, <2>2
<1> QED BY <1>3, <1>4

(* A request's step changes the place of that request alone.               *)
LEMMA ApTaskGoes ==
    ASSUME PoolTypeOK, NEW h \in ApHandlers, NEW t, AP!Goto(h, t), ApTaskOK(t)
    PROVE  /\ apTask' = [g \in ApHandlers |-> apTask'[g]] /\ apTask'[h] = t
           /\ \A g \in ApHandlers \ {h} : apTask'[g] = apTask[g]
           /\ \A g \in ApHandlers : ApTaskOK(apTask'[g])
<1>1. apTask = [g \in ApHandlers |-> apTask[g]] /\ \A g \in ApHandlers : ApTaskOK(apTask[g])
  BY DEF PoolTypeOK
<1>2. apTask'[h] = t /\ \A g \in ApHandlers \ {h} : apTask'[g] = apTask[g]
  BY <1>1 DEF AP!Goto
<1>3. apTask' = [g \in ApHandlers |-> apTask'[g]]
  BY <1>1 DEF AP!Goto
<1> QED BY <1>1, <1>2, <1>3

(* Every step keeps PoolInv.                                               *)
LEMMA PoolStep ==
    ASSUME ApV4 \subseteq ApNetworks, ApV6 \subseteq ApNetworks \cup {AP!Unset}, PoolInv, [AP!Next]_(AP!vars)
    PROVE  PoolInv'
<1>0. PoolTypeOK /\ RangeInv
  BY DEF PoolInv
<1>i. ApTaskOK(AP!Idle) /\ AP!Idle.pc = "idle"
  BY DEF ApTaskOK, AP!Idle
<1>c. \A h \in ApHandlers : h \in AP!Changing <=> apTask[h].pc \in {"list", "reassign"}
  BY DEF AP!Changing
<1>1. ASSUME NEW h \in ApHandlers, NEW admin \in BOOLEAN, AP!CreateClient(h, admin) PROVE PoolInv'
  <2> DEFINE t == [pc |-> "interface", mine |-> ~admin]
  <2>1. apTask[h] = AP!Idle /\ AP!Goto(h, t) /\ UNCHANGED <<apNet, apRow, apNext>>
        /\ apExcused' = (apExcused \/ AP!Changing # {})
    BY <1>1 DEF AP!CreateClient, AP!Begin, AP!Overlaps
  <2>2. ApTaskOK(t) /\ t.pc = "interface"
    BY DEF ApTaskOK
  <2> HIDE DEF t
  <2>3. /\ apTask' = [g \in ApHandlers |-> apTask'[g]] /\ apTask'[h] = t
        /\ \A g \in ApHandlers \ {h} : apTask'[g] = apTask[g]
        /\ \A g \in ApHandlers : ApTaskOK(apTask'[g])
    BY <1>0, <2>1, <2>2, ApTaskGoes
  <2>4. PoolTypeOK'
    BY <1>0, <2>1, <2>3 DEF PoolTypeOK
  <2>5. ASSUME ~apExcused' PROVE RangeInv'
    <3>1. ~apExcused /\ \A g \in ApHandlers : apTask[g].pc \notin {"list", "reassign"}
      BY <1>c, <2>1, <2>5
    <3>2. \A g \in ApHandlers : apTask'[g].pc \notin {"list", "reassign"}
      BY <2>2, <2>3, <3>1
    <3>3. \A i \in DOMAIN apRow : InRange(i)
      BY <1>0, <3>1 DEF RangeInv
    <3> QED BY <2>1, <3>2, <3>3 DEF RangeInv, InRange
  <2> QED BY <2>4, <2>5 DEF PoolInv, RangeInv
<1>2. ASSUME NEW h \in ApHandlers, AP!GetInterface(h) PROVE PoolInv'
  <2> DEFINE t == [pc |-> "insert", mine |-> apTask[h].mine, net |-> apNet]
  <2>1. apTask[h].pc = "interface" /\ AP!Goto(h, t) /\ UNCHANGED <<apNet, apRow, apNext, apExcused>>
    BY <1>2 DEF AP!GetInterface
  <2>2. ApTaskOK(t) /\ t.pc = "insert"
    BY <1>0, <2>1 DEF ApTaskOK, PoolTypeOK
  <2> HIDE DEF t
  <2>3. /\ apTask' = [g \in ApHandlers |-> apTask'[g]] /\ apTask'[h] = t
        /\ \A g \in ApHandlers \ {h} : apTask'[g] = apTask[g]
        /\ \A g \in ApHandlers : ApTaskOK(apTask'[g])
    BY <1>0, <2>1, <2>2, ApTaskGoes
  <2>4. PoolTypeOK'
    BY <1>0, <2>1, <2>3 DEF PoolTypeOK
  <2>5. apTask[h] # AP!Idle
    BY <1>i, <2>1
  <2>6. RangeInv'
    BY <1>0, <2>1, <2>2, <2>3, <2>5 DEF RangeInv, InRange
  <2> QED BY <2>4, <2>6 DEF PoolInv
<1>3. ASSUME NEW h \in ApHandlers, AP!CreateClientAllocIp(h) PROVE PoolInv'
  <2> DEFINE n == apTask[h].net
             v4 == AP!FreeV4(n.v4, AP!UsedV4)
             v6 == IF n.v6 = AP!Unset THEN {AP!Null} ELSE AP!FreeV6(n.v6, AP!UsedV6)
             row == [v4 |-> AP!Min(v4), v6 |-> AP!Min(v6), mine |-> apTask[h].mine]
  <2>1. apTask[h].pc = "insert" /\ AP!Goto(h, AP!Idle) /\ UNCHANGED apNet
        /\ apExcused' = (apExcused \/ AP!Changing # {} \/ n # apNet)
    BY <1>3 DEF AP!CreateClientAllocIp
  <2>2. IF v4 = {} \/ v6 = {} \/ apNext > ApClients THEN UNCHANGED <<apRow, apNext>>
        ELSE /\ apRow' = [i \in DOMAIN apRow \cup {apNext} |-> IF i = apNext THEN row ELSE apRow[i]]
             /\ apNext' = apNext + 1
    BY <1>3 DEF AP!CreateClientAllocIp
  <2>3. /\ apTask' = [g \in ApHandlers |-> apTask'[g]] /\ apTask'[h] = AP!Idle
        /\ \A g \in ApHandlers \ {h} : apTask'[g] = apTask[g]
        /\ \A g \in ApHandlers : ApTaskOK(apTask'[g])
    BY <1>0, <1>i, <2>1, ApTaskGoes
  <2>4. n \in [v4 : ApV4, v6 : ApV6] /\ apTask[h].mine \in BOOLEAN
    BY <1>0, <2>1 DEF PoolTypeOK, ApTaskOK, ApNets
  <2>5. n.v4 \in ApNetworks /\ (n.v6 # AP!Unset => n.v6 \in ApNetworks)
    BY <2>4
  <2>6. v4 # {} => AP!Min(v4) \in Int /\ AP!Contains(n.v4, AP!Min(v4))
    BY <2>5, FreeAddress
  <2>7. v6 # {} => AP!Min(v6) \in Int /\ (n.v6 # AP!Unset => AP!Contains(n.v6, AP!Min(v6)))
    <3>1. CASE n.v6 = AP!Unset
      <4>1. AP!Min({AP!Null}) \in {AP!Null}
        BY MinIsTaken DEF AP!Null
      <4> QED BY <3>1, <4>1 DEF AP!Null
    <3>2. CASE n.v6 # AP!Unset
      BY <2>5, <3>2, FreeAddress
    <3> QED BY <3>1, <3>2
  <2>8. v4 # {} /\ v6 # {} => row \in ApRows /\ row.v4 = AP!Min(v4) /\ row.v6 = AP!Min(v6)
    BY <2>4, <2>6, <2>7 DEF ApRows
  <2> HIDE DEF row, v4, v6
  <2>9. /\ apRow' = [i \in DOMAIN apRow' |-> apRow'[i]] /\ DOMAIN apRow' \subseteq Nat /\ apNext' \in Nat
        /\ \A i \in DOMAIN apRow' : apRow'[i] \in ApRows
    BY <1>0, <2>2, <2>8 DEF PoolTypeOK
  <2>10. PoolTypeOK'
    BY <1>0, <2>1, <2>3, <2>9 DEF PoolTypeOK
  <2>11. ASSUME ~apExcused' PROVE RangeInv'
    <3>1. ~apExcused /\ n = apNet /\ \A g \in ApHandlers : apTask[g].pc \notin {"list", "reassign"}
      BY <1>c, <2>1, <2>11
    <3>2. \A g \in ApHandlers : apTask'[g].pc \notin {"list", "reassign"}
      BY <1>i, <2>3, <3>1
    <3>3. \A i \in DOMAIN apRow : InRange(i)
      BY <1>0, <3>1 DEF RangeInv
    <3>4. \A i \in DOMAIN apRow' : InRange(i)'
      BY <2>1, <2>2, <2>6, <2>7, <2>8, <3>1, <3>3 DEF InRange
    <3> QED BY <3>2, <3>4 DEF RangeInv
  <2> QED BY <2>10, <2>11 DEF PoolInv, RangeInv
<1>4. ASSUME NEW h \in ApHandlers, NEW n4 \in ApV4, NEW n6 \in ApV6, AP!UpdateCidr(h, n4, n6) PROVE PoolInv'
  <2> DEFINE t == [pc |-> "list"]
  <2>1. apTask[h] = AP!Idle /\ AP!Goto(h, t) /\ UNCHANGED <<apRow, apNext>> /\ apNet' = [v4 |-> n4, v6 |-> n6]
        /\ apExcused' = (AP!Busy # {})
    BY <1>4 DEF AP!UpdateCidr, AP!Begin
  <2>2. ApTaskOK(t) /\ t.pc = "list"
    BY DEF ApTaskOK
  <2> HIDE DEF t
  <2>3. /\ apTask' = [g \in ApHandlers |-> apTask'[g]] /\ apTask'[h] = t
        /\ \A g \in ApHandlers \ {h} : apTask'[g] = apTask[g]
        /\ \A g \in ApHandlers : ApTaskOK(apTask'[g])
    BY <1>0, <2>1, <2>2, ApTaskGoes
  <2>4. PoolTypeOK'
    BY <1>0, <2>1, <2>3 DEF PoolTypeOK, ApNets
  <2>5. ASSUME ~apExcused' PROVE RangeInv'
    <3>1. \A g \in ApHandlers : apTask[g] = AP!Idle
      BY <2>1, <2>5 DEF AP!Busy
    <3>2. \A g \in ApHandlers \ {h} : apTask'[g] = AP!Idle
      BY <2>3, <3>1
    <3> QED BY <1>i, <2>2, <2>3, <3>2 DEF RangeInv
  <2> QED BY <2>4, <2>5 DEF PoolInv, RangeInv
<1>5. ASSUME NEW h \in ApHandlers, AP!ListClients(h) PROVE PoolInv'
  <2> DEFINE t == [pc |-> "reassign", todo |-> DOMAIN apRow, net |-> apNet, v4 |-> {}, v6 |-> {}]
  <2>1. apTask[h].pc = "list" /\ AP!Goto(h, t) /\ UNCHANGED <<apNet, apRow, apNext, apExcused>>
    BY <1>5 DEF AP!ListClients
  <2>2. ApTaskOK(t) /\ t.pc = "reassign" /\ t.todo = DOMAIN apRow /\ t.net = apNet
    BY <1>0 DEF ApTaskOK, PoolTypeOK, Changes, ApNats, ApInts
  <2> HIDE DEF t
  <2>3. /\ apTask' = [g \in ApHandlers |-> apTask'[g]] /\ apTask'[h] = t
        /\ \A g \in ApHandlers \ {h} : apTask'[g] = apTask[g]
        /\ \A g \in ApHandlers : ApTaskOK(apTask'[g])
    BY <1>0, <2>1, <2>2, ApTaskGoes
  <2>4. PoolTypeOK'
    BY <1>0, <2>1, <2>3 DEF PoolTypeOK
  <2>5. ASSUME ~apExcused PROVE RangeInv'
    <3>1. \A g \in ApHandlers \ {h} : apTask[g] = AP!Idle /\ apTask'[g] = AP!Idle
      BY <1>0, <2>1, <2>3, <2>5 DEF RangeInv
    <3> QED BY <1>i, <2>1, <2>2, <2>3, <3>1 DEF RangeInv
  <2> QED BY <2>1, <2>4, <2>5 DEF PoolInv, RangeInv
<1>6. ASSUME NEW h \in ApHandlers, AP!Reassign(h) PROVE PoolInv'
  <2>0. PICK i : i = AP!Min(apTask[h].todo)
    OBVIOUS
  <2> DEFINE l == apTask[h]
             v4 == AP!FreeV4(l.net.v4, l.v4)
             v6 == IF l.net.v6 = AP!Unset THEN {AP!Null} ELSE AP!FreeV6(l.net.v6, l.v6)
             fails == v4 = {} \/ v6 = {} \/ (i \in DOMAIN apRow /\ AP!Conflict(i, AP!Min(v4), AP!Min(v6)))
             t == IF fails THEN AP!Idle
                  ELSE [l EXCEPT !.todo = @ \ {i}, !.v4 = @ \cup {AP!Min(v4)}, !.v6 = @ \cup {AP!Min(v6)}]
  <2>1. l.pc = "reassign" /\ l.todo # {} /\ AP!Goto(h, t) /\ apExcused' = (apExcused \/ fails)
        /\ UNCHANGED <<apNet, apNext>>
    BY <1>6, <2>0 DEF AP!Reassign
  <2>2. apRow' = IF fails \/ i \notin DOMAIN apRow THEN apRow
                 ELSE [apRow EXCEPT ![i].v4 = AP!Min(v4),
                                    ![i].v6 = IF l.net.v6 = AP!Unset THEN @ ELSE AP!Min(v6)]
    BY <1>6, <2>0 DEF AP!Reassign
  <2>3. l \in Changes /\ l.net \in [v4 : ApV4, v6 : ApV6]
    BY <1>0, <2>1 DEF PoolTypeOK, ApTaskOK, Changes, ApNets
  <2>4. \A a \in Int, b \in Int :
            LET e == [l EXCEPT !.todo = @ \ {i}, !.v4 = @ \cup {a}, !.v6 = @ \cup {b}]
            IN  e \in Changes /\ e.pc = "reassign" /\ e.todo = l.todo \ {i} /\ e.net = l.net
    <3> TAKE a \in Int, b \in Int
    <3> DEFINE e == [l EXCEPT !.todo = @ \ {i}, !.v4 = @ \cup {a}, !.v6 = @ \cup {b}]
    <3>1. l.todo \ {i} \in ApNats /\ l.v4 \cup {a} \in ApInts /\ l.v6 \cup {b} \in ApInts
      BY <2>3 DEF Changes, ApNats, ApInts
    <3>2. e \in Changes
      BY <2>3, <3>1 DEF Changes
    <3>3. e.pc = "reassign" /\ e.todo = l.todo \ {i} /\ e.net = l.net
      BY <2>3 DEF Changes
    <3> QED BY <3>2, <3>3
  <2>5. l.net.v4 \in ApNetworks /\ (l.net.v6 # AP!Unset => l.net.v6 \in ApNetworks)
    BY <2>3
  <2>6. v4 # {} => AP!Min(v4) \in Int /\ AP!Contains(l.net.v4, AP!Min(v4))
    BY <2>5, FreeAddress
  <2>7. v6 # {} /\ l.net.v6 # AP!Unset => AP!Min(v6) \in Int /\ AP!Contains(l.net.v6, AP!Min(v6))
    BY <2>5, FreeAddress
  <2>a. v6 # {} => AP!Min(v6) \in Int
    <3>1. AP!Min({AP!Null}) \in {AP!Null}
      BY MinIsTaken DEF AP!Null
    <3> QED BY <2>7, <3>1 DEF AP!Null
  <2>10. ~fails => v4 # {} /\ v6 # {}
    OBVIOUS
  <2> HIDE DEF fails, v4, v6
  <2>8. ApTaskOK(t) /\ t.pc = (IF fails THEN "idle" ELSE "reassign")
        /\ (~fails => t.todo = l.todo \ {i} /\ t.net = l.net)
    <3>1. CASE fails
      BY <1>i, <3>1
    <3>2. CASE ~fails
      BY <2>3, <2>4, <2>6, <2>a, <2>10, <3>2 DEF ApTaskOK, Changes
    <3> QED BY <3>1, <3>2
  <2> HIDE DEF t
  <2>9. /\ apTask' = [g \in ApHandlers |-> apTask'[g]] /\ apTask'[h] = t
        /\ \A g \in ApHandlers \ {h} : apTask'[g] = apTask[g]
        /\ \A g \in ApHandlers : ApTaskOK(apTask'[g])
    BY <1>0, <2>1, <2>8, ApTaskGoes
  <2>11. DOMAIN apRow' = DOMAIN apRow /\ apRow' = [j \in DOMAIN apRow |-> apRow'[j]]
         /\ \A j \in DOMAIN apRow : j # i => apRow'[j] = apRow[j]
    BY <1>0, <2>2 DEF PoolTypeOK
  <2>12. ASSUME ~fails, i \in DOMAIN apRow
         PROVE  /\ apRow'[i] \in ApRows /\ apRow'[i].v4 = AP!Min(v4)
                /\ l.net.v6 # AP!Unset => apRow'[i].v6 = AP!Min(v6)
    <3>1. apRow = [j \in DOMAIN apRow |-> apRow[j]] /\ apRow[i] \in ApRows
      BY <1>0, <2>12 DEF PoolTypeOK
    <3>2. AP!Min(v4) \in Int /\ (l.net.v6 # AP!Unset => AP!Min(v6) \in Int)
      BY <2>6, <2>7, <2>10, <2>12
    <3>3. CASE l.net.v6 = AP!Unset
      <4>1. apRow'[i] = [v4 |-> AP!Min(v4), v6 |-> apRow[i].v6, mine |-> apRow[i].mine]
        BY <2>2, <2>12, <3>1, <3>3 DEF ApRows
      <4> QED BY <3>1, <3>2, <3>3, <4>1 DEF ApRows
    <3>4. CASE l.net.v6 # AP!Unset
      <4>1. apRow'[i] = [v4 |-> AP!Min(v4), v6 |-> AP!Min(v6), mine |-> apRow[i].mine]
        BY <2>2, <2>12, <3>1, <3>4 DEF ApRows
      <4> QED BY <3>1, <3>2, <3>4, <4>1 DEF ApRows
    <3> QED BY <3>3, <3>4
  <2>13. \A j \in DOMAIN apRow : apRow'[j] \in ApRows
    BY <1>0, <2>2, <2>11, <2>12 DEF PoolTypeOK
  <2>14. PoolTypeOK'
    BY <1>0, <2>1, <2>9, <2>11, <2>13 DEF PoolTypeOK
  <2>15. ASSUME ~apExcused' PROVE RangeInv'
    <3>1. ~apExcused /\ ~fails
      BY <2>1, <2>15
    <3>2. \A g \in ApHandlers \ {h} : apTask[g] = AP!Idle /\ apTask'[g] = AP!Idle
      BY <1>0, <2>1, <2>9, <3>1 DEF RangeInv
    <3>3. l.net = apNet
      BY <1>0, <2>1, <3>1 DEF RangeInv
    <3>4. \A j \in DOMAIN apRow : j \in l.todo \/ InRange(j)
      <4>1. \A j \in DOMAIN apRow : InRange(j)
               \/ \E g \in ApHandlers : apTask[g].pc = "list" \/ (apTask[g].pc = "reassign" /\ j \in apTask[g].todo)
        BY <1>0, <3>1 DEF RangeInv
      <4>2. \A g \in ApHandlers \ {h} : apTask[g].pc = "idle"
        BY <1>i, <3>2
      <4> QED BY <2>1, <4>1, <4>2
    <3>5. i \in DOMAIN apRow => InRange(i)'
      BY <2>1, <2>6, <2>7, <2>10, <2>12, <3>1, <3>3 DEF InRange
    <3>6. \A j \in DOMAIN apRow \ {i} : InRange(j) => InRange(j)'
      BY <2>1, <2>11 DEF InRange
    <3> QED BY <1>i, <2>1, <2>8, <2>9, <2>11, <3>1, <3>2, <3>3, <3>4, <3>5, <3>6 DEF RangeInv
  <2> QED BY <2>14, <2>15 DEF PoolInv, RangeInv
<1>7. ASSUME NEW h \in ApHandlers, AP!ChangeReturns(h) PROVE PoolInv'
  <2>1. apTask[h].pc = "reassign" /\ apTask[h].todo = {} /\ AP!Goto(h, AP!Idle)
        /\ UNCHANGED <<apNet, apRow, apNext, apExcused>>
    BY <1>7 DEF AP!ChangeReturns
  <2>2. /\ apTask' = [g \in ApHandlers |-> apTask'[g]] /\ apTask'[h] = AP!Idle
        /\ \A g \in ApHandlers \ {h} : apTask'[g] = apTask[g]
        /\ \A g \in ApHandlers : ApTaskOK(apTask'[g])
    BY <1>0, <1>i, <2>1, ApTaskGoes
  <2>3. PoolTypeOK'
    BY <1>0, <2>1, <2>2 DEF PoolTypeOK
  <2>4. ASSUME ~apExcused PROVE RangeInv'
    <3>1. \A g \in ApHandlers : apTask'[g] = AP!Idle /\ (g # h => apTask[g] = AP!Idle)
      BY <1>0, <2>1, <2>2, <2>4 DEF RangeInv
    <3>2. \A j \in DOMAIN apRow : InRange(j)
      BY <1>0, <1>i, <2>1, <2>4, <3>1 DEF RangeInv
    <3> QED BY <1>i, <2>1, <3>1, <3>2 DEF RangeInv, InRange
  <2> QED BY <2>1, <2>3, <2>4 DEF PoolInv, RangeInv
<1>8. ASSUME NEW h \in ApHandlers, AP!WriteClient(h) PROVE PoolInv'
  <2> DEFINE l == apTask[h]
  <2>1. l.pc = "write" /\ AP!Goto(h, AP!Idle) /\ UNCHANGED <<apNet, apNext>>
        /\ apExcused' = (apExcused \/ AP!Changing # {} \/ l.net # apNet)
    BY <1>8 DEF AP!WriteClient
  <2>2. apRow' = apRow \/ (l.id \in DOMAIN apRow /\ apRow' = [apRow EXCEPT ![l.id].v4 = l.v4])
    BY <1>8 DEF AP!WriteClient
  <2>3. /\ apTask' = [g \in ApHandlers |-> apTask'[g]] /\ apTask'[h] = AP!Idle
        /\ \A g \in ApHandlers \ {h} : apTask'[g] = apTask[g]
        /\ \A g \in ApHandlers : ApTaskOK(apTask'[g])
    BY <1>0, <1>i, <2>1, ApTaskGoes
  <2>4. l.v4 \in Int /\ AP!Contains(l.net.v4, l.v4)
    BY <1>0, <2>1 DEF PoolTypeOK, ApTaskOK
  <2>5. /\ DOMAIN apRow' = DOMAIN apRow /\ apRow' = [j \in DOMAIN apRow |-> apRow'[j]]
        /\ \A j \in DOMAIN apRow : apRow'[j] = apRow[j]
             \/ apRow'[j] = [v4 |-> l.v4, v6 |-> apRow[j].v6, mine |-> apRow[j].mine]
    <3>1. apRow = [j \in DOMAIN apRow |-> apRow[j]] /\ \A j \in DOMAIN apRow : apRow[j] \in ApRows
      BY <1>0 DEF PoolTypeOK
    <3>2. CASE apRow' = apRow
      BY <3>1, <3>2
    <3>3. CASE l.id \in DOMAIN apRow /\ apRow' = [apRow EXCEPT ![l.id].v4 = l.v4]
      <4>1. apRow'[l.id] = [v4 |-> l.v4, v6 |-> apRow[l.id].v6, mine |-> apRow[l.id].mine]
        BY <3>1, <3>3 DEF ApRows
      <4> QED BY <3>1, <3>3, <4>1
    <3> QED BY <2>2, <3>2, <3>3
  <2>6. PoolTypeOK'
    BY <1>0, <2>1, <2>3, <2>4, <2>5 DEF PoolTypeOK, ApRows
  <2>7. ASSUME ~apExcused' PROVE RangeInv'
    <3>1. ~apExcused /\ l.net = apNet /\ \A g \in ApHandlers : apTask[g].pc \notin {"list", "reassign"}
      BY <1>c, <2>1, <2>7
    <3>2. \A g \in ApHandlers : apTask'[g].pc \notin {"list", "reassign"}
      BY <1>i, <2>3, <3>1
    <3>3. \A j \in DOMAIN apRow : InRange(j)
      BY <1>0, <3>1 DEF RangeInv
    <3>4. \A j \in DOMAIN apRow : InRange(j)'
      BY <2>1, <2>4, <2>5, <3>1, <3>3 DEF InRange
    <3> QED BY <2>5, <3>2, <3>4 DEF RangeInv
  <2> QED BY <2>6, <2>7 DEF PoolInv, RangeInv
<1>9. ASSUME NEW h \in ApHandlers, NEW i \in DOMAIN apRow, AP!DeleteClient(h, i) PROVE PoolInv'
  <2>1. apTask[h] = AP!Idle /\ apRow' = [j \in DOMAIN apRow \ {i} |-> apRow[j]]
        /\ UNCHANGED <<apNet, apNext, apTask>>
        /\ apExcused' = (apExcused \/ AP!Changing # {})
    BY <1>9 DEF AP!DeleteClient, AP!Begin, AP!Overlaps
  <2>2. PoolTypeOK'
    BY <1>0, <2>1 DEF PoolTypeOK
  <2>3. ASSUME ~apExcused' PROVE RangeInv'
    <3>1. ~apExcused
      BY <2>1, <2>3
    <3> QED BY <1>0, <2>1, <3>1 DEF RangeInv, InRange
  <2> QED BY <2>2, <2>3 DEF PoolInv, RangeInv
<1>10. ASSUME NEW h \in ApHandlers, NEW i \in DOMAIN apRow, NEW a \in Int, AP!UpdateClient(h, i, a)
      PROVE  PoolInv'
  <2> DEFINE t == [pc |-> "write", id |-> i, v4 |-> a, net |-> apNet]
  <2>1. apTask[h] = AP!Idle /\ AP!Goto(h, t) /\ UNCHANGED <<apNet, apRow, apNext>>
        /\ apExcused' = (apExcused \/ AP!Changing # {}) /\ AP!Contains(apNet.v4, a)
    BY <1>10 DEF AP!UpdateClient, AP!Begin, AP!Overlaps
  <2>2. ApTaskOK(t) /\ t.pc = "write"
    BY <2>1 DEF ApTaskOK
  <2> HIDE DEF t
  <2>3. /\ apTask' = [g \in ApHandlers |-> apTask'[g]] /\ apTask'[h] = t
        /\ \A g \in ApHandlers \ {h} : apTask'[g] = apTask[g]
        /\ \A g \in ApHandlers : ApTaskOK(apTask'[g])
    BY <1>0, <2>1, <2>2, ApTaskGoes
  <2>4. PoolTypeOK'
    BY <1>0, <2>1, <2>3 DEF PoolTypeOK
  <2>5. ASSUME ~apExcused' PROVE RangeInv'
    <3>1. ~apExcused /\ \A g \in ApHandlers : apTask[g].pc \notin {"list", "reassign"}
      BY <1>c, <2>1, <2>5
    <3>2. \A g \in ApHandlers : apTask'[g].pc \notin {"list", "reassign"}
      BY <2>2, <2>3, <3>1
    <3>3. \A j \in DOMAIN apRow : InRange(j)
      BY <1>0, <3>1 DEF RangeInv
    <3> QED BY <2>1, <3>2, <3>3 DEF RangeInv, InRange
  <2> QED BY <2>4, <2>5 DEF PoolInv, RangeInv
<1>11. CASE UNCHANGED AP!vars
  BY <1>0, <1>11 DEF AP!vars, PoolInv, PoolTypeOK, RangeInv, InRange
<1>12. \A n \in ApV4 : AP!Network(n) + 1 \in Int /\ AP!Network(n) + 3 \in Int
  BY NetworkIsInt
<1> QED
  BY <1>1, <1>2, <1>3, <1>4, <1>5, <1>6, <1>7, <1>8, <1>9, <1>10, <1>11, <1>12 DEF AP!Next

(* Once a change of network went through alone, every peer has its         *)
(* addresses in it, those created and moved since included, for any        *)
(* networks: what the allocator hands out and what update_client accepts   *)
(* is never outside (create_client_alloc_ip, change_cidr, update_client).  *)
THEOREM PeersStayInTheRange ==
    ASSUME ApV4 \subseteq ApNetworks, ApV6 \subseteq ApNetworks \cup {AP!Unset}
    PROVE  AP!Spec => []PeersAreInTheRange
<1>1. AP!Init => PoolInv
  <2> SUFFICES ASSUME AP!Init PROVE PoolInv
    OBVIOUS
  <2>1. ApTaskOK(AP!Idle) /\ AP!Idle.pc = "idle"
    BY DEF ApTaskOK, AP!Idle
  <2>2. DOMAIN apRow = {} /\ apRow = [i \in {} |-> apRow[i]]
    BY DEF AP!Init
  <2>3. PoolTypeOK
    BY <2>1, <2>2 DEF AP!Init, PoolTypeOK, ApNets
  <2> QED BY <2>1, <2>2, <2>3 DEF AP!Init, PoolInv, RangeInv
<1>2. PoolInv /\ [AP!Next]_(AP!vars) => PoolInv'
  BY PoolStep
<1>3. PoolInv => PeersAreInTheRange
  <2>1. AP!Idle.pc = "idle"
    BY DEF AP!Idle
  <2> QED BY <2>1 DEF PoolInv, RangeInv, InRange, PeersAreInTheRange, AP!PeersAreInTheRange, AP!Busy
<1> QED
  BY <1>1, <1>2, <1>3, PTL DEF AP!Spec

-----------------------------------------------------------------------------
(* Secrets at rest: every encrypted column, under any sequence of writes,  *)
(* restarts and changes of the key.                                        *)

(* Not encrypted, or under one of the two keys.                            *)
SecretLayers == {<<>>, <<1>>, <<2>>}

(* A secret, one that looks like ciphertext, the empty string and an       *)
(* absent one.                                                             *)
SecretValues == {"a", "b", "enc$", "empty", "none"}

(* What a cell may hold.                                                   *)
SecretRecords == [layers : SecretLayers, value : SecretValues]

(* A cell is encrypted at most once, and only what is a secret is.         *)
StoredInv(s) ==
    /\ s \in SecretRecords
    /\ s.layers # <<>> => s.value \in {"a", "b"}

(* The inductive invariant: a cell holds the secret last written, in plain *)
(* or under one key, and the last answer was that secret, nothing or a     *)
(* failure.                                                                *)
SecretsInv ==
    /\ scCell \in SC!EncryptedColumns
    /\ scKey \in SC!Keys
    /\ StoredInv(scStored)
    /\ scWritten = scStored.value
    /\ scAnswer \in {SC!None, SC!Failure} \/ scAnswer = SC!Plain(scWritten)

(* Each column that is encrypted when written is decrypted by the row it   *)
(* is read with.                                                           *)
LEMMA EveryColumnIsDecrypted ==
    ASSUME NEW c \in SC!EncryptedColumns
    PROVE  c[2] \in SC!FromRow[c[1]]
<1> USE DEF SC!FromRow, SC!InterfaceRow, SC!ClientRow, SC!UserRow, SC!GeneralRow, SC!OneTimeLinkRow,
       SC!XrayInboundRow,
    SC!XrayClientRow, SC!TrustTunnelInboundRow, SC!TrustTunnelUserRow, SC!MdnsvpnInboundRow, SC!MdnsvpnClientRow,
    SC!MtproxyUserRow
<1> QED BY DEF SC!EncryptedColumns

(* A cell without layers is plain.                                         *)
LEMMA PlainRecord ==
    ASSUME NEW s \in SecretRecords, s.layers = <<>>
    PROVE  s = SC!Plain(s.value)
BY DEF SecretRecords, SC!Plain

(* What a plain cell consists of.                                          *)
LEMMA PlainFields ==
    ASSUME NEW v \in SecretValues
    PROVE  SC!Plain(v) \in SecretRecords /\ SC!Plain(v).layers = <<>> /\ SC!Plain(v).value = v /\ StoredInv(SC!Plain(v))
<1>1. SC!Plain(v) \in SecretRecords
  BY DEF SC!Plain, SecretRecords, SecretLayers
<1>2. SC!Plain(v).layers = <<>> /\ SC!Plain(v).value = v
  BY DEF SC!Plain
<1> QED BY <1>1, <1>2 DEF StoredInv

(* Encrypting keeps the secret and never adds a second layer.              *)
LEMMA EncKeepsTheSecret ==
    ASSUME NEW s, StoredInv(s), s # SC!None, NEW key \in SC!Keys
    PROVE  StoredInv(SC!Enc(s, key)) /\ SC!Enc(s, key).value = s.value
<1>1. CASE s = SC!Empty \/ SC!IsEncrypted(s) \/ key = SC!NoKey
  BY <1>1 DEF SC!Enc, SC!Encrypt
<1>2. CASE s # SC!Empty /\ ~SC!IsEncrypted(s) /\ key # SC!NoKey
  <2> DEFINE e == [s EXCEPT !.layers = <<key>> \o @]
  <2>1. SC!Enc(s, key) = e
    BY <1>2 DEF SC!Enc, SC!Encrypt
  <2>2. s \in SecretRecords /\ s.layers = <<>> /\ s.value # "enc$"
    BY <1>2 DEF SC!IsEncrypted, StoredInv
  <2>3. <<key>> \o s.layers = <<key>> /\ <<key>> \in SecretLayers
    BY <2>2, <1>2 DEF SC!Keys, SC!NoKey, SecretLayers
  <2>4. s.value # "empty" /\ s.value # "none"
    BY <2>2, <1>2, PlainRecord DEF SC!Empty, SC!None, SC!Plain
  <2>5. e = [s EXCEPT !.layers = <<key>>]
    BY <2>3
  <2>6. e \in SecretRecords
    BY <2>2, <2>3, <2>5 DEF SecretRecords
  <2>7. e.value = s.value
    BY <2>2 DEF SecretRecords
  <2>8. s.value \in {"a", "b"}
    BY <2>2, <2>4 DEF SecretRecords, SecretValues
  <2> HIDE DEF e
  <2> QED BY <2>1, <2>6, <2>7, <2>8 DEF StoredInv
<1> QED BY <1>1, <1>2

(* Decrypting a cell gives its secret or fails, under whichever key.       *)
LEMMA DecReturnsTheSecret ==
    ASSUME NEW s, StoredInv(s), NEW key \in SC!Keys
    PROVE  SC!Dec(s, key) \in {SC!Failure, SC!Plain(s.value)}
<1>0. s \in SecretRecords
  BY DEF StoredInv
<1>1. CASE s.layers = <<>>
  <2>1. s = SC!Plain(s.value)
    BY <1>0, <1>1, PlainRecord
  <2>2. SC!Dec(s, key) = s \/ SC!Dec(s, key) = SC!Failure
    BY <1>1 DEF SC!Dec, SC!Decrypt
  <2> QED BY <2>1, <2>2
<1>2. CASE s.layers # <<>>
  <2>1. s # SC!Empty /\ SC!IsEncrypted(s)
    BY <1>2 DEF SC!Empty, SC!IsEncrypted
  <2>2. CASE key = SC!NoKey \/ Head(s.layers) # key
    BY <2>1, <2>2 DEF SC!Dec, SC!Decrypt
  <2>3. CASE key # SC!NoKey /\ Head(s.layers) = key
    <3> DEFINE d == [s EXCEPT !.layers = Tail(@)]
    <3>1. SC!Dec(s, key) = d
      BY <1>2, <2>1, <2>3 DEF SC!Dec, SC!Decrypt
    <3>2. Tail(s.layers) = <<>>
      <4>1. PICK k : s.layers = <<k>>
        BY <1>0, <1>2 DEF SecretRecords, SecretLayers
      <4>2. <<k>> \in Seq({k}) /\ <<k>> # <<>> /\ Len(<<k>>) = 1
        OBVIOUS
      <4>3. Tail(<<k>>) \in Seq({k}) /\ Len(Tail(<<k>>)) = 0
        BY <4>2, HeadTailProperties
      <4>4. Tail(<<k>>) = <<>>
        BY <4>3, EmptySeq
      <4> QED BY <4>1, <4>4
    <3>3. d = [s EXCEPT !.layers = <<>>]
      BY <3>2
    <3>4. d \in SecretRecords /\ d.layers = <<>> /\ d.value = s.value
      BY <1>0, <3>3 DEF SecretRecords, SecretLayers
    <3> HIDE DEF d
    <3> QED BY <3>1, <3>4, PlainRecord
  <2> QED BY <2>2, <2>3
<1> QED BY <1>1, <1>2

(* Every step keeps SecretsInv: the sweep at start, writes with and        *)
(* without a key, reads and changes of the key.                            *)
LEMMA SecretsStep ==
    ASSUME SecretsInv, [SC!Next]_(SC!vars)
    PROVE  SecretsInv'
<1>e. SC!Empty = SC!Plain("empty") /\ SC!None = SC!Plain("none")
  BY DEF SC!Empty, SC!None, SC!Plain
<1>s. StoredInv(SC!Empty) /\ StoredInv(SC!None) /\ SC!Empty.value = "empty" /\ SC!None.value = "none"
  BY <1>e, PlainFields DEF SecretValues
<1>1. ASSUME NEW key \in SC!Keys, SC!Start(key) PROVE SecretsInv'
  BY <1>1 DEF SC!Start, SecretsInv
<1>2. CASE SC!EncryptPlaintextSecrets
  <2>1. StoredInv(scStored') /\ scStored'.value = scStored.value
    <3>1. CASE scKey # SC!NoKey /\ scStored # SC!None
      BY <3>1, <1>2, EncKeepsTheSecret DEF SC!EncryptPlaintextSecrets, SecretsInv
    <3>2. CASE ~(scKey # SC!NoKey /\ scStored # SC!None)
      BY <3>2, <1>2 DEF SC!EncryptPlaintextSecrets, SecretsInv
    <3> QED BY <3>1, <3>2
  <2> QED BY <2>1, <1>2 DEF SC!EncryptPlaintextSecrets, SecretsInv
<1>3. CASE SC!Read
  <2>1. scAnswer' = SC!Dec(scStored, scKey)
    BY <1>3, EveryColumnIsDecrypted DEF SC!Read, SecretsInv
  <2>2. scAnswer' \in {SC!Failure, SC!Plain(scStored.value)}
    BY <2>1, DecReturnsTheSecret DEF SecretsInv
  <2> QED BY <2>2, <1>3 DEF SC!Read, SecretsInv
<1>4. CASE SC!Crash
  BY <1>4 DEF SC!Crash, SecretsInv
<1>5. ASSUME NEW c \in SC!Calls[scCell[1]], SC!Remove(c) PROVE SecretsInv'
  BY <1>5, <1>s DEF SC!Remove, SecretsInv
<1>6. ASSUME NEW c \in SC!Calls[scCell[1]], NEW v \in SC!Values \cup {"empty"}, SC!Write(c, v)
      PROVE  SecretsInv'
  <2>1. v \in SecretValues /\ v # "none"
    BY DEF SC!Values, SecretValues
  <2>2. StoredInv(SC!Plain(v)) /\ SC!Plain(v).value = v /\ SC!Plain(v) # SC!None
    BY <2>1, <1>e, <1>s, PlainFields
  <2>3. StoredInv(SC!Written(c, v)) /\ SC!Written(c, v).value = v
    BY <2>2, EncKeepsTheSecret DEF SC!Written, SecretsInv
  <2>4. scStored' = SC!Written(c, v) /\ scWritten' = v /\ scAnswer' = SC!None /\ UNCHANGED <<scCell, scKey>>
    BY <1>6 DEF SC!Write
  <2> HIDE DEF SC!Written
  <2> QED BY <2>3, <2>4 DEF SecretsInv
<1>7. CASE UNCHANGED SC!vars
  BY <1>7 DEF SC!vars, SecretsInv
<1> QED BY <1>1, <1>2, <1>3, <1>4, <1>5, <1>6, <1>7 DEF SC!Next

(* A read returns the secret as it was written or fails, and never         *)
(* ciphertext or a secret decrypted twice, whichever keys the server ran   *)
(* with in between (the secrets module's enc and dec, and the rows of      *)
(* db.rs).                                                                 *)
THEOREM SecretsAreReadBack == SC!Spec => []ReadReturnsTheSecret
<1>1. SC!Init => SecretsInv
  <2> SUFFICES ASSUME SC!Init PROVE SecretsInv
    OBVIOUS
  <2>1. StoredInv(SC!Empty) /\ StoredInv(SC!None)
    <3>1. SC!Empty = SC!Plain("empty") /\ SC!None = SC!Plain("none")
      BY DEF SC!Empty, SC!None, SC!Plain
    <3> QED BY <3>1, PlainFields DEF SecretValues
  <2> QED BY <2>1 DEF SC!Init, SecretsInv, SC!Keys, SC!NoKey
<1>2. SecretsInv => ReadReturnsTheSecret
  BY DEF SecretsInv, ReadReturnsTheSecret, SC!ReadReturnsTheSecret
<1> QED BY <1>1, <1>2, SecretsStep, PTL DEF SC!Spec

-----------------------------------------------------------------------------
(* Private keys and one-time links: any number of requests, clients, keys  *)
(* and tokens.                                                             *)

(* Where a request may stand.                                              *)
KeyPcs == {"idle", "insert", "replace", "unlink", "save", "issue", "render", "build",
           "link_config", "link_insert", "mode_write"}

(* What a request holds between its steps.                                 *)
KeyLocals == [id : Nat, key : Nat, issued : BOOLEAN, retain : BOOLEAN, token : Nat, mode : CK!Modes]

(* The types of the tables, the requests and what has been sent.           *)
KeysTypeOK ==
    /\ ckNextId \in Nat /\ ckNextKey \in Nat \ {0} /\ ckNextToken \in Nat \ {0}
    /\ ckMode \in CK!Modes
    /\ ckRows = [i \in DOMAIN ckRows |-> ckRows[i]] /\ DOMAIN ckRows \subseteq Nat
    /\ \A i \in DOMAIN ckRows : ckRows[i] \in [pub : Nat, priv : Nat]
    /\ ckLinks = [i \in DOMAIN ckLinks |-> ckLinks[i]] /\ DOMAIN ckLinks \subseteq Nat
    /\ \A i \in DOMAIN ckLinks : ckLinks[i] \in [token : Nat, live : BOOLEAN]
    /\ ckPc \in [CkHandlers -> KeyPcs]
    /\ ckLoc \in [CkHandlers -> KeyLocals]
    /\ ckSent \subseteq [via : {"issue", "download", "link"}, key : Nat, token : Nat]
    /\ ckOnce \subseteq Nat

(* A token is in one link's row, in one request's hands or spent, and      *)
(* never in two of these.                                                  *)
TokenInv ==
    /\ \A i \in DOMAIN ckLinks :
        /\ 0 < ckLinks[i].token /\ ckLinks[i].token < ckNextToken
        /\ \A j \in DOMAIN ckLinks : ckLinks[i].token = ckLinks[j].token => i = j
        /\ \A d \in ckSent : d.token # ckLinks[i].token
    /\ \A d \in ckSent : d.token < ckNextToken
    /\ \A h \in CkHandlers : CK!Holds(h, ckLoc[h].token) /\ ckLoc[h].token > 0 =>
        /\ ckLoc[h].token < ckNextToken
        /\ \A g \in CkHandlers : CK!Holds(g, ckLoc[h].token) => g = h
        /\ \A d \in ckSent : d.token # ckLoc[h].token
        /\ \A i \in DOMAIN ckLinks : ckLinks[i].token # ckLoc[h].token

(* A key that is not retained is in no row and has gone out only with the  *)
(* answer that issued it; the request that holds it was told not to keep   *)
(* it.                                                                     *)
KeyInv ==
    /\ \A k \in ckOnce : 0 < k /\ k < ckNextKey
    /\ \A i \in DOMAIN ckRows : ckRows[i].priv < ckNextKey /\ ckRows[i].priv \notin ckOnce
    /\ \A d \in ckSent : d.key < ckNextKey /\ (d.via # "issue" => d.key \notin ckOnce)
    /\ \A h \in CkHandlers :
        ckLoc[h].key < ckNextKey /\ (ckLoc[h].key \in ckOnce /\ ckLoc[h].issued => ~ckLoc[h].retain)

(* The inductive invariant.                                                *)
KeysInv == KeysTypeOK /\ TokenInv /\ KeyInv

(* Generating a key pair keeps the types.                                  *)
LEMMA GenerateType ==
    ASSUME KeysTypeOK, NEW h \in CkHandlers, NEW l \in {"insert", "replace"}, NEW id \in Nat,
           CK!Generate(h, l, id)
    PROVE  KeysTypeOK'
<1> USE DEF KeysTypeOK, KeyPcs, KeyLocals, CK!Modes, CK!NoLocal, CK!NoKey, CK!NoToken, CK!Goto
<1>1. PICK issued \in BOOLEAN : CK!Generate(h, l, id)!1!(issued)
  BY DEF CK!Generate
<1>2. [CK!NoLocal EXCEPT !.id = id, !.key = ckNextKey, !.issued = issued,
                         !.retain = (ckMode = "plaintext")] \in KeyLocals
  OBVIOUS
<1>3. ckOnce' \subseteq Nat
  BY <1>1
<1> QED
  BY <1>1, <1>2, <1>3 DEF CK!Generate, CK!Accept

(* A link whose time is up keeps its token.                                *)
(* A link whose time is up keeps its token.                                *)
LEMMA LinkDies ==
    ASSUME NEW S, NEW L \in [S -> [token : Nat, live : BOOLEAN]], NEW id \in S
    PROVE  [L EXCEPT ![id].live = FALSE] \in [S -> [token : Nat, live : BOOLEAN]]
<1>1. [L[id] EXCEPT !.live = FALSE] \in [token : Nat, live : BOOLEAN]
  <2>1. L[id] \in [token : Nat, live : BOOLEAN]
    OBVIOUS
  <2> QED BY <2>1
<1> QED BY <1>1, Zenon

(* Every step of the key handlers keeps their types.                        *)
(* Every step keeps the types.                                             *)
LEMMA KeysTypeStep ==
    ASSUME KeysInv, [CK!Next]_(CK!vars)
    PROVE  KeysTypeOK'
<1> USE DEF KeysInv, CK!Goto, CK!NoLocal, CK!NoKey, CK!NoToken, CK!Modes, KeyPcs, KeyLocals, KeysTypeOK
<1>1. ASSUME NEW h \in CkHandlers, CK!CreateClient(h) PROVE KeysTypeOK'
  BY <1>1, GenerateType DEF CK!CreateClient
<1>2. ASSUME NEW h \in CkHandlers, CK!InsertClient(h) PROVE KeysTypeOK'
  <2> USE <1>2 DEF CK!InsertClient, CK!StoredKey
  <2>1. ckRows' = [i \in DOMAIN ckRows' |-> ckRows'[i]] /\ DOMAIN ckRows' \subseteq Nat
    OBVIOUS
  <2>2. \A i \in DOMAIN ckRows' : ckRows'[i] \in [pub : Nat, priv : Nat]
    OBVIOUS
  <2>3. ckLoc' \in [CkHandlers -> KeyLocals]
    OBVIOUS
  <2> QED BY <2>1, <2>2, <2>3
<1>3. ASSUME NEW h \in CkHandlers, CK!RotateClientKey(h) PROVE KeysTypeOK'
  BY <1>3, GenerateType DEF CK!RotateClientKey
<1>4. ASSUME NEW h \in CkHandlers, CK!UpdateClientKeypair(h) PROVE KeysTypeOK'
  BY <1>4, ZenonT(40) DEF CK!UpdateClientKeypair, CK!StoredKey
<1>5. ASSUME NEW h \in CkHandlers, CK!DeleteOneTimeLink(h) PROVE KeysTypeOK'
  BY <1>5 DEF CK!DeleteOneTimeLink
<1>6. ASSUME NEW h \in CkHandlers, CK!SaveConfig(h) PROVE KeysTypeOK'
  BY <1>6 DEF CK!SaveConfig
<1>7. ASSUME NEW h \in CkHandlers, CK!Issue(h) PROVE KeysTypeOK'
  BY <1>7 DEF CK!Issue, CK!Return
<1>8. ASSUME NEW h \in CkHandlers, CK!Download(h) PROVE KeysTypeOK'
  <2>1. PICK id \in DOMAIN ckRows : CK!Download(h)!1!(id)
    BY <1>8 DEF CK!Download
  <2>2. [CK!NoLocal EXCEPT !.id = id] \in KeyLocals
    OBVIOUS
  <2> QED BY <1>8, <2>1, <2>2 DEF CK!Download, CK!Accept
<1>9. ASSUME NEW h \in CkHandlers, CK!GenerateOneTimeLink(h) PROVE KeysTypeOK'
  <2>1. PICK id \in DOMAIN ckRows : CK!GenerateOneTimeLink(h)!1!(id)
    BY <1>9 DEF CK!GenerateOneTimeLink
  <2>2. [CK!NoLocal EXCEPT !.id = id] \in KeyLocals
    OBVIOUS
  <2> QED BY <1>9, <2>1, <2>2 DEF CK!GenerateOneTimeLink, CK!Accept
<1>10. ASSUME NEW h \in CkHandlers, CK!TryConfig(h) PROVE KeysTypeOK'
  BY <1>10 DEF CK!TryConfig
<1>11. ASSUME NEW h \in CkHandlers, CK!CreateOneTimeLink(h) PROVE KeysTypeOK'
  BY <1>11 DEF CK!CreateOneTimeLink, CK!Return
<1>12. ASSUME NEW h \in CkHandlers, CK!ClaimOneTimeLink(h) PROVE KeysTypeOK'
  <2>1. PICK id \in DOMAIN ckLinks : CK!ClaimOneTimeLink(h)!1!(id)
    BY <1>12 DEF CK!ClaimOneTimeLink
  <2>2. [CK!NoLocal EXCEPT !.id = id, !.token = ckLinks[id].token] \in KeyLocals
    OBVIOUS
  <2> QED BY <1>12, <2>1, <2>2 DEF CK!ClaimOneTimeLink, CK!Accept
<1>13. ASSUME NEW h \in CkHandlers, CK!GetClientConfig(h) PROVE KeysTypeOK'
  BY <1>13 DEF CK!GetClientConfig
<1>14. ASSUME NEW h \in CkHandlers, CK!BuildClientConfig(h) PROVE KeysTypeOK'
  BY <1>14 DEF CK!BuildClientConfig, CK!Return
<1>15. ASSUME NEW h \in CkHandlers, CK!Fails(h) PROVE KeysTypeOK'
  BY <1>15 DEF CK!Fails, CK!Return
<1>16. ASSUME NEW h \in CkHandlers, CK!SetRetention(h) PROVE KeysTypeOK'
  <2>1. PICK m \in CK!Modes : CK!SetRetention(h)!1!(m)
    BY <1>16 DEF CK!SetRetention
  <2>2. [CK!NoLocal EXCEPT !.mode = m] \in KeyLocals
    OBVIOUS
  <2>3. ckRows' = [i \in DOMAIN ckRows' |-> ckRows'[i]] /\ DOMAIN ckRows' \subseteq Nat
    BY <2>1
  <2>4. \A i \in DOMAIN ckRows' : ckRows'[i] \in [pub : Nat, priv : Nat]
    BY <2>1
  <2> QED BY <1>16, <2>1, <2>2, <2>3, <2>4, SMTT(30) DEF CK!SetRetention, CK!Accept
<1>17. ASSUME NEW h \in CkHandlers, CK!UpdateGeneral(h) PROVE KeysTypeOK'
  BY <1>17 DEF CK!UpdateGeneral, CK!Return
<1>18. ASSUME NEW h \in CkHandlers, CK!UpdateGeneralRefused(h) PROVE KeysTypeOK'
  BY <1>18 DEF CK!UpdateGeneralRefused, CK!Return
<1>19. CASE CK!DeleteClient
  BY <1>19 DEF CK!DeleteClient
<1>20. CASE CK!LinkExpires
  <2>1. PICK id \in DOMAIN ckLinks : ckLinks' = [ckLinks EXCEPT ![id].live = FALSE]
    BY <1>20 DEF CK!LinkExpires
  <2>2. \A i \in DOMAIN ckLinks' : ckLinks'[i] \in [token : Nat, live : BOOLEAN]
    <3>1. ckLinks \in [DOMAIN ckLinks -> [token : Nat, live : BOOLEAN]]
      BY Zenon
    <3>2. [ckLinks EXCEPT ![id].live = FALSE] \in [DOMAIN ckLinks -> [token : Nat, live : BOOLEAN]]
      BY <2>1, <3>1, LinkDies, Zenon
    <3> QED BY <2>1, <3>2, Zenon
  <2>3. ckLinks' = [i \in DOMAIN ckLinks' |-> ckLinks'[i]] /\ DOMAIN ckLinks' = DOMAIN ckLinks
    BY <2>1
  <2>4. UNCHANGED <<ckRows, ckMode, ckNextId, ckNextKey, ckNextToken, ckPc, ckLoc, ckOnce, ckSent>>
    BY <1>20 DEF CK!LinkExpires
  <2> QED BY <2>2, <2>3, <2>4
<1>21. CASE CK!ClaimExpired
  BY <1>21 DEF CK!ClaimExpired
<1>22. CASE UNCHANGED CK!vars
  BY <1>22 DEF CK!vars
<1> QED
  BY <1>1, <1>2, <1>3, <1>4, <1>5, <1>6, <1>7, <1>8, <1>9, <1>10, <1>11, <1>12,
     <1>13, <1>14, <1>15, <1>16, <1>17, <1>18, <1>19, <1>20, <1>21, <1>22
     DEF CK!Next, CK!IssueStep, CK!ShowStep, CK!RetentionStep

(* Every step keeps TokenInv: claiming a link takes its row and its token  *)
(* in one statement.                                                       *)
LEMMA TokenStep ==
    ASSUME KeysInv, [CK!Next]_(CK!vars)
    PROVE  TokenInv'
<1> USE DEF KeysInv, CK!Goto, CK!NoLocal, CK!NoKey, CK!NoToken, CK!Modes, KeyPcs, KeyLocals, KeysTypeOK,
       TokenInv, CK!Holds
<1>1. ASSUME NEW h \in CkHandlers, CK!CreateClient(h) PROVE TokenInv'
  BY <1>1 DEF CK!CreateClient, CK!Generate, CK!Accept
<1>2. ASSUME NEW h \in CkHandlers, CK!InsertClient(h) PROVE TokenInv'
  BY <1>2 DEF CK!InsertClient, CK!StoredKey
<1>3. ASSUME NEW h \in CkHandlers, CK!RotateClientKey(h) PROVE TokenInv'
  BY <1>3 DEF CK!RotateClientKey, CK!Generate, CK!Accept
<1>4. ASSUME NEW h \in CkHandlers, CK!UpdateClientKeypair(h) PROVE TokenInv'
  BY <1>4 DEF CK!UpdateClientKeypair, CK!StoredKey
<1>5. ASSUME NEW h \in CkHandlers, CK!DeleteOneTimeLink(h) PROVE TokenInv'
  BY <1>5 DEF CK!DeleteOneTimeLink
<1>6. ASSUME NEW h \in CkHandlers, CK!SaveConfig(h) PROVE TokenInv'
  BY <1>6 DEF CK!SaveConfig
<1>7. ASSUME NEW h \in CkHandlers, CK!Issue(h) PROVE TokenInv'
  BY <1>7 DEF CK!Issue, CK!Return
<1>8. ASSUME NEW h \in CkHandlers, CK!Download(h) PROVE TokenInv'
  BY <1>8 DEF CK!Download, CK!Accept
<1>9. ASSUME NEW h \in CkHandlers, CK!GenerateOneTimeLink(h) PROVE TokenInv'
  BY <1>9 DEF CK!GenerateOneTimeLink, CK!Accept
<1>10. ASSUME NEW h \in CkHandlers, CK!TryConfig(h) PROVE TokenInv'
  BY <1>10 DEF CK!TryConfig
<1>11. ASSUME NEW h \in CkHandlers, CK!CreateOneTimeLink(h) PROVE TokenInv'
  BY <1>11 DEF CK!CreateOneTimeLink, CK!Return
<1>12. ASSUME NEW h \in CkHandlers, CK!ClaimOneTimeLink(h) PROVE TokenInv'
  BY <1>12 DEF CK!ClaimOneTimeLink, CK!Accept
<1>13. ASSUME NEW h \in CkHandlers, CK!GetClientConfig(h) PROVE TokenInv'
  BY <1>13 DEF CK!GetClientConfig
<1>14. ASSUME NEW h \in CkHandlers, CK!BuildClientConfig(h) PROVE TokenInv'
  BY <1>14 DEF CK!BuildClientConfig, CK!Return
<1>15. ASSUME NEW h \in CkHandlers, CK!Fails(h) PROVE TokenInv'
  BY <1>15 DEF CK!Fails, CK!Return
<1>16. ASSUME NEW h \in CkHandlers, CK!SetRetention(h) PROVE TokenInv'
  BY <1>16 DEF CK!SetRetention, CK!Accept
<1>17. ASSUME NEW h \in CkHandlers, CK!UpdateGeneral(h) PROVE TokenInv'
  BY <1>17 DEF CK!UpdateGeneral, CK!Return
<1>18. ASSUME NEW h \in CkHandlers, CK!UpdateGeneralRefused(h) PROVE TokenInv'
  BY <1>18 DEF CK!UpdateGeneralRefused, CK!Return
<1>19. CASE CK!DeleteClient
  BY <1>19 DEF CK!DeleteClient
<1>20. CASE CK!LinkExpires
  BY <1>20 DEF CK!LinkExpires
<1>21. CASE CK!ClaimExpired
  BY <1>21 DEF CK!ClaimExpired
<1>22. CASE UNCHANGED CK!vars
  BY <1>22 DEF CK!vars
<1> QED
  BY <1>1, <1>2, <1>3, <1>4, <1>5, <1>6, <1>7, <1>8, <1>9, <1>10, <1>11, <1>12,
     <1>13, <1>14, <1>15, <1>16, <1>17, <1>18, <1>19, <1>20, <1>21, <1>22
     DEF CK!Next, CK!IssueStep, CK!ShowStep, CK!RetentionStep

(* Generating a key pair keeps KeyInv: the key is new.                     *)
LEMMA GenerateKeeps ==
    ASSUME KeysTypeOK, KeyInv, NEW h \in CkHandlers, NEW l, NEW id \in Nat, CK!Generate(h, l, id)
    PROVE  KeyInv'
<1> USE DEF KeysTypeOK, KeyInv, KeyLocals, CK!Modes, CK!NoLocal, CK!NoKey, CK!NoToken
<1>1. PICK issued \in BOOLEAN : CK!Generate(h, l, id)!1!(issued)
  BY DEF CK!Generate
<1>2. ckLoc'[h].key = ckNextKey /\ (ckLoc'[h].issued <=> issued)
      /\ (ckLoc'[h].retain <=> ckMode = "plaintext")
  BY <1>1 DEF CK!Accept
<1>3. \A g \in CkHandlers \ {h} : ckLoc'[g] = ckLoc[g]
  BY <1>1 DEF CK!Accept
<1>4. ckOnce' = IF issued /\ ckMode = "never" THEN ckOnce \cup {ckNextKey} ELSE ckOnce
  BY <1>1
<1>5. ckNextKey' = ckNextKey + 1 /\ UNCHANGED <<ckRows, ckSent>>
  BY DEF CK!Generate
<1>6. \A g \in CkHandlers : ckLoc'[g].key < ckNextKey'
        /\ (ckLoc'[g].key \in ckOnce' /\ ckLoc'[g].issued => ~ckLoc'[g].retain)
  <2>1. ckNextKey \notin ckOnce
    OBVIOUS
  <2>2. issued /\ ckMode = "plaintext" => ckNextKey \notin ckOnce'
    BY <2>1, <1>4
  <2>3. ckLoc'[h].key < ckNextKey'
        /\ (ckLoc'[h].key \in ckOnce' /\ ckLoc'[h].issued => ~ckLoc'[h].retain)
    BY <2>2, <1>2, <1>5
  <2>4. ASSUME NEW g \in CkHandlers \ {h}
        PROVE  ckLoc'[g].key < ckNextKey'
               /\ (ckLoc'[g].key \in ckOnce' /\ ckLoc'[g].issued => ~ckLoc'[g].retain)
    BY <1>3, <1>4, <1>5
  <2> QED BY <2>3, <2>4
<1> QED
  BY <1>4, <1>5, <1>6

(* Every step keeps KeyInv, a change of the retention mode between the     *)
(* steps of a request included.                                            *)
LEMMA KeyStep ==
    ASSUME KeysInv, [CK!Next]_(CK!vars)
    PROVE  KeyInv'
<1> USE DEF KeysInv, CK!Goto, CK!NoLocal, CK!NoKey, CK!NoToken, CK!Modes, KeyPcs, KeyLocals, KeysTypeOK,
       KeyInv
<1>1. ASSUME NEW h \in CkHandlers, CK!CreateClient(h) PROVE KeyInv'
  BY <1>1, GenerateKeeps DEF CK!CreateClient
<1>2. ASSUME NEW h \in CkHandlers, CK!InsertClient(h) PROVE KeyInv'
  BY <1>2 DEF CK!InsertClient, CK!StoredKey
<1>3. ASSUME NEW h \in CkHandlers, CK!RotateClientKey(h) PROVE KeyInv'
  BY <1>3, GenerateKeeps DEF CK!RotateClientKey
<1>4. ASSUME NEW h \in CkHandlers, CK!UpdateClientKeypair(h) PROVE KeyInv'
  BY <1>4 DEF CK!UpdateClientKeypair, CK!StoredKey
<1>5. ASSUME NEW h \in CkHandlers, CK!DeleteOneTimeLink(h) PROVE KeyInv'
  BY <1>5 DEF CK!DeleteOneTimeLink
<1>6. ASSUME NEW h \in CkHandlers, CK!SaveConfig(h) PROVE KeyInv'
  BY <1>6 DEF CK!SaveConfig
<1>7. ASSUME NEW h \in CkHandlers, CK!Issue(h) PROVE KeyInv'
  BY <1>7 DEF CK!Issue, CK!Return
<1>8. ASSUME NEW h \in CkHandlers, CK!Download(h) PROVE KeyInv'
  BY <1>8 DEF CK!Download, CK!Accept
<1>9. ASSUME NEW h \in CkHandlers, CK!GenerateOneTimeLink(h) PROVE KeyInv'
  BY <1>9 DEF CK!GenerateOneTimeLink, CK!Accept
<1>10. ASSUME NEW h \in CkHandlers, CK!TryConfig(h) PROVE KeyInv'
  BY <1>10 DEF CK!TryConfig
<1>11. ASSUME NEW h \in CkHandlers, CK!CreateOneTimeLink(h) PROVE KeyInv'
  BY <1>11 DEF CK!CreateOneTimeLink, CK!Return
<1>12. ASSUME NEW h \in CkHandlers, CK!ClaimOneTimeLink(h) PROVE KeyInv'
  BY <1>12 DEF CK!ClaimOneTimeLink, CK!Accept
<1>13. ASSUME NEW h \in CkHandlers, CK!GetClientConfig(h) PROVE KeyInv'
  BY <1>13 DEF CK!GetClientConfig
<1>14. ASSUME NEW h \in CkHandlers, CK!BuildClientConfig(h) PROVE KeyInv'
  BY <1>14 DEF CK!BuildClientConfig, CK!Return
<1>15. ASSUME NEW h \in CkHandlers, CK!Fails(h) PROVE KeyInv'
  BY <1>15 DEF CK!Fails, CK!Return
<1>16. ASSUME NEW h \in CkHandlers, CK!SetRetention(h) PROVE KeyInv'
  BY <1>16 DEF CK!SetRetention, CK!Accept
<1>17. ASSUME NEW h \in CkHandlers, CK!UpdateGeneral(h) PROVE KeyInv'
  BY <1>17 DEF CK!UpdateGeneral, CK!Return
<1>18. ASSUME NEW h \in CkHandlers, CK!UpdateGeneralRefused(h) PROVE KeyInv'
  BY <1>18 DEF CK!UpdateGeneralRefused, CK!Return
<1>19. CASE CK!DeleteClient
  BY <1>19 DEF CK!DeleteClient
<1>20. CASE CK!LinkExpires
  BY <1>20 DEF CK!LinkExpires
<1>21. CASE CK!ClaimExpired
  BY <1>21 DEF CK!ClaimExpired
<1>22. CASE UNCHANGED CK!vars
  BY <1>22 DEF CK!vars
<1> QED
  BY <1>1, <1>2, <1>3, <1>4, <1>5, <1>6, <1>7, <1>8, <1>9, <1>10, <1>11, <1>12,
     <1>13, <1>14, <1>15, <1>16, <1>17, <1>18, <1>19, <1>20, <1>21, <1>22
     DEF CK!Next, CK!IssueStep, CK!ShowStep, CK!RetentionStep

(* A one-time link serves one download however many requests race for it,  *)
(* and a private key the server does not retain leaves it once, with the   *)
(* answer that issued it (the one-time link claim, create_client and       *)
(* rotate_client_key).                                                     *)
THEOREM SecretsAreHandedOutOnce == CK!Spec => []HandedOutOnce
<1>1. CK!Init => KeysInv
  BY DEF CK!Init, KeysInv, KeysTypeOK, TokenInv, KeyInv, KeyPcs, KeyLocals, CK!NoLocal, CK!NoKey,
         CK!NoToken, CK!Modes, CK!Holds
<1>2. KeysInv /\ [CK!Next]_(CK!vars) => KeysInv'
  BY KeysTypeStep, TokenStep, KeyStep DEF KeysInv
<1>3. KeysInv => HandedOutOnce
  BY DEF KeysInv, KeysTypeOK, TokenInv, KeyInv, KeyLocals, HandedOutOnce, CK!HandedOutOnce,
         CK!ClaimIsExclusive, CK!UnretainedKeyIsIssuedOnce, CK!Holds
<1> QED
  BY <1>1, <1>2, <1>3, PTL DEF CK!Spec

-----------------------------------------------------------------------------
(* The firewall's chains: any number of peers, of requests and of nft      *)
(* calls that fail.                                                        *)

(* The steps of a rebuild before it knows whether peers are filtered:      *)
(* those of the DNS lockdown.                                              *)
Reading == {"lockdown", "dnsChains", "dnsLook", "dnsJump", "dnsRules", "dnsList", "dnsUnjump", "dnsFilterGone",
            "dnsNatGone", "filtering"}

(* The steps of a rebuild that filters.                                    *)
Opening == {"initChain", "look", "jump", "rules"}

(* The steps of a rebuild that stops filtering.                            *)
Closing == {"flush", "list", "unjump"}

(* The rule that ends the peers' chain.                                    *)
LastRule == <<"any", "any", "drop">>

(* `forward` jumps to the peers' chain for what peers send.                *)
HasIn == \E j \in fwNft.jumps : j.to = "in"

(* The peers' chain lets everything through.                               *)
NoDrop == fwNft.peers.there => LastRule \notin fwNft.peers.rules

(* What a finished rebuild leaves: with the firewall on a jump to the      *)
(* peers' chain, which holds the rules of the enabled peers and the drop;  *)
(* with it off a chain without the drop.                                   *)
Settled ==
    /\ fwRow.firewall => HasIn /\ fwNft.peers.there /\ fwNft.peers.rules = FW!ClientRules \cup {LastRule}
    /\ ~fwRow.firewall => NoDrop

(* The parts of the table; a jump is never to a chain that is gone, which  *)
(* nft refuses.                                                            *)
TableShape ==
    /\ "table" \in DOMAIN fwNft /\ "handle" \in DOMAIN fwNft /\ "jumps" \in DOMAIN fwNft
    /\ "peers" \in DOMAIN fwNft /\ "filter" \in DOMAIN fwNft /\ "nat" \in DOMAIN fwNft
    /\ HasIn => fwNft.peers.there

(* The parts of a request, which has the row and a listing once it         *)
(* rebuilds.                                                               *)
TaskShape ==
    /\ fwTask = [h \in FwHandlers |-> fwTask[h]]
    /\ \A h \in FwHandlers : "pc" \in DOMAIN fwTask[h]
    /\ \A h \in FwHandlers : fwTask[h].pc \in Reading \cup Opening \cup Closing =>
           "row" \in DOMAIN fwTask[h] /\ "listing" \in DOMAIN fwTask[h]
    /\ "firewall" \in DOMAIN fwRow

(* What a request knows at each of its steps: the row it read is the one   *)
(* stored, the listing it works from is part of what is there, so the jump *)
(* it does not add exists, and the drop is gone before the jumps are       *)
(* deleted.                                                                *)
TaskOK(h) ==
    /\ fwTask[h] = FW!Idle => Settled
    /\ fwTask[h].pc \in {"down", "up", "gate"} /\ ~fwRow.firewall => NoDrop
    /\ fwTask[h].pc = "done" => Settled
    /\ fwTask[h].pc \in Reading \cup Opening \cup Closing => fwTask[h].row = fwRow
    /\ fwTask[h].pc \in Opening => fwRow.firewall
    /\ fwTask[h].pc \in Closing => ~fwRow.firewall
    /\ fwTask[h].pc = "jump" => fwTask[h].listing \subseteq fwNft.jumps
    /\ fwTask[h].pc = "rules" => HasIn
    /\ fwTask[h].pc \in {"list", "unjump"} => NoDrop

(* No other request is under way.                                          *)
Alone(h) == \A g \in FwHandlers : g # h => fwTask[g] = FW!Idle

(* Unless a call failed or requests overlapped since the last rebuild      *)
(* began: with no request the table is settled, and a request is alone and *)
(* knows what it should.                                                   *)
RebuildInv ==
    ~fwExcused => /\ (\A h \in FwHandlers : fwTask[h] = FW!Idle) => Settled
                  /\ \A h \in FwHandlers : fwTask[h] # FW!Idle => Alone(h) /\ TaskOK(h)

(* The inductive invariant.                                                *)
FwInv == TableShape /\ TaskShape /\ RebuildInv

(* A settled table confines the peers: the only chain that decides a       *)
(* packet that is no DNS query is the peers'.                              *)
LEMMA ConfinedIn ==
    ASSUME FwInv
    PROVE  PeersAreConfined
<1> SUFFICES ASSUME FW!Quiet, NEW p \in FwPeers, NEW f \in FW!Families, NEW to \in {"site", "elsewhere"}
             PROVE  FW!Accepted(FW!Packet(p, f, "in", to, FALSE)) <=>
                        \/ ~fwRow.firewall
                        \/ to = "site" /\ fwPeer[p].enabled /\ <<p, f, "accept">> \in FW!AppendClientRules(p)
  BY DEF PeersAreConfined, FW!PeersAreConfined
<1> DEFINE k == FW!Packet(p, f, "in", to, FALSE)
           open == to = "site" /\ <<p, f, "accept">> \in fwNft.peers.rules
<1>1. Settled /\ (HasIn => fwNft.peers.there)
  BY DEF FwInv, RebuildInv, TableShape, FW!Quiet, FW!Busy
<1>2. FW!Redirected(k) = k /\ k.way = "in" /\ k.to = to /\ k.peer = p /\ k.family = f /\ k.dns = FALSE
  BY DEF FW!Redirected, FW!Packet
<1> HIDE DEF k
<1>3. \A j \in fwNft.jumps : FW!Says(j.to, k) =
          IF j.to # "in" THEN "return" ELSE IF open THEN "accept"
          ELSE IF LastRule \in fwNft.peers.rules THEN "drop" ELSE "return"
  BY <1>2 DEF FW!Says, LastRule
<1> HIDE DEF open
<1>4. FW!Accepted(k) <=> \A j \in fwNft.jumps : FW!Says(j.to, k) = "drop" =>
          \E i \in fwNft.jumps : i.handle < j.handle /\ FW!Says(i.to, k) = "accept"
  BY <1>2 DEF FW!Accepted
<1>5. CASE ~fwRow.firewall
  <2>1. \A j \in fwNft.jumps : FW!Says(j.to, k) # "drop"
    BY <1>1, <1>3, <1>5 DEF Settled, NoDrop, HasIn
  <2> QED BY <1>4, <1>5, <2>1 DEF k
<1>6. CASE fwRow.firewall
  <2>1. HasIn /\ fwNft.peers.rules = FW!ClientRules \cup {LastRule}
    BY <1>1, <1>6 DEF Settled
  <2>2. open <=> to = "site" /\ fwPeer[p].enabled /\ <<p, f, "accept">> \in FW!AppendClientRules(p)
    <3>1. \A q \in FwPeers : <<p, f, "accept">> \in FW!AppendClientRules(q) => q = p
      BY DEF FW!AppendClientRules
    <3>2. <<p, f, "accept">> # LastRule
      BY DEF LastRule
    <3>3. <<p, f, "accept">> \in FW!ClientRules <=> fwPeer[p].enabled /\ <<p, f, "accept">> \in FW!AppendClientRules(p)
      BY <3>1 DEF FW!ClientRules
    <3> QED BY <2>1, <3>2, <3>3 DEF open
  <2>3. FW!Accepted(k) <=> open
    <3>1. CASE open
      <4>1. \A j \in fwNft.jumps : FW!Says(j.to, k) # "drop"
        BY <1>3, <3>1
      <4> QED BY <1>4, <3>1, <4>1
    <3>2. CASE ~open
      <4>1. \A j \in fwNft.jumps : FW!Says(j.to, k) # "accept"
        BY <1>3, <3>2
      <4>2. \E j \in fwNft.jumps : FW!Says(j.to, k) = "drop"
        BY <1>3, <2>1, <3>2 DEF HasIn
      <4> QED BY <1>4, <3>2, <4>1, <4>2
    <3> QED BY <3>1, <3>2
  <2> QED BY <1>6, <2>2, <2>3 DEF k
<1> QED BY <1>5, <1>6

(* The hooks' table, or none, is settled: the firewall is off.             *)
LEMMA FwStarts ==
    ASSUME FW!Init
    PROVE  FwInv
<1>1. TaskShape
  BY DEF FW!Init, TaskShape, FW!Idle, Reading, Opening, Closing
<1>2. fwNft.jumps = {} /\ (fwNft.peers = FW!Absent \/ fwNft.peers = FW!Chain({}))
      /\ "table" \in DOMAIN fwNft /\ "handle" \in DOMAIN fwNft /\ "jumps" \in DOMAIN fwNft
      /\ "peers" \in DOMAIN fwNft /\ "filter" \in DOMAIN fwNft /\ "nat" \in DOMAIN fwNft
  BY DEF FW!Init, FW!HookTable, FW!NoTable
<1>3. TableShape /\ NoDrop
  BY <1>2 DEF TableShape, HasIn, NoDrop, FW!Absent, FW!Chain
<1>4. Settled
  BY <1>3 DEF Settled, FW!Init
<1>5. RebuildInv
  BY <1>4 DEF RebuildInv, FW!Init
<1> QED BY <1>1, <1>3, <1>5 DEF FwInv

(* A step of one request keeps RebuildInv when that request is alone and   *)
(* knows what it should afterwards.                                        *)
LEMMA OneTask ==
    ASSUME FwInv, NEW h \in FwHandlers, \A g \in FwHandlers : g # h => fwTask'[g] = fwTask[g],
           ~fwExcused' => Alone(h) /\ TaskOK(h)'
    PROVE  RebuildInv'
<1> SUFFICES ASSUME ~fwExcused'
             PROVE  /\ (\A g \in FwHandlers : fwTask'[g] = FW!Idle) => Settled'
                    /\ \A g \in FwHandlers : fwTask'[g] # FW!Idle => Alone(g)' /\ TaskOK(g)'
  BY DEF RebuildInv
<1>1. Alone(h)' /\ TaskOK(h)'
  BY DEF Alone
<1>2. \A g \in FwHandlers : fwTask'[g] # FW!Idle => g = h
  BY <1>1 DEF Alone
<1>3. fwTask'[h] = FW!Idle => Settled'
  BY <1>1 DEF TaskOK
<1> QED BY <1>1, <1>2, <1>3

(* The steps of a rebuild.                                                 *)
Inside == Reading \cup Opening \cup Closing

(* What a rebuild must know before it goes on to a step.                   *)
NextOK(h, next) ==
    /\ next = "done" => Settled'
    /\ next \in Opening => fwRow.firewall
    /\ next \in Closing => ~fwRow.firewall
    /\ next = "jump" => fwTask'[h].listing \subseteq fwNft'.jumps
    /\ next = "rules" => HasIn'
    /\ next \in {"list", "unjump"} => NoDrop'

(* A request under way is alone and knows what it should.                  *)
LEMMA WorkerOK ==
    ASSUME FwInv, NEW h \in FwHandlers, fwTask[h].pc # "idle", ~fwExcused
    PROVE  Alone(h) /\ TaskOK(h)
BY DEF FwInv, RebuildInv, FW!Idle

(* A step within a rebuild keeps FwInv when the next step's knowledge is   *)
(* there.                                                                  *)
LEMMA StepForward ==
    ASSUME FwInv, NEW h \in FwHandlers, fwTask[h].pc \in Inside, NEW next, next \in Inside \cup {"done"},
           \/ fwTask' = [fwTask EXCEPT ![h].pc = next]
           \/ \E l : fwTask' = [fwTask EXCEPT ![h].pc = next, ![h].listing = l],
           fwRow' = fwRow, fwExcused' = fwExcused, TableShape', ~fwExcused => NextOK(h, next)
    PROVE  FwInv'
<1>1. TaskShape /\ "pc" \in DOMAIN fwTask[h] /\ "row" \in DOMAIN fwTask[h] /\ "listing" \in DOMAIN fwTask[h]
  BY DEF FwInv, TaskShape, Inside
<1>t. fwTask = [g \in FwHandlers |-> fwTask[g]]
  BY <1>1 DEF TaskShape
<1>2. /\ fwTask'[h].pc = next /\ fwTask'[h].row = fwTask[h].row
      /\ "pc" \in DOMAIN fwTask'[h] /\ "row" \in DOMAIN fwTask'[h] /\ "listing" \in DOMAIN fwTask'[h]
      /\ fwTask' = [g \in FwHandlers |-> fwTask'[g]]
      /\ \A g \in FwHandlers : g # h => fwTask'[g] = fwTask[g]
  <2>1. CASE fwTask' = [fwTask EXCEPT ![h].pc = next]
    BY <1>1, <1>t, <2>1
  <2>2. ASSUME NEW l, fwTask' = [fwTask EXCEPT ![h].pc = next, ![h].listing = l]
        PROVE  <1>2!:
    BY <1>1, <1>t, <2>2
  <2> QED BY <2>1, <2>2
<1>3. TaskShape'
  BY <1>1, <1>2 DEF TaskShape
<1>4. fwTask[h].pc # "idle" /\ next # "idle" /\ next \notin {"down", "up", "gate"}
  BY DEF Inside, Reading, Opening, Closing
<1>5. fwTask'[h] # FW!Idle
  BY <1>2, <1>4 DEF FW!Idle
<1>6. ASSUME ~fwExcused' PROVE Alone(h) /\ TaskOK(h)'
  <2>1. ~fwExcused
    BY <1>6
  <2>2. Alone(h) /\ TaskOK(h)
    BY <1>4, <2>1, WorkerOK
  <2>3. fwTask'[h].row = fwRow'
    BY <1>2, <2>2 DEF TaskOK, Inside
  <2>4. NextOK(h, next)
    BY <2>1
  <2> QED BY <1>2, <1>4, <1>5, <2>2, <2>3, <2>4 DEF TaskOK, NextOK
<1>7. RebuildInv'
  BY <1>2, <1>6, OneTask
<1> QED BY <1>3, <1>7 DEF FwInv

(* A step that fails, or follows a failure, keeps FwInv: it is excused.    *)
LEMMA StepFails ==
    ASSUME FwInv, NEW h \in FwHandlers, fwTask[h].pc \in Inside,
           \/ fwTask' = [fwTask EXCEPT ![h] = FW!Idle]
           \/ \E next : fwTask' = [fwTask EXCEPT ![h].pc = next]
           \/ \E next, l : fwTask' = [fwTask EXCEPT ![h].pc = next, ![h].listing = l],
           fwRow' = fwRow, fwExcused', TableShape'
    PROVE  FwInv'
<1>1. TaskShape /\ "pc" \in DOMAIN fwTask[h] /\ "row" \in DOMAIN fwTask[h] /\ "listing" \in DOMAIN fwTask[h]
  BY DEF FwInv, TaskShape, Inside
<1>t. fwTask = [g \in FwHandlers |-> fwTask[g]]
  BY <1>1 DEF TaskShape
<1>2. /\ fwTask' = [g \in FwHandlers |-> fwTask'[g]]
      /\ \A g \in FwHandlers : g # h => fwTask'[g] = fwTask[g]
      /\ "pc" \in DOMAIN fwTask'[h]
      /\ fwTask'[h].pc = "idle" \/ ("row" \in DOMAIN fwTask'[h] /\ "listing" \in DOMAIN fwTask'[h])
  <2>1. CASE fwTask' = [fwTask EXCEPT ![h] = FW!Idle]
    BY <1>1, <1>t, <2>1 DEF FW!Idle
  <2>2. ASSUME NEW next, fwTask' = [fwTask EXCEPT ![h].pc = next]
        PROVE  <1>2!:
    BY <1>1, <1>t, <2>2
  <2>3. ASSUME NEW next, NEW l, fwTask' = [fwTask EXCEPT ![h].pc = next, ![h].listing = l]
        PROVE  <1>2!:
    BY <1>1, <1>t, <2>3
  <2> QED BY <2>1, <2>2, <2>3
<1>3. "idle" \notin Inside
  BY DEF Inside, Reading, Opening, Closing
<1>4. TaskShape'
  BY <1>1, <1>2, <1>3 DEF TaskShape, Inside
<1>5. RebuildInv'
  BY DEF RebuildInv
<1> QED BY <1>4, <1>5 DEF FwInv

(* An unchanged table keeps its shape.                                     *)
LEMMA TableKept ==
    ASSUME TableShape, fwNft' = fwNft
    PROVE  TableShape'
BY DEF TableShape, HasIn

(* Adding jumps leaves the peers' chain and the jumps that were there      *)
(* alone, and adds every missing one.                                      *)
LEMMA JumpsAdded ==
    ASSUME TableShape, NEW h, NEW chains, fwNft' = FW!WithJumps(h, chains),
           fwNft.peers.there \/ "in" \notin chains \/ FW!Missing(h, chains) = {}
    PROVE  /\ TableShape' /\ fwNft'.peers = fwNft.peers
           /\ \A j \in fwNft.jumps : j \in fwNft'.jumps
           /\ \A to \in FW!Missing(h, chains) : \E j \in fwNft'.jumps : j.to = to
<1> DEFINE place(to) == fwNft.handle + (IF to = "out" THEN 2 ELSE 1)
           new == {[to |-> to, handle |-> place(to)] : to \in FW!Missing(h, chains)}
<1>1. CASE FW!Missing(h, chains) = {}
  BY <1>1 DEF FW!WithJumps, TableShape, HasIn
<1>2. CASE FW!Missing(h, chains) # {}
  <2>1. fwNft' = [fwNft EXCEPT !.handle = @ + 2, !.jumps = @ \cup new]
    BY <1>2 DEF FW!WithJumps
  <2>2. \A j \in new : j.to \in FW!Missing(h, chains)
    OBVIOUS
  <2>3. \A to \in FW!Missing(h, chains) : \E j \in new : j.to = to
    <3> SUFFICES ASSUME NEW to \in FW!Missing(h, chains) PROVE \E j \in new : j.to = to
      OBVIOUS
    <3>1. [to |-> to, handle |-> place(to)] \in new /\ [to |-> to, handle |-> place(to)].to = to
      OBVIOUS
    <3> HIDE DEF new, place
    <3> QED BY <3>1
  <2> HIDE DEF new, place
  <2>4. /\ "table" \in DOMAIN fwNft' /\ "handle" \in DOMAIN fwNft' /\ "jumps" \in DOMAIN fwNft'
        /\ "peers" \in DOMAIN fwNft' /\ "filter" \in DOMAIN fwNft' /\ "nat" \in DOMAIN fwNft'
        /\ fwNft'.peers = fwNft.peers /\ fwNft'.jumps = fwNft.jumps \cup new
    BY <2>1 DEF TableShape
  <2>5. FW!Missing(h, chains) \subseteq chains
    BY DEF FW!Missing
  <2>6. HasIn' => fwNft'.peers.there
    BY <1>2, <2>2, <2>4, <2>5 DEF TableShape, HasIn
  <2> QED BY <2>3, <2>4, <2>6 DEF TableShape
<1> QED BY <1>1, <1>2

(* Deleting what was listed leaves the peers' chain and the jumps to other *)
(* chains alone.                                                           *)
LEMMA JumpsRemoved ==
    ASSUME TableShape, NEW h, NEW chains, fwNft' = FW!WithoutListed(h, chains)
    PROVE  /\ TableShape' /\ fwNft'.peers = fwNft.peers
           /\ \A j \in fwNft.jumps : j.to \notin chains => j \in fwNft'.jumps
<1>1. /\ "table" \in DOMAIN fwNft' /\ "handle" \in DOMAIN fwNft' /\ "jumps" \in DOMAIN fwNft'
      /\ "peers" \in DOMAIN fwNft' /\ "filter" \in DOMAIN fwNft' /\ "nat" \in DOMAIN fwNft'
      /\ fwNft'.peers = fwNft.peers /\ fwNft'.jumps = fwNft.jumps \ FW!Listed(h, chains)
  BY DEF FW!WithoutListed, TableShape
<1> QED BY <1>1 DEF TableShape, HasIn, FW!Listed

(* Adding a chain that exists changes nothing; one that does not is empty. *)
LEMMA ChainAdded ==
    ASSUME NEW c
    PROVE  /\ FW!AddedChain(c).there \/ ~c.there
           /\ FW!AddedChain(c).there
           /\ FW!AddedChain(c) = c \/ FW!AddedChain(c).rules = {}
BY DEF FW!AddedChain, FW!Chain

(* Making sure of the peers' chain adds no drop.                           *)
LEMMA ChainEnsured ==
    ASSUME TableShape, fwNft' = [fwNft EXCEPT !.table = TRUE, !.peers = FW!AddedChain(@)]
    PROVE  TableShape' /\ (NoDrop => NoDrop')
<1>1. /\ "table" \in DOMAIN fwNft' /\ "handle" \in DOMAIN fwNft' /\ "jumps" \in DOMAIN fwNft'
      /\ "peers" \in DOMAIN fwNft' /\ "filter" \in DOMAIN fwNft' /\ "nat" \in DOMAIN fwNft'
      /\ fwNft'.peers = FW!AddedChain(fwNft.peers)
  BY DEF TableShape
<1>2. fwNft'.peers.there
  BY <1>1, ChainAdded
<1>3. NoDrop => NoDrop'
  <2>1. CASE fwNft.peers.there
    BY <1>1, <2>1 DEF NoDrop, FW!AddedChain
  <2>2. CASE ~fwNft.peers.there
    <3>1. fwNft'.peers.rules = {}
      BY <1>1, <2>2 DEF FW!AddedChain, FW!Chain
    <3> QED BY <3>1 DEF NoDrop
  <2> QED BY <2>1, <2>2
<1> QED BY <1>1, <1>2, <1>3 DEF TableShape

(* A step of the DNS lockdown keeps FwInv whatever it does to the table,   *)
(* as long as the jumps keep their chain.                                  *)
LEMMA ReadingStep ==
    ASSUME FwInv, NEW h \in FwHandlers, fwTask[h].pc \in Reading, fwRow' = fwRow, TableShape',
           \/ /\ fwExcused' = fwExcused
              /\ \E next \in Reading : \/ fwTask' = [fwTask EXCEPT ![h].pc = next]
                                       \/ \E l : fwTask' = [fwTask EXCEPT ![h].pc = next, ![h].listing = l]
           \/ /\ fwExcused'
              /\ \/ fwTask' = [fwTask EXCEPT ![h] = FW!Idle]
                 \/ \E next : fwTask' = [fwTask EXCEPT ![h].pc = next]
                 \/ \E next, l : fwTask' = [fwTask EXCEPT ![h].pc = next, ![h].listing = l]
    PROVE  FwInv'
<1>1. fwTask[h].pc \in Inside
  BY DEF Inside
<1>2. \A next \in Reading : next \in Inside \cup {"done"} /\ NextOK(h, next)
  BY DEF Inside, NextOK, Reading, Opening, Closing
<1>3. CASE fwExcused'
  BY <1>1, <1>3, StepFails
<1>4. CASE ~fwExcused'
  <2>1. PICK next \in Reading : \/ fwTask' = [fwTask EXCEPT ![h].pc = next]
                                \/ \E l : fwTask' = [fwTask EXCEPT ![h].pc = next, ![h].listing = l]
    BY <1>4
  <2>2. fwExcused' = fwExcused
    BY <1>4
  <2> QED BY <1>1, <1>2, <2>1, <2>2, StepForward
<1> QED BY <1>3, <1>4

(* Deciding about the lockdown keeps FwInv.                                *)
LEMMA LockdownStep ==
    ASSUME FwInv, NEW h \in FwHandlers, FW!RebuildDnsLockdown(h)
    PROVE  FwInv'
<1>1. fwTask[h].pc \in Reading /\ fwRow' = fwRow /\ TableShape'
  BY TableKept DEF FW!RebuildDnsLockdown, FW!rowVars, Reading, FwInv
<1>2. \/ fwExcused' /\ fwTask' = [fwTask EXCEPT ![h] = FW!Idle]
      \/ /\ fwExcused' = fwExcused
         /\ \E next \in {"dnsChains", "dnsList"} : fwTask' = [fwTask EXCEPT ![h].pc = next]
  BY DEF FW!RebuildDnsLockdown, FW!Goto
<1>3. {"dnsChains", "dnsList"} \subseteq Reading
  BY DEF Reading
<1> QED BY <1>1, <1>2, <1>3, ReadingStep

(* Every nft call of the lockdown keeps FwInv, those that add its chains   *)
(* and those that remove them.                                             *)
LEMMA DnsChainsStep ==
    ASSUME FwInv, NEW h \in FwHandlers, FW!EnsureDnsChains(h) \/ FW!DnsRules(h) \/ FW!RemoveDnsLockdown(h)
    PROVE  FwInv'
<1> DEFINE Stop == fwExcused' /\ fwNft' = fwNft /\ fwTask' = [fwTask EXCEPT ![h] = FW!Idle]
           Go(next) == fwTask' = [fwTask EXCEPT ![h].pc = next] /\ (fwExcused' = fwExcused \/ fwExcused')
           Got(next) == /\ \E l : fwTask' = [fwTask EXCEPT ![h].pc = next, ![h].listing = l]
                        /\ (fwExcused' = fwExcused \/ fwExcused') /\ fwNft' = fwNft
<1>0. TableShape
  BY DEF FwInv
<1>1. ASSUME fwTask[h].pc \in Reading, fwRow' = fwRow, TableShape',
             Stop \/ (\E next \in Reading : Go(next) \/ Got(next))
      PROVE  FwInv'
  BY <1>1, ReadingStep
<1>2. \A next \in {"dnsLook", "dnsJump", "dnsRules", "filtering", "dnsUnjump", "dnsFilterGone", "dnsNatGone"} :
          next \in Reading
  BY DEF Reading
<1>3. CASE FW!Apply(h, "dnsChains", TRUE,
             [fwNft EXCEPT !.table = TRUE, !.nat = FW!AddedChain(@), !.filter = FW!AddedChain(@)], "dnsLook")
  <2>1. fwTask[h].pc \in Reading /\ fwRow' = fwRow
    BY <1>3 DEF FW!Apply, FW!rowVars, Reading
  <2>2. \/ Stop
        \/ /\ Go("dnsLook")
           /\ fwNft' = [fwNft EXCEPT !.table = TRUE, !.nat = FW!AddedChain(@), !.filter = FW!AddedChain(@)]
    BY <1>3 DEF FW!Apply, FW!Goto, FW!Fails
  <2>3. TableShape'
    BY <1>0, <2>2, TableKept DEF TableShape, HasIn
  <2> QED BY <1>1, <1>2, <2>1, <2>2, <2>3
<1>4. CASE FW!Apply(h, "dnsJump", fwNft.filter.there \/ FW!Missing(h, {"dns"}) = {}, FW!WithJumps(h, {"dns"}), "dnsRules")
  <2>1. fwTask[h].pc \in Reading /\ fwRow' = fwRow
    BY <1>4 DEF FW!Apply, FW!rowVars, Reading
  <2>2. Stop \/ (Go("dnsRules") /\ fwNft' = FW!WithJumps(h, {"dns"}))
    BY <1>4 DEF FW!Apply, FW!Goto, FW!Fails
  <2>3. TableShape'
    BY <1>0, <2>2, TableKept, JumpsAdded
  <2> QED BY <1>1, <1>2, <2>1, <2>2, <2>3
<1>5. CASE FW!DnsRules(h)
  <2>1. fwTask[h].pc \in Reading /\ fwRow' = fwRow
    BY <1>5 DEF FW!DnsRules, FW!Apply, FW!rowVars, Reading
  <2>2. \/ Stop
        \/ /\ Go("filtering")
           /\ fwNft' = [fwNft EXCEPT !.nat = FW!Chain({fwTask[h].row.target}),
                                     !.filter = FW!Chain(FW!FilterRules(fwTask[h].row))]
    BY <1>5 DEF FW!DnsRules, FW!Apply, FW!Goto, FW!Fails
  <2>3. TableShape'
    BY <1>0, <2>2, TableKept DEF TableShape, HasIn
  <2> QED BY <1>1, <1>2, <2>1, <2>2, <2>3
<1>6. CASE FW!List(h, "dnsLook", "dnsJump")
  <2>1. fwTask[h].pc \in Reading /\ fwRow' = fwRow /\ TableShape'
    BY <1>0, <1>6, TableKept DEF FW!List, FW!rowVars, Reading
  <2>2. Got("dnsJump")
    BY <1>6 DEF FW!List, FW!Fails
  <2> QED BY <1>1, <1>2, <2>1, <2>2
<1>7. CASE FW!List(h, "dnsList", "dnsUnjump")
  <2>1. fwTask[h].pc \in Reading /\ fwRow' = fwRow /\ TableShape'
    BY <1>0, <1>7, TableKept DEF FW!List, FW!rowVars, Reading
  <2>2. Got("dnsUnjump")
    BY <1>7 DEF FW!List, FW!Fails
  <2> QED BY <1>1, <1>2, <2>1, <2>2
<1>8. CASE FW!Try(h, "dnsUnjump", FW!Listed(h, {"dns"}) \subseteq fwNft.jumps, FW!WithoutListed(h, {"dns"}), "dnsFilterGone")
  <2>1. fwTask[h].pc \in Reading /\ fwRow' = fwRow
    BY <1>8 DEF FW!Try, FW!rowVars, Reading
  <2>2. Go("dnsFilterGone") /\ (fwNft' = fwNft \/ fwNft' = FW!WithoutListed(h, {"dns"}))
    BY <1>8 DEF FW!Try, FW!Goto, FW!Fails
  <2>3. TableShape'
    BY <1>0, <2>2, TableKept, JumpsRemoved
  <2> QED BY <1>1, <1>2, <2>1, <2>2, <2>3
<1>9. CASE FW!Try(h, "dnsFilterGone", \A j \in fwNft.jumps : j.to # "dns", [fwNft EXCEPT !.filter = FW!Absent], "dnsNatGone")
  <2>1. fwTask[h].pc \in Reading /\ fwRow' = fwRow
    BY <1>9 DEF FW!Try, FW!rowVars, Reading
  <2>2. Go("dnsNatGone") /\ (fwNft' = fwNft \/ fwNft' = [fwNft EXCEPT !.filter = FW!Absent])
    BY <1>9 DEF FW!Try, FW!Goto, FW!Fails
  <2>3. TableShape'
    BY <1>0, <2>2, TableKept DEF TableShape, HasIn
  <2> QED BY <1>1, <1>2, <2>1, <2>2, <2>3
<1>10. CASE FW!Try(h, "dnsNatGone", TRUE, [fwNft EXCEPT !.nat = FW!Absent], "filtering")
  <2>1. fwTask[h].pc \in Reading /\ fwRow' = fwRow
    BY <1>10 DEF FW!Try, FW!rowVars, Reading
  <2>2. Go("filtering") /\ (fwNft' = fwNft \/ fwNft' = [fwNft EXCEPT !.nat = FW!Absent])
    BY <1>10 DEF FW!Try, FW!Goto, FW!Fails
  <2>3. TableShape'
    BY <1>0, <2>2, TableKept DEF TableShape, HasIn
  <2> QED BY <1>1, <1>2, <2>1, <2>2, <2>3
<1> QED BY <1>3, <1>4, <1>5, <1>6, <1>7, <1>8, <1>9, <1>10 DEF FW!EnsureDnsChains, FW!RemoveDnsLockdown

(* Every nft call about the peers' chain keeps FwInv.                      *)
LEMMA PeersStep ==
    ASSUME FwInv, NEW h \in FwHandlers,
           FW!Filtering(h) \/ FW!InitChain(h) \/ FW!ApplyClientRules(h) \/ FW!RemoveFiltering(h)
    PROVE  FwInv'
<1> DEFINE Stop == fwExcused' /\ fwNft' = fwNft /\ fwTask' = [fwTask EXCEPT ![h] = FW!Idle]
           Go(next) == fwTask' = [fwTask EXCEPT ![h].pc = next] /\ (fwExcused' = fwExcused \/ fwExcused')
           Got(next, l) == /\ fwTask' = [fwTask EXCEPT ![h].pc = next, ![h].listing = l] /\ fwNft' = fwNft
                           /\ (fwExcused' = fwExcused \/ fwExcused')
<1>0. TableShape
  BY DEF FwInv
<1>1. ASSUME fwTask[h].pc \in Inside, fwRow' = fwRow, TableShape',
             Stop \/ (\E next \in Inside \cup {"done"} :
                        /\ Go(next) \/ (\E l : Got(next, l))
                        /\ ~fwExcused' /\ ~fwExcused /\ TaskOK(h) => NextOK(h, next))
      PROVE  FwInv'
  <2>1. CASE fwExcused'
    BY <1>1, <2>1, StepFails
  <2>2. CASE ~fwExcused'
    <3>1. PICK next \in Inside \cup {"done"} : /\ Go(next) \/ (\E l : Got(next, l))
                                               /\ ~fwExcused' /\ ~fwExcused /\ TaskOK(h) => NextOK(h, next)
      BY <1>1, <2>2
    <3>2. fwExcused' = fwExcused
      BY <2>2, <3>1
    <3>3. fwTask[h].pc # "idle"
      BY <1>1 DEF Inside, Reading, Opening, Closing
    <3>4. ~fwExcused => NextOK(h, next)
      BY <2>2, <3>1, <3>3, WorkerOK
    <3> QED BY <1>1, <3>1, <3>2, <3>4, StepForward
  <2> QED BY <2>1, <2>2
<1>2. \A next \in Opening \cup Closing \cup {"done", "filtering"} : next \in Inside \cup {"done"}
  BY DEF Inside, Reading
<1>3. CASE FW!Filtering(h)
  <2>1. fwTask[h].pc \in Reading /\ fwRow' = fwRow /\ TableShape' /\ fwExcused' = fwExcused
    BY <1>0, <1>3, TableKept DEF FW!Filtering, FW!rowVars, Reading
  <2>2. /\ fwTask[h].row.firewall => Go("initChain")
        /\ ~fwTask[h].row.firewall => Go("flush")
    BY <1>3 DEF FW!Filtering, FW!Goto
  <2>3. TaskOK(h) => fwTask[h].row = fwRow
    BY <2>1 DEF TaskOK, Inside
  <2>4. /\ fwRow.firewall => NextOK(h, "initChain")
        /\ ~fwRow.firewall => NextOK(h, "flush")
    BY DEF NextOK, Opening, Closing
  <2>5. fwTask[h].pc \in Inside /\ "initChain" \in Inside /\ "flush" \in Inside
    BY <2>1 DEF Inside, Opening, Closing
  <2> HIDE DEF Stop, Got, Go
  <2>6. CASE fwTask[h].row.firewall
    BY <1>1, <2>1, <2>2, <2>3, <2>4, <2>5, <2>6
  <2>7. CASE ~fwTask[h].row.firewall
    BY <1>1, <2>1, <2>2, <2>3, <2>4, <2>5, <2>7
  <2> QED BY <2>6, <2>7
<1>4. CASE FW!Apply(h, "initChain", TRUE, [fwNft EXCEPT !.table = TRUE, !.peers = FW!AddedChain(@)], "look")
  <2>1. fwTask[h].pc = "initChain" /\ fwTask[h].pc \in Inside /\ fwRow' = fwRow
    BY <1>4 DEF FW!Apply, FW!rowVars, Opening, Inside
  <2>2. \/ Stop
        \/ Go("look") /\ fwNft' = [fwNft EXCEPT !.table = TRUE, !.peers = FW!AddedChain(@)]
    BY <1>4 DEF FW!Apply, FW!Goto, FW!Fails
  <2>3. TableShape'
    BY <1>0, <2>2, TableKept, ChainEnsured
  <2>4. TaskOK(h) => NextOK(h, "look")
    BY <2>1 DEF TaskOK, NextOK, Opening, Closing
  <2>5. "look" \in Inside
    BY DEF Inside, Opening
  <2> QED BY <1>1, <2>1, <2>2, <2>3, <2>4, <2>5
<1>5. CASE FW!List(h, "look", "jump")
  <2>1. fwTask[h].pc = "look" /\ fwTask[h].pc \in Inside /\ fwRow' = fwRow /\ TableShape' /\ fwNft' = fwNft
    BY <1>0, <1>5, TableKept DEF FW!List, FW!rowVars, Opening, Inside
  <2>2. PICK l : Got("jump", l) /\ (l = {} \/ l = fwNft.jumps)
    BY <1>5 DEF FW!List, FW!Fails
  <2>3. fwTask'[h].listing = l
    BY <2>1, <2>2 DEF FwInv, TaskShape, Inside
  <2>4. TaskOK(h) => NextOK(h, "jump")
    BY <2>1, <2>2, <2>3 DEF TaskOK, NextOK, Opening, Closing
  <2>5. "jump" \in Inside
    BY DEF Inside, Opening
  <2> QED BY <1>1, <2>1, <2>2, <2>4, <2>5
<1>6. CASE FW!Apply(h, "jump", fwNft.peers.there \/ FW!Missing(h, {"in", "out"}) = {}, FW!WithJumps(h, {"in", "out"}), "rules")
  <2>1. fwTask[h].pc = "jump" /\ fwTask[h].pc \in Inside /\ fwRow' = fwRow
    BY <1>6 DEF FW!Apply, FW!rowVars, Opening, Inside
  <2>2. \/ Stop
        \/ /\ Go("rules") /\ fwNft' = FW!WithJumps(h, {"in", "out"})
           /\ fwNft.peers.there \/ FW!Missing(h, {"in", "out"}) = {}
    BY <1>6 DEF FW!Apply, FW!Goto, FW!Fails
  <2>3. CASE Stop
    <3>1. TableShape'
      BY <1>0, <2>3, TableKept
    <3> QED BY <1>1, <2>1, <2>3, <3>1
  <2>4. CASE /\ Go("rules") /\ fwNft' = FW!WithJumps(h, {"in", "out"})
             /\ fwNft.peers.there \/ FW!Missing(h, {"in", "out"}) = {}
    <3>1. /\ TableShape' /\ \A j \in fwNft.jumps : j \in fwNft'.jumps
          /\ \A to \in FW!Missing(h, {"in", "out"}) : \E j \in fwNft'.jumps : j.to = to
      BY <1>0, <2>4, JumpsAdded
    <3>2. TaskOK(h) => HasIn'
      <4> SUFFICES ASSUME TaskOK(h) PROVE HasIn'
        OBVIOUS
      <4>1. fwTask[h].listing \subseteq fwNft.jumps
        BY <2>1 DEF TaskOK
      <4>2. CASE "in" \in FW!Missing(h, {"in", "out"})
        BY <3>1, <4>2 DEF HasIn
      <4>3. CASE "in" \notin FW!Missing(h, {"in", "out"})
        <5>1. PICK j \in fwTask[h].listing : j.to = "in"
          BY <4>3 DEF FW!Missing
        <5> QED BY <3>1, <4>1, <5>1 DEF HasIn
      <4> QED BY <4>2, <4>3
    <3>3. TaskOK(h) => NextOK(h, "rules")
      BY <2>1, <3>2 DEF TaskOK, NextOK, Opening, Closing
    <3>4. "rules" \in Inside
      BY DEF Inside, Opening
    <3> QED BY <1>1, <2>1, <2>4, <3>1, <3>3, <3>4
  <2> QED BY <2>2, <2>3, <2>4
<1>7. CASE FW!ApplyClientRules(h)
  <2>1. fwTask[h].pc = "rules" /\ fwTask[h].pc \in Inside /\ fwRow' = fwRow
        /\ FW!ClientRules' = FW!ClientRules
    BY <1>7 DEF FW!ApplyClientRules, FW!Apply, FW!rowVars, Opening, Inside, FW!ClientRules,
           FW!AppendClientRules
  <2>2. \/ Stop
        \/ Go("done") /\ fwNft' = [fwNft EXCEPT !.peers = FW!Chain(FW!ClientRules \cup {<<"any", "any", "drop">>})]
    BY <1>7 DEF FW!ApplyClientRules, FW!Apply, FW!Goto, FW!Fails
  <2>3. CASE Stop
    <3>1. TableShape'
      BY <1>0, <2>3, TableKept
    <3> QED BY <1>1, <2>1, <2>3, <3>1
  <2>4. CASE Go("done") /\ fwNft' = [fwNft EXCEPT !.peers = FW!Chain(FW!ClientRules \cup {<<"any", "any", "drop">>})]
    <3>1. /\ "table" \in DOMAIN fwNft' /\ "handle" \in DOMAIN fwNft' /\ "jumps" \in DOMAIN fwNft'
          /\ "peers" \in DOMAIN fwNft' /\ "filter" \in DOMAIN fwNft' /\ "nat" \in DOMAIN fwNft'
          /\ fwNft'.jumps = fwNft.jumps /\ fwNft'.peers = FW!Chain(FW!ClientRules \cup {LastRule})
      BY <1>0, <2>4 DEF TableShape, LastRule
    <3>2. fwNft'.peers.there /\ fwNft'.peers.rules = FW!ClientRules \cup {LastRule}
      BY <3>1 DEF FW!Chain
    <3>3. TableShape'
      BY <3>1, <3>2 DEF TableShape
    <3>4. TaskOK(h) => Settled'
      BY <2>1, <3>1, <3>2 DEF TaskOK, Settled, HasIn, Opening
    <3>5. TaskOK(h) => NextOK(h, "done")
      BY <3>4 DEF NextOK, Opening, Closing
    <3> QED BY <1>1, <2>1, <2>4, <3>3, <3>5
  <2> QED BY <2>2, <2>3, <2>4
<1>8. CASE FW!Apply(h, "flush", fwNft.peers.there, [fwNft EXCEPT !.peers = FW!Chain({})], "list")
  <2>1. fwTask[h].pc = "flush" /\ fwTask[h].pc \in Inside /\ fwRow' = fwRow
    BY <1>8 DEF FW!Apply, FW!rowVars, Closing, Inside
  <2>2. Stop \/ (Go("list") /\ fwNft' = [fwNft EXCEPT !.peers = FW!Chain({})])
    BY <1>8 DEF FW!Apply, FW!Goto, FW!Fails
  <2>3. CASE Stop
    <3>1. TableShape'
      BY <1>0, <2>3, TableKept
    <3> QED BY <1>1, <2>1, <2>3, <3>1
  <2>4. CASE Go("list") /\ fwNft' = [fwNft EXCEPT !.peers = FW!Chain({})]
    <3>1. /\ "table" \in DOMAIN fwNft' /\ "handle" \in DOMAIN fwNft' /\ "jumps" \in DOMAIN fwNft'
          /\ "peers" \in DOMAIN fwNft' /\ "filter" \in DOMAIN fwNft' /\ "nat" \in DOMAIN fwNft'
          /\ fwNft'.peers = FW!Chain({})
      BY <1>0, <2>4 DEF TableShape
    <3>2. fwNft'.peers.there /\ fwNft'.peers.rules = {}
      BY <3>1 DEF FW!Chain
    <3>3. TableShape' /\ NoDrop'
      BY <3>1, <3>2 DEF TableShape, NoDrop
    <3>4. TaskOK(h) => NextOK(h, "list")
      BY <2>1, <3>3 DEF TaskOK, NextOK, Opening, Closing
    <3>5. "list" \in Inside
      BY DEF Inside, Closing
    <3> QED BY <1>1, <2>1, <2>4, <3>3, <3>4, <3>5
  <2> QED BY <2>2, <2>3, <2>4
<1>9. CASE FW!List(h, "list", "unjump")
  <2>1. fwTask[h].pc = "list" /\ fwTask[h].pc \in Inside /\ fwRow' = fwRow /\ TableShape' /\ fwNft' = fwNft
    BY <1>0, <1>9, TableKept DEF FW!List, FW!rowVars, Closing, Inside
  <2>2. \E l : Got("unjump", l)
    BY <1>9 DEF FW!List, FW!Fails
  <2>3. TaskOK(h) => NextOK(h, "unjump")
    BY <2>1 DEF TaskOK, NextOK, NoDrop, Opening, Closing
  <2>4. "unjump" \in Inside
    BY DEF Inside, Closing
  <2> QED BY <1>1, <2>1, <2>2, <2>3, <2>4
<1>10. CASE FW!Try(h, "unjump", FW!Listed(h, {"in", "out"}) \subseteq fwNft.jumps, FW!WithoutListed(h, {"in", "out"}), "done")
  <2>1. fwTask[h].pc = "unjump" /\ fwTask[h].pc \in Inside /\ fwRow' = fwRow
    BY <1>10 DEF FW!Try, FW!rowVars, Closing, Inside
  <2>2. Go("done") /\ (fwNft' = fwNft \/ fwNft' = FW!WithoutListed(h, {"in", "out"}))
    BY <1>10 DEF FW!Try, FW!Goto, FW!Fails
  <2>3. TableShape' /\ fwNft'.peers = fwNft.peers
    BY <1>0, <2>2, TableKept, JumpsRemoved
  <2>4. TaskOK(h) => NextOK(h, "done")
    BY <2>1, <2>3 DEF TaskOK, NextOK, Settled, NoDrop, Opening, Closing
  <2> QED BY <1>1, <2>1, <2>2, <2>3, <2>4
<1> QED BY <1>3, <1>4, <1>5, <1>6, <1>7, <1>8, <1>9, <1>10 DEF FW!InitChain, FW!RemoveFiltering

(* A request's steps around a rebuild.                                     *)
Outside == {"idle", "rebuild", "down", "up", "gate", "done"}

(* A request that moves outside a rebuild, or into one, leaves the others' *)
(* places alone.                                                           *)
LEMMA OutsideTask ==
    ASSUME TaskShape, NEW h \in FwHandlers, "firewall" \in DOMAIN fwRow',
           \/ \E t : /\ fwTask' = [fwTask EXCEPT ![h] = t]
                     /\ "pc" \in DOMAIN t
                     /\ t.pc \in Inside => "row" \in DOMAIN t /\ "listing" \in DOMAIN t
           \/ \E next \in Outside : fwTask' = [fwTask EXCEPT ![h].pc = next]
    PROVE  TaskShape' /\ \A g \in FwHandlers : g # h => fwTask'[g] = fwTask[g]
<1>1. fwTask = [g \in FwHandlers |-> fwTask[g]] /\ "pc" \in DOMAIN fwTask[h]
  BY DEF TaskShape
<1>2. Outside \cap Inside = {}
  BY DEF Outside, Inside, Reading, Opening, Closing
<1>3. /\ fwTask' = [g \in FwHandlers |-> fwTask'[g]]
      /\ \A g \in FwHandlers : g # h => fwTask'[g] = fwTask[g]
      /\ "pc" \in DOMAIN fwTask'[h]
      /\ fwTask'[h].pc \in Inside => "row" \in DOMAIN fwTask'[h] /\ "listing" \in DOMAIN fwTask'[h]
  <2>1. ASSUME NEW t, fwTask' = [fwTask EXCEPT ![h] = t], "pc" \in DOMAIN t,
               t.pc \in Inside => "row" \in DOMAIN t /\ "listing" \in DOMAIN t
        PROVE  <1>3!:
    <3>1. fwTask'[h] = t
      BY <1>1, <2>1
    <3> QED BY <1>1, <2>1, <3>1
  <2>2. ASSUME NEW next \in Outside, fwTask' = [fwTask EXCEPT ![h].pc = next]
        PROVE  <1>3!:
    <3>1. fwTask'[h].pc = next
      BY <1>1, <2>2
    <3> QED BY <1>1, <1>2, <2>2, <3>1
  <2> QED BY <2>1, <2>2
<1> QED BY <1>3 DEF TaskShape, Inside

(* What a request must know outside a rebuild.                             *)
LEMMA OutsideOK ==
    ASSUME NEW h \in FwHandlers, fwTask'[h].pc \in Outside,
           (fwTask[h].pc \in {"down", "up", "gate"} /\ ~fwRow.firewall => NoDrop)',
           (fwTask[h].pc \in {"idle", "done"} => Settled)'
    PROVE  TaskOK(h)'
<1>1. fwTask'[h].pc \notin Reading \cup Opening \cup Closing
  BY DEF Outside, Reading, Opening, Closing
<1>2. fwTask'[h] = FW!Idle => fwTask'[h].pc = "idle"
  BY DEF FW!Idle
<1> QED BY <1>1, <1>2 DEF TaskOK, Reading, Opening, Closing

(* The start of a rebuild keeps FwInv: from here on the row it read        *)
(* counts.                                                                 *)
LEMMA RebuildStep ==
    ASSUME FwInv, NEW h \in FwHandlers, FW!RebuildRules(h)
    PROVE  FwInv'
<1> DEFINE t == [pc |-> "lockdown", row |-> fwRow, listing |-> {}]
<1>1. TableShape' /\ fwRow' = fwRow /\ fwNft' = fwNft
  BY TableKept DEF FwInv, FW!RebuildRules, FW!rowVars
<1>2. fwTask' = [fwTask EXCEPT ![h] = t] /\ "pc" \in DOMAIN t /\ "row" \in DOMAIN t /\ "listing" \in DOMAIN t
  BY DEF FW!RebuildRules
<1>3. TaskShape' /\ \A g \in FwHandlers : g # h => fwTask'[g] = fwTask[g]
  <2>1. TaskShape /\ "firewall" \in DOMAIN fwRow'
    BY <1>1 DEF FwInv, TaskShape
  <2> HIDE DEF t
  <2> QED BY <1>2, <2>1, OutsideTask
<1>4. fwTask'[h] = t
  BY <1>2 DEF FwInv, TaskShape
<1>5. fwTask'[h].pc = "lockdown" /\ fwTask'[h].row = fwRow'
  BY <1>1, <1>4
<1>6. ASSUME ~fwExcused' PROVE Alone(h) /\ TaskOK(h)'
  <2>1. Alone(h)
    BY <1>6 DEF FW!RebuildRules, FW!Busy, Alone
  <2>2. fwTask'[h] # FW!Idle
    BY <1>5 DEF FW!Idle
  <2>3. TaskOK(h)'
    BY <1>5, <2>2 DEF TaskOK, Opening, Closing
  <2> QED BY <2>1, <2>3
<1>7. RebuildInv'
  BY <1>3, <1>6, OneTask
<1> QED BY <1>1, <1>3, <1>7 DEF FwInv

(* The end of a request keeps FwInv.                                       *)
LEMMA DoneStep ==
    ASSUME FwInv, NEW h \in FwHandlers, FW!Done(h)
    PROVE  FwInv'
<1>1. TableShape' /\ fwRow' = fwRow /\ fwNft' = fwNft /\ fwPeer' = fwPeer /\ fwMode' = fwMode
      /\ fwExcused' = fwExcused
  BY TableKept DEF FwInv, FW!Done, FW!rowVars
<1>2. fwTask' = [fwTask EXCEPT ![h] = FW!Idle] /\ "pc" \in DOMAIN FW!Idle /\ FW!Idle.pc = "idle"
  BY DEF FW!Done, FW!Idle
<1>3. "idle" \notin Inside
  BY DEF Inside, Reading, Opening, Closing
<1>4. TaskShape' /\ \A g \in FwHandlers : g # h => fwTask'[g] = fwTask[g]
  <2>1. TaskShape /\ "firewall" \in DOMAIN fwRow'
    BY <1>1 DEF FwInv, TaskShape
  <2> QED BY <1>2, <1>3, <2>1, OutsideTask
<1>5. fwTask'[h].pc = "idle"
  BY <1>2 DEF FwInv, TaskShape
<1>6. ASSUME ~fwExcused' PROVE Alone(h) /\ TaskOK(h)'
  <2>1. Alone(h) /\ TaskOK(h) /\ fwTask[h].pc = "done"
    BY <1>1, <1>6, WorkerOK DEF FW!Done
  <2>2. Settled'
    <3>1. Settled
      BY <2>1 DEF TaskOK
    <3> QED BY <1>1, <3>1 DEF Settled, HasIn, NoDrop, FW!ClientRules, FW!AppendClientRules
  <2>3. (fwTask[h].pc \in Outside)'
    BY <1>5 DEF Outside
  <2>4. TaskOK(h)'
    BY <1>5, <2>2, <2>3, OutsideOK
  <2> QED BY <2>1, <2>4
<1>7. RebuildInv'
  BY <1>4, <1>6, OneTask
<1> QED BY <1>1, <1>4, <1>7 DEF FwInv

(* The arrival of a request keeps FwInv: the table was settled, or the     *)
(* request overlaps.                                                       *)
LEMMA RequestStep ==
    ASSUME FwInv, NEW h \in FwHandlers, NEW pc \in {"rebuild", "down", "gate", "done"}, FW!Request(h, pc),
           fwNft' = fwNft, "firewall" \in DOMAIN fwRow',
           pc # "rebuild" => fwRow'.firewall = fwRow.firewall,
           pc = "done" => fwPeer' = fwPeer /\ fwMode' = fwMode
    PROVE  FwInv'
<1>1. TableShape' /\ TaskShape
  BY TableKept DEF FwInv
<1> DEFINE t == [pc |-> pc]
<1>2. fwTask' = [fwTask EXCEPT ![h] = t] /\ "pc" \in DOMAIN t /\ t.pc = pc /\ fwTask[h] = FW!Idle
  BY DEF FW!Request
<1> HIDE DEF t
<1>3. pc \notin Inside /\ pc \in Outside
  BY DEF Inside, Outside, Reading, Opening, Closing
<1>4. TaskShape' /\ \A g \in FwHandlers : g # h => fwTask'[g] = fwTask[g]
  BY <1>1, <1>2, <1>3, OutsideTask
<1>5. fwTask'[h].pc = pc
  <2>1. fwTask'[h] = t
    BY <1>1, <1>2 DEF TaskShape
  <2> QED BY <1>2, <2>1
<1>6. ASSUME ~fwExcused' PROVE Alone(h) /\ TaskOK(h)'
  <2>1. ~fwExcused /\ \A g \in FwHandlers : fwTask[g] = FW!Idle
    BY <1>6 DEF FW!Request, FW!Busy
  <2>2. Alone(h) /\ Settled
    BY <2>1 DEF Alone, FwInv, RebuildInv
  <2>3. (fwTask[h].pc \in {"down", "up", "gate"} /\ ~fwRow.firewall => NoDrop)'
    BY <1>5, <2>2 DEF Settled, NoDrop
  <2>4. (fwTask[h].pc \in {"idle", "done"} => Settled)'
    BY <1>5, <2>2 DEF Settled, NoDrop, HasIn, FW!ClientRules, FW!AppendClientRules
  <2>5. (fwTask[h].pc \in Outside)'
    BY <1>3, <1>5 DEF Outside
  <2>6. TaskOK(h)'
    BY <2>3, <2>4, <2>5, OutsideOK
  <2> QED BY <2>2, <2>6
<1>7. RebuildInv'
  BY <1>4, <1>6, OneTask
<1> QED BY <1>1, <1>4, <1>7 DEF FwInv

(* Every kind of request keeps FwInv.                                      *)
LEMMA RequestsStep ==
    ASSUME FwInv, NEW h \in FwHandlers,
           FW!UpdateInterface(h) \/ FW!UpdatePort(h) \/ FW!UpdateClient(h) \/ FW!RestartInterface(h) \/ FW!Boot(h)
    PROVE  FwInv'
<1>0. "firewall" \in DOMAIN fwRow
  BY DEF FwInv, TaskShape
<1>1. CASE FW!UpdateInterface(h)
  <2>1. FW!Request(h, "rebuild") /\ fwNft' = fwNft /\ "firewall" \in DOMAIN fwRow'
    BY <1>0, <1>1 DEF FW!UpdateInterface
  <2> QED BY <2>1, RequestStep
<1>2. CASE FW!UpdatePort(h)
  <2>1. /\ FW!Request(h, "done") /\ fwNft' = fwNft /\ fwPeer' = fwPeer /\ fwMode' = fwMode
        /\ "firewall" \in DOMAIN fwRow' /\ fwRow'.firewall = fwRow.firewall
    BY <1>0, <1>2 DEF FW!UpdatePort
  <2> QED BY <2>1, RequestStep
<1>3. CASE FW!UpdateClient(h)
  <2>1. FW!Request(h, "gate") /\ fwNft' = fwNft /\ fwRow' = fwRow
    BY <1>3 DEF FW!UpdateClient
  <2> QED BY <1>0, <2>1, RequestStep
<1>4. CASE FW!RestartInterface(h) \/ FW!Boot(h)
  <2>1. FW!Request(h, "down") /\ fwNft' = fwNft /\ fwRow' = fwRow
    BY <1>4 DEF FW!RestartInterface, FW!Boot, FW!rowVars
  <2> QED BY <1>0, <2>1, RequestStep
<1> QED BY <1>1, <1>2, <1>3, <1>4

(* A step outside a rebuild keeps FwInv when it adds no drop.              *)
LEMMA OutsideStep ==
    ASSUME FwInv, NEW h \in FwHandlers, fwTask[h].pc \in {"down", "up", "gate"}, TableShape',
           NEW next \in {"up", "gate", "rebuild", "done"}, fwTask' = [fwTask EXCEPT ![h].pc = next],
           fwRow' = fwRow, fwExcused' = fwExcused,
           next \in {"up", "gate"} /\ ~fwRow.firewall /\ NoDrop => NoDrop',
           next = "done" => ~fwRow.firewall /\ (NoDrop => NoDrop')
    PROVE  FwInv'
<1>1. TaskShape /\ "firewall" \in DOMAIN fwRow' /\ next \in Outside
  BY DEF FwInv, TaskShape, Outside
<1>2. TaskShape' /\ \A g \in FwHandlers : g # h => fwTask'[g] = fwTask[g]
  BY <1>1, OutsideTask
<1>3. fwTask'[h].pc = next
  BY <1>1 DEF TaskShape
<1>4. ASSUME ~fwExcused' PROVE Alone(h) /\ TaskOK(h)'
  <2>1. Alone(h) /\ TaskOK(h)
    BY <1>4, WorkerOK
  <2>2. ~fwRow.firewall => NoDrop
    BY <2>1 DEF TaskOK
  <2>3. (fwTask[h].pc \in {"down", "up", "gate"} /\ ~fwRow.firewall => NoDrop)'
    BY <1>3, <2>2
  <2>4. (fwTask[h].pc \in {"idle", "done"} => Settled)'
    BY <1>3, <2>2 DEF Settled
  <2>5. (fwTask[h].pc \in Outside)'
    BY <1>1, <1>3 DEF Outside
  <2>6. TaskOK(h)'
    BY <2>3, <2>4, <2>5, OutsideOK
  <2> QED BY <2>1, <2>6
<1>5. RebuildInv'
  BY <1>2, <1>4, OneTask
<1> QED BY <1>2, <1>5 DEF FwInv

(* Taking the interface down, bringing it up and deciding whether to       *)
(* rebuild keep FwInv: with the firewall off the new table has no drop,    *)
(* with it on a rebuild follows.                                           *)
LEMMA InterfaceStep ==
    ASSUME FwInv, NEW h \in FwHandlers, FW!CbDown(h) \/ FW!CbUp(h) \/ FW!Gate(h)
    PROVE  FwInv'
<1>0. TableShape
  BY DEF FwInv
<1>1. CASE FW!CbDown(h)
  <2>1. /\ fwTask[h].pc = "down" /\ fwTask' = [fwTask EXCEPT ![h].pc = "up"]
        /\ fwRow' = fwRow /\ fwExcused' = fwExcused /\ (fwNft' = fwNft \/ fwNft' = FW!NoTable)
    BY <1>1 DEF FW!CbDown, FW!Goto, FW!rowVars
  <2>2. TableShape' /\ (NoDrop => NoDrop')
    <3>1. CASE fwNft' = fwNft
      BY <1>0, <3>1, TableKept DEF NoDrop
    <3>2. CASE fwNft' = FW!NoTable
      <4>1. /\ "table" \in DOMAIN fwNft' /\ "handle" \in DOMAIN fwNft' /\ "jumps" \in DOMAIN fwNft'
            /\ "peers" \in DOMAIN fwNft' /\ "filter" \in DOMAIN fwNft' /\ "nat" \in DOMAIN fwNft'
            /\ fwNft'.jumps = {} /\ fwNft'.peers = FW!Absent
        BY <3>2 DEF FW!NoTable
      <4>2. ~fwNft'.peers.there
        BY <4>1 DEF FW!Absent
      <4> QED BY <4>1, <4>2 DEF TableShape, HasIn, NoDrop
    <3> QED BY <2>1, <3>1, <3>2
  <2> QED BY <2>1, <2>2, OutsideStep
<1>2. CASE FW!CbUp(h)
  <2>1. /\ fwTask[h].pc = "up" /\ fwTask' = [fwTask EXCEPT ![h].pc = "gate"]
        /\ fwRow' = fwRow /\ fwExcused' = fwExcused
        /\ fwNft' = fwNft \/ fwNft' = [fwNft EXCEPT !.table = TRUE, !.peers = FW!AddedChain(@)]
    BY <1>2 DEF FW!CbUp, FW!Goto, FW!rowVars
  <2>2. TableShape' /\ (NoDrop => NoDrop')
    <3>1. CASE fwNft' = fwNft
      BY <1>0, <3>1, TableKept DEF NoDrop
    <3>2. CASE fwNft' = [fwNft EXCEPT !.table = TRUE, !.peers = FW!AddedChain(@)]
      BY <1>0, <3>2, ChainEnsured
    <3> QED BY <2>1, <3>1, <3>2
  <2> QED BY <2>1, <2>2, OutsideStep
<1>3. CASE FW!Gate(h)
  <2>1. fwTask[h].pc = "gate" /\ fwRow' = fwRow /\ fwExcused' = fwExcused /\ fwNft' = fwNft
    BY <1>3 DEF FW!Gate, FW!rowVars
  <2>2. TableShape' /\ (NoDrop => NoDrop')
    BY <1>0, <2>1, TableKept DEF NoDrop
  <2>3. CASE fwRow.firewall
    <3>1. fwTask' = [fwTask EXCEPT ![h].pc = "rebuild"]
      BY <1>3, <2>3 DEF FW!Gate, FW!Goto
    <3> QED BY <2>1, <2>2, <3>1, OutsideStep
  <2>4. CASE ~fwRow.firewall
    <3>1. fwTask' = [fwTask EXCEPT ![h].pc = "done"]
      BY <1>3, <2>4 DEF FW!Gate, FW!Goto
    <3> QED BY <2>1, <2>2, <2>4, <3>1, OutsideStep
  <2> QED BY <2>3, <2>4
<1> QED BY <1>1, <1>2, <1>3

(* A step that leaves the rows, the table and the requests alone keeps     *)
(* FwInv.                                                                  *)
LEMMA FwStays ==
    ASSUME FwInv, fwRow' = fwRow, fwPeer' = fwPeer, fwMode' = fwMode, fwNft' = fwNft, fwTask' = fwTask,
           fwExcused' = fwExcused
    PROVE  FwInv'
<1>1. TableShape'
  BY TableKept DEF FwInv
<1>2. TaskShape'
  BY DEF FwInv, TaskShape
<1>3. (Settled <=> Settled') /\ (NoDrop <=> NoDrop') /\ (HasIn <=> HasIn')
  BY DEF Settled, NoDrop, HasIn, FW!ClientRules, FW!AppendClientRules
<1>4. \A h \in FwHandlers : (TaskOK(h) <=> TaskOK(h)') /\ (Alone(h) <=> Alone(h)')
  BY <1>3 DEF TaskOK, Alone
<1>5. RebuildInv'
  BY <1>3, <1>4 DEF FwInv, RebuildInv
<1> QED BY <1>1, <1>2, <1>5 DEF FwInv

(* Every step keeps FwInv.                                                 *)
LEMMA FwKeeps ==
    ASSUME FwInv, [FW!Next]_(FW!vars)
    PROVE  FwInv'
<1>1. ASSUME NEW h \in FwHandlers, FW!Rebuild(h) PROVE FwInv'
  BY <1>1, RebuildStep, LockdownStep, DnsChainsStep, PeersStep, DoneStep DEF FW!Rebuild
<1>2. ASSUME NEW h \in FwHandlers,
             \/ FW!UpdateInterface(h) \/ FW!UpdatePort(h) \/ FW!UpdateClient(h) \/ FW!RestartInterface(h) \/ FW!Boot(h)
             \/ FW!CbDown(h) \/ FW!CbUp(h) \/ FW!Gate(h)
      PROVE  FwInv'
  BY <1>2, RequestsStep, InterfaceStep
<1>3. CASE FW!RemoveLegacyCompat
  BY <1>3, FwStays DEF FW!RemoveLegacyCompat, FW!rowVars
<1>4. CASE UNCHANGED FW!vars
  BY <1>4, FwStays DEF FW!vars, FW!rowVars
<1> QED BY <1>1, <1>2, <1>3, <1>4 DEF FW!Next

(* Once the last rebuild went through alone, a peer reaches what is opened *)
(* to it and nothing else while the firewall is on, and everything while   *)
(* it is off, after any sequence of changes, restarts of the interface and *)
(* failed nft calls, for any number of peers and requests (rebuild_rules,  *)
(* init_chain, remove_filtering and the callers that decide whether to     *)
(* rebuild).                                                               *)
THEOREM PeersStayConfined == FW!Spec => []PeersAreConfined
<1>1. FW!Spec => []FwInv
  BY FwStarts, FwKeeps, PTL DEF FW!Spec
<1>2. FwInv => PeersAreConfined
  BY ConfinedIn
<1> QED BY <1>1, <1>2, PTL

-----------------------------------------------------------------------------
(* Settings and metrics: any number of forms, addresses and scrapes, any   *)
(* limit and window.                                                       *)

(* What the attempt store holds of a scrape.                               *)
Attempts == [at : Nat, nr : Nat]

(* The attempts the store holds of an address.                             *)
Window(a) == IF a \in DOMAIN asTried THEN asTried[a] ELSE {}

(* Whatever was judged for an address within the window is still in the    *)
(* store: this is what lets the store's count bound what was judged, and   *)
(* what a sweep of the full store must keep.                               *)
LimitInv ==
    /\ asNow \in Nat /\ asScrapes \in Nat
    /\ asJudged = [a \in AsSources |-> asJudged[a]]
    /\ \A a \in AsSources :
        /\ asJudged[a] \subseteq Attempts
        /\ IsFiniteSet(Window(a))
        /\ AS!Recent(asJudged[a]) \subseteq Window(a)
        /\ Cardinality(AS!Recent(asJudged[a])) <= AsLimit

(* While forms do not overlap one is under way at most, and the one that   *)
(* was judged leaves no metrics open without a password if the row is as   *)
(* it was.                                                                 *)
FormInv ==
    /\ asTask = [h \in AsHandlers |-> asTask[h]]
    /\ "json" \in DOMAIN asGeneral /\ "prom" \in DOMAIN asGeneral /\ "password" \in DOMAIN asGeneral
    /\ ~asOverlap =>
        /\ asGeneral.password = 0 => \A k \in AS!Formats : ~asGeneral[k]
        /\ \A g, h \in AsHandlers : asTask[g] # AS!Idle /\ asTask[h] # AS!Idle => g = h
        /\ \A h \in AsHandlers : asTask[h].pc = "general" => ~AS!OpenAfter(asTask[h].form, asGeneral)
    /\ \A h \in AsHandlers : asTask[h].pc \in {"purge", "judge", "general"} =>
           "pc" \in DOMAIN asTask[h] /\ "form" \in DOMAIN asTask[h]

(* The inductive invariant.                                                *)
SettingsInv == LimitInv /\ FormInv /\ ~asLeaked

(* The component's cardinality is that of FiniteSets.                      *)
LEMMA SameCount ==
    ASSUME NEW S
    PROVE  AS!Cardinality(S) = Cardinality(S)
BY DEF AS!Cardinality, AS!IsFiniteSet, Cardinality, IsFiniteSet

(* The invariant implies the property.                                     *)
LEMMA GuardedIn ==
    ASSUME SettingsInv
    PROVE  MetricsAreGuarded
BY SameCount DEF SettingsInv, LimitInv, FormInv, MetricsAreGuarded, AS!MetricsAreGuarded

(* The invariant holds at the start.                                       *)
LEMMA SettingsStart ==
    ASSUME AS!Init, AsLimit \in Nat
    PROVE  SettingsInv
<1>1. LimitInv
  <2>1. \A a \in AsSources : asJudged[a] = {} /\ Window(a) = {} /\ AS!Recent(asJudged[a]) = {}
    BY DEF AS!Init, Window, AS!Recent
  <2>2. IsFiniteSet({}) /\ Cardinality({}) = 0
    BY FS_EmptySet
  <2>3. asNow \in Nat /\ asScrapes \in Nat /\ asJudged = [a \in AsSources |-> asJudged[a]]
    BY DEF AS!Init
  <2> QED BY <2>1, <2>2, <2>3 DEF LimitInv
<1>2. FormInv
  <2>1. asTask = [h \in AsHandlers |-> asTask[h]]
        /\ \A h \in AsHandlers : asTask[h] = AS!Idle /\ asTask[h].pc = "idle"
    BY DEF AS!Init, AS!Idle
  <2>2. /\ "json" \in DOMAIN asGeneral /\ "prom" \in DOMAIN asGeneral /\ "password" \in DOMAIN asGeneral
        /\ \A k \in AS!Formats : ~asGeneral[k]
    BY DEF AS!Init, AS!Formats
  <2> QED BY <2>1, <2>2 DEF FormInv
<1> QED BY <1>1, <1>2 DEF SettingsInv, AS!Init

(* A step that leaves the store and the clock alone keeps LimitInv.        *)
LEMMA LimitStays ==
    ASSUME LimitInv, UNCHANGED AS!scrapeVars
    PROVE  LimitInv'
BY DEF LimitInv, AS!scrapeVars, Window, AS!Recent

(* The clock keeps LimitInv: attempts only leave the window.               *)
LEMMA TickStep ==
    ASSUME LimitInv, AsWindow \in Nat, AsLimit \in Nat, AS!Tick
    PROVE  LimitInv'
<1>1. asNow' = asNow + 1 /\ asTried' = asTried /\ asScrapes' = asScrapes /\ asJudged' = asJudged
  BY DEF AS!Tick
<1>2. SUFFICES ASSUME NEW a \in AsSources
               PROVE  /\ AS!Recent(asJudged[a])' \subseteq Window(a)
                      /\ Cardinality(AS!Recent(asJudged[a])') <= AsLimit
  BY <1>1 DEF LimitInv, Window
<1>3. asJudged[a] \subseteq Attempts /\ asNow \in Nat
  BY DEF LimitInv
<1>4. AS!Recent(asJudged[a])' \subseteq AS!Recent(asJudged[a])
  <2>1. \A t \in asJudged[a] : t.at \in Nat
    BY <1>3 DEF Attempts
  <2> QED BY <1>1, <1>3, <2>1 DEF AS!Recent
<1>5. IsFiniteSet(AS!Recent(asJudged[a])) /\ AS!Recent(asJudged[a]) \subseteq Window(a)
      /\ Cardinality(AS!Recent(asJudged[a])) <= AsLimit
  BY FS_Subset DEF LimitInv
<1> HIDE DEF AS!Recent
<1>6. Cardinality(AS!Recent(asJudged[a])') <= Cardinality(AS!Recent(asJudged[a]))
  BY <1>4, <1>5, FS_Subset
<1>7. Cardinality(AS!Recent(asJudged[a])') \in Nat /\ Cardinality(AS!Recent(asJudged[a])) \in Nat
  BY <1>4, <1>5, FS_Subset, FS_CardinalityType
<1> QED BY <1>4, <1>5, <1>6, <1>7

(* check_ip_attempt_limit forgets nothing that is recent, records the      *)
(* attempt it admits and admits one only below the limit.                  *)
LEMMA AttemptMade ==
    ASSUME LimitInv, AsLimit \in Nat, NEW ip \in AsSources
    PROVE  LET limit == AS!CheckIpAttemptLimit(ip)
               left(a) == IF a \in DOMAIN limit.store THEN limit.store[a] ELSE {}
           IN  /\ \A a \in AsSources : IsFiniteSet(left(a)) /\ AS!Recent(asJudged[a]) \subseteq left(a)
               /\ limit.ok => /\ AS!Attempt \in left(ip)
                              /\ Cardinality(AS!Recent(asJudged[ip])) < AsLimit
<1> DEFINE store == IF AS!Crowded(asTried) THEN AS!Swept(asTried) ELSE asTried
           kept(a) == IF a \in DOMAIN store THEN store[a] ELSE {}
           window == IF ip \in DOMAIN store THEN AS!Recent(store[ip]) ELSE {}
           ok == AS!Cardinality(window) < AsLimit
           after == IF ok THEN window \cup {AS!Attempt} ELSE window
           limit == AS!CheckIpAttemptLimit(ip)
           left(a) == IF a \in DOMAIN limit.store THEN limit.store[a] ELSE {}
<1>1. \A a \in AsSources : IsFiniteSet(Window(a)) /\ AS!Recent(asJudged[a]) \subseteq Window(a)
  BY DEF LimitInv
<1>2. \A a : AS!Recent(AS!Recent(asJudged[a])) = AS!Recent(asJudged[a])
  BY DEF AS!Recent
<1>3. \A S, T : S \subseteq T => AS!Recent(S) \subseteq AS!Recent(T)
  BY DEF AS!Recent
<1>4. \A S : AS!Recent(S) \subseteq S
  BY DEF AS!Recent
<1>5. \A a \in AsSources : kept(a) \subseteq Window(a) /\ AS!Recent(asJudged[a]) \subseteq kept(a)
  <2>1. CASE ~AS!Crowded(asTried)
    BY <1>1, <2>1 DEF Window
  <2>2. CASE AS!Crowded(asTried)
    <3> SUFFICES ASSUME NEW a \in AsSources
                 PROVE  kept(a) \subseteq Window(a) /\ AS!Recent(asJudged[a]) \subseteq kept(a)
      OBVIOUS
    <3>1. /\ a \in DOMAIN store <=> a \in DOMAIN asTried /\ AS!Recent(asTried[a]) # {}
          /\ a \in DOMAIN store => store[a] = AS!Recent(asTried[a])
      BY <2>2 DEF AS!Swept
    <3>2. AS!Recent(asJudged[a]) \subseteq AS!Recent(Window(a))
      BY <1>1, <1>2, <1>3
    <3>3. CASE a \in DOMAIN asTried
      <4>1. Window(a) = asTried[a]
        BY <3>3 DEF Window
      <4>2. kept(a) = AS!Recent(asTried[a])
        BY <3>1, <3>3
      <4> QED BY <1>4, <3>2, <4>1, <4>2
    <3>4. CASE a \notin DOMAIN asTried
      BY <1>1, <3>1, <3>4 DEF Window
    <3> QED BY <3>3, <3>4
  <2> QED BY <2>1, <2>2
<1>6. \A a \in AsSources : IsFiniteSet(kept(a))
  BY <1>1, <1>5, FS_Subset
<1>7. CASE AS!Crowded(store)
  <2>1. limit = [ok |-> FALSE, store |-> store]
    BY <1>7 DEF AS!CheckIpAttemptLimit
  <2>2. ~limit.ok /\ limit.store = store
    BY <2>1
  <2>3. \A a : left(a) = kept(a)
    BY <2>2
  <2> HIDE DEF left, kept, limit
  <2> QED BY <1>5, <1>6, <2>2, <2>3 DEF left, limit
<1>8. CASE ~AS!Crowded(store)
  <2>1. limit = [ok |-> ok, store |-> [a \in DOMAIN store \cup {ip} |-> IF a = ip THEN after ELSE store[a]]]
    BY <1>8 DEF AS!CheckIpAttemptLimit
  <2>2. limit.ok = ok /\ limit.store = [a \in DOMAIN store \cup {ip} |-> IF a = ip THEN after ELSE store[a]]
    BY <2>1
  <2>3. left(ip) = after /\ \A a : a # ip => left(a) = kept(a)
    BY <2>2
  <2>4. window = AS!Recent(kept(ip))
    BY DEF AS!Recent
  <2>5. AS!Recent(asJudged[ip]) \subseteq window /\ window \subseteq kept(ip)
    BY <1>2, <1>3, <1>4, <1>5, <2>4
  <2>6. IsFiniteSet(window)
    BY <1>6, <2>5, FS_Subset
  <2>7. IsFiniteSet(after) /\ window \subseteq after /\ (ok => AS!Attempt \in after)
    BY <2>6, FS_AddElement
  <2>8. ok => Cardinality(AS!Recent(asJudged[ip])) < AsLimit
    <3>1. Cardinality(window) = AS!Cardinality(window)
      BY SameCount
    <3>2. IsFiniteSet(AS!Recent(asJudged[ip])) /\ Cardinality(AS!Recent(asJudged[ip])) <= Cardinality(window)
      BY <2>5, <2>6, FS_Subset
    <3>3. Cardinality(AS!Recent(asJudged[ip])) \in Nat /\ Cardinality(window) \in Nat
      BY <2>6, <3>2, FS_CardinalityType
    <3> HIDE DEF window
    <3> QED BY <3>1, <3>2, <3>3
  <2> HIDE DEF left, kept, limit, ok, after, window
  <2>9. /\ \A a \in AsSources : IsFiniteSet(left(a)) /\ AS!Recent(asJudged[a]) \subseteq left(a)
        /\ limit.ok => AS!Attempt \in left(ip) /\ Cardinality(AS!Recent(asJudged[ip])) < AsLimit
    BY <1>5, <1>6, <2>2, <2>3, <2>5, <2>7, <2>8
  <2> QED BY <2>9 DEF left, limit
<1> QED BY <1>7, <1>8

(* A scrape keeps LimitInv.                                                *)
LEMMA ScrapeStep ==
    ASSUME LimitInv, AsLimit \in Nat, AS!Scrape
    PROVE  LimitInv'
<1>1. PICK ip \in AsSources :
          /\ asTried' = AS!CheckIpAttemptLimit(ip).store
          /\ asJudged' = IF AS!CheckIpAttemptLimit(ip).ok THEN [asJudged EXCEPT ![ip] = @ \cup {AS!Attempt}] ELSE asJudged
  BY DEF AS!Scrape
<1>2. asNow' = asNow /\ asScrapes' = asScrapes + 1
  BY DEF AS!Scrape
<1>3. \A a \in AsSources : IsFiniteSet(Window(a)') /\ AS!Recent(asJudged[a]) \subseteq Window(a)'
  BY <1>1, AttemptMade DEF Window
<1>4. AS!CheckIpAttemptLimit(ip).ok =>
          AS!Attempt \in Window(ip)' /\ Cardinality(AS!Recent(asJudged[ip])) < AsLimit
  BY <1>1, AttemptMade DEF Window
<1>5. AS!Attempt \in Attempts
  BY DEF AS!Attempt, Attempts, LimitInv
<1>6. \A a \in AsSources : asJudged'[a] = asJudged[a] \/ (a = ip /\ asJudged'[a] = asJudged[a] \cup {AS!Attempt}
                                                          /\ AS!CheckIpAttemptLimit(ip).ok)
  BY <1>1 DEF LimitInv
<1>7. asJudged' = [a \in AsSources |-> asJudged'[a]]
  BY <1>1 DEF LimitInv
<1>8. ASSUME NEW a \in AsSources
      PROVE  /\ asJudged'[a] \subseteq Attempts
             /\ AS!Recent(asJudged[a])' \subseteq Window(a)'
             /\ Cardinality(AS!Recent(asJudged[a])') <= AsLimit
  <2>0. asJudged[a] \subseteq Attempts /\ Cardinality(AS!Recent(asJudged[a])) <= AsLimit
    BY DEF LimitInv
  <2>1. CASE asJudged'[a] = asJudged[a]
    <3>1. AS!Recent(asJudged[a])' = AS!Recent(asJudged[a])
      BY <1>2, <2>1 DEF AS!Recent
    <3> QED BY <1>3, <2>0, <2>1, <3>1
  <2>2. CASE a = ip /\ asJudged'[a] = asJudged[a] \cup {AS!Attempt} /\ AS!CheckIpAttemptLimit(ip).ok
    <3>1. AS!Recent(asJudged[a])' \subseteq AS!Recent(asJudged[a]) \cup {AS!Attempt}
      BY <1>2, <2>2 DEF AS!Recent
    <3>2. AS!Recent(asJudged[a]) \subseteq Window(a)' /\ AS!Attempt \in Window(a)' /\ IsFiniteSet(Window(a)')
      BY <1>3, <1>4, <2>2
    <3>3. IsFiniteSet(AS!Recent(asJudged[a])) /\ Cardinality(AS!Recent(asJudged[a])) \in Nat
      BY <3>2, FS_Subset, FS_CardinalityType
    <3>4. /\ IsFiniteSet(AS!Recent(asJudged[a]) \cup {AS!Attempt})
          /\ Cardinality(AS!Recent(asJudged[a]) \cup {AS!Attempt}) \in Nat
          /\ Cardinality(AS!Recent(asJudged[a]) \cup {AS!Attempt}) <= Cardinality(AS!Recent(asJudged[a])) + 1
      <4>1. IsFiniteSet(AS!Recent(asJudged[a]) \cup {AS!Attempt})
        BY <3>3, FS_AddElement
      <4>2. CASE AS!Attempt \in AS!Recent(asJudged[a])
        <5>1. AS!Recent(asJudged[a]) \cup {AS!Attempt} = AS!Recent(asJudged[a])
          BY <4>2
        <5> QED BY <3>3, <5>1
      <4>3. CASE AS!Attempt \notin AS!Recent(asJudged[a])
        <5>1. Cardinality(AS!Recent(asJudged[a]) \cup {AS!Attempt}) = Cardinality(AS!Recent(asJudged[a])) + 1
          BY <3>3, <4>3, FS_AddElement
        <5> QED BY <3>3, <4>1, <5>1
      <4> QED BY <4>2, <4>3
    <3>5. /\ Cardinality(AS!Recent(asJudged[a])') \in Nat
          /\ Cardinality(AS!Recent(asJudged[a])') <= Cardinality(AS!Recent(asJudged[a]) \cup {AS!Attempt})
      BY <3>1, <3>4, FS_Subset, FS_CardinalityType
    <3>6. Cardinality(AS!Recent(asJudged[a])) < AsLimit
      BY <1>4, <2>2
    <3>7. Cardinality(AS!Recent(asJudged[a])') <= AsLimit
      BY <3>3, <3>4, <3>5, <3>6
    <3>8. asJudged'[a] \subseteq Attempts
      BY <1>5, <2>0, <2>2
    <3> QED BY <3>1, <3>2, <3>7, <3>8
  <2> QED BY <1>6, <2>1, <2>2
<1> QED BY <1>2, <1>3, <1>7, <1>8 DEF LimitInv

(* A scrape that gets the metrics brought the stored password.             *)
LEMMA NothingLeaks ==
    ASSUME ~asLeaked, AS!Scrape
    PROVE  ~asLeaked'
BY DEF AS!Scrape, AS!CheckMetricsPassword

(* A step that leaves the general row and the forms alone keeps FormInv.   *)
LEMMA FormStays ==
    ASSUME FormInv, asGeneral' = asGeneral, asTask' = asTask, asOverlap' = asOverlap
    PROVE  FormInv'
BY DEF FormInv, AS!OpenAfter, AS!After, AS!Given

(* The arrival of a form keeps FormInv.                                    *)
LEMMA SubmitStep ==
    ASSUME FormInv, NEW h \in AsHandlers, NEW r, AS!Submit(h, r), asGeneral' = asGeneral, r.pc # "general",
           r.pc \in {"purge", "judge"} => "pc" \in DOMAIN r /\ "form" \in DOMAIN r
    PROVE  FormInv'
<1>1. asTask[h] = AS!Idle /\ asTask' = [asTask EXCEPT ![h] = r] /\ asOverlap' = (asOverlap \/ AS!Busy # {})
  BY DEF AS!Submit, AS!Goto
<1>2. /\ asTask' = [g \in AsHandlers |-> asTask'[g]] /\ asTask'[h] = r
      /\ \A g \in AsHandlers : g # h => asTask'[g] = asTask[g]
  BY <1>1 DEF FormInv
<1>3. ~asOverlap' => ~asOverlap /\ \A g \in AsHandlers : asTask[g] = AS!Idle
  BY <1>1 DEF AS!Busy
<1>4. AS!Idle.pc # "general"
  BY DEF AS!Idle
<1> QED BY <1>2, <1>3, <1>4 DEF FormInv

(* A step of a form under way keeps FormInv when what it was judged by     *)
(* still holds.                                                            *)
LEMMA TaskStep ==
    ASSUME FormInv, NEW h \in AsHandlers, asTask[h].pc # "idle", NEW r, asTask' = [asTask EXCEPT ![h] = r],
           asOverlap' = asOverlap,
           "json" \in DOMAIN asGeneral', "prom" \in DOMAIN asGeneral', "password" \in DOMAIN asGeneral',
           ~asOverlap => (asGeneral'.password = 0 => \A k \in AS!Formats : ~asGeneral'[k]),
           ~asOverlap /\ r.pc = "general" => ~AS!OpenAfter(r.form, asGeneral'),
           r.pc \in {"purge", "judge", "general"} => "pc" \in DOMAIN r /\ "form" \in DOMAIN r
    PROVE  FormInv'
<1>1. /\ asTask' = [g \in AsHandlers |-> asTask'[g]] /\ asTask'[h] = r
      /\ \A g \in AsHandlers : g # h => asTask'[g] = asTask[g]
  BY DEF FormInv
<1>2. asTask[h] # AS!Idle /\ AS!Idle.pc # "general"
  BY DEF AS!Idle
<1>3. ~asOverlap => \A g \in AsHandlers : g # h => asTask[g] = AS!Idle
  BY <1>2 DEF FormInv
<1>4. ~asOverlap' => \A g, i \in AsHandlers : asTask'[g] # AS!Idle /\ asTask'[i] # AS!Idle => g = i
  BY <1>1, <1>3
<1>5. ~asOverlap' => \A g \in AsHandlers : asTask'[g].pc = "general" => ~AS!OpenAfter(asTask'[g].form, asGeneral')
  BY <1>1, <1>2, <1>3
<1>6. \A g \in AsHandlers : asTask'[g].pc \in {"purge", "judge", "general"} =>
          "pc" \in DOMAIN asTask'[g] /\ "form" \in DOMAIN asTask'[g]
  BY <1>1 DEF FormInv
<1> QED BY <1>1, <1>4, <1>5, <1>6 DEF FormInv

(* The general form's steps keep FormInv: between the judgement and the    *)
(* write no other form runs.                                               *)
LEMMA GeneralSteps ==
    ASSUME FormInv, NEW h \in AsHandlers,
           AS!UpdateGeneral(h) \/ AS!PurgeClientPrivateKeys(h) \/ AS!JudgeGeneral(h) \/ AS!WriteGeneral(h)
    PROVE  FormInv'
<1>0. /\ "json" \in DOMAIN asGeneral /\ "prom" \in DOMAIN asGeneral /\ "password" \in DOMAIN asGeneral
      /\ ~asOverlap => (asGeneral.password = 0 => \A k \in AS!Formats : ~asGeneral[k])
      /\ asTask[h].pc \in {"purge", "judge", "general"} => "pc" \in DOMAIN asTask[h] /\ "form" \in DOMAIN asTask[h]
  BY DEF FormInv
<1>i. AS!Idle.pc = "idle"
  BY DEF AS!Idle
<1>1. CASE AS!UpdateGeneral(h)
  <2>1. PICK f, valid : AS!Submit(h, IF valid THEN [pc |-> "purge", form |-> f] ELSE AS!Idle)
        /\ asGeneral' = asGeneral
    BY <1>1 DEF AS!UpdateGeneral, AS!rows
  <2>2. CASE valid
    <3> DEFINE r == [pc |-> "purge", form |-> f]
    <3>1. AS!Submit(h, r) /\ r.pc = "purge" /\ "pc" \in DOMAIN r /\ "form" \in DOMAIN r
      BY <2>1, <2>2
    <3> HIDE DEF r
    <3> QED BY <2>1, <3>1, SubmitStep
  <2>3. CASE ~valid
    BY <1>i, <2>1, <2>3, SubmitStep
  <2> QED BY <2>2, <2>3
<1>2. CASE AS!PurgeClientPrivateKeys(h)
  <2> DEFINE r == [asTask[h] EXCEPT !.pc = "judge"]
  <2>1. asTask[h].pc = "purge" /\ asTask' = [asTask EXCEPT ![h] = r] /\ asOverlap' = asOverlap
        /\ asGeneral' = asGeneral
    BY <1>2 DEF AS!PurgeClientPrivateKeys, AS!Step, AS!Goto
  <2>2. r.pc = "judge" /\ "pc" \in DOMAIN r /\ "form" \in DOMAIN r
    BY <1>0, <2>1
  <2> HIDE DEF r
  <2> QED BY <1>0, <2>1, <2>2, TaskStep
<1>3. CASE AS!JudgeGeneral(h)
  <2> DEFINE r == [asTask[h] EXCEPT !.pc = "general"]
  <2>1. asTask[h].pc = "judge" /\ asOverlap' = asOverlap /\ asGeneral' = asGeneral
    BY <1>3 DEF AS!JudgeGeneral, AS!Step, AS!rows
  <2>2. r.pc = "general" /\ "pc" \in DOMAIN r /\ "form" \in DOMAIN r /\ r.form = asTask[h].form
    BY <1>0, <2>1
  <2>3. \/ asTask' = [asTask EXCEPT ![h] = AS!Idle]
        \/ asTask' = [asTask EXCEPT ![h] = r] /\ ~AS!OpenAfter(asTask[h].form, asGeneral)
    BY <1>3 DEF AS!JudgeGeneral, AS!Goto
  <2> HIDE DEF r
  <2>4. CASE asTask' = [asTask EXCEPT ![h] = AS!Idle]
    BY <1>0, <1>i, <2>1, <2>4, TaskStep
  <2>5. CASE asTask' = [asTask EXCEPT ![h] = r] /\ ~AS!OpenAfter(asTask[h].form, asGeneral)
    <3>1. ~AS!OpenAfter(r.form, asGeneral')
      BY <2>1, <2>2, <2>5
    <3> QED BY <1>0, <2>1, <2>2, <2>5, <3>1, TaskStep
  <2> QED BY <2>3, <2>4, <2>5
<1>4. CASE AS!WriteGeneral(h)
  <2>1. /\ asTask[h].pc = "general" /\ asTask' = [asTask EXCEPT ![h] = AS!Idle] /\ asOverlap' = asOverlap
        /\ asGeneral' = AS!Merged(asTask[h].form, asGeneral)
    BY <1>4 DEF AS!WriteGeneral, AS!Step, AS!Goto
  <2>2. /\ "json" \in DOMAIN asGeneral' /\ "prom" \in DOMAIN asGeneral' /\ "password" \in DOMAIN asGeneral'
        /\ asGeneral'.password = AS!After(asTask[h].form, "password", asGeneral)
        /\ \A k \in AS!Formats : asGeneral'[k] = AS!After(asTask[h].form, k, asGeneral)
    BY <1>0, <2>1 DEF AS!Merged, AS!Formats
  <2>3. ~asOverlap => ~AS!OpenAfter(asTask[h].form, asGeneral)
    BY <2>1 DEF FormInv
  <2>4. ~asOverlap => (asGeneral'.password = 0 => \A k \in AS!Formats : ~asGeneral'[k])
    BY <2>2, <2>3 DEF AS!OpenAfter
  <2> QED BY <1>i, <2>1, <2>2, <2>4, TaskStep
<1> QED BY <1>1, <1>2, <1>3, <1>4

(* The other forms keep FormInv.                                           *)
LEMMA OtherSteps ==
    ASSUME FormInv, NEW h \in AsHandlers,
           \/ AS!UpdateHooks(h) \/ AS!UpdateUserconfig(h) \/ AS!UpdateProxy(h)
           \/ AS!UpdateInterface(h) \/ AS!WriteInterface(h)
    PROVE  FormInv'
<1>i. AS!Idle.pc = "idle"
  BY DEF AS!Idle
<1>1. CASE AS!UpdateHooks(h) \/ AS!UpdateUserconfig(h) \/ AS!UpdateProxy(h)
  <2>1. AS!Submit(h, AS!Idle) /\ asGeneral' = asGeneral
    BY <1>1 DEF AS!UpdateHooks, AS!UpdateUserconfig, AS!UpdateProxy
  <2> QED BY <1>i, <2>1, SubmitStep
<1>2. CASE AS!UpdateInterface(h)
  <2>1. PICK f : \/ AS!Submit(h, [pc |-> "interface", form |-> f])
                 \/ AS!Submit(h, AS!Idle)
    BY <1>2 DEF AS!UpdateInterface
  <2>2. asGeneral' = asGeneral
    BY <1>2 DEF AS!UpdateInterface, AS!rows
  <2> DEFINE r == [pc |-> "interface", form |-> f]
  <2>3. r.pc = "interface"
    OBVIOUS
  <2>4. AS!Submit(h, r) \/ AS!Submit(h, AS!Idle)
    BY <2>1
  <2> HIDE DEF r
  <2> QED BY <1>i, <2>2, <2>3, <2>4, SubmitStep
<1>3. CASE AS!WriteInterface(h)
  <2>1. asTask[h].pc = "interface" /\ asTask' = [asTask EXCEPT ![h] = AS!Idle] /\ asOverlap' = asOverlap
        /\ asGeneral' = asGeneral
    BY <1>3 DEF AS!WriteInterface, AS!Step, AS!Goto
  <2>2. /\ "json" \in DOMAIN asGeneral /\ "prom" \in DOMAIN asGeneral /\ "password" \in DOMAIN asGeneral
        /\ ~asOverlap => (asGeneral.password = 0 => \A k \in AS!Formats : ~asGeneral[k])
    BY DEF FormInv
  <2> QED BY <1>i, <2>1, <2>2, TaskStep
<1> QED BY <1>1, <1>2, <1>3

(* Every step keeps SettingsInv.                                           *)
LEMMA SettingsKeep ==
    ASSUME SettingsInv, AsLimit \in Nat, AsWindow \in Nat, [AS!Next]_(AS!vars)
    PROVE  SettingsInv'
<1>1. CASE AS!Scrape
  <2>1. asGeneral' = asGeneral /\ asTask' = asTask /\ asOverlap' = asOverlap
    BY <1>1 DEF AS!Scrape, AS!rows
  <2> QED BY <1>1, <2>1, ScrapeStep, NothingLeaks, FormStays DEF SettingsInv
<1>2. CASE AS!Tick
  <2>1. asGeneral' = asGeneral /\ asTask' = asTask /\ asOverlap' = asOverlap /\ asLeaked' = asLeaked
    BY <1>2 DEF AS!Tick, AS!rows
  <2> QED BY <1>2, <2>1, TickStep, FormStays DEF SettingsInv
<1>3. ASSUME NEW h \in AsHandlers,
             \/ AS!UpdateGeneral(h) \/ AS!PurgeClientPrivateKeys(h) \/ AS!JudgeGeneral(h) \/ AS!WriteGeneral(h)
             \/ AS!UpdateHooks(h) \/ AS!UpdateUserconfig(h) \/ AS!UpdateProxy(h)
             \/ AS!UpdateInterface(h) \/ AS!WriteInterface(h)
      PROVE  SettingsInv'
  <2>1. UNCHANGED AS!scrapeVars
    BY <1>3 DEF AS!UpdateGeneral, AS!PurgeClientPrivateKeys, AS!JudgeGeneral, AS!WriteGeneral, AS!UpdateHooks,
                AS!UpdateUserconfig, AS!UpdateProxy, AS!UpdateInterface, AS!WriteInterface, AS!Submit, AS!Step
  <2>2. asLeaked' = asLeaked
    BY <2>1 DEF AS!scrapeVars
  <2> QED BY <1>3, <2>1, <2>2, LimitStays, GeneralSteps, OtherSteps DEF SettingsInv
<1>4. CASE UNCHANGED AS!vars
  <2>1. UNCHANGED AS!scrapeVars /\ asGeneral' = asGeneral /\ asTask' = asTask /\ asOverlap' = asOverlap
    BY <1>4 DEF AS!vars, AS!rows
  <2>2. asLeaked' = asLeaked
    BY <2>1 DEF AS!scrapeVars
  <2> QED BY <2>1, <2>2, LimitStays, FormStays DEF SettingsInv
<1> QED BY <1>1, <1>2, <1>3, <1>4 DEF AS!Next, AS!FormsNext, AS!MetricsNext, AS!GeneralStep, AS!OtherForms

(* Metrics go to nobody without the stored password; forms that do not     *)
(* overlap never leave metrics on without one; and within any window an    *)
(* address learns at most as often as the limit says whether its guess is  *)
(* right, for any number of addresses and whatever the sweep of a full     *)
(* store drops (check_metrics_password, update_general,                    *)
(* check_ip_attempt_limit).                                                *)
THEOREM GuardsHold ==
    ASSUME AsLimit \in Nat, AsWindow \in Nat
    PROVE  AS!Spec => []MetricsAreGuarded
<1>1. AS!Init => SettingsInv
  BY SettingsStart
<1>2. SettingsInv /\ [AS!Next]_(AS!vars) => SettingsInv'
  BY SettingsKeep
<1>3. SettingsInv => MetricsAreGuarded
  BY GuardedIn
<1> QED BY <1>1, <1>2, <1>3, PTL DEF AS!Spec

-----------------------------------------------------------------------------
(* The HTTP server: any number of connections, permits, requests on a      *)
(* connection and any limit on bodies; the clients' streams are those of   *)
(* Offered.                                                                *)

(* The units a stream is made of.                                          *)
Units ==
    [k : {"blank", "data"}] \cup [k : {"size"}, n : Nat]
    \cup [k : {"head"}, lengths : Seq(Seq(Nat)), codings : Seq({"chunked", "gzip"}), close : BOOLEAN, honest : BOOLEAN]

(* What the named units are.                                               *)
LEMMA UnitsTyped ==
    /\ \A L \in Seq(Seq(Nat)), C \in Seq({"chunked", "gzip"}), x, y \in BOOLEAN :
          LET h == HS!Request(L, C, x, y)
          IN  /\ h \in Units /\ h.k = "head" /\ h.lengths = L /\ h.codings = C /\ h.honest = y
    /\ \A n \in Nat : HS!Size(n) \in Units /\ HS!Size(n).k = "size" /\ HS!Size(n).n = n
    /\ HS!Blank \in Units /\ HS!Blank.k = "blank"
    /\ HS!Data \in Units /\ HS!Data.k = "data"
    /\ HS!Lure \in Units /\ HS!Lure.k = "head"
<1>1. \A L \in Seq(Seq(Nat)), C \in Seq({"chunked", "gzip"}), x, y \in BOOLEAN :
          LET h == HS!Request(L, C, x, y)
          IN  /\ h \in Units /\ h.k = "head" /\ h.lengths = L /\ h.codings = C /\ h.honest = y
  BY DEF Units, HS!Request
<1>2. \A n \in Nat : HS!Size(n) \in Units /\ HS!Size(n).k = "size" /\ HS!Size(n).n = n
  BY DEF Units, HS!Size
<1>3. HS!Blank \in Units /\ HS!Blank.k = "blank" /\ HS!Data \in Units /\ HS!Data.k = "data"
  BY DEF Units, HS!Blank, HS!Data, HS!Unit
<1>4. <<>> \in Seq(Seq(Nat)) /\ <<>> \in Seq({"chunked", "gzip"})
  OBVIOUS
<1>5. HS!Lure \in Units /\ HS!Lure.k = "head"
  BY <1>1, <1>4 DEF HS!Lure
<1> QED BY <1>1, <1>2, <1>3, <1>5

(* The head and the tail of what has more behind it.                       *)
LEMMA Behind ==
    ASSUME NEW U, NEW s \in Seq(U), NEW r \in Seq(U), s # <<>>
    PROVE  /\ s \o r \in Seq(U) /\ s \o r # <<>>
           /\ Head(s \o r) = Head(s) /\ Tail(s \o r) = Tail(s) \o r
<1>1. s \o r \in Seq(U) /\ Len(s \o r) = Len(s) + Len(r)
  OBVIOUS
<1>2. Len(s) \in Nat /\ Len(s) > 0 /\ Len(r) \in Nat
  OBVIOUS
<1>3. s \o r # <<>>
  BY <1>1, <1>2
<1>4. Head(s \o r) = Head(s)
  BY <1>1, <1>2, <1>3
<1>5. Tail(s) \in Seq(U) /\ Len(Tail(s)) = Len(s) - 1
  BY <1>2
<1>6. Tail(s \o r) \in Seq(U) /\ Len(Tail(s \o r)) = Len(s) + Len(r) - 1
  BY <1>1, <1>2, <1>3
<1>7. Tail(s) \o r \in Seq(U) /\ Len(Tail(s) \o r) = Len(s) + Len(r) - 1
  BY <1>2, <1>5
<1>8. ASSUME NEW i \in 1..(Len(s) + Len(r) - 1) PROVE Tail(s \o r)[i] = (Tail(s) \o r)[i]
  <2>1. Tail(s \o r)[i] = (s \o r)[i + 1]
    BY <1>1, <1>2, <1>3
  <2>2. (s \o r)[i + 1] = IF i + 1 <= Len(s) THEN s[i + 1] ELSE r[i + 1 - Len(s)]
    BY <1>2
  <2>3. (Tail(s) \o r)[i] = IF i <= Len(s) - 1 THEN Tail(s)[i] ELSE r[i - (Len(s) - 1)]
    BY <1>2, <1>5
  <2>4. i <= Len(s) - 1 => Tail(s)[i] = s[i + 1]
    BY <1>2
  <2>5. i - (Len(s) - 1) = i + 1 - Len(s) /\ (i <= Len(s) - 1 <=> i + 1 <= Len(s))
    BY <1>2
  <2> QED BY <2>1, <2>2, <2>3, <2>4, <2>5
<1>9. Tail(s \o r) = Tail(s) \o r
  BY <1>6, <1>7, <1>8, SeqEqual
<1> QED BY <1>1, <1>3, <1>4, <1>9

(* Reading as many units as the first part has leaves the second.          *)
LEMMA RestLeft ==
    ASSUME NEW U, NEW s \in Seq(U), NEW r \in Seq(U)
    PROVE  Len(s) <= Len(s \o r) /\ SubSeq(s \o r, Len(s) + 1, Len(s \o r)) = r
<1> DEFINE q == s \o r
<1>1. q \in Seq(U) /\ Len(q) = Len(s) + Len(r) /\ Len(s) \in Nat /\ Len(r) \in Nat
  OBVIOUS
<1>2. \A i \in 1..Len(r) : q[Len(s) + i] = r[i]
  BY <1>1
<1> HIDE DEF q
<1> DEFINE z == SubSeq(q, Len(s) + 1, Len(q))
<1>3. z \in Seq(U) /\ Len(z) = Len(r) /\ \A i \in 1..Len(r) : z[i] = q[Len(s) + i]
  BY <1>1
<1> HIDE DEF z
<1>4. z = r
  BY <1>2, <1>3, SeqEqual
<1> QED BY <1>1, <1>4 DEF q, z

(* What may be left on a connection after a whole request.                 *)
Rests == {<<>>} \cup HS!WellFormed \cup HS!Broken

(* What may be waiting on a connection where a head is expected.           *)
Streams == {<<>>} \cup HS!Broken \cup {a \o r : a \in HS!WellFormed \cup HS!Ambiguous, r \in Rests}

(* The bodies of the broken chunked requests.                              *)
BadChunks == {<<HS!Size(2), HS!Data>>, <<HS!Size(1), HS!Data, HS!Data, HS!Lure>>, <<HS!Size(HsBody + 1), HS!Lure>>}

(* The body of the chunked request, and what follows the request.          *)
Chunks(r) == <<HS!Size(1), HS!Lure, HS!Blank, HS!Size(0), HS!Lure, HS!Blank>> \o r

(* The same behind the first size.                                         *)
InChunk(r) == <<HS!Lure, HS!Blank, HS!Size(0), HS!Lure, HS!Blank>> \o r

(* The same behind the chunk's data.                                       *)
ChunkEnd(r) == <<HS!Blank, HS!Size(0), HS!Lure, HS!Blank>> \o r

(* The same behind the chunk.                                              *)
LastChunk(r) == <<HS!Size(0), HS!Lure, HS!Blank>> \o r

(* The same behind the last size.                                          *)
Trailer(r) == <<HS!Lure, HS!Blank>> \o r

(* The same behind the trailer's first line.                               *)
LastLine(r) == <<HS!Blank>> \o r

(* Reading n units takes the body of an honest request and leaves what may *)
(* be left, or there are fewer.                                            *)
LengthOK(h, in, n) ==
    n \in Nat /\ (Len(in) < n \/ (h.honest = TRUE /\ SubSeq(in, n + 1, Len(in)) \in Rests))

(* At a chunk's size: the honest request's, or one that will be refused.   *)
SizeOK(h, in) ==
    \/ h.honest = TRUE /\ \E r \in Rests : in = Chunks(r) \/ in = LastChunk(r)
    \/ in \in BadChunks

(* In a chunk of n units.                                                  *)
ChunkOK(h, in, n) ==
    \/ h.honest = TRUE /\ n = 1 /\ \E r \in Rests : in = InChunk(r)
    \/ n = 2 /\ in = <<HS!Data>>
    \/ n = 1 /\ in = <<HS!Data, HS!Data, HS!Lure>>

(* Behind a chunk's data: the honest request's, or data where the blank    *)
(* line is due.                                                            *)
EndOK(h, in) ==
    \/ h.honest = TRUE /\ \E r \in Rests : in = ChunkEnd(r)
    \/ in = <<HS!Data, HS!Lure>>

(* In the trailer, which no broken request reaches.                        *)
TrailerOK(h, in) == h.honest = TRUE /\ \E r \in Rests : in = Trailer(r) \/ in = LastLine(r)

(* What the framing says of a body agrees with where its request really    *)
(* ends, or the request will be refused.                                   *)
FrameOK(h, in, f) ==
    \/ f.how = "error"
    \/ f.how = "length" /\ LengthOK(h, in, f.n)
    \/ f.how = "chunked" /\ f.n = 0 /\ SizeOK(h, in)

(* framing: never both headers, one coding, one length.                    *)
LEMMA FramingRules ==
    ASSUME NEW h, NEW f, f = HS!Framing(h)
    PROVE  /\ DOMAIN f = {"how", "n"}
           /\ h.codings # <<>> =>
                \/ f.how = "error"
                \/ h.lengths = <<>> /\ h.codings = <<"chunked">> /\ f.how = "chunked" /\ f.n = 0
           /\ h.codings = <<>> /\ h.lengths = <<>> => f.how = "length" /\ f.n = 0
           /\ h.codings = <<>> /\ h.lengths # <<>> =>
                \/ f.how = "error"
                \/ /\ f.how = "length" /\ f.n = h.lengths[1][1] /\ Len(h.lengths) = 1
                   /\ HS!Cardinality(HS!ToSet(h.lengths[1])) = 1 /\ f.n <= HsBody
BY DEF HS!Framing, HS!Refusal

(* Two values are not one.                                                 *)
LEMMA TwoLengths == HS!Cardinality(HS!ToSet(<<0, 1>>)) # 1
<1>1. HS!ToSet(<<0, 1>>) = {0, 1}
  BY DEF HS!ToSet
<1>2. HS!Cardinality({0, 1}) = Cardinality({0, 1})
  BY DEF HS!Cardinality, Cardinality
<1>3. Cardinality({0, 1}) # 1
  <2>1. IsFiniteSet({0, 1})
    <3>1. IsFiniteSet({0})
      BY FS_Singleton
    <3>2. {0, 1} = {0} \cup {1}
      OBVIOUS
    <3> QED BY <3>1, <3>2, FS_AddElement
  <2>2. ASSUME NEW x, {0, 1} = {x} PROVE FALSE
    <3>1. 0 \in {x} /\ 1 \in {x}
      BY <2>2
    <3> QED BY <3>1
  <2> QED BY <2>1, <2>2, FS_Singleton
<1> QED BY <1>1, <1>2, <1>3

(* Streams are sequences of units, and a request has a head.               *)
LEMMA RestsTyped ==
    ASSUME HsBody \in Nat
    PROVE  /\ Rests \subseteq Seq(Units) /\ HS!WellFormed \subseteq Seq(Units) /\ HS!Ambiguous \subseteq Seq(Units)
           /\ HS!Broken \subseteq Seq(Units) /\ <<>> \notin HS!WellFormed \cup HS!Ambiguous
<1>1. \A L \in Seq(Seq(Nat)), C \in Seq({"chunked", "gzip"}), x, y \in BOOLEAN : HS!Request(L, C, x, y) \in Units
  BY UnitsTyped
<1>2. \A n \in Nat : HS!Size(n) \in Units
  BY UnitsTyped
<1>3. HS!Blank \in Units /\ HS!Data \in Units /\ HS!Lure \in Units /\ HS!Size(0) \in Units
      /\ HS!Size(1) \in Units
      /\ HS!Size(2) \in Units /\ HS!Size(HsBody + 1) \in Units
  BY <1>2, UnitsTyped
<1>4. /\ <<>> \in Seq(Seq(Nat)) /\ <<<<0>>>> \in Seq(Seq(Nat)) /\ <<<<2>>>> \in Seq(Seq(Nat))
      /\ <<<<1, 1>>>> \in Seq(Seq(Nat))
      /\ <<<<3>>>> \in Seq(Seq(Nat)) /\ <<<<0, 1>>>> \in Seq(Seq(Nat)) /\ <<<<0>>, <<1>>>> \in Seq(Seq(Nat))
      /\ <<<<HsBody + 1>>>> \in Seq(Seq(Nat))
      /\ <<>> \in Seq({"chunked", "gzip"}) /\ <<"chunked">> \in Seq({"chunked", "gzip"}) /\ <<"gzip">> \in Seq({"chunked", "gzip"})
      /\ <<"chunked", "chunked">> \in Seq({"chunked", "gzip"})
  <2>1. ASSUME NEW S, NEW x \in S, NEW y \in S PROVE <<x>> \in Seq(S) /\ <<x, y>> \in Seq(S)
    OBVIOUS
  <2>2. <<0>> \in Seq(Nat) /\ <<1>> \in Seq(Nat) /\ <<2>> \in Seq(Nat) /\ <<3>> \in Seq(Nat)
        /\ <<0, 1>> \in Seq(Nat)
        /\ <<1, 1>> \in Seq(Nat) /\ <<HsBody + 1>> \in Seq(Nat)
    OBVIOUS
  <2>3. /\ <<<<0>>>> \in Seq(Seq(Nat)) /\ <<<<2>>>> \in Seq(Seq(Nat)) /\ <<<<1, 1>>>> \in Seq(Seq(Nat))
        /\ <<<<3>>>> \in Seq(Seq(Nat)) /\ <<<<0, 1>>>> \in Seq(Seq(Nat)) /\ <<<<0>>, <<1>>>> \in Seq(Seq(Nat))
        /\ <<<<HsBody + 1>>>> \in Seq(Seq(Nat))
    BY <2>1, <2>2, Zenon
  <2>4. <<>> \in Seq(Seq(Nat)) /\ <<>> \in Seq({"chunked", "gzip"})
    BY EmptySeq, Zenon
  <2>5. "chunked" \in {"chunked", "gzip"} /\ "gzip" \in {"chunked", "gzip"}
    OBVIOUS
  <2>6. <<"chunked">> \in Seq({"chunked", "gzip"}) /\ <<"gzip">> \in Seq({"chunked", "gzip"})
        /\ <<"chunked", "chunked">> \in Seq({"chunked", "gzip"})
    BY <2>1, <2>5, Zenon
  <2> QED BY <2>3, <2>4, <2>6, Zenon
<1> DEFINE p == HS!Plain
           z == HS!Request(<<>>, <<>>, TRUE, TRUE)
           l0 == HS!Request(<<<<0>>>>, <<>>, FALSE, TRUE)
           l2 == HS!Request(<<<<2>>>>, <<>>, FALSE, TRUE)
           l1 == HS!Request(<<<<1, 1>>>>, <<>>, FALSE, TRUE)
           ch == HS!Request(<<>>, <<"chunked">>, FALSE, TRUE)
           a1 == HS!Request(<<<<3>>>>, <<"chunked">>, FALSE, FALSE)
           a2 == HS!Request(<<<<0>>>>, <<"chunked">>, FALSE, FALSE)
           a3 == HS!Request(<<<<0, 1>>>>, <<>>, FALSE, FALSE)
           a4 == HS!Request(<<<<0>>, <<1>>>>, <<>>, FALSE, FALSE)
           a5 == HS!Request(<<>>, <<"gzip">>, FALSE, FALSE)
           a6 == HS!Request(<<>>, <<"chunked", "chunked">>, FALSE, FALSE)
           b3 == HS!Request(<<<<HsBody + 1>>>>, <<>>, FALSE, FALSE)
           b4 == HS!Request(<<<<2>>>>, <<>>, FALSE, FALSE)
           b5 == HS!Request(<<>>, <<"chunked">>, FALSE, FALSE)
<1>8. TRUE \in BOOLEAN /\ FALSE \in BOOLEAN
  OBVIOUS
<1>9. /\ p \in Units /\ z \in Units /\ l0 \in Units /\ l2 \in Units /\ l1 \in Units /\ ch \in Units
      /\ a1 \in Units /\ a2 \in Units /\ a3 \in Units /\ a4 \in Units /\ a5 \in Units /\ a6 \in Units
      /\ b3 \in Units /\ b4 \in Units /\ b5 \in Units
  BY <1>1, <1>4, <1>8, Zenon DEF HS!Plain
<1>10. HS!WellFormed = {<<p>>, <<z>>, <<l0>>, <<l2, HS!Lure, HS!Data>>, <<l1, HS!Lure>>,
                       <<ch, HS!Size(1), HS!Lure, HS!Blank, HS!Size(0), HS!Lure, HS!Blank>>}
  BY Zenon DEF HS!WellFormed
<1>11. HS!Ambiguous = {<<a1, HS!Size(0), HS!Blank, HS!Lure>>, <<a2, HS!Size(1), HS!Lure, HS!Blank, HS!Size(0), HS!Blank>>,
                       <<a3, HS!Lure>>, <<a4, HS!Lure>>, <<a5, HS!Lure>>, <<a6, HS!Size(0), HS!Blank>>}
  BY Zenon DEF HS!Ambiguous
<1>12. HS!Broken = {<<HS!Data>>, <<HS!Blank, HS!Lure>>, <<b3, HS!Lure>>, <<b4, HS!Data>>, <<b5, HS!Size(2), HS!Data>>,
                    <<b5, HS!Size(1), HS!Data, HS!Data, HS!Lure>>, <<b5, HS!Size(HsBody + 1), HS!Lure>>}
  BY Zenon DEF HS!Broken
<1> HIDE DEF p, z, l0, l2, l1, ch, a1, a2, a3, a4, a5, a6, b3, b4, b5
<1>5. HS!WellFormed \subseteq Seq(Units) /\ <<>> \notin HS!WellFormed
  BY <1>3, <1>9, <1>10
<1>6. HS!Ambiguous \subseteq Seq(Units) /\ <<>> \notin HS!Ambiguous
  BY <1>3, <1>9, <1>11
<1>7. HS!Broken \subseteq Seq(Units)
  BY <1>3, <1>9, <1>12
<1>13. <<>> \in Seq(Units)
  OBVIOUS
<1> QED BY <1>5, <1>6, <1>7, <1>13, Zenon DEF Rests

(* What of a head the framing looks at, and whose it is.                   *)
HeadOf(h, L, C, y) == h.lengths = L /\ h.codings = C /\ h.honest = y

(* The heads that clients send.                                            *)
LEMMA Heads ==
    /\ HeadOf(HS!Plain, <<>>, <<>>, TRUE)
    /\ \A L, C, x, y : HeadOf(HS!Request(L, C, x, y), L, C, y) /\ HS!Request(L, C, x, y).k = "head"
BY DEF HeadOf, HS!Request, HS!Plain

(* A well-formed request is framed as it was sent.                         *)
LEMMA WellFormedFrames ==
    ASSUME HsBody \in Nat, NEW a \in HS!WellFormed, NEW r \in Rests, NEW f, f = HS!Framing(Head(a \o r))
    PROVE  FrameOK(Head(a \o r), Tail(a \o r), f)
<1> DEFINE h == Head(a)
           b == Tail(a)
<1>1. a \in Seq(Units) /\ r \in Seq(Units) /\ a # <<>>
  BY RestsTyped
<1>2. Head(a \o r) = h /\ Tail(a \o r) = b \o r /\ b \in Seq(Units)
  BY <1>1, Behind
<1>3. Len(b) \in Nat /\ Len(b) <= Len(b \o r) /\ SubSeq(b \o r, Len(b) + 1, Len(b \o r)) = r
  BY <1>1, <1>2, RestLeft
<1>4. \/ HeadOf(h, <<>>, <<>>, TRUE) /\ b = <<>>
      \/ HeadOf(h, <<<<0>>>>, <<>>, TRUE) /\ b = <<>>
      \/ HeadOf(h, <<<<2>>>>, <<>>, TRUE) /\ b = <<HS!Lure, HS!Data>>
      \/ HeadOf(h, <<<<1, 1>>>>, <<>>, TRUE) /\ b = <<HS!Lure>>
      \/ HeadOf(h, <<>>, <<"chunked">>, TRUE)
         /\ b = <<HS!Size(1), HS!Lure, HS!Blank, HS!Size(0), HS!Lure, HS!Blank>>
  <2> DEFINE z == HS!Request(<<>>, <<>>, TRUE, TRUE)
             l0 == HS!Request(<<<<0>>>>, <<>>, FALSE, TRUE)
             l2 == HS!Request(<<<<2>>>>, <<>>, FALSE, TRUE)
             l1 == HS!Request(<<<<1, 1>>>>, <<>>, FALSE, TRUE)
             ch == HS!Request(<<>>, <<"chunked">>, FALSE, TRUE)
  <2>1. a \in {<<HS!Plain>>, <<z>>, <<l0>>, <<l2, HS!Lure, HS!Data>>, <<l1, HS!Lure>>,
              <<ch, HS!Size(1), HS!Lure, HS!Blank, HS!Size(0), HS!Lure, HS!Blank>>}
    BY Zenon DEF HS!WellFormed
  <2>2. /\ HeadOf(HS!Plain, <<>>, <<>>, TRUE) /\ HeadOf(z, <<>>, <<>>, TRUE)
        /\ HeadOf(l0, <<<<0>>>>, <<>>, TRUE)
        /\ HeadOf(l2, <<<<2>>>>, <<>>, TRUE) /\ HeadOf(l1, <<<<1, 1>>>>, <<>>, TRUE) /\ HeadOf(ch, <<>>, <<"chunked">>, TRUE)
    BY Heads, Zenon
  <2> HIDE DEF z, l0, l2, l1, ch
  <2>3. CASE a = <<HS!Plain>>
    <3>1. h = HS!Plain /\ b = <<>>
      BY <2>3
    <3> HIDE DEF h, b
    <3> QED BY <2>2, <3>1, Zenon
  <2>4. CASE a = <<z>>
    <3>1. h = z /\ b = <<>>
      BY <2>4
    <3> HIDE DEF h, b
    <3> QED BY <2>2, <3>1, Zenon
  <2>5. CASE a = <<l0>>
    <3>1. h = l0 /\ b = <<>>
      BY <2>5
    <3> HIDE DEF h, b
    <3> QED BY <2>2, <3>1, Zenon
  <2>6. CASE a = <<l2, HS!Lure, HS!Data>>
    <3>1. h = l2 /\ b = <<HS!Lure, HS!Data>>
      BY <2>6
    <3> HIDE DEF h, b
    <3> QED BY <2>2, <3>1, Zenon
  <2>7. CASE a = <<l1, HS!Lure>>
    <3>1. h = l1 /\ b = <<HS!Lure>>
      BY <2>7
    <3> HIDE DEF h, b
    <3> QED BY <2>2, <3>1, Zenon
  <2>8. CASE a = <<ch, HS!Size(1), HS!Lure, HS!Blank, HS!Size(0), HS!Lure, HS!Blank>>
    <3>1. h = ch /\ b = <<HS!Size(1), HS!Lure, HS!Blank, HS!Size(0), HS!Lure, HS!Blank>>
      BY <2>8
    <3> HIDE DEF h, b
    <3> QED BY <2>2, <3>1, Zenon
  <2> QED BY <2>1, <2>3, <2>4, <2>5, <2>6, <2>7, <2>8, Zenon
<1>5. f = HS!Framing(h)
  BY <1>2
<1> HIDE DEF h, b
<1>6. ASSUME h.honest = TRUE, f.how = "length", f.n = Len(b) PROVE FrameOK(h, b \o r, f)
  BY <1>3, <1>6 DEF FrameOK, LengthOK
<1>7. CASE HeadOf(h, <<>>, <<>>, TRUE) /\ b = <<>>
  <2>1. f.how = "length" /\ f.n = 0 /\ h.honest = TRUE /\ Len(b) = 0
    BY <1>5, <1>7, FramingRules DEF HeadOf
  <2> QED BY <1>2, <1>6, <2>1
<1>8. CASE HeadOf(h, <<<<0>>>>, <<>>, TRUE) /\ b = <<>>
  <2>1. h.honest = TRUE /\ Len(b) = 0 /\ h.codings = <<>> /\ h.lengths # <<>> /\ h.lengths[1][1] = 0
    BY <1>8 DEF HeadOf
  <2>2. f.how = "error" \/ (f.how = "length" /\ f.n = 0)
    BY <1>5, <2>1, FramingRules
  <2> QED BY <1>2, <1>6, <2>1, <2>2 DEF FrameOK
<1>9. CASE HeadOf(h, <<<<2>>>>, <<>>, TRUE) /\ b = <<HS!Lure, HS!Data>>
  <2>1. h.honest = TRUE /\ Len(b) = 2 /\ h.codings = <<>> /\ h.lengths # <<>> /\ h.lengths[1][1] = 2
    BY <1>9 DEF HeadOf
  <2>2. f.how = "error" \/ (f.how = "length" /\ f.n = 2)
    BY <1>5, <2>1, FramingRules
  <2> QED BY <1>2, <1>6, <2>1, <2>2 DEF FrameOK
<1>10. CASE HeadOf(h, <<<<1, 1>>>>, <<>>, TRUE) /\ b = <<HS!Lure>>
  <2>1. h.honest = TRUE /\ Len(b) = 1 /\ h.codings = <<>> /\ h.lengths # <<>> /\ h.lengths[1][1] = 1
    BY <1>10 DEF HeadOf
  <2>2. f.how = "error" \/ (f.how = "length" /\ f.n = 1)
    BY <1>5, <2>1, FramingRules
  <2> QED BY <1>2, <1>6, <2>1, <2>2 DEF FrameOK
<1>11. CASE HeadOf(h, <<>>, <<"chunked">>, TRUE) /\ b = <<HS!Size(1), HS!Lure, HS!Blank, HS!Size(0), HS!Lure, HS!Blank>>
  <2>1. h.honest = TRUE /\ h.codings # <<>>
    BY <1>11 DEF HeadOf
  <2>2. f.how = "error" \/ (f.how = "chunked" /\ f.n = 0)
    BY <1>5, <2>1, FramingRules
  <2>3. SizeOK(h, b \o r)
    BY <1>11, <2>1, Zenon DEF SizeOK, Chunks
  <2> QED BY <1>2, <2>2, <2>3 DEF FrameOK
<1> QED BY <1>4, <1>7, <1>8, <1>9, <1>10, <1>11

(* A head that two readers could frame differently is refused.             *)
LEMMA AmbiguousRefused ==
    ASSUME HsBody \in Nat, NEW a \in HS!Ambiguous, NEW r \in Rests, NEW f, f = HS!Framing(Head(a \o r))
    PROVE  f.how = "error"
<1> DEFINE h == Head(a)
<1>1. a \in Seq(Units) /\ r \in Seq(Units) /\ a # <<>>
  BY RestsTyped
<1>2. Head(a \o r) = h
  BY <1>1, Behind
<1>4. \/ HeadOf(h, <<<<3>>>>, <<"chunked">>, FALSE)
      \/ HeadOf(h, <<<<0>>>>, <<"chunked">>, FALSE)
      \/ HeadOf(h, <<<<0, 1>>>>, <<>>, FALSE)
      \/ HeadOf(h, <<<<0>>, <<1>>>>, <<>>, FALSE)
      \/ HeadOf(h, <<>>, <<"gzip">>, FALSE)
      \/ HeadOf(h, <<>>, <<"chunked", "chunked">>, FALSE)
  <2> DEFINE a1 == HS!Request(<<<<3>>>>, <<"chunked">>, FALSE, FALSE)
             a2 == HS!Request(<<<<0>>>>, <<"chunked">>, FALSE, FALSE)
             a3 == HS!Request(<<<<0, 1>>>>, <<>>, FALSE, FALSE)
             a4 == HS!Request(<<<<0>>, <<1>>>>, <<>>, FALSE, FALSE)
             a5 == HS!Request(<<>>, <<"gzip">>, FALSE, FALSE)
             a6 == HS!Request(<<>>, <<"chunked", "chunked">>, FALSE, FALSE)
  <2>1. a \in {<<a1, HS!Size(0), HS!Blank, HS!Lure>>, <<a2, HS!Size(1), HS!Lure, HS!Blank, HS!Size(0), HS!Blank>>,
              <<a3, HS!Lure>>, <<a4, HS!Lure>>, <<a5, HS!Lure>>, <<a6, HS!Size(0), HS!Blank>>}
    BY Zenon DEF HS!Ambiguous
  <2>2. /\ HeadOf(a1, <<<<3>>>>, <<"chunked">>, FALSE) /\ HeadOf(a2, <<<<0>>>>, <<"chunked">>, FALSE)
        /\ HeadOf(a3, <<<<0, 1>>>>, <<>>, FALSE) /\ HeadOf(a4, <<<<0>>, <<1>>>>, <<>>, FALSE)
        /\ HeadOf(a5, <<>>, <<"gzip">>, FALSE) /\ HeadOf(a6, <<>>, <<"chunked", "chunked">>, FALSE)
    BY Heads, Zenon
  <2> HIDE DEF a1, a2, a3, a4, a5, a6
  <2>3. h \in {a1, a2, a3, a4, a5, a6}
    BY <2>1
  <2> HIDE DEF h
  <2> QED BY <2>2, <2>3, Zenon
<1>5. f = HS!Framing(h)
  BY <1>2
<1> HIDE DEF h
<1>6. CASE HeadOf(h, <<<<3>>>>, <<"chunked">>, FALSE) \/ HeadOf(h, <<<<0>>>>, <<"chunked">>, FALSE)
  <2>1. h.codings # <<>> /\ h.lengths # <<>>
    <3>1. <<"chunked">> # <<>> /\ <<<<3>>>> # <<>> /\ <<<<0>>>> # <<>>
      OBVIOUS
    <3> QED BY <1>6, <3>1, Zenon DEF HeadOf
  <2> QED BY <1>5, <2>1, FramingRules
<1>7. CASE HeadOf(h, <<<<0, 1>>>>, <<>>, FALSE)
  <2>1. h.codings = <<>> /\ h.lengths # <<>> /\ h.lengths[1] = <<0, 1>>
    BY <1>7 DEF HeadOf
  <2> QED BY <1>5, <2>1, TwoLengths, FramingRules
<1>8. CASE HeadOf(h, <<<<0>>, <<1>>>>, <<>>, FALSE)
  <2>1. h.codings = <<>> /\ h.lengths # <<>> /\ Len(h.lengths) # 1
    BY <1>8 DEF HeadOf
  <2> QED BY <1>5, <2>1, FramingRules
<1>9. CASE HeadOf(h, <<>>, <<"gzip">>, FALSE) \/ HeadOf(h, <<>>, <<"chunked", "chunked">>, FALSE)
  <2>1. h.codings # <<>> /\ h.codings # <<"chunked">>
    <3>1. <<"gzip">> # <<>> /\ <<"gzip">> # <<"chunked">> /\ <<"chunked", "chunked">> # <<>>
          /\ <<"chunked", "chunked">> # <<"chunked">>
      OBVIOUS
    <3> QED BY <1>9, <3>1, Zenon DEF HeadOf
  <2> QED BY <1>5, <2>1, FramingRules
<1> QED BY <1>4, <1>6, <1>7, <1>8, <1>9

(* A broken request is refused by its framing, or its body will be.        *)
LEMMA BrokenFrames ==
    ASSUME HsBody \in Nat, NEW a \in HS!Broken, Head(a).k = "head", NEW f, f = HS!Framing(Head(a))
    PROVE  FrameOK(Head(a), Tail(a), f)
<1> DEFINE h == Head(a)
           b == Tail(a)
<1>1. \/ HeadOf(h, <<<<HsBody + 1>>>>, <<>>, FALSE)
      \/ HeadOf(h, <<<<2>>>>, <<>>, FALSE) /\ b = <<HS!Data>>
      \/ HeadOf(h, <<>>, <<"chunked">>, FALSE) /\ b \in BadChunks
  <2> DEFINE b3 == HS!Request(<<<<HsBody + 1>>>>, <<>>, FALSE, FALSE)
             b4 == HS!Request(<<<<2>>>>, <<>>, FALSE, FALSE)
             b5 == HS!Request(<<>>, <<"chunked">>, FALSE, FALSE)
  <2>1. a \in {<<HS!Data>>, <<HS!Blank, HS!Lure>>, <<b3, HS!Lure>>, <<b4, HS!Data>>, <<b5, HS!Size(2), HS!Data>>,
              <<b5, HS!Size(1), HS!Data, HS!Data, HS!Lure>>, <<b5, HS!Size(HsBody + 1), HS!Lure>>}
    BY Zenon DEF HS!Broken
  <2>2. /\ HeadOf(b3, <<<<HsBody + 1>>>>, <<>>, FALSE) /\ HeadOf(b4, <<<<2>>>>, <<>>, FALSE)
        /\ HeadOf(b5, <<>>, <<"chunked">>, FALSE)
    BY Heads, Zenon
  <2> HIDE DEF b3, b4, b5
  <2>3. CASE a = <<HS!Data>>
    BY <2>3, UnitsTyped
  <2>4. CASE a = <<HS!Blank, HS!Lure>>
    BY <2>4, UnitsTyped
  <2>5. CASE a = <<b3, HS!Lure>>
    <3>1. h = b3 /\ b = <<HS!Lure>>
      BY <2>5
    <3> HIDE DEF h, b
    <3> QED BY <2>2, <3>1, Zenon
  <2>6. CASE a = <<b4, HS!Data>>
    <3>1. h = b4 /\ b = <<HS!Data>>
      BY <2>6
    <3> HIDE DEF h, b
    <3> QED BY <2>2, <3>1, Zenon
  <2>7. CASE a = <<b5, HS!Size(2), HS!Data>>
    <3>1. h = b5 /\ b = <<HS!Size(2), HS!Data>>
      BY <2>7
    <3> HIDE DEF h, b
    <3> QED BY <2>2, <3>1, Zenon DEF BadChunks
  <2>8. CASE a = <<b5, HS!Size(1), HS!Data, HS!Data, HS!Lure>>
    <3>1. h = b5 /\ b = <<HS!Size(1), HS!Data, HS!Data, HS!Lure>>
      BY <2>8
    <3> HIDE DEF h, b
    <3> QED BY <2>2, <3>1, Zenon DEF BadChunks
  <2>9. CASE a = <<b5, HS!Size(HsBody + 1), HS!Lure>>
    <3>1. h = b5 /\ b = <<HS!Size(HsBody + 1), HS!Lure>>
      BY <2>9
    <3> HIDE DEF h, b
    <3> QED BY <2>2, <3>1, Zenon DEF BadChunks
  <2> QED BY <2>1, <2>3, <2>4, <2>5, <2>6, <2>7, <2>8, <2>9, Zenon
<1>5. f = HS!Framing(h)
  OBVIOUS
<1> SUFFICES FrameOK(h, b, f)
  OBVIOUS
<1> HIDE DEF h, b
<1>6. CASE HeadOf(h, <<<<HsBody + 1>>>>, <<>>, FALSE)
  <2>1. h.codings = <<>> /\ h.lengths # <<>> /\ h.lengths[1][1] = HsBody + 1
    BY <1>6 DEF HeadOf
  <2>2. f.how = "error"
    BY <1>5, <2>1, FramingRules
  <2> QED BY <2>2 DEF FrameOK
<1>7. CASE HeadOf(h, <<<<2>>>>, <<>>, FALSE) /\ b = <<HS!Data>>
  <2>1. h.codings = <<>> /\ h.lengths # <<>> /\ h.lengths[1][1] = 2 /\ Len(b) = 1
    BY <1>7 DEF HeadOf
  <2>2. f.how = "error" \/ (f.how = "length" /\ f.n = 2)
    BY <1>5, <2>1, FramingRules
  <2> QED BY <2>1, <2>2 DEF FrameOK, LengthOK
<1>8. CASE HeadOf(h, <<>>, <<"chunked">>, FALSE) /\ b \in BadChunks
  <2>1. h.codings # <<>>
    BY <1>8 DEF HeadOf
  <2>2. f.how = "error" \/ (f.how = "chunked" /\ f.n = 0)
    BY <1>5, <2>1, FramingRules
  <2> QED BY <1>8, <2>2 DEF FrameOK, SizeOK
<1> QED BY <1>1, <1>6, <1>7, <1>8

(* So it is for whatever may be waiting on a connection.                   *)
LEMMA StreamFrames ==
    ASSUME HsBody \in Nat, NEW s \in Streams, s # <<>>, Head(s).k = "head", NEW f, f = HS!Framing(Head(s))
    PROVE  FrameOK(Head(s), Tail(s), f)
<1>1. CASE s \in HS!Broken
  BY <1>1, BrokenFrames
<1>2. CASE \E a \in HS!WellFormed, r \in Rests : s = a \o r
  BY <1>2, WellFormedFrames
<1>3. CASE \E a \in HS!Ambiguous, r \in Rests : s = a \o r
  BY <1>3, AmbiguousRefused DEF FrameOK
<1> DEFINE X == {a \o r : a \in HS!WellFormed \cup HS!Ambiguous, r \in Rests}
<1>4. Streams = {<<>>} \cup HS!Broken \cup X
  BY DEF Streams
<1>5. ASSUME s \in X PROVE FrameOK(Head(s), Tail(s), f)
  <2>1. PICK a \in HS!WellFormed \cup HS!Ambiguous, r \in Rests : s = a \o r
    BY <1>5
  <2>2. CASE a \in HS!WellFormed
    BY <1>2, <2>1, <2>2, Zenon
  <2>3. CASE a \in HS!Ambiguous
    BY <1>3, <2>1, <2>3, Zenon
  <2> QED BY <2>2, <2>3
<1> HIDE DEF X
<1>6. s \in HS!Broken \/ s \in X
  BY <1>4
<1> QED BY <1>1, <1>5, <1>6

(* The next request may begin where one ended.                             *)
LEMMA RestsAreStreams ==
    ASSUME HsBody \in Nat, NEW r \in Rests PROVE r \in Streams
<1>1. CASE r \in HS!WellFormed
  <2>1. r \in Seq(Units) /\ <<>> \in Rests
    BY RestsTyped DEF Rests
  <2>2. r = r \o <<>>
    BY <2>1
  <2> QED BY <1>1, <2>1, <2>2 DEF Streams
<1>2. CASE r \notin HS!WellFormed
  BY <1>2 DEF Rests, Streams
<1> QED BY <1>1, <1>2

(* A client begins so.                                                     *)
LEMMA OfferedAreStreams ==
    ASSUME HsBody \in Nat, NEW c, NEW s \in HS!Offered(c) PROVE s \in Streams
<1>1. <<HS!Plain>> \in HS!WellFormed
  BY Zenon DEF HS!WellFormed
<1>2. CASE s = <<HS!Plain>>
  BY <1>1, <1>2, RestsAreStreams DEF Rests
<1>3. CASE \E a \in HS!WellFormed \cup HS!Ambiguous \cup {<<>>}, b \in HS!WellFormed \cup HS!Broken : s = a \o b
  <2>1. PICK a \in HS!WellFormed \cup HS!Ambiguous \cup {<<>>}, b \in HS!WellFormed \cup HS!Broken : s = a \o b
    BY <1>3
  <2>2. b \in Rests /\ b \in Seq(Units)
    BY RestsTyped DEF Rests
  <2>3. CASE a = <<>>
    <3>1. s = b
      BY <2>1, <2>2, <2>3
    <3> QED BY <2>2, <3>1, RestsAreStreams
  <2>4. CASE a # <<>>
    BY <2>1, <2>2, <2>4, SMTT(30) DEF Streams
  <2> QED BY <2>3, <2>4
<1> QED BY <1>2, <1>3 DEF HS!Offered

(* Where a connection stands, the input it has not read and the head it    *)
(* has agree: only behind a whole honest request does it dispatch one.     *)
ConnOK(t) ==
    /\ DOMAIN t = {"pc", "n", "in", "head", "frame", "body", "keep"} /\ DOMAIN t.frame = {"how", "n"} /\ t.body \in Nat
    /\ t.pc = "head" => t.in \in Streams
    /\ t.pc = "frame" => \E s \in Streams : s # <<>> /\ Head(s).k = "head" /\ t.head = Head(s) /\ t.in = Tail(s)
    /\ t.pc = "exact" =>
          \/ t.frame.how = "length" /\ LengthOK(t.head, t.in, t.frame.n)
          \/ t.frame.how = "chunked" /\ ChunkOK(t.head, t.in, t.frame.n)
    /\ t.pc = "size" => t.frame.how = "chunked" /\ SizeOK(t.head, t.in)
    /\ t.pc = "end" => t.frame.how = "chunked" /\ EndOK(t.head, t.in)
    /\ t.pc = "trailer" => TrailerOK(t.head, t.in)
    /\ t.pc = "dispatch" => t.head.honest = TRUE /\ t.in \in Rests
    /\ t.pc = "write" => t.in \in Rests

(* The inductive invariant: it says for every position of the reader how   *)
(* much of which request is still unread, which is what decides whether    *)
(* the next unit can be taken for a head.                                  *)
StreamInv ==
    /\ DOMAIN hsConn = HsConns /\ \A c \in HsConns : ConnOK(hsConn[c])
    /\ \A h \in hsServed : h.honest = TRUE

(* Closing a connection keeps ConnOK.                                      *)
LEMMA ClosedOK ==
    ASSUME NEW t, ConnOK(t) PROVE ConnOK([t EXCEPT !.pc = "closed"])
<1> DEFINE r == [t EXCEPT !.pc = "closed"]
<1>1. DOMAIN r = DOMAIN t /\ r.pc = "closed" /\ r.frame = t.frame /\ r.body = t.body
  BY DEF ConnOK
<1> HIDE DEF r
<1>2. ConnOK(r)
  BY <1>1 DEF ConnOK
<1> QED BY <1>2 DEF r

(* A step of one connection keeps StreamInv when it keeps that             *)
(* connection's.                                                           *)
LEMMA SetKeeps ==
    ASSUME StreamInv, NEW c \in HsConns, NEW r, ConnOK(r), HS!Set(c, r), \A h \in hsServed' : h.honest = TRUE
    PROVE  StreamInv'
<1>1. hsConn' = [hsConn EXCEPT ![c] = r]
  BY DEF HS!Set
<1>2. DOMAIN hsConn' = HsConns
  BY <1>1 DEF StreamInv
<1>3. ASSUME NEW d \in HsConns PROVE ConnOK(hsConn'[d])
  <2>1. hsConn'[d] = IF d = c THEN r ELSE hsConn[d]
    BY <1>1 DEF StreamInv
  <2>2. ConnOK(hsConn[d])
    BY DEF StreamInv
  <2> QED BY <2>1, <2>2
<1> QED BY <1>2, <1>3 DEF StreamInv

(* So does closing it.                                                     *)
LEMMA CloseKeeps ==
    ASSUME StreamInv, NEW c \in HsConns, HS!Close(c) PROVE StreamInv'
<1>1. HS!Set(c, [hsConn[c] EXCEPT !.pc = "closed"]) /\ hsServed' = hsServed
  BY DEF HS!Close
<1>2. ConnOK(hsConn[c])
  BY DEF StreamInv
<1>3. ConnOK([hsConn[c] EXCEPT !.pc = "closed"])
  BY <1>2, ClosedOK
<1> DEFINE r == [hsConn[c] EXCEPT !.pc = "closed"]
<1>4. HS!Set(c, r) /\ ConnOK(r) /\ \A h \in hsServed' : h.honest = TRUE
  BY <1>1, <1>3 DEF StreamInv
<1> HIDE DEF r
<1> QED BY <1>4, SetKeeps

(* So does reading on.                                                     *)
LEMMA GotoKeeps ==
    ASSUME StreamInv, NEW c \in HsConns, NEW r, ConnOK(r), HS!Goto(c, r) PROVE StreamInv'
<1>1. HS!Set(c, r) /\ \A h \in hsServed' : h.honest = TRUE
  BY DEF HS!Goto, StreamInv
<1> QED BY <1>1, SetKeeps

(* Accepting a connection keeps StreamInv.                                 *)
LEMMA AcceptKeeps ==
    ASSUME HsBody \in Nat, StreamInv, NEW c \in HsConns, HS!Accept(c) PROVE StreamInv'
<1> DEFINE i == HS!Idle
<1>1. /\ DOMAIN i = {"pc", "n", "in", "head", "frame", "body", "keep"} /\ DOMAIN i.frame = {"how", "n"}
      /\ i.body = 0
  BY DEF HS!Idle, HS!Refusal
<1>2. \A h \in hsServed' : h.honest = TRUE
  BY DEF HS!Accept, StreamInv
<1>3. CASE hsPermits = 0
  <2> DEFINE r == [i EXCEPT !.pc = "closed"]
  <2>1. HS!Set(c, r)
    BY <1>3 DEF HS!Accept
  <2> HIDE DEF i
  <2>2. DOMAIN r = DOMAIN i /\ r.pc = "closed" /\ r.frame = i.frame /\ r.body = i.body
    BY <1>1
  <2> HIDE DEF r
  <2>3. ConnOK(r)
    BY <1>1, <2>2 DEF ConnOK
  <2> QED BY <1>2, <2>1, <2>3, SetKeeps
<1>4. CASE hsPermits # 0
  <2>1. PICK s \in HS!Offered(c) : HS!Set(c, [i EXCEPT !.pc = "head", !.n = 1, !.in = s])
    BY <1>4 DEF HS!Accept
  <2> DEFINE r == [i EXCEPT !.pc = "head", !.n = 1, !.in = s]
  <2> HIDE DEF i
  <2>2. DOMAIN r = DOMAIN i /\ r.pc = "head" /\ r.frame = i.frame /\ r.body = i.body /\ r.in = s
    BY <1>1
  <2>3. s \in Streams
    BY OfferedAreStreams
  <2>4. HS!Set(c, r)
    BY <2>1
  <2> HIDE DEF r
  <2>5. ConnOK(r)
    BY <1>1, <2>2, <2>3 DEF ConnOK
  <2> QED BY <1>2, <2>4, <2>5, SetKeeps
<1> QED BY <1>3, <1>4

(* Reading a head and its framing keeps it.                                *)
LEMMA HeadKeeps ==
    ASSUME HsBody \in Nat, StreamInv, NEW c \in HsConns, HS!ReadHead(c) \/ HS!ReadFraming(c) PROVE StreamInv'
<1> DEFINE t == hsConn[c]
<1>1. ConnOK(t)
  BY DEF StreamInv
<1>2. CASE HS!ReadHead(c)
  <2> DEFINE r == [t EXCEPT !.pc = "frame", !.head = Head(t.in), !.in = Tail(t.in)]
  <2>1. t.pc = "head" /\ t.in # <<>> /\ (HS!Close(c) \/ (Head(t.in).k = "head" /\ HS!Goto(c, r)))
    BY <1>2 DEF HS!ReadHead, HS!Refuse
  <2>2. CASE HS!Close(c)
    BY <2>2, CloseKeeps
  <2>3. CASE Head(t.in).k = "head" /\ HS!Goto(c, r)
    <3> HIDE DEF t
    <3>1. t.in \in Streams /\ t.in # <<>> /\ Head(t.in).k = "head"
      BY <1>1, <2>1, <2>3 DEF ConnOK
    <3>2. DOMAIN r = DOMAIN t /\ r.pc = "frame" /\ r.frame = t.frame /\ r.body = t.body
          /\ r.head = Head(t.in) /\ r.in = Tail(t.in)
      BY <1>1 DEF ConnOK
    <3> HIDE DEF r
    <3>3. ConnOK(r)
      BY <1>1, <3>1, <3>2 DEF ConnOK
    <3> QED BY <2>3, <3>3, GotoKeeps
  <2> QED BY <2>1, <2>2, <2>3
<1>3. CASE HS!ReadFraming(c)
  <2> DEFINE f == HS!Framing(t.head)
             r == [t EXCEPT !.pc = IF f.how = "chunked" THEN "size" ELSE "exact", !.frame = f, !.body = 0]
  <2>1. t.pc = "frame" /\ (HS!Close(c) \/ (f.how # "error" /\ HS!Goto(c, r)))
    BY <1>3 DEF HS!ReadFraming, HS!Refuse
  <2>2. CASE HS!Close(c)
    BY <2>2, CloseKeeps
  <2>3. CASE f.how # "error" /\ HS!Goto(c, r)
    <3>0. DOMAIN f = {"how", "n"}
      <4> DEFINE hd == t.head
      <4> HIDE DEF hd
      <4>1. f = HS!Framing(hd)
        BY DEF hd
      <4> HIDE DEF f
      <4> QED BY <4>1, FramingRules
    <3> HIDE DEF t
    <3>1. PICK s \in Streams : s # <<>> /\ Head(s).k = "head" /\ t.head = Head(s) /\ t.in = Tail(s)
      BY <1>1, <2>1 DEF ConnOK
    <3>2. FrameOK(t.head, t.in, f)
      <4>1. f = HS!Framing(Head(s))
        BY <3>1
      <4> HIDE DEF f
      <4>2. FrameOK(Head(s), Tail(s), f)
        BY <3>1, <4>1, StreamFrames
      <4> QED BY <3>1, <4>2
    <3> HIDE DEF f
    <3>3. /\ DOMAIN r = DOMAIN t /\ r.pc = (IF f.how = "chunked" THEN "size" ELSE "exact")
          /\ r.frame = f /\ r.body = 0
          /\ r.head = t.head /\ r.in = t.in
      BY <1>1 DEF ConnOK
    <3> HIDE DEF r
    <3>4. ConnOK(r)
      <4>1. CASE f.how = "chunked" /\ SizeOK(t.head, t.in)
        BY <1>1, <3>0, <3>3, <4>1 DEF ConnOK
      <4>2. CASE f.how = "length" /\ LengthOK(t.head, t.in, f.n)
        BY <1>1, <3>0, <3>3, <4>2 DEF ConnOK
      <4> QED BY <2>3, <3>2, <4>1, <4>2 DEF FrameOK
    <3> QED BY <2>3, <3>4, GotoKeeps
  <2> QED BY <2>1, <2>2, <2>3
<1> QED BY <1>2, <1>3

(* The chunked request, unit by unit.                                      *)
LEMMA ChunkWalk ==
    ASSUME HsBody \in Nat, NEW r \in Rests
    PROVE  /\ Chunks(r) # <<>> /\ Head(Chunks(r)) = HS!Size(1) /\ Tail(Chunks(r)) = InChunk(r)
           /\ InChunk(r) \in Seq(Units) /\ InChunk(r) # <<>> /\ Tail(InChunk(r)) = ChunkEnd(r)
           /\ ChunkEnd(r) # <<>> /\ Tail(ChunkEnd(r)) = LastChunk(r)
           /\ LastChunk(r) # <<>> /\ Head(LastChunk(r)) = HS!Size(0) /\ Tail(LastChunk(r)) = Trailer(r)
           /\ Trailer(r) # <<>> /\ Head(Trailer(r)) # HS!Blank /\ Tail(Trailer(r)) = LastLine(r)
           /\ LastLine(r) # <<>> /\ Head(LastLine(r)) = HS!Blank /\ Tail(LastLine(r)) = r
<1> DEFINE a == HS!Size(1)
           l == HS!Lure
           b == HS!Blank
           z == HS!Size(0)
<1>1. r \in Seq(Units) /\ a \in Units /\ l \in Units /\ b \in Units /\ z \in Units /\ l # b
  <2>1. l.k # b.k
    BY UnitsTyped
  <2> QED BY <2>1, RestsTyped, UnitsTyped
<1>2. Chunks(r) = <<a, l, b, z, l, b>> \o r /\ InChunk(r) = <<l, b, z, l, b>> \o r
      /\ ChunkEnd(r) = <<b, z, l, b>> \o r
      /\ LastChunk(r) = <<z, l, b>> \o r /\ Trailer(r) = <<l, b>> \o r /\ LastLine(r) = <<b>> \o r
  BY DEF Chunks, InChunk, ChunkEnd, LastChunk, Trailer, LastLine
<1> HIDE DEF a, l, b, z
<1> DEFINE s6 == <<a, l, b, z, l, b>>
           s5 == <<l, b, z, l, b>>
           s4 == <<b, z, l, b>>
           s3 == <<z, l, b>>
           s2 == <<l, b>>
           s1 == <<b>>
<1>3. s6 \in Seq(Units) /\ s6 # <<>> /\ Head(s6) = a /\ Tail(s6) = s5
  BY <1>1
<1>4. s5 \in Seq(Units) /\ s5 # <<>> /\ Head(s5) = l /\ Tail(s5) = s4
  BY <1>1
<1>5. s4 \in Seq(Units) /\ s4 # <<>> /\ Head(s4) = b /\ Tail(s4) = s3
  BY <1>1
<1>6. s3 \in Seq(Units) /\ s3 # <<>> /\ Head(s3) = z /\ Tail(s3) = s2
  BY <1>1
<1>7. s2 \in Seq(Units) /\ s2 # <<>> /\ Head(s2) = l /\ Tail(s2) = s1
  BY <1>1
<1>8. s1 \in Seq(Units) /\ s1 # <<>> /\ Head(s1) = b /\ Tail(s1) = <<>> /\ <<>> \o r = r
  BY <1>1
<1>9. Chunks(r) = s6 \o r /\ InChunk(r) = s5 \o r /\ ChunkEnd(r) = s4 \o r /\ LastChunk(r) = s3 \o r
      /\ Trailer(r) = s2 \o r /\ LastLine(r) = s1 \o r
  BY <1>2
<1> HIDE DEF s6, s5, s4, s3, s2, s1
<1>10. Chunks(r) # <<>> /\ Head(Chunks(r)) = a /\ Tail(Chunks(r)) = InChunk(r)
  <2>1. s6 \o r # <<>> /\ Head(s6 \o r) = Head(s6) /\ Tail(s6 \o r) = Tail(s6) \o r
    BY <1>1, <1>3, Behind
  <2> QED BY <1>3, <1>9, <2>1, Zenon
<1>11. InChunk(r) \in Seq(Units) /\ InChunk(r) # <<>> /\ Tail(InChunk(r)) = ChunkEnd(r)
  BY <1>1, <1>4, <1>9, Behind
<1>12. ChunkEnd(r) # <<>> /\ Tail(ChunkEnd(r)) = LastChunk(r)
  BY <1>1, <1>5, <1>9, Behind
<1>13. LastChunk(r) # <<>> /\ Head(LastChunk(r)) = z /\ Tail(LastChunk(r)) = Trailer(r)
  <2>1. s3 \o r # <<>> /\ Head(s3 \o r) = Head(s3) /\ Tail(s3 \o r) = Tail(s3) \o r
    BY <1>1, <1>6, Behind
  <2> QED BY <1>6, <1>9, <2>1, Zenon
<1>14. Trailer(r) # <<>> /\ Head(Trailer(r)) # b /\ Tail(Trailer(r)) = LastLine(r)
  BY <1>1, <1>7, <1>9, Behind
<1>15. LastLine(r) # <<>> /\ Head(LastLine(r)) = b /\ Tail(LastLine(r)) = r
  <2>1. s1 \o r # <<>> /\ Head(s1 \o r) = Head(s1) /\ Tail(s1 \o r) = Tail(s1) \o r
    BY <1>1, <1>8, Behind
  <2> QED BY <1>8, <1>9, <2>1, Zenon
<1> QED BY <1>10, <1>11, <1>12, <1>13, <1>14, <1>15 DEF a, b, z

(* Behind a size that fits comes a chunk, or the trailer.                  *)
LEMMA SizeRead ==
    ASSUME HsBody \in Nat, NEW h, NEW in, SizeOK(h, in), NEW body \in Nat, Head(in).k = "size", ~(body + Head(in).n > HsBody)
    PROVE  /\ Head(in).n \in Nat
           /\ Head(in).n = 0 => TrailerOK(h, Tail(in))
           /\ Head(in).n # 0 => ChunkOK(h, Tail(in), Head(in).n)
<1>0. /\ HS!Size(0).n = 0 /\ HS!Size(1).n = 1 /\ HS!Size(2).n = 2 /\ HS!Size(HsBody + 1).n = HsBody + 1
      /\ HS!Size(0) \in Units /\ HS!Size(1) \in Units /\ HS!Size(2) \in Units /\ HS!Size(HsBody + 1) \in Units
      /\ HS!Data \in Units /\ HS!Lure \in Units
  BY UnitsTyped
<1>1. CASE h.honest = TRUE /\ \E r \in Rests : in = Chunks(r)
  <2>1. PICK r \in Rests : in = Chunks(r)
    BY <1>1
  <2>2. Head(in) = HS!Size(1) /\ Tail(in) = InChunk(r)
    BY <2>1, ChunkWalk
  <2> QED BY <1>0, <1>1, <2>2 DEF ChunkOK
<1>2. CASE h.honest = TRUE /\ \E r \in Rests : in = LastChunk(r)
  <2>1. PICK r \in Rests : in = LastChunk(r)
    BY <1>2
  <2>2. Head(in) = HS!Size(0) /\ Tail(in) = Trailer(r)
    BY <2>1, ChunkWalk
  <2> QED BY <1>0, <1>2, <2>2 DEF TrailerOK
<1>3. CASE in = <<HS!Size(2), HS!Data>>
  <2>1. Head(in) = HS!Size(2) /\ Tail(in) = <<HS!Data>>
    BY <1>3
  <2> QED BY <1>0, <2>1 DEF ChunkOK
<1>4. CASE in = <<HS!Size(1), HS!Data, HS!Data, HS!Lure>>
  <2>1. Head(in) = HS!Size(1) /\ Tail(in) = <<HS!Data, HS!Data, HS!Lure>>
    BY <1>4
  <2> QED BY <1>0, <2>1 DEF ChunkOK
<1>5. CASE in = <<HS!Size(HsBody + 1), HS!Lure>>
  <2>1. Head(in) = HS!Size(HsBody + 1)
    BY <1>5
  <2>2. Head(in).n = HsBody + 1
    BY <1>0, <2>1
  <2> QED BY <2>2
<1> QED BY <1>1, <1>2, <1>3, <1>4, <1>5 DEF SizeOK, BadChunks

(* Behind a chunk's data comes its end.                                    *)
LEMMA ChunkRead ==
    ASSUME HsBody \in Nat, NEW h, NEW in, NEW n, ChunkOK(h, in, n), ~(Len(in) < n)
    PROVE  n \in Nat /\ EndOK(h, SubSeq(in, n + 1, Len(in)))
<1>0. HS!Data \in Units /\ HS!Lure \in Units
  BY UnitsTyped
<1>1. CASE h.honest = TRUE /\ n = 1 /\ \E r \in Rests : in = InChunk(r)
  <2>1. PICK r \in Rests : in = InChunk(r)
    BY <1>1
  <2>2. in \in Seq(Units) /\ in # <<>> /\ Tail(in) = ChunkEnd(r)
    BY <2>1, ChunkWalk
  <2>3. SubSeq(in, n + 1, Len(in)) = ChunkEnd(r)
    BY <1>1, <2>2, TailIsSubSeq
  <2> QED BY <1>1, <2>3 DEF EndOK
<1>2. CASE n = 2 /\ in = <<HS!Data>>
  <2>1. Len(in) = 1
    BY <1>2
  <2> QED BY <1>2, <2>1
<1>3. CASE n = 1 /\ in = <<HS!Data, HS!Data, HS!Lure>>
  <2>1. in \in Seq(Units) /\ in # <<>> /\ Tail(in) = <<HS!Data, HS!Lure>>
    BY <1>0, <1>3
  <2>2. SubSeq(in, n + 1, Len(in)) = <<HS!Data, HS!Lure>>
    <3>1. SubSeq(in, 2, Len(in)) = Tail(in)
      BY <2>1, TailIsSubSeq
    <3>2. n + 1 = 2
      BY <1>3
    <3> QED BY <2>1, <3>1, <3>2, Zenon
  <2> QED BY <1>3, <2>2 DEF EndOK
<1> QED BY <1>1, <1>2, <1>3 DEF ChunkOK

(* Behind a chunk comes the next size.                                     *)
LEMMA EndRead ==
    ASSUME HsBody \in Nat, NEW h, NEW in, EndOK(h, in), Head(in) = HS!Blank
    PROVE  SizeOK(h, Tail(in))
<1>1. CASE h.honest = TRUE /\ \E r \in Rests : in = ChunkEnd(r)
  <2>1. PICK r \in Rests : in = ChunkEnd(r)
    BY <1>1
  <2>2. Tail(in) = LastChunk(r)
    BY <2>1, ChunkWalk
  <2> QED BY <1>1, <2>2 DEF SizeOK
<1>2. CASE in = <<HS!Data, HS!Lure>>
  <2>1. Head(in) = HS!Data
    BY <1>2
  <2> QED BY <2>1, UnitsTyped
<1> QED BY <1>1, <1>2 DEF EndOK

(* Behind the trailer comes what may be left.                              *)
LEMMA TrailerRead ==
    ASSUME HsBody \in Nat, NEW h, NEW in, TrailerOK(h, in)
    PROVE  /\ h.honest = TRUE
           /\ Head(in) = HS!Blank => Tail(in) \in Rests
           /\ Head(in) # HS!Blank => TrailerOK(h, Tail(in))
<1>1. h.honest = TRUE
  BY DEF TrailerOK
<1>2. PICK r \in Rests : in = Trailer(r) \/ in = LastLine(r)
  BY DEF TrailerOK
<1>3. CASE in = Trailer(r)
  <2>1. Head(in) # HS!Blank /\ Tail(in) = LastLine(r)
    BY <1>3, ChunkWalk
  <2> QED BY <1>1, <2>1 DEF TrailerOK
<1>4. CASE in = LastLine(r)
  <2>1. Head(in) = HS!Blank /\ Tail(in) = r
    BY <1>4, ChunkWalk
  <2> QED BY <1>1, <2>1
<1> QED BY <1>2, <1>3, <1>4

(* Reading a body keeps StreamInv.                                         *)
LEMMA BodyKeeps ==
    ASSUME HsBody \in Nat, StreamInv, NEW c \in HsConns,
           HS!ReadExact(c) \/ HS!ReadChunkSize(c) \/ HS!ReadChunkEnd(c) \/ HS!ReadTrailer(c)
    PROVE  StreamInv'
<1> DEFINE t == hsConn[c]
<1>1. ConnOK(t)
  BY DEF StreamInv
<1>2. CASE HS!Close(c)
  BY <1>2, CloseKeeps
<1>3. CASE HS!ReadExact(c) /\ ~HS!Close(c)
  <2> DEFINE r == [t EXCEPT !.pc = IF t.frame.how = "chunked" THEN "end" ELSE "dispatch",
                            !.body = @ + t.frame.n, !.in = SubSeq(t.in, t.frame.n + 1, Len(t.in))]
  <2>1. t.pc = "exact" /\ ~(Len(t.in) < t.frame.n) /\ HS!Goto(c, r)
    BY <1>3 DEF HS!ReadExact, HS!Refuse
  <2> HIDE DEF t
  <2> DEFINE n == t.frame.n
             rest == SubSeq(t.in, n + 1, Len(t.in))
  <2>2. /\ DOMAIN r = DOMAIN t /\ r.pc = (IF t.frame.how = "chunked" THEN "end" ELSE "dispatch")
        /\ r.frame = t.frame
        /\ r.body = t.body + n /\ r.head = t.head /\ r.in = rest
    BY <1>1 DEF ConnOK
  <2>3. CASE t.frame.how = "length" /\ LengthOK(t.head, t.in, n)
    <3>1. n \in Nat /\ t.head.honest = TRUE /\ rest \in Rests
      BY <2>1, <2>3 DEF LengthOK
    <3> HIDE DEF r, rest, n
    <3>2. ConnOK(r)
      BY <1>1, <2>2, <2>3, <3>1 DEF ConnOK
    <3> QED BY <2>1, <3>2, GotoKeeps
  <2>4. CASE t.frame.how = "chunked" /\ ChunkOK(t.head, t.in, n)
    <3>1. n \in Nat /\ EndOK(t.head, rest)
      <4> DEFINE h == t.head
                 in == t.in
      <4>1. ChunkOK(h, in, n) /\ ~(Len(in) < n)
        BY <2>1, <2>4
      <4>2. rest = SubSeq(in, n + 1, Len(in))
        OBVIOUS
      <4> HIDE DEF h, in, n, rest
      <4>3. n \in Nat /\ EndOK(h, SubSeq(in, n + 1, Len(in)))
        BY <4>1, ChunkRead
      <4> QED BY <4>2, <4>3 DEF h
    <3> HIDE DEF r, rest, n
    <3>2. ConnOK(r)
      BY <1>1, <2>2, <2>4, <3>1 DEF ConnOK
    <3> QED BY <2>1, <3>2, GotoKeeps
  <2> QED BY <1>1, <2>1, <2>3, <2>4 DEF ConnOK
<1>4. CASE HS!ReadChunkSize(c) /\ ~HS!Close(c)
  <2> DEFINE m == Head(t.in).n
             r == [t EXCEPT !.pc = IF m = 0 THEN "trailer" ELSE "exact", !.frame.n = m, !.in = Tail(t.in)]
  <2>1. t.pc = "size" /\ Head(t.in).k = "size" /\ ~(t.body + m > HsBody) /\ HS!Goto(c, r)
    BY <1>4 DEF HS!ReadChunkSize, HS!Refuse
  <2> HIDE DEF t
  <2>2. t.frame.how = "chunked" /\ SizeOK(t.head, t.in) /\ t.body \in Nat
    BY <1>1, <2>1 DEF ConnOK
  <2>3. m \in Nat /\ (m = 0 => TrailerOK(t.head, Tail(t.in))) /\ (m # 0 => ChunkOK(t.head, Tail(t.in), m))
    <3> DEFINE h == t.head
               in == t.in
               body == t.body
    <3>1. SizeOK(h, in) /\ body \in Nat /\ Head(in).k = "size" /\ ~(body + Head(in).n > HsBody)
          /\ m = Head(in).n
      BY <2>1, <2>2
    <3>2. Tail(t.in) = Tail(in) /\ t.head = h
      OBVIOUS
    <3> HIDE DEF h, in, body, m
    <3>3. /\ Head(in).n \in Nat
          /\ Head(in).n = 0 => TrailerOK(h, Tail(in))
          /\ Head(in).n # 0 => ChunkOK(h, Tail(in), Head(in).n)
      BY <3>1, SizeRead
    <3> QED BY <3>1, <3>2, <3>3
  <2> HIDE DEF m
  <2>4. /\ DOMAIN r = DOMAIN t /\ r.pc = (IF m = 0 THEN "trailer" ELSE "exact") /\ r.body = t.body
        /\ r.head = t.head
        /\ r.in = Tail(t.in) /\ r.frame = [t.frame EXCEPT !.n = m]
    BY <1>1 DEF ConnOK
  <2> HIDE DEF r
  <2>5. DOMAIN r.frame = {"how", "n"} /\ r.frame.how = "chunked" /\ r.frame.n = m
    BY <1>1, <2>2, <2>4 DEF ConnOK
  <2>6. ConnOK(r)
    BY <1>1, <2>3, <2>4, <2>5 DEF ConnOK
  <2> QED BY <2>1, <2>6, GotoKeeps
<1>5. CASE HS!ReadChunkEnd(c) /\ ~HS!Close(c)
  <2> DEFINE r == [t EXCEPT !.pc = "size", !.in = Tail(t.in)]
  <2>1. t.pc = "end" /\ Head(t.in) = HS!Blank /\ HS!Goto(c, r)
    BY <1>5 DEF HS!ReadChunkEnd, HS!Refuse
  <2> HIDE DEF t
  <2>2. t.frame.how = "chunked" /\ EndOK(t.head, t.in)
    BY <1>1, <2>1 DEF ConnOK
  <2>3. SizeOK(t.head, Tail(t.in))
    BY <2>1, <2>2, EndRead
  <2>4. DOMAIN r = DOMAIN t /\ r.pc = "size" /\ r.body = t.body /\ r.head = t.head /\ r.in = Tail(t.in)
        /\ r.frame = t.frame
    BY <1>1 DEF ConnOK
  <2> HIDE DEF r
  <2>5. ConnOK(r)
    BY <1>1, <2>2, <2>3, <2>4 DEF ConnOK
  <2> QED BY <2>1, <2>5, GotoKeeps
<1>6. CASE HS!ReadTrailer(c) /\ ~HS!Close(c)
  <2> DEFINE r == [t EXCEPT !.pc = IF Head(t.in) = HS!Blank THEN "dispatch" ELSE "trailer", !.in = Tail(t.in)]
  <2>1. t.pc = "trailer" /\ HS!Goto(c, r)
    BY <1>6 DEF HS!ReadTrailer, HS!Refuse
  <2> HIDE DEF t
  <2>2. TrailerOK(t.head, t.in)
    BY <1>1, <2>1 DEF ConnOK
  <2>3. /\ t.head.honest = TRUE
        /\ Head(t.in) = HS!Blank => Tail(t.in) \in Rests
        /\ Head(t.in) # HS!Blank => TrailerOK(t.head, Tail(t.in))
    BY <2>2, TrailerRead
  <2>4. /\ DOMAIN r = DOMAIN t /\ r.pc = (IF Head(t.in) = HS!Blank THEN "dispatch" ELSE "trailer")
        /\ r.body = t.body
        /\ r.head = t.head /\ r.in = Tail(t.in) /\ r.frame = t.frame
    BY <1>1 DEF ConnOK
  <2> HIDE DEF r
  <2>5. ConnOK(r)
    BY <1>1, <2>3, <2>4 DEF ConnOK
  <2> QED BY <2>1, <2>5, GotoKeeps
<1> QED BY <1>2, <1>3, <1>4, <1>5, <1>6

(* Serving and answering a request keeps it.                               *)
LEMMA AnswerKeeps ==
    ASSUME HsBody \in Nat, StreamInv, NEW c \in HsConns, HS!Dispatch(c) \/ HS!WriteResponse(c)
          PROVE  StreamInv'
<1> DEFINE t == hsConn[c]
<1>1. ConnOK(t)
  BY DEF StreamInv
<1>2. CASE HS!Dispatch(c)
  <2> DEFINE keep == HS!KeepAlive(t)
             r == [t EXCEPT !.pc = "write", !.keep = keep]
  <2>1. t.pc = "dispatch" /\ hsServed' = hsServed \cup {t.head} /\ HS!Set(c, r)
    BY <1>2 DEF HS!Dispatch
  <2> HIDE DEF t, keep
  <2>2. t.head.honest = TRUE /\ t.in \in Rests
    BY <1>1, <2>1 DEF ConnOK
  <2>3. \A h \in hsServed' : h.honest = TRUE
    BY <2>1, <2>2 DEF StreamInv
  <2>4. DOMAIN r = DOMAIN t /\ r.pc = "write" /\ r.body = t.body /\ r.in = t.in /\ r.frame = t.frame
    BY <1>1 DEF ConnOK
  <2> HIDE DEF r
  <2>5. ConnOK(r)
    BY <1>1, <2>2, <2>4 DEF ConnOK
  <2> QED BY <2>1, <2>3, <2>5, SetKeeps
<1>3. CASE HS!WriteResponse(c)
  <2> DEFINE r == [t EXCEPT !.pc = "head", !.n = @ + 1]
  <2>1. t.pc = "write" /\ (HS!Close(c) \/ HS!Goto(c, r))
    BY <1>3 DEF HS!WriteResponse
  <2>2. CASE HS!Close(c)
    BY <2>2, CloseKeeps
  <2>3. CASE HS!Goto(c, r)
    <3> HIDE DEF t
    <3>1. t.in \in Streams
      BY <1>1, <2>1, RestsAreStreams DEF ConnOK
    <3>2. DOMAIN r = DOMAIN t /\ r.pc = "head" /\ r.body = t.body /\ r.in = t.in /\ r.frame = t.frame
      BY <1>1 DEF ConnOK
    <3> HIDE DEF r
    <3>3. ConnOK(r)
      BY <1>1, <3>1, <3>2 DEF ConnOK
    <3> QED BY <2>3, <3>3, GotoKeeps
  <2> QED BY <2>1, <2>2, <2>3
<1> QED BY <1>2, <1>3

(* Only heads that a client sent as requests are served: no unit of a      *)
(* body, no head two readers could frame differently and nothing behind    *)
(* one, however requests are pipelined and chunked (framing, read_body and *)
(* the connection loop of http/server.rs).                                 *)
THEOREM OnlyRequestsAreServed ==
    ASSUME HsBody \in Nat PROVE HS!Spec => []NothingIsSmuggled
<1>1. HS!Init => StreamInv
  <2> SUFFICES ASSUME HS!Init PROVE StreamInv
    OBVIOUS
  <2> DEFINE i == HS!Idle
  <2>1. DOMAIN i = {"pc", "n", "in", "head", "frame", "body", "keep"} /\ DOMAIN i.frame = {"how", "n"}
        /\ i.body = 0 /\ i.pc = "new"
    BY DEF HS!Idle, HS!Refusal
  <2>2. hsConn = [c \in HsConns |-> i] /\ hsServed = {}
    BY DEF HS!Init
  <2> HIDE DEF i
  <2>3. ConnOK(i)
    BY <2>1 DEF ConnOK
  <2> QED BY <2>2, <2>3 DEF StreamInv
<1>2. StreamInv /\ [HS!Next]_(HS!vars) => StreamInv'
  <2> SUFFICES ASSUME StreamInv, [HS!Next]_(HS!vars) PROVE StreamInv'
    OBVIOUS
  <2>1. ASSUME NEW c \in HsConns, HS!Accept(c) PROVE StreamInv'
    BY <2>1, AcceptKeeps
  <2>2. ASSUME NEW c \in HsConns, HS!NoRequest(c) PROVE StreamInv'
    BY <2>2, CloseKeeps DEF HS!NoRequest
  <2>3. ASSUME NEW c \in HsConns, HS!ReadHead(c) \/ HS!ReadFraming(c) PROVE StreamInv'
    BY <2>3, HeadKeeps
  <2>4. ASSUME NEW c \in HsConns, HS!ReadExact(c) \/ HS!ReadChunkSize(c) \/ HS!ReadChunkEnd(c) \/ HS!ReadTrailer(c)
        PROVE  StreamInv'
    BY <2>4, BodyKeeps
  <2>5. ASSUME NEW c \in HsConns, HS!Dispatch(c) \/ HS!WriteResponse(c) PROVE StreamInv'
    BY <2>5, AnswerKeeps
  <2>6. CASE HS!Shutdown \/ HS!Drained
    BY <2>6 DEF HS!Shutdown, HS!Drained, StreamInv
  <2>7. CASE UNCHANGED HS!vars
    BY <2>7 DEF HS!vars, StreamInv
  <2> QED BY <2>1, <2>2, <2>3, <2>4, <2>5, <2>6, <2>7 DEF HS!Next
<1>3. StreamInv => NothingIsSmuggled
  BY DEF StreamInv, NothingIsSmuggled, HS!NothingIsSmuggled
<1> QED BY <1>1, <1>2, <1>3, PTL DEF HS!Spec
=============================================================================
