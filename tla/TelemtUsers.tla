---------------------------- MODULE TelemtUsers ----------------------------
(***************************************************************************)
(* MTProxy users: the table, telemt's own roster behind its HTTP API, the   *)
(* admin handlers that write the one and push to the other, and the         *)
(* reconciler that runs after every spawn and every rewritten file.  A push *)
(* may fail; "reconciler will retry" is what the log then says.             *)
(***************************************************************************)
EXTENDS Naturals, FiniteSets

CONSTANTS
    Names,        \* usernames
    Admins,       \* admin requests that may run at once
    Reconcilers,  \* reconciles that may run at once
    MuEvents      \* bound: admin calls, restarts of telemt, failing calls

VARIABLES
    muDb,       \* mtproxy_users_table: name -> row or None
    muLive,     \* telemt's roster: name -> user or None
    muUp,       \* telemt answers on 127.0.0.1:9091
    muAdmin,    \* admin request -> the call still to push
    muRec,      \* reconcile -> its lists and where it is
    muLeft,     \* what is left of MuEvents
    muClean     \* history: the last thing that ran was one reconcile, alone and unfailing

vars == <<muDb, muLive, muUp, muAdmin, muRec, muLeft, muClean>>

None == [secret |-> 0, tag |-> "", on |-> FALSE]
NoCall == [verb |-> "none"]
NoRec == [pc |-> "idle", db |-> [n \in Names |-> None], live |-> <<>>,
          todo |-> {}, alone |-> TRUE]
Listed(roster) == {n \in Names : roster[n] # None}

Init ==
    /\ muDb = [n \in Names |-> None]
    /\ muLive = [n \in Names |-> None]
    /\ muUp = FALSE
    /\ muAdmin = [a \in Admins |-> NoCall]
    /\ muRec = [r \in Reconcilers |-> NoRec]
    /\ muLeft = MuEvents
    /\ muClean = FALSE

Event == muLeft > 0 /\ muLeft' = muLeft - 1

\* Whoever else is at work is no longer alone.
Disturbed(rec) == [r \in Reconcilers |-> [rec[r] EXCEPT !.alone = FALSE]]

-----------------------------------------------------------------------------
(* The client: one call to telemt, which refuses a second user of a name   *)
(* and a change to a name it does not know.                                *)

\* The row as POST /v1/users carries it: no `enabled`, telemt switches the user on.
CreateAdTag(row) == row.tag
CreateCall(n, row) ==
    [verb |-> "create", name |-> n,
     user |-> [secret |-> row.secret, tag |-> CreateAdTag(row), on |-> TRUE]]
PatchCall(n, fields) == [verb |-> "patch", name |-> n, user |-> fields]
DeleteCall(n) == [verb |-> "delete", name |-> n, user |-> None]

\* ad_tag_patch: nothing to send when both sides agree.
AdTagPatchNeverClears(live, want) ==
    IF want.tag \in {"", live} THEN {} ELSE {[tag |-> want.tag]}
AdTagPatch(live, want) == IF live = want.tag THEN {} ELSE {[tag |-> want.tag]}

Accepts(call) ==
    /\ muUp
    /\ call.verb = "create" => muLive[call.name] = None
    /\ call.verb = "patch" => muLive[call.name] # None

Applied(call) ==
    [muLive EXCEPT ![call.name] =
        CASE call.verb = "create" -> call.user
          [] call.verb = "delete" -> None
          [] call.verb = "patch" ->
                [f \in DOMAIN @ |-> IF f \in DOMAIN call.user THEN call.user[f] ELSE @[f]]]

\* The call goes through, or is refused, or fails on the way; a failure is only logged.
Request(call) ==
    \/ Accepts(call) /\ muLive' = Applied(call) /\ UNCHANGED muLeft
    \/ ~Accepts(call) /\ UNCHANGED <<muLive, muLeft>>
    \/ Event /\ UNCHANGED muLive
Fails(call) == muLive' # Applied(call)

-----------------------------------------------------------------------------
(* The admin API: the row first, then the push. *)

Begin(a, call) ==
    /\ Event
    /\ muAdmin[a] = NoCall
    /\ muAdmin' = [muAdmin EXCEPT ![a] = call]
    /\ muRec' = Disturbed(muRec)
    /\ muClean' = FALSE
    /\ UNCHANGED <<muLive, muUp>>

CreateUser(a, n, tag, on) ==
    /\ muDb[n] = None
    /\ LET row == [secret |-> 1, tag |-> tag, on |-> on]
       IN  muDb' = [muDb EXCEPT ![n] = row] /\ Begin(a, CreateCall(n, row))

UpdateUser(a, n, fields) ==
    /\ muDb[n] # None
    /\ muDb' = [muDb EXCEPT ![n] =
            [f \in DOMAIN @ |-> IF f \in DOMAIN fields THEN fields[f] ELSE @[f]]]
    /\ Begin(a, PatchCall(n, fields))

DeleteUser(a, n) ==
    /\ muDb[n] # None
    /\ muDb' = [muDb EXCEPT ![n] = None]
    /\ Begin(a, DeleteCall(n))

RotateSecret(a, n) ==
    /\ muDb[n] # None
    /\ muDb' = [muDb EXCEPT ![n].secret = 2]
    /\ Begin(a, PatchCall(n, [secret |-> 2]))

Push(a) ==
    /\ muAdmin[a] # NoCall
    /\ Request(muAdmin[a])
    /\ muAdmin' = [muAdmin EXCEPT ![a] = NoCall]
    /\ muRec' = Disturbed(muRec)
    /\ muClean' = FALSE
    /\ UNCHANGED <<muDb, muUp>>

-----------------------------------------------------------------------------
(* The reconciler *)

\* A spawn of telemt, whose file has no user, or a rewritten file: one more reconcile.
SpawnUserReconciler(r) ==
    /\ Event
    /\ muRec[r].pc = "idle"
    /\ \/ muUp' = TRUE /\ muLive' = [n \in Names |-> None]
       \/ muUp /\ UNCHANGED <<muUp, muLive>>
    /\ muRec' = [Disturbed(muRec) EXCEPT ![r] = [NoRec EXCEPT !.pc = "wait",
            !.alone = (\A q \in Reconcilers : muRec[q].pc = "idle")
                      /\ (\A a \in Admins : muAdmin[a] = NoCall)]]
    /\ muClean' = FALSE
    /\ UNCHANGED <<muDb, muAdmin>>

\* telemt dies: every push fails until the next spawn, and the 30 s of waiting may run out.
TelemtDies ==
    /\ muUp /\ Event
    /\ muUp' = FALSE
    /\ muLive' = [n \in Names |-> None]
    /\ muRec' = Disturbed(muRec)
    /\ muClean' = FALSE
    /\ UNCHANGED <<muDb, muAdmin>>

WaitUntilAlive(r) ==
    /\ muRec[r].pc = "wait"
    /\ muRec' = IF muUp THEN [muRec EXCEPT ![r].pc = "db"] ELSE [muRec EXCEPT ![r] = NoRec]
    /\ UNCHANGED <<muDb, muLive, muUp, muAdmin, muLeft, muClean>>

ListDb(r) ==
    /\ muRec[r].pc = "db"
    /\ muRec' = [muRec EXCEPT ![r].pc = "live", ![r].db = muDb]
    /\ UNCHANGED <<muDb, muLive, muUp, muAdmin, muLeft, muClean>>

\* GET /v1/users: an answer without the secrets, or an error that ends the reconcile.
ExtractLiveUserMap(roster) == [n \in Listed(roster) |-> roster[n].tag]
ListLive(r) ==
    /\ muRec[r].pc = "live"
    /\ muRec' = IF muUp
            THEN [muRec EXCEPT ![r].pc = "push", ![r].live = ExtractLiveUserMap(muLive), ![r].todo = Names]
            ELSE [muRec EXCEPT ![r] = NoRec]
    /\ UNCHANGED <<muDb, muLive, muUp, muAdmin, muLeft, muClean>>

\* The calls a name asks for: create, a patch of the tag, or delete.
CallsFor(r, n) ==
    LET db == muRec[r].db[n]
        live == muRec[r].live
    IN  IF db = None THEN {DeleteCall(k) : k \in {n} \cap DOMAIN live}
        ELSE IF n \notin DOMAIN live THEN {CreateCall(n, db)}
        ELSE {PatchCall(n, f) : f \in AdTagPatch(live[n], db)}

\* The users of the table first, the orphans of telemt last.
ReconcileOne(r) ==
    /\ muRec[r].pc = "push"
    /\ \E n \in muRec[r].todo :
        /\ muRec[r].db[n] = None => \A k \in muRec[r].todo : muRec[r].db[k] = None
        /\ IF CallsFor(r, n) = {}
           THEN UNCHANGED <<muLive, muLeft>> /\ muRec' = [muRec EXCEPT ![r].todo = @ \ {n}]
           ELSE \E call \in CallsFor(r, n) :
                /\ Request(call)
                /\ muRec' = [muRec EXCEPT ![r].todo = @ \ {n},
                                          ![r].alone = @ /\ ~Fails(call)]
    /\ UNCHANGED <<muDb, muUp, muAdmin, muClean>>

ReconcileEnds(r) ==
    /\ muRec[r].pc = "push" /\ muRec[r].todo = {}
    /\ muClean' = muRec[r].alone
    /\ muRec' = [muRec EXCEPT ![r] = NoRec]
    /\ UNCHANGED <<muDb, muLive, muUp, muAdmin, muLeft>>

ReconcileUsersNow(r) == ReconcileOne(r) \/ ReconcileEnds(r)

Next ==
    \/ \E a \in Admins, n \in Names :
        \/ \E tag \in {"", "t"}, on \in BOOLEAN : CreateUser(a, n, tag, on)
        \/ \E tag \in {"", "t"} : UpdateUser(a, n, [tag |-> tag])
        \/ \E on \in BOOLEAN : UpdateUser(a, n, [on |-> on])
        \/ DeleteUser(a, n) \/ RotateSecret(a, n)
    \/ \E a \in Admins : Push(a)
    \/ \E r \in Reconcilers :
        \/ SpawnUserReconciler(r) \/ WaitUntilAlive(r) \/ ListDb(r) \/ ListLive(r)
        \/ ReconcileUsersNow(r)
    \/ TelemtDies

Spec == Init /\ [][Next]_vars

-----------------------------------------------------------------------------

\* A reconcile that nobody disturbed and none of whose calls failed leaves telemt with
\* the names of the table and their ad tags, whatever telemt held before it
\* (reconcile_users_now).
ReconcileConverges ==
    muClean => /\ Listed(muLive) = Listed(muDb)
               /\ \A n \in Names : muLive[n].tag = muDb[n].tag
=============================================================================
