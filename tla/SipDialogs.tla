----------------------------- MODULE SipDialogs -----------------------------
(* proxy/proxy.rs handle_sip_probe and proxy/responder.rs: one client's SIP *)
(* dialog. The receive loop answers each request at once; a deferred task   *)
(* rings and then answers the INVITE, unless the dialog has moved on.       *)
EXTENDS Naturals, Sequences, FiniteSets

CONSTANTS
    SdCalls,        \* Call-IDs
    SdRequests,     \* bound: requests of the client
    SdTasks         \* bound: deferred tasks

VARIABLES
    sdDialog,   \* NoDialog or [stage, call, cseq, inviteCseq]: a CSeq is the method it names
    sdLoop,     \* the receive loop inside handle_sip_probe
    sdTask,     \* deferred task -> [st, call]
    sdHandle,   \* sip_deferred_handles: a task or 0
    sdInvite,   \* history: what became of the dialog's INVITE
    sdLate,     \* history: an answer was sent to an INVITE that was not waiting for one
    sdLeft

vars == <<sdDialog, sdLoop, sdTask, sdHandle, sdInvite, sdLate, sdLeft>>

Tasks == 1..SdTasks
Methods == {"INVITE", "ACK", "BYE", "CANCEL", "OPTIONS"}
NoDialog == [stage |-> "none"]
Recv == [pc |-> "recv"]
Spawned == {g \in Tasks : sdTask[g].st # "unborn"}
Abort(g) == IF g = 0 THEN sdTask ELSE [sdTask EXCEPT ![g].st = "ended"]

Init ==
    /\ sdDialog = NoDialog /\ sdLoop = Recv /\ sdHandle = 0
    /\ sdTask = [g \in Tasks |-> [st |-> "unborn", call |-> 0]]
    /\ sdInvite = "none" /\ sdLate = FALSE
    /\ sdLeft = SdRequests

-----------------------------------------------------------------------------
(* proxy/responder.rs *)

FromRequest(m, call) == [stage |-> "Idle", call |-> call, cseq |-> m, inviteCseq |-> m]
UpdateRequestHeaders(d, m) == [d EXCEPT !.cseq = m]
InProgress(stage) == stage \in {"Invited", "Ringing"}

GenerateSipResponses(d, m) ==
    CASE m = "INVITE" -> CASE d.stage \in {"Idle", "Terminated"} -> <<100>>
                           [] d.stage = "Invited" -> <<100, 180>>
                           [] d.stage = "Ringing" -> <<180>>
                           [] OTHER -> <<200>>
      [] m = "ACK" -> <<>>
      [] m = "BYE" -> IF d.stage = "Established" THEN <<200>> ELSE <<>>
      [] m = "CANCEL" -> IF InProgress(d.stage) /\ d.inviteCseq = "INVITE" THEN <<200, 487>> ELSE <<200>>
      [] OTHER -> <<200>>

SipNextStage(stage, m) ==
    CASE m = "BYE" /\ stage # "Idle" -> "Terminated"
      [] m = "CANCEL" /\ InProgress(stage) -> "Terminated"
      [] OTHER -> stage

-----------------------------------------------------------------------------
(* handle_sip_probe *)

StageAfterImmediateResponse(stage, l) ==
    LET opens == l.before \in {"Idle", "Terminated"} /\ stage \in {"Idle", "Terminated"} /\ l.sent # <<>>
        rings == l.before = "Invited" /\ stage = "Invited" /\ \E i \in DOMAIN l.sent : l.sent[i] = 180
    IN  IF l.m = "INVITE" THEN IF opens THEN "Invited" ELSE IF rings THEN "Ringing" ELSE stage
        ELSE IF l.m \in {"CANCEL", "ACK"} \/ (l.all > 0 /\ Len(l.sent) = l.all) THEN SipNextStage(stage, l.m)
        ELSE stage

Respond(m, stored, fresh, d) ==
    LET todo == GenerateSipResponses(d, m) IN
    sdLoop' = [pc |-> "send", m |-> m, stored |-> stored, fresh |-> fresh, call |-> d.call,
               before |-> d.stage, todo |-> todo, all |-> Len(todo), sent |-> <<>>]

Request == sdLoop = Recv /\ sdLeft > 0 /\ sdLeft' = sdLeft - 1

\* A dialog that is idle or over, or another call, makes the INVITE a fresh one.
Invite(call) ==
    /\ Request
    /\ IF sdDialog = NoDialog \/ sdDialog.stage \in {"Idle", "Terminated"} \/ sdDialog.call # call
       THEN /\ sdDialog' = FromRequest("INVITE", call) /\ sdInvite' = "pending"
            /\ Respond("INVITE", TRUE, TRUE, sdDialog')
       ELSE /\ sdDialog' = UpdateRequestHeaders(sdDialog, "INVITE") /\ UNCHANGED sdInvite
            /\ Respond("INVITE", TRUE, FALSE, sdDialog')
    /\ UNCHANGED <<sdTask, sdHandle, sdLate>>

\* An INVITE that does not parse forgets the dialog and gets the stateless 100 Trying.
MalformedInvite ==
    /\ Request
    /\ sdDialog' = NoDialog /\ sdInvite' = "none"
    /\ Respond("INVITE", FALSE, FALSE, FromRequest("INVITE", 0))
    /\ UNCHANGED <<sdTask, sdHandle, sdLate>>

\* Any other method uses the dialog only when it names its call.
InDialog(m, call) ==
    /\ Request
    /\ IF sdDialog # NoDialog /\ sdDialog.call = call
       THEN sdDialog' = UpdateRequestHeaders(sdDialog, m) /\ Respond(m, TRUE, FALSE, sdDialog')
       ELSE UNCHANGED sdDialog /\ Respond(m, FALSE, FALSE, FromRequest(m, call))
    /\ UNCHANGED <<sdTask, sdHandle, sdInvite, sdLate>>

\* The rate limit, the budget or the socket may swallow each response.
SendResponse ==
    /\ sdLoop.pc = "send" /\ sdLoop.todo # <<>>
    /\ \E sent \in {sdLoop.sent, Append(sdLoop.sent, Head(sdLoop.todo))} :
        sdLoop' = [sdLoop EXCEPT !.todo = Tail(@), !.sent = sent]
    /\ UNCHANGED <<sdDialog, sdTask, sdHandle, sdInvite, sdLate, sdLeft>>

AdvanceStage ==
    /\ sdLoop.pc = "send" /\ sdLoop.todo = <<>>
    /\ LET stage == StageAfterImmediateResponse(sdDialog.stage, sdLoop)
           set == sdLoop.stored /\ sdDialog # NoDialog
       IN  /\ sdDialog' = IF set THEN [sdDialog EXCEPT !.stage = stage] ELSE sdDialog
           /\ sdInvite' = IF set /\ stage = "Terminated" THEN "ended" ELSE sdInvite
    /\ sdLoop' = IF sdLoop.fresh /\ sdLoop.sent # <<>> THEN [sdLoop EXCEPT !.pc = "spawn"] ELSE Recv
    /\ UNCHANGED <<sdTask, sdHandle, sdLate, sdLeft>>

\* A fresh INVITE that was answered at all gets a deferred task in place of the old one.
SpawnDeferred ==
    /\ sdLoop.pc = "spawn"
    /\ LET g == Cardinality(Spawned) + 1 IN
        /\ g \in Tasks
        /\ sdTask' = [Abort(sdHandle) EXCEPT ![g] = [st |-> "ring", call |-> sdLoop.call]]
        /\ sdHandle' = g
    /\ sdLoop' = Recv
    /\ UNCHANGED <<sdDialog, sdInvite, sdLate, sdLeft>>

-----------------------------------------------------------------------------
(* The deferred task *)

\* 180 Ringing after 200 ms, if the dialog still waits for one.
DeferredRinging(g) ==
    /\ sdTask[g].st = "ring"
    /\ sdTask' = [sdTask EXCEPT ![g].st = "answer"]
    /\ \E sent \in BOOLEAN :
        sdDialog' = IF sent /\ sdDialog.stage = "Invited" /\ sdDialog.call = sdTask[g].call
                    THEN [sdDialog EXCEPT !.stage = "Ringing"] ELSE sdDialog
    /\ UNCHANGED <<sdLoop, sdHandle, sdInvite, sdLate, sdLeft>>

\* 200 OK 800 ms later: the check, the sending and the new stage under the dialog's lock.
AnswerWithoutStage(g, sent) ==
    sent /\ sdDialog # NoDialog /\ sdDialog.call = sdTask[g].call
Answers(g, sent) ==
    sent /\ InProgress(sdDialog.stage) /\ sdDialog.call = sdTask[g].call
DeferredOk(g) ==
    /\ sdTask[g].st = "answer"
    /\ sdTask' = [sdTask EXCEPT ![g].st = "ended"]
    /\ sdHandle' = IF sdHandle = g THEN 0 ELSE sdHandle
    /\ \E sent \in BOOLEAN :
        IF Answers(g, sent)
        THEN /\ sdDialog' = [sdDialog EXCEPT !.stage = "Established"]
             /\ sdInvite' = "answered"
             /\ sdLate' = (sdLate \/ sdInvite # "pending")
        ELSE UNCHANGED <<sdDialog, sdInvite, sdLate>>
    /\ UNCHANGED <<sdLoop, sdLeft>>

\* Expiry of the session, its relay's failure or a refused session: the dialog goes and the
\* task is aborted.
Forget ==
    /\ sdDialog # NoDialog
    /\ sdDialog' = NoDialog /\ sdInvite' = "none"
    /\ sdTask' = Abort(sdHandle) /\ sdHandle' = 0
    /\ UNCHANGED <<sdLoop, sdLate, sdLeft>>

Next ==
    \/ \E call \in SdCalls : Invite(call) \/ \E m \in Methods \ {"INVITE"} : InDialog(m, call)
    \/ MalformedInvite \/ SendResponse \/ AdvanceStage \/ SpawnDeferred \/ Forget
    \/ \E g \in Tasks : DeferredRinging(g) \/ DeferredOk(g)

Spec == Init /\ [][Next]_vars

-----------------------------------------------------------------------------

\* A deferred 200 OK answers an INVITE of the dialog that is still waiting: never one that was
\* cancelled, ended or answered before, nor an earlier call of the address (handle_sip_probe).
AnswerIsDue == ~sdLate
=============================================================================
