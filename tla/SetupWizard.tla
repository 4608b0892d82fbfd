----------------------------- MODULE SetupWizard -----------------------------
(* api/setup.rs and init_setup.rs: the first administrator is created by      *)
(* whoever reaches the wizard, or by the INIT_ variables before the server    *)
(* serves. The wizard's step, the users and the endpoint's host are separate  *)
(* database calls.                                                            *)
EXTENDS Naturals

CONSTANTS
    SwVisitors,     \* wizard requests in flight, anonymous or an administrator's
    SwUsers,        \* bound: administrators ever created
    SwStarts        \* bound: starts

VARIABLES
    swUnattended,   \* INIT_ENABLED
    swValid,        \* the INIT_ lists pass their validation
    swStep, swCount, swHost,
    swServer,       \* "down", "init", "step", "serving"
    swTask,         \* visitor -> position and whether it is an administrator
    swLeft

vars == <<swUnattended, swValid, swStep, swCount, swHost, swServer, swTask, swLeft>>

Idle == [pc |-> "idle", admin |-> FALSE]
Goto(v, pc) == swTask' = [swTask EXCEPT ![v].pc = pc]

Init ==
    /\ swUnattended \in BOOLEAN /\ swValid \in BOOLEAN
    /\ swStep = 1 /\ swCount = 0 /\ swHost = "unset"
    /\ swServer = "down"
    /\ swTask = [v \in SwVisitors |-> Idle]
    /\ swLeft = SwStarts

CreateUser ==
    /\ swCount < SwUsers
    /\ swCount' = swCount + 1

-----------------------------------------------------------------------------
(* A start: run_init_setup, then serve *)

Boot ==
    /\ swServer = "down" /\ swLeft > 0
    /\ swLeft' = swLeft - 1
    /\ swServer' = IF swUnattended /\ swCount = 0 THEN "init" ELSE "serving"
    /\ UNCHANGED <<swUnattended, swValid, swStep, swCount, swHost, swTask>>

\* The administrator and the host are written before the lists are looked at.
ProvisionUser ==
    /\ swServer = "init"
    /\ CreateUser
    /\ swHost' \in {"init", swHost}
    /\ swServer' = "step"
    /\ UNCHANGED <<swUnattended, swValid, swStep, swTask, swLeft>>

\* A list that does not parse ends the process; the operator may correct it before the next start.
ProvisionLists ==
    /\ swServer = "step"
    /\ IF swValid THEN swServer' = "serving" /\ swStep' = 0 /\ UNCHANGED swValid
       ELSE swServer' = "down" /\ swValid' \in BOOLEAN /\ UNCHANGED swStep
    /\ UNCHANGED <<swUnattended, swCount, swHost, swTask, swLeft>>

Crash ==
    /\ swServer # "down"
    /\ swServer' = "down"
    /\ swTask' = [v \in SwVisitors |-> Idle]
    /\ UNCHANGED <<swUnattended, swValid, swStep, swCount, swHost, swLeft>>

-----------------------------------------------------------------------------
(* POST /api/setup/2 *)

\* Step 0 is let through only while there is no user.
SetupStep2(v) ==
    /\ swServer = "serving" /\ swTask[v].pc = "idle"
    /\ swStep \in {1, 2} \/ (swStep = 0 /\ swCount = 0)
    /\ Goto(v, "create")
    /\ UNCHANGED <<swUnattended, swValid, swStep, swCount, swHost, swServer, swLeft>>

CreateAdmin(v) ==
    /\ swTask[v].pc = "create"
    /\ CreateUser
    /\ Goto(v, "advance")
    /\ UNCHANGED <<swUnattended, swValid, swStep, swHost, swServer, swLeft>>
AdvanceStep(v) ==
    /\ swTask[v].pc = "advance"
    /\ swStep' = 3
    /\ Goto(v, "idle")
    /\ UNCHANGED <<swUnattended, swValid, swCount, swHost, swServer, swLeft>>

StepThenUser(v) ==
    \/ swTask[v].pc = "create" /\ swStep' = 3 /\ Goto(v, "advance")
        /\ UNCHANGED <<swUnattended, swValid, swCount, swHost, swServer, swLeft>>
    \/ swTask[v].pc = "advance" /\ CreateUser /\ Goto(v, "idle")
        /\ UNCHANGED <<swUnattended, swValid, swStep, swHost, swServer, swLeft>>
UserThenStep(v) == CreateAdmin(v) \/ AdvanceStep(v)

\* A session of an administrator: anybody may hold one once there is one.
Login(v) ==
    /\ swServer = "serving" /\ swTask[v] = Idle /\ swCount > 0
    /\ swTask' = [swTask EXCEPT ![v].admin = TRUE]
    /\ UNCHANGED <<swUnattended, swValid, swStep, swCount, swHost, swServer, swLeft>>

-----------------------------------------------------------------------------
(* POST /api/setup/4 *)

SetupStep4(v) ==
    /\ swServer = "serving" /\ swTask[v].pc = "idle" /\ swStep = 3
    /\ Goto(v, "authorise")
    /\ UNCHANGED <<swUnattended, swValid, swStep, swCount, swHost, swServer, swLeft>>

\* Once an administrator exists only one may go on.
RequireAdmin(v) ==
    /\ swTask[v].pc = "authorise"
    /\ Goto(v, IF swCount > 0 /\ ~swTask[v].admin THEN "idle" ELSE "host")
    /\ UNCHANGED <<swUnattended, swValid, swStep, swCount, swHost, swServer, swLeft>>

UpdateHostPort(v) ==
    /\ swTask[v].pc = "host"
    /\ swHost' = IF swTask[v].admin THEN "admin" ELSE "anonymous"
    /\ Goto(v, "complete")
    /\ UNCHANGED <<swUnattended, swValid, swStep, swCount, swServer, swLeft>>

MarkComplete(v) ==
    /\ swTask[v].pc = "complete"
    /\ swStep' = 0
    /\ Goto(v, "idle")
    /\ UNCHANGED <<swUnattended, swValid, swCount, swHost, swServer, swLeft>>

Next ==
    \/ Boot \/ ProvisionUser \/ ProvisionLists \/ Crash
    \/ \E v \in SwVisitors :
        SetupStep2(v) \/ UserThenStep(v) \/ Login(v) \/ SetupStep4(v) \/ RequireAdmin(v)
        \/ UpdateHostPort(v) \/ MarkComplete(v)

Spec == Init /\ [][Next]_vars

-----------------------------------------------------------------------------

\* The host that every generated configuration names is never written without an
\* administrator's session, however wizard requests interleave and starts are cut
\* (setup_step2 creates the user before it advances the step).
HostIsWrittenByAnAdmin == swHost # "anonymous"
=============================================================================
