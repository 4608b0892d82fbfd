---------------------------- MODULE QqSupervisor ----------------------------
(* qqdns/supervisor.rs: the QQ-DNS engine is a set of tasks in the process; *)
(* a change of settings aborts them and binds anew, outside the lock. An    *)
(* aborted task keeps its sockets until the runtime drops it.               *)
EXTENDS Naturals, FiniteSets

CONSTANTS QsHandlers, QsEngines, QsEvents

VARIABLES
    qsRow,      \* [on, valid, port, rest]: receive_port and h_in_address as one, the other settings
    qsLive,     \* State.live: an engine or 0
    qsEng,      \* engine -> [st, cfg]
    qsError,    \* last_error is set
    qsTask,     \* handler -> ensure_running's position and locals
    qsLeft, qsOverlap, qsFailed

vars == <<qsRow, qsLive, qsEng, qsError, qsTask, qsLeft, qsOverlap, qsFailed>>

Engines == 1..QsEngines
Idle == [pc |-> "idle"]
Started == {e \in Engines : qsEng[e].st # "unborn"}
Up == {e \in Engines : qsEng[e].st = "up"}

\* config.rs: enabled, with resolvers, domains, ports and lengths in range.
ShouldRemainDisabled(row) == ~row.on \/ ~row.valid
BuildEngineConfig(row) == [port |-> row.port, rest |-> row.rest]
ConfigSignatureForgets(cfg) == cfg.port
ConfigSignature(cfg) == cfg

Init ==
    /\ qsRow = [on |-> TRUE, valid |-> TRUE, port |-> 1, rest |-> 1]
    /\ qsLive = 0 /\ qsError = FALSE /\ qsFailed = FALSE /\ qsOverlap = FALSE
    /\ qsEng = [e \in Engines |-> [st |-> "unborn", cfg |-> [port |-> 0, rest |-> 0]]]
    /\ qsTask = [h \in QsHandlers |-> Idle]
    /\ qsLeft = QsEvents

Event == qsLeft > 0 /\ qsLeft' = qsLeft - 1

-----------------------------------------------------------------------------
(* api/qqdns.rs *)

EnsureRunning(h) ==
    /\ qsTask[h] = Idle
    /\ qsTask' = [qsTask EXCEPT ![h] = [pc |-> "read"]]
    /\ qsOverlap' = (qsOverlap \/ \E g \in QsHandlers : qsTask[g] # Idle)
    /\ UNCHANGED <<qsLive, qsEng, qsError, qsFailed>>

\* The ranges are checked field by field; a combination may still be unusable.
UpdateSettings(h) ==
    /\ Event
    /\ \E on, valid \in BOOLEAN, port \in 1..2, rest \in 1..2 :
        /\ qsRow' = [on |-> on, valid |-> valid, port |-> port, rest |-> rest]
        /\ qsRow' # qsRow
    /\ EnsureRunning(h)
Restart(h) == Event /\ EnsureRunning(h) /\ UNCHANGED qsRow

-----------------------------------------------------------------------------
(* ensure_running *)

Goto(h, to) == qsTask' = [qsTask EXCEPT ![h] = to]

\* EngineHandle::stop only asks the runtime to drop the tasks.
Stop(e) == qsEng' = IF e = 0 THEN qsEng ELSE [qsEng EXCEPT ![e].st = "aborted"]

ReadSettings(h) ==
    /\ qsTask[h].pc = "read"
    /\ Goto(h, [pc |-> "decide", row |-> qsRow])
    /\ UNCHANGED <<qsRow, qsLive, qsEng, qsError, qsLeft, qsOverlap, qsFailed>>

Decide(h) ==
    /\ qsTask[h].pc = "decide"
    /\ LET row == qsTask[h].row
           cfg == BuildEngineConfig(row)
           same == /\ qsLive # 0 /\ qsEng[qsLive].st = "up"
                   /\ ConfigSignature(qsEng[qsLive].cfg) = ConfigSignature(cfg)
       IN  IF ~ShouldRemainDisabled(row) /\ same
           THEN Goto(h, Idle) /\ UNCHANGED <<qsLive, qsEng, qsError>>
           ELSE /\ Stop(qsLive) /\ qsLive' = 0
                /\ IF ShouldRemainDisabled(row)
                   THEN Goto(h, Idle) /\ qsError' = FALSE
                   ELSE Goto(h, [pc |-> "start", cfg |-> cfg]) /\ UNCHANGED qsError
    /\ UNCHANGED <<qsRow, qsLeft, qsOverlap, qsFailed>>

\* Two sockets of one address exclude each other until the first is dropped.
Holds(e, cfg) == qsEng[e].st \in {"up", "aborted"} /\ qsEng[e].cfg.port = cfg.port

Start(h) ==
    /\ qsTask[h].pc = "start"
    /\ LET cfg == qsTask[h].cfg
           e == Cardinality(Started) + 1
       IN  IF \E x \in Started : Holds(x, cfg)
           THEN Goto(h, [pc |-> "failed"]) /\ UNCHANGED qsEng
           ELSE /\ e \in Engines
                /\ qsEng' = [qsEng EXCEPT ![e] = [st |-> "up", cfg |-> cfg]]
                /\ Goto(h, [pc |-> "record", eng |-> e])
    /\ UNCHANGED <<qsRow, qsLive, qsError, qsLeft, qsOverlap, qsFailed>>

\* The new handle replaces whatever is recorded; dropping a handle stops nothing.
Record(h) ==
    /\ qsTask[h].pc = "record"
    /\ qsLive' = qsTask[h].eng /\ qsError' = FALSE /\ qsFailed' = FALSE
    /\ Goto(h, Idle)
    /\ UNCHANGED <<qsRow, qsEng, qsLeft, qsOverlap>>
RecordError(h) ==
    /\ qsTask[h].pc = "failed"
    /\ qsError' = TRUE /\ qsFailed' = TRUE
    /\ Goto(h, Idle)
    /\ UNCHANGED <<qsRow, qsLive, qsEng, qsLeft, qsOverlap>>

\* status drops an engine one of whose tasks is gone.
Status ==
    /\ qsLive # 0 /\ qsEng[qsLive].st # "up"
    /\ qsLive' = 0 /\ qsError' = TRUE
    /\ Stop(qsLive)
    /\ UNCHANGED <<qsRow, qsTask, qsLeft, qsOverlap, qsFailed>>

ShutdownForExit ==
    /\ qsLeft > 0 /\ qsLeft' = 0
    /\ Stop(qsLive) /\ qsLive' = 0 /\ qsFailed' = TRUE
    /\ UNCHANGED <<qsRow, qsError, qsTask, qsOverlap>>

\* The runtime: an aborted task is dropped some time later, a task may panic.
Dropped(e) ==
    /\ qsEng[e].st = "aborted"
    /\ qsEng' = [qsEng EXCEPT ![e].st = "gone"]
    /\ UNCHANGED <<qsRow, qsLive, qsError, qsTask, qsLeft, qsOverlap, qsFailed>>
Panics(e) ==
    /\ Event /\ qsEng[e].st = "up"
    /\ qsEng' = [qsEng EXCEPT ![e].st = "aborted"]
    /\ qsFailed' = TRUE
    /\ UNCHANGED <<qsRow, qsLive, qsError, qsTask, qsOverlap>>

Next ==
    \/ \E h \in QsHandlers :
        UpdateSettings(h) \/ Restart(h) \/ ReadSettings(h) \/ Decide(h) \/ Start(h)
            \/ Record(h) \/ RecordError(h)
    \/ Status \/ ShutdownForExit
    \/ \E e \in Engines : Dropped(e) \/ Panics(e)

Spec == Init /\ [][Next]_vars

-----------------------------------------------------------------------------

AtRest == \A h \in QsHandlers : qsTask[h] = Idle

\* With the requests one at a time and no bind that failed, the engine that runs is the
\* recorded one, it has the settings as they are saved, and it runs only while they ask for
\* one (ensure_running, config_signature).
EngineHasTheSettings ==
    AtRest /\ ~qsOverlap /\ ~qsFailed =>
        /\ Up \subseteq {qsLive}
        /\ ShouldRemainDisabled(qsRow) => qsLive = 0
        /\ qsLive # 0 => qsEng[qsLive].cfg = BuildEngineConfig(qsRow)
=============================================================================
