--------------------------- MODULE ProxySupervisor ---------------------------
(* proxy/supervisor.rs: the DPI-imitation proxy fronts the public port and  *)
(* AmneziaWG moves behind it to a loopback port, kept private by an nft     *)
(* chain. A change rewrites the file, the chain, the interface and the task.*)
EXTENDS Naturals, FiniteSets

CONSTANTS PxHandlers, PxTasks, PxEvents, PxFaults

VARIABLES
    pxRow,      \* proxy_settings: [on, valid, hashed, caps]
    pxConf,     \* ListenPort of the rendered file
    pxWg,       \* the port AmneziaWG holds: "public", "backend" or "down"
    pxChain,    \* the proxy-lockdown chain is installed
    pxRun,      \* generation -> [st, cfg] of the task
    pxLive,     \* State.live: a generation or 0
    pxTask, pxLeft, pxOverlap, pxFailed

wgVars == <<pxConf, pxWg, pxChain>>
vars == <<pxRow, wgVars, pxRun, pxLive, pxTask, pxLeft, pxOverlap, pxFailed>>

Runs == 1..PxTasks
Idle == [pc |-> "idle"]
Started == {g \in Runs : pxRun[g].st # "unborn"}
Up == {g \in Runs : pxRun[g].st \in {"up", "stopping"}}
NoCfg == [hashed |-> 0, caps |-> 0]

\* Enabled, a known protocol, a certificate domain, a backend port apart from the public one.
ShouldRemainDisabled(row) == ~row.on \/ ~row.valid
IsActive == ~ShouldRemainDisabled(pxRow)
EffectiveListenPort == IF IsActive THEN "backend" ELSE "public"

\* build_config; hash_config leaves max_sessions and session_ttl out.
BuildConfig(row) == [hashed |-> row.hashed, caps |-> row.caps]
HashConfigForgets(cfg) == 0
HashConfig(cfg) == cfg.hashed

Init ==
    /\ pxRow = [on |-> FALSE, valid |-> TRUE, hashed |-> 1, caps |-> 1]
    /\ pxConf = "public" /\ pxWg = "public" /\ pxChain = FALSE
    /\ pxRun = [g \in Runs |-> [st |-> "unborn", cfg |-> NoCfg]]
    /\ pxLive = 0
    /\ pxTask = [h \in PxHandlers |-> Idle]
    /\ pxLeft = [events |-> PxEvents, faults |-> PxFaults]
    /\ pxOverlap = FALSE /\ pxFailed = FALSE

Event == pxLeft.events > 0 /\ pxLeft' = [pxLeft EXCEPT !.events = @ - 1]
Fault == pxLeft.faults > 0 /\ pxLeft' = [pxLeft EXCEPT !.faults = @ - 1] /\ pxFailed' = TRUE
NoFault == UNCHANGED <<pxLeft, pxFailed>>
Goto(h, to) == pxTask' = [pxTask EXCEPT ![h] = to]

\* A port bound on every address is exclusive.
Busy(port) == port = "public" /\ Up # {}

-----------------------------------------------------------------------------
(* api/proxy.rs *)

ApplyAndReconcile(h) ==
    /\ pxTask[h] = Idle
    /\ Goto(h, [pc |-> "save"])
    /\ pxOverlap' = (pxOverlap \/ \E g \in PxHandlers : pxTask[g] # Idle)
    /\ UNCHANGED <<wgVars, pxRun, pxLive, pxFailed>>

UpdateSettings(h) ==
    /\ Event
    /\ \E on, valid \in BOOLEAN, hashed, caps \in 1..2 :
        /\ pxRow' = [on |-> on, valid |-> valid, hashed |-> hashed, caps |-> caps]
        /\ pxRow' # pxRow
    /\ ApplyAndReconcile(h)
Restart(h) == Event /\ ApplyAndReconcile(h) /\ UNCHANGED pxRow

-----------------------------------------------------------------------------
(* apply_and_reconcile *)

\* wg::save_config: the file, then awg syncconf, which moves the listening port when it can.
SaveConfig(h) ==
    /\ pxTask[h].pc = "save"
    /\ pxConf' = EffectiveListenPort
    /\ pxWg' = IF pxWg = "down" \/ Busy(pxConf') THEN pxWg ELSE pxConf'
    /\ Goto(h, [pc |-> "lockdown"])
    /\ UNCHANGED <<pxRow, pxChain, pxRun, pxLive, pxLeft, pxOverlap, pxFailed>>

\* firewall::apply_proxy_lockdown; a failure while enabling ends the request.
Lockdown(h) ==
    /\ pxTask[h].pc = "lockdown"
    /\ \/ /\ pxChain' = (EffectiveListenPort = "backend")
          /\ Goto(h, [pc |-> "down"])
          /\ NoFault
       \/ /\ Fault /\ UNCHANGED pxChain
          /\ Goto(h, IF pxRow.on THEN Idle ELSE [pc |-> "down"])
    /\ UNCHANGED <<pxRow, pxConf, pxWg, pxRun, pxLive, pxOverlap>>

\* wg::restart: down, then up with the file as it is now.
WgDown(h) ==
    /\ pxTask[h].pc = "down"
    /\ pxWg' = "down"
    /\ Goto(h, [pc |-> "up"])
    /\ UNCHANGED <<pxRow, pxConf, pxChain, pxRun, pxLive, pxLeft, pxOverlap, pxFailed>>
WgUp(h) ==
    /\ pxTask[h].pc = "up"
    /\ \/ pxWg' = (IF Busy(pxConf) THEN "down" ELSE pxConf) /\ NoFault
       \/ Fault /\ UNCHANGED pxWg
    /\ Goto(h, [pc |-> "read"])
    /\ UNCHANGED <<pxRow, pxConf, pxChain, pxRun, pxLive, pxOverlap>>

-----------------------------------------------------------------------------
(* ensure_running *)

ReadSettings(h) ==
    /\ pxTask[h].pc = "read"
    /\ Goto(h, [pc |-> "check", row |-> pxRow])
    /\ UNCHANGED <<pxRow, wgVars, pxRun, pxLive, pxLeft, pxOverlap, pxFailed>>

\* The same hash leaves the task alone; otherwise stop_if_running takes the record.
Check(h) ==
    /\ pxTask[h].pc = "check"
    /\ LET row == pxTask[h].row
           cfg == BuildConfig(row)
           same == pxLive # 0 /\ HashConfig(pxRun[pxLive].cfg) = HashConfig(cfg)
       IN  Goto(h, IF ShouldRemainDisabled(row) THEN [pc |-> "take", cfg |-> NoCfg]
                   ELSE IF same THEN Idle
                   ELSE [pc |-> "take", cfg |-> cfg])
    /\ UNCHANGED <<pxRow, wgVars, pxRun, pxLive, pxLeft, pxOverlap, pxFailed>>

TakeLive(h) ==
    /\ pxTask[h].pc = "take"
    /\ pxLive' = 0
    /\ pxRun' = IF pxLive = 0 THEN pxRun ELSE [pxRun EXCEPT ![pxLive].st = "stopping"]
    /\ Goto(h, [pc |-> "wait", cfg |-> pxTask[h].cfg, run |-> pxLive])
    /\ UNCHANGED <<pxRow, wgVars, pxLeft, pxOverlap, pxFailed>>

Ended(g) == IF g = 0 THEN TRUE ELSE pxRun[g].st = "gone"
\* Five seconds for the task to end.
WaitStopped(h) ==
    /\ pxTask[h].pc = "wait"
    /\ IF Ended(pxTask[h].run) THEN NoFault ELSE Fault
    /\ Goto(h, IF pxTask[h].cfg = NoCfg THEN Idle ELSE [pc |-> "bind", cfg |-> pxTask[h].cfg])
    /\ UNCHANGED <<pxRow, wgVars, pxRun, pxLive, pxOverlap>>
StopIfRunning(h) == TakeLive(h) \/ WaitStopped(h)

\* Proxy::bind and the task of the next generation.
Bind(h) ==
    /\ pxTask[h].pc = "bind"
    /\ LET g == Cardinality(Started) + 1 IN
        IF pxWg = "public" \/ Up # {}
        THEN Goto(h, Idle) /\ pxFailed' = TRUE /\ UNCHANGED <<pxRun, pxLeft>>
        ELSE /\ g \in Runs
             /\ pxRun' = [pxRun EXCEPT ![g] = [st |-> "up", cfg |-> pxTask[h].cfg]]
             /\ Goto(h, [pc |-> "record", run |-> g])
             /\ NoFault
    /\ UNCHANGED <<pxRow, wgVars, pxLive, pxOverlap>>
Record(h) ==
    /\ pxTask[h].pc = "record"
    /\ pxLive' = pxTask[h].run
    /\ Goto(h, Idle)
    /\ UNCHANGED <<pxRow, wgVars, pxRun, pxLeft, pxOverlap, pxFailed>>

\* The task ends when asked; its last step clears the record if it is still its own.
TaskStops(g) ==
    /\ pxRun[g].st = "stopping"
    /\ pxRun' = [pxRun EXCEPT ![g].st = "gone"]
    /\ UNCHANGED <<pxRow, wgVars, pxLive, pxTask, pxLeft, pxOverlap, pxFailed>>
TaskFails(g) ==
    /\ pxRun[g].st = "up"
    /\ \A h \in PxHandlers : pxTask[h].pc = "record" => pxTask[h].run # g
    /\ Fault
    /\ pxRun' = [pxRun EXCEPT ![g].st = "gone"]
    /\ pxLive' = IF pxLive = g THEN 0 ELSE pxLive
    /\ UNCHANGED <<pxRow, wgVars, pxTask, pxOverlap>>

Next ==
    \/ \E h \in PxHandlers :
        \/ UpdateSettings(h) \/ Restart(h)
        \/ SaveConfig(h) \/ Lockdown(h) \/ WgDown(h) \/ WgUp(h)
        \/ ReadSettings(h) \/ Check(h) \/ StopIfRunning(h) \/ Bind(h) \/ Record(h)
    \/ \E g \in Runs : TaskStops(g) \/ TaskFails(g)

Spec == Init /\ [][Next]_vars

-----------------------------------------------------------------------------

AtRest == \A h \in PxHandlers : pxTask[h] = Idle
Undisturbed == AtRest /\ ~pxOverlap /\ ~pxFailed

\* One request at a time and nothing failing: an enabled proxy runs with the protocol, ports
\* and certificate as they are saved, AmneziaWG is behind it and the chain is up; without a
\* proxy no task runs and the chain is gone.
ProxyFrontsThePort ==
    Undisturbed =>
        /\ Up \subseteq {pxLive}
        /\ pxChain = (pxConf = "backend") /\ pxConf = EffectiveListenPort
        /\ IsActive => /\ pxLive # 0 /\ pxWg = "backend"
                       /\ pxRun[pxLive].cfg.hashed = pxRow.hashed
        /\ ~IsActive => pxLive = 0
=============================================================================
