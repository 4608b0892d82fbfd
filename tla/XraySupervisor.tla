--------------------------- MODULE XraySupervisor ---------------------------
(***************************************************************************)
(* The supervisor of the bundled Xray-core process (xray/supervisor.rs,    *)
(* proc.rs), the admin handlers that reconcile it (api/xray.rs) and main's *)
(* start and graceful shutdown (main.rs).                                  *)
(*                                                                         *)
(* ensure_running_inner reads the database, then either stops the child or *)
(* writes server.json, takes the STATE mutex and reloads or spawns.  Every *)
(* spawned child has a watchdog task, which waits for its exit, clears     *)
(* state.proc, and restarts it after a backoff.  The mutex is held for one *)
(* short section at a time: each section is one step here, and what was    *)
(* read before it may be stale in it.                                      *)
(*                                                                         *)
(* A child is its number in the order of spawning, and so is its watchdog; *)
(* 0 stands for no child, and as a task for main.  The rendered file is    *)
(* the version of the rows it was made from.  secretfile::write_atomic is  *)
(* one step here; SecretFile looks inside it.                              *)
(***************************************************************************)
EXTENDS Integers, FiniteSets

CONSTANTS
    Handlers,       \* concurrent admin requests
    MaxAttempts,    \* restarts before the supervisor gives up (10 in the code)
    MaxRequests,    \* bound: admin requests
    MaxFaults,      \* bound: crashes, failing writes and failing spawns
    MaxChildren     \* bound: spawned children

(* Every spawn belongs to main, to a request or to a crash, so MaxChildren *)
(* never holds a spawn back.                                               *)
ASSUME XrayConstants ==
    /\ MaxAttempts \in Nat /\ MaxRequests \in Nat /\ MaxFaults \in Nat
    /\ MaxChildren \in Nat
    /\ MaxChildren >= 1 + MaxRequests + MaxFaults

(* Requests are no children, nor main.                                     *)
ASSUME XrayTasks == \A h \in Handlers : h \notin 0..MaxChildren

VARIABLES
    want,        \* xray_inbound and xray_clients: [on, ver]
    file,        \* server.json: the version rendered
    proc,        \* STATE.proc
    attempts,    \* STATE.crash.restart_attempts
    spawned,     \* how many children were spawned
    child,       \* "none", "up", "dead" (not waited for) or "reaped"
    cfg,         \* the version each child has loaded
    unread,      \* children that were started or sent SIGHUP and have not read the file
    flagged,     \* children whose shutdown_requested is set, and that were sent SIGTERM
    pc, loc,     \* where each task stands, and what it holds
    requests, faults,
    last,        \* history: what the last task to decide left: "up", "down" or "none"
    orphans,     \* history: children whose record another child's watchdog took
    budget       \* history: spawns the operator and the attempt cap allow

world == <<want, file>>
state == <<proc, attempts>>
children == <<spawned, child, cfg, unread, flagged>>
bounds == <<requests, faults>>
history == <<last, orphans, budget>>
vars == <<world, state, children, pc, loc, bounds, history>>

Main == 0
Children == 1..MaxChildren
Tasks == {Main} \cup Handlers \cup Children
NoLocal == [ver |-> 0, reset |-> TRUE, pid |-> 0, healthy |-> FALSE,
            then |-> "idle"]

(* Where a task goes when its reconcile is over.                           *)
Home(t) == IF t = Main THEN "serving" ELSE IF t \in Children THEN "ended" ELSE "idle"

At(t, l) == pc[t] = l /\ pc[Main] # "gone"
Goto(t, l) == pc' = [pc EXCEPT ![t] = l]
Finish(t) == Goto(t, Home(t)) /\ loc' = [loc EXCEPT ![t] = NoLocal]
Up(c) == child[c] = "up"

-----------------------------------------------------------------------------
(* main reconciles once before it serves.                                  *)
Init ==
    /\ want \in [on : BOOLEAN, ver : {1}]
    /\ file = 0
    /\ proc = 0
    /\ attempts = 0
    /\ spawned = 0
    /\ child = [c \in Children |-> "none"]
    /\ cfg = [c \in Children |-> 0]
    /\ unread = {} /\ flagged = {}
    /\ pc = [t \in Tasks |-> IF t = Main THEN "read" ELSE IF t \in Children THEN "off" ELSE "idle"]
    /\ loc = [t \in Tasks |-> NoLocal]
    /\ requests = 0 /\ faults = 0
    /\ last = "none"
    /\ orphans = {}
    /\ budget = MaxAttempts

-----------------------------------------------------------------------------
(* The admin handlers                                                      *)

Accept(h, l, x) ==
    /\ At(h, "idle")
    /\ pc[Main] = "serving"
    /\ requests < MaxRequests
    /\ requests' = requests + 1
    /\ loc' = [loc EXCEPT ![h] = x]
    /\ Goto(h, l)
    /\ UNCHANGED <<file, state, children, faults, history>>

(* Every change of the inbound or of a client: the rows, then reconcile.   *)
ChangeRows(h) ==
    /\ Accept(h, "read", NoLocal)
    /\ \E on \in BOOLEAN : want' = [on |-> on, ver |-> want.ver + 1]

(* POST /api/admin/xray/restart: stop, then ensure_running.                *)
Restart(h) ==
    /\ Accept(h, "stop", [NoLocal EXCEPT !.then = "read"])
    /\ UNCHANGED want

-----------------------------------------------------------------------------
(* ensure_running_inner                                                    *)

(* The rows are read and should_remain_disabled decides.                   *)
ReadRows(t) ==
    /\ At(t, "read")
    /\ loc' = [loc EXCEPT ![t].ver = IF want.on THEN want.ver ELSE 0, ![t].then = Home(t)]
    /\ Goto(t, IF want.on THEN "write" ELSE "stop")
    /\ UNCHANGED <<world, state, children, bounds, history>>

WriteConfig(t) ==
    /\ At(t, "write")
    /\ file' = loc[t].ver
    /\ loc' = [loc EXCEPT ![t].ver = 0]
    /\ Goto(t, "lock")
    /\ UNCHANGED <<want, state, children, bounds, history>>

(* A failing write, or under the mutex a failing spawn, is an error        *)
(* return; whoever called only logs it.                                    *)
EnsureFails(t) ==
    /\ At(t, "write") \/ (At(t, "lock") /\ proc = 0)
    /\ faults < MaxFaults
    /\ faults' = faults + 1
    /\ Finish(t)
    /\ last' = IF proc = 0 THEN "none" ELSE last
    /\ UNCHANGED <<world, state, children, requests, orphans, budget>>

(* Fault: a child that runs is left alone.                                 *)
ReloadSkipped(t) ==
    /\ At(t, "lock")
    /\ proc # 0
    /\ last' = "up"
    /\ Finish(t)
    /\ UNCHANGED <<world, state, children, bounds, orphans, budget>>

(* state.proc is set: SIGHUP.  A child that is dead but not waited for     *)
(* takes the signal too; for one already waited for it is an error.        *)
Reload(t) ==
    /\ At(t, "lock")
    /\ proc # 0
    /\ unread' = IF Up(proc) THEN unread \cup {proc} ELSE unread
    /\ last' = IF child[proc] = "reaped" THEN last ELSE "up"
    /\ Finish(t)
    /\ UNCHANGED <<world, state, spawned, child, cfg, flagged, bounds, orphans, budget>>

(* The new child, its record and its watchdog.                             *)
Started(t) ==
    /\ At(t, "lock")
    /\ proc = 0
    /\ spawned < MaxChildren
    /\ spawned' = spawned + 1
    /\ proc' = spawned'
    /\ child' = [child EXCEPT ![spawned'] = "up"]
    /\ unread' = unread \cup {spawned'}
    /\ last' = "up"
    /\ UNCHANGED <<world, cfg, flagged, bounds, orphans>>

Watched(t) ==
    /\ pc' = [pc EXCEPT ![t] = Home(t), ![spawned + 1] = "wait"]
    /\ loc' = [loc EXCEPT ![t] = NoLocal, ![spawned + 1].reset = FALSE]

Allowed(t) ==
    budget' = IF loc[t].reset
              THEN budget + 1 + (IF attempts < MaxAttempts THEN attempts ELSE MaxAttempts)
              ELSE budget

(* Fault: every spawn clears the counter, the watchdog's too.              *)
SpawnResets(t) == Started(t) /\ Watched(t) /\ Allowed(t) /\ attempts' = 0

Spawn(t) ==
    /\ Started(t)
    /\ Watched(t)
    /\ Allowed(t)
    /\ attempts' = IF loc[t].reset THEN 0 ELSE attempts

-----------------------------------------------------------------------------
(* stop_if_running; restart goes on to ensure_running.                     *)

StopReturn(t) == Goto(t, loc[t].then) /\ loc' = [loc EXCEPT ![t] = NoLocal]

StopTake(t) ==
    /\ At(t, "stop")
    /\ proc' = 0
    /\ IF proc = 0 THEN StopReturn(t) ELSE Goto(t, "signal") /\ loc' = [loc EXCEPT ![t].pid = proc]
    /\ last' = "down"
    /\ UNCHANGED <<world, attempts, children, bounds, orphans, budget>>

(* shutdown_requested, then SIGTERM.                                       *)
StopSignal(t) ==
    /\ At(t, "signal")
    /\ flagged' = flagged \cup {loc[t].pid}
    /\ Goto(t, "grace")
    /\ UNCHANGED <<world, state, spawned, child, cfg, unread, loc, bounds, history>>

(* The poll of pid_alive, which a dead child passes until it is waited for.*)
StopSeesExit(t) ==
    /\ At(t, "grace") \/ At(t, "reap")
    /\ child[loc[t].pid] = "reaped"
    /\ StopReturn(t)
    /\ UNCHANGED <<world, state, children, bounds, history>>

(* Fault: the poll has no deadline.                                        *)
StopKillNever(t) == FALSE /\ UNCHANGED vars

(* The grace period is over: SIGKILL.                                      *)
StopKill(t) ==
    /\ At(t, "grace")
    /\ child[loc[t].pid] # "reaped"
    /\ child' = [child EXCEPT ![loc[t].pid] = "dead"]
    /\ cfg' = [cfg EXCEPT ![loc[t].pid] = 0]
    /\ unread' = unread \ {loc[t].pid}
    /\ Goto(t, "reap")
    /\ UNCHANGED <<world, state, spawned, flagged, loc, bounds, history>>

(* The final reap window is over too: the failure is logged.               *)
StopGivesUp(t) ==
    /\ At(t, "reap")
    /\ child[loc[t].pid] # "reaped"
    /\ StopReturn(t)
    /\ UNCHANGED <<world, state, children, bounds, history>>

-----------------------------------------------------------------------------
(* The watchdog of child c                                                 *)

Wait(c) ==
    /\ At(c, "wait")
    /\ child[c] = "dead"
    /\ child' = [child EXCEPT ![c] = "reaped"]
    /\ Goto(c, "clear")
    /\ UNCHANGED <<world, state, spawned, cfg, unread, flagged, loc, bounds, history>>

(* Fault: the record of the dead child stays.                              *)
ClearForgets(c) ==
    /\ At(c, "clear")
    /\ Goto(c, "flag")
    /\ UNCHANGED <<world, state, children, loc, bounds, history>>

(* state.proc.take(), whoever's record it is; with no record the child     *)
(* counts as started now, else it may or may not have been up for long.    *)
Clear(c) ==
    /\ At(c, "clear")
    /\ proc' = 0
    /\ orphans' = IF proc \notin {0, c} THEN orphans \cup {proc} ELSE orphans
    /\ \E healthy \in (IF proc = 0 THEN {FALSE} ELSE BOOLEAN) :
          loc' = [loc EXCEPT ![c].healthy = healthy]
    /\ Goto(c, "flag")
    /\ UNCHANGED <<world, attempts, children, bounds, last, budget>>

CheckFlag(c) ==
    /\ At(c, "flag")
    /\ IF c \in flagged THEN Finish(c) ELSE Goto(c, "decide") /\ UNCHANGED loc
    /\ UNCHANGED <<world, state, children, bounds, history>>

Decide(c) ==
    /\ At(c, "decide")
    /\ Goto(c, IF want.on THEN "count" ELSE "disable")
    /\ UNCHANGED <<world, state, children, loc, bounds, history>>

Disable(c) ==
    /\ At(c, "disable")
    /\ attempts' = 0
    /\ budget' = budget + (IF attempts < MaxAttempts THEN attempts ELSE MaxAttempts)
    /\ last' = IF proc = 0 THEN "none" ELSE last
    /\ Finish(c)
    /\ UNCHANGED <<world, proc, children, bounds, orphans>>

(* A child that was up for long starts a new count; past the cap nothing   *)
(* is restarted.                                                           *)
Count(c) ==
    /\ At(c, "count")
    /\ attempts' = (IF loc[c].healthy THEN 0 ELSE attempts) + 1
    /\ budget' = IF loc[c].healthy
                 THEN budget + (IF attempts < MaxAttempts THEN attempts ELSE MaxAttempts)
                 ELSE budget
    /\ IF attempts' > MaxAttempts THEN Finish(c) ELSE Goto(c, "sleep") /\ UNCHANGED loc
    /\ last' = IF attempts' > MaxAttempts /\ proc = 0 THEN "none" ELSE last
    /\ UNCHANGED <<world, proc, children, bounds, orphans>>

Wake(c) ==
    /\ At(c, "sleep")
    /\ Goto(c, "read")
    /\ UNCHANGED <<world, state, children, loc, bounds, history>>

-----------------------------------------------------------------------------
(* The children, for as long as there is a supervisor.                     *)

ChildReads(c) ==
    /\ pc[Main] # "gone"
    /\ c \in unread
    /\ cfg' = [cfg EXCEPT ![c] = file]
    /\ unread' = unread \ {c}
    /\ UNCHANGED <<world, state, spawned, child, flagged, pc, loc, bounds, history>>

Dies(c) ==
    /\ pc[Main] # "gone"
    /\ Up(c)
    /\ child' = [child EXCEPT ![c] = "dead"]
    /\ cfg' = [cfg EXCEPT ![c] = 0]
    /\ unread' = unread \ {c}
    /\ UNCHANGED <<world, state, spawned, flagged, pc, loc, requests, history>>

ChildCrashes(c) == faults < MaxFaults /\ faults' = faults + 1 /\ Dies(c)

(* It may take its time, or not obey at all.                               *)
ChildObeys(c) == c \in flagged /\ Dies(c) /\ UNCHANGED faults

-----------------------------------------------------------------------------
(* Graceful shutdown: the drain of the server is bounded, so requests may  *)
(* still be running; this supervisor is the first to be stopped, then the  *)
(* others are, and the process exits with all its tasks.                   *)

Shutdown ==
    /\ pc[Main] = "serving"
    /\ Goto(Main, "stop")
    /\ loc' = [loc EXCEPT ![Main].then = "others"]
    /\ UNCHANGED <<world, state, children, bounds, history>>

Exit ==
    /\ pc[Main] = "others"
    /\ Goto(Main, "gone")
    /\ UNCHANGED <<world, state, children, loc, bounds, history>>

-----------------------------------------------------------------------------
EnsureStep(t) == ReadRows(t) \/ WriteConfig(t) \/ EnsureFails(t) \/ Reload(t) \/ Spawn(t)

StopStep(t) ==
    StopTake(t) \/ StopSignal(t) \/ StopSeesExit(t) \/ StopKill(t) \/ StopGivesUp(t)

WatchdogStep(c) ==
    Wait(c) \/ Clear(c) \/ CheckFlag(c) \/ Decide(c) \/ Disable(c) \/ Count(c) \/ Wake(c)

ChildStep(c) == ChildReads(c) \/ ChildCrashes(c) \/ ChildObeys(c)

Next ==
    \/ \E h \in Handlers : ChangeRows(h) \/ Restart(h)
    \/ \E t \in Tasks : EnsureStep(t) \/ StopStep(t)
    \/ \E c \in Children : WatchdogStep(c) \/ ChildStep(c)
    \/ Shutdown \/ Exit

(* The runtime runs every task that can run, and its timers fire.  Nothing *)
(* is assumed of the children, of requests or of a shutdown.               *)
Fairness ==
    /\ \A t \in Tasks : WF_vars(EnsureStep(t) \/ StopStep(t))
    /\ \A c \in Children : WF_vars(WatchdogStep(c))

Spec == Init /\ [][Next]_vars
FairSpec == Spec /\ Fairness

-----------------------------------------------------------------------------

(* No task is about to do anything.                                        *)
AtRest ==
    /\ pc[Main] = "serving"
    /\ \A h \in Handlers : pc[h] = "idle"
    /\ \A c \in Children : pc[c] \in {"off", "wait", "ended"} /\ child[c] # "dead"
    /\ unread = {}

(* When all is quiet and the last task to take the mutex wanted a child,   *)
(* there is one: no interleaving of reconciles, stops, crashes and         *)
(* watchdogs loses a wanted child other than by the give-up cap or a       *)
(* reported error (ensure_running_inner, spawn_watchdog).                  *)
LastReconcileWins == AtRest /\ last = "up" => \E c \in Children : Up(c)

(* When all is quiet a live child is the recorded one and runs the file on *)
(* disk, unless another child's watchdog took its record: what             *)
(* stop_if_running took is gone, also when it ignored SIGTERM, and every   *)
(* write is followed by a SIGHUP to whoever is recorded then, or by a      *)
(* spawn, in whatever order the tasks write and take the mutex             *)
(* (ensure_running_inner, stop_if_running).                                *)
LiveChildServesTheFile ==
    AtRest => \A c \in Children : Up(c) => c \in orphans \/ (c = proc /\ cfg[c] = file)

(* A crash loop ends: each administrative start allows one child and       *)
(* MaxAttempts restarts, whatever tasks interleave, and a counter that is  *)
(* cleared renews no more than was used of it (spawn_watchdog,             *)
(* ensure_running_inner's reset_crash).                                    *)
SpawnsAreBudgeted == spawned <= budget

(* Every request comes to an end, also when the child obeys no SIGTERM     *)
(* (stop_if_running's two deadlines).                                      *)
RequestsReturn ==
    \A h \in Handlers : pc[h] # "idle" ~> (pc[h] = "idle" \/ pc[Main] = "gone")

-----------------------------------------------------------------------------
(* What the repository says of the supervisor, and the code does not keep. *)

(* xray/supervisor.rs:342, "Always clear `state.proc` - the process is     *)
(* provably gone": a watchdog clears no record of a live child.            *)
ClearedProcessIsGone ==
    [][\A c \in Children : pc[c] = "clear" /\ pc'[c] = "flag" /\ proc # 0 => ~Up(proc)]_vars
=============================================================================
