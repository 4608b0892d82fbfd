------------------------ MODULE XraySupervisorProofs ------------------------
(* Machine-checked proofs about XraySupervisor: what its run checks for    *)
(* two requests and two faults holds for any number of requests, of     *)
(* crashes and failing spawns, and for every attempt cap.                  *)
EXTENDS XraySupervisor, FiniteSetTheorems, TLAPS

(* Inside stop_if_running, after it has taken the record.                  *)
Stopping == {"signal", "grace", "reap"}

(* A watchdog between the exit of its child and its restart.               *)
WatchdogAt == {"clear", "flag", "decide", "disable", "count", "sleep"}

(* Inside ensure_running_inner.                                            *)
EnsureAt == {"read", "write", "lock"}

(* Where a task may stand.                                                 *)
Labels == {"off", "wait", "ended", "idle", "serving", "others", "gone", "stop"}
          \cup Stopping \cup WatchdogAt \cup EnsureAt

(* What a task holds between its steps.                                    *)
Locals == [ver : Nat, reset : BOOLEAN, pid : 0..MaxChildren, healthy : BOOLEAN, then : Labels]

(* The types of the supervisor's state.                                    *)
XrayTypeOK ==
    /\ want \in [on : BOOLEAN, ver : Nat]
    /\ file \in Nat /\ attempts \in Nat /\ budget \in Nat
    /\ proc \in 0..MaxChildren /\ spawned \in 0..MaxChildren
    /\ child \in [Children -> {"none", "up", "dead", "reaped"}]
    /\ cfg \in [Children -> Nat]
    /\ unread \subseteq Children /\ flagged \subseteq Children /\ orphans \subseteq Children
    /\ pc \in [Tasks -> Labels]
    /\ loc \in [Tasks -> Locals]

(* Where stop_if_running returns to: main's start or shutdown, the         *)
(* watchdog that gave way, a request that only stops or the restart        *)
(* endpoint.                                                               *)
Afterwards(t) ==
    IF t = Main THEN {"serving", "others"} ELSE IF t \in Children THEN {"ended"} ELSE {"idle", "read"}

(* What a task in stop_if_running took is a spawned child; past the signal *)
(* it is flagged. Only a watchdog's restart keeps the crash counter.       *)
TaskInv ==
    /\ \A t \in Tasks : pc[t] \in Stopping => loc[t].pid \in 1..spawned
    /\ \A t \in Tasks : pc[t] \in {"grace", "reap"} => loc[t].pid \in flagged
    /\ \A t \in Tasks : pc[t] \in Stopping \cup {"stop"} => loc[t].then \in Afterwards(t)
    /\ \A t \in Tasks \ Children : loc[t].reset

(* Children are spawned in order; a watchdog waits until its child is gone *)
(* and reaped, and is never at a place of main or of a request.            *)
ChildInv ==
    /\ \A c \in Children : c > spawned => child[c] = "none" /\ pc[c] = "off"
    /\ \A c \in Children : pc[c] = "off" => c > spawned
    /\ \A c \in Children : pc[c] = "wait" => child[c] \in {"up", "dead"}
    /\ \A c \in Children : pc[c] \notin {"off", "wait"} => child[c] = "reaped"
    /\ \A c \in Children : pc[c] \notin {"idle", "serving", "others", "gone"}
    /\ \A c \in flagged : c <= spawned

(* No stop has taken the child: it is neither flagged nor about to be.     *)
Untaken(c) == c \notin flagged /\ \A t \in Tasks : pc[t] = "signal" => loc[t].pid # c

(* STATE.proc is a spawned child no stop has taken, whose watchdog has not *)
(* cleared the record yet.                                                 *)
RecordInv == proc # 0 => proc <= spawned /\ Untaken(proc) /\ pc[proc] \in {"wait", "clear"}

(* A child that is up, or whose watchdog is still to bring up its          *)
(* successor or to find that it is not wanted.                             *)
OnItsWay(c) == Untaken(c) /\ pc[c] \in {"wait", "stop"} \cup WatchdogAt \cup EnsureAt

(* While the last decision was to run, some child is on its way: this is   *)
(* what no interleaving of reconciles, stops and watchdogs loses.          *)
WantedInv == last = "up" => \E c \in Children : OnItsWay(c)

(* A stop is about to signal or to kill the child.                         *)
Doomed(c) == \E t \in Tasks : pc[t] \in {"signal", "grace"} /\ loc[t].pid = c

(* A live child is recorded, about to be killed, or was forgotten by       *)
(* another child's watchdog.                                               *)
LiveInv == \A c \in Children : Up(c) => c \in orphans \/ c = proc \/ Doomed(c)

(* A recorded child with an old configuration has a SIGHUP under way, or   *)
(* the task that wrote the file is about to take the mutex.                *)
ServedInv ==
    proc # 0 /\ Up(proc) /\ cfg[proc] # file => proc \in unread \/ \E t \in Tasks : pc[t] = "lock"

(* Watchdogs that have counted their attempt and not spawned yet.          *)
Pending == {c \in Children : pc[c] \in {"sleep"} \cup EnsureAt}

(* How much of the attempt cap is used; past the cap, all of it.           *)
Used == IF attempts < MaxAttempts THEN attempts ELSE MaxAttempts

(* Children spawned, attempts left and restarts under way are covered by   *)
(* the budget: a restart moves one unit from the attempts to the pending   *)
(* and then to the spawned, and a reset of the counter buys back what was  *)
(* used.                                                                   *)
SpendInv == spawned + (MaxAttempts - Used) + Cardinality(Pending) <= budget

(* Main, the requests and the watchdogs are different tasks.               *)
LEMMA TaskSets ==
    /\ 0 \notin Children /\ Main \notin Children /\ Children \subseteq Tasks /\ Handlers \subseteq Tasks /\ Main \in Tasks
    /\ \A h \in Handlers : h \notin Children /\ h # 0
    /\ \A c \in Children : c \in 1..MaxChildren /\ c \in 0..MaxChildren
  BY XrayConstants, XrayTasks DEF Children, Tasks, Main

(* The updates the actions make to what a task holds keep its type.        *)
LEMMA LocalUpdates ==
    ASSUME NEW f \in [Tasks -> Locals], NEW t \in Tasks
    PROVE  /\ [f EXCEPT ![t] = NoLocal] \in [Tasks -> Locals]
           /\ \A v \in Nat, l \in Labels : [f EXCEPT ![t].ver = v, ![t].then = l] \in [Tasks -> Locals]
           /\ [f EXCEPT ![t].ver = 0] \in [Tasks -> Locals]
           /\ [f EXCEPT ![t].reset = FALSE] \in [Tasks -> Locals]
           /\ \A p \in 0..MaxChildren : [f EXCEPT ![t].pid = p] \in [Tasks -> Locals]
<1>1. NoLocal \in Locals
  BY XrayConstants DEF NoLocal, Locals, Labels
<1> QED
  BY <1>1 DEF NoLocal, Locals

(* Every step keeps the types.                                             *)
LEMMA XrayTypeStep ==
    ASSUME XrayTypeOK, TaskInv, [Next]_vars
    PROVE  XrayTypeOK'
<1>a. 0 \in 0..MaxChildren /\ MaxAttempts \in Nat
      /\ \A c \in 1..MaxChildren : c \in Children /\ c \in Tasks /\ c \in 0..MaxChildren
  BY XrayConstants, TaskSets DEF Children, Tasks
<1>b. \A t \in Tasks : Home(t) \in Labels
  BY DEF Home, Labels
<1>c. 0 \in Nat /\ TRUE \in BOOLEAN /\ FALSE \in BOOLEAN /\ "idle" \in Labels
  BY DEF Labels
<1> USE DEF XrayTypeOK, Locals, Labels, Stopping, WatchdogAt, EnsureAt, NoLocal, world, state, children,
       bounds, history, At
<1>1. ASSUME NEW h \in Handlers, ChangeRows(h) PROVE XrayTypeOK'
  BY <1>1, <1>a, TaskSets DEF ChangeRows, Accept, Goto
<1>2. ASSUME NEW h \in Handlers, Restart(h) PROVE XrayTypeOK'
  BY <1>2, <1>a, TaskSets DEF Restart, Accept, Goto
<1>3. ASSUME NEW t \in Tasks, ReadRows(t) PROVE XrayTypeOK'
  <2>1. loc' \in [Tasks -> Locals]
    <3>1. PICK v \in Nat : loc' = [loc EXCEPT ![t].ver = v, ![t].then = Home(t)]
      BY <1>3 DEF ReadRows
    <3> HIDE DEF Locals, Labels
    <3> QED BY <3>1, <1>b, <1>a, LocalUpdates
  <2>2. pc' \in [Tasks -> Labels]
    BY <1>3 DEF ReadRows, Goto
  <2> QED BY <1>3, <2>1, <2>2 DEF ReadRows
<1>4. ASSUME NEW t \in Tasks, WriteConfig(t) PROVE XrayTypeOK'
  <2>1. loc' \in [Tasks -> Locals]
    <3> HIDE DEF Locals, Labels
    <3> QED BY <1>4, LocalUpdates DEF WriteConfig
  <2>2. pc' \in [Tasks -> Labels] /\ file' \in Nat
    BY <1>4 DEF WriteConfig, Goto
  <2> QED BY <1>4, <2>1, <2>2 DEF WriteConfig
<1>5. ASSUME NEW t \in Tasks, EnsureFails(t) PROVE XrayTypeOK'
  BY <1>5, <1>a, TaskSets DEF EnsureFails, Finish, Goto, Home
<1>6. ASSUME NEW t \in Tasks, Reload(t) PROVE XrayTypeOK'
  BY <1>6, <1>a, TaskSets DEF Reload, Finish, Goto, Home
<1>7. ASSUME NEW t \in Tasks, Spawn(t) PROVE XrayTypeOK'
  <2>0. spawned + 1 \in Children /\ spawned + 1 \in Tasks /\ spawned + 1 \in 0..MaxChildren
    BY <1>7, <1>a, XrayConstants DEF Spawn, Started, Children
  <2>1. pc' \in [Tasks -> Labels]
    BY <1>7, <1>b, <2>0 DEF Spawn, Watched
  <2>2. loc' \in [Tasks -> Locals]
    <3> DEFINE f == [loc EXCEPT ![t] = NoLocal]
    <3>1. loc' = [f EXCEPT ![spawned + 1].reset = FALSE]
      BY <1>7 DEF Spawn, Watched
    <3>2. f \in [Tasks -> Locals]
      <4> HIDE DEF Locals, NoLocal, Labels
      <4> QED BY <1>a, <1>c, LocalUpdates
    <3> HIDE DEF f, Locals
    <3> QED BY <3>1, <3>2, <2>0, <1>a, <1>c, LocalUpdates
  <2>3. spawned' \in 0..MaxChildren /\ proc' \in 0..MaxChildren
        /\ child' \in [Children -> {"none", "up", "dead", "reaped"}] /\ unread' \subseteq Children
    BY <1>7, <2>0 DEF Spawn, Started
  <2>4. attempts' \in Nat /\ budget' \in Nat
    BY <1>7, <1>a DEF Spawn, Allowed
  <2> QED BY <1>7, <2>1, <2>2, <2>3, <2>4 DEF Spawn, Started
<1>8. ASSUME NEW t \in Tasks, StopTake(t) PROVE XrayTypeOK'
  <2>1. loc' \in [Tasks -> Locals]
    <3>1. loc' = [loc EXCEPT ![t] = NoLocal] \/ loc' = [loc EXCEPT ![t].pid = proc]
      BY <1>8 DEF StopTake, StopReturn
    <3> HIDE DEF Locals, NoLocal, Labels
    <3>2. [loc EXCEPT ![t] = NoLocal] \in [Tasks -> Locals]
      BY LocalUpdates
    <3>3. [loc EXCEPT ![t].pid = proc] \in [Tasks -> Locals]
      BY LocalUpdates
    <3> QED BY <3>1, <3>2, <3>3
  <2>2. pc' \in [Tasks -> Labels]
    BY <1>8 DEF StopTake, StopReturn, Goto
  <2> QED BY <1>8, <2>1, <2>2, <1>a DEF StopTake
<1>9. ASSUME NEW t \in Tasks, StopSignal(t) PROVE XrayTypeOK'
  <2>1. loc[t].pid \in Children
    BY <1>9 DEF StopSignal, TaskInv, Children
  <2> QED BY <1>9, <2>1 DEF StopSignal, Goto
<1>10. ASSUME NEW t \in Tasks, StopSeesExit(t) PROVE XrayTypeOK'
  BY <1>10, <1>a, TaskSets DEF StopSeesExit, StopReturn, Goto
<1>11. ASSUME NEW t \in Tasks, StopKill(t) PROVE XrayTypeOK'
  BY <1>11, <1>a, TaskSets DEF StopKill, Goto
<1>12. ASSUME NEW t \in Tasks, StopGivesUp(t) PROVE XrayTypeOK'
  BY <1>12, <1>a, TaskSets DEF StopGivesUp, StopReturn, Goto
<1>13. ASSUME NEW c \in Children, Wait(c) PROVE XrayTypeOK'
  BY <1>13, <1>a, TaskSets DEF Wait, Goto
<1>14. ASSUME NEW c \in Children, Clear(c) PROVE XrayTypeOK'
  <2>1. loc' \in [Tasks -> Locals]
    <3>1. PICK healthy \in BOOLEAN : loc' = [loc EXCEPT ![c].healthy = healthy]
      BY <1>14 DEF Clear
    <3> QED BY <3>1, TaskSets
  <2>2. pc' \in [Tasks -> Labels] /\ proc' \in 0..MaxChildren
    BY <1>14, <1>a DEF Clear, Goto
  <2>3. orphans' \subseteq Children
    BY <1>14, TaskSets DEF Clear, Children
  <2> QED BY <1>14, <2>1, <2>2, <2>3 DEF Clear
<1>15. ASSUME NEW c \in Children, CheckFlag(c) PROVE XrayTypeOK'
  <2>1. loc' \in [Tasks -> Locals]
    <3>1. loc' = [loc EXCEPT ![c] = NoLocal] \/ loc' = loc
      BY <1>15 DEF CheckFlag, Finish
    <3> HIDE DEF Locals, NoLocal, Labels
    <3>2. [loc EXCEPT ![c] = NoLocal] \in [Tasks -> Locals]
      BY LocalUpdates, TaskSets
    <3> QED BY <3>1, <3>2
  <2>2. pc' \in [Tasks -> Labels]
    BY <1>15, <1>b, TaskSets DEF CheckFlag, Finish, Goto
  <2> QED BY <1>15, <2>1, <2>2 DEF CheckFlag
<1>16. ASSUME NEW c \in Children, Decide(c) PROVE XrayTypeOK'
  BY <1>16, <1>a, TaskSets DEF Decide, Goto
<1>17. ASSUME NEW c \in Children, Disable(c) PROVE XrayTypeOK'
  BY <1>17, <1>a, TaskSets DEF Disable, Goto, Finish, Home
<1>18. ASSUME NEW c \in Children, Count(c) PROVE XrayTypeOK'
  <2>1. loc' \in [Tasks -> Locals]
    <3>1. loc' = [loc EXCEPT ![c] = NoLocal] \/ loc' = loc
      BY <1>18 DEF Count, Finish
    <3> HIDE DEF Locals, NoLocal, Labels
    <3>2. [loc EXCEPT ![c] = NoLocal] \in [Tasks -> Locals]
      BY LocalUpdates, TaskSets
    <3> QED BY <3>1, <3>2
  <2>2. pc' \in [Tasks -> Labels]
    BY <1>18, <1>b, TaskSets DEF Count, Finish, Goto
  <2>3. attempts' \in Nat /\ budget' \in Nat
    BY <1>18, <1>a DEF Count
  <2> QED BY <1>18, <2>1, <2>2, <2>3 DEF Count
<1>19. ASSUME NEW c \in Children, Wake(c) PROVE XrayTypeOK'
  BY <1>19, <1>a, TaskSets DEF Wake, Goto
<1>20. ASSUME NEW c \in Children, ChildReads(c) PROVE XrayTypeOK'
  BY <1>20, <1>a, TaskSets DEF ChildReads
<1>21. ASSUME NEW c \in Children, ChildCrashes(c) PROVE XrayTypeOK'
  BY <1>21, <1>a, TaskSets DEF ChildCrashes, Dies
<1>22. ASSUME NEW c \in Children, ChildObeys(c) PROVE XrayTypeOK'
  BY <1>22, <1>a, TaskSets DEF ChildObeys, Dies
<1>23. CASE Shutdown
  BY <1>23, <1>a, TaskSets DEF Shutdown, Goto
<1>24. CASE Exit
  BY <1>24, <1>a, TaskSets DEF Exit, Goto
<1>25. CASE UNCHANGED vars
  BY <1>25, <1>a, TaskSets DEF vars
<1> QED
  BY <1>1, <1>2, <1>3, <1>4, <1>5, <1>6, <1>7, <1>8, <1>9, <1>10, <1>11, <1>12, <1>13, <1>14, <1>15, <1>16,
         <1>17, <1>18, <1>19, <1>20, <1>21, <1>22, <1>23, <1>24, <1>25
     DEF Next, EnsureStep, StopStep, WatchdogStep, ChildStep

(* A recorded child is a child whose watchdog stands at wait or clear.     *)
LEMMA RecordedChild ==
    ASSUME XrayTypeOK, RecordInv, proc # 0
    PROVE  proc \in Children /\ proc \in Tasks /\ pc[proc] \in {"wait", "clear"}
  BY XrayConstants, TaskSets DEF XrayTypeOK, RecordInv, Children

(* stop_if_running never returns into itself.                              *)
LEMMA AfterStop ==
    ASSUME TaskInv, NEW t \in Tasks, pc[t] \in Stopping \cup {"stop"}
    PROVE  loc[t].then \notin Stopping \cup {"stop"} /\ (t \in Children => loc[t].then = "ended")
  BY TaskSets DEF TaskInv, Afterwards, Stopping

(* Where a finished reconcile leaves each kind of task.                    *)
LEMMA HomeOf ==
    /\ \A c \in Children : Home(c) = "ended"
    /\ \A t \in Tasks : t \notin Children => Home(t) \in {"serving", "idle"}
  BY TaskSets DEF Home, Main

(* Finish moves one task home and touches no other.                        *)
LEMMA FinishMoves ==
    ASSUME XrayTypeOK, NEW t \in Tasks, Finish(t)
    PROVE  /\ pc'[t] = Home(t) /\ loc'[t] = NoLocal
           /\ \A u \in Tasks : u # t => pc'[u] = pc[u] /\ loc'[u] = loc[u]
  BY DEF Finish, Goto, XrayTypeOK

(* A stop that returns moves its task alone.                               *)
LEMMA StopReturnMoves ==
    ASSUME XrayTypeOK, NEW t \in Tasks, StopReturn(t)
    PROVE  /\ pc'[t] = loc[t].then /\ loc'[t] = NoLocal
           /\ \A u \in Tasks : u # t => pc'[u] = pc[u] /\ loc'[u] = loc[u]
  BY DEF StopReturn, Goto, XrayTypeOK

(* What a spawn does: the next child in order comes up, is recorded and    *)
(* watched, and the spawner goes home.                                     *)
LEMMA SpawnMoves ==
    ASSUME XrayTypeOK, ChildInv, NEW t \in Tasks, Spawn(t)
    PROVE  LET n == spawned + 1 IN
           /\ n \in Children /\ n \in Tasks /\ n # t /\ spawned' = n /\ proc = 0 /\ proc' = n
           /\ pc[n] = "off" /\ pc'[n] = "wait" /\ child'[n] = "up" /\ last' = "up"
           /\ pc[t] = "lock" /\ pc'[t] = Home(t) /\ loc'[t] = NoLocal
           /\ loc'[n].reset = FALSE /\ loc'[n].pid = loc[n].pid /\ loc'[n].then = loc[n].then
           /\ unread' = unread \cup {n}
           /\ \A c \in Children : c # n => child'[c] = child[c]
           /\ \A u \in Tasks : u \notin {t, n} => pc'[u] = pc[u] /\ loc'[u] = loc[u]
           /\ UNCHANGED <<want, file, cfg, flagged, orphans>>
<1> DEFINE n == spawned + 1
<1>1. n \in Children /\ n \in Tasks /\ n > spawned
  BY XrayConstants, TaskSets DEF Spawn, Started, XrayTypeOK, Children
<1>2. spawned' = n /\ proc = 0 /\ proc' = n /\ last' = "up" /\ unread' = unread \cup {n}
  BY DEF Spawn, Started
<1>3. child' = [child EXCEPT ![n] = "up"] /\ UNCHANGED <<want, file, cfg, flagged, orphans>>
  BY <1>2 DEF Spawn, Started, world
<1>4. pc[n] = "off"
  BY <1>1 DEF ChildInv
<1>5. pc[t] = "lock" /\ n # t
  BY <1>4 DEF Spawn, Started, At
<1>6. pc' = [pc EXCEPT ![t] = Home(t), ![n] = "wait"]
      /\ loc' = [loc EXCEPT ![t] = NoLocal, ![n].reset = FALSE]
  BY DEF Spawn, Watched
<1> HIDE DEF n
<1>7. /\ pc'[n] = "wait" /\ pc'[t] = Home(t)
      /\ \A u \in Tasks : u \notin {t, n} => pc'[u] = pc[u]
  BY <1>1, <1>5, <1>6 DEF XrayTypeOK
<1>8. /\ loc'[t] = NoLocal /\ loc'[n] = [loc[n] EXCEPT !.reset = FALSE]
      /\ \A u \in Tasks : u \notin {t, n} => loc'[u] = loc[u]
  BY <1>1, <1>5, <1>6 DEF XrayTypeOK
<1>9. loc'[n].reset = FALSE /\ loc'[n].pid = loc[n].pid /\ loc'[n].then = loc[n].then
  BY <1>1, <1>8 DEF XrayTypeOK, Locals
<1>10. child'[n] = "up" /\ \A c \in Children : c # n => child'[c] = child[c]
  BY <1>1, <1>3 DEF XrayTypeOK
<1> QED
  BY <1>1, <1>2, <1>3, <1>4, <1>5, <1>7, <1>8, <1>9, <1>10 DEF n

(* Every step keeps TaskInv.                                               *)
LEMMA TaskStep ==
    ASSUME XrayTypeOK, TaskInv, ChildInv, RecordInv, [Next]_vars
    PROVE  TaskInv'
<1> USE DEF XrayTypeOK, Locals, TaskInv, RecordInv, Labels, Stopping, WatchdogAt, EnsureAt, NoLocal, world,
       state, children, bounds, history, At, Afterwards
<1>1. ASSUME NEW h \in Handlers, ChangeRows(h) PROVE TaskInv'
  BY <1>1, TaskSets DEF ChangeRows, Accept, Goto
<1>2. ASSUME NEW h \in Handlers, Restart(h) PROVE TaskInv'
  BY <1>2, TaskSets DEF Restart, Accept, Goto
<1>3. ASSUME NEW t \in Tasks, ReadRows(t) PROVE TaskInv'
  BY <1>3, TaskSets DEF ReadRows, Goto, Home
<1>4. ASSUME NEW t \in Tasks, WriteConfig(t) PROVE TaskInv'
  BY <1>4, TaskSets DEF WriteConfig, Goto
<1>5. ASSUME NEW t \in Tasks, EnsureFails(t) PROVE TaskInv'
  BY <1>5, TaskSets DEF EnsureFails, Finish, Goto, Home
<1>6. ASSUME NEW t \in Tasks, Reload(t) PROVE TaskInv'
  BY <1>6, TaskSets DEF Reload, Finish, Goto, Home
<1>7. ASSUME NEW t \in Tasks, Spawn(t) PROVE TaskInv'
  <2> HIDE DEF Locals, NoLocal, world, state, children, bounds, history, At
  <2> DEFINE n == spawned + 1
  <2>1. /\ n \in Children /\ n \in Tasks /\ n # t /\ spawned' = n /\ proc = 0 /\ proc' = n
        /\ pc[n] = "off" /\ pc'[n] = "wait" /\ child'[n] = "up" /\ last' = "up"
        /\ pc[t] = "lock" /\ pc'[t] = Home(t) /\ loc'[t] = NoLocal
        /\ loc'[n].reset = FALSE /\ loc'[n].pid = loc[n].pid /\ loc'[n].then = loc[n].then
        /\ unread' = unread \cup {n}
        /\ \A c \in Children : c # n => child'[c] = child[c]
        /\ \A u \in Tasks : u \notin {t, n} => pc'[u] = pc[u] /\ loc'[u] = loc[u]
        /\ UNCHANGED <<want, file, cfg, flagged, orphans>>
    BY <1>7, SpawnMoves
  <2>2. n > spawned /\ n - 1 = spawned /\ spawned \in Int
    OBVIOUS
  <2>3. NoLocal.reset = TRUE
    BY DEF NoLocal
  <2> HIDE DEF n
  <2> QED BY <2>1, <2>2, <2>3, HomeOf, TaskSets
<1>8. ASSUME NEW t \in Tasks, StopTake(t) PROVE TaskInv'
  <2>1. /\ pc[t] = "stop" /\ proc' = 0 /\ last' = "down"
        /\ UNCHANGED <<file, spawned, child, cfg, flagged, orphans>>
        /\ \/ StopReturn(t)
           \/ proc # 0 /\ pc' = [pc EXCEPT ![t] = "signal"] /\ loc' = [loc EXCEPT ![t].pid = proc]
    BY <1>8 DEF StopTake, Goto
  <2>2. CASE StopReturn(t)
    BY <2>1, <2>2, StopReturnMoves, TaskSets, SMTT(30)
  <2>3. CASE proc # 0 /\ pc' = [pc EXCEPT ![t] = "signal"] /\ loc' = [loc EXCEPT ![t].pid = proc]
    <3>1. pc'[t] = "signal" /\ loc'[t].pid = proc /\ loc'[t].then = loc[t].then
          /\ loc'[t].reset = loc[t].reset
      BY <2>3
    <3>2. \A u \in Tasks : u # t => pc'[u] = pc[u] /\ loc'[u] = loc[u]
      BY <2>3
    <3>3. proc \in 1..spawned
      BY <2>3
    <3> QED BY <2>1, <3>1, <3>2, <3>3, SMTT(30)
  <2> QED BY <2>1, <2>2, <2>3
<1>9. ASSUME NEW t \in Tasks, StopSignal(t) PROVE TaskInv'
  BY <1>9, TaskSets DEF StopSignal, Goto
<1>10. ASSUME NEW t \in Tasks, StopSeesExit(t) PROVE TaskInv'
  <2>1. StopReturn(t) /\ pc[t] \in Stopping
        /\ UNCHANGED <<file, proc, spawned, child, cfg, unread, flagged, orphans, last>>
    BY <1>10 DEF StopSeesExit
  <2>2. /\ pc'[t] = loc[t].then /\ loc'[t] = NoLocal
        /\ \A u \in Tasks : u # t => pc'[u] = pc[u] /\ loc'[u] = loc[u]
    BY <2>1, StopReturnMoves
  <2>3. pc'[t] \notin Stopping \cup {"stop"} /\ (t \in Children => pc'[t] = "ended") /\ NoLocal.reset
    <3>1. NoLocal.reset
      OBVIOUS
    <3> HIDE DEF TaskInv, Afterwards, NoLocal, Locals, XrayTypeOK
    <3> QED BY <2>1, <2>2, <3>1, AfterStop
  <2> HIDE DEF world, state, children, bounds, history, At, NoLocal, Locals
  <2> QED BY <2>1, <2>2, <2>3, TaskSets
<1>11. ASSUME NEW t \in Tasks, StopKill(t) PROVE TaskInv'
  BY <1>11, TaskSets DEF StopKill, Goto
<1>12. ASSUME NEW t \in Tasks, StopGivesUp(t) PROVE TaskInv'
  <2>1. StopReturn(t) /\ pc[t] \in Stopping
        /\ UNCHANGED <<file, proc, spawned, child, cfg, unread, flagged, orphans, last>>
    BY <1>12 DEF StopGivesUp
  <2>2. /\ pc'[t] = loc[t].then /\ loc'[t] = NoLocal
        /\ \A u \in Tasks : u # t => pc'[u] = pc[u] /\ loc'[u] = loc[u]
    BY <2>1, StopReturnMoves
  <2>3. pc'[t] \notin Stopping \cup {"stop"} /\ (t \in Children => pc'[t] = "ended") /\ NoLocal.reset
    <3>1. NoLocal.reset
      OBVIOUS
    <3> HIDE DEF TaskInv, Afterwards, NoLocal, Locals, XrayTypeOK
    <3> QED BY <2>1, <2>2, <3>1, AfterStop
  <2> HIDE DEF world, state, children, bounds, history, At, NoLocal, Locals
  <2> QED BY <2>1, <2>2, <2>3, TaskSets
<1>13. ASSUME NEW c \in Children, Wait(c) PROVE TaskInv'
  BY <1>13, TaskSets DEF Wait, Goto
<1>14. ASSUME NEW c \in Children, Clear(c) PROVE TaskInv'
  BY <1>14, TaskSets DEF Clear, Goto
<1>15. ASSUME NEW c \in Children, CheckFlag(c) PROVE TaskInv'
  <2>1. pc[c] = "flag" /\ UNCHANGED <<file, proc, spawned, child, cfg, unread, flagged, orphans, last>>
    BY <1>15 DEF CheckFlag
  <2>2. CASE Finish(c) /\ c \in flagged
    <3>1. /\ pc'[c] = "ended" /\ loc'[c] = NoLocal
          /\ \A u \in Tasks : u # c => pc'[u] = pc[u] /\ loc'[u] = loc[u]
      BY <2>2, FinishMoves, HomeOf, TaskSets
    <3> HIDE DEF world, state, children, bounds, history, At, NoLocal, Locals
    <3> QED BY <2>1, <3>1
  <2>3. CASE pc' = [pc EXCEPT ![c] = "decide"] /\ loc' = loc /\ c \notin flagged
    BY <2>1, <2>3, TaskSets
  <2> QED BY <1>15, <2>2, <2>3 DEF CheckFlag, Goto
<1>16. ASSUME NEW c \in Children, Decide(c) PROVE TaskInv'
  BY <1>16, TaskSets DEF Decide, Goto
<1>17. ASSUME NEW c \in Children, Disable(c) PROVE TaskInv'
  BY <1>17, TaskSets DEF Disable, Goto, Finish, Home
<1>18. ASSUME NEW c \in Children, Count(c) PROVE TaskInv'
  BY <1>18, TaskSets, SMTT(30) DEF Count, Goto, Finish, Home
<1>19. ASSUME NEW c \in Children, Wake(c) PROVE TaskInv'
  BY <1>19, TaskSets DEF Wake, Goto
<1>20. ASSUME NEW c \in Children, ChildReads(c) PROVE TaskInv'
  BY <1>20, TaskSets DEF ChildReads
<1>21. ASSUME NEW c \in Children, ChildCrashes(c) PROVE TaskInv'
  BY <1>21, TaskSets DEF ChildCrashes, Dies
<1>22. ASSUME NEW c \in Children, ChildObeys(c) PROVE TaskInv'
  BY <1>22, TaskSets DEF ChildObeys, Dies
<1>23. CASE Shutdown
  BY <1>23, TaskSets DEF Shutdown, Goto
<1>24. CASE Exit
  BY <1>24, TaskSets DEF Exit, Goto
<1>25. CASE UNCHANGED vars
  BY <1>25, TaskSets DEF vars
<1> QED
  BY <1>1, <1>2, <1>3, <1>4, <1>5, <1>6, <1>7, <1>8, <1>9, <1>10, <1>11, <1>12, <1>13, <1>14, <1>15, <1>16,
         <1>17, <1>18, <1>19, <1>20, <1>21, <1>22, <1>23, <1>24, <1>25
     DEF Next, EnsureStep, StopStep, WatchdogStep, ChildStep

(* Every step keeps ChildInv.                                              *)
LEMMA ChildStepKeeps ==
    ASSUME XrayTypeOK, TaskInv, ChildInv, [Next]_vars
    PROVE  ChildInv'
<1> USE DEF XrayTypeOK, Locals, ChildInv, TaskInv, Labels, Stopping, WatchdogAt, EnsureAt, NoLocal, world,
       state, children, bounds, history, At, Afterwards, Up
<1>1. ASSUME NEW h \in Handlers, ChangeRows(h) PROVE ChildInv'
  BY <1>1, TaskSets DEF ChangeRows, Accept, Goto
<1>2. ASSUME NEW h \in Handlers, Restart(h) PROVE ChildInv'
  BY <1>2, TaskSets DEF Restart, Accept, Goto
<1>3. ASSUME NEW t \in Tasks, ReadRows(t) PROVE ChildInv'
  BY <1>3, TaskSets DEF ReadRows, Goto, Home
<1>4. ASSUME NEW t \in Tasks, WriteConfig(t) PROVE ChildInv'
  BY <1>4, TaskSets DEF WriteConfig, Goto
<1>5. ASSUME NEW t \in Tasks, EnsureFails(t) PROVE ChildInv'
  <2>1. /\ Finish(t) /\ pc[t] \in {"write", "lock"}
        /\ UNCHANGED <<file, proc, spawned, child, cfg, flagged, orphans>>
        /\ last' = (IF proc = 0 THEN "none" ELSE last)
    BY <1>5 DEF EnsureFails
  <2> QED BY <2>1, FinishMoves, HomeOf, TaskSets
<1>6. ASSUME NEW t \in Tasks, Reload(t) PROVE ChildInv'
  <2>1. /\ Finish(t) /\ pc[t] = "lock" /\ proc # 0
        /\ UNCHANGED <<file, proc, spawned, child, cfg, flagged, orphans>>
    BY <1>6 DEF Reload
  <2> QED BY <2>1, FinishMoves, HomeOf, TaskSets, SMTT(30)
<1>7. ASSUME NEW t \in Tasks, Spawn(t) PROVE ChildInv'
  <2> HIDE DEF Locals, NoLocal, world, state, children, bounds, history, At
  <2> DEFINE n == spawned + 1
  <2>1. /\ n \in Children /\ n \in Tasks /\ n # t /\ spawned' = n /\ proc = 0 /\ proc' = n
        /\ pc[n] = "off" /\ pc'[n] = "wait" /\ child'[n] = "up" /\ last' = "up"
        /\ pc[t] = "lock" /\ pc'[t] = Home(t) /\ loc'[t] = NoLocal
        /\ loc'[n].reset = FALSE /\ loc'[n].pid = loc[n].pid /\ loc'[n].then = loc[n].then
        /\ unread' = unread \cup {n}
        /\ \A c \in Children : c # n => child'[c] = child[c]
        /\ \A u \in Tasks : u \notin {t, n} => pc'[u] = pc[u] /\ loc'[u] = loc[u]
        /\ UNCHANGED <<want, file, cfg, flagged, orphans>>
    BY <1>7, SpawnMoves
  <2>2. n > spawned /\ n - 1 = spawned /\ spawned \in Int
    OBVIOUS
  <2>3. NoLocal.reset = TRUE
    BY DEF NoLocal
  <2> HIDE DEF n
  <2> QED BY <2>1, <2>2, <2>3, HomeOf, TaskSets
<1>8. ASSUME NEW t \in Tasks, StopTake(t) PROVE ChildInv'
  <2>1. /\ pc[t] = "stop" /\ proc' = 0 /\ last' = "down"
        /\ UNCHANGED <<file, spawned, child, cfg, flagged, orphans>>
        /\ \/ StopReturn(t)
           \/ proc # 0 /\ pc' = [pc EXCEPT ![t] = "signal"] /\ loc' = [loc EXCEPT ![t].pid = proc]
    BY <1>8 DEF StopTake, Goto
  <2>2. CASE StopReturn(t)
    <3>1. /\ pc'[t] = loc[t].then /\ loc'[t] = NoLocal
          /\ \A u \in Tasks : u # t => pc'[u] = pc[u] /\ loc'[u] = loc[u]
      BY <2>2, StopReturnMoves
    <3>2. t \in Children => pc'[t] = "ended"
      <4> HIDE DEF TaskInv, Afterwards, Locals, XrayTypeOK
      <4> QED BY <2>1, <3>1, AfterStop
    <3> HIDE DEF world, state, children, bounds, history, At, NoLocal, Locals
    <3> QED BY <2>1, <3>1, <3>2, TaskSets
  <2>3. CASE proc # 0 /\ pc' = [pc EXCEPT ![t] = "signal"] /\ loc' = [loc EXCEPT ![t].pid = proc]
    <3>1. pc'[t] = "signal" /\ loc'[t].pid = proc /\ loc'[t].then = loc[t].then
          /\ loc'[t].reset = loc[t].reset
      BY <2>3
    <3>2. \A u \in Tasks : u # t => pc'[u] = pc[u] /\ loc'[u] = loc[u]
      BY <2>3
    <3> HIDE DEF world, state, children, bounds, history, At, NoLocal, Locals
    <3> QED BY <2>1, <3>1, <3>2, TaskSets
  <2> QED BY <2>1, <2>2, <2>3
<1>9. ASSUME NEW t \in Tasks, StopSignal(t) PROVE ChildInv'
  BY <1>9, TaskSets DEF StopSignal, Goto
<1>10. ASSUME NEW t \in Tasks, StopSeesExit(t) PROVE ChildInv'
  <2>1. StopReturn(t) /\ pc[t] \in Stopping
        /\ UNCHANGED <<file, proc, spawned, child, cfg, unread, flagged, orphans, last>>
    BY <1>10 DEF StopSeesExit
  <2>2. /\ pc'[t] = loc[t].then /\ loc'[t] = NoLocal
        /\ \A u \in Tasks : u # t => pc'[u] = pc[u] /\ loc'[u] = loc[u]
    BY <2>1, StopReturnMoves
  <2>3. pc'[t] \notin Stopping \cup {"stop"} /\ (t \in Children => pc'[t] = "ended") /\ NoLocal.reset
    <3>1. NoLocal.reset
      OBVIOUS
    <3> HIDE DEF TaskInv, Afterwards, NoLocal, Locals, XrayTypeOK
    <3> QED BY <2>1, <2>2, <3>1, AfterStop
  <2> HIDE DEF world, state, children, bounds, history, At, NoLocal, Locals
  <2> QED BY <2>1, <2>2, <2>3, TaskSets
<1>11. ASSUME NEW t \in Tasks, StopKill(t) PROVE ChildInv'
  BY <1>11, TaskSets DEF StopKill, Goto
<1>12. ASSUME NEW t \in Tasks, StopGivesUp(t) PROVE ChildInv'
  <2>1. StopReturn(t) /\ pc[t] \in Stopping
        /\ UNCHANGED <<file, proc, spawned, child, cfg, unread, flagged, orphans, last>>
    BY <1>12 DEF StopGivesUp
  <2>2. /\ pc'[t] = loc[t].then /\ loc'[t] = NoLocal
        /\ \A u \in Tasks : u # t => pc'[u] = pc[u] /\ loc'[u] = loc[u]
    BY <2>1, StopReturnMoves
  <2>3. pc'[t] \notin Stopping \cup {"stop"} /\ (t \in Children => pc'[t] = "ended") /\ NoLocal.reset
    <3>1. NoLocal.reset
      OBVIOUS
    <3> HIDE DEF TaskInv, Afterwards, NoLocal, Locals, XrayTypeOK
    <3> QED BY <2>1, <2>2, <3>1, AfterStop
  <2> HIDE DEF world, state, children, bounds, history, At, NoLocal, Locals
  <2> QED BY <2>1, <2>2, <2>3, TaskSets
<1>13. ASSUME NEW c \in Children, Wait(c) PROVE ChildInv'
  BY <1>13, TaskSets DEF Wait, Goto
<1>14. ASSUME NEW c \in Children, Clear(c) PROVE ChildInv'
  BY <1>14, TaskSets DEF Clear, Goto
<1>15. ASSUME NEW c \in Children, CheckFlag(c) PROVE ChildInv'
  <2>1. pc[c] = "flag" /\ UNCHANGED <<file, proc, spawned, child, cfg, unread, flagged, orphans, last>>
    BY <1>15 DEF CheckFlag
  <2>2. CASE Finish(c) /\ c \in flagged
    BY <2>1, <2>2, FinishMoves, HomeOf, TaskSets
  <2>3. CASE pc' = [pc EXCEPT ![c] = "decide"] /\ loc' = loc /\ c \notin flagged
    BY <2>1, <2>3, TaskSets
  <2> QED BY <1>15, <2>2, <2>3 DEF CheckFlag, Goto
<1>16. ASSUME NEW c \in Children, Decide(c) PROVE ChildInv'
  BY <1>16, TaskSets DEF Decide, Goto
<1>17. ASSUME NEW c \in Children, Disable(c) PROVE ChildInv'
  <2>1. /\ pc[c] = "disable" /\ UNCHANGED <<file, proc, spawned, child, cfg, unread, flagged, orphans>>
        /\ Finish(c) /\ last' = (IF proc = 0 THEN "none" ELSE last)
    BY <1>17 DEF Disable
  <2> QED BY <2>1, FinishMoves, HomeOf, TaskSets
<1>18. ASSUME NEW c \in Children, Count(c) PROVE ChildInv'
  <2>1. pc[c] = "count" /\ UNCHANGED <<file, proc, spawned, child, cfg, unread, flagged, orphans>>
    BY <1>18 DEF Count
  <2>2. CASE Finish(c) /\ last' = (IF proc = 0 THEN "none" ELSE last)
    BY <2>1, <2>2, FinishMoves, HomeOf, TaskSets
  <2>3. CASE pc' = [pc EXCEPT ![c] = "sleep"] /\ loc' = loc /\ last' = last
    BY <2>1, <2>3, TaskSets
  <2> QED BY <1>18, <2>2, <2>3 DEF Count, Goto
<1>19. ASSUME NEW c \in Children, Wake(c) PROVE ChildInv'
  BY <1>19, TaskSets DEF Wake, Goto
<1>20. ASSUME NEW c \in Children, ChildReads(c) PROVE ChildInv'
  BY <1>20, TaskSets DEF ChildReads
<1>21. ASSUME NEW c \in Children, ChildCrashes(c) PROVE ChildInv'
  BY <1>21, TaskSets DEF ChildCrashes, Dies
<1>22. ASSUME NEW c \in Children, ChildObeys(c) PROVE ChildInv'
  BY <1>22, TaskSets DEF ChildObeys, Dies
<1>23. CASE Shutdown
  BY <1>23, TaskSets DEF Shutdown, Goto
<1>24. CASE Exit
  BY <1>24, TaskSets DEF Exit, Goto
<1>25. CASE UNCHANGED vars
  BY <1>25, TaskSets DEF vars
<1> QED
  BY <1>1, <1>2, <1>3, <1>4, <1>5, <1>6, <1>7, <1>8, <1>9, <1>10, <1>11, <1>12, <1>13, <1>14, <1>15, <1>16,
         <1>17, <1>18, <1>19, <1>20, <1>21, <1>22, <1>23, <1>24, <1>25
     DEF Next, EnsureStep, StopStep, WatchdogStep, ChildStep

(* Every step keeps RecordInv: a record is only replaced when there is     *)
(* none, and whoever flags a child has taken it out of the record.         *)
LEMMA RecordStep ==
    ASSUME XrayTypeOK, TaskInv, ChildInv, RecordInv, [Next]_vars
    PROVE  RecordInv'
<1> USE DEF XrayTypeOK, Locals, ChildInv, TaskInv, RecordInv, Untaken, Labels, Stopping, WatchdogAt,
       EnsureAt, NoLocal, world, state, children, bounds, history, At, Afterwards, Up
<1>1. ASSUME NEW h \in Handlers, ChangeRows(h) PROVE RecordInv'
  BY <1>1, TaskSets DEF ChangeRows, Accept, Goto
<1>2. ASSUME NEW h \in Handlers, Restart(h) PROVE RecordInv'
  BY <1>2, TaskSets DEF Restart, Accept, Goto
<1>3. ASSUME NEW t \in Tasks, ReadRows(t) PROVE RecordInv'
  BY <1>3, TaskSets DEF ReadRows, Goto, Home
<1>4. ASSUME NEW t \in Tasks, WriteConfig(t) PROVE RecordInv'
  BY <1>4, TaskSets DEF WriteConfig, Goto
<1>5. ASSUME NEW t \in Tasks, EnsureFails(t) PROVE RecordInv'
  BY <1>5, TaskSets DEF EnsureFails, Finish, Goto, Home
<1>6. ASSUME NEW t \in Tasks, Reload(t) PROVE RecordInv'
  BY <1>6, TaskSets DEF Reload, Finish, Goto, Home
<1>7. ASSUME NEW t \in Tasks, Spawn(t) PROVE RecordInv'
  <2> HIDE DEF Locals, NoLocal, world, state, children, bounds, history, At
  <2> DEFINE n == spawned + 1
  <2>1. /\ n \in Children /\ n \in Tasks /\ n # t /\ spawned' = n /\ proc = 0 /\ proc' = n
        /\ pc[n] = "off" /\ pc'[n] = "wait" /\ child'[n] = "up" /\ last' = "up"
        /\ pc[t] = "lock" /\ pc'[t] = Home(t) /\ loc'[t] = NoLocal
        /\ loc'[n].reset = FALSE /\ loc'[n].pid = loc[n].pid /\ loc'[n].then = loc[n].then
        /\ unread' = unread \cup {n}
        /\ \A c \in Children : c # n => child'[c] = child[c]
        /\ \A u \in Tasks : u \notin {t, n} => pc'[u] = pc[u] /\ loc'[u] = loc[u]
        /\ UNCHANGED <<want, file, cfg, flagged, orphans>>
    BY <1>7, SpawnMoves
  <2>2. n > spawned /\ n - 1 = spawned /\ spawned \in Int
    OBVIOUS
  <2>3. NoLocal.reset = TRUE
    BY DEF NoLocal
  <2> HIDE DEF n
  <2> QED BY <2>1, <2>2, <2>3, HomeOf, TaskSets
<1>8. ASSUME NEW t \in Tasks, StopTake(t) PROVE RecordInv'
  BY <1>8, TaskSets DEF StopTake, StopReturn, Goto
<1>9. ASSUME NEW t \in Tasks, StopSignal(t) PROVE RecordInv'
  BY <1>9, TaskSets DEF StopSignal, Goto
<1>10. ASSUME NEW t \in Tasks, StopSeesExit(t) PROVE RecordInv'
  BY <1>10, TaskSets DEF StopSeesExit, StopReturn, Goto
<1>11. ASSUME NEW t \in Tasks, StopKill(t) PROVE RecordInv'
  BY <1>11, TaskSets DEF StopKill, Goto
<1>12. ASSUME NEW t \in Tasks, StopGivesUp(t) PROVE RecordInv'
  BY <1>12, TaskSets DEF StopGivesUp, StopReturn, Goto
<1>13. ASSUME NEW c \in Children, Wait(c) PROVE RecordInv'
  BY <1>13, TaskSets DEF Wait, Goto
<1>14. ASSUME NEW c \in Children, Clear(c) PROVE RecordInv'
  BY <1>14, TaskSets DEF Clear, Goto
<1>15. ASSUME NEW c \in Children, CheckFlag(c) PROVE RecordInv'
  <2>1. pc[c] = "flag" /\ UNCHANGED <<file, proc, spawned, child, cfg, unread, flagged, orphans, last>>
    BY <1>15 DEF CheckFlag
  <2>2. CASE Finish(c) /\ c \in flagged
    <3>1. /\ pc'[c] = "ended" /\ loc'[c] = NoLocal
          /\ \A u \in Tasks : u # c => pc'[u] = pc[u] /\ loc'[u] = loc[u]
      BY <2>2, FinishMoves, HomeOf, TaskSets
    <3>2. proc # 0 => proc # c /\ proc \in Tasks
      BY <2>1, RecordedChild
    <3> HIDE DEF world, state, children, bounds, history, At, NoLocal, Locals
    <3> QED BY <2>1, <3>1, <3>2
  <2>3. CASE pc' = [pc EXCEPT ![c] = "decide"] /\ loc' = loc /\ c \notin flagged
    BY <2>1, <2>3, TaskSets
  <2> QED BY <1>15, <2>2, <2>3 DEF CheckFlag, Goto
<1>16. ASSUME NEW c \in Children, Decide(c) PROVE RecordInv'
  BY <1>16, TaskSets DEF Decide, Goto
<1>17. ASSUME NEW c \in Children, Disable(c) PROVE RecordInv'
  BY <1>17, TaskSets DEF Disable, Goto, Finish, Home
<1>18. ASSUME NEW c \in Children, Count(c) PROVE RecordInv'
  <2>1. pc[c] = "count" /\ UNCHANGED <<file, proc, spawned, child, cfg, unread, flagged, orphans>>
    BY <1>18 DEF Count
  <2>2. CASE Finish(c) /\ last' = (IF proc = 0 THEN "none" ELSE last)
    <3>1. /\ pc'[c] = "ended" /\ loc'[c] = NoLocal
          /\ \A u \in Tasks : u # c => pc'[u] = pc[u] /\ loc'[u] = loc[u]
      BY <2>2, FinishMoves, HomeOf, TaskSets
    <3>2. proc # 0 => proc # c /\ proc \in Tasks /\ proc \in Children
      BY <2>1, RecordedChild
    <3> HIDE DEF world, state, children, bounds, history, At, NoLocal, Locals
    <3> QED BY <2>1, <2>2, <3>1, <3>2
  <2>3. CASE pc' = [pc EXCEPT ![c] = "sleep"] /\ loc' = loc /\ last' = last
    BY <2>1, <2>3, TaskSets
  <2> QED BY <1>18, <2>2, <2>3 DEF Count, Goto
<1>19. ASSUME NEW c \in Children, Wake(c) PROVE RecordInv'
  BY <1>19, TaskSets DEF Wake, Goto
<1>20. ASSUME NEW c \in Children, ChildReads(c) PROVE RecordInv'
  BY <1>20, TaskSets DEF ChildReads
<1>21. ASSUME NEW c \in Children, ChildCrashes(c) PROVE RecordInv'
  BY <1>21, TaskSets DEF ChildCrashes, Dies
<1>22. ASSUME NEW c \in Children, ChildObeys(c) PROVE RecordInv'
  BY <1>22, TaskSets DEF ChildObeys, Dies
<1>23. CASE Shutdown
  BY <1>23, TaskSets DEF Shutdown, Goto
<1>24. CASE Exit
  BY <1>24, TaskSets DEF Exit, Goto
<1>25. CASE UNCHANGED vars
  BY <1>25, TaskSets DEF vars
<1> QED
  BY <1>1, <1>2, <1>3, <1>4, <1>5, <1>6, <1>7, <1>8, <1>9, <1>10, <1>11, <1>12, <1>13, <1>14, <1>15, <1>16,
         <1>17, <1>18, <1>19, <1>20, <1>21, <1>22, <1>23, <1>24, <1>25
     DEF Next, EnsureStep, StopStep, WatchdogStep, ChildStep

(* Every step keeps LiveInv: a child leaves the record for a stop, which   *)
(* signals it, or for a watchdog, which has lost it.                       *)
LEMMA LiveStep ==
    ASSUME XrayTypeOK, TaskInv, ChildInv, RecordInv, LiveInv, [Next]_vars
    PROVE  LiveInv'
<1> USE DEF XrayTypeOK, Locals, ChildInv, TaskInv, RecordInv, LiveInv, Untaken, Doomed, Labels, Stopping,
       WatchdogAt, EnsureAt, NoLocal, world, state, children, bounds, history, At, Afterwards, Up
<1>1. ASSUME NEW h \in Handlers, ChangeRows(h) PROVE LiveInv'
  BY <1>1, TaskSets DEF ChangeRows, Accept, Goto
<1>2. ASSUME NEW h \in Handlers, Restart(h) PROVE LiveInv'
  BY <1>2, TaskSets DEF Restart, Accept, Goto
<1>3. ASSUME NEW t \in Tasks, ReadRows(t) PROVE LiveInv'
  BY <1>3, TaskSets DEF ReadRows, Goto, Home
<1>4. ASSUME NEW t \in Tasks, WriteConfig(t) PROVE LiveInv'
  BY <1>4, TaskSets DEF WriteConfig, Goto
<1>5. ASSUME NEW t \in Tasks, EnsureFails(t) PROVE LiveInv'
  BY <1>5, TaskSets DEF EnsureFails, Finish, Goto, Home
<1>6. ASSUME NEW t \in Tasks, Reload(t) PROVE LiveInv'
  BY <1>6, TaskSets DEF Reload, Finish, Goto, Home
<1>7. ASSUME NEW t \in Tasks, Spawn(t) PROVE LiveInv'
  <2> HIDE DEF Locals, NoLocal, world, state, children, bounds, history, At
  <2> DEFINE n == spawned + 1
  <2>1. /\ n \in Children /\ n \in Tasks /\ n # t /\ spawned' = n /\ proc = 0 /\ proc' = n
        /\ pc[n] = "off" /\ pc'[n] = "wait" /\ child'[n] = "up" /\ last' = "up"
        /\ pc[t] = "lock" /\ pc'[t] = Home(t) /\ loc'[t] = NoLocal
        /\ loc'[n].reset = FALSE /\ loc'[n].pid = loc[n].pid /\ loc'[n].then = loc[n].then
        /\ unread' = unread \cup {n}
        /\ \A c \in Children : c # n => child'[c] = child[c]
        /\ \A u \in Tasks : u \notin {t, n} => pc'[u] = pc[u] /\ loc'[u] = loc[u]
        /\ UNCHANGED <<want, file, cfg, flagged, orphans>>
    BY <1>7, SpawnMoves
  <2>2. n > spawned /\ n - 1 = spawned /\ spawned \in Int
    OBVIOUS
  <2>3. NoLocal.reset = TRUE
    BY DEF NoLocal
  <2> HIDE DEF n
  <2> QED BY <2>1, <2>2, <2>3, HomeOf, TaskSets
<1>8. ASSUME NEW t \in Tasks, StopTake(t) PROVE LiveInv'
  <2>1. /\ pc[t] = "stop" /\ proc' = 0 /\ UNCHANGED <<child, orphans>>
        /\ \/ proc = 0 /\ StopReturn(t)
           \/ proc # 0 /\ pc' = [pc EXCEPT ![t] = "signal"] /\ loc' = [loc EXCEPT ![t].pid = proc]
    BY <1>8 DEF StopTake, Goto
  <2>2. \A u \in Tasks : u # t => pc'[u] = pc[u] /\ loc'[u] = loc[u]
    BY <2>1, StopReturnMoves
  <2>3. proc # 0 => pc'[t] = "signal" /\ loc'[t].pid = proc
    BY <2>1
  <2> HIDE DEF world, state, children, bounds, history, At, NoLocal, Locals
  <2> QED BY <2>1, <2>2, <2>3
<1>9. ASSUME NEW t \in Tasks, StopSignal(t) PROVE LiveInv'
  BY <1>9, TaskSets DEF StopSignal, Goto
<1>10. ASSUME NEW t \in Tasks, StopSeesExit(t) PROVE LiveInv'
  BY <1>10, TaskSets DEF StopSeesExit, StopReturn, Goto
<1>11. ASSUME NEW t \in Tasks, StopKill(t) PROVE LiveInv'
  BY <1>11, TaskSets DEF StopKill, Goto
<1>12. ASSUME NEW t \in Tasks, StopGivesUp(t) PROVE LiveInv'
  BY <1>12, TaskSets DEF StopGivesUp, StopReturn, Goto
<1>13. ASSUME NEW c \in Children, Wait(c) PROVE LiveInv'
  BY <1>13, TaskSets DEF Wait, Goto
<1>14. ASSUME NEW c \in Children, Clear(c) PROVE LiveInv'
  BY <1>14, TaskSets DEF Clear, Goto
<1>15. ASSUME NEW c \in Children, CheckFlag(c) PROVE LiveInv'
  BY <1>15, TaskSets, SMTT(30) DEF CheckFlag, Goto, Finish, Home
<1>16. ASSUME NEW c \in Children, Decide(c) PROVE LiveInv'
  BY <1>16, TaskSets DEF Decide, Goto
<1>17. ASSUME NEW c \in Children, Disable(c) PROVE LiveInv'
  BY <1>17, TaskSets DEF Disable, Goto, Finish, Home
<1>18. ASSUME NEW c \in Children, Count(c) PROVE LiveInv'
  BY <1>18, TaskSets, SMTT(30) DEF Count, Goto, Finish, Home
<1>19. ASSUME NEW c \in Children, Wake(c) PROVE LiveInv'
  BY <1>19, TaskSets DEF Wake, Goto
<1>20. ASSUME NEW c \in Children, ChildReads(c) PROVE LiveInv'
  BY <1>20, TaskSets DEF ChildReads
<1>21. ASSUME NEW c \in Children, ChildCrashes(c) PROVE LiveInv'
  BY <1>21, TaskSets DEF ChildCrashes, Dies
<1>22. ASSUME NEW c \in Children, ChildObeys(c) PROVE LiveInv'
  BY <1>22, TaskSets DEF ChildObeys, Dies
<1>23. CASE Shutdown
  BY <1>23, TaskSets DEF Shutdown, Goto
<1>24. CASE Exit
  BY <1>24, TaskSets DEF Exit, Goto
<1>25. CASE UNCHANGED vars
  BY <1>25, TaskSets DEF vars
<1> QED
  BY <1>1, <1>2, <1>3, <1>4, <1>5, <1>6, <1>7, <1>8, <1>9, <1>10, <1>11, <1>12, <1>13, <1>14, <1>15, <1>16,
         <1>17, <1>18, <1>19, <1>20, <1>21, <1>22, <1>23, <1>24, <1>25
     DEF Next, EnsureStep, StopStep, WatchdogStep, ChildStep

(* Every step keeps ServedInv: a write leaves its task at the mutex, where *)
(* it reloads whoever is recorded by then.                                 *)
LEMMA ServedStep ==
    ASSUME XrayTypeOK, TaskInv, ChildInv, RecordInv, ServedInv, [Next]_vars
    PROVE  ServedInv'
<1> USE DEF XrayTypeOK, Locals, ChildInv, TaskInv, RecordInv, ServedInv, Labels, Stopping, WatchdogAt,
       EnsureAt, NoLocal, world, state, children, bounds, history, At, Afterwards, Up
<1>1. ASSUME NEW h \in Handlers, ChangeRows(h) PROVE ServedInv'
  BY <1>1, TaskSets DEF ChangeRows, Accept, Goto
<1>2. ASSUME NEW h \in Handlers, Restart(h) PROVE ServedInv'
  BY <1>2, TaskSets DEF Restart, Accept, Goto
<1>3. ASSUME NEW t \in Tasks, ReadRows(t) PROVE ServedInv'
  BY <1>3, TaskSets DEF ReadRows, Goto, Home
<1>4. ASSUME NEW t \in Tasks, WriteConfig(t) PROVE ServedInv'
  BY <1>4, TaskSets DEF WriteConfig, Goto
<1>5. ASSUME NEW t \in Tasks, EnsureFails(t) PROVE ServedInv'
  BY <1>5, TaskSets DEF EnsureFails, Finish, Goto, Home
<1>6. ASSUME NEW t \in Tasks, Reload(t) PROVE ServedInv'
  BY <1>6, TaskSets DEF Reload, Finish, Goto, Home
<1>7. ASSUME NEW t \in Tasks, Spawn(t) PROVE ServedInv'
  BY <1>7, TaskSets DEF Spawn, Started, Watched, Allowed, Home
<1>8. ASSUME NEW t \in Tasks, StopTake(t) PROVE ServedInv'
  BY <1>8, TaskSets DEF StopTake, StopReturn, Goto
<1>9. ASSUME NEW t \in Tasks, StopSignal(t) PROVE ServedInv'
  BY <1>9, TaskSets DEF StopSignal, Goto
<1>10. ASSUME NEW t \in Tasks, StopSeesExit(t) PROVE ServedInv'
  BY <1>10, TaskSets DEF StopSeesExit, StopReturn, Goto
<1>11. ASSUME NEW t \in Tasks, StopKill(t) PROVE ServedInv'
  BY <1>11, TaskSets DEF StopKill, Goto
<1>12. ASSUME NEW t \in Tasks, StopGivesUp(t) PROVE ServedInv'
  BY <1>12, TaskSets DEF StopGivesUp, StopReturn, Goto
<1>13. ASSUME NEW c \in Children, Wait(c) PROVE ServedInv'
  BY <1>13, TaskSets DEF Wait, Goto
<1>14. ASSUME NEW c \in Children, Clear(c) PROVE ServedInv'
  BY <1>14, TaskSets DEF Clear, Goto
<1>15. ASSUME NEW c \in Children, CheckFlag(c) PROVE ServedInv'
  BY <1>15, TaskSets DEF CheckFlag, Goto, Finish, Home
<1>16. ASSUME NEW c \in Children, Decide(c) PROVE ServedInv'
  BY <1>16, TaskSets DEF Decide, Goto
<1>17. ASSUME NEW c \in Children, Disable(c) PROVE ServedInv'
  BY <1>17, TaskSets DEF Disable, Goto, Finish, Home
<1>18. ASSUME NEW c \in Children, Count(c) PROVE ServedInv'
  BY <1>18, TaskSets DEF Count, Goto, Finish, Home
<1>19. ASSUME NEW c \in Children, Wake(c) PROVE ServedInv'
  BY <1>19, TaskSets DEF Wake, Goto
<1>20. ASSUME NEW c \in Children, ChildReads(c) PROVE ServedInv'
  BY <1>20, TaskSets DEF ChildReads
<1>21. ASSUME NEW c \in Children, ChildCrashes(c) PROVE ServedInv'
  BY <1>21, TaskSets DEF ChildCrashes, Dies
<1>22. ASSUME NEW c \in Children, ChildObeys(c) PROVE ServedInv'
  BY <1>22, TaskSets DEF ChildObeys, Dies
<1>23. CASE Shutdown
  BY <1>23, TaskSets DEF Shutdown, Goto
<1>24. CASE Exit
  BY <1>24, TaskSets DEF Exit, Goto
<1>25. CASE UNCHANGED vars
  BY <1>25, TaskSets DEF vars
<1> QED
  BY <1>1, <1>2, <1>3, <1>4, <1>5, <1>6, <1>7, <1>8, <1>9, <1>10, <1>11, <1>12, <1>13, <1>14, <1>15, <1>16,
         <1>17, <1>18, <1>19, <1>20, <1>21, <1>22, <1>23, <1>24, <1>25
     DEF Next, EnsureStep, StopStep, WatchdogStep, ChildStep

(* Every step keeps WantedInv: a watchdog that ends without a restart has  *)
(* seen a later decision or has recorded the failure itself.               *)
LEMMA WantedStep ==
    ASSUME XrayTypeOK, TaskInv, ChildInv, RecordInv, WantedInv, [Next]_vars
    PROVE  WantedInv'
<1> USE DEF XrayTypeOK, Locals, ChildInv, TaskInv, RecordInv, WantedInv, OnItsWay, Untaken, Labels,
       Stopping, WatchdogAt, EnsureAt, NoLocal, world, state, children, bounds, history, At, Afterwards, Up
<1>1. ASSUME NEW h \in Handlers, ChangeRows(h) PROVE WantedInv'
  BY <1>1, TaskSets DEF ChangeRows, Accept, Goto
<1>2. ASSUME NEW h \in Handlers, Restart(h) PROVE WantedInv'
  BY <1>2, TaskSets DEF Restart, Accept, Goto
<1>3. ASSUME NEW t \in Tasks, ReadRows(t) PROVE WantedInv'
  BY <1>3, TaskSets DEF ReadRows, Goto, Home
<1>4. ASSUME NEW t \in Tasks, WriteConfig(t) PROVE WantedInv'
  BY <1>4, TaskSets DEF WriteConfig, Goto
<1>5. ASSUME NEW t \in Tasks, EnsureFails(t) PROVE WantedInv'
  <2>1. /\ Finish(t) /\ pc[t] \in {"write", "lock"}
        /\ UNCHANGED <<file, proc, spawned, child, cfg, flagged, orphans>>
        /\ last' = (IF proc = 0 THEN "none" ELSE last)
    BY <1>5 DEF EnsureFails
  <2>2. /\ pc'[t] \in {"ended", "serving", "idle"} /\ loc'[t] = NoLocal
        /\ \A u \in Tasks : u # t => pc'[u] = pc[u] /\ loc'[u] = loc[u]
    BY <2>1, FinishMoves, HomeOf, TaskSets
  <2>3. proc # 0 => proc # t /\ proc \in Tasks /\ proc \in Children
    BY <2>1, RecordedChild
  <2>4. proc # 0 => OnItsWay(proc)'
    <3> HIDE DEF world, state, children, bounds, history, At, NoLocal, Locals
    <3> QED BY <2>1, <2>2, <2>3
  <2> HIDE DEF world, state, children, bounds, history, At, NoLocal, Locals, OnItsWay
  <2> QED BY <2>1, <2>3, <2>4
<1>6. ASSUME NEW t \in Tasks, Reload(t) PROVE WantedInv'
  <2>1. /\ Finish(t) /\ pc[t] = "lock" /\ proc # 0
        /\ UNCHANGED <<file, proc, spawned, child, cfg, flagged, orphans>>
    BY <1>6 DEF Reload
  <2>2. /\ pc'[t] \in {"ended", "serving", "idle"} /\ loc'[t] = NoLocal
        /\ \A u \in Tasks : u # t => pc'[u] = pc[u] /\ loc'[u] = loc[u]
    BY <2>1, FinishMoves, HomeOf, TaskSets
  <2>3. proc # 0 => proc # t /\ proc \in Tasks /\ proc \in Children
    BY <2>1, RecordedChild
  <2>4. proc # 0 => OnItsWay(proc)'
    <3> HIDE DEF world, state, children, bounds, history, At, NoLocal, Locals
    <3> QED BY <2>1, <2>2, <2>3
  <2> HIDE DEF world, state, children, bounds, history, At, NoLocal, Locals, OnItsWay
  <2> QED BY <2>1, <2>3, <2>4
<1>7. ASSUME NEW t \in Tasks, Spawn(t) PROVE WantedInv'
  <2> HIDE DEF Locals, NoLocal, world, state, children, bounds, history, At
  <2> DEFINE n == spawned + 1
  <2>1. /\ n \in Children /\ n \in Tasks /\ n # t /\ spawned' = n /\ proc = 0 /\ proc' = n
        /\ pc[n] = "off" /\ pc'[n] = "wait" /\ child'[n] = "up" /\ last' = "up"
        /\ pc[t] = "lock" /\ pc'[t] = Home(t) /\ loc'[t] = NoLocal
        /\ loc'[n].reset = FALSE /\ loc'[n].pid = loc[n].pid /\ loc'[n].then = loc[n].then
        /\ unread' = unread \cup {n}
        /\ \A c \in Children : c # n => child'[c] = child[c]
        /\ \A u \in Tasks : u \notin {t, n} => pc'[u] = pc[u] /\ loc'[u] = loc[u]
        /\ UNCHANGED <<want, file, cfg, flagged, orphans>>
    BY <1>7, SpawnMoves
  <2>2. n > spawned /\ n - 1 = spawned /\ spawned \in Int
    OBVIOUS
  <2>3. NoLocal.reset = TRUE
    BY DEF NoLocal
  <2> HIDE DEF n
  <2> QED BY <2>1, <2>2, <2>3, HomeOf, TaskSets
<1>8. ASSUME NEW t \in Tasks, StopTake(t) PROVE WantedInv'
  BY <1>8, TaskSets DEF StopTake, StopReturn, Goto
<1>9. ASSUME NEW t \in Tasks, StopSignal(t) PROVE WantedInv'
  BY <1>9, TaskSets DEF StopSignal, Goto
<1>10. ASSUME NEW t \in Tasks, StopSeesExit(t) PROVE WantedInv'
  BY <1>10, TaskSets DEF StopSeesExit, StopReturn, Goto
<1>11. ASSUME NEW t \in Tasks, StopKill(t) PROVE WantedInv'
  BY <1>11, TaskSets DEF StopKill, Goto
<1>12. ASSUME NEW t \in Tasks, StopGivesUp(t) PROVE WantedInv'
  BY <1>12, TaskSets DEF StopGivesUp, StopReturn, Goto
<1>13. ASSUME NEW c \in Children, Wait(c) PROVE WantedInv'
  BY <1>13, TaskSets DEF Wait, Goto
<1>14. ASSUME NEW c \in Children, Clear(c) PROVE WantedInv'
  BY <1>14, TaskSets DEF Clear, Goto
<1>15. ASSUME NEW c \in Children, CheckFlag(c) PROVE WantedInv'
  <2>1. pc[c] = "flag" /\ UNCHANGED <<file, proc, spawned, child, cfg, unread, flagged, orphans, last>>
    BY <1>15 DEF CheckFlag
  <2>2. CASE Finish(c) /\ c \in flagged
    BY <2>1, <2>2, FinishMoves, HomeOf, TaskSets, SMTT(30)
  <2>3. CASE pc' = [pc EXCEPT ![c] = "decide"] /\ loc' = loc /\ c \notin flagged
    BY <2>1, <2>3, TaskSets
  <2> QED BY <1>15, <2>2, <2>3 DEF CheckFlag, Goto
<1>16. ASSUME NEW c \in Children, Decide(c) PROVE WantedInv'
  BY <1>16, TaskSets DEF Decide, Goto
<1>17. ASSUME NEW c \in Children, Disable(c) PROVE WantedInv'
  <2>1. /\ pc[c] = "disable" /\ UNCHANGED <<file, proc, spawned, child, cfg, unread, flagged, orphans>>
        /\ Finish(c) /\ last' = (IF proc = 0 THEN "none" ELSE last)
    BY <1>17 DEF Disable
  <2>2. /\ pc'[c] \in {"ended", "serving", "idle"} /\ loc'[c] = NoLocal
        /\ \A u \in Tasks : u # c => pc'[u] = pc[u] /\ loc'[u] = loc[u]
    BY <2>1, FinishMoves, HomeOf, TaskSets
  <2>3. proc # 0 => proc # c /\ proc \in Tasks /\ proc \in Children
    BY <2>1, RecordedChild
  <2>4. proc # 0 => OnItsWay(proc)'
    <3> HIDE DEF world, state, children, bounds, history, At, NoLocal, Locals
    <3> QED BY <2>1, <2>2, <2>3
  <2> HIDE DEF world, state, children, bounds, history, At, NoLocal, Locals, OnItsWay
  <2> QED BY <2>1, <2>3, <2>4
<1>18. ASSUME NEW c \in Children, Count(c) PROVE WantedInv'
  <2>1. pc[c] = "count" /\ UNCHANGED <<file, proc, spawned, child, cfg, unread, flagged, orphans>>
    BY <1>18 DEF Count
  <2>2. CASE Finish(c) /\ last' = (IF proc = 0 THEN "none" ELSE last)
    <3>1. /\ pc'[c] = "ended" /\ loc'[c] = NoLocal
          /\ \A u \in Tasks : u # c => pc'[u] = pc[u] /\ loc'[u] = loc[u]
      BY <2>2, FinishMoves, HomeOf, TaskSets
    <3>2. proc # 0 => proc # c /\ proc \in Tasks /\ proc \in Children
      BY <2>1, RecordedChild
    <3> HIDE DEF world, state, children, bounds, history, At, NoLocal, Locals
    <3>3. proc # 0 => OnItsWay(proc)'
      BY <2>1, <3>1, <3>2
    <3> HIDE DEF OnItsWay
    <3> QED BY <2>1, <2>2, <3>2, <3>3
  <2>3. CASE pc' = [pc EXCEPT ![c] = "sleep"] /\ loc' = loc /\ last' = last
    BY <2>1, <2>3, TaskSets
  <2> QED BY <1>18, <2>2, <2>3 DEF Count, Goto
<1>19. ASSUME NEW c \in Children, Wake(c) PROVE WantedInv'
  BY <1>19, TaskSets DEF Wake, Goto
<1>20. ASSUME NEW c \in Children, ChildReads(c) PROVE WantedInv'
  BY <1>20, TaskSets DEF ChildReads
<1>21. ASSUME NEW c \in Children, ChildCrashes(c) PROVE WantedInv'
  BY <1>21, TaskSets DEF ChildCrashes, Dies
<1>22. ASSUME NEW c \in Children, ChildObeys(c) PROVE WantedInv'
  BY <1>22, TaskSets DEF ChildObeys, Dies
<1>23. CASE Shutdown
  BY <1>23, TaskSets DEF Shutdown, Goto
<1>24. CASE Exit
  BY <1>24, TaskSets DEF Exit, Goto
<1>25. CASE UNCHANGED vars
  BY <1>25, TaskSets DEF vars
<1> QED
  BY <1>1, <1>2, <1>3, <1>4, <1>5, <1>6, <1>7, <1>8, <1>9, <1>10, <1>11, <1>12, <1>13, <1>14, <1>15, <1>16,
         <1>17, <1>18, <1>19, <1>20, <1>21, <1>22, <1>23, <1>24, <1>25
     DEF Next, EnsureStep, StopStep, WatchdogStep, ChildStep

(* The sum behind SpendStep, over plain numbers.                           *)
LEMMA SpendArithmetic ==
    ASSUME NEW m \in Nat, NEW u \in Nat, NEW v \in Nat, NEW s \in Nat, NEW p \in Nat, NEW q \in Nat,
           NEW b \in Nat, NEW d \in Nat, NEW k \in {0, 1},
           s + (m - u) + p <= b, (m - v) + k <= (m - u) + (d - b), q <= p + k
    PROVE  s + (m - v) + q <= d
  OBVIOUS

(* Adding and removing one pending watchdog counts one.                    *)
LEMMA PendingIsFinite ==
    /\ IsFiniteSet(Pending) /\ Cardinality(Pending) \in Nat
    /\ \A c : c \notin Pending => Cardinality(Pending \cup {c}) = Cardinality(Pending) + 1
    /\ \A c \in Pending : Cardinality(Pending \ {c}) = Cardinality(Pending) - 1
<1>1. IsFiniteSet(Children)
  BY XrayConstants, FS_Interval DEF Children
<1>2. IsFiniteSet(Pending)
  BY <1>1, FS_Subset DEF Pending
<1>3. Cardinality(Pending) \in Nat
  BY <1>2, FS_CardinalityType
<1>4. \A c : c \notin Pending => Cardinality(Pending \cup {c}) = Cardinality(Pending) + 1
  BY <1>2, FS_AddElement
<1>5. \A c \in Pending : Cardinality(Pending \ {c}) = Cardinality(Pending) - 1
  BY <1>2, FS_RemoveElement
<1> QED
  BY <1>2, <1>3, <1>4, <1>5

(* A step that adds no pending watchdog raises no count.                   *)
LEMMA FewerPending ==
    ASSUME Pending' \subseteq Pending
    PROVE  Cardinality(Pending') \in Nat /\ Cardinality(Pending') <= Cardinality(Pending)
<1>1. IsFiniteSet(Pending)
  BY PendingIsFinite
<1>2. IsFiniteSet(Pending') /\ Cardinality(Pending') <= Cardinality(Pending)
  BY <1>1, FS_Subset
<1> QED
  BY <1>2, FS_CardinalityType

(* Every step keeps SpendInv.                                              *)
LEMMA SpendStep ==
    ASSUME XrayTypeOK, TaskInv, ChildInv, SpendInv, [Next]_vars
    PROVE  SpendInv'
<1> USE DEF XrayTypeOK, Pending, Labels, Stopping, WatchdogAt, EnsureAt, world, state, children, bounds,
       history, At
<1>1. ASSUME NEW h \in Handlers, ChangeRows(h) PROVE SpendInv'
  <2>1. Pending' \subseteq Pending
    BY <1>1, HomeOf, TaskSets DEF ChangeRows, Accept, Goto
  <2>2. UNCHANGED <<spawned, attempts, budget>>
    BY <1>1 DEF ChangeRows, Accept
  <2> QED BY <2>1, <2>2, FewerPending, PendingIsFinite, XrayConstants DEF SpendInv, Used
<1>2. ASSUME NEW h \in Handlers, Restart(h) PROVE SpendInv'
  <2>1. Pending' \subseteq Pending
    BY <1>2, HomeOf, TaskSets DEF Restart, Accept, Goto
  <2>2. UNCHANGED <<spawned, attempts, budget>>
    BY <1>2 DEF Restart, Accept
  <2> QED BY <2>1, <2>2, FewerPending, PendingIsFinite, XrayConstants DEF SpendInv, Used
<1>3. ASSUME NEW t \in Tasks, ReadRows(t) PROVE SpendInv'
  <2>1. Pending' \subseteq Pending
    BY <1>3, HomeOf, TaskSets DEF ReadRows, Goto
  <2>2. UNCHANGED <<spawned, attempts, budget>>
    BY <1>3 DEF ReadRows
  <2> QED BY <2>1, <2>2, FewerPending, PendingIsFinite, XrayConstants DEF SpendInv, Used
<1>4. ASSUME NEW t \in Tasks, WriteConfig(t) PROVE SpendInv'
  <2>1. Pending' \subseteq Pending
    BY <1>4, HomeOf, TaskSets DEF WriteConfig, Goto
  <2>2. UNCHANGED <<spawned, attempts, budget>>
    BY <1>4 DEF WriteConfig
  <2> QED BY <2>1, <2>2, FewerPending, PendingIsFinite, XrayConstants DEF SpendInv, Used
<1>5. ASSUME NEW t \in Tasks, EnsureFails(t) PROVE SpendInv'
  <2>1. Finish(t) /\ UNCHANGED <<spawned, attempts, budget>>
    BY <1>5 DEF EnsureFails
  <2>2. Pending' \subseteq Pending
    BY <2>1, FinishMoves, HomeOf, TaskSets
  <2> QED BY <2>1, <2>2, FewerPending, PendingIsFinite, XrayConstants DEF SpendInv, Used
<1>6. ASSUME NEW t \in Tasks, Reload(t) PROVE SpendInv'
  <2>1. Finish(t) /\ UNCHANGED <<spawned, attempts, budget>>
    BY <1>6 DEF Reload
  <2>2. Pending' \subseteq Pending
    BY <2>1, FinishMoves, HomeOf, TaskSets
  <2> QED BY <2>1, <2>2, FewerPending, PendingIsFinite, XrayConstants DEF SpendInv, Used
<1>7. ASSUME NEW t \in Tasks, Spawn(t) PROVE SpendInv'
  <2> DEFINE n == spawned + 1
  <2>1. /\ n \in Children /\ n # t /\ spawned' = n /\ pc[n] = "off" /\ pc'[n] = "wait"
        /\ pc[t] = "lock" /\ pc'[t] = Home(t)
        /\ \A u \in Tasks : u \notin {t, n} => pc'[u] = pc[u]
    BY <1>7, SpawnMoves
  <2>2. /\ budget' = IF loc[t].reset THEN budget + 1 + Used ELSE budget
        /\ attempts' = IF loc[t].reset THEN 0 ELSE attempts
    BY <1>7 DEF Spawn, Allowed, Used
  <2>3. Used \in 0..MaxAttempts
    BY XrayConstants DEF Used
  <2>4. CASE t \in Children
    <3>1. Pending' = Pending \ {t} /\ t \in Pending
      BY <2>1, <2>4, HomeOf, TaskSets
    <3>2. Cardinality(Pending') = Cardinality(Pending) - 1
      BY <3>1, PendingIsFinite
    <3>3. CASE loc[t].reset
      <4>1. budget' = budget + 1 + Used /\ Used' = 0
        BY <2>2, <3>3, XrayConstants DEF Used
      <4> QED BY <2>1, <2>3, <3>2, <4>1, PendingIsFinite, XrayConstants DEF SpendInv
    <3>4. CASE ~loc[t].reset
      <4>1. budget' = budget /\ Used' = Used
        BY <2>2, <3>4 DEF Used
      <4> QED BY <2>1, <2>3, <3>2, <4>1, PendingIsFinite, XrayConstants DEF SpendInv
    <3> QED BY <3>3, <3>4
  <2>5. CASE t \notin Children
    <3>1. Pending' = Pending
      BY <2>1, <2>5, TaskSets
    <3>2. loc[t].reset
      BY <2>5 DEF TaskInv
    <3>3. budget' = budget + 1 + Used /\ Used' = 0
      BY <2>2, <3>2, XrayConstants DEF Used
    <3>4. spawned \in Nat /\ budget \in Nat
      OBVIOUS
    <3> HIDE DEF Pending, XrayTypeOK
    <3> QED BY <2>1, <2>3, <3>1, <3>3, <3>4, PendingIsFinite, XrayConstants DEF SpendInv
  <2> QED BY <2>4, <2>5
<1>8. ASSUME NEW t \in Tasks, StopTake(t) PROVE SpendInv'
  <2>1. /\ pc[t] = "stop" /\ UNCHANGED <<spawned, attempts, budget>>
        /\ StopReturn(t) \/ pc' = [pc EXCEPT ![t] = "signal"]
    BY <1>8 DEF StopTake, Goto
  <2>2. Pending' \subseteq Pending
    BY <2>1, StopReturnMoves, AfterStop, TaskSets
  <2> QED BY <2>1, <2>2, FewerPending, PendingIsFinite, XrayConstants DEF SpendInv, Used
<1>9. ASSUME NEW t \in Tasks, StopSignal(t) PROVE SpendInv'
  <2>1. Pending' \subseteq Pending
    BY <1>9, HomeOf, TaskSets DEF StopSignal, Goto
  <2>2. UNCHANGED <<spawned, attempts, budget>>
    BY <1>9 DEF StopSignal
  <2> QED BY <2>1, <2>2, FewerPending, PendingIsFinite, XrayConstants DEF SpendInv, Used
<1>10. ASSUME NEW t \in Tasks, StopSeesExit(t) PROVE SpendInv'
  <2>1. StopReturn(t) /\ pc[t] \in Stopping /\ UNCHANGED <<spawned, attempts, budget>>
    BY <1>10 DEF StopSeesExit
  <2>2. Pending' \subseteq Pending
    BY <2>1, StopReturnMoves, AfterStop, TaskSets
  <2> QED BY <2>1, <2>2, FewerPending, PendingIsFinite, XrayConstants DEF SpendInv, Used
<1>11. ASSUME NEW t \in Tasks, StopKill(t) PROVE SpendInv'
  <2>1. Pending' \subseteq Pending
    BY <1>11, HomeOf, TaskSets DEF StopKill, Goto
  <2>2. UNCHANGED <<spawned, attempts, budget>>
    BY <1>11 DEF StopKill
  <2> QED BY <2>1, <2>2, FewerPending, PendingIsFinite, XrayConstants DEF SpendInv, Used
<1>12. ASSUME NEW t \in Tasks, StopGivesUp(t) PROVE SpendInv'
  <2>1. StopReturn(t) /\ pc[t] \in Stopping /\ UNCHANGED <<spawned, attempts, budget>>
    BY <1>12 DEF StopGivesUp
  <2>2. Pending' \subseteq Pending
    BY <2>1, StopReturnMoves, AfterStop, TaskSets
  <2> QED BY <2>1, <2>2, FewerPending, PendingIsFinite, XrayConstants DEF SpendInv, Used
<1>13. ASSUME NEW c \in Children, Wait(c) PROVE SpendInv'
  <2>1. Pending' \subseteq Pending
    BY <1>13, HomeOf, TaskSets DEF Wait, Goto
  <2>2. UNCHANGED <<spawned, attempts, budget>>
    BY <1>13 DEF Wait
  <2> QED BY <2>1, <2>2, FewerPending, PendingIsFinite, XrayConstants DEF SpendInv, Used
<1>14. ASSUME NEW c \in Children, Clear(c) PROVE SpendInv'
  <2>1. Pending' \subseteq Pending
    BY <1>14, HomeOf, TaskSets DEF Clear, Goto
  <2>2. UNCHANGED <<spawned, attempts, budget>>
    BY <1>14 DEF Clear
  <2> QED BY <2>1, <2>2, FewerPending, PendingIsFinite, XrayConstants DEF SpendInv, Used
<1>15. ASSUME NEW c \in Children, CheckFlag(c) PROVE SpendInv'
  <2>1. Pending' \subseteq Pending
    BY <1>15, HomeOf, TaskSets DEF CheckFlag, Goto, Finish
  <2>2. UNCHANGED <<spawned, attempts, budget>>
    BY <1>15 DEF CheckFlag
  <2> QED BY <2>1, <2>2, FewerPending, PendingIsFinite, XrayConstants DEF SpendInv, Used
<1>16. ASSUME NEW c \in Children, Decide(c) PROVE SpendInv'
  <2>1. Pending' \subseteq Pending
    BY <1>16, HomeOf, TaskSets DEF Decide, Goto
  <2>2. UNCHANGED <<spawned, attempts, budget>>
    BY <1>16 DEF Decide
  <2> QED BY <2>1, <2>2, FewerPending, PendingIsFinite, XrayConstants DEF SpendInv, Used
<1>17. ASSUME NEW c \in Children, Disable(c) PROVE SpendInv'
  <2>1. /\ Finish(c) /\ UNCHANGED spawned /\ attempts' = 0 /\ budget' = budget + Used
    BY <1>17 DEF Disable, Used
  <2>2. Pending' \subseteq Pending
    BY <2>1, FinishMoves, HomeOf, TaskSets
  <2>3. Used \in 0..MaxAttempts /\ Used' = 0
    BY <2>1, XrayConstants DEF Used
  <2> QED BY <2>1, <2>2, <2>3, FewerPending, PendingIsFinite, XrayConstants DEF SpendInv
<1>18. ASSUME NEW c \in Children, Count(c) PROVE SpendInv'
  <2>1. /\ pc[c] = "count" /\ UNCHANGED spawned
        /\ attempts' = (IF loc[c].healthy THEN 0 ELSE attempts) + 1
        /\ budget' = IF loc[c].healthy THEN budget + Used ELSE budget
    BY <1>18 DEF Count, Used
  <2>2. Used \in 0..MaxAttempts
    BY XrayConstants DEF Used
  <2>3. CASE attempts' > MaxAttempts
    <3>1. Finish(c)
      BY <1>18, <2>3 DEF Count
    <3>2. Pending' \subseteq Pending
      BY <3>1, FinishMoves, HomeOf, TaskSets
    <3> HIDE DEF Pending
    <3>3. (MaxAttempts - Used') + 0 <= (MaxAttempts - Used) + (budget' - budget)
      BY <2>1, <2>3, XrayConstants DEF Used
    <3>4. Used' \in Nat /\ budget' \in Nat
      BY <2>1, <2>2, <2>3, XrayConstants DEF Used
    <3>5. spawned \in Nat /\ budget \in Nat
      OBVIOUS
    <3>6. Cardinality(Pending') \in Nat /\ Cardinality(Pending') <= Cardinality(Pending)
      BY <3>2, FewerPending
    <3>7. spawned' = spawned
      BY <2>1
    <3>8. Cardinality(Pending) \in Nat /\ MaxAttempts \in Nat
      BY PendingIsFinite, XrayConstants
    <3> HIDE DEF world, state, children, bounds, history, At, Labels, Stopping, WatchdogAt, EnsureAt,
           XrayTypeOK
    <3>9. Used \in Nat /\ Cardinality(Pending') \in Nat
          /\ Cardinality(Pending') <= Cardinality(Pending) + 0 /\ 0 \in {0, 1}
      BY <2>2, <3>3, <3>6, <3>8
    <3>10. spawned + (MaxAttempts - Used) + Cardinality(Pending) <= budget
      BY DEF SpendInv
    <3>11. spawned + (MaxAttempts - Used') + Cardinality(Pending') <= budget'
      BY <3>3, <3>4, <3>5, <3>6, <3>8, <3>9, <3>10, SpendArithmetic
    <3> QED BY <3>7, <3>11 DEF SpendInv
  <2>4. CASE ~(attempts' > MaxAttempts)
    <3>1. pc' = [pc EXCEPT ![c] = "sleep"]
      BY <1>18, <2>4 DEF Count, Goto
    <3>2. Pending' = Pending \cup {c} /\ c \notin Pending
      BY <3>1, <2>1, TaskSets
    <3>3. Cardinality(Pending') = Cardinality(Pending) + 1
      BY <3>2, PendingIsFinite
    <3> HIDE DEF Pending
    <3>4. (MaxAttempts - Used') + 1 <= (MaxAttempts - Used) + (budget' - budget)
      BY <2>1, <2>4, XrayConstants DEF Used
    <3>5. Used' \in Nat /\ budget' \in Nat
      BY <2>1, <2>2, <2>4, XrayConstants DEF Used
    <3>6. spawned \in Nat /\ budget \in Nat
      OBVIOUS
    <3>7. spawned' = spawned
      BY <2>1
    <3>8. Cardinality(Pending) \in Nat /\ MaxAttempts \in Nat
      BY PendingIsFinite, XrayConstants
    <3> HIDE DEF world, state, children, bounds, history, At, Labels, Stopping, WatchdogAt, EnsureAt,
           XrayTypeOK
    <3>9. Used \in Nat /\ Cardinality(Pending') \in Nat
          /\ Cardinality(Pending') <= Cardinality(Pending) + 1 /\ 1 \in {0, 1}
      BY <2>2, <3>3, <3>6, <3>8
    <3>10. spawned + (MaxAttempts - Used) + Cardinality(Pending) <= budget
      BY DEF SpendInv
    <3>11. spawned + (MaxAttempts - Used') + Cardinality(Pending') <= budget'
      BY <3>3, <3>4, <3>5, <3>6, <3>8, <3>9, <3>10, SpendArithmetic
    <3> QED BY <3>7, <3>11 DEF SpendInv
  <2> QED BY <2>3, <2>4
<1>19. ASSUME NEW c \in Children, Wake(c) PROVE SpendInv'
  <2>1. Pending' \subseteq Pending
    BY <1>19, HomeOf, TaskSets DEF Wake, Goto
  <2>2. UNCHANGED <<spawned, attempts, budget>>
    BY <1>19 DEF Wake
  <2> QED BY <2>1, <2>2, FewerPending, PendingIsFinite, XrayConstants DEF SpendInv, Used
<1>20. ASSUME NEW c \in Children, ChildReads(c) PROVE SpendInv'
  <2>1. Pending' \subseteq Pending
    BY <1>20, HomeOf, TaskSets DEF ChildReads
  <2>2. UNCHANGED <<spawned, attempts, budget>>
    BY <1>20 DEF ChildReads
  <2> QED BY <2>1, <2>2, FewerPending, PendingIsFinite, XrayConstants DEF SpendInv, Used
<1>21. ASSUME NEW c \in Children, ChildCrashes(c) PROVE SpendInv'
  <2>1. Pending' \subseteq Pending
    BY <1>21, HomeOf, TaskSets DEF ChildCrashes, Dies
  <2>2. UNCHANGED <<spawned, attempts, budget>>
    BY <1>21 DEF ChildCrashes, Dies
  <2> QED BY <2>1, <2>2, FewerPending, PendingIsFinite, XrayConstants DEF SpendInv, Used
<1>22. ASSUME NEW c \in Children, ChildObeys(c) PROVE SpendInv'
  <2>1. Pending' \subseteq Pending
    BY <1>22, HomeOf, TaskSets DEF ChildObeys, Dies
  <2>2. UNCHANGED <<spawned, attempts, budget>>
    BY <1>22 DEF ChildObeys, Dies
  <2> QED BY <2>1, <2>2, FewerPending, PendingIsFinite, XrayConstants DEF SpendInv, Used
<1>23. CASE Shutdown
  <2>1. Pending' \subseteq Pending
    BY <1>23, HomeOf, TaskSets DEF Shutdown, Goto
  <2>2. UNCHANGED <<spawned, attempts, budget>>
    BY <1>23 DEF Shutdown
  <2> QED BY <2>1, <2>2, FewerPending, PendingIsFinite, XrayConstants DEF SpendInv, Used
<1>24. CASE Exit
  <2>1. Pending' \subseteq Pending
    BY <1>24, HomeOf, TaskSets DEF Exit, Goto
  <2>2. UNCHANGED <<spawned, attempts, budget>>
    BY <1>24 DEF Exit
  <2> QED BY <2>1, <2>2, FewerPending, PendingIsFinite, XrayConstants DEF SpendInv, Used
<1>25. CASE UNCHANGED vars
  <2>1. Pending' \subseteq Pending /\ UNCHANGED <<spawned, attempts, budget>>
    BY <1>25 DEF vars
  <2> QED BY <2>1, FewerPending, PendingIsFinite, XrayConstants DEF SpendInv, Used
<1> QED
  BY <1>1, <1>2, <1>3, <1>4, <1>5, <1>6, <1>7, <1>8, <1>9, <1>10, <1>11, <1>12, <1>13, <1>14, <1>15, <1>16,
         <1>17, <1>18, <1>19, <1>20, <1>21, <1>22, <1>23, <1>24, <1>25
     DEF Next, EnsureStep, StopStep, WatchdogStep, ChildStep

(* The inductive invariant.                                                *)
XrayInv == XrayTypeOK /\ TaskInv /\ ChildInv /\ RecordInv /\ WantedInv /\ LiveInv /\ ServedInv /\ SpendInv

(* It holds initially and every step keeps it.                             *)
LEMMA XrayInvHolds == Spec => []XrayInv
<1>1. Init => XrayInv
  <2> SUFFICES ASSUME Init PROVE XrayInv
    OBVIOUS
  <2>1. XrayTypeOK
    <3>1. NoLocal \in Locals
      BY XrayConstants DEF NoLocal, Locals, Labels
    <3>2. pc \in [Tasks -> Labels] /\ loc \in [Tasks -> Locals]
      <4>1. pc = [t \in Tasks |-> IF t = Main THEN "read" ELSE IF t \in Children THEN "off" ELSE "idle"]
        BY DEF Init
      <4>2. loc = [t \in Tasks |-> NoLocal]
        BY DEF Init
      <4>3. "read" \in Labels /\ "off" \in Labels /\ "idle" \in Labels
        BY DEF Labels, EnsureAt
      <4>4. pc \in [Tasks -> Labels]
        BY <4>1, <4>3
      <4>5. loc \in [Tasks -> Locals]
        BY <3>1, <4>2
      <4> QED BY <4>4, <4>5
    <3>3. /\ child \in [Children -> {"none", "up", "dead", "reaped"}] /\ cfg \in [Children -> Nat]
          /\ want \in [on : BOOLEAN, ver : Nat]
      BY DEF Init
    <3>4. 0 \in 0..MaxChildren /\ budget \in Nat
      BY XrayConstants DEF Init
    <3> QED BY <3>2, <3>3, <3>4 DEF Init, XrayTypeOK
  <2>2. \A t \in Tasks : pc[t] \in {"read", "off", "idle"} /\ loc[t] = NoLocal /\ (t \in Children <=> pc[t] = "off")
    BY TaskSets DEF Init
  <2>3. TaskInv /\ ChildInv /\ RecordInv /\ WantedInv /\ LiveInv /\ ServedInv
    <3>1. TaskInv
      BY <2>2 DEF TaskInv, NoLocal, Stopping
    <3>2. ChildInv
      BY <2>2, TaskSets DEF Init, ChildInv, Children
    <3>3. RecordInv /\ WantedInv /\ LiveInv /\ ServedInv
      BY DEF Init, RecordInv, WantedInv, LiveInv, ServedInv, Up
    <3> QED BY <3>1, <3>2, <3>3
  <2>4. Cardinality(Pending) = 0
    <3>1. Pending = {}
      BY <2>2, TaskSets DEF Pending, EnsureAt
    <3> QED BY <3>1, FS_EmptySet
  <2>5. SpendInv
    BY <2>4, XrayConstants DEF Init, SpendInv, Used
  <2> QED BY <2>1, <2>3, <2>5 DEF XrayInv
<1>2. XrayInv /\ [Next]_vars => XrayInv'
  BY XrayTypeStep, TaskStep, ChildStepKeeps, RecordStep, WantedStep, LiveStep, ServedStep,
         SpendStep DEF XrayInv
<1> QED
  BY <1>1, <1>2, PTL DEF Spec

(* A crash loop ends: no interleaving of crashes, watchdogs, requests and  *)
(* resets spawns more children than one and MaxAttempts restarts for each  *)
(* administrative start (spawn_watchdog, ensure_running_inner's            *)
(* reset_crash).                                                           *)
THEOREM SpawnBudgetHolds == Spec => []SpawnsAreBudgeted
<1>1. XrayInv => SpawnsAreBudgeted
  <2> SUFFICES ASSUME XrayInv PROVE spawned <= budget
    BY DEF SpawnsAreBudgeted
  <2>1. Used \in 0..MaxAttempts /\ spawned \in Nat /\ budget \in Nat
    BY XrayConstants DEF Used, XrayInv, XrayTypeOK
  <2> QED BY <2>1, PendingIsFinite, XrayConstants DEF XrayInv, SpendInv
<1> QED
  BY <1>1, XrayInvHolds, PTL

(* When all is quiet and the last task to take the mutex wanted a child,   *)
(* there is one, however reconciles, stops, crashes and watchdogs          *)
(* interleave (ensure_running_inner, spawn_watchdog).                      *)
THEOREM WantedChildIsUp == Spec => []LastReconcileWins
<1>1. XrayInv => LastReconcileWins
  <2> SUFFICES ASSUME XrayInv, AtRest, last = "up" PROVE \E c \in Children : Up(c)
    BY DEF LastReconcileWins
  <2>1. PICK c \in Children : OnItsWay(c)
    BY DEF XrayInv, WantedInv
  <2>2. pc[c] = "wait"
    BY <2>1 DEF OnItsWay, AtRest, WatchdogAt, EnsureAt
  <2> QED BY <2>2 DEF XrayInv, ChildInv, AtRest, Up
<1> QED
  BY <1>1, XrayInvHolds, PTL

(* When all is quiet every live child is the recorded one and runs the     *)
(* file on disk, unless another child's watchdog took its record           *)
(* (ensure_running_inner, stop_if_running, spawn_watchdog).                *)
THEOREM LiveChildIsServed == Spec => []LiveChildServesTheFile
<1>1. XrayInv => LiveChildServesTheFile
  <2> SUFFICES ASSUME XrayInv, AtRest, NEW c \in Children, Up(c), c \notin orphans
               PROVE  c = proc /\ cfg[c] = file
    BY DEF LiveChildServesTheFile
  <2>1. \A t \in Tasks : pc[t] \in {"serving", "idle", "off", "wait", "ended"}
    BY DEF AtRest, Tasks
  <2>2. c = proc
    BY <2>1 DEF XrayInv, LiveInv, Doomed
  <2>3. cfg[c] = file
    BY <2>1, <2>2, TaskSets DEF XrayInv, ServedInv, AtRest
  <2> QED BY <2>2, <2>3
<1> QED
  BY <1>1, XrayInvHolds, PTL

=============================================================================
