----------------------- MODULE ProxySupervisorProofs ------------------------
(* Machine-checked proofs about the two supervisors without a mutex around *)
(* their reconcile: the QQ-DNS engine's and the imitating proxy's. Both    *)
(* for any number of handlers, engines and settings saved; what is claimed *)
(* is claimed as long as no two reconciles overlap and no start failed,    *)
(* the conditions the properties themselves name.                          *)
EXTENDS MCDataplane, TLAPS

-----------------------------------------------------------------------------
(* The QQ-DNS supervisor.                                                  *)

(* The saved settings.                                                     *)
QsRows == [on : BOOLEAN, valid : BOOLEAN, port : 1..2, rest : 1..2]

(* What an engine was started with.                                        *)
QsConfigs == [port : 0..2, rest : 0..2]

(* The state of an engine's task.                                          *)
QsEngineStates == [st : {"unborn", "up", "aborted", "gone"}, cfg : QsConfigs]

(* What a handler holds at each of its steps.                              *)
QsTaskOK(t) ==
    /\ t.pc \in {"idle", "read", "decide", "start", "record", "failed"}
    /\ t.pc = "idle" => t = QS!Idle
    /\ t.pc = "decide" => t.row \in QsRows
    /\ t.pc = "start" => t.cfg \in QsConfigs
    /\ t.pc = "record" => t.eng \in QS!Engines

(* The types of the supervisor's state.                                    *)
EngineTypeOK ==
    /\ qsRow \in QsRows
    /\ qsLive \in {0} \cup QS!Engines
    /\ qsEng \in [QS!Engines -> QsEngineStates]
    /\ qsTask = [h \in QsHandlers |-> qsTask[h]]
    /\ \A h \in QsHandlers : QsTaskOK(qsTask[h])

(* At most one handler is inside ensure_running.                           *)
QsAlone == \A g, h \in QsHandlers : qsTask[g] # QS!Idle /\ qsTask[h] # QS!Idle => g = h

(* The engines that still run are among S.                                 *)
UpAre(S) == \A e \in QS!Engines : qsEng[e].st = "up" => e \in S

(* What a lone handler can rely on at each of its steps: the only engine   *)
(* up is the recorded one until it is stopped, and what it builds, it      *)
(* builds from the settings it read.                                       *)
EngineAt(t) ==
    /\ t.pc \in {"read", "decide"} => UpAre({qsLive})
    /\ t.pc = "decide" => t.row = qsRow
    /\ t.pc \in {"start", "failed"} => UpAre({})
    /\ t.pc \in {"start", "failed", "record"} => qsLive = 0
    /\ t.pc \in {"start", "record"} => ~QS!ShouldRemainDisabled(qsRow)
    /\ t.pc = "start" => t.cfg = QS!BuildEngineConfig(qsRow)
    /\ t.pc = "record" => UpAre({t.eng}) /\ qsEng[t.eng].cfg = QS!BuildEngineConfig(qsRow)

(* The inductive invariant: as long as no two reconciles overlapped, each  *)
(* handler's view is right and, at rest, the engine that runs is the       *)
(* recorded one with the saved settings.                                   *)
EngineInv ==
    ~qsOverlap =>
        /\ QsAlone
        /\ \A h \in QsHandlers : EngineAt(qsTask[h])
        /\ QS!AtRest => UpAre({qsLive})
        /\ QS!AtRest /\ ~qsFailed =>
            /\ QS!ShouldRemainDisabled(qsRow) => qsLive = 0
            /\ qsLive # 0 => qsEng[qsLive].cfg = QS!BuildEngineConfig(qsRow)

(* Stopping takes one engine down and touches no other.                    *)
LEMMA Stopped ==
    ASSUME EngineTypeOK, NEW e \in {0} \cup QS!Engines, QS!Stop(e)
    PROVE  /\ qsEng' \in [QS!Engines -> QsEngineStates]
           /\ \A d \in QS!Engines : qsEng'[d].cfg = qsEng[d].cfg
           /\ \A d \in QS!Engines : qsEng'[d].st = "up" => qsEng[d].st = "up" /\ d # e
<1>1. CASE e = 0
  <2>1. qsEng' = qsEng /\ e \notin QS!Engines
    BY <1>1 DEF QS!Stop, QS!Engines
  <2> QED BY <2>1 DEF EngineTypeOK
<1>2. CASE e # 0
  <2>1. qsEng' = [qsEng EXCEPT ![e].st = "aborted"] /\ e \in QS!Engines
    BY <1>2 DEF QS!Stop
  <2>2. qsEng \in [QS!Engines -> QsEngineStates]
    BY DEF EngineTypeOK
  <2>3. qsEng' \in [QS!Engines -> QsEngineStates]
    BY <2>1, <2>2 DEF QsEngineStates
  <2>4. qsEng'[e].st = "aborted" /\ qsEng'[e].cfg = qsEng[e].cfg
        /\ \A d \in QS!Engines \ {e} : qsEng'[d] = qsEng[d]
    BY <2>1, <2>2 DEF QsEngineStates
  <2> QED BY <2>3, <2>4
<1> QED BY <1>1, <1>2

(* A handler's step changes the place of that handler alone.               *)
LEMMA TaskGoes ==
    ASSUME EngineTypeOK, NEW h \in QsHandlers, NEW t, qsTask' = [qsTask EXCEPT ![h] = t], QsTaskOK(t)
    PROVE  /\ qsTask' = [g \in QsHandlers |-> qsTask'[g]] /\ qsTask'[h] = t
           /\ \A g \in QsHandlers \ {h} : qsTask'[g] = qsTask[g]
           /\ \A g \in QsHandlers : QsTaskOK(qsTask'[g])
<1>1. qsTask = [g \in QsHandlers |-> qsTask[g]] /\ \A g \in QsHandlers : QsTaskOK(qsTask[g])
  BY DEF EngineTypeOK
<1>2. qsTask'[h] = t /\ \A g \in QsHandlers \ {h} : qsTask'[g] = qsTask[g]
  BY <1>1
<1>3. qsTask' = [g \in QsHandlers |-> qsTask'[g]]
  BY <1>1
<1> QED BY <1>1, <1>2, <1>3

(* The step of a lone handler keeps EngineInv if it keeps what it relies   *)
(* on and, when it returns, leaves the engine at rest.                     *)
LEMMA OneHandler ==
    ASSUME EngineTypeOK, EngineInv, NEW h \in QsHandlers, qsTask[h] # QS!Idle, qsOverlap' = qsOverlap,
           \A g \in QsHandlers \ {h} : qsTask'[g] = qsTask[g],
           ~qsOverlap => EngineAt(qsTask[h])',
           ~qsOverlap /\ qsTask'[h] = QS!Idle => UpAre({qsLive})',
           ~qsOverlap /\ qsTask'[h] = QS!Idle /\ ~qsFailed' =>
                /\ QS!ShouldRemainDisabled(qsRow') => qsLive' = 0
                /\ qsLive' # 0 => qsEng'[qsLive'].cfg = QS!BuildEngineConfig(qsRow')
    PROVE  EngineInv'
<1> SUFFICES ASSUME ~qsOverlap' PROVE EngineInv'
  BY DEF EngineInv
<1>1. \A g \in QsHandlers \ {h} : qsTask[g] = QS!Idle /\ qsTask'[g] = QS!Idle
  BY DEF EngineInv, QsAlone
<1>2. QsAlone'
  BY <1>1 DEF QsAlone
<1>3. \A g \in QsHandlers : EngineAt(qsTask[g])'
  <2>1. ASSUME NEW g \in QsHandlers, g # h PROVE EngineAt(qsTask[g])'
    <3>1. qsTask'[g].pc = "idle"
      BY <1>1, <2>1 DEF QS!Idle
    <3> QED BY <3>1 DEF EngineAt
  <2> QED BY <2>1
<1>4. QS!AtRest' => qsTask'[h] = QS!Idle
  BY DEF QS!AtRest
<1> QED BY <1>2, <1>3, <1>4 DEF EngineInv, QS!ShouldRemainDisabled, QS!BuildEngineConfig

(* What engines do by themselves keeps EngineInv: they only end.           *)
LEMMA OthersStep ==
    ASSUME EngineTypeOK, EngineInv, UNCHANGED <<qsRow, qsTask, qsOverlap>>,
           \A d \in QS!Engines : qsEng'[d].cfg = qsEng[d].cfg,
           \A d \in QS!Engines : qsEng'[d].st = "up" => qsEng[d].st = "up",
           \/ qsLive' = qsLive /\ (qsFailed' = qsFailed \/ qsFailed')
           \/ qsLive' = 0 /\ \A d \in QS!Engines : qsEng'[d].st = "up" => d # qsLive
    PROVE  EngineInv'
<1> SUFFICES ASSUME ~qsOverlap PROVE EngineInv'
  BY DEF EngineInv
<1>0. qsLive \in {0} \cup QS!Engines /\ 0 \notin QS!Engines
  BY DEF EngineTypeOK, QS!Engines
<1>1. QsAlone'
  BY DEF EngineInv, QsAlone
<1>2. UpAre({qsLive}) => UpAre({qsLive})'
  BY DEF UpAre
<1>3. UpAre({}) => UpAre({})'
  BY DEF UpAre
<1>4. ASSUME NEW h \in QsHandlers PROVE EngineAt(qsTask[h])'
  <2>1. EngineAt(qsTask[h]) /\ QsTaskOK(qsTask[h])
    BY DEF EngineInv, EngineTypeOK
  <2>2. qsTask[h].pc = "record" /\ UpAre({qsTask[h].eng}) => UpAre({qsTask[h].eng})'
    BY DEF UpAre
  <2>3. qsLive = 0 => qsLive' = 0
    OBVIOUS
  <2> QED BY <1>2, <1>3, <2>1, <2>2, <2>3 DEF EngineAt, QsTaskOK
<1>5. QS!AtRest' => QS!AtRest
  BY DEF QS!AtRest
<1> QED BY <1>0, <1>1, <1>2, <1>4, <1>5 DEF EngineInv

(* A handler that enters ensure_running keeps EngineInv, or the overlap is *)
(* noted.                                                                  *)
LEMMA EngineBegins ==
    ASSUME EngineTypeOK, EngineInv, NEW h \in QsHandlers, QS!EnsureRunning(h), qsRow' \in QsRows
    PROVE  EngineTypeOK' /\ EngineInv'
<1> DEFINE t == [pc |-> "read"]
<1>1. qsTask[h] = QS!Idle /\ qsTask' = [qsTask EXCEPT ![h] = t] /\ UNCHANGED <<qsLive, qsEng, qsFailed>>
      /\ qsOverlap' = (qsOverlap \/ \E g \in QsHandlers : qsTask[g] # QS!Idle)
  BY DEF QS!EnsureRunning
<1>2. QsTaskOK(t) /\ t # QS!Idle /\ t.pc = "read"
  BY DEF QsTaskOK, QS!Idle
<1> HIDE DEF t
<1>3. qsTask' = [g \in QsHandlers |-> qsTask'[g]] /\ qsTask'[h] = t
      /\ (\A g \in QsHandlers \ {h} : qsTask'[g] = qsTask[g]) /\ \A g \in QsHandlers : QsTaskOK(qsTask'[g])
  BY <1>1, <1>2, TaskGoes
<1>4. EngineTypeOK'
  BY <1>1, <1>3 DEF EngineTypeOK
<1>5. ASSUME ~qsOverlap' PROVE EngineInv'
  <2>1. ~qsOverlap /\ QS!AtRest /\ \A g \in QsHandlers : qsTask[g] = QS!Idle
    BY <1>1, <1>5 DEF QS!AtRest
  <2>2. UpAre({qsLive})'
    BY <1>1, <2>1 DEF EngineInv, UpAre
  <2>3. QsAlone'
    BY <1>3, <2>1 DEF QsAlone
  <2>4. ASSUME NEW g \in QsHandlers PROVE EngineAt(qsTask[g])'
    <3>1. qsTask'[g].pc \in {"idle", "read"}
      BY <1>2, <1>3, <2>1 DEF QS!Idle
    <3> QED BY <2>2, <3>1 DEF EngineAt
  <2>5. ~QS!AtRest'
    BY <1>2, <1>3 DEF QS!AtRest
  <2> QED BY <2>2, <2>3, <2>4, <2>5 DEF EngineInv
<1>6. EngineInv'
  BY <1>5 DEF EngineInv
<1> QED BY <1>4, <1>6

(* Every step keeps the types and EngineInv.                               *)
LEMMA EngineStep ==
    ASSUME EngineTypeOK, EngineInv, [QS!Next]_(QS!vars)
    PROVE  EngineTypeOK' /\ EngineInv'
<1>z. 0 \notin QS!Engines
  BY DEF QS!Engines
<1>i. QsTaskOK(QS!Idle) /\ QS!Idle.pc = "idle"
  BY DEF QsTaskOK, QS!Idle
<1>1. ASSUME NEW h \in QsHandlers, QS!UpdateSettings(h) PROVE EngineTypeOK' /\ EngineInv'
  <2>1. qsRow' \in QsRows
    BY <1>1 DEF QS!UpdateSettings, QsRows
  <2> QED BY <1>1, <2>1, EngineBegins DEF QS!UpdateSettings
<1>2. ASSUME NEW h \in QsHandlers, QS!Restart(h) PROVE EngineTypeOK' /\ EngineInv'
  BY <1>2, EngineBegins DEF QS!Restart, EngineTypeOK
<1>3. ASSUME NEW h \in QsHandlers, QS!ReadSettings(h) PROVE EngineTypeOK' /\ EngineInv'
  <2> DEFINE t == [pc |-> "decide", row |-> qsRow]
  <2>1. qsTask[h].pc = "read" /\ qsTask' = [qsTask EXCEPT ![h] = t]
        /\ UNCHANGED <<qsRow, qsLive, qsEng, qsOverlap, qsFailed>>
    BY <1>3 DEF QS!ReadSettings, QS!Goto
  <2>2. QsTaskOK(t) /\ t.pc = "decide" /\ t.row = qsRow
    BY DEF QsTaskOK, EngineTypeOK
  <2> HIDE DEF t
  <2>3. qsTask' = [g \in QsHandlers |-> qsTask'[g]] /\ qsTask'[h] = t
        /\ (\A g \in QsHandlers \ {h} : qsTask'[g] = qsTask[g]) /\ \A g \in QsHandlers : QsTaskOK(qsTask'[g])
    BY <2>1, <2>2, TaskGoes
  <2>4. EngineTypeOK'
    BY <2>1, <2>3 DEF EngineTypeOK
  <2>5. qsTask[h] # QS!Idle /\ qsTask'[h] # QS!Idle
    BY <1>i, <2>1, <2>2, <2>3
  <2>6. ~qsOverlap => EngineAt(qsTask[h])'
    BY <2>1, <2>2, <2>3 DEF EngineInv, EngineAt, UpAre
  <2> QED BY <2>1, <2>3, <2>4, <2>5, <2>6, OneHandler
<1>4. ASSUME NEW h \in QsHandlers, QS!Decide(h) PROVE EngineTypeOK' /\ EngineInv'
  <2> DEFINE row == qsTask[h].row
             cfg == QS!BuildEngineConfig(row)
             same == /\ qsLive # 0 /\ qsEng[qsLive].st = "up"
                     /\ QS!ConfigSignature(qsEng[qsLive].cfg) = QS!ConfigSignature(cfg)
             t == [pc |-> "start", cfg |-> cfg]
  <2>1. qsTask[h].pc = "decide" /\ UNCHANGED <<qsRow, qsOverlap, qsFailed>>
    BY <1>4 DEF QS!Decide
  <2>2. row \in QsRows /\ cfg \in QsConfigs
    <3>1. row \in QsRows
      BY <2>1 DEF EngineTypeOK, QsTaskOK
    <3> QED BY <3>1 DEF QS!BuildEngineConfig, QsRows, QsConfigs
  <2>3. QsTaskOK(t) /\ t.pc = "start" /\ t.cfg = cfg
    BY <2>2 DEF QsTaskOK
  <2>4. qsTask[h] # QS!Idle
    BY <1>i, <2>1
  <2>5. ~qsOverlap => row = qsRow /\ UpAre({qsLive})
    BY <2>1 DEF EngineInv, EngineAt
  <2>6. CASE ~QS!ShouldRemainDisabled(row) /\ same
    <3>1. qsTask' = [qsTask EXCEPT ![h] = QS!Idle] /\ UNCHANGED <<qsLive, qsEng>>
      BY <1>4, <2>6 DEF QS!Decide, QS!Goto
    <3>2. qsTask' = [g \in QsHandlers |-> qsTask'[g]] /\ qsTask'[h] = QS!Idle
          /\ (\A g \in QsHandlers \ {h} : qsTask'[g] = qsTask[g]) /\ \A g \in QsHandlers : QsTaskOK(qsTask'[g])
      BY <3>1, <1>i, TaskGoes
    <3>3. EngineTypeOK'
      BY <2>1, <3>1, <3>2 DEF EngineTypeOK
    <3>4. ~qsOverlap => EngineAt(qsTask[h])'
      BY <3>2, <1>i DEF EngineAt
    <3>5. ~qsOverlap => UpAre({qsLive})'
      BY <2>5, <3>1 DEF UpAre
    <3>6. ~qsOverlap => /\ ~QS!ShouldRemainDisabled(qsRow)
                        /\ qsEng[qsLive].cfg = QS!BuildEngineConfig(qsRow)
      BY <2>5, <2>6 DEF QS!ConfigSignature
    <3> QED BY <2>1, <2>4, <3>1, <3>2, <3>3, <3>4, <3>5, <3>6, OneHandler
  <2>7. CASE ~(~QS!ShouldRemainDisabled(row) /\ same)
    <3> DEFINE u == IF QS!ShouldRemainDisabled(row) THEN QS!Idle ELSE t
    <3>1. qsTask' = [qsTask EXCEPT ![h] = u] /\ QS!Stop(qsLive) /\ qsLive' = 0
      BY <1>4, <2>7 DEF QS!Decide, QS!Goto
    <3>2. QsTaskOK(u) /\ u.pc \in {"idle", "start"}
          /\ (u.pc = "start" => u.cfg = cfg /\ ~QS!ShouldRemainDisabled(row))
      BY <1>i, <2>3
    <3> HIDE DEF u, t, cfg, row, same
    <3>3. qsTask' = [g \in QsHandlers |-> qsTask'[g]] /\ qsTask'[h] = u
          /\ (\A g \in QsHandlers \ {h} : qsTask'[g] = qsTask[g]) /\ \A g \in QsHandlers : QsTaskOK(qsTask'[g])
      BY <3>1, <3>2, TaskGoes
    <3>4. qsEng' \in [QS!Engines -> QsEngineStates]
          /\ \A d \in QS!Engines : qsEng'[d].st = "up" => qsEng[d].st = "up" /\ d # qsLive
      BY <3>1, Stopped DEF EngineTypeOK
    <3>5. EngineTypeOK'
      BY <2>1, <3>1, <3>3, <3>4 DEF EngineTypeOK
    <3>6. ~qsOverlap => UpAre({})' /\ UpAre({qsLive})'
      BY <2>5, <3>4 DEF UpAre
    <3>7. ~qsOverlap => EngineAt(qsTask[h])'
      BY <2>1, <2>5, <3>1, <3>2, <3>3, <3>6 DEF EngineAt, cfg
    <3> QED BY <2>1, <2>4, <3>1, <3>3, <3>5, <3>6, <3>7, OneHandler
  <2> QED BY <2>6, <2>7
<1>5. ASSUME NEW h \in QsHandlers, QS!Start(h) PROVE EngineTypeOK' /\ EngineInv'
  <2> DEFINE cfg == qsTask[h].cfg
             e == QS!Cardinality(QS!Started) + 1
  <2>1. qsTask[h].pc = "start" /\ UNCHANGED <<qsRow, qsLive, qsOverlap, qsFailed>> /\ qsTask[h] # QS!Idle
    BY <1>5, <1>i DEF QS!Start
  <2>2. cfg \in QsConfigs
    BY <2>1 DEF EngineTypeOK, QsTaskOK
  <2>3. ~qsOverlap => UpAre({}) /\ qsLive = 0 /\ ~QS!ShouldRemainDisabled(qsRow) /\ cfg = QS!BuildEngineConfig(qsRow)
    BY <2>1 DEF EngineInv, EngineAt
  <2>4. CASE \E x \in QS!Started : QS!Holds(x, cfg)
    <3> DEFINE t == [pc |-> "failed"]
    <3>1. qsTask' = [qsTask EXCEPT ![h] = t] /\ qsEng' = qsEng
      BY <1>5, <2>4 DEF QS!Start, QS!Goto
    <3>2. QsTaskOK(t) /\ t.pc = "failed"
      BY DEF QsTaskOK
    <3> HIDE DEF t
    <3>3. qsTask' = [g \in QsHandlers |-> qsTask'[g]] /\ qsTask'[h] = t
          /\ (\A g \in QsHandlers \ {h} : qsTask'[g] = qsTask[g]) /\ \A g \in QsHandlers : QsTaskOK(qsTask'[g])
      BY <3>1, <3>2, TaskGoes
    <3>4. EngineTypeOK' /\ qsTask'[h] # QS!Idle
      BY <2>1, <3>1, <3>2, <3>3, <1>i DEF EngineTypeOK
    <3>5. ~qsOverlap => EngineAt(qsTask[h])'
      BY <2>1, <2>3, <3>1, <3>2, <3>3 DEF EngineAt, UpAre
    <3> QED BY <2>1, <3>3, <3>4, <3>5, OneHandler
  <2>5. CASE ~\E x \in QS!Started : QS!Holds(x, cfg)
    <3> DEFINE t == [pc |-> "record", eng |-> e]
    <3>1. qsTask' = [qsTask EXCEPT ![h] = t] /\ e \in QS!Engines
          /\ qsEng' = [qsEng EXCEPT ![e] = [st |-> "up", cfg |-> cfg]]
      BY <1>5, <2>5 DEF QS!Start, QS!Goto
    <3> HIDE DEF e
    <3>2. QsTaskOK(t) /\ t.pc = "record" /\ t.eng = e
      BY <3>1 DEF QsTaskOK
    <3> HIDE DEF t, cfg
    <3>3. qsTask' = [g \in QsHandlers |-> qsTask'[g]] /\ qsTask'[h] = t
          /\ (\A g \in QsHandlers \ {h} : qsTask'[g] = qsTask[g]) /\ \A g \in QsHandlers : QsTaskOK(qsTask'[g])
      BY <3>1, <3>2, TaskGoes
    <3>4. qsEng' \in [QS!Engines -> QsEngineStates]
      BY <2>2, <3>1 DEF EngineTypeOK, QsEngineStates
    <3>5. qsEng'[e].cfg = cfg /\ \A d \in QS!Engines \ {e} : qsEng'[d] = qsEng[d]
      BY <3>1 DEF EngineTypeOK
    <3>6. EngineTypeOK' /\ qsTask'[h] # QS!Idle
      BY <2>1, <3>2, <3>3, <3>4, <1>i DEF EngineTypeOK
    <3>7. ~qsOverlap => EngineAt(qsTask[h])'
      <4> SUFFICES ASSUME ~qsOverlap PROVE EngineAt(qsTask[h])'
        OBVIOUS
      <4>1. UpAre({qsTask[h].eng})'
        BY <3>2, <3>3, <3>5, <2>3 DEF UpAre
      <4> QED BY <4>1, <2>1, <2>3, <3>2, <3>3, <3>5 DEF EngineAt
    <3> QED BY <2>1, <3>3, <3>6, <3>7, OneHandler
  <2> QED BY <2>4, <2>5
<1>6. ASSUME NEW h \in QsHandlers, QS!Record(h) PROVE EngineTypeOK' /\ EngineInv'
  <2>1. qsTask[h].pc = "record" /\ qsTask[h] # QS!Idle /\ qsLive' = qsTask[h].eng
        /\ qsTask' = [qsTask EXCEPT ![h] = QS!Idle]
        /\ UNCHANGED <<qsRow, qsEng, qsOverlap>> /\ qsTask[h].eng \in QS!Engines
    BY <1>6, <1>i DEF QS!Record, QS!Goto, EngineTypeOK, QsTaskOK
  <2>2. qsTask' = [g \in QsHandlers |-> qsTask'[g]] /\ qsTask'[h] = QS!Idle
        /\ (\A g \in QsHandlers \ {h} : qsTask'[g] = qsTask[g]) /\ \A g \in QsHandlers : QsTaskOK(qsTask'[g])
    BY <2>1, <1>i, TaskGoes
  <2>3. EngineTypeOK'
    BY <2>1, <2>2 DEF EngineTypeOK
  <2>4. ~qsOverlap => EngineAt(qsTask[h])'
    BY <2>2, <1>i DEF EngineAt
  <2>5. ~qsOverlap => UpAre({qsTask[h].eng}) /\ qsEng[qsTask[h].eng].cfg = QS!BuildEngineConfig(qsRow)
                      /\ ~QS!ShouldRemainDisabled(qsRow)
    BY <2>1 DEF EngineInv, EngineAt
  <2>6. ~qsOverlap => UpAre({qsLive})'
    BY <2>1, <2>5 DEF UpAre
  <2> QED BY <2>1, <2>2, <2>3, <2>4, <2>5, <2>6, OneHandler
<1>7. ASSUME NEW h \in QsHandlers, QS!RecordError(h) PROVE EngineTypeOK' /\ EngineInv'
  <2>1. qsTask[h].pc = "failed" /\ qsTask[h] # QS!Idle /\ qsFailed'
        /\ qsTask' = [qsTask EXCEPT ![h] = QS!Idle]
        /\ UNCHANGED <<qsRow, qsLive, qsEng, qsOverlap>>
    BY <1>7, <1>i DEF QS!RecordError, QS!Goto
  <2>2. qsTask' = [g \in QsHandlers |-> qsTask'[g]] /\ qsTask'[h] = QS!Idle
        /\ (\A g \in QsHandlers \ {h} : qsTask'[g] = qsTask[g]) /\ \A g \in QsHandlers : QsTaskOK(qsTask'[g])
    BY <2>1, <1>i, TaskGoes
  <2>3. EngineTypeOK'
    BY <2>1, <2>2 DEF EngineTypeOK
  <2>4. ~qsOverlap => EngineAt(qsTask[h])'
    BY <2>2, <1>i DEF EngineAt
  <2>5. ~qsOverlap => UpAre({})
    BY <2>1 DEF EngineInv, EngineAt
  <2>6. ~qsOverlap => UpAre({qsLive})'
    BY <2>1, <2>5 DEF UpAre
  <2> QED BY <2>1, <2>2, <2>3, <2>4, <2>6, OneHandler
<1>8. CASE QS!Status
  <2>1. qsLive \in {0} \cup QS!Engines /\ QS!Stop(qsLive) /\ qsLive' = 0
        /\ UNCHANGED <<qsRow, qsTask, qsOverlap>>
    BY <1>8 DEF QS!Status, EngineTypeOK
  <2>2. qsEng' \in [QS!Engines -> QsEngineStates] /\ (\A d \in QS!Engines : qsEng'[d].cfg = qsEng[d].cfg)
        /\ \A d \in QS!Engines : qsEng'[d].st = "up" => qsEng[d].st = "up" /\ d # qsLive
    BY <2>1, Stopped
  <2>3. EngineTypeOK'
    BY <2>1, <2>2 DEF EngineTypeOK
  <2> QED BY <2>1, <2>2, <2>3, OthersStep
<1>9. CASE QS!ShutdownForExit
  <2>1. qsLive \in {0} \cup QS!Engines /\ QS!Stop(qsLive) /\ qsLive' = 0
        /\ UNCHANGED <<qsRow, qsTask, qsOverlap>>
    BY <1>9 DEF QS!ShutdownForExit, EngineTypeOK
  <2>2. qsEng' \in [QS!Engines -> QsEngineStates] /\ (\A d \in QS!Engines : qsEng'[d].cfg = qsEng[d].cfg)
        /\ \A d \in QS!Engines : qsEng'[d].st = "up" => qsEng[d].st = "up" /\ d # qsLive
    BY <2>1, Stopped
  <2>3. EngineTypeOK'
    BY <2>1, <2>2 DEF EngineTypeOK
  <2> QED BY <2>1, <2>2, <2>3, OthersStep
<1>10. ASSUME NEW e \in QS!Engines, QS!Dropped(e) \/ QS!Panics(e) PROVE EngineTypeOK' /\ EngineInv'
  <2>1. PICK s \in {"gone", "aborted"} : qsEng' = [qsEng EXCEPT ![e].st = s]
    BY <1>10 DEF QS!Dropped, QS!Panics
  <2>2. UNCHANGED <<qsRow, qsTask, qsOverlap, qsLive>> /\ (qsFailed' = qsFailed \/ qsFailed')
    BY <1>10 DEF QS!Dropped, QS!Panics
  <2>3. qsEng' \in [QS!Engines -> QsEngineStates]
    BY <2>1 DEF EngineTypeOK, QsEngineStates
  <2>4. (\A d \in QS!Engines : qsEng'[d].cfg = qsEng[d].cfg)
        /\ \A d \in QS!Engines : qsEng'[d].st = "up" => qsEng[d].st = "up"
    BY <2>1 DEF EngineTypeOK, QsEngineStates
  <2>5. EngineTypeOK'
    BY <2>2, <2>3 DEF EngineTypeOK
  <2> QED BY <2>2, <2>4, <2>5, OthersStep
<1>11. CASE UNCHANGED QS!vars
  <2>1. EngineTypeOK'
    BY <1>11 DEF QS!vars, EngineTypeOK
  <2> QED BY <1>11, <2>1, OthersStep DEF QS!vars
<1> QED
  BY <1>1, <1>2, <1>3, <1>4, <1>5, <1>6, <1>7, <1>8, <1>9, <1>10, <1>11 DEF QS!Next

(* At rest the engine that runs has the settings as saved, unless          *)
(* reconciles overlapped or a start failed (qqtunnel's ensure_running and  *)
(* stop).                                                                  *)
THEOREM EngineKeepsTheSettings == QS!Spec => []EngineHasTheSettings
<1>1. QS!Init => EngineTypeOK /\ EngineInv
  <2> SUFFICES ASSUME QS!Init PROVE EngineTypeOK /\ EngineInv
    OBVIOUS
  <2>1. EngineTypeOK
    BY DEF QS!Init, EngineTypeOK, QsRows, QsEngineStates, QsConfigs, QsTaskOK, QS!Idle
  <2>2. EngineInv
    BY DEF QS!Init, EngineInv, QsAlone, EngineAt, UpAre, QS!Idle
  <2> QED BY <2>1, <2>2
<1>2. EngineTypeOK /\ EngineInv => EngineHasTheSettings
  BY DEF EngineInv, EngineHasTheSettings, QS!EngineHasTheSettings, QS!Up, UpAre
<1> QED BY <1>1, <1>2, EngineStep, PTL DEF QS!Spec

-----------------------------------------------------------------------------
(* The imitating proxy's supervisor.                                       *)

(* The saved settings.                                                     *)
PxRows == [on : BOOLEAN, valid : BOOLEAN, hashed : 1..2, caps : 1..2]

(* What a run of the proxy was started with.                               *)
PxConfigs == [hashed : 0..2, caps : 0..2]

(* The state of a run's task.                                              *)
PxRunStates == [st : {"unborn", "up", "stopping", "gone"}, cfg : PxConfigs]

(* What a handler holds at each of its steps.                              *)
PxTaskOK(t) ==
    /\ t.pc \in {"idle", "save", "lockdown", "down", "up", "read", "check", "take", "wait", "bind", "record"}
    /\ t.pc = "idle" => t = PX!Idle
    /\ t.pc = "check" => t.row \in PxRows
    /\ t.pc \in {"take", "wait", "bind"} => t.cfg \in PxConfigs
    /\ t.pc = "wait" => t.run \in {0} \cup PX!Runs
    /\ t.pc = "record" => t.run \in PX!Runs

(* The types of the supervisor's state.                                    *)
ProxyTypeOK ==
    /\ pxRow \in PxRows
    /\ pxLive \in {0} \cup PX!Runs
    /\ pxRun \in [PX!Runs -> PxRunStates]
    /\ pxTask = [h \in PxHandlers |-> pxTask[h]]
    /\ \A h \in PxHandlers : PxTaskOK(pxTask[h])
    /\ pxConf \in {"public", "backend"} /\ pxWg \in {"public", "backend", "down"} /\ pxChain \in BOOLEAN

(* At most one handler is inside apply_and_reconcile.                      *)
PxAlone == \A g, h \in PxHandlers : pxTask[g] # PX!Idle /\ pxTask[h] # PX!Idle => g = h

(* The runs that still hold the public port are among S.                   *)
RunsAre(S) == \A g \in PX!Runs : pxRun[g].st \in {"up", "stopping"} => g \in S

(* The file, the chain and, when the proxy is active, AmneziaWG agree on   *)
(* who listens where.                                                      *)
Fronted == /\ pxConf = PX!EffectiveListenPort
           /\ pxChain = (pxConf = "backend")
           /\ PX!IsActive => pxWg = "backend"

(* What the reconcile decided is what the settings ask for.                *)
Wanted(cfg) == cfg = IF PX!IsActive THEN PX!BuildConfig(pxRow) ELSE PX!NoCfg

(* What a lone handler can rely on at each of its steps: first the file,   *)
(* then the chain and the interface follow the settings, and only then is  *)
(* the old run stopped and the next one bound.                             *)
ProxyAt(t) ==
    /\ t.pc \in {"save", "lockdown", "down", "up", "read", "check", "take"} => RunsAre({pxLive})
    /\ t.pc \in {"lockdown", "down", "up"} => pxConf = PX!EffectiveListenPort
    /\ t.pc \in {"down", "up"} => pxChain = (pxConf = "backend")
    /\ t.pc \in {"read", "check", "take", "wait", "bind", "record"} => Fronted
    /\ t.pc = "check" => t.row = pxRow
    /\ t.pc \in {"take", "wait", "bind"} => Wanted(t.cfg)
    /\ t.pc \in {"wait", "bind", "record"} => pxLive = 0
    /\ t.pc = "wait" => RunsAre({t.run})
    /\ t.pc = "bind" => RunsAre({}) 
    /\ t.pc \in {"bind", "record"} => PX!IsActive
    /\ t.pc = "record" => RunsAre({t.run}) /\ pxRun[t.run].cfg = PX!BuildConfig(pxRow)

(* At rest: the recorded run is the only one, and it runs what is saved    *)
(* exactly when the proxy is active.                                       *)
ProxyRests ==
    /\ RunsAre({pxLive}) /\ Fronted
    /\ PX!IsActive => pxLive # 0 /\ pxRun[pxLive].cfg.hashed = pxRow.hashed
    /\ ~PX!IsActive => pxLive = 0

(* The inductive invariant, as long as reconciles did not overlap and      *)
(* nothing failed.                                                         *)
ProxyInv ==
    ~pxOverlap /\ ~pxFailed =>
        /\ PxAlone
        /\ \A h \in PxHandlers : ProxyAt(pxTask[h])
        /\ PX!AtRest => ProxyRests

(* A handler's step changes the place of that handler alone.               *)
LEMMA PxTaskGoes ==
    ASSUME ProxyTypeOK, NEW h \in PxHandlers, NEW t, pxTask' = [pxTask EXCEPT ![h] = t], PxTaskOK(t)
    PROVE  /\ pxTask' = [g \in PxHandlers |-> pxTask'[g]] /\ pxTask'[h] = t
           /\ \A g \in PxHandlers \ {h} : pxTask'[g] = pxTask[g]
           /\ \A g \in PxHandlers : PxTaskOK(pxTask'[g])
<1>1. pxTask = [g \in PxHandlers |-> pxTask[g]] /\ \A g \in PxHandlers : PxTaskOK(pxTask[g])
  BY DEF ProxyTypeOK
<1>2. pxTask'[h] = t /\ \A g \in PxHandlers \ {h} : pxTask'[g] = pxTask[g]
  BY <1>1
<1>3. pxTask' = [g \in PxHandlers |-> pxTask'[g]]
  BY <1>1
<1> QED BY <1>1, <1>2, <1>3

(* The step of a lone handler keeps ProxyInv if it keeps what it relies on *)
(* and, when it returns, leaves the proxy at rest.                         *)
LEMMA PxOneHandler ==
    ASSUME ProxyInv, NEW h \in PxHandlers, pxTask[h] # PX!Idle, pxOverlap' = pxOverlap,
           ~pxFailed' => ~pxFailed,
           \A g \in PxHandlers \ {h} : pxTask'[g] = pxTask[g],
           ~pxOverlap /\ ~pxFailed' => ProxyAt(pxTask[h])',
           ~pxOverlap /\ ~pxFailed' /\ pxTask'[h] = PX!Idle => ProxyRests'
    PROVE  ProxyInv'
<1> SUFFICES ASSUME ~pxOverlap', ~pxFailed' PROVE ProxyInv'
  BY DEF ProxyInv
<1>1. \A g \in PxHandlers \ {h} : pxTask[g] = PX!Idle /\ pxTask'[g] = PX!Idle
  BY DEF ProxyInv, PxAlone
<1>2. PxAlone'
  BY <1>1 DEF PxAlone
<1>3. \A g \in PxHandlers : ProxyAt(pxTask[g])'
  <2>1. ASSUME NEW g \in PxHandlers, g # h PROVE ProxyAt(pxTask[g])'
    <3>1. pxTask'[g].pc = "idle"
      BY <1>1, <2>1 DEF PX!Idle
    <3> QED BY <3>1 DEF ProxyAt
  <2> QED BY <2>1
<1>4. PX!AtRest' => pxTask'[h] = PX!Idle
  BY DEF PX!AtRest
<1> QED BY <1>2, <1>3, <1>4 DEF ProxyInv

(* A handler that enters apply_and_reconcile keeps ProxyInv, or the        *)
(* overlap is noted.                                                       *)
LEMMA ProxyBegins ==
    ASSUME ProxyTypeOK, ProxyInv, NEW h \in PxHandlers, PX!ApplyAndReconcile(h), pxRow' \in PxRows
    PROVE  ProxyTypeOK' /\ ProxyInv'
<1> DEFINE t == [pc |-> "save"]
<1>1. pxTask[h] = PX!Idle /\ pxTask' = [pxTask EXCEPT ![h] = t]
      /\ UNCHANGED <<pxConf, pxWg, pxChain, pxRun, pxLive, pxFailed>>
      /\ pxOverlap' = (pxOverlap \/ \E g \in PxHandlers : pxTask[g] # PX!Idle)
  BY DEF PX!ApplyAndReconcile, PX!Goto, PX!wgVars
<1>2. PxTaskOK(t) /\ t # PX!Idle /\ t.pc = "save"
  BY DEF PxTaskOK, PX!Idle
<1> HIDE DEF t
<1>3. pxTask' = [g \in PxHandlers |-> pxTask'[g]] /\ pxTask'[h] = t
      /\ (\A g \in PxHandlers \ {h} : pxTask'[g] = pxTask[g]) /\ \A g \in PxHandlers : PxTaskOK(pxTask'[g])
  BY <1>1, <1>2, PxTaskGoes
<1>4. ProxyTypeOK'
  BY <1>1, <1>3 DEF ProxyTypeOK
<1>5. ASSUME ~pxOverlap', ~pxFailed' PROVE ProxyInv'
  <2>1. ~pxOverlap /\ PX!AtRest /\ \A g \in PxHandlers : pxTask[g] = PX!Idle
    BY <1>1, <1>5 DEF PX!AtRest
  <2>2. RunsAre({pxLive})'
    BY <1>1, <1>5, <2>1 DEF ProxyInv, ProxyRests, RunsAre
  <2>3. PxAlone'
    BY <1>3, <2>1 DEF PxAlone
  <2>4. ASSUME NEW g \in PxHandlers PROVE ProxyAt(pxTask[g])'
    <3>1. pxTask'[g].pc \in {"idle", "save"}
      BY <1>2, <1>3, <2>1 DEF PX!Idle
    <3> QED BY <2>2, <3>1 DEF ProxyAt
  <2>5. ~PX!AtRest'
    BY <1>2, <1>3 DEF PX!AtRest
  <2> QED BY <2>3, <2>4, <2>5 DEF ProxyInv
<1>6. ProxyInv'
  BY <1>5 DEF ProxyInv
<1> QED BY <1>4, <1>6

(* A run that ends by itself gives up the port and keeps ProxyInv.         *)
LEMMA RunEnds ==
    ASSUME ProxyTypeOK, ProxyInv, UNCHANGED <<pxRow, pxConf, pxWg, pxChain, pxLive, pxTask, pxOverlap, pxFailed>>,
           \A d \in PX!Runs : pxRun'[d].cfg = pxRun[d].cfg,
           \A d \in PX!Runs : pxRun'[d].st \in {"up", "stopping"} => pxRun[d].st \in {"up", "stopping"}
    PROVE  ProxyInv'
<1> SUFFICES ASSUME ~pxOverlap, ~pxFailed PROVE ProxyInv'
  BY DEF ProxyInv
<1>1. PxAlone'
  BY DEF ProxyInv, PxAlone
<1>2. (PX!IsActive' <=> PX!IsActive) /\ PX!EffectiveListenPort' = PX!EffectiveListenPort
  BY DEF PX!IsActive, PX!EffectiveListenPort
<1>3. Fronted => Fronted'
  BY <1>2 DEF Fronted
<1>4. ASSUME NEW h \in PxHandlers PROVE ProxyAt(pxTask[h])'
  <2>1. ProxyAt(pxTask[h]) /\ PxTaskOK(pxTask[h])
    BY DEF ProxyInv, ProxyTypeOK
  <2>2. (RunsAre({pxLive}) => RunsAre({pxLive})') /\ (RunsAre({}) => RunsAre({})')
    BY DEF RunsAre
  <2>3. RunsAre({pxTask[h].run}) => RunsAre({pxTask[h].run})'
    BY DEF RunsAre
  <2>4. Wanted(pxTask[h].cfg) => Wanted(pxTask[h].cfg)'
    BY <1>2 DEF Wanted
  <2>5. pxTask[h].pc = "record" => pxRun'[pxTask[h].run].cfg = pxRun[pxTask[h].run].cfg
    BY <2>1 DEF PxTaskOK
  <2> QED BY <1>2, <1>3, <2>1, <2>2, <2>3, <2>4, <2>5 DEF ProxyAt
<1>5. PX!AtRest' => PX!AtRest
  BY DEF PX!AtRest
<1>6. ProxyRests => ProxyRests'
  <2>1. RunsAre({pxLive}) => RunsAre({pxLive})'
    BY DEF RunsAre
  <2> QED BY <1>2, <1>3, <2>1 DEF ProxyRests, ProxyTypeOK
<1> QED BY <1>1, <1>4, <1>5, <1>6 DEF ProxyInv

(* Every step keeps the types and ProxyInv.                                *)
LEMMA ProxyStep ==
    ASSUME ProxyTypeOK, ProxyInv, [PX!Next]_(PX!vars)
    PROVE  ProxyTypeOK' /\ ProxyInv'
<1>z. 0 \notin PX!Runs
  BY DEF PX!Runs
<1>i. PxTaskOK(PX!Idle) /\ PX!Idle.pc = "idle"
  BY DEF PxTaskOK, PX!Idle
<1>p. PX!EffectiveListenPort \in {"public", "backend"} /\ (PX!IsActive <=> PX!EffectiveListenPort = "backend")
  BY DEF PX!EffectiveListenPort
<1>1. ASSUME NEW h \in PxHandlers, PX!UpdateSettings(h) PROVE ProxyTypeOK' /\ ProxyInv'
  <2>1. pxRow' \in PxRows
    BY <1>1 DEF PX!UpdateSettings, PxRows
  <2> QED BY <1>1, <2>1, ProxyBegins DEF PX!UpdateSettings
<1>2. ASSUME NEW h \in PxHandlers, PX!Restart(h) PROVE ProxyTypeOK' /\ ProxyInv'
  BY <1>2, ProxyBegins DEF PX!Restart, ProxyTypeOK
<1>3. ASSUME NEW h \in PxHandlers, PX!SaveConfig(h) PROVE ProxyTypeOK' /\ ProxyInv'
  <2> DEFINE t == [pc |-> "lockdown"]
  <2>1. pxTask[h].pc = "save" /\ pxTask' = [pxTask EXCEPT ![h] = t] /\ pxConf' = PX!EffectiveListenPort
        /\ UNCHANGED <<pxRow, pxChain, pxRun, pxLive, pxOverlap, pxFailed>>
    BY <1>3 DEF PX!SaveConfig, PX!Goto
  <2>2. pxWg' \in {pxWg, pxConf'}
    BY <1>3 DEF PX!SaveConfig
  <2>3. PxTaskOK(t) /\ t.pc = "lockdown"
    BY DEF PxTaskOK
  <2> HIDE DEF t
  <2>4. pxTask' = [g \in PxHandlers |-> pxTask'[g]] /\ pxTask'[h] = t
        /\ (\A g \in PxHandlers \ {h} : pxTask'[g] = pxTask[g]) /\ \A g \in PxHandlers : PxTaskOK(pxTask'[g])
    BY <2>1, <2>3, PxTaskGoes
  <2>5. ProxyTypeOK'
    BY <1>p, <2>1, <2>2, <2>4 DEF ProxyTypeOK
  <2>6. pxTask[h] # PX!Idle /\ pxTask'[h] # PX!Idle
    BY <1>i, <2>1, <2>3, <2>4
  <2>7. ~pxOverlap /\ ~pxFailed' => ProxyAt(pxTask[h])'
    BY <2>1, <2>3, <2>4 DEF ProxyInv, ProxyAt, RunsAre, PX!EffectiveListenPort, PX!IsActive
  <2> QED BY <2>1, <2>4, <2>5, <2>6, <2>7, PxOneHandler
<1>4. ASSUME NEW h \in PxHandlers, PX!Lockdown(h) PROVE ProxyTypeOK' /\ ProxyInv'
  <2> DEFINE t == [pc |-> "down"]
  <2>1. pxTask[h].pc = "lockdown" /\ UNCHANGED <<pxRow, pxConf, pxWg, pxRun, pxLive, pxOverlap>>
        /\ pxTask[h] # PX!Idle
    BY <1>4, <1>i DEF PX!Lockdown
  <2>2. PxTaskOK(t) /\ t.pc = "down"
    BY DEF PxTaskOK
  <2>3. CASE pxChain' = (PX!EffectiveListenPort = "backend") /\ PX!Goto(h, t) /\ PX!NoFault
    <3> HIDE DEF t
    <3>1. pxTask' = [pxTask EXCEPT ![h] = t] /\ pxFailed' = pxFailed /\ pxChain' \in BOOLEAN
          /\ (pxChain' = (PX!EffectiveListenPort = "backend"))
      BY <2>3 DEF PX!Goto, PX!NoFault
    <3>2. pxTask' = [g \in PxHandlers |-> pxTask'[g]] /\ pxTask'[h] = t
          /\ (\A g \in PxHandlers \ {h} : pxTask'[g] = pxTask[g]) /\ \A g \in PxHandlers : PxTaskOK(pxTask'[g])
      BY <3>1, <2>2, PxTaskGoes
    <3>3. ProxyTypeOK'
      BY <2>1, <3>1, <3>2 DEF ProxyTypeOK
    <3>4. pxTask'[h] # PX!Idle
      BY <1>i, <2>2, <3>2
    <3>5. ~pxOverlap /\ ~pxFailed' => ProxyAt(pxTask[h])'
      <4> SUFFICES ASSUME ~pxOverlap, ~pxFailed' PROVE ProxyAt(pxTask[h])'
        OBVIOUS
      <4>1. RunsAre({pxLive})' /\ pxConf = PX!EffectiveListenPort
        BY <2>1, <3>1 DEF ProxyInv, ProxyAt, RunsAre
      <4>2. pxConf' = PX!EffectiveListenPort' /\ pxChain' = (pxConf' = "backend")
        BY <2>1, <3>1, <4>1 DEF PX!EffectiveListenPort, PX!IsActive
      <4> QED BY <2>2, <3>2, <4>1, <4>2 DEF ProxyAt
    <3> QED BY <2>1, <3>1, <3>2, <3>3, <3>4, <3>5, PxOneHandler
  <2>4. CASE PX!Fault /\ UNCHANGED pxChain /\ PX!Goto(h, IF pxRow.on THEN PX!Idle ELSE t)
    <3> DEFINE u == IF pxRow.on THEN PX!Idle ELSE t
    <3>1. pxTask' = [pxTask EXCEPT ![h] = u] /\ pxFailed' /\ pxChain' = pxChain
      BY <2>4 DEF PX!Goto, PX!Fault
    <3>2. PxTaskOK(u)
      BY <1>i, <2>2
    <3> HIDE DEF u, t
    <3>3. pxTask' = [g \in PxHandlers |-> pxTask'[g]] /\ pxTask'[h] = u
          /\ (\A g \in PxHandlers \ {h} : pxTask'[g] = pxTask[g]) /\ \A g \in PxHandlers : PxTaskOK(pxTask'[g])
      BY <3>1, <3>2, PxTaskGoes
    <3>4. ProxyTypeOK'
      BY <2>1, <3>1, <3>3 DEF ProxyTypeOK
    <3> QED BY <3>1, <3>4 DEF ProxyInv
  <2> QED BY <1>4, <2>3, <2>4 DEF PX!Lockdown
<1>5. ASSUME NEW h \in PxHandlers, PX!WgDown(h) PROVE ProxyTypeOK' /\ ProxyInv'
  <2> DEFINE t == [pc |-> "up"]
  <2>1. pxTask[h].pc = "down" /\ pxTask' = [pxTask EXCEPT ![h] = t] /\ pxWg' = "down"
        /\ UNCHANGED <<pxRow, pxConf, pxChain, pxRun, pxLive, pxOverlap, pxFailed>>
    BY <1>5 DEF PX!WgDown, PX!Goto
  <2>2. PxTaskOK(t) /\ t.pc = "up"
    BY DEF PxTaskOK
  <2> HIDE DEF t
  <2>3. pxTask' = [g \in PxHandlers |-> pxTask'[g]] /\ pxTask'[h] = t
        /\ (\A g \in PxHandlers \ {h} : pxTask'[g] = pxTask[g]) /\ \A g \in PxHandlers : PxTaskOK(pxTask'[g])
    BY <2>1, <2>2, PxTaskGoes
  <2>4. ProxyTypeOK'
    BY <2>1, <2>3 DEF ProxyTypeOK
  <2>5. pxTask[h] # PX!Idle /\ pxTask'[h] # PX!Idle
    BY <1>i, <2>1, <2>2, <2>3
  <2>6. ~pxOverlap /\ ~pxFailed' => ProxyAt(pxTask[h])'
    BY <2>1, <2>2, <2>3 DEF ProxyInv, ProxyAt, RunsAre, PX!EffectiveListenPort, PX!IsActive
  <2> QED BY <2>1, <2>3, <2>4, <2>5, <2>6, PxOneHandler
<1>6. ASSUME NEW h \in PxHandlers, PX!WgUp(h) PROVE ProxyTypeOK' /\ ProxyInv'
  <2> DEFINE t == [pc |-> "read"]
  <2>1. pxTask[h].pc = "up" /\ pxTask' = [pxTask EXCEPT ![h] = t]
        /\ UNCHANGED <<pxRow, pxConf, pxChain, pxRun, pxLive, pxOverlap>>
    BY <1>6 DEF PX!WgUp, PX!Goto
  <2>2. (pxWg' = (IF PX!Busy(pxConf) THEN "down" ELSE pxConf) /\ pxFailed' = pxFailed) \/ (pxFailed' /\ pxWg' = pxWg)
    BY <1>6 DEF PX!WgUp, PX!NoFault, PX!Fault
  <2>3. PxTaskOK(t) /\ t.pc = "read"
    BY DEF PxTaskOK
  <2> HIDE DEF t
  <2>4. pxTask' = [g \in PxHandlers |-> pxTask'[g]] /\ pxTask'[h] = t
        /\ (\A g \in PxHandlers \ {h} : pxTask'[g] = pxTask[g]) /\ \A g \in PxHandlers : PxTaskOK(pxTask'[g])
    BY <2>1, <2>3, PxTaskGoes
  <2>5. ProxyTypeOK'
    BY <2>1, <2>2, <2>4 DEF ProxyTypeOK
  <2>6. pxTask[h] # PX!Idle /\ pxTask'[h] # PX!Idle /\ (~pxFailed' => ~pxFailed)
    BY <1>i, <2>1, <2>2, <2>3, <2>4
  <2>7. ~pxOverlap /\ ~pxFailed' => ProxyAt(pxTask[h])'
    <3> SUFFICES ASSUME ~pxOverlap, ~pxFailed' PROVE ProxyAt(pxTask[h])'
      OBVIOUS
    <3>1. RunsAre({pxLive})' /\ pxConf = PX!EffectiveListenPort /\ pxChain = (pxConf = "backend")
      BY <2>1, <2>6 DEF ProxyInv, ProxyAt, RunsAre
    <3>2. Fronted'
      BY <2>1, <2>2, <3>1 DEF Fronted, PX!EffectiveListenPort, PX!IsActive, PX!Busy
    <3> QED BY <2>3, <2>4, <3>1, <3>2 DEF ProxyAt
  <2> QED BY <2>1, <2>4, <2>5, <2>6, <2>7, PxOneHandler
<1>7. ASSUME NEW h \in PxHandlers, PX!ReadSettings(h) PROVE ProxyTypeOK' /\ ProxyInv'
  <2> DEFINE t == [pc |-> "check", row |-> pxRow]
  <2>1. pxTask[h].pc = "read" /\ pxTask' = [pxTask EXCEPT ![h] = t]
        /\ UNCHANGED <<pxRow, pxConf, pxWg, pxChain, pxRun, pxLive, pxOverlap, pxFailed>>
    BY <1>7 DEF PX!ReadSettings, PX!Goto, PX!wgVars
  <2>2. PxTaskOK(t) /\ t.pc = "check" /\ t.row = pxRow
    BY DEF PxTaskOK, ProxyTypeOK
  <2> HIDE DEF t
  <2>3. pxTask' = [g \in PxHandlers |-> pxTask'[g]] /\ pxTask'[h] = t
        /\ (\A g \in PxHandlers \ {h} : pxTask'[g] = pxTask[g]) /\ \A g \in PxHandlers : PxTaskOK(pxTask'[g])
    BY <2>1, <2>2, PxTaskGoes
  <2>4. ProxyTypeOK'
    BY <2>1, <2>3 DEF ProxyTypeOK
  <2>5. pxTask[h] # PX!Idle /\ pxTask'[h] # PX!Idle
    BY <1>i, <2>1, <2>2, <2>3
  <2>6. ~pxOverlap /\ ~pxFailed' => ProxyAt(pxTask[h])'
    BY <2>1, <2>2, <2>3 DEF ProxyInv, ProxyAt, RunsAre, Fronted, PX!EffectiveListenPort, PX!IsActive
  <2> QED BY <2>1, <2>3, <2>4, <2>5, <2>6, PxOneHandler
<1>8. ASSUME NEW h \in PxHandlers, PX!Check(h) PROVE ProxyTypeOK' /\ ProxyInv'
  <2> DEFINE row == pxTask[h].row
             cfg == PX!BuildConfig(row)
             same == pxLive # 0 /\ PX!HashConfig(pxRun[pxLive].cfg) = PX!HashConfig(cfg)
             t == IF PX!ShouldRemainDisabled(row) THEN [pc |-> "take", cfg |-> PX!NoCfg]
                  ELSE IF same THEN PX!Idle ELSE [pc |-> "take", cfg |-> cfg]
  <2>1. pxTask[h].pc = "check" /\ pxTask' = [pxTask EXCEPT ![h] = t] /\ pxTask[h] # PX!Idle
        /\ UNCHANGED <<pxRow, pxConf, pxWg, pxChain, pxRun, pxLive, pxOverlap, pxFailed>>
    BY <1>8, <1>i DEF PX!Check, PX!Goto, PX!wgVars
  <2>2. row \in PxRows
    BY <2>1 DEF ProxyTypeOK, PxTaskOK
  <2>3. cfg \in PxConfigs /\ PX!NoCfg \in PxConfigs /\ cfg.hashed = row.hashed
    BY <2>2 DEF PX!BuildConfig, PX!NoCfg, PxRows, PxConfigs
  <2>4. /\ PxTaskOK(t)
        /\ \/ t = PX!Idle /\ same /\ ~PX!ShouldRemainDisabled(row)
           \/ t.pc = "take" /\ t.cfg = (IF PX!ShouldRemainDisabled(row) THEN PX!NoCfg ELSE cfg)
    <3>1. CASE PX!ShouldRemainDisabled(row)
      BY <2>3, <3>1 DEF PxTaskOK
    <3>2. CASE ~PX!ShouldRemainDisabled(row) /\ same
      BY <1>i, <3>2
    <3>3. CASE ~PX!ShouldRemainDisabled(row) /\ ~same
      BY <2>3, <3>3 DEF PxTaskOK
    <3> QED BY <3>1, <3>2, <3>3
  <2>5. ~pxOverlap /\ ~pxFailed => row = pxRow /\ RunsAre({pxLive}) /\ Fronted
    BY <2>1 DEF ProxyInv, ProxyAt
  <2> HIDE DEF t, cfg, row
  <2>6. pxTask' = [g \in PxHandlers |-> pxTask'[g]] /\ pxTask'[h] = t
        /\ (\A g \in PxHandlers \ {h} : pxTask'[g] = pxTask[g]) /\ \A g \in PxHandlers : PxTaskOK(pxTask'[g])
    BY <2>1, <2>4, PxTaskGoes
  <2>7. ProxyTypeOK'
    BY <2>1, <2>6 DEF ProxyTypeOK
  <2>8. ~pxOverlap /\ ~pxFailed => RunsAre({pxLive})' /\ Fronted'
    BY <2>1, <2>5 DEF RunsAre, Fronted, PX!EffectiveListenPort, PX!IsActive
  <2>9. ~pxOverlap /\ ~pxFailed' => ProxyAt(pxTask[h])'
    <3> SUFFICES ASSUME ~pxOverlap, ~pxFailed PROVE ProxyAt(pxTask[h])'
      BY <2>1
    <3>1. CASE t = PX!Idle
      BY <1>i, <2>6, <3>1 DEF ProxyAt
    <3>2. CASE t.pc = "take" /\ t.cfg = (IF PX!ShouldRemainDisabled(row) THEN PX!NoCfg ELSE cfg)
      <4>1. Wanted(pxTask[h].cfg)'
        BY <2>1, <2>5, <2>6, <3>2 DEF Wanted, PX!IsActive, cfg
      <4> QED BY <2>6, <2>8, <3>2, <4>1 DEF ProxyAt
    <3> QED BY <2>4, <3>1, <3>2
  <2>10. ~pxOverlap /\ ~pxFailed' /\ pxTask'[h] = PX!Idle => ProxyRests'
    <3> SUFFICES ASSUME ~pxOverlap, ~pxFailed, pxTask'[h] = PX!Idle PROVE ProxyRests'
      BY <2>1
    <3>1. same /\ ~PX!ShouldRemainDisabled(row)
      BY <1>i, <2>4, <2>6
    <3>2. PX!IsActive' /\ pxLive' # 0 /\ pxRun'[pxLive'].cfg.hashed = pxRow'.hashed
      BY <2>1, <2>3, <2>5, <3>1 DEF PX!IsActive, PX!HashConfig
    <3> QED BY <2>8, <3>2 DEF ProxyRests
  <2> QED BY <2>1, <2>6, <2>7, <2>9, <2>10, PxOneHandler
<1>9. ASSUME NEW h \in PxHandlers, PX!TakeLive(h) PROVE ProxyTypeOK' /\ ProxyInv'
  <2> DEFINE t == [pc |-> "wait", cfg |-> pxTask[h].cfg, run |-> pxLive]
  <2>1. pxTask[h].pc = "take" /\ pxTask' = [pxTask EXCEPT ![h] = t] /\ pxTask[h] # PX!Idle /\ pxLive' = 0
        /\ pxRun' = (IF pxLive = 0 THEN pxRun ELSE [pxRun EXCEPT ![pxLive].st = "stopping"])
        /\ UNCHANGED <<pxRow, pxConf, pxWg, pxChain, pxOverlap, pxFailed>>
    BY <1>9, <1>i DEF PX!TakeLive, PX!Goto, PX!wgVars
  <2>2. PxTaskOK(t) /\ t.pc = "wait" /\ t.run = pxLive /\ t.cfg = pxTask[h].cfg
    BY <2>1 DEF PxTaskOK, ProxyTypeOK
  <2>3. pxRun' \in [PX!Runs -> PxRunStates]
    BY <2>1 DEF ProxyTypeOK, PxRunStates
  <2>4. \A g \in PX!Runs : pxRun'[g].st \in {"up", "stopping"} => pxRun[g].st \in {"up", "stopping"} \/ g = pxLive
    BY <2>1 DEF ProxyTypeOK, PxRunStates
  <2> HIDE DEF t
  <2>5. pxTask' = [g \in PxHandlers |-> pxTask'[g]] /\ pxTask'[h] = t
        /\ (\A g \in PxHandlers \ {h} : pxTask'[g] = pxTask[g]) /\ \A g \in PxHandlers : PxTaskOK(pxTask'[g])
    BY <2>1, <2>2, PxTaskGoes
  <2>6. ProxyTypeOK' /\ pxTask'[h] # PX!Idle
    BY <1>i, <2>1, <2>2, <2>3, <2>5 DEF ProxyTypeOK
  <2>7. ~pxOverlap /\ ~pxFailed' => ProxyAt(pxTask[h])'
    <3> SUFFICES ASSUME ~pxOverlap, ~pxFailed PROVE ProxyAt(pxTask[h])'
      BY <2>1
    <3>1. RunsAre({pxLive}) /\ Fronted /\ Wanted(pxTask[h].cfg)
      BY <2>1 DEF ProxyInv, ProxyAt
    <3>2. RunsAre({pxTask[h].run})'
      BY <2>2, <2>4, <2>5, <3>1 DEF RunsAre
    <3>3. Fronted' /\ Wanted(pxTask[h].cfg)'
      BY <2>1, <2>2, <2>5, <3>1 DEF Fronted, Wanted, PX!EffectiveListenPort, PX!IsActive
    <3> QED BY <2>1, <2>2, <2>5, <3>2, <3>3 DEF ProxyAt
  <2> QED BY <2>1, <2>5, <2>6, <2>7, PxOneHandler
<1>10. ASSUME NEW h \in PxHandlers, PX!WaitStopped(h) PROVE ProxyTypeOK' /\ ProxyInv'
  <2> DEFINE cfg == pxTask[h].cfg
             t == IF cfg = PX!NoCfg THEN PX!Idle ELSE [pc |-> "bind", cfg |-> cfg]
  <2>1. pxTask[h].pc = "wait" /\ pxTask' = [pxTask EXCEPT ![h] = t] /\ pxTask[h] # PX!Idle
        /\ UNCHANGED <<pxRow, pxConf, pxWg, pxChain, pxRun, pxLive, pxOverlap>>
    BY <1>10, <1>i DEF PX!WaitStopped, PX!Goto, PX!wgVars
  <2>2. pxFailed' \/ (pxFailed' = pxFailed /\ PX!Ended(pxTask[h].run))
    BY <1>10 DEF PX!WaitStopped, PX!Fault, PX!NoFault
  <2>3. PxTaskOK(t) /\ ((cfg = PX!NoCfg /\ t = PX!Idle) \/ (cfg # PX!NoCfg /\ t.pc = "bind" /\ t.cfg = cfg))
    <3>1. CASE cfg = PX!NoCfg
      BY <1>i, <3>1
    <3>2. CASE cfg # PX!NoCfg
      BY <2>1, <3>2 DEF PxTaskOK, ProxyTypeOK
    <3> QED BY <3>1, <3>2
  <2> HIDE DEF t
  <2>4. pxTask' = [g \in PxHandlers |-> pxTask'[g]] /\ pxTask'[h] = t
        /\ (\A g \in PxHandlers \ {h} : pxTask'[g] = pxTask[g]) /\ \A g \in PxHandlers : PxTaskOK(pxTask'[g])
    BY <2>1, <2>3, PxTaskGoes
  <2>5. ProxyTypeOK' /\ (~pxFailed' => ~pxFailed)
    BY <2>1, <2>2, <2>4 DEF ProxyTypeOK
  <2>6. ASSUME ~pxOverlap, ~pxFailed'
        PROVE  /\ RunsAre({})' /\ RunsAre({pxLive})' /\ Fronted' /\ Wanted(cfg) /\ pxLive' = 0
               /\ (PX!IsActive' <=> cfg # PX!NoCfg)
    <3>1. RunsAre({pxTask[h].run}) /\ Fronted /\ Wanted(cfg) /\ pxLive = 0
      BY <2>1, <2>5, <2>6 DEF ProxyInv, ProxyAt
    <3>2. RunsAre({})
      <4>1. PX!Ended(pxTask[h].run) /\ pxTask[h].run \in {0} \cup PX!Runs
        BY <2>1, <2>2, <2>6 DEF ProxyTypeOK, PxTaskOK
      <4>2. CASE pxTask[h].run = 0
        BY <1>z, <3>1, <4>2 DEF RunsAre
      <4>3. CASE pxTask[h].run # 0
        <5>1. pxRun[pxTask[h].run].st = "gone"
          BY <4>1, <4>3 DEF PX!Ended
        <5> QED BY <3>1, <5>1 DEF RunsAre
      <4> QED BY <4>2, <4>3
    <3>3. PX!BuildConfig(pxRow) # PX!NoCfg
      <4>1. pxRow.hashed # 0
        BY DEF ProxyTypeOK, PxRows
      <4>2. PX!BuildConfig(pxRow).hashed = pxRow.hashed /\ PX!NoCfg.hashed = 0
        BY DEF PX!BuildConfig, PX!NoCfg
      <4> QED BY <4>1, <4>2
    <3>4. PX!IsActive <=> cfg # PX!NoCfg
      BY <3>1, <3>3 DEF Wanted
    <3>5. RunsAre({})' /\ RunsAre({pxLive})'
      BY <2>1, <3>2 DEF RunsAre
    <3>6. Fronted' /\ (PX!IsActive' <=> PX!IsActive)
      BY <2>1, <3>1 DEF Fronted, PX!EffectiveListenPort, PX!IsActive
    <3> QED BY <2>1, <3>1, <3>4, <3>5, <3>6
  <2>7. ~pxOverlap /\ ~pxFailed' => ProxyAt(pxTask[h])'
    <3> SUFFICES ASSUME ~pxOverlap, ~pxFailed' PROVE ProxyAt(pxTask[h])'
      OBVIOUS
    <3>1. CASE cfg = PX!NoCfg /\ t = PX!Idle
      BY <1>i, <2>4, <3>1 DEF ProxyAt
    <3>2. CASE cfg # PX!NoCfg /\ t.pc = "bind" /\ t.cfg = cfg
      <4>1. Wanted(pxTask[h].cfg)'
        BY <2>1, <2>4, <2>6, <3>2 DEF Wanted, PX!IsActive
      <4> QED BY <2>4, <2>6, <3>2, <4>1 DEF ProxyAt
    <3> QED BY <2>3, <3>1, <3>2
  <2>8. ~pxOverlap /\ ~pxFailed' /\ pxTask'[h] = PX!Idle => ProxyRests'
    BY <1>i, <2>3, <2>4, <2>6 DEF ProxyRests
  <2> QED BY <2>1, <2>4, <2>5, <2>7, <2>8, PxOneHandler
<1>11. ASSUME NEW h \in PxHandlers, PX!Bind(h) PROVE ProxyTypeOK' /\ ProxyInv'
  <2> DEFINE g0 == PX!Cardinality(PX!Started) + 1
             cfg == pxTask[h].cfg
  <2>1. pxTask[h].pc = "bind" /\ pxTask[h] # PX!Idle
        /\ UNCHANGED <<pxRow, pxConf, pxWg, pxChain, pxLive, pxOverlap>>
    BY <1>11, <1>i DEF PX!Bind, PX!wgVars
  <2>2. CASE pxWg = "public" \/ PX!Up # {}
    <3>1. pxTask' = [pxTask EXCEPT ![h] = PX!Idle] /\ pxFailed' /\ pxRun' = pxRun
      BY <1>11, <2>2 DEF PX!Bind, PX!Goto
    <3>2. pxTask' = [g \in PxHandlers |-> pxTask'[g]] /\ pxTask'[h] = PX!Idle
          /\ (\A g \in PxHandlers \ {h} : pxTask'[g] = pxTask[g]) /\ \A g \in PxHandlers : PxTaskOK(pxTask'[g])
      BY <3>1, <1>i, PxTaskGoes
    <3>3. ProxyTypeOK'
      BY <2>1, <3>1, <3>2 DEF ProxyTypeOK
    <3> QED BY <3>1, <3>3 DEF ProxyInv
  <2>3. CASE ~(pxWg = "public" \/ PX!Up # {})
    <3> DEFINE t == [pc |-> "record", run |-> g0]
    <3>1. pxTask' = [pxTask EXCEPT ![h] = t] /\ g0 \in PX!Runs
          /\ pxRun' = [pxRun EXCEPT ![g0] = [st |-> "up", cfg |-> cfg]]
          /\ pxFailed' = pxFailed
      BY <1>11, <2>3 DEF PX!Bind, PX!Goto, PX!NoFault
    <3> HIDE DEF g0
    <3>2. PxTaskOK(t) /\ t.pc = "record" /\ t.run = g0
      BY <3>1 DEF PxTaskOK
    <3>3. cfg \in PxConfigs
      BY <2>1 DEF ProxyTypeOK, PxTaskOK
    <3> HIDE DEF t, cfg
    <3>4. pxTask' = [g \in PxHandlers |-> pxTask'[g]] /\ pxTask'[h] = t
          /\ (\A g \in PxHandlers \ {h} : pxTask'[g] = pxTask[g]) /\ \A g \in PxHandlers : PxTaskOK(pxTask'[g])
      BY <3>1, <3>2, PxTaskGoes
    <3>5. pxRun' \in [PX!Runs -> PxRunStates]
      BY <3>1, <3>3 DEF ProxyTypeOK, PxRunStates
    <3>6. pxRun'[g0].cfg = cfg /\ \A d \in PX!Runs \ {g0} : pxRun'[d] = pxRun[d]
      BY <3>1 DEF ProxyTypeOK
    <3>7. ProxyTypeOK' /\ pxTask'[h] # PX!Idle
      BY <1>i, <2>1, <3>2, <3>4, <3>5 DEF ProxyTypeOK
    <3>8. ~pxOverlap /\ ~pxFailed' => ProxyAt(pxTask[h])'
      <4> SUFFICES ASSUME ~pxOverlap, ~pxFailed PROVE ProxyAt(pxTask[h])'
        BY <3>1
      <4>1. RunsAre({}) /\ Fronted /\ pxLive = 0 /\ PX!IsActive /\ cfg = PX!BuildConfig(pxRow)
        BY <2>1 DEF ProxyInv, ProxyAt, Wanted, cfg
      <4>2. RunsAre({pxTask[h].run})'
        BY <3>2, <3>4, <3>6, <4>1 DEF RunsAre
      <4>3. pxRun'[pxTask'[h].run].cfg = PX!BuildConfig(pxRow')
        BY <2>1, <3>2, <3>4, <3>6, <4>1
      <4>4. Fronted' /\ PX!IsActive'
        BY <2>1, <4>1 DEF Fronted, PX!EffectiveListenPort, PX!IsActive
      <4> QED BY <2>1, <3>2, <3>4, <4>1, <4>2, <4>3, <4>4 DEF ProxyAt
    <3> QED BY <2>1, <3>1, <3>4, <3>7, <3>8, PxOneHandler
  <2> QED BY <2>2, <2>3
<1>12. ASSUME NEW h \in PxHandlers, PX!Record(h) PROVE ProxyTypeOK' /\ ProxyInv'
  <2>1. pxTask[h].pc = "record" /\ pxTask[h] # PX!Idle /\ pxLive' = pxTask[h].run
        /\ pxTask' = [pxTask EXCEPT ![h] = PX!Idle] /\ pxTask[h].run \in PX!Runs
        /\ UNCHANGED <<pxRow, pxConf, pxWg, pxChain, pxRun, pxOverlap, pxFailed>>
    BY <1>12, <1>i DEF PX!Record, PX!Goto, PX!wgVars, ProxyTypeOK, PxTaskOK
  <2>2. pxTask' = [g \in PxHandlers |-> pxTask'[g]] /\ pxTask'[h] = PX!Idle
        /\ (\A g \in PxHandlers \ {h} : pxTask'[g] = pxTask[g]) /\ \A g \in PxHandlers : PxTaskOK(pxTask'[g])
    BY <2>1, <1>i, PxTaskGoes
  <2>3. ProxyTypeOK'
    BY <2>1, <2>2 DEF ProxyTypeOK
  <2>4. ~pxOverlap /\ ~pxFailed' => ProxyAt(pxTask[h])'
    BY <1>i, <2>2 DEF ProxyAt
  <2>5. ~pxOverlap /\ ~pxFailed' => ProxyRests'
    <3> SUFFICES ASSUME ~pxOverlap, ~pxFailed PROVE ProxyRests'
      BY <2>1
    <3>1. RunsAre({pxTask[h].run}) /\ Fronted /\ PX!IsActive
          /\ pxRun[pxTask[h].run].cfg = PX!BuildConfig(pxRow)
      BY <2>1 DEF ProxyInv, ProxyAt
    <3>2. PX!BuildConfig(pxRow).hashed = pxRow.hashed
      BY DEF PX!BuildConfig
    <3>3. RunsAre({pxLive})' /\ Fronted' /\ PX!IsActive'
      BY <2>1, <3>1 DEF RunsAre, Fronted, PX!EffectiveListenPort, PX!IsActive
    <3> QED BY <1>z, <2>1, <3>1, <3>2, <3>3 DEF ProxyRests
  <2> QED BY <2>1, <2>2, <2>3, <2>4, <2>5, PxOneHandler
<1>13. ASSUME NEW g \in PX!Runs, PX!TaskStops(g) PROVE ProxyTypeOK' /\ ProxyInv'
  <2>1. pxRun' = [pxRun EXCEPT ![g].st = "gone"]
        /\ UNCHANGED <<pxRow, pxConf, pxWg, pxChain, pxLive, pxTask, pxOverlap, pxFailed>>
    BY <1>13 DEF PX!TaskStops, PX!wgVars
  <2>2. pxRun' \in [PX!Runs -> PxRunStates]
    BY <2>1 DEF ProxyTypeOK, PxRunStates
  <2>3. (\A d \in PX!Runs : pxRun'[d].cfg = pxRun[d].cfg)
        /\ \A d \in PX!Runs : pxRun'[d].st \in {"up", "stopping"} => pxRun[d].st \in {"up", "stopping"}
    BY <2>1 DEF ProxyTypeOK, PxRunStates
  <2>4. ProxyTypeOK'
    BY <2>1, <2>2 DEF ProxyTypeOK
  <2> QED BY <2>1, <2>3, <2>4, RunEnds
<1>14. ASSUME NEW g \in PX!Runs, PX!TaskFails(g) PROVE ProxyTypeOK' /\ ProxyInv'
  <2>1. pxRun' = [pxRun EXCEPT ![g].st = "gone"] /\ pxFailed' /\ pxLive' \in {0, pxLive}
        /\ UNCHANGED <<pxRow, pxConf, pxWg, pxChain, pxTask>>
    BY <1>14 DEF PX!TaskFails, PX!Fault, PX!wgVars
  <2>2. pxRun' \in [PX!Runs -> PxRunStates]
    BY <2>1 DEF ProxyTypeOK, PxRunStates
  <2>3. ProxyTypeOK'
    BY <2>1, <2>2 DEF ProxyTypeOK
  <2> QED BY <2>1, <2>3 DEF ProxyInv
<1>15. CASE UNCHANGED PX!vars
  <2>1. UNCHANGED <<pxRow, pxConf, pxWg, pxChain, pxRun, pxLive, pxTask, pxOverlap, pxFailed>>
    BY <1>15 DEF PX!vars, PX!wgVars
  <2>2. ProxyTypeOK'
    BY <2>1 DEF ProxyTypeOK
  <2> QED BY <2>1, <2>2, RunEnds
<1> QED
  BY <1>1, <1>2, <1>3, <1>4, <1>5, <1>6, <1>7, <1>8, <1>9, <1>10, <1>11, <1>12, <1>13, <1>14, <1>15
     DEF PX!Next, PX!StopIfRunning

(* At rest an enabled proxy runs what is saved with AmneziaWG behind it    *)
(* and the chain up, and without one no task runs and the chain is gone,   *)
(* unless reconciles overlapped or a step failed (the proxy supervisor's   *)
(* apply_and_reconcile).                                                   *)
THEOREM ProxyStaysInFront == PX!Spec => []ProxyFrontsThePort
<1>1. PX!Init => ProxyTypeOK /\ ProxyInv
  <2> SUFFICES ASSUME PX!Init PROVE ProxyTypeOK /\ ProxyInv
    OBVIOUS
  <2>1. ProxyTypeOK
    <3>1. pxRow \in PxRows
      BY DEF PX!Init, PxRows
    <3>2. PX!NoCfg \in PxConfigs
      BY DEF PX!NoCfg, PxConfigs
    <3>3. pxRun \in [PX!Runs -> PxRunStates]
      BY <3>2 DEF PX!Init, PxRunStates
    <3>4. PxTaskOK(PX!Idle)
      BY DEF PxTaskOK, PX!Idle
    <3>5. pxTask = [h \in PxHandlers |-> pxTask[h]] /\ \A h \in PxHandlers : PxTaskOK(pxTask[h])
      BY <3>4 DEF PX!Init
    <3> QED BY <3>1, <3>3, <3>5 DEF PX!Init, ProxyTypeOK
  <2>2. ~PX!IsActive
    BY DEF PX!Init, PX!IsActive, PX!ShouldRemainDisabled
  <2>3. ProxyRests
    BY <2>2 DEF PX!Init, ProxyRests, RunsAre, Fronted, PX!EffectiveListenPort
  <2>4. PxAlone /\ \A h \in PxHandlers : ProxyAt(pxTask[h])
    BY DEF PX!Init, PxAlone, ProxyAt, PX!Idle
  <2> QED BY <2>1, <2>3, <2>4 DEF ProxyInv
<1>2. ProxyTypeOK /\ ProxyInv => ProxyFrontsThePort
  BY DEF ProxyInv, ProxyRests, Fronted, RunsAre, ProxyFrontsThePort, PX!ProxyFrontsThePort, PX!Undisturbed,
         PX!Up
<1> QED BY <1>1, <1>2, ProxyStep, PTL DEF PX!Spec
=============================================================================
