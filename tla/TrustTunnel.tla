---------------------------- MODULE TrustTunnel ----------------------------
(***************************************************************************)
(* The TrustTunnel endpoint: the inbound row and the user roster, the API   *)
(* handlers that change them, the debounced and serialised reconcile, the   *)
(* watchdogs, and the poll that folds traffic counters and applies expiry   *)
(* (api/trusttunnel.rs, trusttunnel/{supervisor,config,cert,stats}.rs).     *)
(***************************************************************************)
EXTENDS Naturals, FiniteSets

CONSTANTS
    Users,          \* usernames
    MaxChildren,    \* bound: endpoint processes ever spawned
    MaxEvents,      \* bound: API calls, faults and moves of data
    MaxAttempts     \* MAX_RESTART_ATTEMPTS

VARIABLES
    ttRow,      \* trusttunnel_inbounds: on, host, mode, cert, req
    ttUsers,    \* trusttunnel_users_table: Absent or a user row
    ttWait,     \* who waits for RECONCILE_LOCK or holds it to be served next
    ttRec,      \* the reconcile that holds the lock
    ttApi,      \* restart's stop(), which takes no lock
    ttProc,     \* STATE.proc: the recorded child, 0 for None
    ttTries,    \* STATE.crash.restart_attempts
    ttChild,    \* every endpoint process ever spawned
    ttPermit,   \* the permit of RECONCILE_REQUESTED
    ttPoll,     \* the poll loop: what it took from the tick it is working on
    ttStats,    \* stats::STORE
    ttLeft      \* what is left of MaxEvents

vars == <<ttRow, ttUsers, ttWait, ttRec, ttApi, ttProc, ttTries, ttChild, ttPermit,
          ttPoll, ttStats, ttLeft>>
rowVars == <<ttRow, ttUsers>>
dogVars == <<ttProc, ttTries, ttChild>>

Hosts == {"a", "b"}
NoCert == [for |-> "none", ser |-> 0]
Absent == [on |-> FALSE, exp |-> "never", pw |-> 0, pre |-> FALSE, in |-> FALSE]
NoEntry == [total |-> 0, last |-> 0]
Children == 1..MaxChildren
Spawned == {c \in Children : ttChild[c].st # "unborn"}

-----------------------------------------------------------------------------
(* What is rendered from the rows *)

\* The name TLS answers for: the inbound's own, or the General tab's host.
EffectiveHostname(row) == row.host
IsActive(u) == u.in /\ u.on /\ u.exp # "past"
Active(us) == {n \in Users : IsActive(us[n])}
\* An active user without the prefix the endpoint asks of everyone could never connect.
ValidateRoster(row, us) == row.req => \A n \in Active(us) : us[n].pre
Credentials(us) == {<<n, us[n].pw>> : n \in Active(us)}
Rules(row, us) == [allow |-> {n \in Active(us) : us[n].pre}, deny |-> row.req]
ValidCert(row) == row.cert.for = EffectiveHostname(row)
Rendered(row, us) == [creds |-> Credentials(us), rules |-> Rules(row, us),
                      host |-> EffectiveHostname(row), cert |-> row.cert]
CanRender(row, us) == ValidateRoster(row, us) /\ ValidCert(row)
ShouldRemainDisabled(row, us) ==
    \/ ~row.on
    \/ EffectiveHostname(row) = "none"
    \/ Active(us) = {}
\* self_signed issues a certificate when there is none for the name; custom only checks.
EnsureCertificate(row) ==
    IF row.mode = "self_signed" /\ ~ValidCert(row)
    THEN [for |-> EffectiveHostname(row), ser |-> 1 - row.cert.ser]
    ELSE row.cert

-----------------------------------------------------------------------------
\* The service starts with rows an earlier life left, and main reconciles once.
Init ==
    /\ ttRow \in {[on |-> on, host |-> IF on THEN "a" ELSE "none", mode |-> "self_signed",
                   cert |-> NoCert, req |-> FALSE] : on \in BOOLEAN}
    /\ ttUsers \in [Users -> {Absent, [in |-> TRUE, on |-> TRUE, exp |-> "due", pw |-> 0, pre |-> FALSE]}]
    /\ ttWait = {"api"}
    /\ ttProc = 0 /\ ttTries = 0
    /\ ttChild = [c \in Children |->
                    [st |-> "unborn", cfg |-> {}, raw |-> [n \in Users |-> 0],
                     seen |-> [n \in Users |-> 0], flag |-> FALSE, dog |-> "wait"]]
    /\ ttRec = [pc |-> "idle", who |-> "none", row |-> {}, cfg |-> {}, pid |-> 0]
    /\ ttApi = [pc |-> "idle", pid |-> 0]
    /\ ttPermit = FALSE
    /\ ttPoll = [pc |-> "idle", pid |-> 0, cfg |-> {}, raw |-> [n \in Users |-> 0], crossed |-> FALSE]
    /\ ttStats = [n \in Users |-> NoEntry]
    /\ ttLeft = MaxEvents

\* History: what was counted of a forgotten user no longer counts.
Uncounted(names) ==
    [c \in Children |-> [ttChild[c] EXCEPT !.seen =
        [n \in Users |-> IF n \in names THEN 0 ELSE @[n]]]]

Event == ttLeft > 0 /\ ttLeft' = ttLeft - 1
ReconcileNow == ttWait' = ttWait \cup {"api"}
ReconcileLater == ttPermit' = TRUE

(* API handlers *)

\* A valid update of the inbound; leaving custom drops the uploaded certificate.
UpdateInbound ==
    /\ Event
    /\ \E next \in {[ttRow EXCEPT !.on = ~@], [ttRow EXCEPT !.req = ~@]}
                    \cup {[ttRow EXCEPT !.host = h] : h \in Hosts \ {ttRow.host}}
                    \cup {[ttRow EXCEPT !.mode = m] : m \in {"self_signed", "custom"} \ {ttRow.mode}} :
        /\ next.on => ValidateRoster(next, ttUsers)
        /\ ttRow' = [next EXCEPT !.cert =
                IF ttRow.mode = "custom" /\ next.mode = "self_signed" THEN NoCert ELSE @]
    /\ ReconcileNow
    /\ UNCHANGED <<ttUsers, ttRec, ttApi, dogVars, ttPermit, ttPoll, ttStats>>

StoreCertificate(mode) ==
    /\ Event
    /\ EffectiveHostname(ttRow) # "none"
    /\ ttRow' = [ttRow EXCEPT !.mode = mode,
            !.cert = [for |-> EffectiveHostname(ttRow), ser |-> 1 - ttRow.cert.ser]]
    /\ ReconcileNow
    /\ UNCHANGED <<ttUsers, ttRec, ttApi, dogVars, ttPermit, ttPoll, ttStats>>

\* upload_certificate stores what validates for the effective hostname.
UploadCertificate == StoreCertificate("custom")
RegenerateCertificate == StoreCertificate("self_signed")

CreateUser(n) ==
    /\ Event
    /\ ~ttUsers[n].in
    /\ \E pre \in BOOLEAN, exp \in {"never", "due"} :
        /\ ttRow.req => pre
        /\ ttUsers' = [ttUsers EXCEPT ![n] =
                [in |-> TRUE, on |-> TRUE, exp |-> exp, pw |-> @.pw, pre |-> pre]]
    /\ ReconcileLater
    /\ UNCHANGED <<ttRow, ttWait, ttRec, ttApi, dogVars, ttPoll, ttStats>>

UpdateUser(n) ==
    /\ Event
    /\ ttUsers[n].in
    /\ ttUsers' \in {[ttUsers EXCEPT ![n].on = ~@], [ttUsers EXCEPT ![n].pre = ~@],
                     [ttUsers EXCEPT ![n].exp = "never"]}
    /\ ttRow.on => ValidateRoster(ttRow, ttUsers')
    /\ ReconcileLater
    /\ UNCHANGED <<ttRow, ttWait, ttRec, ttApi, dogVars, ttPoll, ttStats>>

RotateWithoutReconcile(n) ==
    /\ Event
    /\ ttUsers[n].in
    /\ ttUsers' = [ttUsers EXCEPT ![n].pw = 1 - @]
    /\ UNCHANGED <<ttRow, ttWait, ttRec, ttApi, dogVars, ttPermit, ttPoll, ttStats>>
RotatePassword(n) ==
    /\ Event
    /\ ttUsers[n].in
    /\ ttUsers' = [ttUsers EXCEPT ![n].pw = 1 - @]
    /\ ReconcileLater
    /\ UNCHANGED <<ttRow, ttWait, ttRec, ttApi, dogVars, ttPoll, ttStats>>

DeleteUser(n) ==
    /\ Event
    /\ ttUsers[n].in
    /\ ttUsers' = [ttUsers EXCEPT ![n] = [Absent EXCEPT !.pw = 1 - ttUsers[n].pw]]
    /\ ttStats' = [ttStats EXCEPT ![n] = NoEntry]
    /\ ttChild' = Uncounted({n})
    /\ ReconcileLater
    /\ UNCHANGED <<ttRow, ttWait, ttRec, ttApi, ttProc, ttTries, ttPoll>>

\* restart: stop() runs without the lock, then ensure_running.
Restart ==
    /\ Event
    /\ ttApi.pc = "idle"
    /\ ttApi' = [ttApi EXCEPT !.pc = "stop"]
    /\ UNCHANGED <<rowVars, ttWait, ttRec, dogVars, ttPermit, ttPoll, ttStats>>

\* Time passes an expires_at.
Expire(n) ==
    /\ ttUsers[n].exp = "due"
    /\ ttUsers' = [ttUsers EXCEPT ![n].exp = "past"]
    /\ UNCHANGED <<ttRow, ttWait, ttRec, ttApi, dogVars, ttPermit, ttPoll, ttStats, ttLeft>>

-----------------------------------------------------------------------------
(* The debounce worker *)

\* The worker is awaited by nobody but itself: it takes the permit that wakes it and the
\* ones of the same burst, then waits for the lock like every other caller.
Notified ==
    /\ ttPermit /\ ttRec.who # "deb"
    /\ ttPermit' = FALSE
    /\ ttWait' = ttWait \cup {"deb"}
    /\ UNCHANGED <<rowVars, ttRec, ttApi, dogVars, ttPoll, ttStats, ttLeft>>

(* The reconcile *)

MarkRestarted(stats) == [n \in Users |-> [stats[n] EXCEPT !.last = 0]]

\* History: the counters are reset under an answer in hand or under a live process
\* already counted.
Crossing ==
    \/ ttPoll.pc = "answer"
    \/ \E c \in Spawned, n \in Users : ttChild[c].st # "dead" /\ ttChild[c].seen[n] > 0

MarkEndpointRestarted ==
    /\ ttStats' = MarkRestarted(ttStats)
    /\ ttPoll' = [ttPoll EXCEPT !.crossed = @ \/ Crossing]

Finish == ttRec' = [pc |-> "idle", who |-> "none", row |-> {}, cfg |-> {}, pid |-> 0]

Lock ==
    /\ ttRec.pc = "idle"
    /\ \E who \in ttWait :
        /\ ttWait' = ttWait \ {who}
        /\ ttRec' = [ttRec EXCEPT !.pc = "decide", !.who = who, !.row = {ttRow}]
    /\ UNCHANGED <<rowVars, ttApi, dogVars, ttPermit, ttPoll, ttStats, ttLeft>>

\* From the inbound read at Lock and the roster read now: stay off, refuse, leave the
\* running child alone, or stop it and start a new one. "refuse" and "off" only stop.
Decide ==
    /\ ttRec.pc = "decide"
    /\ LET row == CHOOSE r \in ttRec.row : TRUE
           off == ShouldRemainDisabled(row, ttUsers)
           made == [ttRow EXCEPT !.cert = IF off THEN @ ELSE EnsureCertificate(row)]
           now == IF EnsureCertificate(row) # row.cert THEN made ELSE row
           cfg == Rendered(now, ttUsers)
           go == ~off /\ CanRender(now, ttUsers)
           same == go /\ ttProc # 0 /\ ttChild[ttProc].cfg = {cfg} /\ ttChild[ttProc].st = "up"
       IN  /\ ttRow' = IF ~off /\ EnsureCertificate(row) # row.cert THEN made ELSE ttRow
           /\ ttStats' = [n \in Users |-> IF ttUsers[n].in THEN ttStats[n] ELSE NoEntry]
           /\ ttChild' = Uncounted({n \in Users : ~ttUsers[n].in})
           /\ IF same
              THEN Finish
              ELSE ttRec' = [ttRec EXCEPT !.pc = "stop", !.row = {}, !.cfg = IF go THEN {cfg} ELSE {}]
    /\ UNCHANGED <<ttUsers, ttWait, ttApi, ttProc, ttTries, ttPermit, ttPoll, ttLeft>>

\* stop_if_running: take the record, flag and signal the child, wait for its exit.
Take(p, q) ==
    /\ p.pc = "stop"
    /\ ttProc' = 0
    /\ q = [p EXCEPT !.pc = IF ttProc = 0 THEN "stopped" ELSE "flag", !.pid = ttProc]
    /\ UNCHANGED <<ttChild, ttStats, ttPoll>>
Flag(p, q) ==
    /\ p.pc = "flag"
    /\ ttChild' = [ttChild EXCEPT ![p.pid].flag = TRUE,
                                  ![p.pid].st = IF @ = "up" THEN "asked" ELSE @]
    /\ q = [p EXCEPT !.pc = "gone"]
    /\ UNCHANGED <<ttProc, ttStats, ttPoll>>
\* Within the grace period or after SIGKILL the pid is gone.
Gone(p, q) ==
    /\ p.pc = "gone" /\ ttChild[p.pid].st = "dead"
    /\ q = [p EXCEPT !.pc = "stopped", !.pid = 0]
    /\ MarkEndpointRestarted
    /\ UNCHANGED <<ttProc, ttChild>>
StopIfRunning(p, q) == Take(p, q) \/ Flag(p, q) \/ Gone(p, q)

StopForReconcile ==
    /\ StopIfRunning(ttRec, ttRec')
    /\ UNCHANGED <<rowVars, ttWait, ttApi, ttTries, ttPermit, ttLeft>>
StopForRestart ==
    /\ StopIfRunning(ttApi, ttApi')
    /\ UNCHANGED <<rowVars, ttWait, ttRec, ttTries, ttPermit, ttLeft>>
RestartEnsures ==
    /\ ttApi.pc = "stopped"
    /\ ttApi' = [pc |-> "idle", pid |-> 0]
    /\ ReconcileNow
    /\ UNCHANGED <<rowVars, ttRec, dogVars, ttPermit, ttPoll, ttStats, ttLeft>>

\* Off or refused: nothing more to do. Writing the files or the spawn may fail as well.
EndStopped ==
    /\ ttRec.pc = "stopped"
    /\ IF ttRec.cfg = {} THEN UNCHANGED ttLeft ELSE Event
    /\ Finish
    /\ UNCHANGED <<rowVars, ttWait, ttApi, dogVars, ttPermit, ttPoll, ttStats>>

\* write_files and spawn: the child reads its files once, at startup.
SpawnChild ==
    /\ ttRec.pc = "stopped" /\ ttRec.cfg # {}
    /\ Cardinality(Spawned) < MaxChildren
    /\ LET c == Cardinality(Spawned) + 1
       IN  /\ ttChild' = [ttChild EXCEPT ![c].st = "up", ![c].cfg = ttRec.cfg]
           /\ ttRec' = [ttRec EXCEPT !.pc = "record", !.pid = c]
    /\ MarkEndpointRestarted
    /\ UNCHANGED <<rowVars, ttWait, ttApi, ttProc, ttTries, ttPermit, ttLeft>>

RecordChild ==
    /\ ttRec.pc = "record"
    /\ ttProc' = ttRec.pid
    /\ ttTries' = IF ttRec.who = "dog" THEN ttTries ELSE 0
    /\ Finish
    /\ UNCHANGED <<rowVars, ttWait, ttApi, ttChild, ttPermit, ttPoll, ttStats, ttLeft>>

-----------------------------------------------------------------------------
(* Children and their watchdogs *)

Dies(c) ==
    /\ \/ ttChild[c].st = "up" /\ Event
       \/ ttChild[c].st = "asked" /\ UNCHANGED ttLeft
    /\ ttChild' = [ttChild EXCEPT ![c].st = "dead", ![c].cfg = {}, ![c].raw = [n \in Users |-> 0]]
    /\ UNCHANGED <<rowVars, ttWait, ttRec, ttApi, ttProc, ttTries, ttPermit, ttPoll, ttStats>>

\* The slot is cleared only while it holds this child.
Reap(c) ==
    /\ ttChild[c].st = "dead" /\ ttChild[c].dog = "wait"
    /\ ttRec.pc = "record" => ttRec.pid # c
    /\ ttProc' = IF ttProc = c THEN 0 ELSE ttProc
    /\ ttChild' = [ttChild EXCEPT ![c].dog = "reaped"]
    /\ UNCHANGED <<rowVars, ttWait, ttRec, ttApi, ttTries, ttPermit, ttPoll, ttStats, ttLeft>>

\* An administrative exit ends the watchdog; a crash is counted, and once the cap is
\* passed the watchdog gives up. A long enough uptime forgives earlier crashes. The
\* backoff is part of the wait: a waiting caller may be served as late as it likes.
Judge(c) ==
    /\ ttChild[c].dog = "reaped"
    /\ ttChild' = [ttChild EXCEPT ![c].dog = "done"]
    /\ IF ttChild[c].flag
       THEN UNCHANGED <<ttTries, ttStats, ttPoll, ttWait>>
       ELSE /\ MarkEndpointRestarted
            /\ ttTries' \in {1, ttTries + 1}
            /\ ttWait' = IF ttTries' > MaxAttempts THEN ttWait ELSE ttWait \cup {"dog"}
    /\ UNCHANGED <<rowVars, ttRec, ttApi, ttProc, ttPermit, ttLeft>>

\* A user the process serves moves data through it.
Move(c, n) ==
    /\ ttChild[c].st = "up"
    /\ \E cfg \in ttChild[c].cfg : \E pw \in {0, 1} : <<n, pw>> \in cfg.creds
    /\ Event
    /\ ttChild' = [ttChild EXCEPT ![c].raw[n] = @ + 1]
    /\ UNCHANGED <<rowVars, ttWait, ttRec, ttApi, ttProc, ttTries, ttPermit, ttPoll, ttStats>>

-----------------------------------------------------------------------------
(* The poll loop *)

\* A tick finds a recorded child; its /clients answers with the counters as they are now,
\* or not at all when the process is gone.
Fetch ==
    /\ ttPoll.pc = "idle" /\ ttProc # 0
    /\ "poll" \notin ttWait /\ ttRec.who # "poll"
    /\ LET c == ttProc
       IN  ttPoll' = [pc |-> IF ttChild[c].st = "dead" THEN "none" ELSE "answer",
                      pid |-> c, cfg |-> ttChild[c].cfg, raw |-> ttChild[c].raw,
                      crossed |-> ttPoll.crossed]
    /\ UNCHANGED <<rowVars, ttWait, ttRec, ttApi, dogVars, ttPermit, ttStats, ttLeft>>

\* Clamped delta: a counter that went down counts from zero again.
Delta(raw, last) == IF raw >= last THEN raw - last ELSE raw

FoldForgets(stats, raw) ==
    [n \in Users |-> [stats[n] EXCEPT !.total = @ + Delta(raw[n], stats[n].last)]]
Fold(stats, raw) ==
    [n \in Users |-> [total |-> stats[n].total + Delta(raw[n], stats[n].last),
                      last |-> raw[n]]]

ExpiryUnseen(cfg) == EffectiveHostname(ttRow) = "none"
ExpiryChangedRoster(cfg) ==
    /\ EffectiveHostname(ttRow) # "none"
    /\ CanRender(ttRow, ttUsers) => {Rendered(ttRow, ttUsers)} # cfg

\* What an answer says is folded in; then only a roster that renders differently from
\* the one the tick saw running is worth a restart.
Record ==
    /\ ttPoll.pc # "idle"
    /\ IF ttPoll.pc = "answer"
       THEN /\ ttStats' = Fold(ttStats, ttPoll.raw)
            /\ ttChild' = [ttChild EXCEPT ![ttPoll.pid].seen = ttPoll.raw]
       ELSE UNCHANGED <<ttStats, ttChild>>
    /\ ttWait' = IF ExpiryChangedRoster(ttPoll.cfg) THEN ttWait \cup {"poll"} ELSE ttWait
    /\ ttPoll' = [pc |-> "idle", pid |-> 0, cfg |-> {}, raw |-> [n \in Users |-> 0],
                  crossed |-> ttPoll.crossed]
    /\ UNCHANGED <<rowVars, ttRec, ttApi, ttProc, ttTries, ttPermit, ttLeft>>

-----------------------------------------------------------------------------
Poll == Fetch \/ Record
Reconcile == Lock \/ Decide \/ StopForReconcile \/ EndStopped \/ SpawnChild \/ RecordChild
Watchdog(c) == Reap(c) \/ Judge(c)

Next ==
    \/ UpdateInbound \/ UploadCertificate \/ RegenerateCertificate \/ Restart
    \/ \E n \in Users : CreateUser(n) \/ UpdateUser(n) \/ RotatePassword(n)
                         \/ DeleteUser(n) \/ Expire(n)
    \/ Notified \/ Reconcile \/ StopForRestart \/ RestartEnsures \/ Poll
    \/ \E c \in Children : Dies(c) \/ Watchdog(c) \/ \E n \in Users : Move(c, n)

\* The runtime runs its tasks, a signalled child exits (SIGKILL at the latest).
Fairness ==
    /\ WF_vars(Poll) /\ WF_vars(Reconcile) /\ WF_vars(Notified)
    /\ WF_vars(StopForRestart) /\ WF_vars(RestartEnsures)
    /\ \A c \in Children : WF_vars(Watchdog(c)) /\ WF_vars(ttChild[c].st = "asked" /\ Dies(c))

Spec == Init /\ [][Next]_vars /\ Fairness

-----------------------------------------------------------------------------
(* Properties *)

AtRest ==
    /\ ttWait \subseteq {"dog"} /\ ttRec.pc = "idle" /\ ttApi.pc = "idle"
    /\ ~ttPermit

\* Once every change has been reconciled, a running endpoint is the recorded one, there is
\* one only, and it holds the current password of every user it knows, none of them
\* deleted or disabled (expiry waits for the poll).
EndpointServesTheRoster ==
    AtRest => \A c \in Spawned : ttChild[c].st = "up" =>
        /\ ttProc = c
        /\ \A cfg \in ttChild[c].cfg : \A n \in Users, pw \in {0, 1} :
                <<n, pw>> \in cfg.creds =>
                    ttUsers[n].in /\ ttUsers[n].on /\ ttUsers[n].pw = pw

\* What the polls saw of a user, added up over the processes.
Seen(n) ==
    LET sum[c \in 0..MaxChildren] == IF c = 0 THEN 0 ELSE sum[c - 1] + ttChild[c].seen[n]
    IN  sum[MaxChildren]
\* The totals are what the polls saw of every process, each byte once, unless a reset of
\* the counters crossed an answer or a process already counted.
TrafficIsCountedOnce ==
    ~ttPoll.crossed => \A n \in Users : ttStats[n].total = Seen(n)

\* An expired user is not served for ever: the poll restarts the endpoint without it.
ExpiredUserIsDropped ==
    \A n \in Users :
        ttUsers[n].exp = "past" ~>
            \/ ttUsers[n].exp # "past"
            \/ \A c \in Spawned : ttChild[c].st = "up" =>
                    \A cfg \in ttChild[c].cfg, pw \in {0, 1} : <<n, pw>> \notin cfg.creds
=============================================================================
