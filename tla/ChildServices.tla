--------------------------- MODULE ChildServices ---------------------------
(***************************************************************************)
(* The supervisors of telemt (MTProxy), MasterDnsVPN, dnscrypt-proxy and    *)
(* tor.  They are copies of one machine with a few differences, so the      *)
(* machine is written once, over the kind of child, and every supervisor's  *)
(* own operations are named below it.  Unlike TrustTunnel's, their          *)
(* reconciles are not serialised, and a watchdog clears the record whoever  *)
(* is recorded.                                                             *)
(***************************************************************************)
EXTENDS Naturals, FiniteSets

CONSTANTS
    Handlers,       \* API requests that may run at once
    Kinds,          \* the supervisors to look at
    SvChildren,     \* bound: processes ever spawned
    SvEvents,       \* bound: API calls, crashes and failing writes
    SvAttempts      \* restarts after which a watchdog gives up

VARIABLES
    svKind,     \* whose supervisor this is
    svRow,      \* the inbound or bundle row: on, valid, tor, extra lines, version
    svFile,     \* the configuration file: version of the row, extra lines, socks
    svProc,     \* the slot's proc, 0 for None
    svTries,    \* crash.restart_attempts
    svChild,    \* every child: st, cfg it runs, flag, dog
    svTask,     \* handlers and watchdogs inside ensure_running or stop
    svLeft,     \* what is left of SvEvents
    svLost,     \* history: children whose record was overwritten or cleared by another
    svOverlap,  \* history: two tasks were at work at once
    svFailed    \* history: the last reconcile failed or a watchdog gave up

vars == <<svKind, svRow, svFile, svProc, svTries, svChild, svTask, svLeft,
          svLost, svOverlap, svFailed>>

Children == 1..SvChildren
Tasks == Handlers \cup Children
Spawned == {c \in Children : svChild[c].st # "unborn"}
Alive(c) == svChild[c].st \in {"up", "asked"}
NoTask == [pc |-> "idle", row |-> 0, pid |-> 0, then |-> "end", reset |-> TRUE]
NoFile == [ver |-> 0, extra |-> "none", socks |-> FALSE]

-----------------------------------------------------------------------------
(* validate and generate of each child.  The version stands for the         *)
(* settings a file carries; what the files share or disagree on is kept:    *)
(* the operator's additional_config goes verbatim into dnscrypt's TOML and  *)
(* into the torrc, and tor's switch is dnscrypt's SOCKS line.  Secrets of   *)
(* telemt's users and mdnsvpn's key are in no configuration file.           *)
MtproxyValidate(row) == row.valid
MdnsvpnValidate(row) == row.valid
ParseResolvers(row) == row.valid
ValidateAdditionalConfig(row) == row.extra \in {"none", "bridge"}

MtproxyGenerate(row) == [ver |-> row.ver, extra |-> "none", socks |-> FALSE]
MdnsvpnGenerate(row) == [ver |-> row.ver, extra |-> "none", socks |-> FALSE]
DnscryptGenerate(row) == [ver |-> row.ver, extra |-> row.extra, socks |-> row.tor]
TorGenerate(row) == [ver |-> row.ver, extra |-> row.extra, socks |-> FALSE]

\* should_remain_disabled: the switch, and what the child cannot do without.
MtproxyStaysOff(row) == ~row.on \/ ~MtproxyValidate(row)
MdnsvpnStaysOff(row) == ~row.on \/ ~MdnsvpnValidate(row)
DnscryptStaysOff(row) == ~row.on \/ ~ParseResolvers(row)
TorStaysOff(row) == ~row.on \/ ~row.tor \/ ~ValidateAdditionalConfig(row)

StaysOff(row) ==
    CASE svKind = "mtproxy" -> MtproxyStaysOff(row)
      [] svKind = "mdnsvpn" -> MdnsvpnStaysOff(row)
      [] svKind = "dnscrypt" -> DnscryptStaysOff(row)
      [] svKind = "tor" -> TorStaysOff(row)

Generate(row) ==
    CASE svKind = "mtproxy" -> MtproxyGenerate(row)
      [] svKind = "mdnsvpn" -> MdnsvpnGenerate(row)
      [] svKind = "dnscrypt" -> DnscryptGenerate(row)
      [] svKind = "tor" -> TorGenerate(row)

\* Bridge lines are torrc and not TOML.
Readable(cfg) == svKind = "dnscrypt" => cfg.extra # "bridge"

\* main's own reconcile at startup runs as one of the handlers.
Boot == CHOOSE h \in Handlers : TRUE

Init ==
    /\ svKind \in Kinds
    /\ svRow = [on |-> TRUE, valid |-> TRUE, tor |-> TRUE, extra |-> "none", ver |-> 1]
    /\ svFile = NoFile /\ svProc = 0 /\ svTries = 0
    /\ svChild = [c \in Children |-> [st |-> "unborn", cfg |-> NoFile, flag |-> FALSE, dog |-> "wait"]]
    /\ svTask = [t \in Tasks |-> IF t = Boot THEN [NoTask EXCEPT !.pc = "read"] ELSE NoTask]
    /\ svLeft = SvEvents
    /\ svLost = {} /\ svOverlap = FALSE /\ svFailed = FALSE

Event == svLeft > 0 /\ svLeft' = svLeft - 1
Goto(t, pc) == svTask' = [svTask EXCEPT ![t].pc = pc]
End(t) == svTask' = [svTask EXCEPT ![t] = NoTask]
AtWork(t) ==
    \/ svTask[t].pc # "idle"
    \/ t \in Spawned /\ svChild[t].st \in {"dead", "gone"} /\ svChild[t].dog # "done"
Enter == svOverlap' = (svOverlap \/ \E t \in Tasks : AtWork(t))

-----------------------------------------------------------------------------
(* API handlers *)

SaveRow(h, row) ==
    /\ Event
    /\ svTask[h].pc = "idle"
    /\ svRow' = [row EXCEPT !.ver = @ + 1]
    /\ Goto(h, "read")
    /\ Enter
    /\ UNCHANGED <<svKind, svFile, svProc, svTries, svChild, svLost, svFailed>>

StopFirst(h) ==
    /\ Event
    /\ svTask[h].pc = "idle"
    /\ svTask' = [svTask EXCEPT ![h] = [NoTask EXCEPT !.pc = "stop", !.then = "read"]]
    /\ Enter
    /\ UNCHANGED <<svKind, svRow, svFile, svProc, svTries, svChild, svLost, svFailed>>

\* Any other setting is a new version of the same row.
MtproxyUpdateInbound(h) ==
    /\ svKind = "mtproxy"
    /\ \E row \in {svRow, [svRow EXCEPT !.on = ~@], [svRow EXCEPT !.valid = ~@]} : SaveRow(h, row)

MdnsvpnUpdateInbound(h) ==
    /\ svKind = "mdnsvpn"
    /\ \E row \in {svRow, [svRow EXCEPT !.on = ~@], [svRow EXCEPT !.valid = ~@]} : SaveRow(h, row)

\* regenerate-key, and delete_client with rotateKey: a new shared key is a new version.
MdnsvpnRotateKey(h) == svKind = "mdnsvpn" /\ SaveRow(h, svRow)

UpdateBundle(h) ==
    /\ svKind \in {"dnscrypt", "tor"}
    /\ \E row \in {svRow, [svRow EXCEPT !.on = ~@], [svRow EXCEPT !.tor = ~@],
                   [svRow EXCEPT !.valid = ~@], [svRow EXCEPT !.extra = "bridge"],
                   [svRow EXCEPT !.extra = "exec"]} : SaveRow(h, row)

\* One reconcile serves both DNS children: the sibling's watchdog runs this one's too.
SiblingRestarts(h) ==
    /\ svKind \in {"dnscrypt", "tor"}
    /\ Event
    /\ svTask[h].pc = "idle"
    /\ svTask' = [svTask EXCEPT ![h] = [NoTask EXCEPT !.pc = "read", !.reset = FALSE]]
    /\ Enter
    /\ UNCHANGED <<svKind, svRow, svFile, svProc, svTries, svChild, svLost, svFailed>>

MtproxyRestart(h) == svKind = "mtproxy" /\ StopFirst(h)
MdnsvpnRestart(h) == svKind = "mdnsvpn" /\ StopFirst(h)
DnsRestart(h) == svKind \in {"dnscrypt", "tor"} /\ StopFirst(h)

-----------------------------------------------------------------------------
(* ensure_running_inner *)

ReadRow(t) ==
    /\ svTask[t].pc = "read"
    /\ svTask' = [svTask EXCEPT ![t] = IF StaysOff(svRow)
            THEN [NoTask EXCEPT !.pc = "stop"]
            ELSE [@ EXCEPT !.pc = "write", !.row = Generate(svRow)]]
    /\ UNCHANGED <<svKind, svRow, svFile, svProc, svTries, svChild, svLeft, svLost, svOverlap, svFailed>>

\* The write of the configuration, or of the key file after it, may fail.
WriteConfig(t) ==
    /\ svTask[t].pc = "write"
    /\ \/ /\ svFile' = svTask[t].row
          /\ Goto(t, "check")
          /\ UNCHANGED <<svLeft, svFailed>>
       \/ /\ Event
          /\ End(t)
          /\ svFailed' = TRUE
          /\ UNCHANGED svFile
    /\ UNCHANGED <<svKind, svRow, svProc, svTries, svChild, svLost, svOverlap>>

NewChild(t, c) ==
    svChild' = [svChild EXCEPT ![c] = [st |-> "up", cfg |-> svFile, flag |-> FALSE, dog |-> "wait"]]

\* A watchdog's restart leaves the counter, an administrative one clears it.
SetProc(t, c) ==
    /\ svProc' = c
    /\ svLost' = IF svProc # 0 /\ svProc # c THEN svLost \cup {svProc} ELSE svLost
    /\ svTries' = IF svTask[t].reset THEN 0 ELSE svTries
    /\ svFailed' = FALSE

NextChild == Cardinality(Spawned) + 1

\* telemt watches its file: a recorded child is left alone.
MtproxyCheck(t) ==
    /\ svKind = "mtproxy" /\ svTask[t].pc = "check"
    /\ IF svProc # 0 THEN End(t) /\ svFailed' = FALSE ELSE Goto(t, "spawn") /\ UNCHANGED svFailed
    /\ UNCHANGED <<svKind, svRow, svFile, svProc, svTries, svChild, svLeft, svLost, svOverlap>>

\* No reload: a recorded child is stopped first, with the mutex released.
RestartCheckReloads(t) ==
    /\ svTask[t].pc = "check"
    /\ IF svProc # 0 THEN End(t) ELSE Goto(t, "spawn")
    /\ UNCHANGED <<svKind, svRow, svFile, svProc, svTries, svChild, svLeft, svLost, svOverlap, svFailed>>
RestartCheck(t) ==
    /\ svTask[t].pc = "check"
    /\ svTask' = [svTask EXCEPT ![t].pc = IF svProc # 0 THEN "stop" ELSE "spawn", ![t].then = "spawn"]
    /\ UNCHANGED <<svKind, svRow, svFile, svProc, svTries, svChild, svLeft, svLost, svOverlap, svFailed>>
MdnsvpnCheck(t) == svKind = "mdnsvpn" /\ RestartCheck(t)
TorCheck(t) == svKind = "tor" /\ RestartCheck(t)

\* dnscrypt-proxy: SIGHUP, or spawn and record, under one hold of the mutex. A signal to
\* a reaped pid is an error.
DnscryptCheck(t) ==
    /\ svKind = "dnscrypt" /\ svTask[t].pc = "check"
    /\ IF svProc # 0
       THEN /\ svChild' = [svChild EXCEPT ![svProc].cfg = svFile]
            /\ svFailed' = (svChild[svProc].st = "gone")
            /\ UNCHANGED <<svProc, svLost, svTries>>
       ELSE /\ NextChild \in Children
            /\ NewChild(t, NextChild)
            /\ SetProc(t, NextChild)
    /\ End(t)
    /\ UNCHANGED <<svKind, svRow, svFile, svLeft, svOverlap>>

\* spawn and the record of it are two holds of the mutex for the others.
SpawnChild(t) ==
    /\ svTask[t].pc = "spawn"
    /\ NextChild \in Children
    /\ NewChild(t, NextChild)
    /\ svTask' = [svTask EXCEPT ![t].pc = "record", ![t].pid = NextChild]
    /\ UNCHANGED <<svKind, svRow, svFile, svProc, svTries, svLeft, svLost, svOverlap, svFailed>>
RecordChild(t) ==
    /\ svTask[t].pc = "record"
    /\ SetProc(t, svTask[t].pid)
    /\ End(t)
    /\ UNCHANGED <<svKind, svRow, svFile, svChild, svLeft, svOverlap>>
MtproxySpawn(t) == svKind = "mtproxy" /\ (SpawnChild(t) \/ RecordChild(t))
MdnsvpnSpawn(t) == svKind = "mdnsvpn" /\ (SpawnChild(t) \/ RecordChild(t))
TorSpawn(t) == svKind = "tor" /\ (SpawnChild(t) \/ RecordChild(t))

-----------------------------------------------------------------------------
(* stop_if_running: take the record; flag and signal; wait for the exit,    *)
(* by SIGKILL at the latest.                                                *)
StopTake(t) ==
    /\ svTask[t].pc = "stop"
    /\ svProc' = 0
    /\ svTask' = [svTask EXCEPT ![t].pid = svProc,
            ![t].pc = IF svProc = 0 THEN "stopped" ELSE "flag"]
    /\ UNCHANGED <<svKind, svRow, svFile, svTries, svChild, svLeft, svLost, svOverlap, svFailed>>
StopFlag(t) ==
    /\ svTask[t].pc = "flag"
    /\ svChild' = [svChild EXCEPT ![svTask[t].pid].flag = TRUE,
                                  ![svTask[t].pid].st = IF @ = "up" THEN "asked" ELSE @]
    /\ Goto(t, "gone")
    /\ UNCHANGED <<svKind, svRow, svFile, svProc, svTries, svLeft, svLost, svOverlap, svFailed>>
StopDone(t) ==
    /\ \/ svTask[t].pc = "stopped"
       \/ svTask[t].pc = "gone" /\ svChild[svTask[t].pid].st = "gone"
    /\ IF svTask[t].then = "end"
       THEN End(t) /\ svFailed' = FALSE
       ELSE Goto(t, svTask[t].then) /\ UNCHANGED svFailed
    /\ UNCHANGED <<svKind, svRow, svFile, svProc, svTries, svChild, svLeft, svLost, svOverlap>>
StopIfRunning(t) == StopTake(t) \/ StopFlag(t) \/ StopDone(t)
MtproxyStop(t) == svKind = "mtproxy" /\ StopIfRunning(t)
MdnsvpnStop(t) == svKind = "mdnsvpn" /\ StopIfRunning(t)
DnsStop(t) == svKind \in {"dnscrypt", "tor"} /\ StopIfRunning(t)

-----------------------------------------------------------------------------
(* Children and watchdogs *)

Dies(c) ==
    /\ \/ svChild[c].st = "up" /\ Readable(svChild[c].cfg) /\ Event
       \/ svChild[c].st = "up" /\ ~Readable(svChild[c].cfg) /\ UNCHANGED svLeft
       \/ svChild[c].st = "asked" /\ UNCHANGED svLeft
    /\ svChild' = [svChild EXCEPT ![c].st = "dead"]
    /\ UNCHANGED <<svKind, svRow, svFile, svProc, svTries, svTask, svLost, svOverlap, svFailed>>

\* telemt's watch on the file.
ChildReloads(c) ==
    /\ svKind = "mtproxy" /\ Alive(c) /\ svChild[c].cfg # svFile
    /\ svChild' = [svChild EXCEPT ![c].cfg = svFile]
    /\ UNCHANGED <<svKind, svRow, svFile, svProc, svTries, svTask, svLeft, svLost, svOverlap, svFailed>>

\* The watchdog exists once the child is recorded. Its wait() ends the zombie, for
\* pid_alive; then it takes whatever record there is.
Wait(c) ==
    /\ svChild[c].st = "dead"
    /\ \A t \in Tasks : svTask[t].pc = "record" => svTask[t].pid # c
    /\ svChild' = [svChild EXCEPT ![c].st = "gone"]
    /\ UNCHANGED <<svKind, svRow, svFile, svProc, svTries, svTask, svLeft, svLost, svOverlap, svFailed>>
Reap(c) ==
    /\ svChild[c].st = "gone" /\ svChild[c].dog = "wait"
    /\ svProc' = 0
    /\ svLost' = IF svProc \notin {0, c} THEN svLost \cup {svProc} ELSE svLost
    /\ svChild' = [svChild EXCEPT ![c].dog = "reaped"]
    /\ svOverlap' = (svOverlap \/ \E t \in Tasks \ {c} : AtWork(t))
    /\ UNCHANGED <<svKind, svRow, svFile, svTries, svTask, svLeft, svFailed>>

\* An administrative exit, a row that stays off, one crash too many, or another try.
Judge(c) ==
    /\ svChild[c].dog = "reaped"
    /\ svChild' = [svChild EXCEPT ![c].dog = "done"]
    /\ IF svChild[c].flag
       THEN UNCHANGED <<svTries, svTask, svFailed>>
       ELSE IF StaysOff(svRow)
       THEN svTries' = 0 /\ UNCHANGED <<svTask, svFailed>>
       ELSE /\ svTries' \in {1, svTries + 1}
            /\ svFailed' = (svTries' > SvAttempts)
            /\ IF svTries' > SvAttempts THEN UNCHANGED svTask 
               ELSE svTask' = [svTask EXCEPT ![c] = [NoTask EXCEPT !.pc = "read", !.reset = FALSE]]
    /\ UNCHANGED <<svKind, svRow, svFile, svProc, svLeft, svLost, svOverlap>>
Watchdog(c) == Wait(c) \/ Reap(c) \/ Judge(c)
MtproxyWatchdog(c) == svKind = "mtproxy" /\ Watchdog(c)
MdnsvpnWatchdog(c) == svKind = "mdnsvpn" /\ Watchdog(c)
DnsWatchdog(c) == svKind \in {"dnscrypt", "tor"} /\ Watchdog(c)

-----------------------------------------------------------------------------
Next ==
    \/ \E h \in Handlers :
        \/ MtproxyUpdateInbound(h) \/ MtproxyRestart(h)
        \/ MdnsvpnUpdateInbound(h) \/ MdnsvpnRotateKey(h) \/ MdnsvpnRestart(h)
        \/ UpdateBundle(h) \/ SiblingRestarts(h) \/ DnsRestart(h)
    \/ \E t \in Tasks :
        \/ ReadRow(t) \/ WriteConfig(t)
        \/ MtproxyCheck(t) \/ MdnsvpnCheck(t) \/ TorCheck(t) \/ DnscryptCheck(t)
        \/ MtproxySpawn(t) \/ MdnsvpnSpawn(t) \/ TorSpawn(t)
        \/ MtproxyStop(t) \/ MdnsvpnStop(t) \/ DnsStop(t)
    \/ \E c \in Children :
        \/ Dies(c) \/ ChildReloads(c)
        \/ MtproxyWatchdog(c) \/ MdnsvpnWatchdog(c) \/ DnsWatchdog(c)

Spec == Init /\ [][Next]_vars

-----------------------------------------------------------------------------

AtRest ==
    /\ \A t \in Tasks : ~AtWork(t)
    /\ \A c \in Spawned : svKind = "mtproxy" /\ Alive(c) => svChild[c].cfg = svFile

\* As long as no two tasks were at work at once, the last save is what runs: a child of
\* the current version when the row wants one, none when it does not (for dnscrypt, one
\* that can read its file).
LastSaveIsServed ==
    AtRest /\ Readable(Generate(svRow)) /\ ~svOverlap /\ ~svFailed /\ svLost = {} =>
        IF StaysOff(svRow)
        THEN \A c \in Spawned : ~Alive(c)
        ELSE svProc # 0 /\ svChild[svProc].st = "up" /\ svChild[svProc].cfg = Generate(svRow)

=============================================================================
