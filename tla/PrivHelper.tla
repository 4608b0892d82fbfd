----------------------------- MODULE PrivHelper -----------------------------
(* privhelper.rs: the root process that runs awg and nft for the web process. *)
(* One thread accepts one connection at a time; a configuration is written,   *)
(* stripped and synced in three commands.                                     *)
EXTENDS Naturals, Sequences

CONSTANTS
    PhCallers,      \* connections of the web process in flight
    PhSilent,       \* connections that never send a request
    PhCalls,        \* bound: calls
    PhFaults        \* bound: crashes of the helper and failing commands

VARIABLES
    phHelper,       \* "down", "bound", "chmod", "chown", "accepting"
    phSocket,       \* the published path: "none", "dead", "live"
    phConf,         \* interface's file: version, 0 while it is being written
    phKernel,       \* version the interface runs, 0 when it is down
    phConn,         \* connection -> position and request
    phLeft

vars == <<phHelper, phSocket, phConf, phKernel, phConn, phLeft>>

Conns == PhCallers \cup PhSilent
\* plain: the text carries no hook directive and the firewall's addresses parse. WgShow, NftList,
\* NftApply and Ping leave the interface alone: "other".
Requests == [op : {"sync"}, config : 1..2, plain : BOOLEAN] \cup [op : {"up", "down", "other"}]
Idle == [pc |-> "idle"]
Held == {c \in Conns : phConn[c].pc \notin {"idle", "queued"}}

Init ==
    /\ phHelper = "down" /\ phSocket = "none"
    /\ phConf = 1 /\ phKernel \in {0, 1}
    /\ phConn = [c \in Conns |-> Idle]
    /\ phLeft = [call |-> PhCalls, fault |-> PhFaults]

-----------------------------------------------------------------------------
(* serve: the socket gets its mode and group under another name *)

Publish ==
    /\ \/ phHelper = "down" /\ phHelper' = "bound" /\ UNCHANGED phSocket
       \/ phHelper = "bound" /\ phHelper' = "chmod" /\ UNCHANGED phSocket
       \/ phHelper = "chmod" /\ phHelper' = "chown" /\ UNCHANGED phSocket
       \/ phHelper = "chown" /\ phHelper' = "accepting" /\ phSocket' = "live"
    /\ UNCHANGED <<phConf, phKernel, phConn, phLeft>>

\* Killed: its connections break, the path stays.
Dies ==
    /\ phHelper # "down" /\ phLeft.fault > 0
    /\ phLeft' = [phLeft EXCEPT !.fault = @ - 1]
    /\ phHelper' = "down" /\ phSocket' = IF phSocket = "live" THEN "dead" ELSE phSocket
    /\ phConn' = [c \in Conns |-> Idle]
    /\ UNCHANGED <<phConf, phKernel>>

-----------------------------------------------------------------------------
(* call: connect, write, read; no timeout on this side *)

Call(c) ==
    /\ phConn[c] = Idle /\ phLeft.call > 0
    /\ phLeft' = [phLeft EXCEPT !.call = @ - 1]
    /\ IF phSocket # "live" THEN UNCHANGED phConn
       ELSE \E r \in IF c \in PhSilent THEN [op : {"other"}] ELSE Requests :
                phConn' = [phConn EXCEPT ![c] = [pc |-> "queued", req |-> r]]
    /\ UNCHANGED <<phHelper, phSocket, phConf, phKernel>>

At(c, pc) == phConn[c].pc = pc /\ UNCHANGED <<phHelper, phSocket>>
Goto(c, pc) == phConn' = [phConn EXCEPT ![c].pc = pc]
Answer(c) == phConn' = [phConn EXCEPT ![c] = Idle]
\* A command that fails ends the request with an error.
CommandFails(c) ==
    /\ phLeft.fault > 0 /\ phLeft' = [phLeft EXCEPT !.fault = @ - 1]
    /\ Answer(c)
    /\ UNCHANGED <<phConf, phKernel>>
Quietly == UNCHANGED phLeft

\* listener.incoming(): the next connection once the last is handled.
AcceptNext(c) ==
    /\ phHelper = "accepting" /\ Held = {} /\ At(c, "queued") /\ Goto(c, "read")
    /\ UNCHANGED <<phConf, phKernel>> /\ Quietly

ReadRequest(c) ==
    /\ c \in PhCallers /\ At(c, "read") /\ Goto(c, "dispatch")
    /\ UNCHANGED <<phConf, phKernel>> /\ Quietly
\* IO_TIMEOUT
ReadWaits(c) == FALSE
ReadTimesOut(c) ==
    /\ c \in PhSilent /\ At(c, "read") /\ Answer(c)
    /\ UNCHANGED <<phConf, phKernel>> /\ Quietly

\* awg-quick up, down; the rest changes nothing this module keeps.
Dispatch(c) ==
    LET r == phConn[c].req IN
    /\ At(c, "dispatch")
    /\ \/ r.op = "sync" /\ Goto(c, "check") /\ UNCHANGED <<phConf, phKernel>> /\ Quietly
       \/ r.op = "other" /\ Answer(c) /\ UNCHANGED <<phConf, phKernel>> /\ Quietly
       \/ r.op = "up" /\ phKernel = 0 /\ Answer(c) /\ phKernel' = phConf /\ UNCHANGED phConf /\ Quietly
       \/ r.op = "up" /\ phKernel # 0 /\ Answer(c) /\ UNCHANGED <<phConf, phKernel>> /\ Quietly
       \/ r.op = "down" /\ Answer(c) /\ phKernel' = 0 /\ UNCHANGED phConf /\ Quietly
       \/ r.op # "sync" /\ CommandFails(c)

-----------------------------------------------------------------------------
(* wg_sync *)

\* reject_hook_directives, FirewallParams::validate
Check(c) ==
    /\ At(c, "check")
    /\ IF phConn[c].req.plain THEN Goto(c, "write") ELSE Answer(c)
    /\ UNCHANGED <<phConf, phKernel>> /\ Quietly
\* Truncated, then written.
OpenConf(c) ==
    /\ At(c, "write") /\ Goto(c, "writing")
    /\ phConf' = 0
    /\ UNCHANGED phKernel /\ Quietly
WriteConf(c) ==
    /\ At(c, "writing")
    /\ \/ phConf' = phConn[c].req.config /\ Goto(c, "show") /\ UNCHANGED <<phKernel, phLeft>>
       \/ CommandFails(c)
Show(c) ==
    /\ At(c, "show")
    /\ IF phKernel = 0 THEN Answer(c) ELSE Goto(c, "strip")
    /\ UNCHANGED <<phConf, phKernel>> /\ Quietly
Strip(c) ==
    /\ At(c, "strip")
    /\ \/ phConn' = [phConn EXCEPT ![c] = [pc |-> "syncconf", req |-> phConf]]
          /\ UNCHANGED <<phConf, phKernel>> /\ Quietly
       \/ CommandFails(c)
Syncconf(c) ==
    /\ At(c, "syncconf")
    /\ \/ phKernel' = (IF phKernel = 0 THEN 0 ELSE phConn[c].req) /\ Answer(c) /\ UNCHANGED phConf /\ Quietly
       \/ CommandFails(c)

Handle(c) ==
    AcceptNext(c) \/ ReadRequest(c) \/ ReadTimesOut(c) \/ Dispatch(c) \/ Check(c) \/ OpenConf(c) \/ WriteConf(c)
    \/ Show(c) \/ Strip(c) \/ Syncconf(c)

Next == Publish \/ Dies \/ \E c \in Conns : Call(c) \/ Handle(c)

Spec == Init /\ [][Next]_vars

\* The helper's only thread runs, and commands end.
Fairness == \A c \in Conns : SF_vars(AcceptNext(c)) /\ WF_vars(Handle(c) /\ phConn[c].pc # "queued")
FairSpec == Spec /\ Fairness

-----------------------------------------------------------------------------

\* A call is answered, or fails, whatever other connections do.
CallReturns == \A c \in PhCallers : phConn[c].pc # "idle" ~> phConn[c].pc = "idle"
=============================================================================
