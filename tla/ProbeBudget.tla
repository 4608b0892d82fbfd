---------------------------- MODULE ProbeBudget ----------------------------
(* proxy/metrics.rs: the receive loop, the deferred SIP tasks and the DNS   *)
(* forwards draw replies to strangers from one byte allowance per second    *)
(* and from a token bucket per client, both a word updated by               *)
(* compare_exchange after the clock was read.                               *)
EXTENDS Naturals, FiniteSets

CONSTANTS
    PbTasks, PbSizes,
    PbBytes,        \* max_bytes_per_sec
    PbRate,         \* rate_limit_per_sec: the bucket's size and refill
    PbPermits,      \* dns_forward_semaphore
    PbSeconds       \* bound: the clock

VARIABLES
    pbNow,      \* coarse_now_secs
    pbState,    \* GlobalProbeBudget.state: [bytes, ts]
    pbTokens,   \* ClientMetrics.rate_state: [n, ts], n in whole tokens
    pbFree,     \* permits of the semaphore
    pbTask,     \* task -> position, clock and word it read
    pbSince,    \* history: bytes admitted since the allowance was last reset
    pbForward   \* tasks that are DNS forwards and hold a permit

words == <<pbState, pbTokens>>
vars == <<pbNow, words, pbFree, pbTask, pbSince, pbForward>>

Idle == [pc |-> "idle"]
Goto(t, to) == pbTask' = [pbTask EXCEPT ![t] = to]
Lesser(a, b) == IF a < b THEN a ELSE b

Init ==
    /\ pbNow = 0
    /\ pbState = [bytes |-> PbBytes, ts |-> 0]
    /\ pbTokens = [n |-> PbRate, ts |-> 0]
    /\ pbFree = PbPermits /\ pbForward = {}
    /\ pbTask = [t \in PbTasks |-> Idle]
    /\ pbSince = 0

Tick == pbNow < PbSeconds /\ pbNow' = pbNow + 1
        /\ UNCHANGED <<words, pbFree, pbTask, pbSince, pbForward>>

-----------------------------------------------------------------------------
(* ClientMetrics::try_acquire_at *)

Refilled(old, now) ==
    LET elapsed == IF now > old.ts THEN now - old.ts ELSE 0
    IN  Lesser(old.n + elapsed * PbRate, PbRate)

ReadTokenClock(t) ==
    /\ pbTask[t] = Idle
    /\ Goto(t, [pc |-> "token", now |-> pbNow])
    /\ UNCHANGED <<pbNow, words, pbFree, pbSince, pbForward>>
LoadTokens(t) ==
    /\ pbTask[t].pc = "token"
    /\ Goto(t, [pc |-> "tokencas", now |-> pbTask[t].now, old |-> pbTokens])
    /\ UNCHANGED <<pbNow, words, pbFree, pbSince, pbForward>>
\* A refusal stores the refilled word if it still can; a grant retries until it stores.
SwapTokens(t) ==
    /\ pbTask[t].pc = "tokencas"
    /\ LET l == pbTask[t]
           n == Refilled(l.old, l.now)
           same == pbTokens = l.old
       IN  /\ pbTokens' = IF same THEN [n |-> IF n = 0 THEN 0 ELSE n - 1, ts |-> l.now] ELSE pbTokens
           /\ Goto(t, IF n = 0 THEN Idle
                      ELSE IF same THEN [pc |-> "granted"]
                      ELSE [pc |-> "token", now |-> l.now])
    /\ UNCHANGED <<pbNow, pbState, pbFree, pbSince, pbForward>>

\* try_spawn_dns_forward: a permit, or the synthetic answer of the receive loop itself.
Forward(t) ==
    /\ pbTask[t].pc = "granted" /\ pbFree > 0
    /\ pbFree' = pbFree - 1 /\ pbForward' = pbForward \cup {t}
    /\ Goto(t, [pc |-> "reply"])
    /\ UNCHANGED <<pbNow, words, pbSince>>
ReplyInline(t) ==
    /\ pbTask[t].pc = "granted"
    /\ Goto(t, [pc |-> "reply"])
    /\ UNCHANGED <<pbNow, words, pbFree, pbSince, pbForward>>

-----------------------------------------------------------------------------
(* GlobalProbeBudget::try_consume_at *)

\* The task ends with its reply sent or suppressed; a forward returns its permit.
End(t) ==
    /\ Goto(t, Idle)
    /\ pbFree' = IF t \in pbForward THEN pbFree + 1 ELSE pbFree
    /\ pbForward' = pbForward \ {t}

\* A reply above the whole allowance is refused outright.
ReadBudgetClock(t) ==
    /\ pbTask[t].pc = "reply"
    /\ \E size \in PbSizes :
        IF size > PbBytes THEN End(t)
        ELSE /\ Goto(t, [pc |-> "budget", now |-> pbNow, size |-> size])
             /\ UNCHANGED <<pbFree, pbForward>>
    /\ UNCHANGED <<pbNow, words, pbSince>>
LoadBudget(t) ==
    /\ pbTask[t].pc = "budget"
    /\ Goto(t, [pc |-> "budgetcas", now |-> pbTask[t].now, size |-> pbTask[t].size, old |-> pbState])
    /\ UNCHANGED <<pbNow, words, pbFree, pbSince, pbForward>>

Available(l) == IF l.now # l.old.ts THEN PbBytes ELSE l.old.bytes

Unchanged(l) == pbState = l.old
Stored(l) == TRUE
Exchanged(l) == Unchanged(l)

SwapBudget(t) ==
    /\ pbTask[t].pc = "budgetcas"
    /\ LET l == pbTask[t]
           reset == l.now # l.old.ts
       IN  \/ /\ Available(l) < l.size
              /\ pbState' = IF Exchanged(l) THEN [bytes |-> Available(l), ts |-> l.now] ELSE pbState
              /\ pbSince' = IF Exchanged(l) /\ reset THEN 0 ELSE pbSince
              /\ End(t)
           \/ /\ Available(l) >= l.size /\ Exchanged(l)
              /\ pbState' = [bytes |-> Available(l) - l.size, ts |-> l.now]
              /\ pbSince' = (IF reset THEN 0 ELSE pbSince) + l.size
              /\ End(t)
           \/ /\ Available(l) >= l.size /\ ~Exchanged(l)
              /\ Goto(t, [pc |-> "budget", now |-> l.now, size |-> l.size])
              /\ UNCHANGED <<pbState, pbSince, pbFree, pbForward>>
    /\ UNCHANGED <<pbNow, pbTokens>>

Next ==
    \/ Tick
    \/ \E t \in PbTasks : ReadTokenClock(t) \/ LoadTokens(t) \/ SwapTokens(t) \/ Forward(t)
        \/ ReplyInline(t) \/ ReadBudgetClock(t) \/ LoadBudget(t) \/ SwapBudget(t)

Spec == Init /\ [][Next]_vars

-----------------------------------------------------------------------------

\* Between two resets of the allowance no more than the ceiling is admitted, whichever tasks
\* race for it (the compare_exchange of try_consume_at).
CeilingBetweenResets == pbSince <= PbBytes
=============================================================================
