---------------------------- MODULE AdminSettings ----------------------------
(* api/admin.rs: the forms of the general settings, the hooks, the defaults   *)
(* and the interface. A form carries some of the fields; it is judged against *)
(* itself or against the stored row, read in one database call and written in *)
(* another. And what the metrics' settings guard: the scrapes of              *)
(* api/routes.rs, with the attempt limiter of api/session.rs.                 *)
EXTENDS Naturals, FiniteSets

CONSTANTS
    AsHandlers,     \* forms in flight
    AsForms,        \* bound: forms submitted
    AsPad,          \* HEADER_PROTECTION_MIN_S
    AsSources,      \* keys of the attempt store: addresses that scrape
    AsKeys,         \* MAX_RATE_LIMIT_KEYS
    AsLimit,        \* scrapes an address may try in a window (30 in the code)
    AsWindow,       \* the window, in ticks of the clock (60 s)
    AsTime, AsScrapes \* bounds: the clock, scrapes

VARIABLES
    asGeneral,      \* general row: the two formats on, password (0: none), key retention
    asKeys,         \* peers' private keys are stored
    asIface,        \* interface row: s1, s2, h1, h2, jmin, jmax, header protection, trailers
    asProxy,        \* the proxy is enabled
    asHooks,        \* hooks row: "default", "own", "empty"
    asDefaults,     \* user_configs: "seeded" or "own" lists of resolvers and routes
    asHelper,       \* the privileged helper is in use
    asTask, asLeft,
    asOverlap,      \* history: two forms overlapped
    asNow,
    asTried,        \* LOGIN_ATTEMPTS: key -> its attempts
    asScrapes,
    asJudged,       \* history: key -> attempts for which a token was compared
    asLeaked        \* history: metrics went to someone without the stored password

rows == <<asGeneral, asKeys, asIface, asProxy, asHooks, asDefaults>>
scrapeVars == <<asNow, asTried, asScrapes, asJudged, asLeaked>>
vars == <<rows, asHelper, asTask, asLeft, asOverlap, scrapeVars>>

Idle == [pc |-> "idle"]
Busy == {h \in AsHandlers : asTask[h] # Idle}
Goto(h, r) == asTask' = [asTask EXCEPT ![h] = r]

\* A form is the fields it carries.
Given(f, k) == k \in DOMAIN f
After(f, k, row) == IF Given(f, k) THEN f[k] ELSE row[k]
Merged(f, row) == [k \in DOMAIN row |-> After(f, k, row)]
Modes == {"always", "never"}
Passwords == 0..1
Formats == {"json", "prom"}

Init ==
    /\ asGeneral \in [json : {FALSE}, prom : {FALSE}, password : Passwords, retention : {"always"}]
    /\ asKeys = TRUE
    /\ asIface = [s1 |-> AsPad, s2 |-> AsPad, h1 |-> 1, h2 |-> 2, jmin |-> 1, jmax |-> 2,
                  protected |-> FALSE, trailers |-> FALSE]
    /\ asProxy \in BOOLEAN /\ asHooks = "default" /\ asDefaults = "seeded"
    /\ asHelper \in BOOLEAN
    /\ asTask = [h \in AsHandlers |-> Idle]
    /\ asLeft = AsForms
    /\ asOverlap = FALSE
    /\ asNow = 0 /\ asTried = [a \in {} |-> {}] /\ asScrapes = 0
    /\ asJudged = [a \in AsSources |-> {}] /\ asLeaked = FALSE

Submit(h, r) ==
    /\ asTask[h] = Idle /\ asLeft > 0
    /\ asLeft' = asLeft - 1
    /\ asOverlap' = (asOverlap \/ Busy # {})
    /\ Goto(h, r) /\ UNCHANGED <<asHelper, scrapeVars>>
Step(h, pc) == asTask[h].pc = pc /\ UNCHANGED <<asHelper, asLeft, asOverlap, scrapeVars>>

-----------------------------------------------------------------------------
(* POST /api/admin/general *)

\* A timeout or a retention out of range is refused at once; so is an unknown mode.
GeneralForms ==
    [json : BOOLEAN] \cup [prom : BOOLEAN] \cup [password : Passwords]
    \cup [json : BOOLEAN, password : Passwords] \cup [retention : Modes, prom : BOOLEAN]
UpdateGeneral(h) ==
    /\ \E valid \in BOOLEAN, f \in GeneralForms :
        Submit(h, IF valid THEN [pc |-> "purge", form |-> f] ELSE Idle)
    /\ UNCHANGED rows

\* The keys go as soon as the mode is seen, before the rest of the form is judged.
PurgeClientPrivateKeys(h) ==
    LET f == asTask[h].form IN
    /\ Step(h, "purge")
    /\ asKeys' = (asKeys /\ ~(Given(f, "retention") /\ f.retention = "never"))
    /\ Goto(h, [asTask[h] EXCEPT !.pc = "judge"])
    /\ UNCHANGED <<asGeneral, asIface, asProxy, asHooks, asDefaults>>

\* Metrics that would be on without a password, the row filling in what the form leaves out.
OpenAfter(f, row) == (\E k \in Formats : After(f, k, row)) /\ After(f, "password", row) = 0
JudgeGeneral(h) ==
    /\ Step(h, "judge")
    /\ Goto(h, IF OpenAfter(asTask[h].form, asGeneral) THEN Idle ELSE [asTask[h] EXCEPT !.pc = "general"])
    /\ UNCHANGED rows
WriteGeneral(h) ==
    /\ Step(h, "general")
    /\ asGeneral' = Merged(asTask[h].form, asGeneral)
    /\ Goto(h, Idle)
    /\ UNCHANGED <<asKeys, asIface, asProxy, asHooks, asDefaults>>

-----------------------------------------------------------------------------
(* GET /metrics/json and /metrics/prometheus. The general row is read in one  *)
(* call and only that copy is used, so a scrape is one step.                  *)

\* An attempt is its time; its number tells it from others of that time.
Attempt == [at |-> asNow, nr |-> asScrapes]
Recent(window) == {t \in window : asNow - t.at < AsWindow}
Crowded(store) == Cardinality(DOMAIN store) > AsKeys
Swept(store) ==
    [a \in {b \in DOMAIN store : Recent(store[b]) # {}} |-> Recent(store[a])]
\* A full store is swept, and when that does not help everyone is refused.
CheckIpAttemptLimit(ip) ==
    LET store == IF Crowded(asTried) THEN Swept(asTried) ELSE asTried
        window == IF ip \in DOMAIN store THEN Recent(store[ip]) ELSE {}
        ok == Cardinality(window) < AsLimit
        after == IF ok THEN window \cup {Attempt} ELSE window
    IN  IF Crowded(store) THEN [ok |-> FALSE, store |-> store]
        ELSE [ok |-> ok,
              store |-> [a \in DOMAIN store \cup {ip} |-> IF a = ip THEN after ELSE store[a]]]

\* Fault: no password stored, no password asked for.
OpenWithoutPassword(token, stored) == stored = 0 \/ token = stored
\* No Authorization header is token 0.
CheckMetricsPassword(token, stored) == stored # 0 /\ token = stored

Scrape ==
    /\ asScrapes < AsScrapes /\ asScrapes' = asScrapes + 1
    /\ \E k \in Formats, ip \in AsSources, token \in Passwords :
        LET limit == CheckIpAttemptLimit(ip) IN
        /\ asGeneral[k]
        /\ asTried' = limit.store
        /\ asJudged' = IF limit.ok THEN [asJudged EXCEPT ![ip] = @ \cup {Attempt}] ELSE asJudged
        /\ asLeaked' = (asLeaked \/ (/\ limit.ok
                                      /\ CheckMetricsPassword(token, asGeneral.password)
                                      /\ (token = 0 \/ token # asGeneral.password)))
    /\ UNCHANGED <<rows, asHelper, asTask, asLeft, asOverlap, asNow>>

Tick ==
    /\ asNow < AsTime /\ asNow' = asNow + 1
    /\ UNCHANGED <<rows, asHelper, asTask, asLeft, asOverlap, asTried, asScrapes, asJudged, asLeaked>>

-----------------------------------------------------------------------------
(* POST /api/admin/hooks, /userconfig and the proxy's switch *)

UpdateHooks(h) ==
    /\ \E v \in {"own", "empty"} : asHooks' = IF asHelper /\ v = "own" THEN asHooks ELSE v
    /\ Submit(h, Idle)
    /\ UNCHANGED <<asGeneral, asKeys, asIface, asProxy, asDefaults>>
UpdateUserconfig(h) ==
    /\ \E v \in {"seeded", "own", "malformed"} : asDefaults' = IF v = "malformed" THEN asDefaults ELSE v
    /\ Submit(h, Idle)
    /\ UNCHANGED <<asGeneral, asKeys, asIface, asProxy, asHooks>>
UpdateProxy(h) ==
    /\ asProxy' = ~asProxy /\ Submit(h, Idle)
    /\ UNCHANGED <<asGeneral, asKeys, asIface, asHooks, asDefaults>>

-----------------------------------------------------------------------------
(* POST /api/admin/interface *)

\* validate_cb_params: the rules between two fields apply when the form carries both.
Both(f, a, b) == Given(f, a) /\ Given(f, b)
ValidateCbParams(f) ==
    /\ Both(f, "jmin", "jmax") => f.jmin < f.jmax
    /\ Both(f, "s1", "s2") => ~(f.s1 > 0 /\ f.s2 > 0 /\ f.s1 + 56 = f.s2)
    /\ Both(f, "h1", "h2") => f.h1 # f.h2

CheckHeaderProtectionPaddings(row) == row.s1 >= AsPad /\ row.s2 >= AsPad
\* validate_cb3_params: against the merged row, when the form carries one of the AWG 3 fields.
ValidateCb3Params(f, row, proxy) ==
    Given(f, "protected") \/ Given(f, "trailers") =>
        LET r == Merged(f, row) IN
        /\ r.protected => CheckHeaderProtectionPaddings(r)
        /\ ~((r.protected \/ r.trailers) /\ proxy)

Paddings == {0, AsPad, AsPad + 56}
InterfaceForms ==
    [s1 : Paddings] \cup [s2 : Paddings] \cup [s1 : Paddings, s2 : Paddings]
    \cup [protected : BOOLEAN] \cup [trailers : BOOLEAN] \cup [s1 : Paddings, protected : BOOLEAN]
    \cup [h1 : 1..2] \cup [h1 : 1..2, h2 : 1..2] \cup [jmax : 1..2] \cup [jmin : 1..2, jmax : 1..2]
UpdateInterface(h) ==
    /\ \E f \in InterfaceForms :
        Submit(h, IF ValidateCbParams(f) /\ ValidateCb3Params(f, asIface, asProxy)
                  THEN [pc |-> "interface", form |-> f] ELSE Idle)
    /\ UNCHANGED rows
WriteInterface(h) ==
    /\ Step(h, "interface")
    /\ asIface' = Merged(asTask[h].form, asIface)
    /\ Goto(h, Idle)
    /\ UNCHANGED <<asGeneral, asKeys, asProxy, asHooks, asDefaults>>

GeneralStep == \E h \in AsHandlers :
    UpdateGeneral(h) \/ PurgeClientPrivateKeys(h) \/ JudgeGeneral(h) \/ WriteGeneral(h)
OtherForms == \E h \in AsHandlers :
    UpdateHooks(h) \/ UpdateUserconfig(h) \/ UpdateProxy(h) \/ UpdateInterface(h) \/ WriteInterface(h)
FormsNext == GeneralStep \/ OtherForms
MetricsNext == GeneralStep \/ Scrape \/ Tick
Next == FormsNext \/ MetricsNext

Spec == Init /\ [][Next]_vars

-----------------------------------------------------------------------------

\* Metrics go to nobody without the stored password, also when two forms judged side by side
\* left a format on and the password cleared; forms that did not overlap never leave that
\* state; and an address learns at most AsLimit times in any window whether its guess is
\* right, whatever the sweep of a full store drops (check_metrics_password "Fail closed",
\* update_general "Refuse to enable metrics without a password", check_ip_attempt_limit).
MetricsAreGuarded ==
    /\ ~asLeaked
    /\ ~asOverlap /\ asGeneral.password = 0 => \A k \in Formats : ~asGeneral[k]
    /\ \A a \in AsSources : Cardinality(Recent(asJudged[a])) <= AsLimit
=============================================================================
