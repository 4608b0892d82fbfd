------------------------ MODULE LoginSessionsProofs ------------------------
(***************************************************************************)
(* Proofs about LoginSessions for any number of handlers, requests and     *)
(* restarts: the types, the completeness of an eviction and the refusal of *)
(* a consumed code.                                                        *)
(***************************************************************************)
EXTENDS LoginSessions, TLAPS

(* The requests a caller can make carry a password number and a code.      *)
LEMMA RequestType ==
    ASSUME TypeOK, NEW pw \in Passwords, NEW code \in Codes,
           NEW t \in DOMAIN sessions \cup {NoToken}
    PROVE  /\ [pw |-> pw, code |-> code, token |-> t] \in Request
           /\ [pw |-> 0, code |-> code, token |-> t] \in Request
           /\ [pw |-> pw, code |-> NoCode, token |-> t] \in Request
<1>1. pw \in Nat
  BY DEF TypeOK, Passwords, Row
<1>2. code \in Code
  BY DEF TypeOK, Codes, Code, Window, NoCode, NoKey, Row
<1>3. t \in Nat
  BY DEF TypeOK, NoToken
<1>4. NoCode \in Code
  BY DEF NoCode, NoKey, Code
<1> QED
  BY <1>1, <1>2, <1>3, <1>4 DEF Request

(* The end of a request leaves well-typed copies behind.                   *)
LEMMA ReturnType ==
    ASSUME TypeOK, NEW h \in Handlers, Return(h)
    PROVE  /\ pc' \in [Handlers -> Labels]
           /\ row' \in [Handlers -> Row]
           /\ req' \in [Handlers -> Request]
           /\ seen' \in [Handlers -> Nat]
<1>1. FirstRow \in Row
  BY DEF FirstRow, Row, NoKey
<1>2. NoRequest \in Request
  BY DEF NoRequest, Request, NoCode, NoKey, Code, NoToken
<1> QED
  BY <1>1, <1>2 DEF TypeOK, Return, Goto, Labels

(* Accepting a well-typed request keeps the types.                         *)
LEMMA AcceptType ==
    ASSUME TypeOK, NEW h \in Handlers, NEW r \in Request, NEW l \in Labels,
           Accept(h, r, l)
    PROVE  TypeOK'
BY DEF TypeOK, Accept, Goto, Labels

(* Writing the watermark keeps the types, whatever step the code has.      *)
LEMMA ConsumeType ==
    ASSUME TypeOK, NEW h \in Handlers, Consume(h)
    PROVE  user' \in Row /\ burned' \subseteq Int
<1>1. req[h].code.step \in Int
  BY DEF TypeOK, Request, Code
<1>2. Advance(user, req[h].code.step) \in Row
  BY <1>1 DEF TypeOK, Advance, Row
<1> QED
  BY <1>1, <1>2 DEF Consume, TypeOK

(* The steps of a login keep the types.                                    *)
LEMMA LoginType ==
    ASSUME TypeOK, NEW h \in Handlers, Login(h)
    PROVE  TypeOK'
<1>1. CASE LoginLookup(h)
  BY <1>1, RequestType, AcceptType DEF LoginLookup, Labels
<1>2. CASE LoginVerify(h)
  BY <1>2 DEF TypeOK, LoginVerify, Goto, Labels
<1>3. CASE LoginTotp(h)
  BY <1>3 DEF TypeOK, LoginTotp, Goto, Labels
<1>4. CASE LoginWatermark(h)
  BY <1>4, ConsumeType DEF TypeOK, LoginWatermark, Goto, Labels
<1>5. CASE LoginInsert(h)
  <2> DEFINE s == [created |-> now, at |-> cred, late |-> seen[h] # cred]
  <2>1. s \in Session
    <3>1. (seen[h] # cred) \in BOOLEAN
      OBVIOUS
    <3> QED
      BY <3>1 DEF Session, TypeOK
  <2>2. sessions' = [t \in DOMAIN sessions \cup {nextToken} |->
                        IF t = nextToken THEN s ELSE sessions[t]]
    BY <1>5 DEF LoginInsert
  <2> HIDE DEF s
  <2>3. sessions' \in [DOMAIN sessions' -> Session]
    BY <2>1, <2>2 DEF TypeOK
  <2>4. DOMAIN sessions' \subseteq 1..(nextToken' - 1)
    BY <1>5, <2>2 DEF TypeOK, LoginInsert
  <2> QED
    BY <1>5, <2>3, <2>4, ReturnType DEF TypeOK, LoginInsert
<1>6. CASE LoginRefused(h)
  BY <1>6, ReturnType DEF TypeOK, LoginRefused
<1> QED
  BY <1>1, <1>2, <1>3, <1>4, <1>5, <1>6 DEF Login

(* The steps of the credential handlers keep the types.                    *)
LEMMA CredentialsType ==
    ASSUME TypeOK, NEW h \in Handlers, Credentials(h)
    PROVE  TypeOK'
<1>1. CASE AcceptPassword(h)
  BY <1>1, RequestType, AcceptType DEF AcceptPassword, Authenticated, Labels, Codes
<1>2. CASE ChangePassword(h)
  BY <1>2 DEF TypeOK, ChangePassword, Goto, Labels, Row
<1>3. CASE RevokeSessions(h)
  BY <1>3, ReturnType DEF TypeOK, RevokeSessions, Session
<1>4. CASE AcceptTotpSetup(h)
  BY <1>4, RequestType, AcceptType DEF AcceptTotpSetup, Authenticated, Labels, Codes
<1>5. CASE TotpSetup(h)
  <2>1. user' = [pw |-> user.pw, key |-> nextKey, verified |-> FALSE, last |-> user.last]
    BY <1>5 DEF TotpSetup, TypeOK, Row
  <2>2. user' \in Row
    BY <2>1 DEF TypeOK, Row
  <2> QED
    BY <1>5, <2>2, ReturnType DEF TypeOK, TotpSetup
<1>6. CASE AcceptTotpCreate(h)
  BY <1>6, RequestType, AcceptType DEF AcceptTotpCreate, Authenticated, Labels, Passwords
<1>7. CASE TotpCreateCheck(h)
  BY <1>7 DEF TypeOK, TotpCreateCheck, Goto, Labels
<1>8. CASE TotpCreateWrite(h)
  BY <1>8 DEF TypeOK, TotpCreateWrite, Goto, Labels, Row
<1>9. CASE TotpCreateWatermark(h)
  BY <1>9, ConsumeType, ReturnType DEF TypeOK, TotpCreateWatermark
<1>10. CASE AcceptTotpDelete(h)
  BY <1>10, RequestType, AcceptType DEF AcceptTotpDelete, Authenticated, Labels, Codes
<1>11. CASE TotpDelete(h)
  <2>1. user' = [pw |-> user.pw, key |-> 0, verified |-> FALSE, last |-> user.last]
    BY <1>11 DEF TotpDelete, TypeOK, Row, EmptyKey
  <2>2. user' \in Row
    BY <2>1 DEF TypeOK, Row
  <2> QED
    BY <1>11, <2>2 DEF TypeOK, TotpDelete, Goto, Labels
<1>12. CASE RequestRefused(h)
  BY <1>12, ReturnType DEF TypeOK, RequestRefused
<1> QED
  BY <1>1, <1>2, <1>3, <1>4, <1>5, <1>6, <1>7, <1>8, <1>9, <1>10, <1>11, <1>12
     DEF Credentials

(* Logout, the sweep, the clock and a restart keep the types.              *)
LEMMA OtherType ==
    ASSUME TypeOK, Logout \/ Prune \/ Tick \/ Restart
    PROVE  TypeOK'
<1>1. CASE Logout
  BY <1>1 DEF TypeOK, Logout
<1>2. CASE Prune
  BY <1>2 DEF TypeOK, Prune
<1>3. CASE Tick
  BY <1>3 DEF TypeOK, Tick
<1>4. CASE Restart
  <2>1. FirstRow \in Row /\ NoRequest \in Request
    BY DEF FirstRow, Row, NoRequest, Request, NoCode, NoKey, Code, NoToken
  <2> QED
    BY <1>4, <2>1 DEF TypeOK, Restart, Labels
<1> QED
  BY <1>1, <1>2, <1>3, <1>4

(* Type correctness of every reachable state.                              *)
THEOREM TypeCorrect == Spec => []TypeOK
<1>1. Init => TypeOK
  <2> SUFFICES ASSUME Init PROVE TypeOK
    OBVIOUS
  <2>1. FirstRow \in Row /\ NoRequest \in Request
    BY DEF FirstRow, Row, NoRequest, Request, NoCode, NoKey, Code, NoToken
  <2>2. EnrolledRow \in Row
    BY DEF EnrolledRow, Row
  <2> QED
    BY <2>1, <2>2 DEF Init, TypeOK, Labels
<1>2. TypeOK /\ [Next]_vars => TypeOK'
  <2> SUFFICES ASSUME TypeOK, [Next]_vars PROVE TypeOK'
    OBVIOUS
  <2>1. CASE Next
    BY <2>1, LoginType, CredentialsType, OtherType DEF Next
  <2>2. CASE UNCHANGED vars
    BY <2>2 DEF TypeOK, vars
  <2> QED
    BY <2>1, <2>2
<1> QED
  BY <1>1, <1>2, PTL DEF Spec

-----------------------------------------------------------------------------
(* A step in which no handler at its eviction moves and no session gets    *)
(* older than the credentials keeps the property.                          *)
LEMMA RevocationKept ==
    ASSUME RevocationIsComplete, TypeOK,
           NEW h \in Handlers, pc[h] # "revoke",
           NEW l \in Labels, pc' = [pc EXCEPT ![h] = l],
           sessions' = sessions, cred' = cred
    PROVE  RevocationIsComplete'
BY DEF RevocationIsComplete, TypeOK

(* The completeness of an eviction is kept by every step.                  *)
LEMMA RevocationStep ==
    ASSUME TypeOK, RevocationIsComplete, [Next]_vars
    PROVE  RevocationIsComplete'
<1>1. ASSUME NEW h \in Handlers, Login(h) PROVE RevocationIsComplete'
  <2>1. CASE LoginLookup(h)
    BY <2>1, RevocationKept DEF LoginLookup, Accept, Goto, Labels
  <2>2. CASE LoginVerify(h)
    BY <2>2, RevocationKept DEF LoginVerify, Goto, Labels
  <2>3. CASE LoginTotp(h)
    BY <2>3, RevocationKept DEF LoginTotp, Goto, Labels
  <2>4. CASE LoginWatermark(h)
    BY <2>4, RevocationKept DEF LoginWatermark, Goto, Labels
  <2>5. CASE LoginInsert(h)
    BY <2>5 DEF LoginInsert, Return, Goto, RevocationIsComplete, TypeOK
  <2>6. CASE LoginRefused(h)
    BY <2>6, RevocationKept DEF LoginRefused, Return, Goto, Labels
  <2> QED
    BY <1>1, <2>1, <2>2, <2>3, <2>4, <2>5, <2>6 DEF Login
<1>2. ASSUME NEW h \in Handlers, Credentials(h) PROVE RevocationIsComplete'
  <2>1. CASE AcceptPassword(h) \/ AcceptTotpSetup(h) \/ AcceptTotpCreate(h)
             \/ AcceptTotpDelete(h)
    BY <2>1, RevocationKept
       DEF AcceptPassword, AcceptTotpSetup, AcceptTotpCreate, AcceptTotpDelete,
           Authenticated, Accept, Goto, Labels
  <2>2. CASE ChangePassword(h) \/ TotpDelete(h)
    <3>1. pc'[h] = "revoke"
      BY <2>2 DEF ChangePassword, TotpDelete, Goto, TypeOK
    <3> QED
      BY <3>1 DEF RevocationIsComplete
  <2>3. CASE RevokeSessions(h)
    BY <2>3 DEF RevokeSessions, RevocationIsComplete, TypeOK, Session
  <2>4. CASE TotpSetup(h)
    BY <2>4, RevocationKept DEF TotpSetup, Return, Goto, Labels
  <2>5. CASE TotpCreateCheck(h)
    BY <2>5, RevocationKept DEF TotpCreateCheck, Goto, Labels
  <2>6. CASE TotpCreateWrite(h)
    BY <2>6, RevocationKept DEF TotpCreateWrite, Goto, Labels
  <2>7. CASE TotpCreateWatermark(h)
    BY <2>7, RevocationKept DEF TotpCreateWatermark, Return, Goto, Labels
  <2>8. CASE RequestRefused(h)
    BY <2>8, RevocationKept DEF RequestRefused, Return, Goto, Labels
  <2> QED
    BY <1>2, <2>1, <2>2, <2>3, <2>4, <2>5, <2>6, <2>7, <2>8 DEF Credentials
<1>3. CASE Logout
  BY <1>3 DEF Logout, RevocationIsComplete
<1>4. CASE Prune
  BY <1>4 DEF Prune, RevocationIsComplete
<1>5. CASE Tick
  BY <1>5 DEF Tick, RevocationIsComplete
<1>6. CASE Restart
  BY <1>6 DEF Restart, RevocationIsComplete
<1>7. CASE UNCHANGED vars
  BY <1>7 DEF vars, RevocationIsComplete
<1> QED
  BY <1>1, <1>2, <1>3, <1>4, <1>5, <1>6, <1>7 DEF Next

(* Whatever requests and evictions overlap, a session older than the last  *)
(* credential change exists only while an eviction is still to come        *)
(* (change_password, toggle_totp, revoke_user_sessions).                   *)
THEOREM RevocationComplete == Spec => []RevocationIsComplete
<1>1. Init => RevocationIsComplete
  BY DEF Init, RevocationIsComplete
<1> QED
  BY <1>1, RevocationStep, TypeCorrect, PTL DEF Spec

-----------------------------------------------------------------------------
(* The strengthening behind the refusal of consumed codes: the watermark   *)
(* is at or above every step that was written to it.                       *)
WatermarkInv == \A s \in burned : s <= user.last

(* Writing one more step to the watermark covers it and uncovers none.     *)
LEMMA ConsumeWatermark ==
    ASSUME TypeOK, WatermarkInv, NEW h \in Handlers, Consume(h)
    PROVE  WatermarkInv'
<1>1. req[h].code.step \in Int /\ user.last \in Nat
  BY DEF TypeOK, Request, Code, Row
<1>2. user'.last >= user.last /\ user'.last >= req[h].code.step /\ user'.last \in Int
  BY <1>1 DEF Consume, Advance, TypeOK, Row
<1> QED
  BY <1>1, <1>2 DEF Consume, WatermarkInv, TypeOK

(* No other step touches the watermark.                                    *)
LEMMA WatermarkStep ==
    ASSUME TypeOK, WatermarkInv, [Next]_vars
    PROVE  WatermarkInv'
<1>1. ASSUME NEW h \in Handlers, Consume(h) PROVE WatermarkInv'
  BY <1>1, ConsumeWatermark
<1>2. ASSUME NEW h \in Handlers, Login(h) PROVE WatermarkInv'
  <2>1. CASE LoginWatermark(h)
    BY <1>1, <2>1 DEF LoginWatermark
  <2>2. CASE LoginLookup(h)
    BY <2>2 DEF LoginLookup, Accept, WatermarkInv
  <2>3. CASE LoginVerify(h) \/ LoginTotp(h) \/ LoginInsert(h) \/ LoginRefused(h)
    BY <2>3 DEF LoginVerify, LoginTotp, LoginInsert, LoginRefused, WatermarkInv
  <2> QED
    BY <1>2, <2>1, <2>2, <2>3 DEF Login
<1>3. ASSUME NEW h \in Handlers, Credentials(h) PROVE WatermarkInv'
  <2>1. CASE TotpCreateWatermark(h)
    BY <1>1, <2>1 DEF TotpCreateWatermark
  <2>2. CASE AcceptPassword(h) \/ AcceptTotpSetup(h) \/ AcceptTotpCreate(h)
             \/ AcceptTotpDelete(h)
    BY <2>2 DEF AcceptPassword, AcceptTotpSetup, AcceptTotpCreate, AcceptTotpDelete,
                Authenticated, Accept, WatermarkInv
  <2>3. CASE ChangePassword(h) \/ TotpSetup(h) \/ TotpCreateWrite(h) \/ TotpDelete(h)
    <3>1. user'.last = user.last /\ burned' = burned
      BY <2>3 DEF ChangePassword, TotpSetup, TotpCreateWrite, TotpDelete, TypeOK, Row
    <3> QED
      BY <3>1 DEF WatermarkInv
  <2>4. CASE RevokeSessions(h) \/ TotpCreateCheck(h) \/ RequestRefused(h)
    BY <2>4 DEF RevokeSessions, TotpCreateCheck, RequestRefused, WatermarkInv
  <2> QED
    BY <1>3, <2>1, <2>2, <2>3, <2>4 DEF Credentials
<1>4. CASE Logout \/ Prune \/ Tick \/ Restart
  BY <1>4 DEF Logout, Prune, Tick, Restart, WatermarkInv
<1>5. CASE UNCHANGED vars
  BY <1>5 DEF vars, WatermarkInv
<1> QED
  BY <1>2, <1>3, <1>4, <1>5 DEF Next

(* Only LoginTotp takes a handler from the check to the watermark, and it  *)
(* compares the step with the watermark of the moment.                     *)
LEMMA CheckIsFresh ==
    ASSUME TypeOK, WatermarkInv, Next, NEW h \in Handlers,
           pc[h] = "totp", pc'[h] = "watermark"
    PROVE  req[h].code.step \notin burned
<1>1. ASSUME NEW g \in Handlers, Login(g) PROVE LoginTotp(h)
  <2>1. CASE g = h
    BY <1>1, <2>1 DEF Login, LoginLookup, Accept, LoginVerify, LoginWatermark,
                      LoginInsert, LoginRefused, Return, Goto, TypeOK
  <2>2. CASE g # h
    <3>1. pc'[h] = pc[h]
      BY <1>1, <2>2 DEF Login, LoginLookup, Accept, LoginVerify, LoginTotp,
                        LoginWatermark, LoginInsert, LoginRefused, Return, Goto, TypeOK
    <3> QED
      BY <3>1
  <2> QED
    BY <2>1, <2>2
<1>2. ASSUME NEW g \in Handlers, Credentials(g) PROVE FALSE
  <2>1. \E l \in Labels \ {"watermark"} : pc' = [pc EXCEPT ![g] = l]
    BY <1>2 DEF Credentials, AcceptPassword, AcceptTotpSetup, AcceptTotpCreate,
                AcceptTotpDelete, Authenticated, Accept, ChangePassword, TotpSetup,
                TotpCreateWrite, TotpDelete, RevokeSessions, TotpCreateCheck,
                TotpCreateWatermark, RequestRefused, Return, Goto, Labels
  <2> QED
    BY <2>1 DEF TypeOK
<1>3. ~(Logout \/ Prune \/ Tick \/ Restart)
  BY DEF Logout, Prune, Tick, Restart
<1>4. LoginTotp(h)
  BY <1>1, <1>2, <1>3 DEF Next
<1>5. req[h].code.step > user.last
  BY <1>4 DEF LoginTotp
<1>6. req[h].code.step \in Int /\ user.last \in Nat
  BY DEF TypeOK, Request, Code, Row
<1> QED
  BY <1>5, <1>6 DEF WatermarkInv

(* A login never gets past the check of its code with a timestep that some *)
(* request has written into the watermark, in whatever order requests      *)
(* wrote it (get_totp_last_step, set_totp_last_step).                      *)
THEOREM ConsumedRefused == Spec => ConsumedCodeIsRefused
<1> DEFINE Refused == \A h \in Handlers :
               pc[h] = "totp" /\ pc'[h] = "watermark" => req[h].code.step \notin burned
<1>1. Init => WatermarkInv
  BY DEF Init, WatermarkInv
<1>2. TypeOK /\ WatermarkInv /\ [Next]_vars => WatermarkInv'
  BY WatermarkStep
<1>3. TypeOK /\ WatermarkInv /\ [Next]_vars => [Refused]_vars
  BY CheckIsFresh
<1>4. Spec => [][Refused]_vars
  BY <1>1, <1>2, <1>3, TypeCorrect, PTL DEF Spec
<1> QED
  BY <1>4 DEF ConsumedCodeIsRefused
=============================================================================
