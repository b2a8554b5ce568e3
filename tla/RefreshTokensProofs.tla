------------------------ MODULE RefreshTokensProofs ------------------------
(***************************************************************************)
(* The invariants of RefreshTokens, for any number of tokens, browsers and *)
(* requests, and every fault.                                              *)
(***************************************************************************)
EXTENDS RefreshTokens, TLAPS

Rows  == {"absent", "live", "expired", "revoked", "gone"}
Steps == {"idle", "register", "revoke", "read", "detect", "rotate",
          "user", "issue", "logout", "reply", "clear"}

-----------------------------------------------------------------------------
(***************************************************************************)
(* The inductive invariant.                                                *)
(***************************************************************************)
\* What a refresh presented is fresh as long as no sweep has overtaken it.
Family ==
    /\ Live \subseteq fresh
    /\ \A r \in Accepted : tok[r] \in fresh \/ r \in racing
    /\ \A r \in Requests : pc[r] \in {"register", "revoke"} => tok[r] = None

Accounted == account # "active" => Live = {}

\* One request at a time: what it may assume of the tokens at each step.
Serial ==
    ~ disturbed =>
        /\ \A q, r \in Requests : pc[q] # "idle" /\ pc[r] # "idle" => q = r
        /\ \A t, u \in Live : t = u
        /\ \A r \in Requests :
              /\ pc[r] # "idle" => browser[r] \in Browsers
              /\ pc[r] = "read" => tok[r] \in Tokens
              /\ pc[r] \in {"user", "issue"} => Live = {}
              /\ pc[r] \in {"rotate", "reply"} => Live \subseteq {tok[r]}
              /\ pc[r] \in {"read", "logout"} => cookie[browser[r]] = tok[r]
              /\ pc[r] = "clear" => cookie[browser[r]] \notin Live

\* One request at a time: who knows a live token.
Known ==
    ~ disturbed =>
        \A t \in Live : \/ \E b \in Browsers : cookie[b] = t
                        \/ \E r \in Requests : pc[r] = "reply" /\ tok[r] = t

-----------------------------------------------------------------------------
(***************************************************************************)
(* What the statements do to the rows.                                     *)
(***************************************************************************)
\* UPDATE ... WHERE user_id leaves no token live.
LEMMA RevokeAllLive ==
    ASSUME TypeOK, RevokeAll
    PROVE  Live' = {} /\ row' \in [Tokens -> Rows]
BY DEF RevokeAll, Revoked, Live, TypeOK, Rows

\* UPDATE ... WHERE token_hash takes one token away.
LEMMA RevokeOneLive ==
    ASSUME TypeOK, NEW t \in Tokens, RevokeOne(t)
    PROVE  Live' = Live \ {t} /\ row' \in [Tokens -> Rows]
BY DEF RevokeOne, Revoked, Live, TypeOK, Rows

\* INSERT adds one.
LEMMA IssuedLive ==
    ASSUME TypeOK, NEW r \in Requests, NEW t \in Tokens, Issued(r, t)
    PROVE  /\ Live' = Live \cup {t} /\ row' \in [Tokens -> Rows]
           /\ tok' = [tok EXCEPT ![r] = t] /\ tok' \in [Requests -> Tokens \cup {None}]
           /\ fresh' \subseteq Tokens
BY DEF Issued, Live, TypeOK, Rows

\* Where nothing is written, nothing becomes live.
LEMMA SameLive == ASSUME UNCHANGED row PROVE Live' = Live
BY DEF Live

-----------------------------------------------------------------------------
(***************************************************************************)
(* Types.                                                                  *)
(***************************************************************************)
\* Every step keeps the types.
LEMMA TypeStep == TypeOK /\ [Next]_vars => TypeOK'
<1> SUFFICES ASSUME TypeOK, [Next]_vars PROVE TypeOK'
  OBVIOUS
<1> USE DEF Steps, Rows
<1>0. ASSUME NEW r \in Requests, NEW p \in Steps, Goto(r, p) PROVE pc' \in [Requests -> Steps]
  BY <1>0 DEF Goto, TypeOK
<1>1. ASSUME NEW r \in Requests, NEW b \in Browsers, NEW p \in Steps, Arrive(r, b, p)
      PROVE  TypeOK'
  <2>1. cookie[b] \in Tokens \cup {None}
    BY DEF TypeOK
  <2>2. tok' \in [Requests -> Tokens \cup {None}] /\ browser' \in [Requests -> Browsers \cup {None}]
    BY <1>1, <2>1 DEF Arrive, TypeOK
  <2>3. QED
    BY <1>0, <1>1, <2>2 DEF Arrive, TypeOK
<1>2. ASSUME NEW r \in Requests, Issue(r) PROVE TypeOK'
  <2>1. CASE account = "active" /\ \E t \in Tokens : Issued(r, t)
    <3>1. PICK t \in Tokens : Issued(r, t)
      BY <2>1
    <3>2. QED
      BY <1>0, <1>2, <3>1, IssuedLive DEF Issue, Issued, TypeOK
  <2>2. CASE /\ (account # "active" /\ UNCHANGED disturbed) \/ Fault("db")
             /\ Goto(r, IF tok[r] = None THEN "idle" ELSE "clear")
             /\ UNCHANGED tok /\ KeepRows
    BY <1>0, <1>2, <2>2 DEF Issue, Fault, KeepRows, TypeOK
  <2>3. QED
    BY <1>2, <2>1, <2>2 DEF Issue
<1>3. ASSUME NEW r \in Requests, RegisterInsert(r) PROVE TypeOK'
  BY <1>0, <1>3 DEF RegisterInsert, Fault, KeepRows, TypeOK
<1>4. ASSUME NEW r \in Requests, LoginRevoke(r) \/ RefreshDetect(r) PROVE TypeOK'
  <2>1. /\ pc' \in [Requests -> Steps]
        /\ UNCHANGED <<account, cookie, browser, tok>>
    BY <1>0, <1>4 DEF LoginRevoke, RefreshDetect
  <2>2. CASE RevokeAll
    BY <2>1, <2>2, RevokeAllLive DEF RevokeAll, Accepted, TypeOK
  <2>3. CASE Fault("db") /\ KeepRows
    BY <2>1, <2>3 DEF Fault, KeepRows, TypeOK
  <2>4. QED
    BY <1>4, <2>2, <2>3 DEF LoginRevoke, RefreshDetect
<1>5. ASSUME NEW r \in Requests, RefreshRead(r) \/ RefreshUser(r) PROVE TypeOK'
  <2>1. /\ \E p \in Steps : Check(r, p)
        /\ disturbed' \in BOOLEAN
    BY <1>5 DEF RefreshRead, RefreshUser, Fault, TypeOK
  <2>2. QED
    BY <1>0, <2>1 DEF Check, KeepRows, TypeOK
<1>6. ASSUME NEW r \in Requests, RefreshRotate(r) \/ LogoutRevoke(r) PROVE TypeOK'
  <2>1. /\ pc' \in [Requests -> Steps] /\ disturbed' \in BOOLEAN
        /\ UNCHANGED <<account, cookie, browser, tok, fresh, racing>>
    BY <1>0, <1>6 DEF RefreshRotate, LogoutRevoke, Fault, KeepRows, historyVars, TypeOK
  <2>2. row' \in [Tokens -> Rows]
    <3>1. ASSUME RevokeOne(tok[r]) PROVE row' \in [Tokens -> Rows]
      BY <3>1 DEF RevokeOne, Revoked, TypeOK
    <3>2. QED
      BY <1>6, <3>1 DEF RefreshRotate, LogoutRevoke, KeepRows, TypeOK
  <2>3. QED
    BY <2>1, <2>2 DEF TypeOK
<1>7. ASSUME NEW r \in Requests, Reply(r) PROVE TypeOK'
  <2>1. tok[r] \in Tokens \cup {None}
    BY DEF TypeOK
  <2>2. cookie' \in [Browsers -> Tokens \cup {None}]
    BY <1>7, <2>1 DEF Reply, TypeOK
  <2>3. QED
    BY <1>0, <1>7, <2>2 DEF Reply, historyVars, TypeOK
<1>8. ASSUME NEW r \in Requests, Abort(r) PROVE TypeOK'
  BY <1>0, <1>8 DEF Abort, Fault, TypeOK
<1>9. ASSUME NEW t \in Tokens, Expire(t) PROVE TypeOK'
  BY <1>9 DEF Expire, historyVars, TypeOK
<1>10. CASE DeleteUser
  <2>1. row' \in [Tokens -> Rows]
    BY <1>10 DEF DeleteUser
  <2>2. QED
    BY <1>10, <2>1 DEF DeleteUser, historyVars, TypeOK
<1>11. CASE UNCHANGED vars
  BY <1>11 DEF vars, historyVars, TypeOK
<1>12. QED
  BY <1>1, <1>2, <1>3, <1>4, <1>5, <1>6, <1>7, <1>8, <1>9, <1>10, <1>11
  DEF Next, RegisterStep, LoginStep, RefreshStep, LogoutStep, RegisterCheck, Login, Refresh, Logout

\* The types hold in every reachable state.
THEOREM TypeCorrect == Spec => []TypeOK
<1>1. Init => TypeOK
  BY DEF Init, TypeOK
<1>2. QED
  BY <1>1, TypeStep, PTL DEF Spec

-----------------------------------------------------------------------------
(***************************************************************************)
(* Sweeps and the account.                                                 *)
(***************************************************************************)
\* A refresh is accepted while its token is live, hence fresh; a sweep marks
\* those it overtakes.
LEMMA FamilyStep == TypeOK /\ Family /\ [Next]_vars => Family'
<1> SUFFICES ASSUME TypeOK, Family, [Next]_vars PROVE Family'
  OBVIOUS
<1> USE ConstantsAssumption
\* A step that writes no token, or only ends some, and accepts nobody.
<1>0. ASSUME UNCHANGED <<fresh, racing, tok>>, Live' \subseteq Live,
             \A q \in Requests : pc'[q] \in {"register", "revoke", "rotate", "user", "issue"} =>
                 \/ pc'[q] = pc[q]
                 \/ pc[q] \in {"rotate", "user"} /\ pc'[q] \in {"user", "issue"}
                 \/ tok[q] = None
      PROVE  Family'
  <2>1. Accepted' \subseteq Accepted
    BY <1>0 DEF Accepted
  <2>2. \A q \in Requests : pc'[q] \in {"register", "revoke"} => tok[q] = None
    BY <1>0 DEF Family
  <2>3. QED
    BY <1>0, <2>1, <2>2 DEF Family
<1>1. ASSUME NEW r \in Requests, NEW b \in Browsers, NEW p \in {"register", "revoke", "read", "logout"},
             Arrive(r, b, p)
      PROVE  Family'
  <2>1. Live' = Live /\ fresh' = fresh
    BY <1>1, SameLive DEF Arrive
  <2>2. \A q \in Accepted' : q \in Accepted /\ q # r /\ tok'[q] = tok[q]
    BY <1>1 DEF Arrive, Goto, Accepted, TypeOK
  <2>3. \A q \in Requests : pc'[q] \in {"register", "revoke"} => tok'[q] = None
    BY <1>1 DEF Arrive, Goto, Family, TypeOK
  <2>4. QED
    BY <1>1, <2>1, <2>2, <2>3 DEF Family, Arrive
<1>2. ASSUME NEW r \in Requests, Issue(r) PROVE Family'
  <2>1. ASSUME NEW t \in Tokens, Issued(r, t) PROVE Family'
    <3>1. tok[r] = None \/ r \in Accepted
      BY <1>2 DEF Issue, Accepted
    <3>2. fresh' = fresh \cup {t}
      BY <2>1, <3>1 DEF Issued, Family
    <3>3. Live' = Live \cup {t}
      BY <2>1, IssuedLive
    <3>4. \A q \in Accepted' : q \in Accepted /\ tok'[q] = tok[q]
      BY <2>1 DEF Issued, Goto, Accepted, TypeOK
    <3>5. \A q \in Requests : pc'[q] \in {"register", "revoke"} => tok'[q] = None
      BY <2>1 DEF Issued, Goto, Family, TypeOK
    <3>6. QED
      BY <2>1, <3>2, <3>3, <3>4, <3>5 DEF Family, Issued
  <2>2. CASE Goto(r, IF tok[r] = None THEN "idle" ELSE "clear") /\ UNCHANGED tok /\ KeepRows
    BY <1>0, <2>2, SameLive DEF Goto, KeepRows, TypeOK
  <2>3. QED
    BY <1>2, <2>1, <2>2 DEF Issue
<1>3. ASSUME NEW r \in Requests, RegisterInsert(r) PROVE Family'
  <2>1. tok[r] = None
    BY <1>3 DEF RegisterInsert, Family
  <2>2. QED
    BY <1>0, <1>3, <2>1, SameLive DEF RegisterInsert, Goto, KeepRows, TypeOK
<1>4. ASSUME NEW r \in Requests, LoginRevoke(r) \/ RefreshDetect(r) PROVE Family'
  <2>1. CASE RevokeAll
    <3>1. Live' = {}
      BY <2>1, RevokeAllLive
    <3>2. UNCHANGED tok /\ (pc[r] = "revoke" => tok[r] = None)
      BY <1>4 DEF LoginRevoke, RefreshDetect, Family
    <3>3. Accepted' \subseteq Accepted
      BY <1>4, <3>2 DEF LoginRevoke, RefreshDetect, Goto, Accepted, TypeOK
    <3>4. \A q \in Requests : pc'[q] \in {"register", "revoke"} => tok'[q] = None
      BY <1>4, <3>2 DEF LoginRevoke, RefreshDetect, Goto, Family, TypeOK
    <3>5. QED
      BY <2>1, <3>1, <3>3, <3>4 DEF RevokeAll, Family
  <2>2. CASE KeepRows
    <3>1. UNCHANGED tok /\ (pc[r] = "revoke" => tok[r] = None)
      BY <1>4 DEF LoginRevoke, RefreshDetect, Family
    <3>2. QED
      BY <1>0, <1>4, <2>2, <3>1, SameLive DEF LoginRevoke, RefreshDetect, Goto, KeepRows, TypeOK
  <2>3. QED
    BY <1>4, <2>1, <2>2 DEF LoginRevoke, RefreshDetect
<1>5. ASSUME NEW r \in Requests, RefreshRead(r) PROVE Family'
  <2>1. CASE row[tok[r]] = "live" /\ Check(r, "rotate")
    <3>1. tok[r] = None \/ tok[r] \in fresh
      BY <2>1 DEF Family, Live, TypeOK
    <3>2. UNCHANGED <<fresh, racing, tok>> /\ Live' = Live
      BY <2>1, SameLive DEF Check, KeepRows
    <3>3. \A q \in Accepted' : q \in Accepted \/ (q = r /\ tok[r] # None)
      BY <2>1, <3>2 DEF Check, Goto, Accepted, TypeOK
    <3>4. \A q \in Requests : pc'[q] \in {"register", "revoke"} => tok'[q] = None
      BY <2>1, <3>2 DEF Check, Goto, Family, TypeOK
    <3>5. QED
      BY <3>1, <3>2, <3>3, <3>4 DEF Family
  <2>2. CASE Check(r, "detect") \/ Check(r, "clear")
    BY <1>0, <2>2, SameLive DEF Check, KeepRows, Goto, TypeOK
  <2>3. QED
    BY <1>5, <2>1, <2>2 DEF RefreshRead
<1>6. ASSUME NEW r \in Requests, RefreshUser(r) PROVE Family'
  BY <1>0, <1>6, SameLive DEF RefreshUser, Check, KeepRows, Goto, TypeOK
<1>7. ASSUME NEW r \in Requests, RefreshRotate(r) \/ LogoutRevoke(r) PROVE Family'
  <2>1. Live' \subseteq Live
    BY <1>7 DEF RefreshRotate, LogoutRevoke, RevokeOne, Revoked, KeepRows, Live, TypeOK
  <2>2. QED
    BY <1>0, <1>7, <2>1 DEF RefreshRotate, LogoutRevoke, KeepRows, historyVars, Goto, TypeOK
<1>8. ASSUME NEW r \in Requests, Reply(r) \/ Abort(r) PROVE Family'
  BY <1>0, <1>8, SameLive DEF Reply, Abort, historyVars, Goto, TypeOK
<1>9. ASSUME NEW t \in Tokens, Expire(t) PROVE Family'
  <2>1. Live' \subseteq Live
    BY <1>9 DEF Expire, Live, TypeOK
  <2>2. QED
    BY <1>0, <1>9, <2>1 DEF Expire, historyVars
<1>10. CASE DeleteUser
  <2>1. Live' \subseteq Live
    BY <1>10 DEF DeleteUser, Live
  <2>2. QED
    BY <1>0, <1>10, <2>1 DEF DeleteUser, historyVars
<1>11. CASE UNCHANGED vars
  BY <1>0, <1>11, SameLive DEF vars, historyVars
<1>12. QED
  BY <1>1, <1>2, <1>3, <1>4, <1>5, <1>6, <1>7, <1>8, <1>9, <1>10, <1>11
  DEF Next, RegisterStep, LoginStep, RefreshStep, LogoutStep, RegisterCheck, Login, Refresh, Logout

\* Whatever a token was exchanged for, and however often, a sweep ends it all,
\* but for the refreshes it overtakes.
THEOREM SweepsEndFamilies == Spec => []SweepEndsFamily
<1>1. Init => Family
  BY DEF Init, Family, Live, Accepted
<1>2. Family => SweepEndsFamily
  BY DEF Family, SweepEndsFamily
<1>3. QED
  BY <1>1, <1>2, TypeCorrect, FamilyStep, PTL DEF Spec

\* Without an account nothing is live, and only its insertion opens the way.
LEMMA AccountedStep == TypeOK /\ Accounted /\ [Next]_vars => Accounted'
<1> SUFFICES ASSUME TypeOK, Accounted, [Next]_vars PROVE Accounted'
  OBVIOUS
<1>1. ASSUME Live' \subseteq Live, account' = account \/ account' = "active" PROVE Accounted'
  BY <1>1 DEF Accounted
<1>2. ASSUME NEW r \in Requests, Issue(r) PROVE Accounted'
  BY <1>1, <1>2, SameLive DEF Issue, KeepRows, Accounted
<1>3. ASSUME NEW r \in Requests, LoginRevoke(r) \/ RefreshDetect(r) PROVE Accounted'
  <2>1. Live' \subseteq Live
    BY <1>3, RevokeAllLive, SameLive DEF LoginRevoke, RefreshDetect, KeepRows
  <2>2. QED
    BY <1>1, <1>3, <2>1 DEF LoginRevoke, RefreshDetect
<1>4. ASSUME NEW r \in Requests, RefreshRotate(r) \/ LogoutRevoke(r) PROVE Accounted'
  <2>1. Live' \subseteq Live
    BY <1>4 DEF RefreshRotate, LogoutRevoke, RevokeOne, Revoked, KeepRows, Live, TypeOK
  <2>2. QED
    BY <1>1, <1>4, <2>1 DEF RefreshRotate, LogoutRevoke
<1>5. ASSUME NEW r \in Requests, RegisterInsert(r) PROVE Accounted'
  BY <1>1, <1>5, SameLive DEF RegisterInsert, KeepRows
<1>6. ASSUME NEW r \in Requests,
             \/ \E b \in Browsers : \E p \in {"register", "revoke", "read", "logout"} : Arrive(r, b, p)
             \/ RefreshRead(r) \/ RefreshUser(r) \/ Reply(r) \/ Abort(r)
      PROVE  Accounted'
  BY <1>1, <1>6, SameLive DEF Arrive, RefreshRead, RefreshUser, Check, KeepRows, Reply, Abort
<1>7. ASSUME NEW t \in Tokens, Expire(t) PROVE Accounted'
  <2>1. Live' \subseteq Live
    BY <1>7 DEF Expire, Live, TypeOK
  <2>2. QED
    BY <1>1, <1>7, <2>1 DEF Expire
<1>8. CASE DeleteUser
  BY <1>8 DEF DeleteUser, Accounted, Live
<1>9. CASE UNCHANGED vars
  BY <1>1, <1>9, SameLive DEF vars
<1>10. QED
  BY <1>2, <1>3, <1>4, <1>5, <1>6, <1>7, <1>8, <1>9
  DEF Next, RegisterStep, LoginStep, RefreshStep, LogoutStep, RegisterCheck, Login, Refresh, Logout

\* No request that outlives its account leaves it a session.
THEOREM NoSessionAfterDelete == Spec => []DeletedEnds
<1>1. Init => Accounted
  BY DEF Init, Accounted, Live
<1>2. Accounted => DeletedEnds
  BY DEF Accounted, DeletedEnds
<1>3. QED
  BY <1>1, <1>2, TypeCorrect, AccountedStep, PTL DEF Spec

-----------------------------------------------------------------------------
(***************************************************************************)
(* One request at a time.                                                  *)
(***************************************************************************)
\* An undisturbed step is the only request's, or the environment's; it keeps
\* one session, which a cookie or the response under way carries.
LEMMA SerialStep ==
    TypeOK /\ Accounted /\ Serial /\ Known /\ [Next]_vars => Serial' /\ Known'
<1> SUFFICES ASSUME TypeOK, Accounted, Serial, Known, [Next]_vars, ~ disturbed'
             PROVE  Serial' /\ Known'
  BY DEF Serial, Known
<1> USE ConstantsAssumption
\* The only request goes on with step p.
<1>1. ASSUME ~ disturbed, NEW r \in Requests, NEW p \in Steps, Goto(r, p),
             \A q \in Requests \ {r} : pc[q] = "idle",
             \A t, u \in Live' : t = u,
             \A t \in Live' : \/ \E b \in Browsers : cookie'[b] = t
                              \/ p = "reply" /\ tok'[r] = t,
             p # "idle" => browser'[r] \in Browsers,
             p = "read" => tok'[r] \in Tokens,
             p \in {"user", "issue"} => Live' = {},
             p \in {"rotate", "reply"} => Live' \subseteq {tok'[r]},
             p \in {"read", "logout"} => cookie'[browser'[r]] = tok'[r],
             p = "clear" => cookie'[browser'[r]] \notin Live'
      PROVE  Serial' /\ Known'
  <2>1. /\ pc'[r] = p
        /\ \A q \in Requests \ {r} : pc'[q] = "idle"
    BY <1>1 DEF Goto, TypeOK
  <2>2. Serial'
    BY <1>1, <2>1 DEF Serial
  <2>3. Known'
    BY <1>1, <2>1 DEF Known
  <2>4. QED
    BY <2>2, <2>3
\* What the only request knows.
<1>2. ASSUME ~ disturbed, NEW r \in Requests, pc[r] # "idle"
      PROVE  /\ \A q \in Requests \ {r} : pc[q] = "idle"
             /\ \A t, u \in Live : t = u
             /\ browser[r] \in Browsers
             /\ pc[r] # "reply" => \A t \in Live : \E b \in Browsers : cookie[b] = t
  BY <1>2 DEF Serial, Known
<1>3. ASSUME NEW r \in Requests, NEW b \in Browsers, NEW p \in {"register", "revoke", "read", "logout"},
             p = "read" => cookie[b] # None, Arrive(r, b, p)
      PROVE  Serial' /\ Known'
  <2>1. ~ disturbed /\ \A q \in Requests : pc[q] = "idle"
    BY <1>3 DEF Arrive
  <2>2. Live' = Live /\ UNCHANGED cookie
    BY <1>3, SameLive DEF Arrive
  <2>3. browser'[r] = b
    BY <1>3 DEF Arrive, TypeOK
  <2>4. p \in {"read", "logout"} => tok'[r] = cookie[b]
    BY <1>3 DEF Arrive, TypeOK
  <2>5. \A t, u \in Live : t = u
    BY <2>1 DEF Serial
  <2>6. \A t \in Live : \E c \in Browsers : cookie[c] = t
    BY <2>1 DEF Known
  <2>7. Goto(r, p) /\ p \in Steps
    BY <1>3 DEF Arrive, Steps
  <2>8. p = "read" => cookie[b] \in Tokens
    BY <1>3 DEF TypeOK
  <2>9. QED
    BY <1>1, <2>1, <2>2, <2>3, <2>4, <2>5, <2>6, <2>7, <2>8
<1>4. ASSUME NEW r \in Requests, Issue(r) PROVE Serial' /\ Known'
  <2>1. CASE account = "active" /\ \E t \in Tokens : Issued(r, t)
    <3>1. PICK t \in Tokens : Issued(r, t)
      BY <2>1
    <3>2. ~ disturbed /\ Goto(r, "reply")
      BY <3>1 DEF Issued
    <3>3. Live = {}
      BY <1>4, <3>2 DEF Issue, Serial
    <3>4. Live' = {t} /\ tok'[r] = t
      BY <3>1, <3>3, IssuedLive DEF TypeOK
    <3>5. UNCHANGED <<cookie, browser>>
      BY <1>4 DEF Issue
    <3>6. QED
      BY <1>1, <1>2, <1>4, <3>2, <3>4, <3>5 DEF Issue, Steps
  <2>2. CASE /\ account # "active" /\ UNCHANGED disturbed
             /\ Goto(r, IF tok[r] = None THEN "idle" ELSE "clear") /\ KeepRows
    <3>1. Live' = {}
      BY <2>2, SameLive DEF Accounted, KeepRows
    <3>2. UNCHANGED <<cookie, browser>> /\ ~ disturbed
      BY <1>4, <2>2 DEF Issue
    <3>3. QED
      BY <1>1, <1>2, <1>4, <2>2, <3>1, <3>2 DEF Issue, Steps
  <2>3. QED
    BY <1>4, <2>1, <2>2 DEF Issue, Fault
<1>5. ASSUME NEW r \in Requests, RegisterInsert(r) PROVE Serial' /\ Known'
  <2>1. ~ disturbed /\ UNCHANGED <<row, cookie, browser, tok>>
    BY <1>5 DEF RegisterInsert, Fault, KeepRows
  <2>2. CASE account = "none" /\ Goto(r, "issue")
    <3>1. Live' = {}
      BY <2>1, <2>2, SameLive DEF Accounted
    <3>2. QED
      BY <1>1, <1>2, <1>5, <2>1, <2>2, <3>1 DEF RegisterInsert, Steps
  <2>3. CASE Goto(r, "idle")
    BY <1>1, <1>2, <1>5, <2>1, <2>3, SameLive DEF RegisterInsert, Steps
  <2>4. QED
    BY <1>5, <2>2, <2>3 DEF RegisterInsert
<1>6. ASSUME NEW r \in Requests, LoginRevoke(r) \/ RefreshDetect(r) PROVE Serial' /\ Known'
  <2>1. RevokeAll /\ UNCHANGED <<cookie, browser, tok>>
    BY <1>6 DEF LoginRevoke, RefreshDetect, Fault
  <2>2. ~ disturbed /\ Live' = {}
    BY <2>1, RevokeAllLive DEF RevokeAll
  <2>3. pc[r] # "idle" /\ (Goto(r, "issue") \/ Goto(r, "clear"))
    BY <1>6 DEF LoginRevoke, RefreshDetect
  <2>4. QED
    BY <1>1, <1>2, <2>1, <2>2, <2>3 DEF Steps
<1>7. ASSUME NEW r \in Requests, RefreshRead(r) PROVE Serial' /\ Known'
  <2>1. ~ disturbed /\ UNCHANGED <<row, cookie, browser, tok>>
    BY <1>7 DEF RefreshRead, Check, KeepRows, Fault
  <2>2. tok[r] \in Tokens /\ cookie[browser[r]] = tok[r]
    BY <1>7, <2>1 DEF RefreshRead, Serial
  <2>3. CASE row[tok[r]] = "live" /\ Goto(r, "rotate")
    <3>1. Live \subseteq {tok[r]}
      BY <1>2, <1>7, <2>1, <2>2, <2>3 DEF RefreshRead, Live
    <3>2. QED
      BY <1>1, <1>2, <1>7, <2>1, <2>3, <3>1, SameLive DEF RefreshRead, Steps
  <2>4. CASE Goto(r, "detect")
    BY <1>1, <1>2, <1>7, <2>1, <2>4, SameLive DEF RefreshRead, Steps
  <2>5. CASE row[tok[r]] \in {"expired", "gone"} /\ Goto(r, "clear")
    <3>1. cookie[browser[r]] \notin Live
      BY <2>2, <2>5 DEF Live
    <3>2. QED
      BY <1>1, <1>2, <1>7, <2>1, <2>5, <3>1, SameLive DEF RefreshRead, Steps
  <2>6. QED
    BY <1>7, <2>3, <2>4, <2>5 DEF RefreshRead, Check, Fault
<1>8. ASSUME NEW r \in Requests, RefreshRotate(r) PROVE Serial' /\ Known'
  <2>1. /\ ~ disturbed /\ RevokeOne(tok[r]) /\ Goto(r, "user")
        /\ UNCHANGED <<cookie, browser, tok>>
    BY <1>8 DEF RefreshRotate, Fault, historyVars
  <2>2. Live \subseteq {tok[r]}
    BY <1>8, <2>1 DEF RefreshRotate, Serial
  <2>3. Live' = {}
    BY <2>1, <2>2 DEF RevokeOne, Revoked, Live, TypeOK
  <2>4. QED
    BY <1>1, <1>2, <1>8, <2>1, <2>3 DEF RefreshRotate, Steps
<1>9. ASSUME NEW r \in Requests, RefreshUser(r) PROVE Serial' /\ Known'
  <2>1. ~ disturbed /\ UNCHANGED <<row, cookie, browser, tok>>
    BY <1>9 DEF RefreshUser, Check, KeepRows, Fault
  <2>2. Live' = {}
    BY <1>9, <2>1, SameLive DEF RefreshUser, Serial
  <2>3. Goto(r, "issue") \/ Goto(r, "clear")
    BY <1>9 DEF RefreshUser, Check
  <2>4. QED
    BY <1>1, <1>2, <1>9, <2>1, <2>2, <2>3 DEF RefreshUser, Steps
<1>10. ASSUME NEW r \in Requests, LogoutRevoke(r) PROVE Serial' /\ Known'
  <2>1. ~ disturbed /\ Goto(r, "clear") /\ UNCHANGED <<cookie, browser, tok>>
    BY <1>10 DEF LogoutRevoke, historyVars, Fault
  <2>2. cookie[browser[r]] = tok[r]
    BY <1>10, <2>1 DEF LogoutRevoke, Serial
  <2>3. Live' \subseteq Live /\ tok[r] \notin Live'
    BY <1>10 DEF LogoutRevoke, RevokeOne, Revoked, KeepRows, Fault, Live, TypeOK
  <2>4. QED
    BY <1>1, <1>2, <1>10, <2>1, <2>2, <2>3 DEF LogoutRevoke, Steps
<1>11. ASSUME NEW r \in Requests, Reply(r) PROVE Serial' /\ Known'
  <2>1. ~ disturbed /\ Goto(r, "idle") /\ Live' = Live
    BY <1>11, SameLive DEF Reply, historyVars
  <2>2. browser[r] \in Browsers
    BY <1>2, <1>11, <2>1 DEF Reply
  <2>3. \A t \in Live : \E b \in Browsers : cookie'[b] = t
    <3>1. CASE pc[r] = "reply"
      <4>1. Live \subseteq {tok[r]}
        BY <2>1, <3>1 DEF Serial
      <4>2. cookie'[browser[r]] = tok[r]
        BY <1>11, <2>2, <3>1 DEF Reply, TypeOK
      <4>3. QED
        BY <2>2, <4>1, <4>2
    <3>2. CASE pc[r] = "clear"
      <4>1. cookie[browser[r]] \notin Live
        BY <2>1, <3>2 DEF Serial
      <4>2. \A b \in Browsers \ {browser[r]} : cookie'[b] = cookie[b]
        BY <1>11 DEF Reply, TypeOK
      <4>3. QED
        BY <1>2, <2>1, <3>2, <4>1, <4>2
    <3>3. QED
      BY <1>11, <3>1, <3>2 DEF Reply
  <2>4. QED
    BY <1>1, <1>2, <1>11, <2>1, <2>3 DEF Reply, Steps
<1>12. ASSUME Live' \subseteq Live, UNCHANGED <<cookie, pc, browser, tok, disturbed>>
       PROVE  Serial' /\ Known'
  <2>1. Serial'
    BY <1>12 DEF Serial
  <2>2. Known'
    BY <1>12 DEF Known
  <2>3. QED
    BY <2>1, <2>2
<1>13. ASSUME NEW t \in Tokens, Expire(t) PROVE Serial' /\ Known'
  <2>1. Live' \subseteq Live
    BY <1>13 DEF Expire, Live, TypeOK
  <2>2. QED
    BY <1>12, <1>13, <2>1 DEF Expire, historyVars
<1>14. CASE DeleteUser
  <2>1. Live' \subseteq Live
    BY <1>14 DEF DeleteUser, Live
  <2>2. QED
    BY <1>12, <1>14, <2>1 DEF DeleteUser, historyVars
<1>15. CASE UNCHANGED vars
  BY <1>12, <1>15, SameLive DEF vars, historyVars
<1>16. ASSUME NEW r \in Requests, Abort(r) PROVE FALSE
  BY <1>16 DEF Abort, Fault
<1>17. QED
  BY <1>3, <1>4, <1>5, <1>6, <1>7, <1>8, <1>9, <1>10, <1>11, <1>13, <1>14, <1>15, <1>16
  DEF Next, RegisterStep, LoginStep, RefreshStep, LogoutStep, RegisterCheck, Login, Refresh, Logout

\* Requests one after the other, without faults.
LEMMA KnownSessions == Spec => [](SingleSession /\ NoOrphan)
<1>1. Init => Accounted /\ Serial /\ Known
  BY DEF Init, Accounted, Serial, Known, Live
<1>2. Serial /\ Known => SingleSession /\ NoOrphan
  BY DEF Serial, Known, SingleSession, NoOrphan
<1>3. QED
  BY <1>1, <1>2, TypeCorrect, AccountedStep, SerialStep, PTL DEF Spec

\* Logins and refreshes that come one at a time leave one session at most
\* (Login revokes all tokens, Refresh the one it was given).
THEOREM OneSession == Spec => []SingleSession
  BY KnownSessions, PTL

\* Logins, refreshes and logouts that come one at a time leave no session that no
\* browser holds (Logout revokes the token whose cookie it clears).
THEOREM SessionsAreHeld == Spec => []NoOrphan
  BY KnownSessions, PTL
=============================================================================
