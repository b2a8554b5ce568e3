--------------------------- MODULE RefreshTokens ---------------------------
(***************************************************************************)
(* auth/service.go and auth/handler.go: the refresh tokens of one account, *)
(* the requests that exchange and revoke them, and the cookies that hold   *)
(* them.  A step is one SQL statement, or the response.  Two tabs of a     *)
(* browser share its cookie, so requests of one browser may overlap.       *)
(*                                                                         *)
(* Passwords are right: a login with a wrong one changes nothing.  Access  *)
(* tokens are signed, not stored, and no request here reads one.           *)
(***************************************************************************)
EXTENDS Naturals, FiniteSets

CONSTANTS
    Tokens,     \* values of refresh tokens, never issued twice
    Browsers,
    Requests,   \* requests that may overlap
    Faults,     \* what may go wrong, a subset of FaultKinds
    None        \* no token, no cookie

FaultKinds == {"db",      \* a statement fails
               "abort"}   \* a request ends half-way: the client or the server
                          \* is gone, or the response is lost

ASSUME ConstantsAssumption ==
    /\ IsFiniteSet(Tokens) /\ None \notin Tokens
    /\ Faults \subseteq FaultKinds

VARIABLES
    account,    \* the row of users
    row,        \* the row of refresh_tokens for each token
    cookie,     \* the refresh_token cookie of each browser
    pc,         \* the next step of each request
    browser,    \* who sent it
    tok,        \* the token it presented, later the one it was issued
    fresh,      \* history: tokens that owe nothing to one revoked by a sweep
    racing,     \* history: refreshes that had passed their check at the sweep
    disturbed   \* history: requests overlapped, or a fault happened

historyVars == <<fresh, racing, disturbed>>
vars == <<account, row, cookie, pc, browser, tok, historyVars>>

\* Refreshes between their look at the token and the new token.
Accepted == {r \in Requests : pc[r] \in {"rotate", "user", "issue"} /\ tok[r] # None}

Goto(r, p) == pc' = [pc EXCEPT ![r] = p]

Fault(kind) == kind \in Faults /\ disturbed' = TRUE

\* Bound: every request under way can still be issued a token.
Spare == Cardinality({r \in Requests : pc[r] # "idle"})
            < Cardinality({t \in Tokens : row[t] = "absent"})

\* A request arrives at its handler, which goes on with step p.
Arrive(r, b, p) ==
    /\ pc[r] = "idle" /\ Spare
    /\ Goto(r, p)
    /\ browser' = [browser EXCEPT ![r] = b]
    /\ tok' = [tok EXCEPT ![r] = IF p \in {"read", "logout"} THEN cookie[b] ELSE None]
    /\ racing' = racing \ {r}
    /\ disturbed' = (disturbed \/ \E q \in Requests : pc[q] # "idle")
    /\ UNCHANGED <<account, row, cookie, fresh>>

-----------------------------------------------------------------------------
(***************************************************************************)
(* The statements on refresh_tokens.                                       *)
(***************************************************************************)
Revoked(s) == IF s \in {"live", "expired"} THEN "revoked" ELSE s

RevokeOne(t) == row' = [row EXCEPT ![t] = Revoked(@)]

\* WHERE user_id = ...
RevokeAll ==
    /\ row' = [t \in Tokens |-> Revoked(row[t])]
    /\ fresh' = {} /\ racing' = Accepted
    /\ UNCHANGED disturbed

KeepRows == UNCHANGED <<row, fresh, racing>>

Issued(r, t) ==
    /\ row[t] = "absent"
    /\ row' = [row EXCEPT ![t] = "live"]
    /\ fresh' = IF tok[r] \in fresh \cup {None} \/ r \in racing THEN fresh \cup {t} ELSE fresh
    /\ tok' = [tok EXCEPT ![r] = t]
    /\ Goto(r, "reply")
    /\ UNCHANGED <<racing, disturbed>>

\* Faulty variant: the row need not refer to a user.
IssueBlind(r) ==
    /\ pc[r] = "issue"
    /\ \E t \in Tokens : Issued(r, t)
    /\ UNCHANGED <<account, cookie, browser>>

\* issueTokenPair.  The row refers to the user, who may be gone by now.
Issue(r) ==
    /\ pc[r] = "issue"
    /\ \/ account = "active" /\ \E t \in Tokens : Issued(r, t)
       \/ /\ (account # "active" /\ UNCHANGED disturbed) \/ Fault("db")
          /\ Goto(r, IF tok[r] = None THEN "idle" ELSE "clear")
          /\ UNCHANGED tok /\ KeepRows
    /\ UNCHANGED <<account, cookie, browser>>

-----------------------------------------------------------------------------
(***************************************************************************)
(* Register and Login.                                                     *)
(***************************************************************************)
\* The e-mail address is looked up; a second INSERT meets the UNIQUE column.
RegisterCheck(r, b) ==
    account = "none" /\ Arrive(r, b, "register")

RegisterInsert(r) ==
    /\ pc[r] = "register"
    /\ \/ /\ account = "none" /\ account' = "active"
          /\ Goto(r, "issue") /\ UNCHANGED disturbed
       \/ /\ (account # "none" /\ UNCHANGED disturbed) \/ Fault("db")
          /\ Goto(r, "idle") /\ UNCHANGED account
    /\ KeepRows
    /\ UNCHANGED <<cookie, browser, tok>>

\* The row of the user is read and the password compared.
Login(r, b) ==
    account = "active" /\ Arrive(r, b, "revoke")

\* Faulty variant: the tokens of other devices are left alone.
LoginRevokeNone(r) ==
    /\ pc[r] = "revoke"
    /\ Goto(r, "issue")
    /\ KeepRows
    /\ UNCHANGED <<account, cookie, browser, tok, disturbed>>

\* All tokens of the user are revoked; the error is ignored.
LoginRevoke(r) ==
    /\ pc[r] = "revoke"
    /\ RevokeAll \/ (Fault("db") /\ KeepRows)
    /\ Goto(r, "issue")
    /\ UNCHANGED <<account, cookie, browser, tok>>

-----------------------------------------------------------------------------
(***************************************************************************)
(* Refresh and Logout.                                                     *)
(***************************************************************************)
Refresh(r, b) == cookie[b] # None /\ Arrive(r, b, "read")

Check(r, p) ==
    /\ Goto(r, p)
    /\ KeepRows
    /\ UNCHANGED <<account, cookie, browser, tok>>

\* Faulty variant: a revoked token is taken for a live one.
RefreshReadAny(r) ==
    /\ pc[r] = "read" /\ UNCHANGED disturbed
    /\ Check(r, IF row[tok[r]] \in {"live", "revoked"} THEN "rotate" ELSE "clear")

\* A revoked token is taken for stolen; one that is expired or unknown, or
\* cannot be read, is refused.
RefreshRead(r) ==
    /\ pc[r] = "read"
    /\ \/ row[tok[r]] = "live" /\ Check(r, "rotate") /\ UNCHANGED disturbed
       \/ row[tok[r]] = "revoked" /\ Check(r, "detect") /\ UNCHANGED disturbed
       \/ row[tok[r]] \in {"expired", "gone"} /\ Check(r, "clear") /\ UNCHANGED disturbed
       \/ Check(r, "clear") /\ Fault("db")

RefreshDetect(r) ==
    /\ pc[r] = "detect"
    /\ RevokeAll \/ (Fault("db") /\ KeepRows)
    /\ Goto(r, "clear")
    /\ UNCHANGED <<account, cookie, browser, tok>>

RefreshRotate(r) ==
    /\ pc[r] = "rotate"
    /\ \/ RevokeOne(tok[r]) /\ Goto(r, "user") /\ UNCHANGED historyVars
       \/ Fault("db") /\ Goto(r, "clear") /\ KeepRows
    /\ UNCHANGED <<account, cookie, browser, tok>>

RefreshUser(r) ==
    /\ pc[r] = "user"
    /\ \/ account = "active" /\ Check(r, "issue") /\ UNCHANGED disturbed
       \/ account # "active" /\ Check(r, "clear") /\ UNCHANGED disturbed
       \/ Check(r, "clear") /\ Fault("db")

Logout(r, b) == Arrive(r, b, "logout")

\* Faulty variant: the cookie is cleared, its token stays valid.
LogoutCookieOnly(r) == pc[r] = "logout" /\ Check(r, "clear") /\ UNCHANGED disturbed

\* Without a cookie there is nothing to revoke; an error is ignored.
LogoutRevoke(r) ==
    /\ pc[r] = "logout"
    /\ \/ tok[r] # None /\ RevokeOne(tok[r]) /\ UNCHANGED historyVars
       \/ tok[r] = None /\ UNCHANGED <<row, historyVars>>
       \/ Fault("db") /\ KeepRows
    /\ Goto(r, "clear")
    /\ UNCHANGED <<account, cookie, browser, tok>>

\* Faulty variant: the cookie is emptied and kept.
ReplyEmpties(r) ==
    /\ pc[r] = "clear"
    /\ cookie' = [cookie EXCEPT ![browser[r]] = ""]
    /\ Goto(r, "idle")
    /\ UNCHANGED <<account, row, browser, tok, historyVars>>

\* setRefreshCookie and clearRefreshCookie: the browser stores what it is told.
Reply(r) ==
    /\ pc[r] \in {"reply", "clear"}
    /\ cookie' = [cookie EXCEPT ![browser[r]] = IF pc[r] = "reply" THEN tok[r] ELSE None]
    /\ Goto(r, "idle")
    /\ UNCHANGED <<account, row, browser, tok, historyVars>>

-----------------------------------------------------------------------------
(***************************************************************************)
(* Time, the end of the account, and requests cut short.                   *)
(***************************************************************************)
Expire(t) ==
    /\ row[t] = "live"
    /\ row' = [row EXCEPT ![t] = "expired"]
    /\ UNCHANGED <<account, cookie, pc, browser, tok, historyVars>>

\* Repository.Delete; ON DELETE CASCADE takes the tokens along.
DeleteUser ==
    /\ account = "active"
    /\ account' = "deleted"
    /\ row' = [t \in Tokens |-> IF row[t] = "absent" THEN "absent" ELSE "gone"]
    /\ UNCHANGED <<cookie, pc, browser, tok, historyVars>>

Abort(r) ==
    /\ pc[r] # "idle"
    /\ Fault("abort")
    /\ Goto(r, "idle")
    /\ UNCHANGED <<account, row, cookie, browser, tok, fresh, racing>>

-----------------------------------------------------------------------------
Init ==
    /\ account = "none"
    /\ row = [t \in Tokens |-> "absent"]
    /\ cookie = [b \in Browsers |-> None]
    /\ pc = [r \in Requests |-> "idle"]
    /\ browser = [r \in Requests |-> None]
    /\ tok = [r \in Requests |-> None]
    /\ fresh = {} /\ racing = {} /\ disturbed = FALSE

RegisterStep(r) == (\E b \in Browsers : RegisterCheck(r, b)) \/ RegisterInsert(r)

LoginStep(r) == (\E b \in Browsers : Login(r, b)) \/ LoginRevoke(r)

RefreshStep(r) ==
    \/ \E b \in Browsers : Refresh(r, b)
    \/ RefreshRead(r) \/ RefreshDetect(r) \/ RefreshRotate(r) \/ RefreshUser(r)

LogoutStep(r) == (\E b \in Browsers : Logout(r, b)) \/ LogoutRevoke(r)

Next ==
    \/ \E r \in Requests :
          \/ RegisterStep(r) \/ LoginStep(r) \/ RefreshStep(r)
          \/ LogoutStep(r) \/ Issue(r) \/ Reply(r) \/ Abort(r)
    \/ \E t \in Tokens : Expire(t)
    \/ DeleteUser

Spec == Init /\ [][Next]_vars

-----------------------------------------------------------------------------
Live == {t \in Tokens : row[t] = "live"}

TypeOK ==
    /\ account \in {"none", "active", "deleted"}
    /\ row \in [Tokens -> {"absent", "live", "expired", "revoked", "gone"}]
    /\ cookie \in [Browsers -> Tokens \cup {None}]
    /\ pc \in [Requests -> {"idle", "register", "revoke", "read", "detect", "rotate",
                            "user", "issue", "logout", "reply", "clear"}]
    /\ browser \in [Requests -> Browsers \cup {None}]
    /\ tok \in [Requests -> Tokens \cup {None}]
    /\ fresh \subseteq Tokens /\ racing \subseteq Requests /\ disturbed \in BOOLEAN

\* The theft detection of Refresh, and the revocation of a login, end what went
\* before: no token descends from one they revoked, through however many
\* exchanges, except by way of a refresh that had passed its check by then.
SweepEndsFamily == Live \subseteq fresh

\* Requests that do not overlap and meet no fault leave the account one session
\* at most (Login revokes, Refresh rotates).
SingleSession == ~ disturbed => \A t, u \in Live : t = u

\* Nor do they leave a session that no browser can use or end: between two
\* requests every live token is in a cookie (handler.go on refreshCookiePath).
NoOrphan ==
    ~ disturbed /\ (\A r \in Requests : pc[r] = "idle") =>
        \A t \in Live : \E b \in Browsers : cookie[b] = t

\* An account that is deleted has no session, although requests that had read
\* it go on (users Delete, the foreign key of refresh_tokens).
DeletedEnds == account = "deleted" => Live = {}
=============================================================================
