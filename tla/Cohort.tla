------------------------------- MODULE Cohort -------------------------------
(***************************************************************************)
(* What the accounts of NetBreaker own in the database: teams and their    *)
(* seats (src/internal/team), completed phases (src/internal/progress) and *)
(* certificates (src/internal/certificate), while accounts are deleted     *)
(* (src/internal/users) and migrations change the catalogue of phases.     *)
(*                                                                         *)
(* A handler runs in a request.  Every SQL statement of it, or transaction,*)
(* is one step: between two of them the other requests run.  What the      *)
(* tables forbid (migrations/003_progress.up.sql) is in the steps that     *)
(* insert: a foreign key or a UNIQUE column that refuses the row ends the  *)
(* request.                                                                *)
(*                                                                         *)
(* Bounds: MaxTeams limits the teams ever made.  Owners are the accounts   *)
(* with the bootcamp plan, Learners those that work on labs.               *)
(***************************************************************************)
EXTENDS Naturals, FiniteSets

CONSTANTS Users, Owners, Learners,
          Requests,     \* slots in which handlers run
          Seats,        \* seat_count of a new team
          Catalogues,   \* what lab_phases holds in the versions of the schema
          Codes,        \* verification codes of certificates
          MaxTeams,
          None

Phases == UNION Catalogues
TeamIds == 1..MaxTeams

ASSUME CohortAssumption ==
  /\ Owners \subseteq Users /\ Learners \subseteq Users
  /\ IsFiniteSet(Users) /\ IsFiniteSet(Requests)
  /\ Seats \in Nat \ {0} /\ MaxTeams \in Nat
  /\ None \notin Users \cup Codes \cup TeamIds

VARIABLES users,      \* rows of users
          catalogue,  \* rows of lab_phases
          progress,   \* rows of user_progress, by user
          cert,       \* verify_code of the user's row in certificates
          made,       \* teams ever inserted
          owner,      \* owner_id of the rows of teams
          members,    \* rows of team_members, by team
          req,        \* where each request is
          mailed,     \* <<user, code>> of the certificates sent by e-mail
          earned      \* users who at some moment had completed the catalogue

learning == <<catalogue, progress>>
teams == <<made, owner, members>>
vars == <<users, learning, cert, teams, req, mailed, earned>>

Places == {"idle", "create", "find", "count", "insert", "remove", "mark", "eligible", "issue"}
Idle == [at |-> "idle", caller |-> None, use |-> None, arg |-> None, team |-> None]

At(r, place) == req[r].at = place
Goto(r, place) == req' = [req EXCEPT ![r].at = place]
Return(r) == req' = [req EXCEPT ![r] = Idle]

TeamsOf(o) == {t \in TeamIds : owner[t] = o}

-----------------------------------------------------------------------------
(***************************************************************************)
(* Handler.team and GetOrCreateForOwner: look for the team of the caller;  *)
(* if there is none, insert one with the owner as its first member.        *)
(***************************************************************************)
Uses == {"show", "invite", "remove"}
NextStep(use) == CASE use = "show" -> "idle" [] use = "invite" -> "find" [] use = "remove" -> "remove"

Resolved(r, rec, t) ==
  IF rec.use = "show" THEN Return(r)
  ELSE req' = [req EXCEPT ![r] = [rec EXCEPT !.at = NextStep(rec.use), !.team = t]]

GetTeam(r, o, use, whom) ==
  LET rec == [Idle EXCEPT !.caller = o, !.use = use, !.arg = whom] IN
  /\ At(r, "idle")
  /\ IF TeamsOf(o) = {}
     THEN req' = [req EXCEPT ![r] = [rec EXCEPT !.at = "create"]]
     ELSE \E t \in TeamsOf(o) : Resolved(r, rec, t)
  /\ UNCHANGED <<users, learning, cert, teams, mailed>>

CreateTeam(r) ==
  /\ At(r, "create")
  /\ IF req[r].caller \in users
     THEN /\ made < MaxTeams
          /\ made' = made + 1
          /\ owner' = [owner EXCEPT ![made + 1] = req[r].caller]
          /\ members' = [members EXCEPT ![made + 1] = {req[r].caller}]
          /\ Resolved(r, req[r], made + 1)
     ELSE Return(r) /\ UNCHANGED teams
  /\ UNCHANGED <<users, learning, cert, mailed>>

(***************************************************************************)
(* Handler.Invite: GetByEmail, then AddMember, which counts the seats in   *)
(* one statement and inserts in the next.                                  *)
(***************************************************************************)
FindInvitee(r) ==
  /\ At(r, "find")
  /\ IF req[r].arg \in users THEN Goto(r, "count") ELSE Return(r)
  /\ UNCHANGED <<users, learning, cert, teams, mailed>>

\* Faulty variant: off by one.
HasSeatOrOneMore(t) == Cardinality(members[t]) <= Seats

HasSeat(t) == ~(Cardinality(members[t]) >= Seats)

CountSeats(r) ==
  /\ At(r, "count")
  /\ IF owner[req[r].team] # None /\ HasSeat(req[r].team) THEN Goto(r, "insert") ELSE Return(r)
  /\ UNCHANGED <<users, learning, cert, teams, mailed>>

\* Faulty variant: team_members without its foreign keys.
InsertUnchecked(r) ==
  /\ At(r, "insert")
  /\ members' = [members EXCEPT ![req[r].team] = @ \cup {req[r].arg}]
  /\ Return(r)
  /\ UNCHANGED <<users, learning, cert, made, owner, mailed>>

InsertMember(r) ==
  /\ At(r, "insert")
  /\ members' = IF owner[req[r].team] # None /\ req[r].arg \in users
                THEN [members EXCEPT ![req[r].team] = @ \cup {req[r].arg}]
                ELSE members
  /\ Return(r)
  /\ UNCHANGED <<users, learning, cert, made, owner, mailed>>

\* Repository.RemoveMember: not the row whose role is owner.
RemoveMember(r) ==
  /\ At(r, "remove")
  /\ members' = [members EXCEPT ![req[r].team] = @ \ ({req[r].arg} \ {owner[req[r].team]})]
  /\ Return(r)
  /\ UNCHANGED <<users, learning, cert, made, owner, mailed>>

-----------------------------------------------------------------------------
(***************************************************************************)
(* Progress: the handler marks a phase that was in the catalogue when it   *)
(* looked; a passed verification marks without looking, and drops the      *)
(* error of a mark that fails.                                             *)
(***************************************************************************)
PhaseExists(r, u, p) ==
  /\ At(r, "idle") /\ p \in catalogue
  /\ req' = [req EXCEPT ![r] = [Idle EXCEPT !.at = "mark", !.caller = u, !.arg = p]]
  /\ UNCHANGED <<users, learning, cert, teams, mailed>>

Marked(u, p) == IF u \in users THEN [progress EXCEPT ![u] = @ \cup {p}] ELSE progress

Mark(r) ==
  /\ At(r, "mark")
  /\ progress' = Marked(req[r].caller, req[r].arg)
  /\ Return(r)
  /\ UNCHANGED <<users, catalogue, cert, teams, mailed>>

maybeMarkProgress(u, p) ==
  /\ progress' = Marked(u, p)
  /\ UNCHANGED <<users, catalogue, cert, teams, req, mailed>>

Unmark(u, p) ==
  /\ progress' = [progress EXCEPT ![u] = @ \ {p}]
  /\ UNCHANGED <<users, catalogue, cert, teams, req, mailed>>

-----------------------------------------------------------------------------
(***************************************************************************)
(* Certificates: GetOrCreate looks for the certificate, asks whether the   *)
(* catalogue is completed, and inserts, in three statements.  The e-mail   *)
(* is sent by a goroutine that is not waited for.                          *)
(***************************************************************************)
getByUserID(r, u) ==
  /\ At(r, "idle") /\ u \in users /\ cert[u] = None
  /\ req' = [req EXCEPT ![r] = [Idle EXCEPT !.at = "eligible", !.caller = u]]
  /\ UNCHANGED <<users, learning, cert, teams, mailed>>

\* Faulty variant: as many phases as the catalogue has.
CountsMatch(u) == Cardinality(progress[u]) >= Cardinality(catalogue)

AllPhasesCompleted(u) == catalogue \subseteq progress[u]

CheckEligible(r) ==
  /\ At(r, "eligible")
  /\ IF AllPhasesCompleted(req[r].caller) THEN Goto(r, "issue") ELSE Return(r)
  /\ UNCHANGED <<users, learning, cert, teams, mailed>>

\* Faulty variant: INSERT ... ON CONFLICT (user_id) DO UPDATE.
UpsertCertificate(r, code) ==
  LET u == req[r].caller IN
  /\ At(r, "issue")
  /\ IF u \in users /\ \A v \in Users \ {u} : cert[v] # code
     THEN cert' = [cert EXCEPT ![u] = code] /\ mailed' = mailed \cup {<<u, code>>}
     ELSE UNCHANGED <<cert, mailed>>
  /\ Return(r)
  /\ UNCHANGED <<users, learning, teams>>

IssueCertificate(r, code) ==
  LET u == req[r].caller IN
  /\ At(r, "issue")
  /\ IF u \in users /\ cert[u] = None /\ \A v \in Users : cert[v] # code
     THEN cert' = [cert EXCEPT ![u] = code] /\ mailed' = mailed \cup {<<u, code>>}
     ELSE UNCHANGED <<cert, mailed>>
  /\ Return(r)
  /\ UNCHANGED <<users, learning, teams>>

-----------------------------------------------------------------------------
(***************************************************************************)
(* users.Repository.Delete: every table the code writes refers to users ON *)
(* DELETE CASCADE, and team_members to teams.                              *)
(***************************************************************************)
Delete(u) ==
  /\ u \in users
  /\ users' = users \ {u}
  /\ progress' = [progress EXCEPT ![u] = {}]
  /\ cert' = [cert EXCEPT ![u] = None]
  /\ owner' = [t \in TeamIds |-> IF owner[t] = u THEN None ELSE owner[t]]
  /\ members' = [t \in TeamIds |-> IF owner[t] = u THEN {} ELSE members[t] \ {u}]
  /\ UNCHANGED <<catalogue, made, req, mailed>>

\* A migration, or its rollback, which leaves the progress of a phase that goes.
Migrate ==
  /\ catalogue' \in Catalogues
  /\ UNCHANGED <<users, progress, cert, teams, req, mailed>>

-----------------------------------------------------------------------------
Init ==
  /\ users = Users
  /\ catalogue \in Catalogues
  /\ progress = [u \in Users |-> {}]
  /\ cert = [u \in Users |-> None]
  /\ made = 0
  /\ owner = [t \in TeamIds |-> None]
  /\ members = [t \in TeamIds |-> {}]
  /\ req = [r \in Requests |-> Idle]
  /\ mailed = {}
  /\ earned = {u \in Users : catalogue \subseteq progress[u]}

Team(r) ==
  \/ \E o \in Owners, use \in Uses, whom \in Users : GetTeam(r, o, use, whom)
  \/ CreateTeam(r) \/ FindInvitee(r) \/ CountSeats(r) \/ InsertMember(r) \/ RemoveMember(r)

Certificate(r) ==
  \/ \E u \in Learners : getByUserID(r, u)
  \/ CheckEligible(r)
  \/ \E code \in Codes : IssueCertificate(r, code)

Progress ==
  \/ \E r \in Requests : Mark(r) \/ \E u \in Learners, p \in Phases : PhaseExists(r, u, p)
  \/ \E u \in Learners, p \in Phases : maybeMarkProgress(u, p) \/ Unmark(u, p)

Step ==
  \/ \E r \in Requests : Team(r) \/ Certificate(r)
  \/ Progress
  \/ \E u \in Users : Delete(u)
  \/ Migrate

Next == Step /\ earned' = earned \cup {u \in Users : catalogue' \subseteq progress'[u]}

Spec == Init /\ [][Next]_vars

-----------------------------------------------------------------------------
(***************************************************************************)
(* Types, and what the schema cannot lose: whatever was in flight when an  *)
(* account went, no row of any table refers to it, and every team counts   *)
(* its owner among its members.                                            *)
(***************************************************************************)
RequestType ==
  [at : Places, caller : Users \cup {None}, use : Uses \cup {None},
   arg : Users \cup Phases \cup {None}, team : TeamIds \cup {None}]

TypeOK ==
  /\ users \subseteq Users /\ earned \subseteq Users
  /\ catalogue \in Catalogues
  /\ progress \in [Users -> SUBSET Phases]
  /\ cert \in [Users -> Codes \cup {None}]
  /\ made \in 0..MaxTeams
  /\ owner \in [TeamIds -> users \cup {None}]
  /\ members \in [TeamIds -> SUBSET users]
  /\ \A t \in TeamIds : IF owner[t] = None THEN members[t] = {} ELSE owner[t] \in members[t]
  /\ \A u \in Users \ users : progress[u] = {} /\ cert[u] = None
  /\ req \in [Requests -> RequestType]
  /\ mailed \subseteq Users \X Codes

(***************************************************************************)
(* What the two unlocked checks of the teams can cost: an owner has no     *)
(* more teams, and a team no more members above its seats, than there are  *)
(* requests to race each other (team/repository.go, GetOrCreateForOwner    *)
(* and AddMember).  Without two requests in flight, one team per owner and *)
(* the seats of it.                                                        *)
(***************************************************************************)
OverrunIsBounded ==
  /\ \A o \in Owners : Cardinality(TeamsOf(o)) <= Cardinality(Requests)
  /\ \A t \in TeamIds : Cardinality(members[t]) < Seats + Cardinality(Requests)

(***************************************************************************)
(* Whoever holds a certificate had completed every phase of the catalogue  *)
(* at one moment, whatever was unmarked, added or rolled back since        *)
(* (progress/progress_repository.go, AllPhasesCompleted, and               *)
(* certificate/service.go, GetOrCreate).                                   *)
(***************************************************************************)
CertificateEarned == \A u \in Users : cert[u] # None => u \in earned

(***************************************************************************)
(* The code that was e-mailed is the code of the certificate for as long   *)
(* as the account exists: of two requests that issue at once, the second   *)
(* does not replace what the first one mailed (certificate/service.go).    *)
(***************************************************************************)
MailedCodesStayValid == \A m \in mailed : m[1] \in users => cert[m[1]] = m[2]

=============================================================================
