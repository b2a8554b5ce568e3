---------------------------- MODULE CohortProofs ----------------------------
(***************************************************************************)
(* Proofs about Cohort, for any number of accounts, requests, teams,       *)
(* phases, catalogues and codes.                                           *)
(***************************************************************************)
EXTENDS Cohort, FiniteSetTheorems, TLAPS

\* What a request has read when it is at a place.
ReadBefore(q) ==
  /\ q.at = "create" => q.caller \in Owners /\ q.use \in Uses /\ q.arg \in Users
  /\ q.at \in {"find", "count", "insert", "remove"} => q.arg \in Users /\ q.team \in TeamIds
  /\ q.at = "mark" => q.caller \in Users /\ q.arg \in Phases
  /\ q.at \in {"eligible", "issue"} => q.caller \in Users

Inv == TypeOK /\ \A r \in Requests : ReadBefore(req[r])

LEMMA IdleType == Idle \in RequestType /\ ReadBefore(Idle)
BY DEF Idle, RequestType, ReadBefore, Places

\* A request that moves on keeps what it has read.
LEMMA ReturnKeeps ==
  ASSUME Inv, NEW r \in Requests, Return(r)
  PROVE  req' \in [Requests -> RequestType] /\ \A s \in Requests : ReadBefore(req'[s])
BY IdleType DEF Inv, TypeOK, Return

LEMMA GotoKeeps ==
  ASSUME Inv, NEW r \in Requests, NEW place \in Places, Goto(r, place),
         ReadBefore([req[r] EXCEPT !.at = place])
  PROVE  req' \in [Requests -> RequestType] /\ \A s \in Requests : ReadBefore(req'[s])
<1> DEFINE new == [req[r] EXCEPT !.at = place]
<1>1. req[r] \in RequestType
  BY DEF Inv, TypeOK
<1>2. new \in RequestType
  BY <1>1 DEF RequestType
<1>3. req' = [req EXCEPT ![r] = new]
  BY DEF Goto
<1>4. ReadBefore(new)
  OBVIOUS
<1> HIDE DEF new
<1> QED
  BY <1>2, <1>3, <1>4 DEF Inv, TypeOK

LEMMA SetKeeps ==
  ASSUME Inv, NEW r \in Requests, NEW new \in RequestType, ReadBefore(new),
         req' = [req EXCEPT ![r] = new]
  PROVE  req' \in [Requests -> RequestType] /\ \A s \in Requests : ReadBefore(req'[s])
BY DEF Inv, TypeOK

LEMMA ResolvedKeeps ==
  ASSUME Inv, NEW r \in Requests, NEW rec \in RequestType, NEW t \in TeamIds,
         rec.use \in Uses, rec.arg \in Users, Resolved(r, rec, t)
  PROVE  req' \in [Requests -> RequestType] /\ \A s \in Requests : ReadBefore(req'[s])
<1>1. CASE rec.use = "show"
  BY <1>1, ReturnKeeps DEF Resolved
<1>2. CASE rec.use # "show"
  <2> DEFINE new == [rec EXCEPT !.at = NextStep(rec.use), !.team = t]
  <2>1. NextStep(rec.use) \in {"find", "remove"}
    BY <1>2 DEF Uses, NextStep
  <2>2. new \in RequestType
    BY <2>1 DEF RequestType, Places
  <2>3. new.at \in {"find", "remove"} /\ new.arg = rec.arg /\ new.team = t
    BY <2>1 DEF RequestType
  <2>4. req' = [req EXCEPT ![r] = new]
    BY <1>2 DEF Resolved
  <2>5. ReadBefore(new)
    BY <2>3 DEF ReadBefore
  <2> HIDE DEF new
  <2> QED
    BY <2>2, <2>4, <2>5, SetKeeps
<1> QED
  BY <1>1, <1>2

-----------------------------------------------------------------------------
LEMMA InitInv == Init => Inv
BY IdleType, CohortAssumption DEF Init, Inv, TypeOK, TeamIds

LEMMA GetTeamInv ==
  ASSUME Inv, NEW r \in Requests, NEW o \in Owners, NEW use \in Uses, NEW whom \in Users,
         GetTeam(r, o, use, whom), earned' \subseteq Users
  PROVE  Inv'
<1> DEFINE rec == [Idle EXCEPT !.caller = o, !.use = use, !.arg = whom]
<1>1. rec \in RequestType /\ rec.use = use /\ rec.arg = whom /\ rec.caller = o
  BY CohortAssumption DEF Idle, RequestType, Places
<1>2. CASE TeamsOf(o) = {}
  <2> DEFINE new == [rec EXCEPT !.at = "create"]
  <2>1. new \in RequestType /\ new.at = "create" /\ new.caller = o /\ new.use = use /\ new.arg = whom
    BY <1>1 DEF RequestType, Places
  <2>2. ReadBefore(new)
    BY <2>1 DEF ReadBefore
  <2>3. req' = [req EXCEPT ![r] = new]
    BY <1>2 DEF GetTeam
  <2> HIDE DEF new
  <2> QED
    BY <2>1, <2>2, <2>3, SetKeeps DEF Inv, TypeOK, GetTeam, learning, teams
<1>3. CASE TeamsOf(o) # {}
  <2>1. PICK t \in TeamsOf(o) : Resolved(r, rec, t)
    BY <1>3 DEF GetTeam
  <2>2. t \in TeamIds
    BY DEF TeamsOf
  <2> HIDE DEF rec
  <2> QED
    BY <1>1, <2>1, <2>2, ResolvedKeeps DEF Inv, TypeOK, GetTeam, learning, teams
<1> QED
  BY <1>2, <1>3

LEMMA CreateTeamInv ==
  ASSUME Inv, NEW r \in Requests, CreateTeam(r), earned' \subseteq Users
  PROVE  Inv'
<1>1. /\ req[r] \in RequestType /\ req[r].caller \in Owners /\ req[r].use \in Uses
      /\ req[r].arg \in Users
  BY DEF Inv, TypeOK, ReadBefore, CreateTeam, At
<1>2. CASE req[r].caller \in users
  <2>1. made + 1 \in TeamIds /\ made' = made + 1 /\ made' \in 0..MaxTeams
    BY <1>2, CohortAssumption DEF Inv, TypeOK, CreateTeam, TeamIds
  <2>2. req' \in [Requests -> RequestType] /\ \A s \in Requests : ReadBefore(req'[s])
    BY <1>1, <1>2, <2>1, ResolvedKeeps DEF CreateTeam
  <2>3. /\ owner' \in [TeamIds -> users \cup {None}]
        /\ members' \in [TeamIds -> SUBSET users]
    BY <1>2, <2>1 DEF Inv, TypeOK, CreateTeam
  <2>4. ASSUME NEW t \in TeamIds
        PROVE  IF owner'[t] = None THEN members'[t] = {} ELSE owner'[t] \in members'[t]
    BY <1>2, <2>1, CohortAssumption DEF Inv, TypeOK, CreateTeam
  <2> QED
    BY <2>1, <2>2, <2>3, <2>4 DEF Inv, TypeOK, CreateTeam, learning, ReadBefore
<1>3. CASE req[r].caller \notin users
  BY <1>3, ReturnKeeps DEF Inv, TypeOK, CreateTeam, learning, teams
<1> QED
  BY <1>2, <1>3

LEMMA FindInviteeInv ==
  ASSUME Inv, NEW r \in Requests, FindInvitee(r), earned' \subseteq Users
  PROVE  Inv'
<1>1. ReadBefore([req[r] EXCEPT !.at = "count"])
  BY DEF Inv, TypeOK, FindInvitee, At, ReadBefore, RequestType
<1>2. req' \in [Requests -> RequestType] /\ \A s \in Requests : ReadBefore(req'[s])
  BY <1>1, ReturnKeeps, GotoKeeps DEF FindInvitee, Places
<1> QED
  BY <1>2 DEF Inv, TypeOK, FindInvitee, learning, teams

LEMMA CountSeatsInv ==
  ASSUME Inv, NEW r \in Requests, CountSeats(r), earned' \subseteq Users
  PROVE  Inv'
<1>1. ReadBefore([req[r] EXCEPT !.at = "insert"])
  BY DEF Inv, TypeOK, CountSeats, At, ReadBefore, RequestType
<1>2. req' \in [Requests -> RequestType] /\ \A s \in Requests : ReadBefore(req'[s])
  BY <1>1, ReturnKeeps, GotoKeeps DEF CountSeats, Places
<1> QED
  BY <1>2 DEF Inv, TypeOK, CountSeats, learning, teams

LEMMA InsertMemberInv ==
  ASSUME Inv, NEW r \in Requests, InsertMember(r), earned' \subseteq Users
  PROVE  Inv'
<1>1. req[r].arg \in Users /\ req[r].team \in TeamIds
  BY DEF Inv, ReadBefore, InsertMember, At
<1>2. /\ members' \in [TeamIds -> SUBSET users]
      /\ \A t \in TeamIds : IF owner[t] = None THEN members'[t] = {} ELSE owner[t] \in members'[t]
  BY <1>1 DEF Inv, TypeOK, InsertMember
<1>3. req' \in [Requests -> RequestType] /\ \A s \in Requests : ReadBefore(req'[s])
  BY ReturnKeeps DEF InsertMember
<1> QED
  BY <1>2, <1>3 DEF Inv, TypeOK, InsertMember, learning

LEMMA RemoveMemberInv ==
  ASSUME Inv, NEW r \in Requests, RemoveMember(r), earned' \subseteq Users
  PROVE  Inv'
<1>1. req[r].arg \in Users /\ req[r].team \in TeamIds
  BY DEF Inv, ReadBefore, RemoveMember, At
<1>2. /\ members' \in [TeamIds -> SUBSET users]
      /\ \A t \in TeamIds : IF owner[t] = None THEN members'[t] = {} ELSE owner[t] \in members'[t]
  BY <1>1 DEF Inv, TypeOK, RemoveMember
<1>3. req' \in [Requests -> RequestType] /\ \A s \in Requests : ReadBefore(req'[s])
  BY ReturnKeeps DEF RemoveMember
<1> QED
  BY <1>2, <1>3 DEF Inv, TypeOK, RemoveMember, learning

LEMMA PhaseExistsInv ==
  ASSUME Inv, NEW r \in Requests, NEW u \in Learners, NEW p \in Phases,
         PhaseExists(r, u, p), earned' \subseteq Users
  PROVE  Inv'
<1> DEFINE new == [Idle EXCEPT !.at = "mark", !.caller = u, !.arg = p]
<1>1. new \in RequestType /\ new.at = "mark" /\ new.caller = u /\ new.arg = p
  BY CohortAssumption DEF Idle, RequestType, Places
<1>2. ReadBefore(new)
  BY <1>1, CohortAssumption DEF ReadBefore
<1>3. req' = [req EXCEPT ![r] = new]
  BY DEF PhaseExists
<1> HIDE DEF new
<1> QED
  BY <1>1, <1>2, <1>3, SetKeeps DEF Inv, TypeOK, PhaseExists, learning, teams

LEMMA MarkedType ==
  ASSUME Inv, NEW u \in Users, NEW p \in Phases
  PROVE  /\ Marked(u, p) \in [Users -> SUBSET Phases]
         /\ \A v \in Users \ users : Marked(u, p)[v] = {}
BY DEF Inv, TypeOK, Marked

LEMMA MarkInv ==
  ASSUME Inv, NEW r \in Requests, Mark(r), earned' \subseteq Users
  PROVE  Inv'
<1>1. req[r].caller \in Users /\ req[r].arg \in Phases
  BY DEF Inv, ReadBefore, Mark, At
<1>2. /\ progress' \in [Users -> SUBSET Phases]
      /\ \A v \in Users \ users : progress'[v] = {}
  BY <1>1, MarkedType DEF Mark
<1>3. req' \in [Requests -> RequestType] /\ \A s \in Requests : ReadBefore(req'[s])
  BY ReturnKeeps DEF Mark
<1> QED
  BY <1>2, <1>3 DEF Inv, TypeOK, Mark, teams

LEMMA VerifiedOrUnmarkedInv ==
  ASSUME Inv, NEW u \in Learners, NEW p \in Phases,
         maybeMarkProgress(u, p) \/ Unmark(u, p), earned' \subseteq Users
  PROVE  Inv'
<1>1. u \in Users
  BY CohortAssumption
<1>2. /\ progress' \in [Users -> SUBSET Phases]
      /\ \A v \in Users \ users : progress'[v] = {}
  <2>1. CASE maybeMarkProgress(u, p)
    BY <1>1, <2>1, MarkedType DEF maybeMarkProgress
  <2>2. CASE Unmark(u, p)
    BY <1>1, <2>2 DEF Unmark, Inv, TypeOK
  <2> QED
    BY <2>1, <2>2
<1>3. UNCHANGED <<users, catalogue, cert, teams, req, mailed>>
  BY DEF maybeMarkProgress, Unmark
<1> QED
  BY <1>2, <1>3 DEF Inv, TypeOK, teams

LEMMA GetByUserIDInv ==
  ASSUME Inv, NEW r \in Requests, NEW u \in Learners, getByUserID(r, u), earned' \subseteq Users
  PROVE  Inv'
<1> DEFINE new == [Idle EXCEPT !.at = "eligible", !.caller = u]
<1>1. new \in RequestType /\ new.at = "eligible" /\ new.caller = u
  BY CohortAssumption DEF Idle, RequestType, Places
<1>2. ReadBefore(new)
  BY <1>1, CohortAssumption DEF ReadBefore
<1>3. req' = [req EXCEPT ![r] = new]
  BY DEF getByUserID
<1> HIDE DEF new
<1> QED
  BY <1>1, <1>2, <1>3, SetKeeps DEF Inv, TypeOK, getByUserID, learning, teams

LEMMA CheckEligibleInv ==
  ASSUME Inv, NEW r \in Requests, CheckEligible(r), earned' \subseteq Users
  PROVE  Inv'
<1>1. ReadBefore([req[r] EXCEPT !.at = "issue"])
  BY DEF Inv, TypeOK, CheckEligible, At, ReadBefore, RequestType
<1>2. req' \in [Requests -> RequestType] /\ \A s \in Requests : ReadBefore(req'[s])
  BY <1>1, ReturnKeeps, GotoKeeps DEF CheckEligible, Places
<1> QED
  BY <1>2 DEF Inv, TypeOK, CheckEligible, learning, teams

LEMMA IssueCertificateInv ==
  ASSUME Inv, NEW r \in Requests, NEW code \in Codes, IssueCertificate(r, code),
         earned' \subseteq Users
  PROVE  Inv'
<1>1. req[r].caller \in Users
  BY DEF Inv, ReadBefore, IssueCertificate, At
<1>2. /\ cert' \in [Users -> Codes \cup {None}]
      /\ mailed' \subseteq Users \X Codes
      /\ \A u \in Users \ users : cert'[u] = None
  BY <1>1 DEF Inv, TypeOK, IssueCertificate
<1>3. req' \in [Requests -> RequestType] /\ \A s \in Requests : ReadBefore(req'[s])
  BY ReturnKeeps DEF IssueCertificate
<1> QED
  BY <1>2, <1>3 DEF Inv, TypeOK, IssueCertificate, learning, teams

LEMMA DeleteInv ==
  ASSUME Inv, NEW u \in Users, Delete(u), earned' \subseteq Users
  PROVE  Inv'
<1>1. /\ owner' \in [TeamIds -> users' \cup {None}]
      /\ members' \in [TeamIds -> SUBSET users']
  BY DEF Inv, TypeOK, Delete
<1>2. \A t \in TeamIds : IF owner'[t] = None THEN members'[t] = {} ELSE owner'[t] \in members'[t]
  BY CohortAssumption DEF Inv, TypeOK, Delete
<1>3. /\ progress' \in [Users -> SUBSET Phases]
      /\ cert' \in [Users -> Codes \cup {None}]
      /\ \A v \in Users \ users' : progress'[v] = {} /\ cert'[v] = None
  BY DEF Inv, TypeOK, Delete
<1> QED
  BY <1>1, <1>2, <1>3 DEF Inv, TypeOK, Delete

LEMMA MigrateInv ==
  ASSUME Inv, Migrate, earned' \subseteq Users
  PROVE  Inv'
BY DEF Inv, TypeOK, Migrate, teams

LEMMA NextInv ==
  ASSUME Inv, [Next]_vars
  PROVE  Inv'
<1>1. CASE UNCHANGED vars
  BY <1>1 DEF Inv, TypeOK, vars, learning, teams
<1>2. CASE Next
  <2>1. earned' \subseteq Users
    BY <1>2 DEF Next, Inv, TypeOK
  <2>2. CASE \E r \in Requests : Team(r)
    <3>1. PICK r \in Requests : Team(r)
      BY <2>2
    <3> QED
      BY <2>1, <3>1, GetTeamInv, CreateTeamInv, FindInviteeInv, CountSeatsInv, InsertMemberInv,
         RemoveMemberInv DEF Team
  <2>3. CASE \E r \in Requests : Certificate(r)
    BY <2>1, <2>3, GetByUserIDInv, CheckEligibleInv, IssueCertificateInv DEF Certificate
  <2>4. CASE Progress
    BY <2>1, <2>4, PhaseExistsInv, MarkInv, VerifiedOrUnmarkedInv DEF Progress
  <2>5. CASE \E u \in Users : Delete(u)
    BY <2>1, <2>5, DeleteInv
  <2>6. CASE Migrate
    BY <2>1, <2>6, MigrateInv
  <2> QED
    BY <1>2, <2>2, <2>3, <2>4, <2>5, <2>6 DEF Next, Step
<1> QED
  BY <1>1, <1>2 DEF Next

LEMMA InvHolds == Spec => []Inv
BY InitInv, NextInv, PTL DEF Spec

(***************************************************************************)
(* No row refers to an account that is gone, whatever was in flight when   *)
(* it went.                                                                *)
(***************************************************************************)
THEOREM TypeCorrect == Spec => []TypeOK
<1>1. Inv => TypeOK
  BY DEF Inv
<1> QED
  BY <1>1, InvHolds, PTL

-----------------------------------------------------------------------------
(***************************************************************************)
(* Certificates.  The witness of eligibility is taken at the moment of the *)
(* check and still there at the insert.                                    *)
(***************************************************************************)
Eligible == \A r \in Requests : req[r].at = "issue" => req[r].caller \in earned

\* Completing the catalogue is noticed in the state where it is so.
Noticed == \A u \in Users : catalogue \subseteq progress[u] => u \in earned

CertInv == CertificateEarned /\ Eligible /\ Noticed /\ MailedCodesStayValid

\* A step of a request that does not send it to the insert.
LEMMA EligibleKept ==
  ASSUME Inv, Eligible, earned \subseteq earned',
         \A r \in Requests : req'[r] = req[r] \/ req'[r].at # "issue"
  PROVE  Eligible'
BY DEF Eligible

LEMMA ResolvedElsewhere ==
  ASSUME Inv, NEW r \in Requests, NEW rec \in RequestType, NEW t \in TeamIds,
         rec.use \in Uses, Resolved(r, rec, t)
  PROVE  /\ \A s \in Requests \ {r} : req'[s] = req[s]
         /\ req'[r].at \notin {"create", "insert", "issue"}
<1>1. CASE rec.use = "show"
  BY <1>1 DEF Resolved, Return, Idle, Inv, TypeOK
<1>2. CASE rec.use # "show"
  <2> DEFINE new == [rec EXCEPT !.at = NextStep(rec.use), !.team = t]
  <2>1. NextStep(rec.use) \in {"find", "remove"}
    BY <1>2 DEF Uses, NextStep
  <2>2. new.at \notin {"create", "insert", "issue"}
    BY <2>1 DEF RequestType
  <2>3. req' = [req EXCEPT ![r] = new]
    BY <1>2 DEF Resolved
  <2> HIDE DEF new
  <2> QED
    BY <2>2, <2>3 DEF Inv, TypeOK
<1> QED
  BY <1>1, <1>2

LEMMA TeamElsewhere ==
  ASSUME Inv, NEW r \in Requests, Team(r)
  PROVE  /\ \A s \in Requests : req'[s] = req[s] \/ req'[s].at # "issue"
         /\ UNCHANGED <<users, learning, cert, mailed>>
<1>1. ASSUME NEW o \in Owners, NEW use \in Uses, NEW whom \in Users, GetTeam(r, o, use, whom)
      PROVE  \A s \in Requests : req'[s] = req[s] \/ req'[s].at # "issue"
  <2> DEFINE rec == [Idle EXCEPT !.caller = o, !.use = use, !.arg = whom]
  <2>1. rec \in RequestType /\ rec.use = use
    BY CohortAssumption DEF Idle, RequestType, Places
  <2>2. CASE TeamsOf(o) = {}
    <3> DEFINE new == [rec EXCEPT !.at = "create"]
    <3>1. new.at = "create"
      BY <2>1 DEF RequestType
    <3>2. req' = [req EXCEPT ![r] = new]
      BY <1>1, <2>2 DEF GetTeam
    <3> HIDE DEF new
    <3> QED
      BY <3>1, <3>2 DEF Inv, TypeOK
  <2>3. CASE TeamsOf(o) # {}
    <3>1. PICK t \in TeamsOf(o) : Resolved(r, rec, t)
      BY <1>1, <2>3 DEF GetTeam
    <3>2. t \in TeamIds
      BY DEF TeamsOf
    <3> HIDE DEF rec
    <3> QED
      BY <2>1, <3>1, <3>2, ResolvedElsewhere
  <2> QED
    BY <2>2, <2>3
<1>2. CASE CreateTeam(r)
  <2>1. req[r] \in RequestType /\ req[r].use \in Uses
    BY <1>2 DEF Inv, TypeOK, ReadBefore, CreateTeam, At
  <2>2. CASE req[r].caller \in users
    <3>1. made + 1 \in TeamIds
      BY <1>2, <2>2, CohortAssumption DEF Inv, TypeOK, CreateTeam, TeamIds
    <3> QED
      BY <1>2, <2>1, <2>2, <3>1, ResolvedElsewhere DEF CreateTeam
  <2>3. CASE req[r].caller \notin users
    BY <1>2, <2>3 DEF CreateTeam, Return, Idle, Inv, TypeOK
  <2> QED
    BY <2>2, <2>3
<1>3. CASE FindInvitee(r) \/ CountSeats(r) \/ InsertMember(r) \/ RemoveMember(r)
  BY <1>3 DEF FindInvitee, CountSeats, InsertMember, RemoveMember, Goto, Return, Idle, Inv, TypeOK,
     RequestType
<1>4. \A s \in Requests : req'[s] = req[s] \/ req'[s].at # "issue"
  BY <1>1, <1>2, <1>3 DEF Team
<1>5. UNCHANGED <<users, learning, cert, mailed>>
  BY DEF Team, GetTeam, CreateTeam, FindInvitee, CountSeats, InsertMember, RemoveMember
<1> QED
  BY <1>4, <1>5

LEMMA CertInvInit == Init => CertInv
BY DEF Init, CertInv, CertificateEarned, Eligible, Noticed, MailedCodesStayValid, Idle

LEMMA CertInvNext ==
  ASSUME Inv, CertInv, [Next]_vars
  PROVE  CertInv'
<1>1. CASE UNCHANGED vars
  BY <1>1 DEF CertInv, CertificateEarned, Eligible, Noticed, MailedCodesStayValid, vars, learning
<1>2. CASE Next
  <2>1. earned \subseteq earned' /\ Noticed'
    BY <1>2 DEF Next, Noticed
  <2>2. CASE \E r \in Requests : Team(r)
    <3>1. PICK r \in Requests : Team(r)
      BY <2>2
    <3> QED
      BY <2>1, <3>1, TeamElsewhere, EligibleKept
      DEF CertInv, CertificateEarned, MailedCodesStayValid
  <2>3. ASSUME NEW r \in Requests, NEW u \in Learners, getByUserID(r, u)
        PROVE  CertInv'
    <3>1. \A s \in Requests : req'[s] = req[s] \/ req'[s].at # "issue"
      BY <2>3 DEF getByUserID, Idle, Inv, TypeOK
    <3> QED
      BY <2>1, <2>3, <3>1, EligibleKept
      DEF CertInv, CertificateEarned, MailedCodesStayValid, getByUserID
  <2>4. ASSUME NEW r \in Requests, CheckEligible(r)
        PROVE  CertInv'
    <3>1. req[r].caller \in Users /\ req[r] \in RequestType
      BY <2>4 DEF Inv, TypeOK, ReadBefore, CheckEligible, At
    <3>2. CASE AllPhasesCompleted(req[r].caller)
      <4>1. req[r].caller \in earned'
        BY <2>1, <3>1, <3>2 DEF CertInv, Noticed, AllPhasesCompleted
      <4>2. \A s \in Requests : req'[s].at = "issue" => req'[s].caller \in earned'
        BY <2>1, <2>4, <3>1, <3>2, <4>1
        DEF CertInv, Eligible, CheckEligible, Goto, RequestType, Inv, TypeOK
      <4> QED
        BY <2>1, <2>4, <4>2
        DEF CertInv, CertificateEarned, Eligible, MailedCodesStayValid, CheckEligible
    <3>3. CASE ~AllPhasesCompleted(req[r].caller)
      <4>1. \A s \in Requests : req'[s] = req[s] \/ req'[s].at # "issue"
        BY <2>4, <3>3 DEF CheckEligible, Return, Idle, Inv, TypeOK
      <4> QED
        BY <2>1, <2>4, <4>1, EligibleKept
        DEF CertInv, CertificateEarned, MailedCodesStayValid, CheckEligible
    <3> QED
      BY <3>2, <3>3
  <2>5. ASSUME NEW r \in Requests, NEW code \in Codes, IssueCertificate(r, code)
        PROVE  CertInv'
    <3>1. req[r].caller \in Users /\ req[r].caller \in earned
      BY <2>5 DEF Inv, ReadBefore, IssueCertificate, At, CertInv, Eligible
    <3>2. \A s \in Requests : req'[s] = req[s] \/ req'[s].at # "issue"
      BY <2>5 DEF IssueCertificate, Return, Idle, Inv, TypeOK
    <3>3. CertificateEarned'
      BY <2>1, <2>5, <3>1 DEF CertInv, CertificateEarned, IssueCertificate, Inv, TypeOK
    <3>4. MailedCodesStayValid'
      <4> SUFFICES ASSUME NEW m \in mailed', m[1] \in users
                   PROVE  cert'[m[1]] = m[2]
        BY <2>5 DEF MailedCodesStayValid, IssueCertificate
      <4>1. m[1] \in Users
        BY DEF Inv, TypeOK
      <4>2. CASE m \in mailed /\ (m[1] # req[r].caller \/ cert' = cert)
        BY <2>5, <4>1, <4>2 DEF CertInv, MailedCodesStayValid, IssueCertificate, Inv, TypeOK
      <4>3. CASE m \in mailed /\ m[1] = req[r].caller /\ cert' # cert
        <5>1. cert[m[1]] = None /\ cert[m[1]] = m[2] /\ m[2] \in Codes
          BY <2>5, <4>3 DEF CertInv, MailedCodesStayValid, IssueCertificate, Inv, TypeOK
        <5> QED
          BY <5>1, CohortAssumption
      <4>4. CASE m \notin mailed
        BY <2>5, <3>1, <4>4 DEF IssueCertificate, Inv, TypeOK
      <4> QED
        BY <4>2, <4>3, <4>4
    <3> QED
      BY <2>1, <3>2, <3>3, <3>4, EligibleKept DEF CertInv
  <2>6. CASE Progress
    <3>1. \A s \in Requests : req'[s] = req[s] \/ req'[s].at # "issue"
      <4>1. ASSUME NEW r \in Requests, Mark(r)
            PROVE  \A s \in Requests : req'[s] = req[s] \/ req'[s].at # "issue"
        BY <4>1 DEF Mark, Return, Idle, Inv, TypeOK
      <4>2. ASSUME NEW r \in Requests, NEW u \in Learners, NEW p \in Phases, PhaseExists(r, u, p)
            PROVE  \A s \in Requests : req'[s] = req[s] \/ req'[s].at # "issue"
        <5> DEFINE new == [Idle EXCEPT !.at = "mark", !.caller = u, !.arg = p]
        <5>1. new.at = "mark"
          BY DEF Idle
        <5>2. req' = [req EXCEPT ![r] = new]
          BY <4>2 DEF PhaseExists
        <5> HIDE DEF new
        <5> QED
          BY <5>1, <5>2 DEF Inv, TypeOK
      <4> QED
        BY <2>6, <4>1, <4>2 DEF Progress, maybeMarkProgress, Unmark
    <3>2. UNCHANGED <<users, cert, mailed>>
      BY <2>6 DEF Progress, Mark, PhaseExists, maybeMarkProgress, Unmark
    <3> QED
      BY <2>1, <3>1, <3>2, EligibleKept DEF CertInv, CertificateEarned, MailedCodesStayValid
  <2>7. ASSUME NEW u \in Users, Delete(u)
        PROVE  CertInv'
    <3>1. CertificateEarned'
      BY <2>1, <2>7 DEF CertInv, CertificateEarned, Delete, Inv, TypeOK
    <3>2. MailedCodesStayValid'
      BY <2>7 DEF CertInv, MailedCodesStayValid, Delete, Inv, TypeOK
    <3> QED
      BY <2>1, <2>7, <3>1, <3>2, EligibleKept DEF CertInv, Delete
  <2>8. CASE Migrate
    BY <2>1, <2>8, EligibleKept DEF CertInv, CertificateEarned, MailedCodesStayValid, Migrate
  <2> QED
    BY <1>2, <2>2, <2>3, <2>4, <2>5, <2>6, <2>7, <2>8 DEF Next, Step, Certificate
<1> QED
  BY <1>1, <1>2 DEF Next

LEMMA CertInvHolds == Spec => []CertInv
BY InvHolds, CertInvInit, CertInvNext, PTL DEF Spec

(***************************************************************************)
(* A certificate is only ever held by who had completed the catalogue,     *)
(* however the check and the insert interleave with marks and migrations.  *)
(***************************************************************************)
THEOREM CertificatesAreEarned == Spec => []CertificateEarned
<1>1. CertInv => CertificateEarned
  BY DEF CertInv
<1> QED
  BY <1>1, CertInvHolds, PTL

(***************************************************************************)
(* The code that was e-mailed stays the code of the certificate.           *)
(***************************************************************************)
THEOREM MailedCodesAreValid == Spec => []MailedCodesStayValid
<1>1. CertInv => MailedCodesStayValid
  BY DEF CertInv
<1> QED
  BY <1>1, CertInvHolds, PTL

-----------------------------------------------------------------------------
(***************************************************************************)
(* The two unlocked checks.  The requests that have passed a check and not *)
(* yet inserted count as if they had.                                      *)
(***************************************************************************)
Creating(o) == {r \in Requests : req[r].at = "create" /\ req[r].caller = o}
Inserting(t) == {r \in Requests : req[r].at = "insert" /\ req[r].team = t}

TeamsBound(o) == Cardinality(TeamsOf(o)) + Cardinality(Creating(o)) <= Cardinality(Requests)
SeatsBound(t) ==
  Cardinality(members[t]) + Cardinality(Inserting(t)) < Seats + Cardinality(Requests)

RaceInv == (\A o \in Owners : TeamsBound(o)) /\ (\A t \in TeamIds : SeatsBound(t))

LEMMA Sizes ==
  ASSUME Inv
  PROVE  /\ Cardinality(Requests) \in Nat
         /\ \A S \in SUBSET Requests : IsFiniteSet(S) /\ Cardinality(S) \in Nat
                                       /\ Cardinality(S) <= Cardinality(Requests)
         /\ \A S \in SUBSET Users : IsFiniteSet(S) /\ Cardinality(S) \in Nat
         /\ \A S \in SUBSET TeamIds : IsFiniteSet(S) /\ Cardinality(S) \in Nat
<1>1. IsFiniteSet(TeamIds)
  BY CohortAssumption, FS_Interval DEF TeamIds
<1> QED
  BY <1>1, CohortAssumption, FS_Subset, FS_CardinalityType

LEMMA SmallerSum ==
  ASSUME NEW A, NEW B, IsFiniteSet(A), IsFiniteSet(B),
         NEW C \in SUBSET A, NEW D \in SUBSET B
  PROVE  Cardinality(C) + Cardinality(D) <= Cardinality(A) + Cardinality(B)
<1>1. Cardinality(A) \in Nat /\ Cardinality(B) \in Nat
  BY FS_CardinalityType
<1>2. Cardinality(C) \in Nat /\ Cardinality(C) <= Cardinality(A)
  BY FS_Subset, FS_CardinalityType
<1>3. Cardinality(D) \in Nat /\ Cardinality(D) <= Cardinality(B)
  BY FS_Subset, FS_CardinalityType
<1> QED
  BY <1>1, <1>2, <1>3

\* One more of A, one fewer of B.
LEMMA OneForOne ==
  ASSUME NEW A, NEW B, IsFiniteSet(A), IsFiniteSet(B), NEW a, NEW b \in B
  PROVE  Cardinality(A \cup {a}) + Cardinality(B \ {b}) <= Cardinality(A) + Cardinality(B)
<1>1. Cardinality(A) \in Nat /\ Cardinality(B) \in Nat
  BY FS_CardinalityType
<1>2. Cardinality(A \cup {a}) \in Nat /\ Cardinality(A \cup {a}) <= Cardinality(A) + 1
  BY <1>1, FS_AddElement
<1>3. Cardinality(B \ {b}) = Cardinality(B) - 1
  BY FS_RemoveElement
<1> QED
  BY <1>1, <1>2, <1>3

LEMMA TeamsShrink ==
  ASSUME Inv, NEW o \in Owners, TeamsBound(o),
         TeamsOf(o)' \subseteq TeamsOf(o), Creating(o)' \subseteq Creating(o)
  PROVE  TeamsBound(o)'
<1>1. IsFiniteSet(TeamsOf(o)) /\ IsFiniteSet(Creating(o))
  BY Sizes DEF TeamsOf, Creating
<1>2. Cardinality(TeamsOf(o)') + Cardinality(Creating(o)')
        <= Cardinality(TeamsOf(o)) + Cardinality(Creating(o))
  BY <1>1, SmallerSum
<1>3. /\ Cardinality(TeamsOf(o)') \in Nat /\ Cardinality(Creating(o)') \in Nat
      /\ Cardinality(TeamsOf(o)) \in Nat /\ Cardinality(Creating(o)) \in Nat
      /\ Cardinality(Requests) \in Nat
  BY Sizes DEF TeamsOf, Creating
<1> QED
  BY <1>2, <1>3 DEF TeamsBound

LEMMA SeatsShrink ==
  ASSUME Inv, NEW t \in TeamIds, SeatsBound(t),
         members'[t] \subseteq members[t], Inserting(t)' \subseteq Inserting(t)
  PROVE  SeatsBound(t)'
<1>1. members[t] \in SUBSET Users
  BY DEF Inv, TypeOK
<1>2. IsFiniteSet(members[t]) /\ IsFiniteSet(Inserting(t))
  BY <1>1, Sizes DEF Inserting
<1>3. Cardinality(members'[t]) + Cardinality(Inserting(t)')
        <= Cardinality(members[t]) + Cardinality(Inserting(t))
  BY <1>2, SmallerSum
<1>4. /\ Cardinality(members'[t]) \in Nat /\ Cardinality(Inserting(t)') \in Nat
      /\ Cardinality(members[t]) \in Nat /\ Cardinality(Inserting(t)) \in Nat
      /\ Cardinality(Requests) \in Nat
  BY <1>1, Sizes DEF Inserting
<1> QED
  BY <1>3, <1>4, CohortAssumption DEF SeatsBound

\* A step that sends no request to an insert and takes nobody in.
LEMMA RaceKept ==
  ASSUME Inv, RaceInv,
         \A r \in Requests : req'[r] = req[r] \/ req'[r].at \notin {"create", "insert"},
         \A t \in TeamIds : owner'[t] \in {owner[t], None} /\ members'[t] \subseteq members[t]
  PROVE  RaceInv'
<1>1. ASSUME NEW o \in Owners
      PROVE  TeamsBound(o)'
  <2>1. TeamsOf(o)' \subseteq TeamsOf(o) /\ Creating(o)' \subseteq Creating(o)
    BY CohortAssumption DEF TeamsOf, Creating
  <2> QED
    BY <2>1, TeamsShrink DEF RaceInv
<1>2. ASSUME NEW t \in TeamIds
      PROVE  SeatsBound(t)'
  <2>1. Inserting(t)' \subseteq Inserting(t)
    BY DEF Inserting
  <2> QED
    BY <2>1, SeatsShrink DEF RaceInv
<1> QED
  BY <1>1, <1>2 DEF RaceInv

-----------------------------------------------------------------------------
LEMMA GetTeamRace ==
  ASSUME Inv, RaceInv, NEW r \in Requests, NEW o \in Owners, NEW use \in Uses,
         NEW whom \in Users, GetTeam(r, o, use, whom)
  PROVE  RaceInv'
<1> DEFINE rec == [Idle EXCEPT !.caller = o, !.use = use, !.arg = whom]
<1>1. rec \in RequestType /\ rec.use = use /\ rec.caller = o
  BY CohortAssumption DEF Idle, RequestType, Places
<1>2. UNCHANGED <<owner, members>>
  BY DEF GetTeam, teams
<1>3. CASE TeamsOf(o) = {}
  <2> DEFINE new == [rec EXCEPT !.at = "create"]
  <2>1. new.at = "create" /\ new.caller = o
    BY <1>1 DEF RequestType
  <2>2. req' = [req EXCEPT ![r] = new]
    BY <1>3 DEF GetTeam
  <2> HIDE DEF new
  <2>3. ASSUME NEW t \in TeamIds
        PROVE  SeatsBound(t)'
    <3>1. Inserting(t)' \subseteq Inserting(t)
      BY <2>1, <2>2 DEF Inserting, Inv, TypeOK
    <3> QED
      BY <1>2, <3>1, SeatsShrink DEF RaceInv
  <2>4. ASSUME NEW p \in Owners, p # o
        PROVE  TeamsBound(p)'
    <3>1. Creating(p)' \subseteq Creating(p) /\ TeamsOf(p)' = TeamsOf(p)
      BY <1>2, <2>1, <2>2, <2>4 DEF Creating, TeamsOf, Inv, TypeOK
    <3> QED
      BY <3>1, TeamsShrink DEF RaceInv
  <2>5. TeamsBound(o)'
    <3>1. TeamsOf(o)' = {}
      BY <1>2, <1>3 DEF TeamsOf
    <3>2. Cardinality({}) = 0
      BY FS_EmptySet
    <3>3. /\ Cardinality(Creating(o)') \in Nat /\ Cardinality(Requests) \in Nat
          /\ Cardinality(Creating(o)') <= Cardinality(Requests)
      BY Sizes DEF Creating
    <3> QED
      BY <3>1, <3>2, <3>3 DEF TeamsBound
  <2> QED
    BY <2>3, <2>4, <2>5 DEF RaceInv
<1>4. CASE TeamsOf(o) # {}
  <2>1. PICK t \in TeamsOf(o) : Resolved(r, rec, t)
    BY <1>4 DEF GetTeam
  <2>2. t \in TeamIds
    BY DEF TeamsOf
  <2> HIDE DEF rec
  <2>3. \A s \in Requests : req'[s] = req[s] \/ req'[s].at \notin {"create", "insert"}
    BY <1>1, <2>1, <2>2, ResolvedElsewhere
  <2> QED
    BY <1>2, <2>3, RaceKept
<1> QED
  BY <1>3, <1>4

LEMMA CreateTeamRace ==
  ASSUME Inv, RaceInv, NEW r \in Requests, CreateTeam(r)
  PROVE  RaceInv'
<1> PICK o \in Owners : o = req[r].caller
  BY DEF Inv, ReadBefore, CreateTeam, At
<1>1. req[r] \in RequestType /\ req[r].use \in Uses /\ req[r].at = "create"
  BY DEF Inv, TypeOK, ReadBefore, CreateTeam, At
<1>2. CASE o \in users
  <2>1. made + 1 \in TeamIds
    BY <1>2, CohortAssumption DEF Inv, TypeOK, CreateTeam, TeamIds
  <2> PICK m \in TeamIds : m = made + 1
    BY <2>1
  <2>2. \A s \in Requests : req'[s] = req[s] \/ req'[s].at \notin {"create", "insert"}
    BY <1>1, <1>2, <2>1, ResolvedElsewhere DEF CreateTeam
  <2>3. req'[r].at # "create" /\ req'[r].at # "insert"
    BY <1>1, <1>2, <2>1, ResolvedElsewhere DEF CreateTeam
  <2>4. owner' = [owner EXCEPT ![m] = o] /\ members' = [members EXCEPT ![m] = {o}]
    BY <1>2 DEF CreateTeam
  <2>5. TeamsBound(o)'
    <3>1. TeamsOf(o)' \subseteq TeamsOf(o) \cup {m} /\ Creating(o)' \subseteq Creating(o) \ {r}
      BY <2>2, <2>3, <2>4 DEF TeamsOf, Creating, Inv, TypeOK
    <3>2. r \in Creating(o) /\ IsFiniteSet(Creating(o)) /\ IsFiniteSet(TeamsOf(o))
      BY <1>1, Sizes DEF Creating, TeamsOf
    <3>3. /\ IsFiniteSet(TeamsOf(o) \cup {m}) /\ IsFiniteSet(Creating(o) \ {r})
          /\ TeamsOf(o) \cup {m} \in SUBSET TeamIds
          /\ Creating(o) \ {r} \in SUBSET Requests
      BY <2>1, Sizes DEF Creating, TeamsOf
    <3>4. Cardinality(TeamsOf(o)') + Cardinality(Creating(o)')
            <= Cardinality(TeamsOf(o) \cup {m}) + Cardinality(Creating(o) \ {r})
      BY <3>1, <3>3, SmallerSum
    <3>5. Cardinality(TeamsOf(o) \cup {m}) + Cardinality(Creating(o) \ {r})
            <= Cardinality(TeamsOf(o)) + Cardinality(Creating(o))
      BY <3>2, OneForOne
    <3>6. /\ Cardinality(TeamsOf(o)') \in Nat /\ Cardinality(Creating(o)') \in Nat
          /\ Cardinality(TeamsOf(o) \cup {m}) \in Nat
          /\ Cardinality(Creating(o) \ {r}) \in Nat
          /\ Cardinality(TeamsOf(o)) \in Nat /\ Cardinality(Creating(o)) \in Nat
          /\ Cardinality(Requests) \in Nat
      BY <3>3, Sizes DEF TeamsOf, Creating
    <3>7. TeamsBound(o)
      BY <1>1 DEF RaceInv
    <3> QED
      BY <3>4, <3>5, <3>6, <3>7 DEF TeamsBound
  <2>6. ASSUME NEW p \in Owners, p # o
        PROVE  TeamsBound(p)'
    <3>1. TeamsOf(p)' \subseteq TeamsOf(p) /\ Creating(p)' \subseteq Creating(p)
      BY <2>2, <2>4, <2>6 DEF TeamsOf, Creating, Inv, TypeOK
    <3> QED
      BY <3>1, TeamsShrink DEF RaceInv
  <2>7. ASSUME NEW t \in TeamIds, t # m
        PROVE  SeatsBound(t)'
    <3>1. members'[t] = members[t] /\ Inserting(t)' \subseteq Inserting(t)
      BY <2>2, <2>4, <2>7 DEF Inserting, Inv, TypeOK
    <3> QED
      BY <3>1, SeatsShrink DEF RaceInv
  <2>8. SeatsBound(m)'
    <3>1. Inserting(m)' \subseteq Requests \ {r}
      BY <2>3 DEF Inserting
    <3>2. members'[m] = {o} /\ Cardinality({o}) = 1
      BY <2>4, FS_Singleton DEF Inv, TypeOK
    <3>3. /\ Cardinality(Requests) \in Nat
          /\ Cardinality(Requests \ {r}) = Cardinality(Requests) - 1
          /\ IsFiniteSet(Requests \ {r})
      BY Sizes, CohortAssumption, FS_RemoveElement
    <3>4. /\ Cardinality(Inserting(m)') <= Cardinality(Requests \ {r})
          /\ Cardinality(Inserting(m)') \in Nat
      BY <3>1, <3>3, FS_Subset, FS_CardinalityType
    <3>5. Cardinality(members'[m]) + Cardinality(Inserting(m)') < Seats + Cardinality(Requests)
      BY <3>2, <3>3, <3>4, CohortAssumption
    <3> QED
      BY <3>5 DEF SeatsBound
  <2> QED
    BY <2>1, <2>5, <2>6, <2>7, <2>8 DEF RaceInv
<1>3. CASE o \notin users
  <2>1. \A s \in Requests : req'[s] = req[s] \/ req'[s].at \notin {"create", "insert"}
    BY <1>3 DEF CreateTeam, Return, Idle, Inv, TypeOK
  <2> QED
    BY <1>3, <2>1, RaceKept DEF CreateTeam, teams
<1> QED
  BY <1>2, <1>3

LEMMA CountSeatsRace ==
  ASSUME Inv, RaceInv, NEW r \in Requests, CountSeats(r)
  PROVE  RaceInv'
<1> PICK t \in TeamIds : t = req[r].team
  BY DEF Inv, ReadBefore, CountSeats, At
<1>1. UNCHANGED <<owner, members>>
  BY DEF CountSeats, teams
<1>2. CASE HasSeat(t) /\ owner[t] # None
  <2>1. req' = [req EXCEPT ![r].at = "insert"] /\ req[r] \in RequestType
    BY <1>2 DEF CountSeats, Goto, Inv, TypeOK
  <2>2. ASSUME NEW o \in Owners
        PROVE  TeamsBound(o)'
    <3>1. Creating(o)' \subseteq Creating(o) /\ TeamsOf(o)' = TeamsOf(o)
      BY <1>1, <2>1 DEF Creating, TeamsOf, Inv, TypeOK, RequestType
    <3> QED
      BY <3>1, TeamsShrink DEF RaceInv
  <2>3. ASSUME NEW q \in TeamIds, q # t
        PROVE  SeatsBound(q)'
    <3>1. Inserting(q)' \subseteq Inserting(q)
      BY <2>1, <2>3 DEF Inserting, Inv, TypeOK, RequestType
    <3> QED
      BY <1>1, <3>1, SeatsShrink DEF RaceInv
  <2>4. SeatsBound(t)'
    <3>1. /\ Cardinality(Inserting(t)') \in Nat /\ Cardinality(Requests) \in Nat
          /\ Cardinality(Inserting(t)') <= Cardinality(Requests)
      BY Sizes DEF Inserting
    <3>2. Cardinality(members[t]) \in Nat
      BY Sizes DEF Inv, TypeOK
    <3>3. Cardinality(members[t]) < Seats
      BY <1>2, <3>2, CohortAssumption DEF HasSeat
    <3> QED
      BY <1>1, <3>1, <3>2, <3>3, CohortAssumption DEF SeatsBound
  <2> QED
    BY <2>2, <2>3, <2>4 DEF RaceInv
<1>3. CASE ~(HasSeat(t) /\ owner[t] # None)
  <2>1. \A s \in Requests : req'[s] = req[s] \/ req'[s].at \notin {"create", "insert"}
    BY <1>3 DEF CountSeats, Return, Idle, Inv, TypeOK
  <2> QED
    BY <1>1, <2>1, RaceKept
<1> QED
  BY <1>2, <1>3

LEMMA InsertMemberRace ==
  ASSUME Inv, RaceInv, NEW r \in Requests, InsertMember(r)
  PROVE  RaceInv'
<1> PICK t \in TeamIds : t = req[r].team
  BY DEF Inv, ReadBefore, InsertMember, At
<1> PICK w \in Users : w = req[r].arg
  BY DEF Inv, ReadBefore, InsertMember, At
<1>1. /\ owner' = owner /\ members \in [TeamIds -> SUBSET Users]
      /\ \A q \in TeamIds : members'[q] \subseteq IF q = t THEN members[t] \cup {w} ELSE members[q]
  BY DEF InsertMember, Inv, TypeOK
<1>2. req' = [req EXCEPT ![r] = Idle] /\ req[r].at = "insert"
  BY DEF InsertMember, Return, At
<1>3. ASSUME NEW o \in Owners
      PROVE  TeamsBound(o)'
  <2>1. Creating(o)' \subseteq Creating(o) /\ TeamsOf(o)' = TeamsOf(o)
    BY <1>1, <1>2 DEF Creating, TeamsOf, Idle, Inv, TypeOK
  <2> QED
    BY <2>1, TeamsShrink DEF RaceInv
<1>4. ASSUME NEW q \in TeamIds, q # t
      PROVE  SeatsBound(q)'
  <2>1. Inserting(q)' \subseteq Inserting(q) /\ members'[q] \subseteq members[q]
    BY <1>1, <1>2, <1>4 DEF Inserting, Idle, Inv, TypeOK
  <2> QED
    BY <2>1, SeatsShrink DEF RaceInv
<1>5. SeatsBound(t)'
  <2>1. /\ Inserting(t)' \subseteq Inserting(t) \ {r} /\ r \in Inserting(t)
        /\ members'[t] \subseteq members[t] \cup {w}
    BY <1>1, <1>2 DEF Inserting, Idle, Inv, TypeOK
  <2>2. members[t] \in SUBSET Users /\ members[t] \cup {w} \in SUBSET Users
    BY <1>1
  <2>3. Inserting(t) \in SUBSET Requests /\ Inserting(t) \ {r} \in SUBSET Requests
    BY DEF Inserting
  <2>4. Cardinality(members'[t]) + Cardinality(Inserting(t)')
          <= Cardinality(members[t] \cup {w}) + Cardinality(Inserting(t) \ {r})
    BY <2>1, <2>2, <2>3, Sizes, SmallerSum
  <2>5. Cardinality(members[t] \cup {w}) + Cardinality(Inserting(t) \ {r})
          <= Cardinality(members[t]) + Cardinality(Inserting(t))
    BY <2>1, <2>2, <2>3, Sizes, OneForOne
  <2>6. members'[t] \in SUBSET Users /\ Inserting(t)' \in SUBSET Requests
    BY <2>1, <2>2, <2>3
  <2>7. /\ Cardinality(members[t]) \in Nat /\ Cardinality(Inserting(t)) \in Nat
        /\ Cardinality(members'[t]) \in Nat /\ Cardinality(Inserting(t)') \in Nat
        /\ Cardinality(members[t] \cup {w}) \in Nat /\ Cardinality(Inserting(t) \ {r}) \in Nat
        /\ Cardinality(Requests) \in Nat
    BY <2>2, <2>3, <2>6, Sizes
  <2>8. SeatsBound(t)
    BY DEF RaceInv
  <2> QED
    BY <2>4, <2>5, <2>7, <2>8, CohortAssumption DEF SeatsBound
<1> QED
  BY <1>3, <1>4, <1>5 DEF RaceInv

\* The other steps of a request.
LEMMA OtherRace ==
  ASSUME Inv, RaceInv, NEW r \in Requests,
         \/ FindInvitee(r) \/ RemoveMember(r) \/ Certificate(r) \/ Mark(r)
         \/ \E u \in Learners, p \in Phases : PhaseExists(r, u, p)
  PROVE  RaceInv'
<1>1. \A t \in TeamIds : owner'[t] \in {owner[t], None} /\ members'[t] \subseteq members[t]
  BY DEF FindInvitee, RemoveMember, Certificate, getByUserID, CheckEligible, IssueCertificate, Mark,
     PhaseExists, teams, Inv, TypeOK, ReadBefore, At
<1>2. CASE FindInvitee(r) \/ RemoveMember(r) \/ Mark(r) \/ CheckEligible(r)
           \/ \E code \in Codes : IssueCertificate(r, code)
  <2>1. \A s \in Requests : req'[s] = req[s] \/ req'[s].at \notin {"create", "insert"}
    BY <1>2 DEF FindInvitee, RemoveMember, Mark, CheckEligible, IssueCertificate, Goto, Return, Idle,
       Inv, TypeOK, RequestType
  <2> QED
    BY <1>1, <2>1, RaceKept
<1>3. ASSUME NEW u \in Learners, getByUserID(r, u)
      PROVE  RaceInv'
  <2>1. \A s \in Requests : req'[s] = req[s] \/ req'[s].at \notin {"create", "insert"}
    BY <1>3 DEF getByUserID, Idle, Inv, TypeOK
  <2> QED
    BY <1>1, <2>1, RaceKept
<1>4. ASSUME NEW u \in Learners, NEW p \in Phases, PhaseExists(r, u, p)
      PROVE  RaceInv'
  <2> DEFINE new == [Idle EXCEPT !.at = "mark", !.caller = u, !.arg = p]
  <2>1. new.at = "mark"
    BY DEF Idle
  <2>2. req' = [req EXCEPT ![r] = new]
    BY <1>4 DEF PhaseExists
  <2> HIDE DEF new
  <2>3. \A s \in Requests : req'[s] = req[s] \/ req'[s].at \notin {"create", "insert"}
    BY <2>1, <2>2 DEF Inv, TypeOK
  <2> QED
    BY <1>1, <2>3, RaceKept
<1> QED
  BY <1>2, <1>3, <1>4 DEF Certificate

LEMMA RaceInvInit == Init => RaceInv
<1> SUFFICES ASSUME Init PROVE RaceInv
  OBVIOUS
<1>1. \A o \in Owners : TeamsOf(o) = {} /\ Creating(o) = {}
  BY CohortAssumption DEF Init, TeamsOf, Creating, Idle
<1>2. \A t \in TeamIds : members[t] = {} /\ Inserting(t) = {}
  BY DEF Init, Inserting, Idle
<1>3. Cardinality({}) = 0 /\ Cardinality(Requests) \in Nat
  BY FS_EmptySet, FS_CardinalityType, CohortAssumption
<1>4. \A o \in Owners : TeamsBound(o)
  BY <1>1, <1>3 DEF TeamsBound
<1>5. \A t \in TeamIds : SeatsBound(t)
  <2>1. 0 + 0 < Seats + Cardinality(Requests)
    BY <1>3, CohortAssumption
  <2> QED
    BY <1>2, <1>3, <2>1 DEF SeatsBound
<1> QED
  BY <1>4, <1>5 DEF RaceInv

LEMMA RaceInvNext ==
  ASSUME Inv, RaceInv, [Next]_vars
  PROVE  RaceInv'
<1>1. CASE UNCHANGED vars
  BY <1>1, RaceKept DEF vars, teams
<1>2. CASE \E r \in Requests : Team(r)
  BY <1>2, GetTeamRace, CreateTeamRace, CountSeatsRace, InsertMemberRace, OtherRace DEF Team
<1>3. CASE \E r \in Requests : Certificate(r)
  BY <1>3, OtherRace
<1>4. CASE Progress
  <2>1. ASSUME NEW u \in Learners, NEW p \in Phases, maybeMarkProgress(u, p) \/ Unmark(u, p)
        PROVE  RaceInv'
    BY <2>1, RaceKept DEF maybeMarkProgress, Unmark, teams
  <2> QED
    BY <1>4, <2>1, OtherRace DEF Progress
<1>5. ASSUME NEW u \in Users, Delete(u)
      PROVE  RaceInv'
  <2>1. \A t \in TeamIds : owner'[t] \in {owner[t], None} /\ members'[t] \subseteq members[t]
    BY <1>5 DEF Delete
  <2> QED
    BY <1>5, <2>1, RaceKept DEF Delete
<1>6. CASE Migrate
  BY <1>6, RaceKept DEF Migrate, teams
<1> QED
  BY <1>1, <1>2, <1>3, <1>4, <1>5, <1>6 DEF Next, Step

(***************************************************************************)
(* However many requests race, an owner has no more teams and a team no    *)
(* more members above its seats than there are of them.                    *)
(***************************************************************************)
THEOREM RacesAreBounded == Spec => []OverrunIsBounded
<1>1. Inv /\ RaceInv => OverrunIsBounded
  <2> SUFFICES ASSUME Inv, RaceInv PROVE OverrunIsBounded
    OBVIOUS
  <2>1. ASSUME NEW o \in Owners
        PROVE  Cardinality(TeamsOf(o)) <= Cardinality(Requests)
    <3>1. TeamsBound(o) /\ Cardinality(TeamsOf(o)) \in Nat /\ Cardinality(Creating(o)) \in Nat
          /\ Cardinality(Requests) \in Nat
      BY Sizes DEF RaceInv, TeamsOf, Creating
    <3> QED
      BY <3>1 DEF TeamsBound
  <2>2. ASSUME NEW t \in TeamIds
        PROVE  Cardinality(members[t]) < Seats + Cardinality(Requests)
    <3>1. members[t] \in SUBSET Users
      BY DEF Inv, TypeOK
    <3>2. SeatsBound(t) /\ Cardinality(members[t]) \in Nat /\ Cardinality(Inserting(t)) \in Nat
          /\ Cardinality(Requests) \in Nat
      BY <3>1, Sizes DEF RaceInv, Inserting
    <3> QED
      BY <3>2, CohortAssumption DEF SeatsBound
  <2> QED
    BY <2>1, <2>2 DEF OverrunIsBounded
<1> QED
  BY <1>1, InvHolds, RaceInvInit, RaceInvNext, PTL DEF Spec

=============================================================================
