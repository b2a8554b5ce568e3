-------------------------- MODULE LabSessionProofs --------------------------
(***************************************************************************)
(* Machine-checked safety of LabSession, for every number of sessions,     *)
(* users and requests, every cap, timeout and attempt limit, and every     *)
(* combination of faults.                                                  *)
(***************************************************************************)
EXTENDS LabSession, FiniteSetTheorems, TLAPS

\* The saturated clock and the saturated attempt counters stay in their range.
LEMMA MaxAgeType == MaxAge \in Nat /\ MaxAge >= 0
BY ConstantsAssumption DEF MaxAge

LEMMA SaturatedFunction ==
    ASSUME NEW S, NEW b \in Nat, NEW f \in [S -> 0..b]
    PROVE  /\ \A s \in S : AtMost(f[s] + 1, b) \in 0..b
           /\ \A x : [f EXCEPT ![x] = AtMost(@ + 1, b)] \in [S -> 0..b]
           /\ \A x : [f EXCEPT ![x] = 0] \in [S -> 0..b]
<1>1. \A n \in Nat : AtMost(n, b) \in 0..b
  BY DEF AtMost
<1>2. \A s \in S : AtMost(f[s] + 1, b) \in 0..b
  BY <1>1
<1>3. 0 \in 0..b
  OBVIOUS
<1> QED
  BY <1>2, <1>3

\* Type correctness: no handler, goroutine or fault leaves the declared types.
THEOREM TypeCorrect == Spec => []TypeOK
<1> USE ConstantsAssumption, MaxAgeType DEF Statuses
<1>1. Init => TypeOK
  BY DEF Init, TypeOK
<1>2. TypeOK /\ [Next]_vars => TypeOK'
  <2> SUFFICES ASSUME TypeOK, [Next]_vars PROVE TypeOK'
    OBVIOUS
  <2>a. \A s \in Sessions : AtMost(age[s] + 1, MaxAge) \in 0..MaxAge
    <3>1. age \in [Sessions -> 0..MaxAge]
      BY DEF TypeOK
    <3> QED
      BY <3>1, SaturatedFunction
  <2>b. \A x : /\ [stopAttempts EXCEPT ![x] = AtMost(@ + 1, MaxStopAttempts)]
                    \in [Sessions -> 0..MaxStopAttempts]
               /\ [stopAttempts EXCEPT ![x] = 0] \in [Sessions -> 0..MaxStopAttempts]
    <3>1. stopAttempts \in [Sessions -> 0..MaxStopAttempts]
      BY DEF TypeOK
    <3> QED
      BY <3>1, SaturatedFunction
  <2>c. \A x : /\ [teardownAttempts EXCEPT ![x] = AtMost(@ + 1, MaxTeardownAttempts)]
                    \in [Sessions -> 0..MaxTeardownAttempts]
               /\ [teardownAttempts EXCEPT ![x] = 0] \in [Sessions -> 0..MaxTeardownAttempts]
    <3>1. teardownAttempts \in [Sessions -> 0..MaxTeardownAttempts]
      BY DEF TypeOK
    <3> QED
      BY <3>1, SaturatedFunction
  <2> USE DEF TypeOK, rowVars, gns3Vars, reqVars, reaperVars
  <2>1. ASSUME NEW r \in Requests, RequestStep(r) PROVE TypeOK'
    <3>1. CASE LaunchStartNodes(r)
      BY <3>1 DEF LaunchStartNodes, StartNodes, StartNodesFails, NoReply, Becomes, Goto, Done
    <3>2. CASE LaunchSetRunning(r)
      BY <3>2 DEF LaunchSetRunning, SetStatus, SetStatusFails, Goto, Done
    <3>3. CASE LaunchTouch(r)
      BY <3>3 DEF LaunchTouch, Touch, TouchFails, Done
    <3>4. CASE LaunchCount(r)
      BY <3>4 DEF LaunchCount, Goto, Done
    <3>5. CASE LaunchCreate(r)
      BY <3>5 DEF LaunchCreate, Done
    <3>6. CASE EndLabDelete(r)
      BY <3>6 DEF EndLabDelete, DeleteProject, DeleteProjectFails, NoReply, Becomes, Goto, Done
    <3>7. CASE EndLabEnd(r)
      BY <3>7 DEF EndLabEnd, SetStatus, SetStatusFails, Done
    <3>8. CASE ConsoleEnsureRunning(r)
      BY <3>8 DEF ConsoleEnsureRunning, StartNodes, StartNodesFails, NoReply, Becomes, Goto
    <3> QED
      BY <2>1, <3>1, <3>2, <3>3, <3>4, <3>5, <3>6, <3>7, <3>8 DEF RequestStep
  <2>2. ASSUME NEW r \in Requests, ClientStep(r) PROVE TypeOK'
    <3>1. ASSUME NEW k \in Keys, LaunchFind(r, k) PROVE TypeOK'
      BY <3>1 DEF LaunchFind, Goto
    <3>2. ASSUME NEW s \in Sessions, EndLabGet(r, s) PROVE TypeOK'
      BY <3>2 DEF EndLabGet, Goto
    <3>3. ASSUME NEW s \in Sessions, Heartbeat(r, s) PROVE TypeOK'
      BY <3>3 DEF Heartbeat, Touch, TouchFails, Done
    <3>4. ASSUME NEW s \in Sessions, ConsoleOpen(r, s) PROVE TypeOK'
      BY <3>4 DEF ConsoleOpen, Goto
    <3>5. CASE ConsoleTouch(r)
      BY <3>5 DEF ConsoleTouch, Touch, TouchFails
    <3>6. CASE ConsoleClose(r)
      BY <3>6 DEF ConsoleClose, Done
    <3> QED
      BY <2>2, <3>1, <3>2, <3>3, <3>4, <3>5, <3>6 DEF ClientStep
  <2>3. ASSUME NEW s \in Sessions, ProvisionStep(s) PROVE TypeOK'
    <3>1. CASE ProvisionCreate(s)
      BY <3>1 DEF ProvisionCreate, ProvTo
    <3>2. CASE ProvisionStart(s)
      BY <3>2 DEF ProvisionStart, StartNodes, Becomes, ProvTo
    <3>3. CASE ProvisionCommit(s)
      <4>1. status' \in {status, [status EXCEPT ![s] = "running"]}
        BY <3>3 DEF ProvisionCommit, SetStatusFails
      <4>2. linked' \in {linked, [linked EXCEPT ![s] = TRUE]}
        BY <3>3 DEF ProvisionCommit, SetStatusFails
      <4>3. age' \in {age, [age EXCEPT ![s] = 0]}
        BY <3>3 DEF ProvisionCommit, SetStatusFails
      <4>4. UNCHANGED <<owner, erased>>
        BY <3>3 DEF ProvisionCommit, SetStatusFails
      <4>5. status' \in [Sessions -> Statuses \cup {"absent", "deleted"}]
        BY <4>1
      <4>6. linked' \in [Sessions -> BOOLEAN]
        BY <4>2
      <4>7. age' \in [Sessions -> 0..MaxAge]
        <5>1. age \in [Sessions -> 0..MaxAge]
          BY DEF TypeOK
        <5> QED
          BY <4>3, <5>1, SaturatedFunction
      <4> QED
        BY <3>3, <4>4, <4>5, <4>6, <4>7 DEF ProvisionCommit, ProvTo
    <3>4. CASE ProvisionFail(s)
      BY <3>4 DEF ProvisionFail, SetStatus, SetStatusFails, ProvTo
    <3> QED
      BY <2>3, <3>1, <3>2, <3>3, <3>4 DEF ProvisionStep
  <2>4. CASE ReaperStep
    <3> USE DEF ReaperGoto, ReaperNext
    <3>1. CASE ReaperSweep
      BY <3>1 DEF ReaperSweep, StaleRunning
    <3>2. CASE ReaperSecondTier
      BY <3>2 DEF ReaperSecondTier, StaleIdle
    <3>3. CASE ReaperSleep
      BY <3>3 DEF ReaperSleep
    <3>4. ASSUME NEW s \in Sessions, ReaperTake(s) PROVE TypeOK'
      BY <3>4 DEF ReaperTake
    <3>5. CASE ReaperStop
      BY <2>b, <3>5 DEF ReaperStop, StopNodes, StopNodesFails, NoReply, Becomes
    <3>6. CASE ReaperMarkIdle
      <4>1. status' \in [Sessions -> Statuses \cup {"absent", "deleted"}] /\ UNCHANGED <<owner, erased, linked, age>>
        BY <3>6 DEF ReaperMarkIdle, SetStatus, SetStatusFails
      <4>2. stopAttempts' \in [Sessions -> 0..MaxStopAttempts]
        BY <2>b, <3>6 DEF ReaperMarkIdle
      <4> QED
        BY <3>6, <4>1, <4>2 DEF ReaperMarkIdle
    <3>7. ASSUME TeardownNotConfirmed
          PROVE  /\ teardownAttempts' \in [Sessions -> 0..MaxTeardownAttempts]
                 /\ rpc' \in {"force", "loop"} /\ UNCHANGED <<tier, todo>>
                 /\ cur' \in {cur, NoSession}
      BY <2>c, <3>7 DEF TeardownNotConfirmed
    <3>8. CASE ReaperConfirmStopped
      BY <3>7, <3>8 DEF ReaperConfirmStopped, TeardownGoesOn
    <3>9. CASE ReaperDelete
      BY <3>7, <3>9 DEF ReaperDelete, TeardownGoesOn, DeleteProject,
                        DeleteProjectFails, NoReply, Becomes
    <3>10. CASE ReaperConfirmGone
      BY <3>7, <3>10 DEF ReaperConfirmGone, TeardownGoesOn
    <3>11. CASE ReaperForce
      BY <3>11 DEF ReaperForce, DeleteProject, DeleteProjectFails, NoReply, Becomes
    <3>12. CASE ReaperEnd
      <4>1. status' \in [Sessions -> Statuses \cup {"absent", "deleted"}] /\ UNCHANGED <<owner, erased, linked, age>>
        BY <3>12 DEF ReaperEnd, SetStatus, SetStatusFails
      <4>2. stopAttempts' \in [Sessions -> 0..MaxStopAttempts]
        BY <2>b, <3>12 DEF ReaperEnd
      <4>3. teardownAttempts' \in [Sessions -> 0..MaxTeardownAttempts]
        BY <2>c, <3>12 DEF ReaperEnd
      <4> QED
        BY <3>12, <4>1, <4>2, <4>3 DEF ReaperEnd
    <3> QED
      BY <2>4, <3>1, <3>2, <3>3, <3>4, <3>5, <3>6, <3>8, <3>9, <3>10, <3>11, <3>12
         DEF ReaperStep
  <2>5. CASE Environment
    <3>1. CASE Tick
      BY <2>a, <3>1 DEF Tick
    <3>2. CASE GNS3Fails
      BY <3>2 DEF GNS3Fails
    <3>3. CASE GNS3Recovers
      BY <3>3 DEF GNS3Recovers
    <3>4. CASE Crash
      BY <3>4 DEF Crash
    <3> QED
      BY <2>5, <3>1, <3>2, <3>3, <3>4 DEF Environment
  <2>6. ASSUME NEW u \in Accounts, DeleteMe(u) PROVE TypeOK'
    BY <2>6 DEF DeleteMe
  <2>7. CASE UNCHANGED vars
    BY <2>7 DEF vars
  <2> QED
    BY <2>1, <2>2, <2>3, <2>4, <2>5, <2>6, <2>7 DEF Next
<1> QED
  BY <1>1, <1>2, PTL DEF Spec

-----------------------------------------------------------------------------
(***************************************************************************)
(* The link between rows, projects and what actors have read.              *)
(***************************************************************************)

\* A row id is not used twice, a row never forgets its project, and a project
\* that was deleted is not created a second time.
Monotone ==
    \A s \in Sessions :
        /\ linked[s] => linked'[s]
        /\ status[s] # "absent" => status'[s] # "absent"
        /\ project[s] = "gone" => project'[s] = "gone"

LEMMA StepMonotone ==
    ASSUME TypeOK, LinkInv, [Next]_vars PROVE Monotone
<1> USE DEF TypeOK, LinkInv, RowsLinked, RequestsLinked, ReaperLinked, Monotone, Statuses,
            rowVars, gns3Vars, reqVars, reaperVars
<1>1. ASSUME NEW r \in Requests, RequestStep(r) PROVE Monotone
  <2>1. CASE LaunchCreate(r)
    BY <2>1 DEF LaunchCreate
  <2>2. CASE LaunchSetRunning(r) \/ EndLabEnd(r)
    BY <2>2 DEF LaunchSetRunning, EndLabEnd, SetStatus, SetStatusFails
  <2>3. CASE LaunchStartNodes(r) \/ ConsoleEnsureRunning(r)
    BY <2>3 DEF LaunchStartNodes, ConsoleEnsureRunning, StartNodes, StartNodesFails,
                NoReply, Becomes, Live
  <2>4. CASE EndLabDelete(r)
    BY <2>4 DEF EndLabDelete, DeleteProject, DeleteProjectFails, NoReply, Becomes, Live
  <2>5. CASE LaunchTouch(r) \/ LaunchCount(r)
    BY <2>5 DEF LaunchTouch, LaunchCount, Touch, TouchFails
  <2> QED
    BY <1>1, <2>1, <2>2, <2>3, <2>4, <2>5 DEF RequestStep
<1>2. ASSUME NEW r \in Requests, ClientStep(r) PROVE Monotone
  <2>1. UNCHANGED <<status, linked, project>>
    BY <1>2 DEF ClientStep, LaunchFind, EndLabGet, Heartbeat, ConsoleOpen, ConsoleTouch,
                ConsoleClose, Touch, TouchFails
  <2> QED
    BY <2>1
<1>3. ASSUME NEW s \in Sessions, ProvisionStep(s) PROVE Monotone
  <2>1. CASE ProvisionCreate(s)
    BY <2>1 DEF ProvisionCreate
  <2>2. CASE ProvisionStart(s)
    BY <2>2 DEF ProvisionStart, StartNodes, Becomes, Live
  <2>3. CASE ProvisionCommit(s)
    BY <2>3 DEF ProvisionCommit, SetStatusFails
  <2>4. CASE ProvisionFail(s)
    BY <2>4 DEF ProvisionFail, SetStatus, SetStatusFails
  <2> QED
    BY <1>3, <2>1, <2>2, <2>3, <2>4 DEF ProvisionStep
<1>4. CASE ReaperStep
  <2>1. CASE ReaperStop
    BY <2>1 DEF ReaperStop, StopNodes, StopNodesFails, NoReply, Becomes, Live
  <2>2. CASE ReaperDelete \/ ReaperForce
    BY <2>2 DEF ReaperDelete, ReaperForce, DeleteProject, DeleteProjectFails, NoReply,
                Becomes, Live
  <2>3. CASE ReaperMarkIdle \/ ReaperEnd
    BY <2>3 DEF ReaperMarkIdle, ReaperEnd, SetStatus, SetStatusFails
  <2>4. CASE \/ ReaperSweep \/ ReaperSecondTier \/ ReaperSleep
             \/ \E s \in Sessions : ReaperTake(s)
             \/ ReaperConfirmStopped \/ ReaperConfirmGone
    <3>1. UNCHANGED <<status, linked, project>>
      BY <2>4 DEF ReaperSweep, ReaperSecondTier, ReaperSleep, ReaperTake,
                  ReaperConfirmStopped, ReaperConfirmGone
    <3> QED
      BY <3>1
  <2> QED
    BY <1>4, <2>1, <2>2, <2>3, <2>4 DEF ReaperStep
<1>5. CASE Environment \/ UNCHANGED vars
  <2>1. UNCHANGED <<status, linked, project>>
    BY <1>5 DEF Environment, Tick, GNS3Fails, GNS3Recovers, Crash, vars
  <2> QED
    BY <2>1
<1>6. ASSUME NEW u \in Accounts, DeleteMe(u) PROVE Monotone
  BY <1>6 DEF DeleteMe
<1> QED
  BY <1>1, <1>2, <1>3, <1>4, <1>5, <1>6 DEF Next

\* Each writer of the status column leaves the rows linked: it writes a row it
\* read as linked, the row it provisions, or a row that is not yet linked; a
\* row that goes claims nothing of its project.
LEMMA StepRowsLinked ==
    ASSUME TypeOK, LinkInv, [Next]_vars PROVE RowsLinked'
<1> USE DEF TypeOK, LinkInv, RowsLinked, Statuses, Live, rowVars, gns3Vars, reqVars, reaperVars
<1>1. ASSUME NEW r \in Requests, RequestStep(r) PROVE RowsLinked'
  <2> USE DEF RequestsLinked
  <2>1. CASE LaunchCreate(r)
    BY <2>1 DEF LaunchCreate
  <2>2. CASE LaunchSetRunning(r)
    BY <2>2 DEF LaunchSetRunning, SetStatus, SetStatusFails
  <2>3. CASE EndLabEnd(r)
    BY <2>3 DEF EndLabEnd, SetStatus, SetStatusFails
  <2>4. CASE LaunchStartNodes(r) \/ ConsoleEnsureRunning(r)
    <3>1. UNCHANGED <<status, linked, prov>>
      BY <2>4 DEF LaunchStartNodes, ConsoleEnsureRunning
    <3>2. target[r] \in Sessions
              /\ (UNCHANGED project \/ (Live(target[r]) /\ Becomes(target[r], "started")))
      BY <2>4 DEF LaunchStartNodes, ConsoleEnsureRunning, StartNodes, StartNodesFails,
                  NoReply, Becomes
    <3> QED
      BY <3>1, <3>2 DEF Becomes
  <2>5. CASE EndLabDelete(r)
    <3>1. UNCHANGED <<status, linked, prov>> /\ target[r] \in Sessions /\ linked[target[r]]
      BY <2>5 DEF EndLabDelete
    <3>2. UNCHANGED project \/ Becomes(target[r], "gone")
      BY <2>5 DEF EndLabDelete, DeleteProject, DeleteProjectFails, NoReply
    <3> QED
      BY <3>1, <3>2 DEF Becomes
  <2>6. CASE LaunchTouch(r) \/ LaunchCount(r)
    BY <2>6 DEF LaunchTouch, LaunchCount, Touch, TouchFails
  <2> QED
    BY <1>1, <2>1, <2>2, <2>3, <2>4, <2>5, <2>6 DEF RequestStep
<1>2. ASSUME NEW r \in Requests, ClientStep(r) PROVE RowsLinked'
  <2>1. UNCHANGED <<status, linked, project, prov>>
    BY <1>2 DEF ClientStep, LaunchFind, EndLabGet, Heartbeat, ConsoleOpen, ConsoleTouch,
                ConsoleClose, Touch, TouchFails
  <2> QED
    BY <2>1
<1>3. ASSUME NEW s \in Sessions, ProvisionStep(s) PROVE RowsLinked'
  <2>1. CASE ProvisionCreate(s)
    BY <2>1 DEF ProvisionCreate, ProvTo
  <2>2. CASE ProvisionStart(s)
    BY <2>2 DEF ProvisionStart, StartNodes, Becomes, ProvTo
  <2>3. CASE ProvisionCommit(s)
    BY <2>3 DEF ProvisionCommit, SetStatusFails, ProvTo
  <2>4. CASE ProvisionFail(s)
    BY <2>4 DEF ProvisionFail, SetStatus, SetStatusFails, ProvTo
  <2> QED
    BY <1>3, <2>1, <2>2, <2>3, <2>4 DEF ProvisionStep
<1>4. CASE ReaperStep
  <2> USE DEF ReaperLinked
  <2>1. CASE ReaperStop \/ ReaperDelete \/ ReaperForce
    <3>1. UNCHANGED <<status, linked, prov>> /\ cur \in Sessions /\ linked[cur]
      BY <2>1 DEF ReaperStop, ReaperDelete, ReaperForce
    <3>2. \E st \in {"stopped", "gone"} : UNCHANGED project \/ Becomes(cur, st)
      BY <2>1 DEF ReaperStop, ReaperDelete, ReaperForce, StopNodes, StopNodesFails,
                  DeleteProject, DeleteProjectFails, NoReply
    <3> QED
      BY <3>1, <3>2 DEF Becomes
  <2>2. CASE ReaperMarkIdle
    BY <2>2 DEF ReaperMarkIdle, SetStatus, SetStatusFails
  <2>3. CASE ReaperEnd
    BY <2>3 DEF ReaperEnd, SetStatus, SetStatusFails
  <2>4. CASE \/ ReaperSweep \/ ReaperSecondTier \/ ReaperSleep
             \/ \E s \in Sessions : ReaperTake(s)
             \/ ReaperConfirmStopped \/ ReaperConfirmGone
    <3>1. UNCHANGED <<status, linked, project, prov>>
      BY <2>4 DEF ReaperSweep, ReaperSecondTier, ReaperSleep, ReaperTake,
                  ReaperConfirmStopped, ReaperConfirmGone
    <3> QED
      BY <3>1
  <2> QED
    BY <1>4, <2>1, <2>2, <2>3, <2>4 DEF ReaperStep
<1>5. CASE Crash
  BY <1>5 DEF Crash
<1>6. CASE Tick \/ GNS3Fails \/ GNS3Recovers \/ UNCHANGED vars
  <2>1. UNCHANGED <<status, linked, project, prov>>
    BY <1>6 DEF Tick, GNS3Fails, GNS3Recovers, vars
  <2> QED
    BY <2>1
<1>7. ASSUME NEW u \in Accounts, DeleteMe(u) PROVE RowsLinked'
  BY <1>7 DEF DeleteMe
<1> QED
  BY <1>1, <1>2, <1>3, <1>4, <1>5, <1>6, <1>7 DEF Next, Environment

\* A request past its first read holds a row that was recorded: nothing it
\* relies on can be taken away by the other actors.
LEMMA StepRequestsLinked ==
    ASSUME TypeOK, LinkInv, [Next]_vars PROVE RequestsLinked'
<1> USE StepMonotone DEF TypeOK, LinkInv, RequestsLinked, Monotone, Statuses,
                         rowVars, gns3Vars, reqVars, reaperVars
<1>1. ASSUME UNCHANGED reqVars PROVE RequestsLinked'
  BY <1>1
<1>2. ASSUME NEW r \in Requests, RequestStep(r) PROVE RequestsLinked'
  <2>1. UNCHANGED target
    BY <1>2 DEF RequestStep, LaunchStartNodes, LaunchSetRunning, LaunchTouch, LaunchCount,
                LaunchCreate, EndLabDelete, EndLabEnd, ConsoleEnsureRunning
  <2>2. /\ \A q \in Requests \ {r} : pc'[q] = pc[q]
        /\ \/ pc'[r] \in {"done", "create"}
           \/ pc[r] = "start_nodes" /\ pc'[r] = "set_running"
           \/ pc[r] = "set_running" /\ pc'[r] = "touch"
           \/ pc[r] = "delete_project" /\ pc'[r] = "end_row"
           \/ pc[r] = "ensure_running" /\ pc'[r] = "bridge"
    BY <1>2 DEF RequestStep, LaunchStartNodes, LaunchSetRunning, LaunchTouch, LaunchCount,
                LaunchCreate, EndLabDelete, EndLabEnd, ConsoleEnsureRunning, Goto, Done
  <2> QED
    BY <2>1, <2>2 DEF RowsLinked
<1>3. ASSUME NEW r \in Requests, ClientStep(r) PROVE RequestsLinked'
  <2> USE DEF Goto, Done
  <2>1. ASSUME NEW k \in Keys, LaunchFind(r, k) PROVE RequestsLinked'
    BY <2>1 DEF LaunchFind, Active, ActiveStatuses, RowsLinked
  <2>2. ASSUME NEW s \in Sessions, EndLabGet(r, s) PROVE RequestsLinked'
    BY <2>2 DEF EndLabGet, Exists
  <2>3. ASSUME NEW s \in Sessions, ConsoleOpen(r, s) PROVE RequestsLinked'
    BY <2>3 DEF ConsoleOpen, RowsLinked
  <2>4. CASE (\E s \in Sessions : Heartbeat(r, s)) \/ ConsoleTouch(r) \/ ConsoleClose(r)
    <3>1. /\ UNCHANGED target
          /\ \A q \in Requests : pc'[q] \in {pc[q], "done"}
      BY <2>4 DEF Heartbeat, ConsoleTouch, ConsoleClose
    <3> QED
      BY <3>1
  <2> QED
    BY <1>3, <2>1, <2>2, <2>3, <2>4 DEF ClientStep
<1>4. ASSUME NEW s \in Sessions, ProvisionStep(s) PROVE RequestsLinked'
  BY <1>1, <1>4 DEF ProvisionStep, ProvisionCreate, ProvisionStart, ProvisionCommit, ProvisionFail
<1>5. CASE ReaperStep
  BY <1>1, <1>5 DEF ReaperStep, ReaperSweep, ReaperSecondTier, ReaperSleep, ReaperTake,
                    ReaperStop, ReaperMarkIdle, ReaperConfirmStopped, ReaperDelete,
                    ReaperConfirmGone, ReaperForce, ReaperEnd
<1>6. CASE Crash
  <2>1. UNCHANGED target /\ \A q \in Requests : pc'[q] \in {"ready", "done"}
    BY <1>6 DEF Crash
  <2> QED
    BY <2>1
<1>7. CASE Tick \/ GNS3Fails \/ GNS3Recovers \/ UNCHANGED vars
  BY <1>1, <1>7 DEF Tick, GNS3Fails, GNS3Recovers, vars
<1>8. ASSUME NEW u \in Accounts, DeleteMe(u) PROVE RequestsLinked'
  BY <1>1, <1>8 DEF DeleteMe
<1> QED
  BY <1>2, <1>3, <1>4, <1>5, <1>6, <1>7, <1>8 DEF Next, Environment

\* What the reaper's queries returned stays linked while it works through it.
LEMMA StepReaperLinked ==
    ASSUME TypeOK, LinkInv, [Next]_vars PROVE ReaperLinked'
<1> USE StepMonotone DEF TypeOK, LinkInv, ReaperLinked, Monotone, Statuses,
                         rowVars, gns3Vars, reqVars, reaperVars
<1>1. ASSUME UNCHANGED <<rpc, todo, cur>> PROVE ReaperLinked'
  BY <1>1
<1>2. CASE ReaperStep
  <2> USE DEF ReaperGoto, ReaperNext
  <2>1. CASE ReaperSweep
    BY <2>1 DEF ReaperSweep, StaleRunning, RowsLinked
  <2>2. CASE ReaperSecondTier
    BY <2>2 DEF ReaperSecondTier, StaleIdle, RowsLinked
  <2>3. CASE ReaperSleep
    BY <2>3 DEF ReaperSleep
  <2>4. ASSUME NEW s \in Sessions, ReaperTake(s) PROVE ReaperLinked'
    BY <2>4 DEF ReaperTake
  <2>5. CASE ReaperStop
    <3>1. UNCHANGED todo /\ (rpc' = "loop" \/ (UNCHANGED cur /\ rpc' \in {"mark_idle", "force"}))
      BY <2>5 DEF ReaperStop
    <3> QED
      BY <2>5, <3>1 DEF ReaperStop
  <2>6. CASE ReaperMarkIdle \/ ReaperEnd
    BY <2>6 DEF ReaperMarkIdle, ReaperEnd
  <2>7. CASE ReaperConfirmStopped \/ ReaperDelete
    <3>1. /\ UNCHANGED todo /\ rpc \notin {"sleep", "loop"}
          /\ \/ rpc' = "loop"
             \/ UNCHANGED cur /\ rpc' \in {"delete", "confirm_gone", "force"}
      BY <2>7 DEF ReaperConfirmStopped, ReaperDelete, TeardownGoesOn, TeardownNotConfirmed
    <3> QED
      BY <3>1
  <2>8. CASE ReaperConfirmGone
    <3>1. /\ UNCHANGED <<todo, project>> /\ rpc = "confirm_gone"
          /\ \/ rpc' \in {"loop"}
             \/ UNCHANGED cur /\ rpc' = "force"
             \/ UNCHANGED cur /\ rpc' = "end" /\ ~ Live(cur)
      BY <2>8 DEF ReaperConfirmGone, TeardownGoesOn, TeardownNotConfirmed, ProjectGone
    <3> QED
      BY <3>1 DEF Live, RowsLinked
  <2>9. CASE ReaperForce
    <3>1. /\ UNCHANGED todo /\ rpc = "force"
          /\ \/ rpc' = "loop"
             \/ UNCHANGED cur /\ rpc' = "end" /\ Becomes(cur, "gone")
      BY <2>9 DEF ReaperForce, DeleteProject
    <3> QED
      BY <3>1 DEF Becomes, Live, RowsLinked
  <2> QED
    BY <1>2, <2>1, <2>2, <2>3, <2>4, <2>5, <2>6, <2>7, <2>8, <2>9 DEF ReaperStep
<1>3. ASSUME NEW r \in Requests, RequestStep(r) \/ ClientStep(r) PROVE ReaperLinked'
  BY <1>1, <1>3 DEF RequestStep, LaunchStartNodes, LaunchSetRunning, LaunchTouch, LaunchCount,
                    LaunchCreate, EndLabDelete, EndLabEnd, ConsoleEnsureRunning, ClientStep,
                    LaunchFind, EndLabGet, Heartbeat, ConsoleOpen, ConsoleTouch, ConsoleClose
<1>4. ASSUME NEW s \in Sessions, ProvisionStep(s) PROVE ReaperLinked'
  BY <1>1, <1>4 DEF ProvisionStep, ProvisionCreate, ProvisionStart, ProvisionCommit, ProvisionFail
<1>5. CASE Crash
  BY <1>5 DEF Crash
<1>6. CASE Tick \/ GNS3Fails \/ GNS3Recovers \/ UNCHANGED vars
  BY <1>1, <1>6 DEF Tick, GNS3Fails, GNS3Recovers, vars
<1>7. ASSUME NEW u \in Accounts, DeleteMe(u) PROVE ReaperLinked'
  BY <1>1, <1>7 DEF DeleteMe
<1> QED
  BY <1>2, <1>3, <1>4, <1>5, <1>6, <1>7 DEF Next, Environment

\* LinkInv is inductive relative to TypeOK.
THEOREM Linked == Spec => []LinkInv
<1>1. Init => LinkInv
  BY ConstantsAssumption DEF Init, LinkInv, RowsLinked, RequestsLinked, ReaperLinked
<1>2. TypeOK /\ LinkInv /\ [Next]_vars => LinkInv'
  BY StepRowsLinked, StepRequestsLinked, StepReaperLinked DEF LinkInv
<1> QED
  BY <1>1, <1>2, TypeCorrect, PTL DEF Spec

-----------------------------------------------------------------------------
(***************************************************************************)
(* What follows for the users of the rows.                                 *)
(***************************************************************************)

\* Launch and the reaper never meet an active row without a project id
\* (service.go dereferences *existing.GNS3ProjectID unchecked).
THEOREM NilFree == Spec => []NoNilProject
<1>1. LinkInv => NoNilProject
  BY DEF LinkInv, RowsLinked, RequestsLinked, ReaperLinked, NoNilProject
<1> QED
  BY <1>1, Linked, PTL

\* The invariant reaper.go announces: a step of the reaper frees a slot only
\* when the project is gone from GNS3.
THEOREM ReaperIsHonest == Spec => HonestReaper
<1>1. ASSUME TypeOK, LinkInv, [Next]_vars, NEW s \in Sessions,
             ReaperStep, Active(s), ~ Active(s)'
      PROVE  project[s] = "gone"
  <2> USE DEF Active, ActiveStatuses, TypeOK, Statuses
  <2>1. CASE ReaperMarkIdle
    BY <1>1, <2>1 DEF ReaperMarkIdle, SetStatus, SetStatusFails, rowVars
  <2>2. CASE ReaperEnd
    <3>1. rpc = "end" /\ status' \in {status, [status EXCEPT ![cur] = "ended"]}
      BY <2>2 DEF ReaperEnd, SetStatus, SetStatusFails, rowVars
    <3>2. cur = s
      BY <1>1, <3>1
    <3> QED
      BY <3>1, <3>2, <1>1 DEF LinkInv, ReaperLinked
  <2>3. CASE ~ ReaperMarkIdle /\ ~ ReaperEnd
    <3>1. UNCHANGED status
      BY <1>1, <2>3 DEF ReaperStep, ReaperSweep, ReaperSecondTier, ReaperSleep, ReaperTake,
                        ReaperStop, ReaperConfirmStopped, ReaperDelete, ReaperConfirmGone,
                        ReaperForce, rowVars
    <3> QED
      BY <1>1, <3>1
  <2> QED
    BY <2>1, <2>2, <2>3
<1>2. TypeOK /\ LinkInv /\ [Next]_vars =>
        [\A s \in Sessions :
            ReaperStep /\ Active(s) /\ ~ Active(s)' => project[s] = "gone"]_vars
  BY <1>1
<1> QED
  BY <1>2, TypeCorrect, Linked, PTL DEF Spec, HonestReaper

\* A failed session never holds a slot again, in spite of the unconditional
\* status writes of Launch, provision and the reaper.
THEOREM FailedStaysFailed == Spec => FailedIsFinal
<1>1. ASSUME TypeOK, LinkInv, [Next]_vars, NEW s \in Sessions, status[s] = "failed"
      PROVE  ~ Active(s)'
  <2> USE <1>1 DEF LinkInv, RowsLinked, Active, ActiveStatuses, TypeOK, Statuses,
                   rowVars, gns3Vars, reqVars, reaperVars
  <2>1. ~ linked[s] /\ prov[s] = "off"
    OBVIOUS
  <2>2. CASE UNCHANGED status
    BY <2>2
  <2>3. ASSUME NEW r \in Requests, LaunchCreate(r) PROVE ~ Active(s)'
    BY <2>3 DEF LaunchCreate
  <2>4. ASSUME NEW r \in Requests, LaunchSetRunning(r) PROVE ~ Active(s)'
    BY <2>1, <2>4 DEF LaunchSetRunning, SetStatus, SetStatusFails, RequestsLinked
  <2>5. ASSUME NEW r \in Requests, EndLabEnd(r) PROVE ~ Active(s)'
    BY <2>5 DEF EndLabEnd, SetStatus, SetStatusFails
  <2>6. ASSUME NEW q \in Sessions, ProvisionCommit(q) PROVE ~ Active(s)'
    BY <2>1, <2>6 DEF ProvisionCommit, SetStatusFails
  <2>7. ASSUME NEW q \in Sessions, ProvisionFail(q) PROVE ~ Active(s)'
    BY <2>7 DEF ProvisionFail, SetStatus, SetStatusFails
  <2>8. CASE ReaperMarkIdle
    BY <2>1, <2>8 DEF ReaperMarkIdle, SetStatus, SetStatusFails, ReaperLinked
  <2>9. CASE ReaperEnd
    BY <2>9 DEF ReaperEnd, SetStatus, SetStatusFails
  <2>10. ASSUME NEW r \in Requests, RequestStep(r) PROVE ~ Active(s)'
    <3>1. LaunchCreate(r) \/ LaunchSetRunning(r) \/ EndLabEnd(r) \/ UNCHANGED status
      BY <2>10 DEF RequestStep, LaunchStartNodes, LaunchTouch, Touch, TouchFails, LaunchCount,
                   EndLabDelete, ConsoleEnsureRunning
    <3> QED
      BY <3>1, <2>2, <2>3, <2>4, <2>5
  <2>11. ASSUME NEW r \in Requests, ClientStep(r) PROVE ~ Active(s)'
    BY <2>2, <2>11 DEF ClientStep, LaunchFind, EndLabGet, Heartbeat, ConsoleOpen,
                       ConsoleTouch, ConsoleClose, Touch, TouchFails
  <2>12. ASSUME NEW q \in Sessions, ProvisionStep(q) PROVE ~ Active(s)'
    BY <2>2, <2>6, <2>7, <2>12 DEF ProvisionStep, ProvisionCreate, ProvisionStart
  <2>13. CASE ReaperStep
    <3>1. ReaperMarkIdle \/ ReaperEnd \/ UNCHANGED status
      BY <2>13 DEF ReaperStep, ReaperSweep, ReaperSecondTier, ReaperSleep, ReaperTake,
                   ReaperStop, ReaperConfirmStopped, ReaperDelete, ReaperConfirmGone,
                   ReaperForce
    <3> QED
      BY <3>1, <2>2, <2>8, <2>9
  <2>14. CASE Environment \/ UNCHANGED vars
    BY <2>2, <2>14 DEF Environment, Tick, GNS3Fails, GNS3Recovers, Crash, vars
  <2>15. ASSUME NEW u \in Accounts, DeleteMe(u) PROVE ~ Active(s)'
    BY <2>15 DEF DeleteMe
  <2> QED
    BY <2>10, <2>11, <2>12, <2>13, <2>14, <2>15 DEF Next
<1>2. TypeOK /\ LinkInv /\ [Next]_vars =>
        [\A s \in Sessions : status[s] = "failed" => ~ Active(s)']_vars
  BY <1>1
<1> QED
  BY <1>2, TypeCorrect, Linked, PTL DEF Spec, FailedIsFinal
-----------------------------------------------------------------------------
(***************************************************************************)
(* How long a sweep can last: what is left of it, counted in statements    *)
(* and calls of the reaper.  A row takes six of them at most, a tier has   *)
(* one row per session at most.                                            *)
(***************************************************************************)
CallsLeft(l) ==
    CASE l = "confirm_stopped"         -> 5
      [] l = "delete"                  -> 4
      [] l \in {"stop", "confirm_gone"} -> 3
      [] l = "force"                   -> 2
      [] l \in {"mark_idle", "end"}    -> 1
      [] OTHER                         -> 0

SecondTierLeft(t) == IF t = 1 THEN 6 * Cardinality(Sessions) + 1 ELSE 0

Left(l, t, rows) ==
    IF l = "sleep" THEN 0 ELSE CallsLeft(l) + 6 * Cardinality(rows) + SecondTierLeft(t) + 1

SweepLeft == Left(rpc, tier, todo)

LEMMA SweepSizes ==
    ASSUME NEW rows \in SUBSET Sessions
    PROVE  /\ Cardinality(Sessions) \in Nat /\ Cardinality(rows) \in Nat
           /\ Cardinality(rows) <= Cardinality(Sessions)
           /\ \A s \in rows : Cardinality(rows \ {s}) = Cardinality(rows) - 1
<1>1. IsFiniteSet(Sessions)
  BY ConstantsAssumption
<1>2. IsFiniteSet(rows) /\ Cardinality(rows) <= Cardinality(Sessions)
  BY <1>1, FS_Subset
<1>3. Cardinality(Sessions) \in Nat /\ Cardinality(rows) \in Nat
  BY <1>1, <1>2, FS_CardinalityType
<1>4. \A s \in rows : Cardinality(rows \ {s}) = Cardinality(rows) - 1
  BY <1>2, FS_RemoveElement
<1> QED
  BY <1>2, <1>3, <1>4

LEMMA LeftType ==
    ASSUME NEW rows \in SUBSET Sessions, NEW l, NEW t
    PROVE  /\ CallsLeft(l) \in 0..5 /\ SecondTierLeft(t) \in Nat
           /\ Left(l, t, rows) \in 0..(12 * Cardinality(Sessions) + 7)
           /\ l = "loop" => Left(l, t, rows) <= 12 * Cardinality(Sessions) + 2
           /\ l # "sleep" => Left(l, t, rows) > 0
<1> DEFINE k == Cardinality(Sessions)
           n == Cardinality(rows)
<1>1. k \in Nat /\ n \in Nat /\ n <= k
  BY SweepSizes
<1>2. CallsLeft(l) \in 0..5 /\ (l = "loop" => CallsLeft(l) = 0)
  BY DEF CallsLeft
<1>3. SecondTierLeft(t) \in Nat /\ SecondTierLeft(t) <= 6 * k + 1
  BY <1>1 DEF SecondTierLeft
<1>4. Left(l, t, rows) = IF l = "sleep" THEN 0 ELSE CallsLeft(l) + 6 * n + SecondTierLeft(t) + 1
  BY DEF Left
<1> HIDE DEF k, n
<1>5. l # "sleep" => Left(l, t, rows) \in 1..(12 * k + 7)
  BY <1>1, <1>2, <1>3, <1>4
<1>6. Left(l, t, rows) \in 0..(12 * k + 7)
  BY <1>1, <1>4, <1>5
<1>7. l = "loop" => Left(l, t, rows) <= 12 * k + 2
  BY <1>1, <1>2, <1>3, <1>4
<1> QED
  BY <1>2, <1>3, <1>5, <1>6, <1>7 DEF k

\* A call is behind the reaper, and the rows are the same.
LEMMA CallMade ==
    ASSUME NEW rows \in SUBSET Sessions, NEW t, NEW l, NEW m, l # "sleep", m # "sleep",
           CallsLeft(m) < CallsLeft(l)
    PROVE  Left(m, t, rows) < Left(l, t, rows)
<1>1. Cardinality(rows) \in Nat
  BY SweepSizes
<1>2. CallsLeft(l) \in 0..5 /\ SecondTierLeft(t) \in Nat
  BY LeftType
<1>3. CallsLeft(m) \in 0..5
  BY LeftType
<1> QED
  BY <1>1, <1>2, <1>3 DEF Left

\* A row is taken up.
LEMMA RowTaken ==
    ASSUME NEW rows \in SUBSET Sessions, NEW s \in rows, NEW t, NEW m, m # "sleep"
    PROVE  Left(m, t, rows \ {s}) < Left("loop", t, rows)
<1>1. /\ Cardinality(rows) \in Nat /\ SecondTierLeft(t) \in Nat
      /\ CallsLeft(m) \in 0..5 /\ CallsLeft("loop") = 0
  BY SweepSizes, LeftType DEF CallsLeft
<1>2. Cardinality(rows \ {s}) = Cardinality(rows) - 1
  BY SweepSizes
<1> QED
  BY <1>1, <1>2 DEF Left

\* The first tier is over, whatever the second query returns.
LEMMA TierDone ==
    ASSUME NEW rows \in SUBSET Sessions
    PROVE  Left("loop", 2, rows) < Left("loop", 1, {})
<1>1. /\ Cardinality(rows) \in Nat /\ Cardinality(Sessions) \in Nat
      /\ Cardinality(rows) <= Cardinality(Sessions) /\ Cardinality({}) = 0
  BY SweepSizes, FS_EmptySet
<1> QED
  BY <1>1 DEF Left, CallsLeft, SecondTierLeft

LEMMA ReaperAdvances ==
    ASSUME TypeOK, TypeOK', ReaperStep, rpc # "sleep"
    PROVE  SweepLeft' < SweepLeft
<1>1. todo \in SUBSET Sessions /\ todo' \in SUBSET Sessions
  BY DEF TypeOK
<1>2. ASSUME UNCHANGED <<tier, todo>>, rpc' # "sleep", CallsLeft(rpc') < CallsLeft(rpc)
      PROVE  SweepLeft' < SweepLeft
  BY <1>1, <1>2, CallMade DEF SweepLeft
<1>3. CASE ReaperSecondTier
  BY <1>1, <1>3, TierDone DEF ReaperSecondTier, SweepLeft
<1>4. CASE ReaperSleep
  <2>1. SweepLeft > 0
    BY <1>1, LeftType DEF SweepLeft
  <2>2. SweepLeft' = 0
    BY <1>4 DEF ReaperSleep, SweepLeft, Left
  <2> QED
    BY <2>1, <2>2
<1>5. ASSUME NEW s \in Sessions, ReaperTake(s) PROVE SweepLeft' < SweepLeft
  <2>1. rpc' # "sleep"
    BY <1>5 DEF ReaperTake
  <2> QED
    BY <1>1, <1>5, <2>1, RowTaken DEF ReaperTake, SweepLeft
<1>6. CASE ReaperStop
  <2>1. rpc = "stop" /\ rpc' \in {"mark_idle", "force", "loop"} /\ UNCHANGED <<tier, todo>>
    BY <1>6 DEF ReaperStop, ReaperNext, ReaperGoto
  <2> QED
    BY <1>2, <2>1 DEF CallsLeft
<1>7. CASE ReaperMarkIdle
  <2>1. rpc = "mark_idle" /\ rpc' = "loop" /\ UNCHANGED <<tier, todo>>
    BY <1>7 DEF ReaperMarkIdle, ReaperNext, ReaperGoto
  <2> QED
    BY <1>2, <2>1 DEF CallsLeft
<1>8. CASE ReaperConfirmStopped \/ ReaperDelete \/ ReaperConfirmGone
  <2>1. /\ UNCHANGED <<tier, todo>>
        /\ \/ rpc = "confirm_stopped" /\ rpc' \in {"delete", "force", "loop"}
           \/ rpc = "delete" /\ rpc' \in {"confirm_gone", "force", "loop"}
           \/ rpc = "confirm_gone" /\ rpc' \in {"end", "force", "loop"}
    BY <1>8 DEF ReaperConfirmStopped, ReaperDelete, ReaperConfirmGone, TeardownGoesOn,
                TeardownNotConfirmed, ReaperNext, ReaperGoto
  <2> QED
    BY <1>2, <2>1 DEF CallsLeft
<1>9. CASE ReaperForce
  <2>1. rpc = "force" /\ rpc' \in {"end", "loop"} /\ UNCHANGED <<tier, todo>>
    BY <1>9 DEF ReaperForce, ReaperNext, ReaperGoto
  <2> QED
    BY <1>2, <2>1 DEF CallsLeft
<1>10. CASE ReaperEnd
  <2>1. rpc = "end" /\ rpc' = "loop" /\ UNCHANGED <<tier, todo>>
    BY <1>10 DEF ReaperEnd, ReaperNext, ReaperGoto
  <2> QED
    BY <1>2, <2>1 DEF CallsLeft
<1> QED
  BY <1>3, <1>4, <1>5, <1>6, <1>7, <1>8, <1>9, <1>10 DEF ReaperStep, ReaperSweep

\* Nobody else makes a sweep longer; a restart ends it.
LEMMA OthersLeaveSweep ==
    ASSUME TypeOK, [Next]_vars, ~ ReaperStep
    PROVE  SweepLeft' <= SweepLeft
<1>1. todo \in SUBSET Sessions
  BY DEF TypeOK
<1>2. SweepLeft \in Nat
  BY <1>1, LeftType DEF SweepLeft
<1>3. CASE UNCHANGED <<rpc, tier, todo>>
  BY <1>2, <1>3 DEF SweepLeft
<1>4. CASE Crash
  BY <1>2, <1>4 DEF Crash, SweepLeft, Left
<1>5. ASSUME NEW r \in Requests, RequestStep(r) \/ ClientStep(r) PROVE UNCHANGED <<rpc, tier, todo>>
  BY <1>5 DEF RequestStep, LaunchStartNodes, LaunchSetRunning, LaunchTouch, LaunchCount,
              LaunchCreate, EndLabDelete, EndLabEnd, ConsoleEnsureRunning, ClientStep, LaunchFind,
              EndLabGet, Heartbeat, ConsoleOpen, ConsoleTouch, ConsoleClose, reaperVars
<1>6. ASSUME NEW s \in Sessions, ProvisionStep(s) PROVE UNCHANGED <<rpc, tier, todo>>
  BY <1>6 DEF ProvisionStep, ProvisionCreate, ProvisionStart, ProvisionCommit, ProvisionFail,
              reaperVars
<1>7. CASE Tick \/ GNS3Fails \/ GNS3Recovers \/ UNCHANGED vars
  BY <1>3, <1>7 DEF Tick, GNS3Fails, GNS3Recovers, vars, reaperVars
<1>8. ASSUME NEW u \in Accounts, DeleteMe(u) PROVE UNCHANGED <<rpc, tier, todo>>
  BY <1>8 DEF DeleteMe, reaperVars
<1> QED
  BY <1>3, <1>4, <1>5, <1>6, <1>7, <1>8 DEF Next, Environment

\* Each step of the reaper leaves less of its sweep, no other makes it longer, and a sweep
\* begins with 12 steps per session and two for the queries at most (reaper.go, sweep).
SweepAdvances ==
    [][/\ rpc # "sleep" /\ ReaperStep => SweepLeft' < SweepLeft
       /\ rpc # "sleep" /\ ~ ReaperStep => SweepLeft' <= SweepLeft
       /\ SweepLeft' \in Nat
       /\ rpc = "sleep" => SweepLeft' <= 12 * Cardinality(Sessions) + 2]_vars

\* The safety half of SweepTerminates, for any number of sessions and whatever GNS3, the
\* database, requests, provisioning and restarts do meanwhile: no row is taken up twice in a
\* tier and no call is repeated (reaper.go, sweep, suspend, teardown).
THEOREM SweepIsBounded == Spec => SweepAdvances
<1>1. ASSUME TypeOK, TypeOK', [Next]_vars
      PROVE  /\ rpc # "sleep" /\ ReaperStep => SweepLeft' < SweepLeft
             /\ rpc # "sleep" /\ ~ ReaperStep => SweepLeft' <= SweepLeft
             /\ SweepLeft' \in Nat
             /\ rpc = "sleep" => SweepLeft' <= 12 * Cardinality(Sessions) + 2
  <2>1. todo \in SUBSET Sessions /\ todo' \in SUBSET Sessions
    BY <1>1 DEF TypeOK
  <2>2. SweepLeft' \in Nat /\ Cardinality(Sessions) \in Nat
    BY <2>1, LeftType, SweepSizes DEF SweepLeft
  <2>3. ASSUME rpc = "sleep" PROVE SweepLeft' <= 12 * Cardinality(Sessions) + 2
    <3>1. CASE ReaperStep
      <4>1. rpc' = "loop"
        BY <2>3, <3>1 DEF ReaperStep, ReaperSweep, ReaperSecondTier, ReaperSleep, ReaperTake,
                          ReaperStop, ReaperMarkIdle, ReaperConfirmStopped, ReaperDelete,
                          ReaperConfirmGone, ReaperForce, ReaperEnd
      <4> QED
        BY <2>1, <4>1, LeftType DEF SweepLeft
    <3>2. CASE ~ ReaperStep
      <4>1. SweepLeft = 0 /\ SweepLeft' <= SweepLeft
        BY <1>1, <2>3, <3>2, OthersLeaveSweep DEF SweepLeft, Left
      <4> QED
        BY <2>2, <4>1
    <3> QED
      BY <3>1, <3>2
  <2> QED
    BY <1>1, <2>2, <2>3, ReaperAdvances, OthersLeaveSweep
<1>2. TypeOK /\ TypeOK' /\ [Next]_vars =>
        [/\ rpc # "sleep" /\ ReaperStep => SweepLeft' < SweepLeft
         /\ rpc # "sleep" /\ ~ ReaperStep => SweepLeft' <= SweepLeft
         /\ SweepLeft' \in Nat
         /\ rpc = "sleep" => SweepLeft' <= 12 * Cardinality(Sessions) + 2]_vars
  BY <1>1
<1> QED
  BY <1>2, TypeCorrect, PTL DEF Spec, SweepAdvances

-----------------------------------------------------------------------------
(***************************************************************************)
(* Who finishes a session that is being provisioned.                       *)
(***************************************************************************)
\* Two rows of one user and lab never both hold a slot.
OneSessionPerLab ==
    \A s, t \in Sessions : s # t /\ Active(s) /\ Active(t) => owner[s] # owner[t]

\* A row that says provisioning has its goroutine.
Attended == \A s \in Sessions : status[s] = "provisioning" => prov[s] # "off"

\* What a step does to the columns status and owner: nothing, a statement on a row, a new row,
\* the rows of a user gone.
Writes(s, st) ==
    /\ status[s] # "deleted" /\ Admissible(s, owner[s], st)
    /\ status' = [status EXCEPT ![s] = st] /\ owner' = owner

Inserts(s, k) ==
    /\ status[s] = "absent" /\ Admissible(s, k, "provisioning")
    /\ status' = [status EXCEPT ![s] = "provisioning"] /\ owner' = [owner EXCEPT ![s] = k]

Removes(u) ==
    /\ status' = [s \in Sessions |->
                    IF Exists(s) /\ owner[s] \in u THEN "deleted" ELSE status[s]]
    /\ owner' = owner

LEMMA RowWritten ==
    ASSUME TypeOK, LinkInv, [Next]_vars
    PROVE  \/ UNCHANGED <<status, owner>>
           \/ \E s \in Sessions, st \in Statuses : Writes(s, st)
           \/ \E s \in Sessions, k \in Keys \cup {NoKey} : Inserts(s, k)
           \/ \E u \in Accounts : Removes(u)
<1> USE DEF rowVars, gns3Vars, reqVars, reaperVars
<1>1. ASSUME NEW s \in Sessions, NEW st \in Statuses, SetStatus(s, st) \/ SetStatusFails(s, st)
      PROVE  UNCHANGED <<status, owner>> \/ Writes(s, st)
  BY <1>1 DEF SetStatus, SetStatusFails, Writes
<1>2. ASSUME NEW r \in Requests, RequestStep(r)
      PROVE  \/ UNCHANGED <<status, owner>>
             \/ \E s \in Sessions, st \in Statuses : Writes(s, st)
             \/ \E s \in Sessions, k \in Keys \cup {NoKey} : Inserts(s, k)
  <2>1. CASE LaunchSetRunning(r)
    <3>1. target[r] \in Sessions
      BY <2>1 DEF LaunchSetRunning, LinkInv, RequestsLinked
    <3> QED
      BY <1>1, <2>1, <3>1 DEF LaunchSetRunning, Statuses
  <2>2. CASE EndLabEnd(r)
    <3>1. target[r] \in Sessions
      BY <2>2 DEF EndLabEnd, LinkInv, RequestsLinked
    <3> QED
      BY <1>1, <2>2, <3>1 DEF EndLabEnd, Statuses
  <2>3. CASE LaunchCreate(r)
    BY <2>3 DEF LaunchCreate, Inserts, TypeOK
  <2>4. CASE UNCHANGED <<status, owner>>
    BY <2>4
  <2> QED
    BY <1>2, <2>1, <2>2, <2>3, <2>4
    DEF RequestStep, LaunchStartNodes, LaunchTouch, Touch, TouchFails, LaunchCount, EndLabDelete,
        ConsoleEnsureRunning
<1>3. ASSUME NEW r \in Requests, ClientStep(r) PROVE UNCHANGED <<status, owner>>
  BY <1>3 DEF ClientStep, LaunchFind, EndLabGet, Heartbeat, ConsoleOpen, ConsoleTouch,
              ConsoleClose, Touch, TouchFails
<1>4. ASSUME NEW s \in Sessions, ProvisionStep(s)
      PROVE  UNCHANGED <<status, owner>> \/ \E st \in Statuses : Writes(s, st)
  <2>1. CASE ProvisionFail(s)
    BY <1>1, <2>1 DEF ProvisionFail, Statuses
  <2>2. CASE ProvisionCommit(s)
    BY <2>2 DEF ProvisionCommit, SetStatusFails, Writes, Statuses
  <2> QED
    BY <1>4, <2>1, <2>2 DEF ProvisionStep, ProvisionCreate, ProvisionStart
<1>5. CASE ReaperStep
  <2>1. ReaperMarkIdle \/ ReaperEnd \/ UNCHANGED <<status, owner>>
    BY <1>5 DEF ReaperStep, ReaperSweep, ReaperSecondTier, ReaperSleep, ReaperTake, ReaperStop,
                ReaperConfirmStopped, ReaperDelete, ReaperConfirmGone, ReaperForce
  <2>2. ReaperMarkIdle \/ ReaperEnd => cur \in Sessions
    BY DEF ReaperMarkIdle, ReaperEnd, LinkInv, ReaperLinked
  <2>3. ReaperMarkIdle => \E s \in Sessions : SetStatus(s, "idle_stopped") \/ SetStatusFails(s, "idle_stopped")
    BY <2>2 DEF ReaperMarkIdle
  <2>4. ReaperEnd => \E s \in Sessions : SetStatus(s, "ended") \/ SetStatusFails(s, "ended")
    BY <2>2 DEF ReaperEnd
  <2> QED
    BY <1>1, <2>1, <2>3, <2>4 DEF Statuses
<1>6. CASE Environment \/ UNCHANGED vars
  BY <1>6 DEF Environment, Tick, GNS3Fails, GNS3Recovers, Crash, vars
<1>7. ASSUME NEW u \in Accounts, DeleteMe(u) PROVE Removes(u)
  BY <1>7 DEF DeleteMe, Removes
<1> QED
  BY <1>2, <1>3, <1>4, <1>5, <1>6, <1>7 DEF Next

\* No statement brings a deleted row back: none finds it.
LEMMA StaysDeleted ==
    ASSUME TypeOK, LinkInv, [Next]_vars, NEW s \in Sessions, status[s] = "deleted"
    PROVE  status'[s] = "deleted"
BY RowWritten DEF Writes, Inserts, Removes, Exists, Statuses, TypeOK

\* A user has one session of a lab at most that holds a slot, although Launch looks for one
\* and creates another in two statements (service.go, Launch; 024_lab_sessions.up.sql).
THEOREM OneSession == Spec => []OneSessionPerLab
<1> USE DEF OneSessionPerLab, Active, ActiveStatuses
<1>1. Init => OneSessionPerLab
  BY DEF Init
<1>2. TypeOK /\ LinkInv /\ OneSessionPerLab /\ [Next]_vars => OneSessionPerLab'
  <2> SUFFICES ASSUME TypeOK, LinkInv, OneSessionPerLab, [Next]_vars
               PROVE  OneSessionPerLab'
    OBVIOUS
  <2>1. CASE UNCHANGED <<status, owner>>
    BY <2>1
  <2>2. ASSUME NEW s \in Sessions, NEW st \in Statuses, Writes(s, st) PROVE OneSessionPerLab'
    BY <2>2 DEF Writes, Admissible, TypeOK
  <2>3. ASSUME NEW s \in Sessions, NEW k \in Keys \cup {NoKey}, Inserts(s, k) PROVE OneSessionPerLab'
    BY <2>3 DEF Inserts, Admissible, TypeOK
  <2>4. ASSUME NEW u \in Accounts, Removes(u) PROVE OneSessionPerLab'
    BY <2>4 DEF Removes, TypeOK
  <2> QED
    BY <2>1, <2>2, <2>3, <2>4, RowWritten
<1> QED
  BY <1>1, <1>2, TypeCorrect, Linked, PTL DEF Spec

\* Without a restart and a failing statement, a session that says provisioning has its
\* goroutine at work (service.go, provision): what keeps it there for ever is a restart, or a
\* statement whose error is dropped.
THEOREM ProvisioningIsAttended ==
    ASSUME {"crash", "db"} \cap Faults = {}
    PROVE  Spec => []Attended
<1> USE DEF TypeOK, Statuses, rowVars, gns3Vars, reqVars, reaperVars
<1>1. Init => Attended
  BY DEF Init, Attended
<1>2. TypeOK /\ OneSessionPerLab /\ Attended /\ [Next]_vars => Attended'
  <2> SUFFICES ASSUME TypeOK, OneSessionPerLab, Attended, [Next]_vars, NEW t \in Sessions,
                      status'[t] = "provisioning"
               PROVE  prov'[t] # "off"
    BY DEF Attended
  <2>1. CASE prov' = prov /\ (status[t] = "provisioning" \/ status'[t] # "provisioning")
    BY <2>1 DEF Attended
  <2>2. ASSUME NEW r \in Requests, LaunchCreate(r) PROVE prov'[t] # "off"
    BY <2>2 DEF LaunchCreate, Attended
  <2>3. ASSUME NEW s, NEW st \in {"running", "idle_stopped", "ended", "failed"},
               SetStatus(s, st) \/ SetStatusFails(s, st)
        PROVE  status[t] = "provisioning"
    BY <2>3 DEF SetStatus, SetStatusFails
  <2>4. ASSUME NEW r \in Requests, RequestStep(r) PROVE prov'[t] # "off"
    <3>1. LaunchSetRunning(r) \/ EndLabEnd(r) => prov' = prov /\ status[t] = "provisioning"
      BY <2>3 DEF LaunchSetRunning, EndLabEnd
    <3>2. \/ LaunchCreate(r) \/ LaunchSetRunning(r) \/ EndLabEnd(r)
          \/ UNCHANGED <<prov, status>>
      BY <2>4 DEF RequestStep, LaunchStartNodes, LaunchTouch, Touch, TouchFails, LaunchCount,
                  EndLabDelete, ConsoleEnsureRunning
    <3> QED
      BY <2>1, <2>2, <3>1, <3>2
  <2>5. ASSUME NEW r \in Requests, ClientStep(r) PROVE prov'[t] # "off"
    <3>1. UNCHANGED <<prov, status>>
      BY <2>5 DEF ClientStep, LaunchFind, EndLabGet, Heartbeat, ConsoleOpen, ConsoleTouch,
                  ConsoleClose, Touch, TouchFails
    <3> QED
      BY <2>1, <3>1
  <2>6. ASSUME NEW s \in Sessions, ProvisionCreate(s) \/ ProvisionStart(s) PROVE prov'[t] # "off"
    BY <2>6 DEF ProvisionCreate, ProvisionStart, ProvTo, Attended
  <2>7. ASSUME NEW s \in Sessions, ProvisionCommit(s) PROVE prov'[t] # "off"
    <3>1. CASE s = t
      <4>1. Active(t) => Admissible(t, owner[t], "running")
        BY DEF OneSessionPerLab, Admissible
      <4> QED
        BY <2>7, <3>1, <4>1 DEF ProvisionCommit, SetStatusFails, Active, ActiveStatuses
    <3>2. CASE s # t
      BY <2>7, <3>2 DEF ProvisionCommit, SetStatusFails, ProvTo, Attended
    <3> QED
      BY <3>1, <3>2
  <2>8. ASSUME NEW s \in Sessions, ProvisionFail(s) PROVE prov'[t] # "off"
    <3>1. Admissible(s, owner[s], "failed")
      BY DEF Admissible, ActiveStatuses
    <3>2. /\ prov' = [prov EXCEPT ![s] = "off"]
          /\ \/ status' = [status EXCEPT ![s] = "failed"]
             \/ status[s] = "deleted" /\ UNCHANGED status
      BY <2>8, <3>1 DEF ProvisionFail, SetStatus, SetStatusFails, ProvTo
    <3> QED
      BY <3>2 DEF Attended
  <2>9. CASE ReaperStep
    <3>1. UNCHANGED prov /\ status[t] = "provisioning"
      BY <2>3, <2>9 DEF ReaperStep, ReaperSweep, ReaperSecondTier, ReaperSleep, ReaperTake,
         ReaperStop, ReaperMarkIdle, ReaperConfirmStopped, ReaperDelete, ReaperConfirmGone,
         ReaperForce, ReaperEnd
    <3> QED
      BY <2>1, <3>1
  <2>10. CASE Environment \/ UNCHANGED vars
    BY <2>1, <2>10 DEF Environment, Tick, GNS3Fails, GNS3Recovers, Crash, vars
  <2>11. ASSUME NEW u \in Accounts, DeleteMe(u) PROVE prov'[t] # "off"
    BY <2>1, <2>11 DEF DeleteMe
  <2> QED
    BY <2>4, <2>5, <2>6, <2>7, <2>8, <2>9, <2>10, <2>11 DEF Next, ProvisionStep
<1> QED
  BY <1>1, <1>2, TypeCorrect, OneSession, PTL DEF Spec

\* What a goroutine of provision has still to do, in its steps.
Provisions(s) ==
    CASE prov[s] = "create"            -> 3
      [] prov[s] = "start"             -> 2
      [] prov[s] \in {"commit", "fail"} -> 1
      [] OTHER                         -> 0

\* Each step of a goroutine leaves it less to do, and no other step gives it more.
ProvisionAdvances ==
    [][\A s \in Sessions :
          /\ ProvisionStep(s) => Provisions(s)' < Provisions(s)
          /\ prov[s] # "off" => Provisions(s)' <= Provisions(s)]_vars

\* A goroutine has three steps to make at most, CreateProject, what builds and starts the lab,
\* and the last statement (service.go, provision: nothing is repeated).  With ProvisioningIsAttended, the safety half of
\* ProvisioningResolves.
THEOREM ProvisioningIsBounded == Spec => ProvisionAdvances
<1>1. ASSUME TypeOK, LinkInv, [Next]_vars, NEW s \in Sessions
      PROVE  /\ ProvisionStep(s) => Provisions(s)' < Provisions(s)
             /\ prov[s] # "off" => Provisions(s)' <= Provisions(s)
  <2> USE DEF rowVars, gns3Vars, reqVars, reaperVars
  <2>1. ASSUME NEW q \in Sessions, ProvisionStep(q)
        PROVE  /\ prov' = [prov EXCEPT ![q] = prov'[q]]
               /\ \/ prov[q] = "create" /\ prov'[q] \in {"start", "fail"}
                  \/ prov[q] = "start" /\ prov'[q] \in {"commit", "fail"}
                  \/ prov[q] \in {"commit", "fail"} /\ prov'[q] = "off"
    BY <1>1, <2>1 DEF ProvisionStep, ProvisionCreate, ProvisionStart, ProvisionCommit,
                      ProvisionFail, ProvTo, TypeOK
  <2>2. Provisions(s) \in Nat
    BY DEF Provisions
  <2>3. CASE UNCHANGED prov
    BY <2>1, <2>2, <2>3 DEF Provisions
  <2>4. ASSUME NEW q \in Sessions, ProvisionStep(q)
        PROVE  /\ ProvisionStep(s) => Provisions(s)' < Provisions(s)
               /\ prov[s] # "off" => Provisions(s)' <= Provisions(s)
    <3>1. ASSUME ProvisionStep(s) PROVE Provisions(s)' < Provisions(s)
      BY <2>1, <3>1 DEF Provisions
    <3>2. CASE q = s
      BY <2>2, <2>4, <3>1, <3>2 DEF Provisions
    <3>3. CASE q # s
      <4>1. prov'[s] = prov[s]
        BY <1>1, <2>1, <2>4, <3>3 DEF TypeOK
      <4> QED
        BY <2>2, <3>1, <4>1 DEF Provisions
    <3> QED
      BY <3>2, <3>3
  <2>5. ASSUME NEW r \in Requests, LaunchCreate(r), prov[s] # "off"
        PROVE  prov'[s] = prov[s]
    BY <1>1, <2>5 DEF LaunchCreate, LinkInv, RowsLinked, TypeOK
  <2>6. CASE Crash
    <3>1. Provisions(s)' = 0
      BY <2>6 DEF Crash, Provisions
    <3>2. ASSUME ProvisionStep(s) PROVE Provisions(s)' < Provisions(s)
      BY <2>1, <3>2 DEF Provisions
    <3> QED
      BY <2>2, <3>1, <3>2
  <2>7. ASSUME NEW r \in Requests, RequestStep(r) PROVE LaunchCreate(r) \/ UNCHANGED prov
    BY <2>7 DEF RequestStep, LaunchStartNodes, LaunchSetRunning, LaunchTouch, LaunchCount,
                EndLabDelete, EndLabEnd, ConsoleEnsureRunning
  <2>8. ASSUME NEW r \in Requests, ClientStep(r) PROVE UNCHANGED prov
    BY <2>8 DEF ClientStep, LaunchFind, EndLabGet, Heartbeat, ConsoleOpen, ConsoleTouch, ConsoleClose
  <2>9. CASE ReaperStep
    <3>1. UNCHANGED prov
      BY <2>9 DEF ReaperStep, ReaperSweep, ReaperSecondTier, ReaperSleep, ReaperTake, ReaperStop,
         ReaperMarkIdle, ReaperConfirmStopped, ReaperDelete, ReaperConfirmGone, ReaperForce, ReaperEnd
    <3> QED
      BY <2>3, <3>1
  <2>10. CASE Tick \/ GNS3Fails \/ GNS3Recovers \/ UNCHANGED vars
    BY <2>3, <2>10 DEF Tick, GNS3Fails, GNS3Recovers, vars
  <2>11. CASE \E q \in Sessions : ProvisionStep(q)
    BY <2>4, <2>11
  <2>12. CASE \E u \in Accounts : DeleteMe(u)
    BY <2>3, <2>12 DEF DeleteMe
  <2>13. CASE ~ \E q \in Sessions : ProvisionStep(q)
    <3>1. ASSUME NEW r \in Requests, RequestStep(r) PROVE prov[s] # "off" => Provisions(s)' <= Provisions(s)
      BY <2>2, <2>3, <2>5, <2>7, <3>1 DEF Provisions
    <3> QED
      BY <1>1, <2>3, <2>6, <2>8, <2>9, <2>10, <2>12, <2>13, <3>1 DEF Next, Environment
  <2> QED
    BY <2>11, <2>13
<1>2. TypeOK /\ LinkInv /\ [Next]_vars =>
        [\A s \in Sessions :
            /\ ProvisionStep(s) => Provisions(s)' < Provisions(s)
            /\ prov[s] # "off" => Provisions(s)' <= Provisions(s)]_vars
  BY <1>1
<1> QED
  BY <1>2, TypeCorrect, Linked, PTL DEF Spec, ProvisionAdvances
-----------------------------------------------------------------------------
(***************************************************************************)
(* The life of a row.  No statement that writes a status looks at the one  *)
(* it overwrites; what keeps rows on these paths is what the writer has    *)
(* read, and when.                                                         *)
(***************************************************************************)
\* The paths out of "ended" are those of writers who were overtaken by an EndLab; those to
\* "deleted" are the user's, and nothing comes back from there.
Lifecycle ==
    {<<"absent", "provisioning">>,
     <<"provisioning", "running">>, <<"provisioning", "failed">>, <<"provisioning", "ended">>,
     <<"running", "idle_stopped">>, <<"running", "ended">>,
     <<"idle_stopped", "running">>, <<"idle_stopped", "ended">>,
     <<"failed", "ended">>,
     <<"ended", "running">>, <<"ended", "idle_stopped">>, <<"ended", "failed">>,
     <<"provisioning", "deleted">>, <<"running", "deleted">>, <<"idle_stopped", "deleted">>,
     <<"failed", "deleted">>, <<"ended", "deleted">>}

\* A row takes no other path: only sessions that ran are suspended, none that ran fails, and
\* none is provisioned twice.
FollowsLifecycle ==
    [][\A s \in Sessions : status'[s] # status[s] => <<status[s], status'[s]>> \in Lifecycle]_vars

\* A user gives up a row: an EndLab ends it, or the user's account goes and takes it along.
GivenUpByUser(s) ==
    \/ \E r \in Requests : EndLabEnd(r) /\ target[r] = s
    \/ \E u \in Accounts : DeleteMe(u) /\ owner[s] \in u

\* A slot given up while the project the row names still exists was given up by a user.
OnlyUsersAbandon ==
    [][\A s \in Sessions :
          Active(s) /\ ~ Active(s)' /\ linked[s] /\ Live(s) => GivenUpByUser(s)]_vars

\* Who writes a status, and what of the row it can be sure of.
LEMMA StatusWritten ==
    ASSUME TypeOK, LinkInv, [Next]_vars, NEW s \in Sessions, status'[s] # status[s]
    PROVE  \/ status[s] = "absent" /\ status'[s] = "provisioning"
           \/ prov[s] = "commit" /\ status'[s] = "running"
           \/ prov[s] = "fail" /\ status'[s] = "failed"
           \/ linked[s] /\ status'[s] \in {"running", "idle_stopped"}
           \/ linked[s] /\ project[s] = "gone" /\ status'[s] = "ended"
           \/ /\ status'[s] = "ended" /\ Exists(s)
              /\ \E r \in Requests : EndLabEnd(r) /\ target[r] = s
           \/ /\ status'[s] = "deleted" /\ Exists(s)
              /\ \E u \in Accounts : DeleteMe(u) /\ owner[s] \in u
<1> DEFINE Written ==
           \/ status[s] = "absent" /\ status'[s] = "provisioning"
           \/ prov[s] = "commit" /\ status'[s] = "running"
           \/ prov[s] = "fail" /\ status'[s] = "failed"
           \/ linked[s] /\ status'[s] \in {"running", "idle_stopped"}
           \/ linked[s] /\ project[s] = "gone" /\ status'[s] = "ended"
           \/ /\ status'[s] = "ended" /\ Exists(s)
              /\ \E r \in Requests : EndLabEnd(r) /\ target[r] = s
           \/ /\ status'[s] = "deleted" /\ Exists(s)
              /\ \E u \in Accounts : DeleteMe(u) /\ owner[s] \in u
<1> USE DEF rowVars, gns3Vars, reqVars, reaperVars
<1>1. ASSUME NEW t, NEW st, SetStatus(t, st) \/ SetStatusFails(t, st)
      PROVE  t = s /\ status'[s] = st /\ status[s] # "deleted"
  BY <1>1 DEF SetStatus, SetStatusFails, TypeOK
<1>2. ASSUME NEW r \in Requests, RequestStep(r) PROVE Written
  <2>1. CASE LaunchSetRunning(r)
    <3>1. pc[r] = "set_running" /\ target[r] = s /\ status'[s] = "running"
      BY <1>1, <2>1 DEF LaunchSetRunning
    <3> QED
      BY <3>1 DEF LinkInv, RequestsLinked
  <2>2. CASE EndLabEnd(r)
    <3>1. /\ pc[r] = "end_row" /\ target[r] = s /\ status'[s] = "ended"
          /\ status[s] # "deleted"
      BY <1>1, <2>2 DEF EndLabEnd
    <3>2. Exists(s)
      BY <3>1 DEF LinkInv, RequestsLinked, TypeOK, Exists
    <3> QED
      BY <2>2, <3>1, <3>2
  <2>3. CASE LaunchCreate(r)
    BY <2>3 DEF LaunchCreate, TypeOK
  <2>4. status' # status
    OBVIOUS
  <2> QED
    BY <1>2, <2>1, <2>2, <2>3, <2>4
    DEF RequestStep, LaunchStartNodes, LaunchTouch, Touch, TouchFails, LaunchCount, EndLabDelete,
        ConsoleEnsureRunning
<1>3. ASSUME NEW r \in Requests, ClientStep(r) PROVE FALSE
  BY <1>3 DEF ClientStep, LaunchFind, EndLabGet, Heartbeat, ConsoleOpen, ConsoleTouch,
              ConsoleClose, Touch, TouchFails
<1>4. ASSUME NEW q \in Sessions, ProvisionStep(q) PROVE Written
  <2>1. CASE ProvisionCommit(q)
    BY <2>1 DEF ProvisionCommit, SetStatusFails, TypeOK
  <2>2. CASE ProvisionFail(q)
    BY <1>1, <2>2 DEF ProvisionFail
  <2> QED
    BY <1>4, <2>1, <2>2 DEF ProvisionStep, ProvisionCreate, ProvisionStart
<1>5. CASE ReaperStep
  <2>1. ReaperMarkIdle \/ ReaperEnd
    BY <1>5 DEF ReaperStep, ReaperSweep, ReaperSecondTier, ReaperSleep, ReaperTake, ReaperStop,
                ReaperConfirmStopped, ReaperDelete, ReaperConfirmGone, ReaperForce
  <2>2. CASE ReaperMarkIdle
    <3>1. rpc = "mark_idle" /\ cur = s /\ status'[s] = "idle_stopped"
      BY <1>1, <2>2 DEF ReaperMarkIdle
    <3> QED
      BY <3>1 DEF LinkInv, ReaperLinked
  <2>3. CASE ReaperEnd
    <3>1. rpc = "end" /\ cur = s /\ status'[s] = "ended"
      BY <1>1, <2>3 DEF ReaperEnd
    <3> QED
      BY <3>1 DEF LinkInv, ReaperLinked
  <2> QED
    BY <2>1, <2>2, <2>3
<1>6. ~ (Environment \/ UNCHANGED vars)
  BY DEF Environment, Tick, GNS3Fails, GNS3Recovers, Crash, vars
<1>7. ASSUME NEW u \in Accounts, DeleteMe(u) PROVE Written
  <2>1. Exists(s) /\ owner[s] \in u /\ status'[s] = "deleted"
    BY <1>7 DEF DeleteMe
  <2> QED
    BY <1>7, <2>1
<1> QED
  BY <1>2, <1>3, <1>4, <1>5, <1>6, <1>7 DEF Next

\* No interleaving of Launch, EndLab, provision and the reaper takes a row off its paths,
\* although each of them writes its status whatever the row says by then (repository.go,
\* SetStatus, SetProvisioned, End), and an account that goes takes rows from every path.
THEOREM RowsFollowLifecycle == Spec => FollowsLifecycle
<1>1. ASSUME TypeOK, LinkInv, [Next]_vars, NEW s \in Sessions, status'[s] # status[s]
      PROVE  <<status[s], status'[s]>> \in Lifecycle
  <2>1. status[s] \in Statuses \cup {"absent"}
    BY <1>1, StaysDeleted DEF TypeOK
  <2>2. linked[s] => status[s] \in {"running", "idle_stopped", "ended"}
    BY <1>1, <2>1 DEF LinkInv, RowsLinked, Statuses
  <2>3. prov[s] \in {"commit", "fail"} => status[s] \in {"provisioning", "ended"}
    BY <1>1, <2>1 DEF LinkInv, RowsLinked, Statuses
  <2> QED
    BY <1>1, <2>1, <2>2, <2>3, StatusWritten DEF Lifecycle, Exists, Statuses
<1>2. TypeOK /\ LinkInv /\ [Next]_vars =>
        [\A s \in Sessions :
            status'[s] # status[s] => <<status[s], status'[s]>> \in Lifecycle]_vars
  BY <1>1
<1> QED
  BY <1>2, TypeCorrect, Linked, PTL DEF Spec, FollowsLifecycle

\* Neither the reaper nor provision nor a Launch gives up a slot whose recorded project exists.
\* A user does, in two ways: EndLab, when the row it read was still being provisioned
\* (service.go, EndLab), and DELETE /me, whose cascade takes the row and tells nobody
\* (users/repository.go, Delete; 024_lab_sessions.up.sql).
THEOREM ProjectsAreAbandonedByUsers == Spec => OnlyUsersAbandon
<1>1. ASSUME TypeOK, LinkInv, [Next]_vars, NEW s \in Sessions,
             Active(s), ~ Active(s)', linked[s], Live(s)
      PROVE  GivenUpByUser(s)
  <2>1. status'[s] # status[s] /\ status'[s] \notin {"running", "idle_stopped", "provisioning"}
    BY <1>1 DEF Active, ActiveStatuses
  <2>2. prov[s] = "off" /\ project[s] # "gone"
    BY <1>1 DEF LinkInv, RowsLinked, Live
  <2> QED
    BY <1>1, <2>1, <2>2, StatusWritten DEF GivenUpByUser
<1>2. TypeOK /\ LinkInv /\ [Next]_vars =>
        [\A s \in Sessions :
            Active(s) /\ ~ Active(s)' /\ linked[s] /\ Live(s) => GivenUpByUser(s)]_vars
  BY <1>1
<1> QED
  BY <1>2, TypeCorrect, Linked, PTL DEF Spec, OnlyUsersAbandon

-----------------------------------------------------------------------------
(***************************************************************************)
(* The cap.  Launch counts the slots in one statement and takes one in     *)
(* another, and a status is written in whatever state the row is: besides  *)
(* the launches between their two statements, every row somebody has still *)
(* to write an active status to may come to hold a slot.                   *)
(***************************************************************************)
\* Somebody has still to issue an UPDATE of row s to an active status, which finds no row if
\* the account has gone meanwhile: provision, a Launch that resumes it, the first tier of the
\* sweep.
MayBecomeActive(s) ==
    \/ prov[s] \in {"create", "start", "commit"}
    \/ \E r \in Requests : target[r] = s /\ pc[r] \in {"start_nodes", "set_running"}
    \/ tier = 1 /\ s \in todo
    \/ cur = s /\ rpc \in {"stop", "mark_idle"}

Claims(s) == Active(s) \/ MayBecomeActive(s)
Claimed == {s \in Sessions : Claims(s)}
Reviving == {s \in Sessions : MayBecomeActive(s) /\ ~ Active(s)}
Creating == {r \in Requests : pc[r] = "create"}

\* The slots that may yet be taken without another look at their number.
Pending == Cardinality(Reviving) + Cardinality(Creating)

\* What holds a slot and what may: at most n too many.
OverrunBy(n) ==
    IsFiniteSet(Creating) /\ Cardinality(Claimed) + Cardinality(Creating) < MaxSessions + n

LEMMA Disjoint ==
    ASSUME NEW A \in SUBSET Sessions, NEW B \in SUBSET Sessions, A \cap B = {}
    PROVE  /\ IsFiniteSet(A \cup B)
           /\ Cardinality(A) \in Nat /\ Cardinality(B) \in Nat
           /\ Cardinality(A \cup B) = Cardinality(A) + Cardinality(B)
<1>1. IsFiniteSet(A) /\ IsFiniteSet(B)
  BY ConstantsAssumption, FS_Subset
<1>2. Cardinality(A) \in Nat /\ Cardinality(B) \in Nat
  BY <1>1, FS_CardinalityType
<1>3. /\ IsFiniteSet(A \cup B)
      /\ Cardinality(A \cup B) = Cardinality(A) + Cardinality(B) - Cardinality(A \cap B)
  BY <1>1, FS_Union
<1>4. Cardinality(A \cap B) = 0
  BY FS_EmptySet
<1> QED
  BY <1>2, <1>3, <1>4

LEMMA ClaimedSize ==
    /\ IsFiniteSet(Claimed) /\ ActiveCount \in Nat /\ Cardinality(Reviving) \in Nat
    /\ Cardinality(Claimed) = ActiveCount + Cardinality(Reviving)
<1> DEFINE A == {s \in Sessions : Active(s)}
<1>1. Claimed = A \cup Reviving /\ A \cap Reviving = {} /\ A \in SUBSET Sessions
      /\ Reviving \in SUBSET Sessions
  BY DEF Claimed, Claims, Reviving
<1> HIDE DEF A
<1>2. /\ IsFiniteSet(A \cup Reviving)
      /\ Cardinality(A) \in Nat /\ Cardinality(Reviving) \in Nat
      /\ Cardinality(A \cup Reviving) = Cardinality(A) + Cardinality(Reviving)
  BY <1>1, Disjoint
<1> QED
  BY <1>1, <1>2 DEF A, ActiveCount

\* A statement on a row whose new status is active is one the row had a claim to.
LEMMA WriterClaims ==
    ASSUME TypeOK, NEW s \in Sessions, NEW t \in Sessions, NEW st \in Statuses,
           SetStatus(s, st) \/ SetStatusFails(s, st),
           Claims(s) \/ st \notin ActiveStatuses, Active(t)'
    PROVE  Claims(t)
BY DEF SetStatus, SetStatusFails, rowVars, Claims, Active, TypeOK, ActiveStatuses

\* A request gains a claim for a row that is active, or for the row it inserts.
LEMMA RequestClaims ==
    ASSUME TypeOK, LinkInv, NEW r \in Requests, RequestStep(r) \/ ClientStep(r),
           NEW t \in Sessions, Claims(t)', ~ Claims(t)
    PROVE  LaunchCreate(r) /\ status' = [status EXCEPT ![t] = "provisioning"]
<1> USE DEF rowVars, gns3Vars, reqVars, reaperVars
<1>1. ASSUME NEW q \in Requests, target'[q] = t, pc'[q] \in {"start_nodes", "set_running"},
             UNCHANGED <<status, prov, reaperVars>>
      PROVE  FALSE
  <2>1. q = r /\ \/ LaunchFind(r, owner[t]) /\ Active(t)
                 \/ LaunchStartNodes(r) /\ target[r] = t
    BY <1>1 DEF RequestStep, LaunchStartNodes, LaunchSetRunning, LaunchTouch, LaunchCount,
       LaunchCreate, EndLabDelete, EndLabEnd, ConsoleEnsureRunning, ClientStep, LaunchFind,
       EndLabGet, Heartbeat, ConsoleOpen, ConsoleTouch, ConsoleClose, Goto, Done, Claims,
       MayBecomeActive, TypeOK
  <2> QED
    BY <2>1 DEF Claims, MayBecomeActive, LaunchStartNodes
<1>2. CASE UNCHANGED <<status, prov>>
  <2>1. UNCHANGED reaperVars
    BY DEF RequestStep, LaunchStartNodes, LaunchSetRunning, LaunchTouch, LaunchCount,
       LaunchCreate, EndLabDelete, EndLabEnd, ConsoleEnsureRunning, ClientStep, LaunchFind,
       EndLabGet, Heartbeat, ConsoleOpen, ConsoleTouch, ConsoleClose
  <2> QED
    BY <1>1, <1>2, <2>1 DEF Claims, MayBecomeActive, Active
<1>3. CASE LaunchSetRunning(r) \/ EndLabEnd(r)
  <2>1. target[r] \in Sessions /\ UNCHANGED <<prov, target, reaperVars>>
    BY <1>3 DEF LaunchSetRunning, EndLabEnd, LinkInv, RequestsLinked
  <2>2. \A q \in Requests : pc'[q] \in {"start_nodes", "set_running"} => pc'[q] = pc[q]
    BY <1>3 DEF LaunchSetRunning, EndLabEnd, Goto, Done, TypeOK
  <2>3. LaunchSetRunning(r) => Claims(target[r])
    BY DEF LaunchSetRunning, Claims, MayBecomeActive
  <2>4. Active(t)' => Claims(t)
    BY <1>3, <2>1, <2>3, WriterClaims
    DEF LaunchSetRunning, EndLabEnd, Statuses, ActiveStatuses
  <2> QED
    BY <2>1, <2>2, <2>4 DEF Claims, MayBecomeActive
<1>4. CASE LaunchCreate(r)
  <2>1. PICK s \in Sessions :
          \/ /\ status' = [status EXCEPT ![s] = "provisioning"]
             /\ prov' = [prov EXCEPT ![s] = "create"]
          \/ UNCHANGED <<status, prov>>
    BY <1>4 DEF LaunchCreate
  <2>2. CASE s = t
    BY <1>2, <1>4, <2>1, <2>2
  <2>3. CASE s # t
    <3>1. status'[t] = status[t] /\ prov'[t] = prov[t]
      BY <2>1, <2>3 DEF TypeOK
    <3>2. \A q \in Requests : pc'[q] \in {"start_nodes", "set_running"} => pc'[q] = pc[q]
      BY <1>4 DEF LaunchCreate, Done, TypeOK
    <3> QED
      BY <1>4, <3>1, <3>2 DEF LaunchCreate, Claims, MayBecomeActive, Active
  <2> QED
    BY <2>2, <2>3
<1> QED
  BY <1>2, <1>3, <1>4 DEF RequestStep, ClientStep, LaunchStartNodes, LaunchTouch, LaunchCount,
     EndLabDelete, ConsoleEnsureRunning, LaunchFind, EndLabGet, Heartbeat, ConsoleOpen,
     ConsoleTouch, ConsoleClose, Touch, TouchFails

\* provision and the reaper only write what they had a claim for.
LEMMA ProvisionClaims ==
    ASSUME TypeOK, NEW s \in Sessions, ProvisionStep(s), NEW t \in Sessions, Claims(t)'
    PROVE  Claims(t)
<1> USE DEF rowVars, gns3Vars, reqVars, reaperVars
<1>1. UNCHANGED <<reqVars, reaperVars>>
  BY DEF ProvisionStep, ProvisionCreate, ProvisionStart, ProvisionCommit, ProvisionFail
<1>2. prov' = [prov EXCEPT ![s] = prov'[s]]
      /\ (prov'[s] \in {"create", "start", "commit"} => prov[s] \in {"create", "start"})
  BY DEF ProvisionStep, ProvisionCreate, ProvisionStart, ProvisionCommit, ProvisionFail, ProvTo,
     TypeOK
<1>3. MayBecomeActive(t)' => MayBecomeActive(t)
  BY <1>1, <1>2 DEF MayBecomeActive, TypeOK
<1>4. Active(t)' => Claims(t)
  <2>1. CASE ProvisionCommit(s)
    BY <2>1 DEF ProvisionCommit, SetStatusFails, Claims, MayBecomeActive, Active, TypeOK
  <2>2. CASE ProvisionFail(s)
    BY <2>2, WriterClaims DEF ProvisionFail, Statuses, ActiveStatuses
  <2>3. CASE UNCHANGED status
    BY <2>3 DEF Claims, Active
  <2> QED
    BY <2>1, <2>2, <2>3 DEF ProvisionStep, ProvisionCreate, ProvisionStart
<1> QED
  BY <1>3, <1>4 DEF Claims

LEMMA ReaperClaims ==
    ASSUME TypeOK, LinkInv, ReaperStep, NEW t \in Sessions, Claims(t)'
    PROVE  Claims(t)
<1> USE DEF rowVars, gns3Vars, reqVars, reaperVars
<1>1. UNCHANGED <<reqVars, prov>>
  BY DEF ReaperStep, ReaperSweep, ReaperSecondTier, ReaperSleep, ReaperTake, ReaperStop,
     ReaperMarkIdle, ReaperConfirmStopped, ReaperDelete, ReaperConfirmGone, ReaperForce, ReaperEnd
<1>2. ASSUME UNCHANGED status,
             tier' = 1 /\ t \in todo' => Claims(t),
             cur' = t /\ rpc' \in {"stop", "mark_idle"} => Claims(t)
      PROVE  Claims(t)
  BY <1>1, <1>2 DEF Claims, MayBecomeActive, Active
<1>3. CASE ReaperSweep
  BY <1>2, <1>3 DEF ReaperSweep, StaleRunning, Claims, Active, ActiveStatuses
<1>4. CASE ReaperSecondTier
  BY <1>2, <1>4 DEF ReaperSecondTier
<1>5. CASE ReaperSleep
  BY <1>2, <1>5 DEF ReaperSleep
<1>6. ASSUME NEW s \in Sessions, ReaperTake(s) PROVE Claims(t)
  BY <1>2, <1>6 DEF ReaperTake, Claims, MayBecomeActive
<1>7. CASE ReaperStop
  BY <1>2, <1>7 DEF ReaperStop, ReaperNext, ReaperGoto, Claims, MayBecomeActive
<1>8. CASE ReaperMarkIdle
  <2>1. cur \in Sessions /\ Claims(cur)
    BY <1>8 DEF ReaperMarkIdle, LinkInv, ReaperLinked, Claims, MayBecomeActive
  <2>2. Active(t)' => Claims(t)
    BY <1>8, <2>1, WriterClaims DEF ReaperMarkIdle, Statuses
  <2>3. MayBecomeActive(t)' => MayBecomeActive(t)
    BY <1>1, <1>8 DEF ReaperMarkIdle, ReaperNext, ReaperGoto, MayBecomeActive
  <2> QED
    BY <2>2, <2>3 DEF Claims
<1>9. CASE ReaperConfirmStopped \/ ReaperDelete \/ ReaperConfirmGone \/ ReaperForce
  <2>1. UNCHANGED <<status, tier, todo>> /\ rpc' \notin {"stop", "mark_idle"}
    BY <1>9 DEF ReaperConfirmStopped, ReaperDelete, ReaperConfirmGone, ReaperForce,
       TeardownGoesOn, TeardownNotConfirmed, ReaperNext, ReaperGoto
  <2> QED
    BY <1>2, <2>1 DEF Claims, MayBecomeActive
<1>10. CASE ReaperEnd
  <2>1. cur \in Sessions
    BY <1>10 DEF ReaperEnd, LinkInv, ReaperLinked
  <2>2. Active(t)' => Claims(t)
    BY <1>10, <2>1, WriterClaims DEF ReaperEnd, Statuses, ActiveStatuses
  <2>3. MayBecomeActive(t)' => MayBecomeActive(t)
    BY <1>1, <1>10 DEF ReaperEnd, ReaperNext, ReaperGoto, MayBecomeActive
  <2> QED
    BY <2>2, <2>3 DEF Claims
<1> QED
  BY <1>3, <1>4, <1>5, <1>6, <1>7, <1>8, <1>9, <1>10 DEF ReaperStep

LEMMA EnvironmentClaims ==
    ASSUME TypeOK, Environment \/ (\E u \in Accounts : DeleteMe(u)) \/ UNCHANGED vars,
           NEW t \in Sessions, Claims(t)'
    PROVE  Claims(t)
<1>1. CASE Crash
  BY <1>1, ConstantsAssumption DEF Crash, rowVars, Claims, MayBecomeActive, Active
<1>2. ASSUME NEW u \in Accounts, DeleteMe(u) PROVE Claims(t)
  <2>1. Active(t)' => Active(t)
    BY <1>2 DEF DeleteMe, Active, ActiveStatuses
  <2>2. MayBecomeActive(t)' => MayBecomeActive(t)
    BY <1>2 DEF DeleteMe, reqVars, reaperVars, MayBecomeActive
  <2> QED
    BY <2>1, <2>2 DEF Claims
<1> QED
  BY <1>1, <1>2 DEF Environment, Tick, GNS3Fails, GNS3Recovers, vars, rowVars, gns3Vars, reqVars,
     reaperVars, Claims, MayBecomeActive, Active

\* The launches between their two statements.
LEMMA CreatingStep ==
    ASSUME TypeOK, [Next]_vars
    PROVE  \/ Creating' \subseteq Creating
           \/ \E r \in Requests : LaunchCount(r) /\ ActiveCount < MaxSessions
                                  /\ Creating' = Creating \cup {r}
<1> USE DEF rowVars, gns3Vars, reqVars, reaperVars
<1>1. CASE UNCHANGED pc
  BY <1>1 DEF Creating
<1>2. ASSUME NEW r \in Requests, NEW l, pc' = [pc EXCEPT ![r] = l], l # "create"
      PROVE  Creating' \subseteq Creating
  BY <1>2 DEF Creating, TypeOK
<1>3. ASSUME NEW r \in Requests, LaunchCount(r)
      PROVE  \/ Creating' \subseteq Creating
             \/ ActiveCount < MaxSessions /\ Creating' = Creating \cup {r}
  <2>1. CASE pc' = [pc EXCEPT ![r] = "done"]
    BY <1>2, <2>1
  <2>2. CASE pc' = [pc EXCEPT ![r] = "create"] /\ ~ (ActiveCount >= MaxSessions)
    <3>1. Creating' = Creating \cup {r}
      BY <2>2 DEF Creating, TypeOK
    <3> QED
      BY <2>2, <3>1, ClaimedSize, ConstantsAssumption
  <2> QED
    BY <1>3, <2>1, <2>2 DEF LaunchCount, Goto, Done
<1>4. ASSUME NEW r \in Requests, RequestStep(r), ~ LaunchCount(r)
      PROVE  Creating' \subseteq Creating
  BY <1>2, <1>4 DEF RequestStep, LaunchStartNodes, LaunchSetRunning, LaunchTouch, LaunchCreate,
     EndLabDelete, EndLabEnd, ConsoleEnsureRunning, Goto, Done
<1>5. ASSUME NEW r \in Requests, ClientStep(r)
      PROVE  Creating' \subseteq Creating
  <2>1. ASSUME NEW k \in Keys, LaunchFind(r, k)
        PROVE  Creating' \subseteq Creating
    BY <1>2, <2>1 DEF LaunchFind, Goto
  <2>2. ASSUME NEW s \in Sessions, EndLabGet(r, s) \/ Heartbeat(r, s) \/ ConsoleOpen(r, s)
        PROVE  Creating' \subseteq Creating
    BY <1>2, <2>2 DEF EndLabGet, Heartbeat, ConsoleOpen, Goto, Done
  <2>3. CASE ConsoleTouch(r)
    BY <2>3 DEF ConsoleTouch, Creating
  <2>4. CASE ConsoleClose(r)
    BY <1>2, <2>4 DEF ConsoleClose, Done
  <2> QED
    BY <1>5, <2>1, <2>2, <2>3, <2>4 DEF ClientStep
<1>6. ASSUME NEW s \in Sessions, ProvisionStep(s)
      PROVE  UNCHANGED pc
  BY <1>6 DEF ProvisionStep, ProvisionCreate, ProvisionStart, ProvisionCommit, ProvisionFail
<1>7. ReaperStep => UNCHANGED pc
  BY DEF ReaperStep, ReaperSweep, ReaperSecondTier, ReaperSleep, ReaperTake, ReaperStop,
     ReaperMarkIdle, ReaperConfirmStopped, ReaperDelete, ReaperConfirmGone, ReaperForce, ReaperEnd
<1>8. Environment \/ UNCHANGED vars => Creating' \subseteq Creating
  BY DEF Environment, Tick, GNS3Fails, GNS3Recovers, Crash, vars, Creating
<1>9. ASSUME NEW u \in Accounts, DeleteMe(u) PROVE UNCHANGED pc
  BY <1>9 DEF DeleteMe
<1> QED
  BY <1>1, <1>3, <1>4, <1>5, <1>6, <1>7, <1>8, <1>9 DEF Next

\* Only a count of the slots that finds one free adds to them and to what may take them.
LEMMA ClaimsStep ==
    ASSUME TypeOK, LinkInv, [Next]_vars
    PROVE  \/ Claimed' \subseteq Claimed /\ Creating' \subseteq Creating
           \/ \E r \in Requests : /\ LaunchCount(r) /\ ActiveCount < MaxSessions
                                  /\ Creating' = Creating \cup {r}
           \/ \E r \in Creating, s \in Sessions :
                 Claimed' \subseteq Claimed \cup {s} /\ Creating' = Creating \ {r}
<1>1. CASE \A t \in Sessions : Claims(t)' => Claims(t)
  <2>1. Claimed' \subseteq Claimed
    BY <1>1 DEF Claimed
  <2> QED
    BY <2>1, CreatingStep
<1>2. ASSUME NEW t \in Sessions, Claims(t)', ~ Claims(t)
      PROVE  \E r \in Creating, s \in Sessions :
                 Claimed' \subseteq Claimed \cup {s} /\ Creating' = Creating \ {r}
  <2>1. PICK r \in Requests : LaunchCreate(r) /\ status' = [status EXCEPT ![t] = "provisioning"]
    BY <1>2, RequestClaims, ProvisionClaims, ReaperClaims, EnvironmentClaims DEF Next
  <2>2. r \in Creating /\ Creating' = Creating \ {r}
    BY <2>1 DEF LaunchCreate, Done, Creating, TypeOK
  <2>3. status[t] # "provisioning"
    BY <1>2 DEF Claims, Active, ActiveStatuses
  <2>4. ASSUME NEW u \in Sessions, Claims(u)', ~ Claims(u) PROVE u = t
    <3>1. status' = [status EXCEPT ![u] = "provisioning"] /\ status[u] # "provisioning"
      BY <2>1, <2>4, RequestClaims DEF RequestStep, Claims, Active, ActiveStatuses
    <3> QED
      BY <2>1, <2>3, <3>1 DEF TypeOK
  <2>5. Claimed' \subseteq Claimed \cup {t}
    BY <2>4 DEF Claimed
  <2> QED
    BY <2>2, <2>5
<1> QED
  BY <1>1, <1>2

LEMMA OverrunStep ==
    ASSUME TypeOK, LinkInv, [Next]_vars, NEW n \in Nat \ {0}, OverrunBy(n), (Pending <= n)'
    PROVE  OverrunBy(n)'
<1>1. /\ IsFiniteSet(Claimed) /\ IsFiniteSet(Creating)
      /\ Cardinality(Claimed) \in Nat /\ Cardinality(Creating) \in Nat
      /\ MaxSessions \in Nat
  BY ClaimedSize, FS_CardinalityType, ConstantsAssumption DEF OverrunBy
<1>2. CASE Claimed' \subseteq Claimed /\ Creating' \subseteq Creating
  <2>1. /\ IsFiniteSet(Creating') /\ Cardinality(Creating') <= Cardinality(Creating)
        /\ Cardinality(Claimed') <= Cardinality(Claimed)
        /\ Cardinality(Creating') \in Nat /\ Cardinality(Claimed') \in Nat
    BY <1>1, <1>2, FS_Subset, FS_CardinalityType
  <2> QED
    BY <1>1, <2>1 DEF OverrunBy
<1>3. ASSUME NEW r \in Requests, LaunchCount(r), ActiveCount < MaxSessions,
             Creating' = Creating \cup {r}
      PROVE  OverrunBy(n)'
  <2>1. IsFiniteSet(Creating') /\ Cardinality(Creating') \in Nat
    BY <1>1, <1>3, FS_AddElement, FS_CardinalityType
  <2>2. ActiveCount' = ActiveCount /\ ActiveCount \in Nat
    BY <1>3, ClaimedSize DEF LaunchCount, rowVars, ActiveCount, Active
  <2>3. /\ Cardinality(Claimed') = ActiveCount' + Cardinality(Reviving')
        /\ Cardinality(Reviving') \in Nat
    <3> DEFINE A == {s \in Sessions : Active(s)}
    <3>1. Claimed' = A' \cup Reviving' /\ A' \cap Reviving' = {} /\ A' \in SUBSET Sessions
          /\ Reviving' \in SUBSET Sessions
      BY DEF Claimed, Claims, Reviving
    <3> HIDE DEF A
    <3>2. /\ Cardinality(Reviving') \in Nat
          /\ Cardinality(A' \cup Reviving') = Cardinality(A') + Cardinality(Reviving')
      BY <3>1, Disjoint
    <3> QED
      BY <3>1, <3>2 DEF A, ActiveCount
  <2>4. Cardinality(Reviving') + Cardinality(Creating') <= n
    BY DEF Pending
  <2> QED
    BY <1>1, <1>3, <2>1, <2>2, <2>3, <2>4 DEF OverrunBy
<1>4. ASSUME NEW r \in Creating, NEW s \in Sessions,
             Claimed' \subseteq Claimed \cup {s}, Creating' = Creating \ {r}
      PROVE  OverrunBy(n)'
  <2>1. /\ IsFiniteSet(Creating') /\ Cardinality(Creating') = Cardinality(Creating) - 1
        /\ Cardinality(Creating') \in Nat
    BY <1>1, <1>4, FS_RemoveElement, FS_CardinalityType
  <2>2. /\ IsFiniteSet(Claimed \cup {s})
        /\ Cardinality(Claimed \cup {s}) <= Cardinality(Claimed) + 1
        /\ Cardinality(Claimed \cup {s}) \in Nat
    <3>1. /\ IsFiniteSet(Claimed \cup {s})
          /\ \/ Cardinality(Claimed \cup {s}) = Cardinality(Claimed)
             \/ Cardinality(Claimed \cup {s}) = Cardinality(Claimed) + 1
      BY <1>1, FS_AddElement
    <3> QED
      BY <1>1, <3>1
  <2>3. Cardinality(Claimed') <= Cardinality(Claimed \cup {s}) /\ Cardinality(Claimed') \in Nat
    BY <1>4, <2>2, FS_Subset, FS_CardinalityType
  <2> QED
    BY <1>1, <2>1, <2>2, <2>3 DEF OverrunBy
<1> QED
  BY <1>2, <1>3, <1>4, ClaimsStep

\* However long the system runs, whatever fails and whoever ends a lab at the wrong moment: the
\* sessions that hold a slot exceed the cap by fewer than were ever on their way at once past
\* the last look at it.  One at a time, and the cap is kept (service.go, Launch: ActiveCount and
\* Create without a transaction; repository.go: SetStatus and SetProvisioned in whatever
\* status the row is).
THEOREM CapOverrunIsBounded ==
    ASSUME NEW CONSTANT n \in Nat \ {0}
    PROVE  Spec /\ [](Pending <= n) => [](ActiveCount < MaxSessions + n)
<1>1. Init => OverrunBy(n)
  <2> SUFFICES ASSUME Init PROVE OverrunBy(n)
    OBVIOUS
  <2>1. Claimed = {} /\ Creating = {}
    BY ConstantsAssumption
    DEF Init, Claimed, Claims, Creating, Active, ActiveStatuses, MayBecomeActive
  <2>2. IsFiniteSet({}) /\ Cardinality({}) = 0
    BY FS_EmptySet
  <2> QED
    BY <2>1, <2>2, ConstantsAssumption DEF OverrunBy
<1>2. TypeOK /\ LinkInv /\ OverrunBy(n) /\ (Pending <= n)' /\ [Next]_vars => OverrunBy(n)'
  BY OverrunStep
<1>3. OverrunBy(n) => ActiveCount < MaxSessions + n
  <2> SUFFICES ASSUME OverrunBy(n) PROVE ActiveCount < MaxSessions + n
    OBVIOUS
  <2>1. Cardinality(Creating) \in Nat
    BY FS_CardinalityType DEF OverrunBy
  <2> QED
    BY <2>1, ClaimedSize, ConstantsAssumption DEF OverrunBy
<1> QED
  BY <1>1, <1>2, <1>3, TypeCorrect, Linked, PTL DEF Spec
=============================================================================
