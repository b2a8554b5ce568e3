----------------------------- MODULE LabSession -----------------------------
(***************************************************************************)
(* Live lab sessions of the NetBreaker API (internal/labsession): the rows *)
(* of table lab_sessions, the GNS3 projects they stand for, and the four   *)
(* kinds of actors that work on both without a common lock:                *)
(*                                                                         *)
(*   requests    one goroutine per HTTP request: Launch, EndLab,           *)
(*               Heartbeat and the browser console                         *)
(*   provision   one goroutine per created row, started by Launch          *)
(*   reaper      one goroutine that suspends idle sessions and tears down  *)
(*               expired ones                                              *)
(*   GNS3        the compute host, reached over REST, which may fail       *)
(*                                                                         *)
(* A step is one SQL statement or one GNS3 call together with the Go code  *)
(* that runs up to the next one.                                           *)
(***************************************************************************)
EXTENDS Naturals, FiniteSets

CONSTANTS
    Sessions,             \* row ids; row s owns at most the GNS3 project s
    Keys,                 \* (user_id, lab_id) pairs
    Accounts,             \* the (user_id, lab_id) pairs of each user who may leave
    Requests,             \* HTTP requests, each served once
    MaxSessions,          \* GNS3_MAX_SESSIONS
    IdleTimeout,          \* GNS3_IDLE_TIMEOUT in ticks of the clock
    SessionTTL,           \* GNS3_SESSION_TTL in ticks of the clock
    MaxStopAttempts,      \* maxStopAttempts
    MaxTeardownAttempts,  \* maxTeardownAttempts
    Faults,               \* the faults that may happen
    NoSession, NoKey      \* "none" for Sessions and for Keys

FaultKinds == {"gns3", "lost_reply", "empty_body", "db", "crash"}

ASSUME ConstantsAssumption ==
    /\ IsFiniteSet(Sessions)
    /\ MaxSessions \in Nat
    /\ IdleTimeout \in Nat /\ SessionTTL \in Nat
    /\ MaxStopAttempts \in Nat \ {0} /\ MaxTeardownAttempts \in Nat \ {0}
    /\ Faults \subseteq FaultKinds
    /\ Accounts \subseteq SUBSET Keys
    /\ NoSession \notin Sessions /\ NoKey \notin Keys

VARIABLES
    \* table lab_sessions
    status,            \* status column, "absent" for a row not inserted yet,
                       \* "deleted" for one that is gone
    owner,             \* (user_id, lab_id)
    erased,            \* the pairs whose user is gone from table users
    linked,            \* gns3_project_id IS NOT NULL; stays when the row goes
    age,               \* now() - last_active_at, saturated at MaxAge
    \* GNS3
    project,           \* the project of a row and the state of its nodes
    gns3Up,            \* whether GNS3 answers calls
    \* provision goroutines
    prov,              \* next call of the goroutine of a row
    \* requests
    pc,                \* next statement or call of a request
    key,               \* the (user, lab) a Launch works for
    target,            \* the row a request read (its snapshot)
    \* reaper
    rpc,               \* next statement or call of the reaper
    tier,              \* the tier of the sweep in progress
    todo,              \* rows of the last query still to be handled
    cur,               \* the row being handled
    stopAttempts,      \* Reaper.stopAttempts
    teardownAttempts   \* Reaper.teardownAttempts

rowVars    == <<status, owner, erased, linked, age>>
gns3Vars   == <<project, gns3Up>>
reqVars    == <<pc, key, target>>
reaperVars == <<rpc, tier, todo, cur, stopAttempts, teardownAttempts>>
vars       == <<rowVars, gns3Vars, prov, reqVars, reaperVars>>

-----------------------------------------------------------------------------
(***************************************************************************)
(* The table.  Nobody but the user's own row takes a session's along, and  *)
(* an actor that holds the id of a deleted row does not notice: its UPDATE *)
(* finds no row, which is no error.                                        *)
(***************************************************************************)
Statuses == {"provisioning", "running", "idle_stopped", "ended", "failed"}

\* The statuses that hold a capacity slot.
ActiveStatuses == {"provisioning", "running", "idle_stopped"}

Exists(s)   == status[s] \in Statuses
Active(s)   == status[s] \in ActiveStatuses
ActiveCount == Cardinality({s \in Sessions : Active(s)})

\* last_active_at only matters through the two thresholds, so the clock stops
\* at the first value past both.
MaxAge == IF IdleTimeout < SessionTTL THEN SessionTTL + 1 ELSE IdleTimeout + 1

\* Faulty variants: tier 1 leaves expired rows to tier 2; no status condition.
StaleUntilExpired == {s \in Sessions :
    status[s] = "running" /\ age[s] > IdleTimeout /\ age[s] <= SessionTTL}
StaleActive == {s \in Sessions : Active(s) /\ age[s] > IdleTimeout}

StaleRunning == {s \in Sessions : status[s] = "running" /\ age[s] > IdleTimeout}
StaleIdle    == {s \in Sessions : status[s] = "idle_stopped" /\ age[s] > SessionTTL}

\* EXCLUDE constraint one_active_session_per_user_lab.
Admissible(s, k, st) ==
    st \in ActiveStatuses =>
        \A t \in Sessions \ {s} : ~ (Active(t) /\ owner[t] = k)

\* UPDATE lab_sessions SET status = st WHERE id = s, in whatever status s is.
SetStatus(s, st) ==
    \/ /\ status[s] # "deleted"
       /\ Admissible(s, owner[s], st)
       /\ status' = [status EXCEPT ![s] = st]
       /\ UNCHANGED <<owner, erased, linked, age>>
    \/ /\ status[s] = "deleted"
       /\ UNCHANGED rowVars

\* The same statement refused by the constraint, or lost with the database.
SetStatusFails(s, st) ==
    /\ "db" \in Faults \/ (status[s] # "deleted" /\ ~ Admissible(s, owner[s], st))
    /\ UNCHANGED rowVars

Touch(s) ==
    /\ age' = IF status[s] = "deleted" THEN age ELSE [age EXCEPT ![s] = 0]
    /\ UNCHANGED <<status, owner, erased, linked>>

TouchFails == "db" \in Faults /\ UNCHANGED rowVars

-----------------------------------------------------------------------------
(***************************************************************************)
(* GNS3 calls.  A call that fails had no effect, or had it and the reply   *)
(* was lost (connection dropped, deadline of Reaper.op or of the request). *)
(***************************************************************************)
Live(s) == project[s] \in {"stopped", "started"}

Becomes(s, st) == project' = [project EXCEPT ![s] = IF Live(s) THEN st ELSE @]

NoReply(s, st) ==
    /\ ~ gns3Up
    /\ UNCHANGED project \/ ("lost_reply" \in Faults /\ Becomes(s, st))

\* StartNodes: any status >= 400, so also 404, is an error.
StartNodes(s) == gns3Up /\ Live(s) /\ Becomes(s, "started")
StartNodesFails(s) ==
    \/ NoReply(s, "started")
    \/ gns3Up /\ ~ Live(s) /\ UNCHANGED project

\* StopNodes and DeleteProject: a 404 is success.
StopNodes(s)          == gns3Up /\ Becomes(s, "stopped")
StopNodesFails(s)     == NoReply(s, "stopped")
DeleteProject(s)      == gns3Up /\ Becomes(s, "gone")
DeleteProjectFails(s) == NoReply(s, "gone")

\* NodesStopped: 404 and an empty node list count as stopped.  doStatus drops
\* the error of a body that could not be read and then decodes nothing, so a
\* response cut before its first byte is an empty node list as well.
NodesStopped(s) == gns3Up /\ (project[s] # "started" \/ "empty_body" \in Faults)
NodesNotStopped(s) == ~ gns3Up \/ project[s] = "started"

\* ProjectExists: only a 404 says that the project is gone.
ProjectGone(s)         == gns3Up /\ ~ Live(s)
ProjectNotKnownGone(s) == ~ gns3Up \/ Live(s)

\* The deadline of Reaper.op runs over the whole of WaitTeardownComplete, its
\* last wait (the settle delay) included, so slow answers alone exhaust it.
DeadlineExpires == "gns3" \in Faults

-----------------------------------------------------------------------------
(***************************************************************************)
(* Requests.                                                               *)
(***************************************************************************)
Done(r)     == pc' = [pc EXCEPT ![r] = "done"]
Goto(r, l)  == pc' = [pc EXCEPT ![r] = l]

\* Launch, FindActiveForUserLab: an idle session is resumed, another active
\* one is returned as it is, otherwise Launch goes on to create one.
LaunchFind(r, k) ==
    /\ pc[r] = "ready"
    /\ \/ \E s \in Sessions :
            /\ Active(s) /\ owner[s] = k
            /\ target' = [target EXCEPT ![r] = s]
            /\ Goto(r, IF status[s] = "idle_stopped" THEN "start_nodes" ELSE "done")
            /\ UNCHANGED key
       \/ /\ ~ \E s \in Sessions : Active(s) /\ owner[s] = k
          /\ key' = [key EXCEPT ![r] = k]
          /\ Goto(r, "count")
          /\ UNCHANGED target
    /\ UNCHANGED <<rowVars, gns3Vars, prov, reaperVars>>

LaunchStartNodes(r) ==
    /\ pc[r] = "start_nodes"
    /\ \/ StartNodes(target[r]) /\ Goto(r, "set_running")
       \/ StartNodesFails(target[r]) /\ Done(r)
    /\ UNCHANGED <<rowVars, gns3Up, prov, key, target, reaperVars>>

LaunchSetRunning(r) ==
    /\ pc[r] = "set_running"
    /\ \/ SetStatus(target[r], "running") /\ Goto(r, "touch")
       \/ SetStatusFails(target[r], "running") /\ Done(r)
    /\ UNCHANGED <<gns3Vars, prov, key, target, reaperVars>>

LaunchTouch(r) ==
    /\ pc[r] = "touch"
    /\ Touch(target[r]) \/ TouchFails
    /\ Done(r)
    /\ UNCHANGED <<gns3Vars, prov, key, target, reaperVars>>

LaunchCount(r) ==
    /\ pc[r] = "count"
    /\ \/ Goto(r, IF ActiveCount >= MaxSessions THEN "done" ELSE "create")
       \/ "db" \in Faults /\ Done(r)
    /\ UNCHANGED <<rowVars, gns3Vars, prov, key, target, reaperVars>>

\* Create, then `go s.provision`.  A user who is gone fails the foreign key.
\* The number of rows is bounded by Sessions.
LaunchCreate(r) ==
    /\ pc[r] = "create"
    /\ Done(r)
    /\ \E s \in Sessions :
        /\ status[s] = "absent"
        /\ \/ /\ key[r] \notin erased /\ Admissible(s, key[r], "provisioning")
              /\ status' = [status EXCEPT ![s] = "provisioning"]
              /\ owner' = [owner EXCEPT ![s] = key[r]]
              /\ age' = [age EXCEPT ![s] = 0]
              /\ prov' = [prov EXCEPT ![s] = "create"]
              /\ UNCHANGED <<erased, linked>>
           \/ /\ \/ "db" \in Faults \/ key[r] \in erased
                 \/ ~ Admissible(s, key[r], "provisioning")
              /\ UNCHANGED <<rowVars, prov>>
    /\ UNCHANGED <<gns3Vars, key, target, reaperVars>>

\* EndLab: the row decides once whether there is a project to delete.
EndLabGet(r, s) ==
    /\ pc[r] = "ready"
    /\ Exists(s)
    /\ target' = [target EXCEPT ![r] = s]
    /\ Goto(r, IF linked[s] THEN "delete_project" ELSE "end_row")
    /\ UNCHANGED <<rowVars, gns3Vars, prov, key, reaperVars>>

EndLabDelete(r) ==
    /\ pc[r] = "delete_project"
    /\ \/ DeleteProject(target[r]) /\ Goto(r, "end_row")
       \/ DeleteProjectFails(target[r]) /\ Done(r)
    /\ UNCHANGED <<rowVars, gns3Up, prov, key, target, reaperVars>>

\* Faulty variant: a status outside the CHECK constraint.
EndLabStops(r) ==
    /\ pc[r] = "end_row"
    /\ SetStatus(target[r], "stopped")
    /\ Done(r)
    /\ UNCHANGED <<gns3Vars, prov, key, target, reaperVars>>

EndLabEnd(r) ==
    /\ pc[r] = "end_row"
    /\ SetStatus(target[r], "ended") \/ SetStatusFails(target[r], "ended")
    /\ Done(r)
    /\ UNCHANGED <<gns3Vars, prov, key, target, reaperVars>>

\* Heartbeat: the owner's client, in whatever status the row is.
Heartbeat(r, s) ==
    /\ pc[r] = "ready"
    /\ Exists(s)
    /\ Touch(s) \/ TouchFails
    /\ Done(r)
    /\ UNCHANGED <<gns3Vars, prov, key, target, reaperVars>>

\* console and consoleVNC: only a running session is opened; the nodes are
\* restarted whether or not that is still its status, and an error of
\* EnsureProjectRunning is only logged.
ConsoleOpen(r, s) ==
    /\ pc[r] = "ready"
    /\ status[s] = "running"
    /\ target' = [target EXCEPT ![r] = s]
    /\ Goto(r, "ensure_running")
    /\ UNCHANGED <<rowVars, gns3Vars, prov, key, reaperVars>>

ConsoleEnsureRunning(r) ==
    /\ pc[r] = "ensure_running"
    /\ StartNodes(target[r]) \/ StartNodesFails(target[r])
    /\ Goto(r, "bridge")
    /\ UNCHANGED <<rowVars, gns3Up, prov, key, target, reaperVars>>

\* Keystrokes and the 60s keep-alive of an open console touch the row.
ConsoleTouch(r) ==
    /\ pc[r] = "bridge"
    /\ Touch(target[r]) \/ TouchFails
    /\ UNCHANGED <<gns3Vars, prov, reqVars, reaperVars>>

ConsoleClose(r) ==
    /\ pc[r] = "bridge"
    /\ Done(r)
    /\ UNCHANGED <<rowVars, gns3Vars, prov, key, target, reaperVars>>

-----------------------------------------------------------------------------
(***************************************************************************)
(* Service.provision.  The project id is only written to the row by the    *)
(* last statement; a failure before that abandons the project.             *)
(***************************************************************************)
ProvTo(s, l) == prov' = [prov EXCEPT ![s] = l]

\* EnsureKaliImage and CreateProject.
ProvisionCreate(s) ==
    /\ prov[s] = "create"
    /\ \/ /\ gns3Up
          /\ project' = [project EXCEPT ![s] = "stopped"]
          /\ ProvTo(s, "start")
       \/ /\ "gns3" \in Faults
          /\ \/ UNCHANGED project
             \/ /\ "lost_reply" \in Faults
                /\ project' = [project EXCEPT ![s] = "stopped"]
          /\ ProvTo(s, "fail")
    /\ UNCHANGED <<rowVars, gns3Up, reqVars, reaperVars>>

\* ProvisionTopology, StartNodes and PopulateNodeMACs (whose errors are ignored).
ProvisionStart(s) ==
    /\ prov[s] = "start"
    /\ \/ StartNodes(s) /\ ProvTo(s, "commit")
       \/ /\ "gns3" \in Faults
          /\ UNCHANGED project \/ ("lost_reply" \in Faults /\ Becomes(s, "started"))
          /\ ProvTo(s, "fail")
    /\ UNCHANGED <<rowVars, gns3Up, reqVars, reaperVars>>

\* SetProvisioned, in whatever status the row is by now.
ProvisionCommit(s) ==
    /\ prov[s] = "commit"
    /\ \/ /\ status[s] # "deleted"
          /\ Admissible(s, owner[s], "running")
          /\ status' = [status EXCEPT ![s] = "running"]
          /\ linked' = [linked EXCEPT ![s] = TRUE]
          /\ age' = [age EXCEPT ![s] = 0]
          /\ UNCHANGED <<owner, erased>>
       \/ status[s] = "deleted" /\ UNCHANGED rowVars
       \/ SetStatusFails(s, "running")
    /\ ProvTo(s, "off")
    /\ UNCHANGED <<gns3Vars, reqVars, reaperVars>>

\* Faulty variants: no return after the failure; no status written.
ProvisionFailGoesOn(s) ==
    /\ prov[s] = "fail"
    /\ SetStatus(s, "failed")
    /\ ProvTo(s, "commit")
    /\ UNCHANGED <<gns3Vars, reqVars, reaperVars>>
ProvisionFailSilent(s) ==
    /\ prov[s] = "fail"
    /\ ProvTo(s, "off")
    /\ UNCHANGED <<rowVars, gns3Vars, reqVars, reaperVars>>

ProvisionFail(s) ==
    /\ prov[s] = "fail"
    /\ SetStatus(s, "failed") \/ SetStatusFails(s, "failed")
    /\ ProvTo(s, "off")
    /\ UNCHANGED <<gns3Vars, reqVars, reaperVars>>

-----------------------------------------------------------------------------
(***************************************************************************)
(* Reaper.  A sweep handles the rows its two queries returned one after    *)
(* the other; what it knows of a row is what the query read.               *)
(***************************************************************************)
AtMost(n, bound) == IF n > bound THEN bound ELSE n

ReaperGoto(l) == rpc' = l /\ UNCHANGED <<tier, todo>>

\* Back to the rows of the tier in progress.
ReaperNext == ReaperGoto("loop") /\ cur' = NoSession

\* Reaper.sweep: the two queries; a failed one is logged and skipped.
ReaperSweep ==
    /\ rpc = "sleep"
    /\ rpc' = "loop" /\ tier' = 1
    /\ todo' = StaleRunning \/ ("db" \in Faults /\ todo' = {})
    /\ UNCHANGED <<cur, stopAttempts, teardownAttempts>>
    /\ UNCHANGED <<rowVars, gns3Vars, prov, reqVars>>

ReaperSecondTier ==
    /\ rpc = "loop" /\ tier = 1 /\ todo = {}
    /\ tier' = 2
    /\ todo' = StaleIdle \/ ("db" \in Faults /\ todo' = {})
    /\ UNCHANGED <<rpc, cur, stopAttempts, teardownAttempts>>
    /\ UNCHANGED <<rowVars, gns3Vars, prov, reqVars>>

ReaperSleep ==
    /\ rpc = "loop" /\ tier = 2 /\ todo = {}
    /\ rpc' = "sleep"
    /\ UNCHANGED <<tier, todo, cur, stopAttempts, teardownAttempts>>
    /\ UNCHANGED <<rowVars, gns3Vars, prov, reqVars>>

\* The next row: suspend(s) in tier 1, teardown(s) in tier 2.
ReaperTake(s) ==
    /\ rpc = "loop" /\ s \in todo
    /\ todo' = todo \ {s}
    /\ cur' = s
    /\ rpc' = IF tier = 1 THEN "stop" ELSE "confirm_stopped"
    /\ UNCHANGED <<tier, stopAttempts, teardownAttempts>>
    /\ UNCHANGED <<rowVars, gns3Vars, prov, reqVars>>

\* suspend: StopNodes, counting the failures of this row.
ReaperStop ==
    /\ rpc = "stop"
    /\ \/ /\ StopNodes(cur)
          /\ ReaperGoto("mark_idle")
          /\ UNCHANGED <<cur, stopAttempts>>
       \/ /\ StopNodesFails(cur)
          /\ stopAttempts' =
                [stopAttempts EXCEPT ![cur] = AtMost(@ + 1, MaxStopAttempts)]
          /\ IF stopAttempts'[cur] >= MaxStopAttempts
             THEN ReaperGoto("force") /\ UNCHANGED cur
             ELSE ReaperNext
    /\ UNCHANGED <<rowVars, gns3Up, prov, reqVars, teardownAttempts>>

\* The error of SetStatus is dropped.
ReaperMarkIdle ==
    /\ rpc = "mark_idle"
    /\ SetStatus(cur, "idle_stopped") \/ SetStatusFails(cur, "idle_stopped")
    /\ stopAttempts' = [stopAttempts EXCEPT ![cur] = 0]
    /\ ReaperNext
    /\ UNCHANGED <<gns3Vars, prov, reqVars, teardownAttempts>>

\* teardown, an unconfirmed WaitTeardownComplete.
TeardownNotConfirmed ==
    /\ teardownAttempts' =
          [teardownAttempts EXCEPT ![cur] = AtMost(@ + 1, MaxTeardownAttempts)]
    /\ IF teardownAttempts'[cur] >= MaxTeardownAttempts
       THEN ReaperGoto("force") /\ UNCHANGED cur
       ELSE ReaperNext

TeardownGoesOn(l) == ReaperGoto(l) /\ UNCHANGED <<cur, teardownAttempts>>

\* WaitTeardownComplete: poll the nodes, delete, poll the project.
ReaperConfirmStopped ==
    /\ rpc = "confirm_stopped"
    /\ \/ NodesStopped(cur) /\ TeardownGoesOn("delete")
       \/ (NodesNotStopped(cur) \/ DeadlineExpires) /\ TeardownNotConfirmed
    /\ UNCHANGED <<rowVars, gns3Vars, prov, reqVars, stopAttempts>>

ReaperDelete ==
    /\ rpc = "delete"
    /\ \/ DeleteProject(cur) /\ TeardownGoesOn("confirm_gone")
       \/ DeleteProjectFails(cur) /\ TeardownNotConfirmed
    /\ UNCHANGED <<rowVars, gns3Up, prov, reqVars, stopAttempts>>

ReaperConfirmGone ==
    /\ rpc = "confirm_gone"
    /\ \/ ProjectGone(cur) /\ TeardownGoesOn("end")
       \/ (ProjectNotKnownGone(cur) \/ DeadlineExpires) /\ TeardownNotConfirmed
    /\ UNCHANGED <<rowVars, gns3Vars, prov, reqVars, stopAttempts>>

\* Faulty variants: the slot is released although the delete failed; the
\* delete is retried until it succeeds.
ReaperForceOptimistic ==
    /\ rpc = "force"
    /\ DeleteProject(cur) \/ DeleteProjectFails(cur)
    /\ ReaperGoto("end")
    /\ UNCHANGED <<cur, rowVars, gns3Up, prov, reqVars, stopAttempts, teardownAttempts>>
ReaperForceRetries ==
    /\ rpc = "force"
    /\ \/ DeleteProject(cur) /\ ReaperGoto("end")
       \/ DeleteProjectFails(cur) /\ ReaperGoto("force")
    /\ UNCHANGED <<cur, rowVars, gns3Up, prov, reqVars, stopAttempts, teardownAttempts>>

\* Escalation of both tiers: only a successful delete releases the slot.
ReaperForce ==
    /\ rpc = "force"
    /\ \/ DeleteProject(cur) /\ ReaperGoto("end") /\ UNCHANGED cur
       \/ DeleteProjectFails(cur) /\ ReaperNext
    /\ UNCHANGED <<rowVars, gns3Up, prov, reqVars, stopAttempts, teardownAttempts>>

\* Repository.End; its error is dropped.
ReaperEnd ==
    /\ rpc = "end"
    /\ SetStatus(cur, "ended") \/ SetStatusFails(cur, "ended")
    /\ stopAttempts' = [stopAttempts EXCEPT ![cur] = 0]
    /\ teardownAttempts' =
          IF tier = 2 THEN [teardownAttempts EXCEPT ![cur] = 0] ELSE teardownAttempts
    /\ ReaperNext
    /\ UNCHANGED <<gns3Vars, prov, reqVars>>

-----------------------------------------------------------------------------
(***************************************************************************)
(* Environment.                                                            *)
(***************************************************************************)
Tick ==
    /\ \E s \in Sessions : Exists(s) /\ age[s] < MaxAge
    /\ age' = [s \in Sessions |->
                 IF Exists(s) THEN AtMost(age[s] + 1, MaxAge) ELSE age[s]]
    /\ UNCHANGED <<status, owner, erased, linked, gns3Vars, prov, reqVars, reaperVars>>

\* users Repository.Delete (DELETE /me): the rows of the user go with ON DELETE
\* CASCADE, whatever their status; GNS3 and the goroutines are not told.
DeleteMe(u) ==
    /\ ~ u \subseteq erased
    /\ erased' = erased \cup u
    /\ status' = [s \in Sessions |->
                    IF Exists(s) /\ owner[s] \in u THEN "deleted" ELSE status[s]]
    /\ age' = [s \in Sessions |-> IF Exists(s) /\ owner[s] \in u THEN 0 ELSE age[s]]
    /\ UNCHANGED <<owner, linked, gns3Vars, prov, reqVars, reaperVars>>

GNS3Fails ==
    /\ "gns3" \in Faults /\ gns3Up
    /\ gns3Up' = FALSE
    /\ UNCHANGED <<rowVars, project, prov, reqVars, reaperVars>>

GNS3Recovers ==
    /\ ~ gns3Up
    /\ gns3Up' = TRUE
    /\ UNCHANGED <<rowVars, project, prov, reqVars, reaperVars>>

\* The API process restarts: goroutines and the reaper's maps are lost, the
\* database and GNS3 go on.
Crash ==
    /\ "crash" \in Faults
    /\ pc' = [r \in Requests |-> IF pc[r] = "ready" THEN "ready" ELSE "done"]
    /\ prov' = [s \in Sessions |-> "off"]
    /\ rpc' = "sleep" /\ todo' = {} /\ cur' = NoSession
    /\ stopAttempts' = [s \in Sessions |-> 0]
    /\ teardownAttempts' = [s \in Sessions |-> 0]
    /\ UNCHANGED <<rowVars, gns3Vars, key, target, tier>>

-----------------------------------------------------------------------------
Init ==
    /\ status = [s \in Sessions |-> "absent"]
    /\ owner = [s \in Sessions |-> NoKey]
    /\ erased = {}
    /\ linked = [s \in Sessions |-> FALSE]
    /\ age = [s \in Sessions |-> 0]
    /\ project = [s \in Sessions |-> "none"]
    /\ gns3Up = TRUE
    /\ prov = [s \in Sessions |-> "off"]
    /\ pc = [r \in Requests |-> "ready"]
    /\ key = [r \in Requests |-> NoKey]
    /\ target = [r \in Requests |-> NoSession]
    /\ rpc = "sleep" /\ tier = 1 /\ todo = {} /\ cur = NoSession
    /\ stopAttempts = [s \in Sessions |-> 0]
    /\ teardownAttempts = [s \in Sessions |-> 0]

\* Steps of a request after its first statement.
RequestStep(r) ==
    \/ LaunchStartNodes(r) \/ LaunchSetRunning(r) \/ LaunchTouch(r)
    \/ LaunchCount(r) \/ LaunchCreate(r)
    \/ EndLabDelete(r) \/ EndLabEnd(r)
    \/ ConsoleEnsureRunning(r)

\* What users decide.
ClientStep(r) ==
    \/ \E k \in Keys : LaunchFind(r, k)
    \/ \E s \in Sessions : EndLabGet(r, s) \/ Heartbeat(r, s) \/ ConsoleOpen(r, s)
    \/ ConsoleTouch(r) \/ ConsoleClose(r)

ProvisionStep(s) ==
    ProvisionCreate(s) \/ ProvisionStart(s) \/ ProvisionCommit(s) \/ ProvisionFail(s)

ReaperStep ==
    \/ ReaperSweep \/ ReaperSecondTier \/ ReaperSleep
    \/ \E s \in Sessions : ReaperTake(s)
    \/ ReaperStop \/ ReaperMarkIdle
    \/ ReaperConfirmStopped \/ ReaperDelete \/ ReaperConfirmGone
    \/ ReaperForce \/ ReaperEnd

Environment == Tick \/ GNS3Fails \/ GNS3Recovers \/ Crash

Next ==
    \/ \E r \in Requests : RequestStep(r) \/ ClientStep(r)
    \/ \E s \in Sessions : ProvisionStep(s)
    \/ ReaperStep
    \/ \E u \in Accounts : DeleteMe(u)
    \/ Environment

Spec == Init /\ [][Next]_vars

\* The Go runtime schedules every goroutine, the ticker fires, time passes.
Fairness ==
    /\ \A r \in Requests : WF_vars(RequestStep(r))
    /\ \A s \in Sessions : WF_vars(ProvisionStep(s))
    /\ WF_vars(ReaperStep)
    /\ WF_vars(Tick)

FairSpec == Spec /\ Fairness

-----------------------------------------------------------------------------
(***************************************************************************)
(* Properties.                                                             *)
(***************************************************************************)

\* Every variable keeps its type.
TypeOK ==
    /\ status \in [Sessions -> Statuses \cup {"absent", "deleted"}]
    /\ owner \in [Sessions -> Keys \cup {NoKey}]
    /\ erased \in SUBSET Keys
    /\ linked \in [Sessions -> BOOLEAN]
    /\ age \in [Sessions -> 0..MaxAge]
    /\ project \in [Sessions -> {"none", "stopped", "started", "gone"}]
    /\ gns3Up \in BOOLEAN
    /\ prov \in [Sessions -> {"off", "create", "start", "commit", "fail"}]
    /\ pc \in [Requests -> {"ready", "start_nodes", "set_running", "touch",
                            "count", "create", "delete_project", "end_row",
                            "ensure_running", "bridge", "done"}]
    /\ key \in [Requests -> Keys \cup {NoKey}]
    /\ target \in [Requests -> Sessions \cup {NoSession}]
    /\ rpc \in {"sleep", "loop", "stop", "mark_idle", "confirm_stopped",
                "delete", "confirm_gone", "force", "end"}
    /\ tier \in {1, 2}
    /\ todo \in SUBSET Sessions
    /\ cur \in Sessions \cup {NoSession}
    /\ stopAttempts \in [Sessions -> 0..MaxStopAttempts]
    /\ teardownAttempts \in [Sessions -> 0..MaxTeardownAttempts]

\* How the rows, the projects and what the actors have read hang together:
\* provisioning creates the project of a row once and records it last; a
\* recorded project existed; whoever holds a row past its first read holds one
\* that was recorded; and once the reaper is about to end a row, nothing can
\* bring its project back.
RowsLinked ==
    \A s \in Sessions :
        /\ status[s] = "absent" => ~ linked[s] /\ prov[s] = "off" /\ project[s] = "none"
        /\ status[s] = "failed" => prov[s] = "off"
        /\ status[s] \in {"running", "idle_stopped"} => linked[s]
        /\ linked[s] => /\ prov[s] = "off" /\ project[s] # "none"
                       /\ status[s] \notin {"absent", "provisioning", "failed"}
        /\ prov[s] = "create" => project[s] = "none"
        /\ prov[s] \in {"start", "commit"} => Live(s)

RequestsLinked ==
    \A r \in Requests :
        /\ pc[r] \in {"start_nodes", "set_running", "delete_project", "ensure_running"}
              => target[r] \in Sessions /\ linked[target[r]]
        /\ pc[r] \in {"touch", "end_row", "bridge"}
              => target[r] \in Sessions /\ status[target[r]] # "absent"

ReaperLinked ==
    /\ \A s \in todo : linked[s]
    /\ rpc \notin {"sleep", "loop"} => cur \in Sessions /\ linked[cur]
    /\ rpc = "end" => project[cur] = "gone"

LinkInv == RowsLinked /\ RequestsLinked /\ ReaperLinked

\* Nobody dereferences a nil gns3_project_id: Launch resumes
\* (*existing.GNS3ProjectID) and the reaper handles only rows whose project is
\* recorded, however the statements of the actors interleave.  It also says
\* that the nil branches of Reaper.suspend and Reaper.teardown are unreachable.
NoNilProject ==
    /\ \A s \in Sessions : status[s] \in {"running", "idle_stopped"} => linked[s]
    /\ \A r \in Requests :
          pc[r] \in {"start_nodes", "delete_project", "ensure_running"} => linked[target[r]]
    /\ \A s \in todo : linked[s]
    /\ rpc \notin {"sleep", "loop"} => linked[cur]

\* The reaper frees the slot of a session only once its project is gone from
\* GNS3 (reaper.go: "a session's DB status is only advanced to a state that
\* frees a capacity slot (ended) once the underlying GNS3 resources are
\* actually gone"), whatever requests and provisioning do meanwhile.
HonestReaper ==
    [][\A s \in Sessions :
          ReaperStep /\ Active(s) /\ ~ Active(s)' => project[s] = "gone"]_vars

\* A session whose provisioning failed never takes a slot again, although
\* every writer of the status column writes it unconditionally.
FailedIsFinal ==
    [][\A s \in Sessions : status[s] = "failed" => ~ Active(s)']_vars

\* If GNS3 is eventually reachable for good and no console stays open, the
\* reaper ends every session that got as far as running, also those it or a
\* request revived, those whose project is gone, and those whose calls failed
\* or were cut short before: no slot is lost for ever behind such a row.
SlotsReclaimed ==
    <>[]gns3Up /\ <>[](\A r \in Requests : pc[r] # "bridge") =>
        <>[](\A s \in Sessions : status[s] \notin {"running", "idle_stopped"})

\* As long as the process lives, a session leaves 'provisioning'.
ProvisioningResolves ==
    \A s \in Sessions : status[s] = "provisioning" ~> status[s] # "provisioning"

\* Every sweep ends, however GNS3 behaves: Reaper.op bounds each call, and a
\* session that cannot be handled is left for a later sweep.
SweepTerminates == rpc # "sleep" ~> rpc = "sleep"

-----------------------------------------------------------------------------
(***************************************************************************)
(* Statements of the source's comments that the code does not keep.        *)
(***************************************************************************)

\* "Idle_stopped sessions past GNS3SessionTTL -> DeleteProject + ended":
\* tier 2 deletes the project of suspended sessions only.
OnlySuspendedIsTornDown ==
    [][\A s \in Sessions :
          rpc \in {"delete", "force"} /\ tier = 2 /\ cur = s /\ project[s] # "gone"
              /\ project'[s] = "gone" => status[s] = "idle_stopped"]_vars

\* "Reaper is a background goroutine that reclaims stale lab sessions": a
\* session does not hold its slot for ever without a client.
EverySlotReclaimed ==
    <>[]gns3Up /\ <>[](\A r \in Requests : pc[r] # "bridge") =>
        <>[](\A s \in Sessions : ~ Active(s))

====
