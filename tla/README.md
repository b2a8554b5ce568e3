# NetBreaker: TLA+ models, model checking and proofs

NetBreaker is a Go API for a CCNA lab platform.  A student launches a *live lab*:
the API creates a project of emulated devices on a GNS3 host, bridges the device
consoles to the browser, verifies the student's work on the devices and records
progress, and a background reaper gives the scarce compute capacity back.  The
models here follow the Go code and the SQL of `internal/`, not the comments;
where a comment promises more than the code does, a run or section 3 shows the
difference.

## 1. The system

| Component | State it keeps | Operations | What is hard about it |
|---|---|---|---|
| Lab session service (`labsession/service.go`, `repository.go`, `handlers.go`) | rows of `lab_sessions`: status, owner, `gns3_project_id`, `last_active_at` | Launch, EndLab, Heartbeat, `provision` goroutine | no lock and no transaction: every SQL statement and GNS3 call is a step of its own; restarts lose goroutines; every status write is unconditional |
| Reaper (`reaper.go`) | attempt counters in memory | sweep: suspend, teardown, escalation | works on a snapshot; calls to GNS3 fail or lose their reply; must not free a slot early and must not stall |
| Teardown verifier (`teardown_verifier.go`), GNS3 client (`gns3client_impl.go`) | none | poll, delete, poll, settle under one deadline | what counts as evidence when a response is late, cut or an error |
| Console lock (`console_lock.go`) | map (session, node) -> holder, token, callback | TryLock, unlock, SetPreempt, ForceRelease | late unlocks after preemption; registration of the callback races the preemption |
| Console bridge (`console.go`) | one WebSocket, one TCP connection, four goroutines | read loop, relay, ping, keep-alive | every way of dying must release connection, goroutines and lock |
| Verification (`verification/handler.go`, `verify/`) | evidence cache per run | Verify, RunCommand | 25 s deadline against partial results; console shared with the student |
| Authentication (`auth/service.go`) | users, refresh tokens | Register, Login, Refresh, Logout | read-then-revoke of one token by concurrent requests |
| Subscriptions (`subscription/webhook.go`), admin | plan, `plan_expires_at`, Stripe ids | three webhooks, SetPlan, login downgrade | events late, twice or out of order |
| Lab topologies (`labNN_topology.go`), provisioning (`service.go`, `gns3client_impl.go`) | the project under construction, the node map | `provision`: project, nodes, links, start, MAC addresses, `SetProvisioned` | many calls, each of which may fail or lose its reply; interface names, node types and links must fit what GNS3 accepts |
| Verifiers (`labNN_verify.go`, `verify/dsl.go`, `parse.go`, `lab15_scenario.go`) | none | one list of assertions per lab and phase; a fault injection | what an assertion decides when the device is in a state nobody thought of |
| Teams (`team/repository.go`) | teams, members, seat count | GetOrCreate, AddMember, RemoveMember | count-then-insert; look-then-insert |
| Progress, certificates | `user_progress`, `certificates` | Mark, Unmark, GetOrCreate | check-then-insert, a catalogue that migrations change, accounts that are deleted |
| Rate limiter (`pkg/ratelimit`) | buckets per client | allow, cleanup goroutine | two locks, one field read under the wrong one |
| Lab content, e-mail, storage, configuration, frontend, scripts, topology generator | none or data only | | not modelled: see section 5 |

Interaction: HTTP handlers call the service; the service starts one `provision`
goroutine per created row; the reaper is one goroutine for the whole process;
all of them read and write `lab_sessions` and call the same GNS3 host.  The
console handler and the verification handler share the console lock, and both
touch or read the session row.  A passed verification writes progress, progress
feeds the certificate; webhooks, the admin and the login write the plan that
gates Launch.

PROJECT.json lists every component with its status, and every hazard at its line.

## 2. Modules

| Module | Models | Proofs |
|---|---|---|
| `LabSession` | sessions, provisioning, requests, reaper and GNS3 as seen by them | `LabSessionProofs` |
| `ConsoleLock` | the console lock and its users, the console and the verification handler | `ConsoleLockProofs` |
| `NodeAccess` | abstract: what the lock promises of a node | |
| `ConsoleTruth` | one verification run: assertions, evidence cache, the lines on the console, the recorded pass | `ConsoleTruthProofs` |
| `Entitlement` | the plan of a user: Stripe's events, the downgrade at login, the admin | `EntitlementProofs` |
| `RefreshTokens` | the refresh tokens of an account: register, login, refresh, logout, cookies | `RefreshTokensProofs` |
| `Catalogue` | the topologies of the 41 live labs (no state) | |
| `Provisioning` | `Service.provision` call by call, for any topology | `ProvisioningProofs` |
| `LaunchOutcome` | abstract: what a launch makes of its row | |
| `Verifiers` | the verifiers main registers (no state) | |
| `ProvisionedLab` | composes the last four: what a verification finds of a session that was provisioned | `ProvisioningProofs` |
| `LabVerdicts` | what each assertion decides of the lab while the student, the hosts and Kali change it | `LabVerdictsProofs` |
| `Cohort` | teams, seats, progress and certificates of several accounts | `CohortProofs` |
| `MC*` | model values, symmetry, which topologies and phases TLC works on; `MCConsoleTruth` a verifier of three assertions and two commands | |

### LabSession

A step is one SQL statement or one GNS3 call, with the Go code up to the next
one.  That is the granularity at which actors of this program can interleave:
there is no lock and no transaction around anything in `internal/labsession`
except the single statements.

*State.*  `status`, `owner`, `linked` and `age` are the columns of the row
(`linked` stands for `gns3_project_id IS NOT NULL`, `age` for
`now() - last_active_at` in ticks, saturated just above both thresholds), `erased`
the (user, lab) pairs of users who are gone.  A deleted row keeps its index with the
status `deleted`, because an actor may still hold its id.
`project` is what GNS3 holds for the row: none, stopped, started or gone;
`gns3Up` whether it answers.  `prov`, `pc`/`key`/`target` and
`rpc`/`tier`/`todo`/`cur` are the control points and local variables of the
provision goroutines, the requests and the reaper; `stopAttempts` and
`teardownAttempts` are the reaper's maps (absent = 0).

*Actions.*  `Launch*`, `EndLab*`, `Heartbeat`, `Console*`, `Provision*` and
`Reaper*` carry the names of the functions they translate; each control point is
named after the call it is about to make.  `Repository.SetStatus`, `End` and
`SetProvisioned` write in whatever status the row is, as the SQL does, and are
refused only by the EXCLUDE constraint (`Admissible`).  `DeleteMe` is the owner's
`DELETE /me`: `lab_sessions.user_id` is ON DELETE CASCADE
(`024_lab_sessions.up.sql:3`), so the rows go in whatever status they are, while the
projects, the provision goroutines, the requests and the reaper that hold their ids
go on.  A statement on such a row finds none, which the code takes for success, and
a Launch under way fails at its INSERT.  `Accounts` says which users may leave.

*Faults*, chosen by the constant `Faults`: GNS3 fails and recovers at any time
(`gns3`); a failed call may have had its effect (`lost_reply`); a response of
`NodesStopped` may be cut before its first byte, which `doStatus` takes for an
empty list (`empty_body`); any statement may fail (`db`); the process may
restart (`crash`).

*Left out.*  Plan gate and conceptual labs (Launch returns before any change);
node maps and MAC addresses (data); a statement that is executed while its
acknowledgement is lost; a call GNS3 executes long after the client gave up;
the branches of suspend and teardown for a missing project id, which
`NoNilProject` shows to be unreachable.  Attempt counters stop at their maximum:
only `>= max` is ever asked.

### ConsoleLock and NodeAccess

A step is one critical section of `ConsoleLock.mu` or one operation on a
WebSocket or a TCP connection.  The lock is in memory and per process, so one
process is all there is to model (`console_lock.go:28-46` states the
constraint).  Nodes with a VNC console take no lock and are left out.

*State.*  `locks` is the map (`Free` for a missing key), `nextToken` the
generation counter.  A request has a control point `pc`, the key `node` it works
on and the `token` its unlock closure captured; `tcp` says whether it is
connected to the node, `ws` what became of a console's WebSocket, `left` how many
commands a verification has still to run, `victim` the callback that
`ForceRelease` copied before it let go of the mutex.

*Actions.*  `Console*` is `Handler.console` from `TryLock` to the deferred calls
in their order: TCP, WebSocket, unlock.  `Verify*` is `consoleTruthVerify` with
one connection per command.  With `Preemption` the verification takes the two
steps its `TODO(preemption)` prescribes, `ForceRelease` and a second `TryLock`;
without it the handlers are as deployed.

*Abstract specification.*  In `NodeAccess` a node is owned by at most one user
and only its owner connects; ownership ends after the connection.  `owner` maps
to the requests whose unlock would delete the entry of the node, `conn` to those
connected to it.

### ConsoleTruth

The verifications of one device, one after the other: `ConsoleLock` shows that
they do not overlap.  A step is one line sent, one `readUntilPrompt`, one
assertion answered from the cache, or the report.

*State.*  `inbox` and `out` are the two directions of the console: lines the
device has not answered, and answers nobody has read.  An answer is a *segment*
that ends in a prompt; of the output of a show command it keeps which of the
assertions about that command it satisfies (`val`).  `todo`, `failed`,
`evidence` and `fetched` are the locals of `Verifier.Run` and the
`EvidenceStore`; `step` is the place of `RunCommand` in its five lines (three
nudges, `terminal length 0`, the command); `late` and `expired` say that the
deadline has passed and that `ctx.Err()` says so.  `shown` and `disturbed` are
history: what the device answered in this run, and whether the run met something
it does not guard against.

*Actions.*  `CheckAssertion`, `Dial`, `Send`, `ReadPrompt`, `ReadLate`,
`ReadFails`, `Report`, `Mark`.  A read may return several segments at once.  The
prompt is matched at the end of the text (`iosPromptRe` ends in `$`), so all of
them are returned.  The device may change between any two lines: each answer is
a free choice.  A text that is not the output of the command it is parsed as may
show anything (`Parse`): some checks hold of a text that says nothing, such as
`ExpectNotReachable`.

*Faults.*  The console replays to a new connection what nobody read (`replay`),
as the comment in `RunCommand` reports of GNS3; the timer of the context fires
after its deadline (`timer_lag`), so that `readUntilPrompt` returns no text and
no error.

*Left out.*  The order of the assertions (any order is possible); the legacy
verifiers, which never pass; whether `Mark` succeeds (`Cohort` has it); what an
assertion decides of an output (`LabVerdicts` has it).

### Catalogue, Provisioning, ProvisionedLab, LaunchOutcome

`LabSession` takes `provision` as four steps among everybody else who writes the
row.  `Provisioning` takes the same goroutine apart and adds the content of the
lab; the row belongs to the goroutine there.  A step is one GNS3 call or one SQL
statement, `CreateNode` and `CreateLink` one round of the loops of
`ProvisionTopology` and `createLinks`.

*State.*  `row` is the row of each session (status, project, node map), `pc`,
`next`, `name` and `nodeMap` the locals of `provision`, `project` what GNS3 holds
for it (name, nodes, cables as the set of occupied ports, started), `second` is
`time.Now().Unix()`, `faulted` (history) the sessions a fault has happened to.
`lab` is the topology, an entry of `Catalogue`: every node with its type and the
properties a create call or a port depends on, every link with its interface
names.

*Actions.*  `Launch`, `EnsureKaliImage`, `CreateProject`, `CreateNode`,
`NodesCreated`, `CreateLink`, `LinksCreated`, `StartNodes`, `PopulateNodeMACs`,
`SetProvisioned`, `SetFailed`.  `Payload` is the create request with the defaults of
the `switch` on the node type, `interfaceToPort` the mapping of a name to adapter
and port for every type.

*External.*  GNS3 refuses a second project of the same name, a node whose type
requires a property the payload lacks, and a link to a port the node does not
have (`PortsOf`: adapters of an IOU, slots and modules of a Dynamips, adapters
of an appliance) or that is in use.  These are modelled from how the code uses
them and from the comments in the topologies.

*Faults.*  A call fails (`gns3`); it fails after it had its effect
(`lost_reply`); the console of a VPCS does not answer (`mac`); a statement fails
(`db`); the process restarts (`crash`).

*Abstract specification.*  In `LaunchOutcome` a row changes once: to running,
with a project and an entry for every node, or to failed, naming no project; an
interrupted launch stays as it was.

`ProvisionedLab` adds what `verify_resolver.go` and `verify/lab_session.go` hand
to a verification, and `VerifiersServed`: every verifier main registers for a lab
finds, in every session that provisioning made running, the console, the cables
and the distinct MAC addresses its assertions speak of.

*Left out.*  Startup configurations; image names; the telnet dialogue that asks a
VPCS for its address.

### Verifiers, LabVerdicts

A verification is one step here; how it reads the console is in `ConsoleTruth`.

*State.*  `work`, `verifier`, `behind`, `hosts` and `known` are fixed by the
session: phase, registry entry, where the links of the topology lead, which MAC
addresses provisioning resolved.  `port`, `recovery`, `cam` and `flooded` are
the device: configuration and state of its ports, the errdisable recovery
interval, the MAC address table.  `up`, `open`, `elected` and `attacking` are the
network around it, `tasks` what has been done of what a phase is about and no
assertion reads (`Unread`: a DHCP pool, a password).  `script` and `iface` are the fault injection of lab 15 on its
way.  `verdict` is that of the verification that has just run, `untouched`
(history) that nobody has worked on the lab yet.

*Actions.*  `Verify` runs all assertions of the verifier with what the parsers
make of the device (`Interface`, `VLANFor`, `ErrdisableRecovery`, `PortFor`,
`MACCount`, `STPTable`, `pingPasses`) and decides as `VerifierRegistry.Run` and
`consoleTruthVerify` do.  `RunCommand` and `CommandFails` are the
`ScenarioRunner`, which stops at the first error; `ConfigureDevice` is the
student on the console, `Around` the hosts, the firewall, the other switches, Kali
and the ageing of the MAC table.  The device and its surroundings are external.

*What a phase is about* is taken from the comments of its verifier and said of the
hosts and of the network, not of the ports the assertions name: `Shown` is the
part the assertions speak of, `Besides` the rest, `Done` both.  Of the nineteen
phases with a verifier

- seven are checked in full, so that a pass is the whole phase: 2, 3, 15, 16 and 47
  attack, 15 and 47 build;
- nine are checked in part (`PartlyChecked`).  Not looked at are: the priority given
  to SW1 (2 build, `lab02_verify.go:7-9`) and the guard on Kali's port that hardens
  the triangle (2 harden, `:29`); whether the two addresses are those of PC1 and PC2
  (3 build, `lab03_verify.go:8-9`); the DHCP pool (8 build, `lab08_verify.go:5-6`),
  its exhaustion, the rogue server and port-security (8 attack, `:17-18`),
  port-security (8 harden, `:26-27`); the exercise on the trunk (16 build,
  `lab16_verify.go:7-9`), the console password, the unused ports and the other
  cabled ports (16 harden, `:29`); whether the firewall is what denies the way in
  and leaves the way out open (47 harden, `lab47_verify.go:46-49`).  Of these a pass
  says `Shown` only: "Lab8HardenVerifier checks port-security is active on access
  ports" (`lab08_verify.go:26`) is passed by who has hardened nothing;
- three are contradicted (`Contradicted`): Kali's port "should be on unused VLAN 99"
  and is asked to be in VLAN 10 (1 build, `lab01_verify.go:18-19`); the port should
  be err-disabled after a violation and is asked to be administratively down
  (3 harden, `lab03_verify.go:33-35,42-43`); the switch has no `Et0/4` to describe
  (15 harden, `lab15_verify.go:98`), which the collector of
  `lab15_harden_verify_test.go:21` makes up.  They fail whoever did what is described
  (`DescribedWorkFails`).

The three lists are tight: in the instance of `LabVerdicts_pass` every partly checked
phase is passed both done and not done, every phase checked in full is passed, and
every contradicted one is failed when done.  What the comments say of devices the
verifier does not drive (the trunk's native VLAN and R1's subinterfaces in lab 1) is
not modelled.  For lab 3 the walkthrough and the capture in migration 059 disagree
on whether port-security fires on the 15.1a image; the model follows the capture.

The recovery assertion of lab 15 is decided by the timer interval alone.  Six phases
pass on an untouched lab (`PassedUntouched`).  No handler calls the scenario of lab
15: here it runs first, as its comments intend.

*Left out.*  The text of the outputs; the assertions no registered verifier uses
(speed, duplex, port security enabled); the legacy verifiers.

### Cohort

A step is one SQL statement (or transaction) of a handler; between two of them
other requests run.

*State.*  `users`, `catalogue` (`lab_phases`), `progress`, `cert`, `owner` and
`members` are the tables; `made` counts teams ever inserted; `req` says where each
request is and what it has read.  History: `mailed` are the codes sent by
e-mail, `earned` the accounts that at some moment had completed the whole
catalogue.

*Actions.*  `GetTeam`, `CreateTeam`, `FindInvitee`, `CountSeats`,
`InsertMember`, `RemoveMember` (`team`); `PhaseExists`, `Mark`, `Unmark`,
`maybeMarkProgress` (`progress`, and the pass of a verification);
`getByUserID`, `CheckEligible`, `IssueCertificate` (`certificate`); `Delete`
(the owner's `DELETE /me`) with its cascades; `Migrate`, a migration or its rollback.  The
foreign keys and UNIQUE columns of the schema are in the steps that insert.

*Left out.*  The plan gate of the team routes (`Owners` are the accounts that
pass it); e-mails that are not delivered; `MemberProgress`, which only reads, and
counts against 42 labs whatever the catalogue holds
(`team/repository.go:106,127`).

### Entitlement

One row of `users`; rows of different users never meet.  A step is one statement,
or one event sent by Stripe.

*State.*  `plan`, `expires` and `customer` are the columns `plan`,
`plan_expires_at` and `stripe_customer_id`.  `stripe` is what Stripe holds of each
subscription; `inflight` are the events it may still deliver, numbered in the
order they were sent.  `activating` are checkout handlers between their two
statements, `pc` and `snap` logins between reading the row and acting on it
(bcrypt runs in between).  `granted` and `disturbed` are history: the admin chose
the plan; the row was not written by one event after the other in order.

*Actions.*  `OnCheckout` and `Activate` are the two statements of
`onCheckoutCompleted`, the error of the first being only logged.  `OnUpdated` and
`OnDeleted` write where `stripe_customer_id` matches, which may be nowhere.
`LoginRead` and `LoginFinish` are `Service.Login`, `AdminSetPlan` the admin's
`SetPlan`, which leaves the expiry alone.  `Subscribe`, `Update`, `Cancel` and
`Deliver` are Stripe: a customer per checkout, because `CreateCheckoutSession`
names none.

*Faults.*  An event overtakes another (`reorder`), comes twice (`duplicate`), or
a statement fails (`db`): the webhook answers 200 all the same, so the event is
lost.

*Left out.*  Signatures and JSON; events without metadata or customer (refused);
`Refresh`, which does not look at the expiry; the HTTP server's time limits.

### RefreshTokens

One account.  A step is one SQL statement, or the response with its cookie.

*State.*  `row` is the state of each token's row in `refresh_tokens` (`gone` when
the account was deleted), `account` that of the row in `users`, `cookie` the
`refresh_token` cookie of each browser.  A request has its next step `pc`, its
`browser`, and `tok`, the token it presented and later the one it was issued.
History: `fresh` are the tokens that owe nothing to one revoked by the last
revocation of all tokens, `racing` the refreshes that were past their check at
that moment, `disturbed` that requests overlapped or a fault happened.

*Actions.*  `Arrive` starts a request with the cookie its browser sends.
`RegisterInsert`, `LoginRevoke`, `RefreshRead`, `RefreshDetect`, `RefreshRotate`,
`RefreshUser`, `LogoutRevoke` and `Issue` are the statements of `auth/service.go`
in their order, with the errors that are ignored ignored; `Reply` sets or clears
the cookie.  The foreign key of `refresh_tokens` is the guard of `Issue`.

*Faults.*  A statement fails (`db`); a request ends half-way, or its response is
lost (`abort`).

*Left out.*  Access tokens (signed, never stored; a plan in them is as old as the
last login or refresh); wrong passwords; several accounts, whose rows never meet.
`Entitlement` has the other thing a login writes.

## 3. Runs

| Run | Checks | Bounds |
|---|---|---|
| `LabSession_faults` | `TypeOK`, `LinkInv`, `NoNilProject`, `HonestReaper`, `FailedIsFinal` | 2 rows, 2 owners who may both leave, 3 requests, all faults: 1 893 674 states |
| `LabSession_live` | `SlotsReclaimed`, `ProvisioningResolves`, `SweepTerminates` | 2 rows, 1 owner, 3 requests, failing GNS3, fairness |
| `ConsoleLock_exclusive` | `TypeOK`, `LockInv`, `SingleConnection`, `ExclusiveAccess` (refinement of `NodeAccess`) | 2 nodes, 2 consoles, 2 verifications of 2 commands, as deployed |
| `ConsoleLock_preempt` | `VerifyKeepsLock`, `LocksReleased` | 1 node, 2 consoles, 2 verifications, preemption, fairness |
| `ConsoleTruth_pass` | `TypeOK`, `OneSnapshot`, `PassJustified`, `RunEnds` | 3 assertions, 2 commands, both faults, 1 segment pending when a run starts, fairness |
| `Entitlement_pass` | `TypeOK`, `PlanEnds`, `Settled`, `PlanEndsWithPayment` | 1 subscription, 3 events, 4 ticks, a month of 2, 1 login at a time, admin, all faults, fairness |
| `RefreshTokens_pass` | `TypeOK`, `SweepEndsFamily`, `SingleSession`, `NoOrphan`, `DeletedEnds` | 4 tokens, 2 browsers, 3 requests at a time, both faults |
| `Provisioning_catalogue` | `TypeOK`, `FailsForCause`, `RunningIsBuilt`, `VerifiersServed`, `ImplementsOutcome` (refinement of `LaunchOutcome`) | 41 labs one by one and three pairs, 2 sessions, 2 seconds, all faults: 47 434 states |
| `LabVerdicts_pass` | `TypeOK`, `VerdictIsRight`, `DescribedWorkFails`, `PassNeedsWork` | all phases with a verifier and one without: 23 120 states |
| `Cohort_pass` | `TypeOK`, `OverrunIsBounded`, `CertificateEarned`, `MailedCodesStayValid` | 4 accounts, 2 requests at a time, 2 seats, 3 teams, 2 catalogues, 2 codes: 919 494 states |
| `LabSession_teardown`, `LabSession_stuck` | one promise of a comment each, violated | the smallest instance that shows it |

*Bounds.*  Two rows let one actor work on a row while another row competes for
the cap, the constraint or the reaper's attention; three requests let two
requests race on a row made by a third; thresholds 0 and 1 tick make a row
fresh, idle and expired within two ticks (in the live run both are 0: a row is
stale one tick after it was touched); two attempts are enough for "counted,
but not yet escalated".  A request is served once and rows are not reused, so
`Requests` and `Sessions` also bound the length of a history.  The live run has no
deletion of an account (`Accounts = {}`): it can only take rows away from what
`SlotsReclaimed` and `ProvisioningResolves` ask about, and that it prolongs neither a
sweep nor a provisioning is in `SweepIsBounded` and `ProvisioningIsBounded`.

Two consoles and two verifications let a third party meet the lock between the
unlock of one request and that of another; a second node lets two keys be held at
once.  Requests are served once, so a run of `ConsoleLock` ends and deadlock is
not checked there.

Two assertions share a command so that the cache matters, a third reads another
so that what one connection leaves behind meets the next one of the same run.
`MaxPending` only limits what is on the line when a run starts; within a run
replayed output may grow.  The number of runs is not bounded.

Three events of one subscription are a checkout, the update that comes with it
and the deletion or renewal that overtakes either; a month of two ticks leaves
room for a trial that is shorter; with four ticks a plan written late can still
expire.  `Activate` and the events keep every expiry below the last tick, so that
the clock can pass it.

Four tokens let a token be exchanged twice on each side of a revocation; three
requests let one revoke while another is past its check and a third presents what
that one was issued; a second browser is what a login elsewhere revokes.  `Spare`
keeps a token for every request under way, and when the tokens are used up the
system stops, so deadlock is not checked.  Requests are served again and again.

In `Provisioning_catalogue` each of the 41 topologies is launched alone, and lab 43
against itself and against lab 44, so that equal names and different labs both
meet; two seconds are one change of the name.  A launch without fault and
without a rival tries every node and every link of its lab, so `FailsForCause`
there establishes, for the whole catalogue, the premise `SoundTopologies` of the
theorem `LaunchesFailForCause`.  A launch ends, so deadlock is excluded by the
step `AllDone`.

`LabVerdicts` needs no bound on time: its state is a lab, and a student does what
some assertion of the phase can tell apart or the comments of its verifier ask for.  A flood of MAC addresses counts as
a thousand.

In `Cohort` one owner invites three others into a team of two seats, which two
requests can exceed by one; two catalogues, one a subset of the other, let a
phase arrive and leave while a certificate is under way; three teams are one
more than two racing requests make.  Requests are served again and again.

*Fairness.*  A request past its first statement, a provision goroutine and the
reaper are goroutines of a running process, and every call they make to GNS3 has a
deadline (request timeout, http.Client timeout, `Reaper.op`), so each has weak
fairness; the clock ticks.  The SQL that `provision` and the reaper issue on
`context.Background()` has none: that PostgreSQL answers such a statement, if only
with an error, is assumed.  Clients owe nothing: no fairness for `ClientStep`.  Nothing is
fair about GNS3 or the process: `SlotsReclaimed` assumes that GNS3 is eventually
up for good and that no console stays open for ever, because the 60 s keep-alive
of an open console keeps its session fresh on purpose.  In `ConsoleLock` the two
handlers are fair once they have called `TryLock`: the dial and every read from a
node have deadlines.  The bridge's writes to a node have none; that TCP takes them,
or the connection breaks, is assumed.  Browsers and nodes owe nothing, so a console is only
promised to let go once its WebSocket is gone.  In `ConsoleTruth` only the run
is fair, because its dials and reads have timeouts: the device may never answer,
and the deadline need not pass.
In `Entitlement` the clock ticks, a webhook handler that started goes on, and the
user keeps logging in (weak fairness) on a database that does not fail for ever
(strong fairness of the downgrade): the login is the only place where an expiry
has an effect, so a user who never logs in again is promised nothing.  Stripe is
not fair: it need not deliver anything.

*What the violation runs show* is listed with the quoted promise under
`findings` in PROJECT.json: the reaper tears down a session that was resumed
meanwhile (`LabSession_teardown`); a row whose provisioning died with the process
is never reclaimed (`LabSession_stuck`).

*Disagreements the models reach without a run of their own.*

- The cap is check-then-insert (`service.go:65`): concurrent Launches exceed it, by
  fewer than were ever under way at once (`CapOverrunIsBounded`, section 4).
- EndLab leaves the project of a row that is still provisioning: its snapshot has
  no project id (`service.go:141-150`), the project exists since
  `gns3client_impl.go:152`.
- `DELETE /me` removes the rows of sessions that hold a slot while their projects go on
  (`users/repository.go:72`).  The slot is free, no row names the project, so the reaper
  never sees it, and the compute host can carry more than GNS3_MAX_SESSIONS of them.
  A `provision` still under way even creates its project afterwards.
- A provisioning failure after CreateProject leaves a project no row names and no
  counter counts.
- A console restarts the nodes of a session just suspended; the reaper's attempt
  counters survive activity.
- Three nudges do not settle a console (`console_runner.go:72-83`): with one answer
  pending, each read returns the answer to the line before.  `PassJustified`
  promises nothing for such a run.
- Project names carry user id 0 (`service.go:99`, `gns3client_impl.go:148`): two
  users who launch one lab within a second collide, and one launch fails (only one
  of them: `ContentionHasAWinner`, section 4).
- Concurrent invitations exceed the limit AddMember is said to enforce
  (`team/repository.go:133`), and two first requests of an owner make two teams;
  `OverrunIsBounded` says by how much.
- Nine phases are passed by who has not done all their verifiers' comments speak of
  (`PartlyChecked`, section 2), three fail whoever has (`DescribedWorkFails`).
- Of two requests for a first certificate the loser gets an error.

## 4. Proofs

`LabSessionProofs` proves, for every number of rows, owners and requests, every
cap, threshold, set of faults and of users who may leave (`ConstantsAssumption` only
says that these are numbers and subsets, and that there are finitely many rows):

- `TypeCorrect`: `Spec => []TypeOK`.
- `Linked`: `Spec => []LinkInv`.  `LinkInv` is the inductive invariant: what the
  rows say about projects (`RowsLinked`), what requests carry from an earlier
  read (`RequestsLinked`), what the reaper carries (`ReaperLinked`).
  `NoNilProject` alone is not inductive: that a snapshot still has its project
  rests on `Monotone` (a row never forgets its project, a deleted project never
  returns), and that rests on provisioning being past when a row is linked.
- `NilFree` (`NoNilProject`), `ReaperIsHonest` (`HonestReaper`) and
  `FailedStaysFailed` (`FailedIsFinal`) follow from it.
- `OneSession`: `Spec => []OneSessionPerLab`.  Launch looks for a row and inserts one
  in two statements; it is the partial unique index, met by every statement that
  may activate a row (`RowWritten`), that leaves a user one session of a lab.
- `RowsFollowLifecycle`: `Spec => FollowsLifecycle`.  Every statement on `status` is
  unconditional; that rows still keep to the seventeen paths of `Lifecycle` rests on what
  their writers have read (`StatusWritten`, from `LinkInv`), and that none leads out of
  `deleted` on statements that find no row (`StaysDeleted`).  The set is tight: the
  instance of `LabSession_faults` takes each path, the three out of `ended` too, on
  which a session somebody ended comes back.
- `ProjectsAreAbandonedByUsers`: `Spec => OnlyUsersAbandon`.  A slot given up while the
  project its row names still exists was given up by a user, in one of two ways: an
  EndLab whose snapshot is older than the project, or a `DELETE /me` (section 3).
  Neither the reaper nor `provision` nor a Launch does it.
- `SweepIsBounded`: `Spec => SweepAdvances`.  `SweepLeft` counts what is left of a
  sweep, in calls and statements: six for each row of the tier at most, and a
  second tier with all rows.  Each step of the reaper lowers it and no other step
  raises it, so a sweep of a reaper that keeps going is over after 12 steps per
  session and two for the queries, whatever GNS3 answers.
- `ProvisioningIsBounded`: `Spec => ProvisionAdvances`, the same for the goroutine of
  `provision` and three steps.  `ProvisioningIsAttended`: without restarts and
  failing statements, a row that says provisioning has that goroutine.  The
  premise is what the code needs: a restart forgets the goroutine, and `provision`
  drops the error of its last statement; with either fault TLC finds a row nobody
  attends to (`LabSession_stuck`).
- `CapOverrunIsBounded`: `Spec /\ [](Pending <= n) => [](ActiveCount < MaxSessions + n)`
  for every positive `n`.  `Pending` counts what may still take a slot without a
  look at the cap: launches between `ActiveCount` and `Create`, and rows without a
  slot that `provision`, a resuming Launch or the first tier of the sweep has yet to
  write an active status to.  With `n = 1` the cap is kept.  The inductive
  measure is the set of rows that hold a slot or may (`Claimed`) plus the launches
  in `Creating`: only a count that finds a free slot raises it, and it finds one
  only while fewer than `MaxSessions` rows hold a slot.  Each kind of pending write
  is needed: TLC refutes the bound when one is left out.

`ConsoleLockProofs` proves, for any nodes and any number of requests:

- `TypeCorrect`, and `Locked`: `Spec => []LockInv` (tokens, entries and
  connections hang together).
- `VerifierUndisturbed`: `Spec => []VerifyKeepsLock`, with and without
  preemption.  It is inductive only together with `TokensUnique` (a stale token
  meets no entry) and `EntriesHeld` (an entry `ForceRelease` may take belongs to
  a console, so to no verification).
- `MutualExclusion`: `~ Preemption /\ Spec => []SingleConnection`, from
  `KeepInv`: without `ForceRelease` whoever holds also owns.
- `Implementation`: `~ Preemption /\ Spec => ExclusiveAccess`.  A successful
  `TryLock` is `Acquire`, a dial `Connect`, a close `Disconnect`, an unlock
  `Release`; every other step changes neither owner nor connections (`SameOwners`,
  `SameConnections`).  With preemption, which is built but not activated, both are
  false: `ForceRelease` gives the lock up before the preempted console has closed
  its connection, and a console preempted before it registered its callback stays
  connected without a lock.
- `ReturnedLeavesNoLock`: `Spec => []NoLeak`.  A handler that returned has no entry
  in the map, whichever way it returned and whoever took the entry from it.  It
  needs `OneClosure`, a token is captured by one closure for ever: `TokensUnique`
  says so of holders only.
- `HandlersAreBounded`: `Spec => HandlersAdvance`.  A verification has two steps per
  command and five more to make, a console eight, and nobody gives them more.  The
  one place where a handler may wait with the lock in its hand is the bridge of a
  console, whose WebSocket is open.

`ConsoleTruthProofs` proves, for any verifier, any faults and any bound:

- `TypeCorrect`.
- `PassFromOneSnapshot` (`OneSnapshot`) and `PassIsJustified` (`PassJustified`)
  from `IInv`: an assertion that was checked and did not fail holds in the cache
  (`Decided`), a command is only run while it is not cached (`Uncached`), an
  undisturbed connection carries exactly one line or its answer (`InLockstep`),
  and complete evidence was seen on the device (`Witnessed`).  `PassJustified` is
  a statement about the end of a run, and needs all four to be carried through
  it.  A disturbed run is not promised anything, and `InLockstep` is where the
  two faults enter.
- `RunIsBounded`: `Spec => RunAdvances`.  An assertion costs a run twelve steps at
  most, five lines sent and answered among them; each step of the run lowers
  `RunLeft`, the device, the student and the clock leave it alone.  It uses that a
  verifier has finitely many assertions (a slice, in the code).

`EntitlementProofs` proves, for any number of subscriptions, events and logins:

- `TypeCorrect`.
- `PlanAlwaysEnds` (`PlanEnds`): no order of webhooks, logins and admin changes
  leaves a plan that was paid for without an expiry.  It is inductive with the
  types, because every statement that writes a paid plan writes its end in the
  same statement; the only one that does not is the admin's.
- `EventsSettle` (`Settled`): events applied one at a time and in order leave the
  row what Stripe has.  The invariant says it of the newest event of each
  subscription that was seen, with every later one still on its way.
- `NobodyRidesFree`: `Spec => []NoFreeRide`.  Whatever is late, repeated, overtaken or
  lost, the expiry of a row is the end of a period some subscription was sold, or
  a month from now at most (the fallback of a checkout event, which a second
  delivery grants again).  It is inductive with `Sold`: no event on its way tells
  a later end than its subscription has by now, because no period is shortened.

`RefreshTokensProofs` proves, for any number of tokens, browsers and requests:

- `TypeCorrect`, and `NoSessionAfterDelete` (`DeletedEnds`) from `Accounted`: only
  the insertion of the account makes live tokens possible.
- `SweepsEndFamilies` (`SweepEndsFamily`) from `Family`: a refresh past its check
  presented a fresh token or was overtaken by the revocation.  The check alone is
  not enough, the revocation may come between any two of its statements.
- `OneSession` (`SingleSession`) and `SessionsAreHeld` (`NoOrphan`) from the lemma
  `KnownSessions`: what the only request may assume at each of its steps
  (`Serial`), and who holds a live token (`Known`).  Overlapping requests do
  leave more than one session, and a lost response leaves a session nobody
  holds; that is what `disturbed` excludes, and no more.

`ProvisioningProofs` proves, for any topologies, sessions and faults
(`TopologyAssumption` only says that nodes and links are lists):

- `TypeCorrect`, and `RunningLabsAreBuilt` (`RunningIsBuilt`) from an invariant
  that gives, at each control point, how much of the lab exists: the first
  `next - 1` nodes, then all nodes and the first `next - 1` links, then all.  A
  running row is the end of that chain.
- `LaunchesFailForCause`: `Spec => []FailsForCause` when `SoundTopologies`.  That the
  premise holds of the 41 labs is what the run checks; that a sound topology
  never fails by itself, next to any number of other launches, is the theorem.
- `ImplementsLaunchOutcome`: `Spec => ImplementsOutcome`; every step but `Launch`,
  `SetFailed` and `SetProvisioned` is a stutter of `LaunchOutcome`.
- `RunningLabsServeVerifiers`: `Spec => []VerifiersServed` when every launched lab
  `ServesVerifiers`, which is a statement about topologies and verifiers alone.  What
  a verification sees is the node map of the row, written by two steps of which
  one may miss any address; the invariant `DInv` says that an entry of that map
  always describes a node of the topology under its name (`Recorded`), and
  `AddressesDiffer` that two hosts never answer with one address, resolved or
  not.  The premise holds of each of the 41 labs: it is decided by the running
  states of the fault-free launches of `Provisioning_catalogue`.
- `LaunchesEndClean`: `Spec => []CleanLaunches` when `SoundTopologies`.  A goroutine that
  met no fault ends with a running row and its project, or with a failed row and
  nothing in GNS3 (or its lab has no nodes, and nothing was to be built):
  `provision` deletes no project, and would need to only after a fault.
- `ContentionHasAWinner`: `Spec => []OneLaunchWins`, same premise.  Of any number of
  launches that chose one project name and met no fault, exactly one runs.  Both
  rest on `WInv`: a project has the name its row chose, no two rows have a project of
  one name (`DistinctProjects`), and who failed had a rival that has one.
- `LaunchIsBounded`: `Spec => LaunchAdvances`.  A launch makes at most as many steps as
  its lab has nodes and links, and eight; each step leaves it less to do, and no
  other session, fault or restart gives it more.

`LabVerdictsProofs` proves, for any labs, phases and order of events, under two
premises: the registry is `verifyReg`, as `main` fills it, and the seven labs with
a verifier are cabled as their verifiers expect (`Wired`: each node behind the
port the assertions name, in lab 3 fewer than a hundred hosts).

- `CatalogueWired`: the deployed catalogue is `Wired`.  So the premise is a fact
  about this repository, and a lab that is cabled otherwise is what would break
  the rest.
- `Inductive`: `Spec => []IInv`.  Its parts: the session still has what `Init` read
  of registry and topology (`SessionFits`), no port is shut and err-disabled at
  once (`PortsFit`), the MAC table only knows hosts (`NetworkFits`), the fault
  injection holds only commands it can be interrupted in and meets no
  err-disabled port (`InjectionFits`), and a lab nobody has worked on is as it
  booted (`Pristine`).  Each is needed: a verdict of lab 15 rests on the first
  four, `PassNeedsWork` on the last.
- `Typed` (`TypeOK`), `Right` (`VerdictIsRight`), `DescribedWorkCannotPass`
  (`DescribedWorkFails`) and `NeedsWork` (`PassNeedsWork`).  A verdict is only
  written by `Verify` and taken back by every step that changes the lab, so each
  is a statement about `Verify` in a state of `IInv`: what the list of assertions of
  each phase decides there, and that it is what they speak of, `Shown`
  (`JudgedByPort`, `JudgedByTable` and `JudgedBySpanningTree`, after what the
  assertions read).  `Right` claims the whole phase of a pass only for the phases in
  neither `PartlyChecked` nor `Contradicted`, and of a failure, the contradicted
  phases apart, that the phase was not done.
- `Deployed`: all four, with the registry and the catalogue of the repository.

`NoneAssumption` in `LabVerdicts` only says that the model value `None` is neither
a verdict, nor a device, nor a switch, nor a port.

`CohortProofs` proves, for any accounts, requests, seats and catalogues:

- `TypeCorrect`: no row refers to a deleted account.  It needs `ReadBefore`, what a
  request has read when it is past a statement.
- `RacesAreBounded` (`OverrunIsBounded`), a counting argument: teams of an owner
  plus requests about to insert one for it never exceed the number of requests
  once there is a team, and the same for members and seats.
- `CertificatesAreEarned` (`CertificateEarned`) from `Eligible`: a request past the
  eligibility check belongs to an account in `earned`.
- `MailedCodesAreValid` (`MailedCodesStayValid`): `certificates.user_id` is UNIQUE,
  and only the request whose insert succeeds mails a code.

*Model-checked only.*  `SlotsReclaimed`, `ProvisioningResolves`, `SweepTerminates`,
`LocksReleased`, `RunEnds` and `PlanEndsWithPayment` are liveness: they rest on
fairness and ENABLED, which are beyond the prover.  What of them is safety is
proved, for every instance: a sweep, a goroutine of `provision`, a run and a
handler have boundedly many steps to make (`SweepIsBounded`,
`ProvisioningIsBounded`, `LaunchIsBounded`, `RunIsBounded`, `HandlersAreBounded`),
and nothing is left behind when they are done (`ProvisioningIsAttended`,
`ReturnedLeavesNoLock`); an expiry is never further away than what was sold
(`NobodyRidesFree`).  What stays with TLC is that a fair actor always has a step to take.  Every other
property of a passing run is a theorem.  That each of the 41 topologies is sound
and serves its verifiers (the premises of four theorems about provisioning) is a
fact about finitely many constants, which TLC covers completely.

## 5. Plan and what is not modelled

1. `LabSession`, the row and the actors who write it, with its proofs.
2. `ConsoleLock` with its refinement of `NodeAccess` and its proofs.
3. `ConsoleTruth`, one verification, with its proofs.
4. `Entitlement` and `RefreshTokens`, the plan and the tokens of an account.
5. `Catalogue`, `Provisioning`, `LaunchOutcome`, what a launch builds.
6. `Verifiers`, `ProvisionedLab`, `LabVerdicts`, what a verdict is worth.
7. `Cohort`, what accounts own.

All of it is done.  What stays outside, and why:

- *Rate limiter* (`pkg/ratelimit`).  A token bucket per client; its cleanup reads a
  field under the wrong lock.  No state of another component depends on it.
- *Goroutines of a console bridge.*  `ConsoleLock` has the handler, its connections
  and its deferred calls; relay, ping and keep-alive are steps of it or effects on
  `age` in `LabSession`.
- *Poll loops of the teardown verifier.*  Their lengths and the settle delay are
  durations; `LabSession` has their calls and lets the deadline expire between any
  two of them.
- *Rollbacks that delete labs* (`004`, `008` and `097` `.down.sql`) cascade to
  `lab_sessions` as `DELETE /me` does; they are run by hand.
- *Truncation of the reaper's thresholds.*  `LabSession` counts in ticks; a
  threshold below a minute or an hour is a matter of units.
- *Legacy verifiers and assertions no lab uses.*  They decide nothing.
- *Text*: device outputs, the VPCS dialogue, JSON, e-mails, certificates' layout.
- *Configuration, storage, database pool, HTTP responses*: read once or thin
  wrappers; `main` is modelled as far as it wires and restarts the actors.
- *Content migrations, frontend, scripts, `tools/topogen`*: data, a client, and a
  generator of documents that does not run with the server.
