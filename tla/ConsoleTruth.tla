---------------------------- MODULE ConsoleTruth ----------------------------
(***************************************************************************)
(* One device and the verifications that run on it, one after the other    *)
(* (ConsoleLock sees to that): verification/handler.go, the assertions and *)
(* the evidence cache of internal/verify, and console_runner.go, which     *)
(* sends lines to the console of the device and reads until a prompt.      *)
(*                                                                         *)
(* The device answers a line with a segment of output that ends in a       *)
(* prompt; a read returns whatever has arrived by then.  What a command    *)
(* shows is the set of assertions about it that hold on the device.        *)
(***************************************************************************)
EXTENDS Naturals, Sequences, FiniteSets

CONSTANTS
    Assertions,   \* the assertions of the verifier of a lab phase
    Commands,     \* the show commands they read
    Reads,        \* Reads[a]: the command assertion a reads
    Faults,       \* what may go wrong, a subset of FaultKinds
    MaxPending,   \* bound: segments left on the line when a run starts
    None          \* no assertion

FaultKinds == {"replay",      \* output nobody read meets the next connection
               "timer_lag"}   \* the timer of a context fires after its deadline

\* Lines that are not commands: CR, terminal length 0, what a student typed.
Noise == {"nudge", "setup", "typed"}

ASSUME ConstantsAssumption ==
    /\ IsFiniteSet(Assertions)
    /\ Reads \in [Assertions -> Commands]
    /\ Commands \cap Noise = {}
    /\ Faults \subseteq FaultKinds
    /\ MaxPending \in Nat
    /\ None \notin Assertions

VARIABLES
    inbox,      \* lines the device has not answered yet
    out,        \* segments the device has sent and nobody has read
    pc,         \* next step of the verification
    step,       \* RunCommand: lines sent on this connection
    todo,       \* assertions Verifier.Run has still to check
    cur,        \* the assertion being checked
    evidence,   \* EvidenceStore.evidence
    fetched,    \* EvidenceStore.fetched
    failed,     \* assertions whose check did not pass
    late,       \* the deadline of verifyCtx has passed
    expired,    \* verifyCtx.Err() # nil
    shown,      \* history: lines the device answered in this run when all
                \* assertions about them held
    disturbed   \* history: this run met stray output, or a late timer

lineVars == <<inbox, out>>
runVars  == <<todo, cur, evidence, fetched, failed>>
timeVars == <<late, expired>>
history  == <<shown, disturbed>>
vars     == <<lineVars, pc, step, runVars, timeVars, history>>

-----------------------------------------------------------------------------
(***************************************************************************)
(* The device.                                                             *)
(***************************************************************************)
About(c) == {a \in Assertions : Reads[a] = c}

\* The device executes the next line it received.  Its configuration and the
\* traffic of the lab may have changed since the line before.
Answer ==
    /\ inbox # <<>>
    /\ inbox' = Tail(inbox)
    /\ \E val \in SUBSET About(Head(inbox)) :
          /\ out' = Append(out, [cmd |-> Head(inbox), val |-> val])
          /\ shown' = IF pc # "idle" /\ val = About(Head(inbox))
                      THEN shown \cup {Head(inbox)} ELSE shown
    /\ UNCHANGED <<pc, step, runVars, timeVars, disturbed>>

\* A student closes the interactive console before its last answer arrived.
StudentLeaves ==
    /\ "replay" \in Faults
    /\ pc = "idle" /\ Len(inbox) + Len(out) < MaxPending
    /\ inbox' = Append(inbox, "typed")
    /\ UNCHANGED <<out, pc, step, runVars, timeVars, history>>

\* The interactive console of a student takes what is on the line.
StudentReads ==
    /\ pc = "idle" /\ out # <<>>
    /\ out' = <<>>
    /\ UNCHANGED <<inbox, pc, step, runVars, timeVars, history>>

-----------------------------------------------------------------------------
(***************************************************************************)
(* Handler.consoleTruthVerify and Verifier.Run.                            *)
(***************************************************************************)
Goto(l) == pc' = l

Start ==
    /\ pc = "idle" /\ Len(inbox) + Len(out) <= MaxPending
    /\ Goto("next") /\ todo' = Assertions
    /\ UNCHANGED <<lineVars, step, cur, evidence, fetched, failed, timeVars, history>>

\* The response is written; what the run knew is gone with it.
Finish ==
    /\ Goto("idle")
    /\ todo' = {} /\ cur' = None /\ failed' = {} /\ fetched' = {}
    /\ evidence' = [c \in Commands |-> {}]
    /\ late' = FALSE /\ expired' = FALSE
    /\ shown' = {} /\ disturbed' = FALSE
    /\ UNCHANGED <<lineVars, step>>

\* The time of the context runs out; its timer fires at once, or later.
Deadline ==
    /\ pc # "idle" /\ ~ late
    /\ late' = TRUE
    /\ expired' \in IF "timer_lag" \in Faults THEN BOOLEAN ELSE {TRUE}
    /\ UNCHANGED <<lineVars, pc, step, runVars, history>>

TimerFires ==
    /\ late /\ ~ expired
    /\ expired' = TRUE
    /\ UNCHANGED <<lineVars, pc, step, runVars, late, history>>

\* The outcome of one assertion.
Check(a, passed) ==
    /\ todo' = todo \ {a}
    /\ failed' = IF passed THEN failed ELSE failed \cup {a}
    /\ cur' = None

\* Faulty variant: the evidence is collected again for every assertion.
CheckAssertionUncached(a) ==
    /\ pc = "next" /\ a \in todo
    /\ cur' = a /\ Goto("dial")
    /\ UNCHANGED <<lineVars, step, todo, evidence, fetched, failed, timeVars, history>>

\* An assertion reads the evidence it needs from the cache, or the collector
\* runs its command.
CheckAssertion(a) ==
    /\ pc = "next" /\ a \in todo
    /\ \/ /\ Reads[a] \in fetched
          /\ Check(a, a \in evidence[Reads[a]])
          /\ UNCHANGED pc
       \/ /\ Reads[a] \notin fetched
          /\ cur' = a /\ Goto("dial")
          /\ UNCHANGED <<todo, failed>>
    /\ UNCHANGED <<lineVars, step, evidence, fetched, timeVars, history>>

\* A run past its deadline has not passed, whatever its checks say.
Report ==
    /\ pc = "next" /\ todo = {}
    /\ \/ /\ ~ expired /\ failed = {}
          /\ Goto("mark")
          /\ UNCHANGED <<lineVars, step, runVars, timeVars, history>>
       \/ /\ expired \/ failed # {}
          /\ Finish

\* maybeMarkProgress, then the response.
Mark == pc = "mark" /\ Finish

-----------------------------------------------------------------------------
(***************************************************************************)
(* TelnetConsoleRunner.RunCommand: three nudges, terminal length 0, the    *)
(* command; each line is sent once the one before was followed by a prompt.*)
(***************************************************************************)
Drains == 3

Line(i) == IF i <= Drains THEN "nudge" ELSE IF i = Drains + 1 THEN "setup" ELSE Reads[cur]

\* Closing the connection discards what has not been read, unless the console
\* replays it.
Close ==
    IF "replay" \in Faults
    THEN /\ \E i \in 1..Len(out) + 1 : out' = SubSeq(out, i, Len(out))
         /\ UNCHANGED inbox
    ELSE out' = <<>> /\ inbox' = <<>>

\* Faulty variant: an error leaves empty evidence behind, and the check passes
\* when nothing contradicts it.
CollectFailsOpen ==
    /\ fetched' = fetched \cup {Reads[cur]}
    /\ evidence' = [evidence EXCEPT ![Reads[cur]] = About(Reads[cur])]
    /\ Check(cur, TRUE)
    /\ step' = 1 /\ Goto("next")
    /\ UNCHANGED <<timeVars, history>>

\* An error of the runner fails the assertion and caches nothing.
CollectFails ==
    /\ Check(cur, FALSE)
    /\ step' = 1 /\ Goto("next")
    /\ UNCHANGED <<evidence, fetched, timeVars, history>>

Dial ==
    /\ pc = "dial"
    /\ \/ /\ ~ late
          /\ step' = 1 /\ Goto("send")
          /\ disturbed' = (disturbed \/ inbox # <<>> \/ out # <<>>)
          /\ UNCHANGED <<lineVars, runVars, timeVars, shown>>
       \/ /\ CollectFails
          /\ UNCHANGED lineVars

Send ==
    /\ pc = "send"
    /\ inbox' = Append(inbox, Line(step))
    /\ Goto("read")
    /\ UNCHANGED <<out, step, runVars, timeVars, history>>

\* The output of a command without noise; the parsers find something in any
\* text, so anything may be read out of another one.
Own(text, c) ==
    /\ text # <<>> /\ text[Len(text)].cmd = c
    /\ \A i \in 1..Len(text) - 1 : text[i].cmd \in {"nudge", "setup"}

Parse(text, c) == IF Own(text, c) THEN {text[Len(text)].val} ELSE SUBSET About(c)

Collect(text) ==
    \E val \in Parse(text, Reads[cur]) :
        /\ evidence' = [evidence EXCEPT ![Reads[cur]] = val]
        /\ fetched' = fetched \cup {Reads[cur]}
        /\ Check(cur, cur \in val)
        /\ Goto("next")

\* Faulty variant: the command is followed by one more line.
ReadDonePastEnd(text) ==
    \/ /\ step <= Drains + 2
       /\ step' = step + 1 /\ Goto("send")
       /\ UNCHANGED <<inbox, runVars>>
    \/ /\ step = Drains + 2
       /\ Collect(text)
       /\ step' = 1

\* readUntilPrompt returned text.
ReadDone(text) ==
    \/ /\ step <= Drains + 1
       /\ step' = step + 1 /\ Goto("send")
       /\ UNCHANGED <<inbox, runVars>>
    \/ /\ step = Drains + 2
       /\ Collect(text)
       /\ step' = 1

\* A read returned n segments, the last of which ends in a prompt.
ReadPrompt(n) ==
    /\ pc = "read" /\ ~ late
    /\ ReadDone(SubSeq(out, 1, n))
    /\ IF step <= Drains + 1 THEN out' = SubSeq(out, n + 1, Len(out)) ELSE Close
    /\ UNCHANGED <<timeVars, history>>

\* Past its deadline readUntilPrompt returns ctx.Err(), which is nil until the
\* timer has fired.
ReadLate ==
    /\ pc = "read" /\ late /\ ~ expired
    /\ ReadDone(<<>>)
    /\ IF step <= Drains + 1 THEN UNCHANGED out ELSE Close
    /\ disturbed' = TRUE
    /\ UNCHANGED <<timeVars, shown>>

\* Faulty variant: without a read timeout, a read waits for its context.
ReadFailsNoTimeout == pc = "read" /\ expired /\ CollectFails /\ Close

\* Read timeout, closed connection, deadline.
ReadFails == pc = "read" /\ CollectFails /\ Close

-----------------------------------------------------------------------------
Init ==
    /\ inbox = <<>> /\ out = <<>>
    /\ pc = "idle" /\ step = 1
    /\ todo = {} /\ cur = None /\ failed = {} /\ fetched = {}
    /\ evidence = [c \in Commands |-> {}]
    /\ late = FALSE /\ expired = FALSE
    /\ shown = {} /\ disturbed = FALSE

VerifyStep ==
    \/ \E a \in Assertions : CheckAssertion(a)
    \/ Report \/ Mark \/ Dial \/ Send \/ ReadLate \/ ReadFails
    \/ \E n \in 1..Len(out) : ReadPrompt(n)

Environment == Answer \/ StudentLeaves \/ StudentReads \/ Deadline \/ TimerFires

Next == Start \/ VerifyStep \/ Environment

Spec == Init /\ [][Next]_vars

\* A verification runs in a goroutine of its own; its dials and its reads have
\* timeouts.  Neither the device nor the timer is fair.
FairSpec == Spec /\ WF_vars(VerifyStep)

-----------------------------------------------------------------------------
Values == SUBSET Assertions
Lines  == Commands \cup Noise

TypeOK ==
    /\ inbox \in Seq(Lines)
    /\ out \in Seq([cmd : Lines, val : Values])
    /\ pc \in {"idle", "next", "dial", "send", "read", "mark"}
    /\ step \in 1..Drains + 2
    /\ todo \in Values /\ failed \in Values
    /\ cur \in Assertions \cup {None}
    /\ pc \in {"dial", "send", "read"} => cur \in todo
    /\ evidence \in [Commands -> Values]
    /\ fetched \in SUBSET Commands
    /\ late \in BOOLEAN /\ expired \in BOOLEAN
    /\ shown \in SUBSET Lines
    /\ disturbed \in BOOLEAN

\* All assertions that passed were decided on the evidence the run ends with:
\* two assertions that read the same command never pass on two outputs of it,
\* although the device changes between two commands (EvidenceStore).
OneSnapshot ==
    pc = "mark" => \A a \in Assertions : Reads[a] \in fetched /\ a \in evidence[Reads[a]]

\* A phase is marked as done only if every command the verifier reads was
\* answered by the device in this run, at an instant when everything the
\* verifier asks of it was true, unless a connection met output that was not
\* its own or a read met a timer that had not fired (Handler.Verify,
\* Verifier.Run, RunCommand).
PassJustified ==
    pc = "mark" /\ ~ disturbed => \A a \in Assertions : Reads[a] \in shown

\* Whatever the device does, a verification ends, and with it the hold on the
\* console lock (read timeouts of readUntilPrompt).
RunEnds == pc # "idle" ~> pc = "idle"
=============================================================================
