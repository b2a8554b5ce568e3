------------------------ MODULE ConsoleTruthProofs ------------------------
(***************************************************************************)
(* Theorems about ConsoleTruth, for any verifier, any bound and any faults.*)
(***************************************************************************)
EXTENDS ConsoleTruth, SequenceTheorems, FiniteSetTheorems, TLAPS

Segments == [cmd : Lines, val : Values]

-----------------------------------------------------------------------------
(***************************************************************************)
(* The inductive invariant: what the run has decided rests on evidence it  *)
(* keeps, and an undisturbed connection carries one line at a time.        *)
(***************************************************************************)
\* An assertion that was checked and did not fail holds in the cached evidence.
Decided ==
    pc # "idle" => \A a \in Assertions \ (todo \cup failed) :
                      Reads[a] \in fetched /\ a \in evidence[Reads[a]]

\* A command is run only for evidence that is not cached.
Uncached == pc \in {"dial", "send", "read"} => cur \in Assertions /\ Reads[cur] \notin fetched

\* Between two runs nothing is known; a run that is recorded has passed.
Passing ==
    /\ pc = "idle" => fetched = {} /\ failed = {}
    /\ pc = "mark" => todo = {} /\ failed = {}

\* A segment that shows all a verifier asks of its command was sent when all
\* of it was true, in this run.
Truthful(seg) == About(seg.cmd) \subseteq seg.val => seg.cmd \in shown

InLockstep ==
    ~ disturbed =>
        /\ pc = "send" => inbox = <<>> /\ out = <<>>
        /\ pc = "read" =>
              \/ inbox = <<Line(step)>> /\ out = <<>>
              \/ /\ inbox = <<>> /\ Len(out) = 1
                 /\ out[1].cmd = Line(step)
                 /\ Truthful(out[1])

Witnessed == ~ disturbed => \A c \in fetched : About(c) \subseteq evidence[c] => c \in shown

IInv == Decided /\ Uncached /\ Passing /\ InLockstep /\ Witnessed

-----------------------------------------------------------------------------
(***************************************************************************)
(* Types.                                                                  *)
(***************************************************************************)
\* What a connection leaves on the line is made of what was on it.
LEMMA CloseType ==
    ASSUME TypeOK, Close
    PROVE  inbox' \in Seq(Lines) /\ out' \in Seq(Segments)
<1>1. CASE "replay" \in Faults
  <2>1. PICK i \in 1..Len(out) + 1 : out' = SubSeq(out, i, Len(out))
    BY <1>1 DEF Close
  <2>2. out \in Seq(Segments) /\ Len(out) \in Nat
    BY DEF TypeOK, Segments
  <2>3. \A j \in i..Len(out) : out[j] \in Segments
    BY <2>1, <2>2
  <2>4. SubSeq(out, i, Len(out)) \in Seq(Segments)
    BY <2>1, <2>2, <2>3, SubSeqProperties
  <2> QED
    BY <1>1, <2>1, <2>4 DEF Close, TypeOK
<1>2. CASE "replay" \notin Faults
  BY <1>2 DEF Close
<1> QED
  BY <1>1, <1>2

\* The first segments of the line, and what is left behind them.
LEMMA SplitType ==
    ASSUME TypeOK, NEW n \in 1..Len(out)
    PROVE  /\ SubSeq(out, 1, n) \in Seq(Segments)
           /\ Len(SubSeq(out, 1, n)) = n
           /\ \A i \in 1..n : SubSeq(out, 1, n)[i] = out[i]
           /\ SubSeq(out, n + 1, Len(out)) \in Seq(Segments)
<1>1. out \in Seq(Segments) /\ Len(out) \in Nat /\ n \in Nat
  BY DEF TypeOK, Segments
<1>2. \A i \in 1..n : out[i] \in Segments
  BY <1>1
<1>3. \A i \in n + 1..Len(out) : out[i] \in Segments
  BY <1>1
<1>4. /\ SubSeq(out, 1, n) \in Seq(Segments)
      /\ Len(SubSeq(out, 1, n)) = IF 1 <= n THEN n - 1 + 1 ELSE 0
      /\ \A i \in 1..n - 1 + 1 : SubSeq(out, 1, n)[i] = out[1 + i - 1]
  BY <1>1, <1>2, SubSeqProperties
<1>5. SubSeq(out, n + 1, Len(out)) \in Seq(Segments)
  BY <1>1, <1>3, SubSeqProperties
<1> QED
  BY <1>1, <1>4, <1>5

\* The parsers return assertions.
LEMMA ParseType ==
    ASSUME NEW text \in Seq(Segments), NEW c, NEW val \in Parse(text, c)
    PROVE  val \in Values
<1>1. CASE Own(text, c)
  <2>1. Len(text) \in Nat /\ Len(text) # 0
    BY <1>1 DEF Own, Segments
  <2>2. text[Len(text)] \in Segments
    BY <2>1
  <2>3. val = text[Len(text)].val
    BY <1>1 DEF Parse
  <2> QED
    BY <2>2, <2>3 DEF Segments
<1>2. CASE ~ Own(text, c)
  BY <1>2 DEF Parse, About, Values
<1> QED
  BY <1>1, <1>2

\* A read that returned keeps the types of what the run knows.
LEMMA ReadDoneType ==
    ASSUME TypeOK, pc = "read", NEW text \in Seq(Segments), ReadDone(text)
    PROVE  /\ step' \in 1..Drains + 2
           /\ pc' \in {"send", "next"}
           /\ todo' \in Values /\ failed' \in Values
           /\ cur' \in Assertions \cup {None}
           /\ pc' = "send" => cur' \in todo'
           /\ evidence' \in [Commands -> Values]
           /\ fetched' \in SUBSET Commands
           /\ step <= Drains + 1 => inbox' = inbox
<1> USE ConstantsAssumption DEF TypeOK, Values, Drains
<1>1. CASE step <= Drains + 1 /\ step' = step + 1 /\ Goto("send") /\ UNCHANGED <<inbox, runVars>>
  BY <1>1 DEF Goto, runVars
<1>2. CASE step = Drains + 2 /\ Collect(text) /\ step' = 1
  <2>1. cur \in Assertions /\ Reads[cur] \in Commands
    OBVIOUS
  <2>2. PICK val \in Parse(text, Reads[cur]) :
           /\ evidence' = [evidence EXCEPT ![Reads[cur]] = val]
           /\ fetched' = fetched \cup {Reads[cur]}
           /\ Check(cur, cur \in val)
           /\ Goto("next")
    BY <1>2 DEF Collect
  <2>3. val \in Values
    BY ParseType
  <2> QED
    BY <1>2, <2>1, <2>2, <2>3 DEF Check, Goto
<1> QED
  BY <1>1, <1>2 DEF ReadDone

\* Type correctness: every variable of ConsoleTruth keeps its type.
THEOREM TypeCorrect == Spec => []TypeOK
<1> USE ConstantsAssumption DEF Values
<1>1. Init => TypeOK
  <2> SUFFICES ASSUME Init PROVE TypeOK
    OBVIOUS
  <2> USE DEF Init
  <2>1. step \in 1..Drains + 2
    BY DEF Drains
  <2>2. inbox \in Seq(Lines) /\ out \in Seq([cmd : Lines, val : Values])
    OBVIOUS
  <2>3. evidence \in [Commands -> Values]
    OBVIOUS
  <2> QED
    BY <2>1, <2>2, <2>3 DEF TypeOK
<1>2. TypeOK /\ [Next]_vars => TypeOK'
  <2> SUFFICES ASSUME TypeOK, [Next]_vars PROVE TypeOK'
    OBVIOUS
  <2> USE DEF TypeOK, Goto, lineVars, runVars, timeVars, history
  <2>1. CASE Start
    BY <2>1 DEF Start
  <2>2. ASSUME NEW a \in Assertions, CheckAssertion(a) PROVE TypeOK'
    BY <2>2 DEF CheckAssertion, Check
  <2>3. CASE Report
    BY <2>3 DEF Report, Finish
  <2>4. CASE Mark
    BY <2>4 DEF Mark, Finish
  <2>5. CASE Dial
    <3>1. 1 \in 1..Drains + 2
      BY DEF Drains
    <3>2. CASE CollectFails /\ UNCHANGED lineVars
      BY <2>5, <3>1, <3>2 DEF Dial, CollectFails, Check
    <3>3. CASE Goto("send") /\ step' = 1 /\ disturbed' \in BOOLEAN
               /\ UNCHANGED <<lineVars, runVars, timeVars, shown>>
      BY <2>5, <3>1, <3>3 DEF Dial
    <3> QED
      BY <2>5, <3>2, <3>3 DEF Dial
  <2>6. CASE Send
    <3>1. Line(step) \in Lines
      BY <2>6 DEF Send, Line, Lines, Noise, Drains
    <3> QED
      BY <2>6, <3>1 DEF Send
  <2>7. CASE ReadLate
    <3>1. <<>> \in Seq(Segments)
      OBVIOUS
    <3>2. /\ step' \in 1..Drains + 2
          /\ pc' \in {"send", "next"}
          /\ todo' \in Values /\ failed' \in Values
          /\ cur' \in Assertions \cup {None}
          /\ pc' = "send" => cur' \in todo'
          /\ evidence' \in [Commands -> Values]
          /\ fetched' \in SUBSET Commands
          /\ step <= Drains + 1 => inbox' = inbox
      BY <2>7, <3>1, ReadDoneType DEF ReadLate
    <3>3. inbox' \in Seq(Lines) /\ out' \in Seq(Segments)
      BY <2>7, <3>2, CloseType DEF ReadLate, Segments
    <3> QED
      BY <2>7, <3>2, <3>3 DEF ReadLate, Segments
  <2>8. CASE ReadFails
    BY <2>8, CloseType DEF ReadFails, CollectFails, Check, Drains, Segments
  <2>9. ASSUME NEW n \in 1..Len(out), ReadPrompt(n) PROVE TypeOK'
    <3>1. /\ SubSeq(out, 1, n) \in Seq(Segments)
          /\ SubSeq(out, n + 1, Len(out)) \in Seq(Segments)
      BY SplitType
    <3>2. /\ step' \in 1..Drains + 2
          /\ pc' \in {"send", "next"}
          /\ todo' \in Values /\ failed' \in Values
          /\ cur' \in Assertions \cup {None}
          /\ pc' = "send" => cur' \in todo'
          /\ evidence' \in [Commands -> Values]
          /\ fetched' \in SUBSET Commands
          /\ step <= Drains + 1 => inbox' = inbox
      BY <2>9, <3>1, ReadDoneType DEF ReadPrompt
    <3>3. inbox' \in Seq(Lines) /\ out' \in Seq(Segments)
      BY <2>9, <3>1, <3>2, CloseType DEF ReadPrompt
    <3> QED
      BY <2>9, <3>2, <3>3 DEF ReadPrompt, Segments
  <2>10. CASE Answer
    <3>1. Head(inbox) \in Lines /\ Tail(inbox) \in Seq(Lines)
      BY <2>10, HeadTailProperties DEF Answer
    <3>2. PICK val \in SUBSET About(Head(inbox)) :
            /\ out' = Append(out, [cmd |-> Head(inbox), val |-> val])
            /\ shown' = IF pc # "idle" /\ val = About(Head(inbox))
                        THEN shown \cup {Head(inbox)} ELSE shown
      BY <2>10 DEF Answer
    <3>3. [cmd |-> Head(inbox), val |-> val] \in Segments
      BY <3>1, <3>2 DEF Segments, About
    <3>4. out' \in Seq(Segments)
      BY <3>2, <3>3, AppendProperties DEF Segments
    <3> QED
      BY <2>10, <3>1, <3>2, <3>4 DEF Answer, Segments
  <2>11. CASE StudentLeaves \/ StudentReads
    <3>1. "typed" \in Lines
      BY DEF Lines, Noise
    <3>2. CASE StudentLeaves
      <4>1. inbox' \in Seq(Lines)
        BY <3>1, <3>2, AppendProperties DEF StudentLeaves
      <4> QED
        BY <3>2, <4>1 DEF StudentLeaves
    <3>3. CASE StudentReads
      BY <3>3 DEF StudentReads
    <3> QED
      BY <2>11, <3>2, <3>3
  <2>12. CASE Deadline
    BY <2>12 DEF Deadline
  <2>13. CASE TimerFires
    BY <2>13 DEF TimerFires
  <2>14. CASE UNCHANGED vars
    BY <2>14 DEF vars
  <2> QED
    BY <2>1, <2>2, <2>3, <2>4, <2>5, <2>6, <2>7, <2>8, <2>9, <2>10, <2>11, <2>12, <2>13, <2>14
    DEF Next, VerifyStep, Environment
<1> QED
  BY <1>1, <1>2, PTL DEF Spec

-----------------------------------------------------------------------------
(***************************************************************************)
(* The invariant is inductive.                                             *)
(***************************************************************************)
\* The end of a run forgets what the invariant speaks of.
LEMMA FinishInv ==
    ASSUME Finish
    PROVE  IInv'
BY DEF Finish, Goto, IInv, Decided, Uncached, Passing, InLockstep, Witnessed

\* A failed collection decides nothing.
LEMMA CollectFailsInv ==
    ASSUME TypeOK, IInv, pc \in {"dial", "read"}, CollectFails
    PROVE  IInv'
<1> USE DEF IInv, CollectFails, Check, Goto, timeVars, history
<1>1. Decided'
  BY DEF Decided
<1>2. Uncached' /\ Passing' /\ InLockstep' /\ Witnessed'
  BY DEF Uncached, Passing, InLockstep, Witnessed
<1> QED
  BY <1>1, <1>2

\* Evidence is collected for a command that has none: what was decided stays.
LEMMA CollectInv ==
    ASSUME TypeOK, IInv, pc = "read", NEW text, Collect(text)
    PROVE  Decided' /\ Uncached' /\ Passing'
<1> USE ConstantsAssumption
<1>1. cur \in Assertions /\ Reads[cur] \in Commands /\ Reads[cur] \notin fetched
  BY DEF IInv, Uncached
<1>2. PICK val \in Parse(text, Reads[cur]) :
         /\ evidence' = [evidence EXCEPT ![Reads[cur]] = val]
         /\ fetched' = fetched \cup {Reads[cur]}
         /\ Check(cur, cur \in val)
         /\ Goto("next")
  BY DEF Collect
<1>3. evidence'[Reads[cur]] = val /\ \A c \in Commands \ {Reads[cur]} : evidence'[c] = evidence[c]
  BY <1>1, <1>2 DEF TypeOK
<1>4. Decided'
  <2> SUFFICES ASSUME NEW a \in Assertions, a \notin todo', a \notin failed'
               PROVE  Reads[a] \in fetched' /\ a \in evidence'[Reads[a]]
    BY DEF Decided
  <2>1. CASE a = cur
    BY <1>2, <1>3, <2>1 DEF Check
  <2>2. CASE a # cur
    <3>1. a \notin todo /\ a \notin failed
      BY <1>2, <2>2 DEF Check
    <3>2. Reads[a] \in fetched /\ a \in evidence[Reads[a]]
      BY <3>1 DEF IInv, Decided
    <3> QED
      BY <1>1, <1>2, <1>3, <3>2
  <2> QED
    BY <2>1, <2>2
<1> QED
  BY <1>2, <1>4 DEF Uncached, Passing, Goto

\* The text an undisturbed connection returns is the segment of its line.
LEMMA ReadPromptInv ==
    ASSUME TypeOK, IInv, NEW n \in 1..Len(out), ReadPrompt(n)
    PROVE  IInv'
<1> USE ConstantsAssumption
<1> DEFINE text == SubSeq(out, 1, n)
<1>1. /\ text \in Seq(Segments) /\ Len(text) = n
      /\ \A i \in 1..n : text[i] = out[i]
  BY SplitType
<1>2. pc = "read" /\ UNCHANGED <<timeVars, history>>
  BY DEF ReadPrompt
<1>3. ~ disturbed => n = 1 /\ inbox = <<>> /\ Len(out) = 1 /\ out[1].cmd = Line(step) /\ Truthful(out[1])
  <2>1. n \in Int /\ 1 <= n /\ n <= Len(out)
    BY DEF TypeOK
  <2>2. out # <<>>
    BY <2>1
  <2>3. ~ disturbed =>
          \/ inbox = <<Line(step)>> /\ out = <<>>
          \/ inbox = <<>> /\ Len(out) = 1 /\ out[1].cmd = Line(step) /\ Truthful(out[1])
    BY <1>2 DEF IInv, InLockstep
  <2>4. ASSUME ~ disturbed
        PROVE  inbox = <<>> /\ Len(out) = 1 /\ out[1].cmd = Line(step) /\ Truthful(out[1])
    BY <2>2, <2>3, <2>4
  <2>5. Len(out) = 1 => n = 1
    BY <2>1
  <2> QED
    BY <2>4, <2>5
<1>4. CASE step <= Drains + 1 /\ Goto("send") /\ UNCHANGED <<inbox, runVars>>
  <2>1. out' = SubSeq(out, n + 1, Len(out))
    BY <1>4 DEF ReadPrompt
  <2>2. ~ disturbed => out' = <<>>
    <3>1. SubSeq(out, 2, 1) = <<>>
      BY SubSeqEmpty
    <3>2. ~ disturbed => n + 1 = 2 /\ Len(out) = 1
      BY <1>3
    <3> QED
      BY <2>1, <3>1, <3>2, Zenon
  <2>3. InLockstep'
    BY <1>2, <1>3, <1>4, <2>2 DEF InLockstep, Goto, history
  <2> QED
    BY <1>2, <1>4, <2>3 DEF IInv, Decided, Uncached, Passing, Witnessed, Goto, runVars, history
<1>5. CASE step = Drains + 2 /\ Collect(text)
  <2>1. Decided' /\ Uncached' /\ Passing'
    BY <1>2, <1>5, CollectInv
  <2>2. InLockstep'
    BY <1>5 DEF Collect, Goto, InLockstep
  <2>3. Witnessed'
    <3> SUFFICES ASSUME ~ disturbed, NEW c \in fetched', About(c) \subseteq evidence'[c]
                 PROVE  c \in shown
      BY <1>2 DEF Witnessed, history
    <3>1. cur \in Assertions /\ Reads[cur] \in Commands
      BY <1>2 DEF IInv, Uncached
    <3>2. Line(step) = Reads[cur]
      BY <1>5 DEF Line, Drains
    <3>3. text # <<>> /\ Len(text) = 1 /\ text[1] = out[1] /\ text[1].cmd = Reads[cur]
      BY <1>1, <1>3, <3>2
    <3>4. Own(text, Reads[cur])
      BY <3>3 DEF Own
    <3>5. Parse(text, Reads[cur]) = {out[1].val}
      BY <3>3, <3>4 DEF Parse
    <3>6. /\ evidence' = [evidence EXCEPT ![Reads[cur]] = out[1].val]
          /\ fetched' = fetched \cup {Reads[cur]}
      BY <1>5, <3>5 DEF Collect
    <3>7. CASE c = Reads[cur]
      BY <1>3, <3>1, <3>3, <3>6, <3>7 DEF Truthful, TypeOK
    <3>8. CASE c # Reads[cur]
      BY <3>1, <3>6, <3>8 DEF IInv, Witnessed, TypeOK
    <3> QED
      BY <3>7, <3>8
  <2> QED
    BY <2>1, <2>2, <2>3 DEF IInv
<1> QED
  BY <1>4, <1>5 DEF ReadPrompt, ReadDone

\* The device answers the line of an undisturbed connection.
LEMMA AnswerInv ==
    ASSUME TypeOK, IInv, Answer
    PROVE  IInv'
<1>1. UNCHANGED <<pc, step, runVars, timeVars, disturbed>> /\ inbox # <<>> /\ inbox' = Tail(inbox)
  BY DEF Answer
<1>2. PICK val \in SUBSET About(Head(inbox)) :
        /\ out' = Append(out, [cmd |-> Head(inbox), val |-> val])
        /\ shown' = IF pc # "idle" /\ val = About(Head(inbox))
                    THEN shown \cup {Head(inbox)} ELSE shown
  BY DEF Answer
<1>3. shown \subseteq shown'
  BY <1>2
<1>4. InLockstep'
  <2> SUFFICES ASSUME ~ disturbed, pc \in {"send", "read"}
               PROVE  /\ pc = "read" /\ inbox' = <<>> /\ Len(out') = 1
                      /\ out'[1].cmd = Line(step) /\ Truthful(out[1])'
    BY <1>1 DEF InLockstep, Line, runVars
  <2>1. pc = "read" /\ inbox = <<Line(step)>> /\ out = <<>>
    BY <1>1 DEF IInv, InLockstep
  <2>2. Head(inbox) = Line(step) /\ inbox' = <<>>
    BY <1>1, <2>1
  <2>3. out' = <<[cmd |-> Line(step), val |-> val]>>
    BY <1>2, <2>1, <2>2
  <2>4. Truthful(out[1])'
    <3>1. out'[1].cmd = Line(step) /\ out'[1].val = val
      BY <2>3
    <3>2. ASSUME About(Line(step)) \subseteq val PROVE Line(step) \in shown'
      <4>1. val \subseteq About(Line(step))
        BY <1>2, <2>2
      <4>2. val = About(Head(inbox))
        BY <2>2, <3>2, <4>1
      <4> QED
        BY <1>2, <2>1, <2>2, <4>2
    <3> QED
      BY <3>1, <3>2 DEF Truthful, About
  <2> QED
    BY <2>1, <2>2, <2>3, <2>4
<1>5. Witnessed'
  BY <1>1, <1>3 DEF IInv, Witnessed, runVars
<1> QED
  BY <1>1, <1>4, <1>5 DEF IInv, Decided, Uncached, Passing, runVars

\* Every step of the run, of the device and of the student keeps the invariant.
LEMMA Inductive == TypeOK /\ IInv /\ [Next]_vars => IInv'
<1> SUFFICES ASSUME TypeOK, IInv, [Next]_vars PROVE IInv'
  OBVIOUS
<1> USE DEF Goto, lineVars, runVars, timeVars, history
<1>1. CASE Start
  BY <1>1 DEF Start, IInv, Decided, Uncached, Passing, InLockstep, Witnessed, TypeOK, Values
<1>2. ASSUME NEW a \in Assertions, CheckAssertion(a) PROVE IInv'
  <2>1. CASE Reads[a] \in fetched
    <3>1. todo' = todo \ {a} /\ failed' = IF a \in evidence[Reads[a]] THEN failed ELSE failed \cup {a}
      BY <1>2, <2>1 DEF CheckAssertion, Check
    <3>2. UNCHANGED <<pc, evidence, fetched, history>> /\ pc = "next"
      BY <1>2, <2>1 DEF CheckAssertion
    <3>3. Decided'
      BY <2>1, <3>1, <3>2 DEF IInv, Decided
    <3> QED
      BY <3>2, <3>3 DEF IInv, Uncached, Passing, InLockstep, Witnessed
  <2>2. CASE Reads[a] \notin fetched
    BY <1>2, <2>2 DEF CheckAssertion, IInv, Decided, Uncached, Passing, InLockstep, Witnessed
  <2> QED
    BY <2>1, <2>2
<1>3. CASE Report
  <2>1. CASE Finish
    BY <2>1, FinishInv
  <2>2. CASE failed = {} /\ Goto("mark") /\ UNCHANGED <<lineVars, step, runVars, timeVars, history>>
    BY <1>3, <2>2 DEF Report, IInv, Decided, Uncached, Passing, InLockstep, Witnessed
  <2> QED
    BY <1>3, <2>1, <2>2 DEF Report
<1>4. CASE Mark
  BY <1>4, FinishInv DEF Mark
<1>5. CASE Dial
  <2>1. CASE CollectFails
    BY <1>5, <2>1, CollectFailsInv DEF Dial
  <2>2. CASE /\ Goto("send")
             /\ disturbed' = (disturbed \/ inbox # <<>> \/ out # <<>>)
             /\ UNCHANGED <<lineVars, runVars, timeVars, shown>>
    <3>1. InLockstep'
      BY <2>2 DEF InLockstep
    <3>2. Witnessed'
      BY <2>2 DEF IInv, Witnessed
    <3> QED
      BY <1>5, <2>2, <3>1, <3>2 DEF Dial, IInv, Decided, Uncached, Passing
  <2> QED
    BY <1>5, <2>1, <2>2 DEF Dial
<1>6. CASE Send
  <2>1. InLockstep'
    <3>1. ~ disturbed => inbox' = <<Line(step)>> /\ out' = <<>>
      BY <1>6 DEF Send, IInv, InLockstep
    <3> QED
      BY <1>6, <3>1 DEF Send, InLockstep, Line
  <2> QED
    BY <1>6, <2>1 DEF Send, IInv, Decided, Uncached, Passing, Witnessed
<1>7. CASE ReadLate
  <2>1. disturbed' /\ pc = "read"
    BY <1>7 DEF ReadLate
  <2>2. InLockstep' /\ Witnessed'
    BY <2>1 DEF InLockstep, Witnessed
  <2>3. CASE Goto("send") /\ UNCHANGED <<inbox, runVars>>
    BY <2>1, <2>2, <2>3 DEF IInv, Decided, Uncached, Passing
  <2>4. CASE Collect(<<>>)
    BY <2>1, <2>2, <2>4, CollectInv DEF IInv
  <2> QED
    BY <1>7, <2>3, <2>4 DEF ReadLate, ReadDone
<1>8. CASE ReadFails
  BY <1>8, CollectFailsInv DEF ReadFails
<1>9. ASSUME NEW n \in 1..Len(out), ReadPrompt(n) PROVE IInv'
  BY <1>9, ReadPromptInv
<1>10. CASE Answer
  BY <1>10, AnswerInv
<1>11. CASE StudentLeaves \/ StudentReads
  BY <1>11 DEF StudentLeaves, StudentReads, IInv, Decided, Uncached, Passing, InLockstep, Witnessed
<1>12. CASE Deadline \/ TimerFires \/ UNCHANGED vars
  <2>1. UNCHANGED <<lineVars, pc, step, runVars, history>>
    BY <1>12 DEF Deadline, TimerFires, vars
  <2> QED
    BY <2>1 DEF IInv, Decided, Uncached, Passing, InLockstep, Line, Truthful, Witnessed
<1> QED
  BY <1>1, <1>2, <1>3, <1>4, <1>5, <1>6, <1>7, <1>8, <1>9, <1>10, <1>11, <1>12
  DEF Next, VerifyStep, Environment

\* The invariant holds in every state of ConsoleTruth.
LEMMA Invariance == Spec => []IInv
<1>1. Init => IInv
  BY DEF Init, IInv, Decided, Uncached, Passing, InLockstep, Witnessed
<1> QED
  BY <1>1, Inductive, TypeCorrect, PTL DEF Spec

\* What passed was decided on the evidence the run ends with.
THEOREM PassFromOneSnapshot == Spec => []OneSnapshot
<1>1. IInv => OneSnapshot
  BY DEF IInv, Decided, Passing, OneSnapshot
<1> QED
  BY <1>1, Invariance, PTL

\* A recorded pass was justified by answers of the device in this run, unless
\* the run was disturbed.
THEOREM PassIsJustified == Spec => []PassJustified
<1>1. IInv => PassJustified
  <2> SUFFICES ASSUME IInv, pc = "mark", ~ disturbed, NEW a \in Assertions
               PROVE  Reads[a] \in shown
    BY DEF PassJustified
  <2>1. \A b \in Assertions : Reads[b] \in fetched /\ b \in evidence[Reads[b]]
    BY DEF IInv, Decided, Passing
  <2>2. About(Reads[a]) \subseteq evidence[Reads[a]]
    BY <2>1 DEF About
  <2> QED
    BY <2>1, <2>2 DEF IInv, Witnessed
<1> QED
  BY <1>1, Invariance, PTL

-----------------------------------------------------------------------------
(***************************************************************************)
(* How long a run can last: what is left of it, counted in its own steps.  *)
(* An assertion takes twelve of them at most: it is taken up, its console  *)
(* is dialled, and five lines are sent and answered.                       *)
(***************************************************************************)
Left(l, i, n) ==
    CASE l = "idle" -> 0
      [] l = "mark" -> 1
      [] l = "next" -> 12 * n + 2
      [] l = "dial" -> 12 * n + 1
      [] l = "send" -> 12 * n + 2 - 2 * i
      [] l = "read" -> 12 * n + 1 - 2 * i

RunLeft == Left(pc, step, Cardinality(todo))

LEMMA TodoSize ==
    ASSUME NEW T \in Values
    PROVE  /\ Cardinality(T) \in Nat /\ Cardinality(Assertions) \in Nat
           /\ Cardinality(T) <= Cardinality(Assertions)
           /\ \A a \in T : Cardinality(T \ {a}) = Cardinality(T) - 1 /\ Cardinality(T) > 0
<1>1. IsFiniteSet(Assertions)
  BY ConstantsAssumption
<1>2. IsFiniteSet(T) /\ Cardinality(T) <= Cardinality(Assertions)
  BY <1>1, FS_Subset DEF Values
<1>3. Cardinality(T) \in Nat /\ Cardinality(Assertions) \in Nat
  BY <1>1, <1>2, FS_CardinalityType
<1>4. ASSUME NEW a \in T
      PROVE  Cardinality(T \ {a}) = Cardinality(T) - 1 /\ Cardinality(T) > 0
  <2>1. Cardinality(T \ {a}) = Cardinality(T) - 1
    BY <1>2, FS_RemoveElement
  <2>2. Cardinality(T \ {a}) \in Nat
    BY <1>2, FS_RemoveElement, FS_CardinalityType
  <2> QED
    BY <1>3, <2>1, <2>2
<1> QED
  BY <1>2, <1>3, <1>4

LEMMA LeftType ==
    ASSUME NEW T \in Values, NEW i \in 1..Drains + 2,
           NEW l \in {"idle", "next", "dial", "send", "read", "mark"},
           l \in {"dial", "send", "read"} => T # {}
    PROVE  Left(l, i, Cardinality(T)) \in Nat
<1>1. Cardinality(T) \in Nat /\ (l \in {"dial", "send", "read"} => Cardinality(T) > 0)
  BY TodoSize
<1>2. i \in 1..5
  BY DEF Drains
<1> QED
  BY <1>1, <1>2 DEF Left

\* An assertion is decided: the run goes on with one assertion less.
LEMMA AssertionDone ==
    ASSUME TypeOK, pc \in {"next", "dial", "send", "read"}, NEW a \in todo,
           todo' = todo \ {a}, pc' = "next"
    PROVE  RunLeft' < RunLeft
<1>1. /\ Cardinality(todo) \in Nat /\ Cardinality(todo) > 0
      /\ Cardinality(todo \ {a}) = Cardinality(todo) - 1
  BY TodoSize DEF TypeOK
<1>2. step \in 1..5
  BY DEF TypeOK, Drains
<1> QED
  BY <1>1, <1>2 DEF RunLeft, Left

LEMMA RunStep ==
    ASSUME TypeOK, TypeOK', VerifyStep
    PROVE  RunLeft' < RunLeft
<1>1. Cardinality(todo) \in Nat /\ step \in 1..5
  BY TodoSize DEF TypeOK, Drains
<1>2. ASSUME Finish, pc \in {"next", "mark"} PROVE RunLeft' < RunLeft
  <2>1. RunLeft' = 0
    BY <1>2 DEF Finish, Goto, RunLeft, Left
  <2>2. RunLeft > 0
    BY <1>1, <1>2 DEF RunLeft, Left
  <2> QED
    BY <2>1, <2>2
<1>3. ASSUME CollectFails, pc \in {"dial", "read"} PROVE RunLeft' < RunLeft
  BY <1>3, AssertionDone DEF CollectFails, Check, Goto, TypeOK
<1>4. ASSUME NEW text, ReadDone(text), pc = "read" PROVE RunLeft' < RunLeft
  <2>1. CASE step' = step + 1 /\ pc' = "send" /\ todo' = todo
    <3>1. RunLeft = 12 * Cardinality(todo) + 1 - 2 * step
      BY <1>4 DEF RunLeft, Left
    <3>2. RunLeft' = 12 * Cardinality(todo) + 2 - 2 * (step + 1)
      BY <2>1 DEF RunLeft, Left
    <3> QED
      BY <1>1, <3>1, <3>2
  <2>2. CASE Collect(text)
    BY <1>4, <2>2, AssertionDone DEF Collect, Check, Goto, TypeOK
  <2> QED
    BY <1>4, <2>1, <2>2 DEF ReadDone, Goto, runVars
<1>5. ASSUME NEW a \in Assertions, CheckAssertion(a) PROVE RunLeft' < RunLeft
  <2>1. CASE pc' = "next" /\ todo' = todo \ {a}
    BY <1>5, <2>1, AssertionDone DEF CheckAssertion
  <2>2. CASE pc' = "dial" /\ todo' = todo
    BY <1>1, <1>5, <2>2 DEF CheckAssertion, RunLeft, Left
  <2> QED
    BY <1>5, <2>1, <2>2 DEF CheckAssertion, Check, Goto
<1>6. CASE Report
  <2>1. CASE pc' = "mark"
    BY <1>1, <1>6, <2>1 DEF Report, RunLeft, Left
  <2> QED
    BY <1>2, <1>6, <2>1 DEF Report, Goto
<1>7. CASE Mark
  BY <1>2, <1>7 DEF Mark
<1>8. CASE Dial
  <2>1. CASE pc' = "send" /\ step' = 1 /\ todo' = todo
    BY <1>1, <1>8, <2>1 DEF Dial, RunLeft, Left
  <2> QED
    BY <1>3, <1>8, <2>1 DEF Dial, Goto, runVars
<1>9. CASE Send
  BY <1>1, <1>9 DEF Send, Goto, runVars, RunLeft, Left
<1>10. CASE ReadLate \/ \E n \in 1..Len(out) : ReadPrompt(n)
  BY <1>4, <1>10 DEF ReadLate, ReadPrompt
<1>11. CASE ReadFails
  BY <1>3, <1>11 DEF ReadFails
<1> QED
  BY <1>5, <1>6, <1>7, <1>8, <1>9, <1>10, <1>11 DEF VerifyStep

\* A run has 12 steps per assertion and two more to make, each of which leaves less to do;
\* neither the device, nor the student, nor the clock gives it more (Verifier.Run, RunCommand:
\* nothing is repeated).
RunAdvances ==
    [][/\ RunLeft' \in Nat
       /\ VerifyStep => RunLeft' < RunLeft
       /\ Environment => RunLeft' = RunLeft
       /\ Start => RunLeft' = 12 * Cardinality(Assertions) + 2]_vars

\* The safety half of RunEnds, for every verifier and whatever the device does: a run that
\* keeps moving is over after 12 steps per assertion and two more (handler.go,
\* consoleTruthVerify; console_runner.go, RunCommand).
THEOREM RunIsBounded == Spec => RunAdvances
<1>1. ASSUME TypeOK, TypeOK', [Next]_vars
      PROVE  /\ RunLeft' \in Nat
             /\ VerifyStep => RunLeft' < RunLeft
             /\ Environment => RunLeft' = RunLeft
             /\ Start => RunLeft' = 12 * Cardinality(Assertions) + 2
  <2>1. Environment => UNCHANGED <<pc, step, todo>>
    BY DEF Environment, Answer, StudentLeaves, StudentReads, Deadline, TimerFires, runVars
  <2>2. Environment => RunLeft' = RunLeft
    BY <2>1 DEF RunLeft
  <2>3. Start => RunLeft' = 12 * Cardinality(Assertions) + 2
    BY DEF Start, Goto, RunLeft, Left
  <2>4. RunLeft' \in Nat
    <3>1. /\ todo' \in Values /\ step' \in 1..Drains + 2
          /\ pc' \in {"idle", "next", "dial", "send", "read", "mark"}
          /\ pc' \in {"dial", "send", "read"} => todo' # {}
      BY <1>1 DEF TypeOK
    <3> QED
      BY <3>1, LeftType DEF RunLeft
  <2> QED
    BY <1>1, <2>2, <2>3, <2>4, RunStep
<1>2. TypeOK /\ TypeOK' /\ [Next]_vars =>
        [/\ RunLeft' \in Nat
         /\ VerifyStep => RunLeft' < RunLeft
         /\ Environment => RunLeft' = RunLeft
         /\ Start => RunLeft' = 12 * Cardinality(Assertions) + 2]_vars
  BY <1>1
<1> QED
  BY <1>2, TypeCorrect, PTL DEF Spec, RunAdvances
=============================================================================
