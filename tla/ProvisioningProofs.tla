------------------------- MODULE ProvisioningProofs -------------------------
(***************************************************************************)
(* Proofs about Provisioning, for any number of sessions, any labs and any *)
(* faults: what a running row has behind it, why a launch fails, that the  *)
(* launch as a whole is the step LaunchOutcome describes, that a verifier  *)
(* finds of a running session what it needs, what a launch leaves behind,  *)
(* and that it ends.                                                       *)
(***************************************************************************)
EXTENDS ProvisionedLab, TLAPS

-----------------------------------------------------------------------------
(***************************************************************************)
(* The inductive invariant: how far the build of each session has come.    *)
(***************************************************************************)
Working == PCs \ {"idle", "done"}

IsRow(r) == r = [status |-> r.status, project |-> r.project, nodes |-> r.nodes]
IsProject(p) ==
  p = [name |-> p.name, nodes |-> p.nodes, cables |-> p.cables, started |-> p.started]

Functions ==
  /\ row = [s \in Sessions |-> row[s]]
  /\ pc = [s \in Sessions |-> pc[s]]
  /\ next = [s \in Sessions |-> next[s]]
  /\ name = [s \in Sessions |-> name[s]]
  /\ nodeMap = [s \in Sessions |-> nodeMap[s]]
  /\ project = [s \in Sessions |-> project[s]]
  /\ lab \in Launches

NamesBefore(t, n) == {t.Nodes[i].Name : i \in 1..(n - 1)}
EndsBefore(t, n) == UNION {Ends(t, t.Links[i]) : i \in 1..(n - 1)}
AllEnds(t) == UNION {Ends(t, l) : l \in Elements(t.Links)}

RowFollows(s) ==
  /\ row[s].status \in {"none", "provisioning", "running", "failed"}
  /\ pc[s] = "idle" => row[s].status = "none"
  /\ pc[s] \in Working => row[s].status = "provisioning"
  /\ row[s].status # "running" => row[s].project = None /\ row[s].nodes = << >>

HasNodes(s) == project[s].nodes = Names(lab[s]) /\ DOMAIN nodeMap[s] = Names(lab[s])

Built(s) ==
  /\ pc[s] \in {"idle", "image", "create"} =>
       next[s] = 1 /\ nodeMap[s] = << >> /\ project[s] = NoProject
  /\ pc[s] = "nodes" =>
       /\ next[s] <= Len(NodesOf(s)) + 1
       /\ project[s].nodes = NamesBefore(lab[s], next[s])
       /\ DOMAIN nodeMap[s] = NamesBefore(lab[s], next[s])
       /\ project[s].cables = {}
  /\ pc[s] = "links" =>
       /\ next[s] <= Len(LinksOf(s)) + 1
       /\ HasNodes(s)
       /\ project[s].cables = EndsBefore(lab[s], next[s])
  /\ pc[s] \in {"start", "macs", "commit"} => HasNodes(s) /\ project[s].cables = AllEnds(lab[s])
  /\ pc[s] \in {"macs", "commit"} => project[s].started
  /\ row[s].status = "running" =>
       /\ row[s].project = s /\ project[s].started
       /\ project[s].nodes = Names(lab[s])
       /\ DOMAIN row[s].nodes = Names(lab[s])
       /\ project[s].cables = AllEnds(lab[s])

Stage(s) ==
  /\ pc[s] \in PCs /\ next[s] \in Nat \ {0}
  /\ IsRow(row[s]) /\ IsProject(project[s])
  /\ DOMAIN nodeMap[s] \subseteq Names(lab[s])
  /\ RowFollows(s) /\ Built(s)

IInv ==
  /\ Functions /\ second \in 0..MaxSecond /\ faulted \subseteq Sessions
  /\ \A s \in Sessions : Stage(s)

\* A step of one session leaves the others alone.
Same(t) ==
  /\ row'[t] = row[t] /\ pc'[t] = pc[t] /\ next'[t] = next[t] /\ name'[t] = name[t]
  /\ nodeMap'[t] = nodeMap[t] /\ project'[t] = project[t]

-----------------------------------------------------------------------------
(***************************************************************************)
(* Facts about lists.                                                      *)
(***************************************************************************)
LEMMA EmptyDomain == DOMAIN << >> = {}
OBVIOUS

LEMMA Lists ==
  ASSUME Functions, NEW s \in Sessions
  PROVE  /\ Len(NodesOf(s)) \in Nat /\ DOMAIN NodesOf(s) = 1..Len(NodesOf(s))
         /\ Len(LinksOf(s)) \in Nat /\ DOMAIN LinksOf(s) = 1..Len(LinksOf(s))
<1>1. IsList(lab[s].Nodes) /\ IsList(lab[s].Links)
  BY TopologyAssumption DEF Functions
<1> QED
  BY <1>1 DEF IsList, NodesOf, LinksOf

LEMMA NamesGrow ==
  ASSUME NEW t, NEW n \in Nat \ {0}
  PROVE  NamesBefore(t, n + 1) = NamesBefore(t, n) \cup {t.Nodes[n].Name}
<1>1. 1..((n + 1) - 1) = (1..(n - 1)) \cup {n}
  OBVIOUS
<1> QED
  BY <1>1 DEF NamesBefore

LEMMA EndsGrow ==
  ASSUME NEW t, NEW n \in Nat \ {0}
  PROVE  EndsBefore(t, n + 1) = EndsBefore(t, n) \cup Ends(t, t.Links[n])
<1>1. 1..((n + 1) - 1) = (1..(n - 1)) \cup {n}
  OBVIOUS
<1> QED
  BY <1>1 DEF EndsBefore

LEMMA NamesComplete ==
  ASSUME Functions, NEW s \in Sessions, NEW n \in Nat \ {0}
  PROVE  /\ n <= Len(NodesOf(s)) + 1 => NamesBefore(lab[s], n) \subseteq Names(lab[s])
         /\ n = Len(NodesOf(s)) + 1 => NamesBefore(lab[s], n) = Names(lab[s])
<1>1. DOMAIN lab[s].Nodes = 1..Len(NodesOf(s)) /\ Len(NodesOf(s)) \in Nat
  BY Lists DEF NodesOf
<1>2. Names(lab[s]) = {lab[s].Nodes[i].Name : i \in 1..Len(NodesOf(s))}
  BY <1>1 DEF Names, Elements
<1>3. n <= Len(NodesOf(s)) + 1 => 1..(n - 1) \subseteq 1..Len(NodesOf(s))
  BY <1>1
<1>4. n = Len(NodesOf(s)) + 1 => 1..(n - 1) = 1..Len(NodesOf(s))
  BY <1>1
<1> QED
  BY <1>2, <1>3, <1>4 DEF NamesBefore

LEMMA EndsComplete ==
  ASSUME Functions, NEW s \in Sessions
  PROVE  EndsBefore(lab[s], Len(LinksOf(s)) + 1) = AllEnds(lab[s])
<1>1. DOMAIN lab[s].Links = 1..Len(LinksOf(s)) /\ Len(LinksOf(s)) \in Nat
  BY Lists DEF LinksOf
<1>2. AllEnds(lab[s]) = UNION {Ends(lab[s], lab[s].Links[i]) : i \in 1..Len(LinksOf(s))}
  BY <1>1 DEF AllEnds, Elements
<1>3. 1..((Len(LinksOf(s)) + 1) - 1) = 1..Len(LinksOf(s))
  BY <1>1
<1> QED
  BY <1>2, <1>3 DEF EndsBefore

-----------------------------------------------------------------------------
(***************************************************************************)
(* A step of one session.                                                  *)
(***************************************************************************)
LEMMA Frame ==
  ASSUME Functions, NEW s \in Sessions, ProvisionStep(s)
  PROVE  /\ Functions' /\ lab' = lab /\ second' = second
         /\ faulted' \in {faulted, faulted \cup {s}}
         /\ \A t \in Sessions \ {s} : Same(t)
<1> USE DEF Functions, Same
<1>1. CASE Launch(s)
  BY <1>1 DEF Launch, Goto
<1>2. CASE EnsureKaliImage(s)
  BY <1>2 DEF EnsureKaliImage, CallFails, Fail, Goto
<1>3. CASE CreateProject(s)
  BY <1>3 DEF CreateProject, CallFails, Fail, Goto
<1>4. CASE CreateNode(s)
  BY <1>4 DEF CreateNode, CallFails, Fail, Goto
<1>5. CASE NodesCreated(s)
  BY <1>5 DEF NodesCreated, Goto
<1>6. CASE CreateLink(s)
  BY <1>6 DEF CreateLink, CallFails, Fail, Goto
<1>7. CASE LinksCreated(s)
  BY <1>7 DEF LinksCreated, Goto
<1>8. CASE StartNodes(s)
  BY <1>8 DEF StartNodes, CallFails, Fail, Goto
<1>9. CASE PopulateNodeMACs(s)
  BY <1>9 DEF PopulateNodeMACs, Goto
<1>10. CASE SetProvisioned(s)
  BY <1>10 DEF SetProvisioned, StatementFails, Goto
<1>11. CASE SetFailed(s)
  BY <1>11 DEF SetFailed, StatementFails, Goto
<1> QED
  BY <1>1, <1>2, <1>3, <1>4, <1>5, <1>6, <1>7, <1>8, <1>9, <1>10, <1>11 DEF ProvisionStep

LEMMA StageSame ==
  ASSUME NEW t \in Sessions, Stage(t), Same(t), lab' = lab
  PROVE  Stage(t)'
BY DEF Stage, Same, IsRow, IsProject, RowFollows, Built, HasNodes, NodesOf, LinksOf

\* What a project keeps when one of its fields changes.
LEMMA NodesField ==
  ASSUME NEW p, IsProject(p), NEW v
  PROVE  LET q == [p EXCEPT !.nodes = v]
         IN  IsProject(q) /\ q.nodes = v /\ q.cables = p.cables
BY DEF IsProject

LEMMA CablesField ==
  ASSUME NEW p, IsProject(p), NEW v
  PROVE  LET q == [p EXCEPT !.cables = v]
         IN  IsProject(q) /\ q.nodes = p.nodes /\ q.cables = v
BY DEF IsProject

LEMMA StartedField ==
  ASSUME NEW p, IsProject(p), NEW v
  PROVE  LET q == [p EXCEPT !.started = v]
         IN  IsProject(q) /\ q.nodes = p.nodes /\ q.cables = p.cables /\ q.started = v
BY DEF IsProject

\* Where a session ends whose build does not go on.
LEMMA StageFail ==
  ASSUME Functions, NEW s \in Sessions, Stage(s), pc[s] \in Working, lab' = lab,
         UNCHANGED row, nodeMap' = nodeMap, next' = next, IsProject(project'[s]),
         pc'[s] = "fail"
  PROVE  Stage(s)'
BY DEF Stage, IsRow, RowFollows, Built, PCs, Working

\* A failed call leaves a project, with or without its effect.
LEMMA FailedCall ==
  ASSUME Functions, NEW s \in Sessions, Stage(s), NEW effect, IsProject(effect), CallFails(s, effect)
  PROVE  /\ IsProject(project'[s]) /\ pc'[s] = "fail" /\ nodeMap' = nodeMap /\ next' = next
         /\ s \in faulted'
BY DEF CallFails, Fail, Goto, Stage, Functions

LEMMA LaunchStage ==
  ASSUME Functions, NEW s \in Sessions, Stage(s), Launch(s)
  PROVE  Stage(s)'
<1>1. CASE Len(NodesOf(s)) = 0
  BY <1>1 DEF Launch, Goto, Functions, Stage, IsRow, RowFollows, Built, PCs, Working
<1>2. CASE Len(NodesOf(s)) # 0
  <2>1. row'[s] = [row[s] EXCEPT !.status = "provisioning"] /\ pc'[s] = "image"
    BY <1>2 DEF Launch, Goto, Functions
  <2>2. /\ IsRow(row'[s]) /\ row'[s].status = "provisioning"
        /\ row'[s].project = row[s].project /\ row'[s].nodes = row[s].nodes
    BY <2>1 DEF Stage, IsRow
  <2> QED
    BY <2>1, <2>2 DEF Launch, Stage, RowFollows, Built, PCs, Working
<1> QED
  BY <1>1, <1>2

LEMMA EnsureKaliImageStage ==
  ASSUME Functions, NEW s \in Sessions, Stage(s), EnsureKaliImage(s)
  PROVE  Stage(s)'
<1>1. CASE pc' = [pc EXCEPT ![s] = "create"] /\ UNCHANGED <<next, nodeMap, project, faulted>>
  BY <1>1 DEF EnsureKaliImage, Functions, Stage, IsRow, RowFollows, Built, PCs, Working
<1>2. CASE CallFails(s, project[s])
  <2>1. IsProject(project[s]) /\ pc[s] \in Working
    BY DEF EnsureKaliImage, Stage, PCs, Working
  <2> QED
    BY <1>2, <2>1, FailedCall, StageFail DEF EnsureKaliImage
<1> QED
  BY <1>1, <1>2 DEF EnsureKaliImage, Goto

LEMMA CreateProjectStage ==
  ASSUME Functions, NEW s \in Sessions, Stage(s), CreateProject(s)
  PROVE  Stage(s)'
<1> DEFINE new == Empty(ProjectName(s))
<1>1. IsProject(new) /\ new.nodes = {} /\ new.cables = {} /\ pc[s] \in Working
  BY DEF Empty, IsProject, CreateProject, PCs, Working
<1>2. CASE /\ project' = [project EXCEPT ![s] = new]
           /\ pc' = [pc EXCEPT ![s] = "nodes"]
           /\ UNCHANGED <<next, nodeMap, faulted>>
  <2>1. project'[s] = new /\ pc'[s] = "nodes"
    BY <1>2 DEF Functions
  <2>2. next[s] = 1 /\ nodeMap[s] = << >> /\ pc[s] = "create"
    BY DEF CreateProject, Stage, Built
  <2>3. NamesBefore(lab[s], 1) = {} /\ DOMAIN nodeMap[s] = {} /\ 1 <= Len(NodesOf(s)) + 1
    BY <2>2, EmptyDomain, Lists DEF NamesBefore
  <2> HIDE DEF new
  <2> QED
    BY <1>1, <1>2, <2>1, <2>2, <2>3
    DEF CreateProject, Stage, IsRow, RowFollows, Built, PCs, Working, NodesOf
<1>3. CASE Fail(s) /\ UNCHANGED project
  BY <1>1, <1>3, StageFail DEF CreateProject, Fail, Goto, Stage, Functions
<1>4. CASE CallFails(s, new)
  BY <1>1, <1>4, FailedCall, StageFail DEF CreateProject
<1> QED
  BY <1>2, <1>3, <1>4 DEF CreateProject, Goto

LEMMA CreateNodeStage ==
  ASSUME Functions, NEW s \in Sessions, Stage(s), CreateNode(s)
  PROVE  Stage(s)'
<1> DEFINE node == NodesOf(s)[next[s]]
           new == WithNode(s, node)
<1>1. /\ IsProject(new) /\ new.nodes = project[s].nodes \cup {node.Name}
      /\ new.cables = project[s].cables /\ pc[s] \in Working
  BY NodesField DEF WithNode, CreateNode, Stage, PCs, Working
<1>2. CASE /\ project' = [project EXCEPT ![s] = new]
           /\ nodeMap' = [nodeMap EXCEPT ![s] = WithEntry(@, node.Name, NodeInfo(node))]
           /\ next' = [next EXCEPT ![s] = @ + 1]
           /\ UNCHANGED <<pc, faulted>>
  <2>1. project'[s] = new /\ next'[s] = next[s] + 1
    BY <1>2 DEF Functions, Stage
  <2>2. DOMAIN nodeMap'[s] = DOMAIN nodeMap[s] \cup {node.Name}
    BY <1>2 DEF Functions, WithEntry
  <2>3. /\ pc[s] = "nodes" /\ next[s] \in Nat \ {0} /\ next[s] <= Len(NodesOf(s))
        /\ Len(NodesOf(s)) \in Nat
    BY Lists DEF CreateNode, Stage
  <2>4. NamesBefore(lab[s], next[s] + 1) = NamesBefore(lab[s], next[s]) \cup {node.Name}
    BY <2>3, NamesGrow DEF NodesOf
  <2>5. NamesBefore(lab[s], next[s] + 1) \subseteq Names(lab[s])
    <3> DEFINE n == next[s] + 1
    <3>1. n \in Nat \ {0} /\ n <= Len(NodesOf(s)) + 1
      BY <2>3
    <3> HIDE DEF n
    <3> QED
      BY <3>1, NamesComplete DEF n
  <2>6. next'[s] \in Nat \ {0} /\ next'[s] <= Len(NodesOf(s)) + 1
    BY <2>1, <2>3
  <2> HIDE DEF new, node
  <2>7. /\ project'[s].nodes = NamesBefore(lab[s], next'[s])
        /\ DOMAIN nodeMap'[s] = NamesBefore(lab[s], next'[s])
        /\ project'[s].cables = {}
    BY <1>1, <2>1, <2>2, <2>3, <2>4 DEF Stage, Built
  <2> QED
    BY <1>1, <1>2, <2>1, <2>3, <2>5, <2>6, <2>7
    DEF CreateNode, Stage, IsRow, RowFollows, Built, PCs, Working, NodesOf
<1>3. CASE Fail(s) /\ UNCHANGED project
  BY <1>1, <1>3, StageFail DEF CreateNode, Fail, Goto, Stage, Functions
<1>4. CASE CallFails(s, new)
  BY <1>1, <1>4, FailedCall, StageFail DEF CreateNode
<1> QED
  BY <1>2, <1>3, <1>4 DEF CreateNode

LEMMA NodesCreatedStage ==
  ASSUME Functions, NEW s \in Sessions, Stage(s), NodesCreated(s)
  PROVE  Stage(s)'
<1>1. /\ pc[s] = "nodes" /\ next[s] = Len(NodesOf(s)) + 1
      /\ Len(LinksOf(s)) \in Nat
  BY Lists DEF NodesCreated, Stage, Built
<1>2. HasNodes(s) /\ project[s].cables = {}
  BY <1>1, NamesComplete DEF HasNodes, Stage, Built
<1>3. EndsBefore(lab[s], 1) = {}
  BY DEF EndsBefore
<1>4. pc'[s] = "links" /\ next'[s] = 1
  BY DEF NodesCreated, Goto, Functions
<1> QED
  BY <1>1, <1>2, <1>3, <1>4
  DEF NodesCreated, Stage, IsRow, RowFollows, Built, HasNodes, PCs, Working, LinksOf

LEMMA CreateLinkStage ==
  ASSUME Functions, NEW s \in Sessions, Stage(s), CreateLink(s)
  PROVE  Stage(s)'
<1> DEFINE l == LinksOf(s)[next[s]]
           new == WithLink(s, l)
<1>1. /\ IsProject(new) /\ new.nodes = project[s].nodes
      /\ new.cables = project[s].cables \cup Ends(lab[s], l) /\ pc[s] \in Working
  BY CablesField DEF WithLink, CreateLink, Stage, PCs, Working
<1>2. CASE /\ project' = [project EXCEPT ![s] = new]
           /\ next' = [next EXCEPT ![s] = @ + 1]
           /\ UNCHANGED <<pc, nodeMap, faulted>>
  <2>1. project'[s] = new /\ next'[s] = next[s] + 1
    BY <1>2 DEF Functions, Stage
  <2>2. /\ pc[s] = "links" /\ next[s] \in Nat \ {0} /\ next[s] <= Len(LinksOf(s))
        /\ Len(LinksOf(s)) \in Nat
    BY Lists DEF CreateLink, Stage
  <2>3. EndsBefore(lab[s], next[s] + 1) = EndsBefore(lab[s], next[s]) \cup Ends(lab[s], l)
    BY <2>2, EndsGrow DEF LinksOf
  <2>4. next'[s] \in Nat \ {0} /\ next'[s] <= Len(LinksOf(s)) + 1
    BY <2>1, <2>2
  <2> HIDE DEF new, l
  <2>5. project'[s].cables = EndsBefore(lab[s], next'[s])
    BY <1>1, <2>1, <2>2, <2>3 DEF Stage, Built
  <2> QED
    BY <1>1, <1>2, <2>1, <2>2, <2>4, <2>5
    DEF CreateLink, Stage, IsRow, RowFollows, Built, HasNodes, PCs, Working, LinksOf
<1>3. CASE Fail(s) /\ UNCHANGED project
  BY <1>1, <1>3, StageFail DEF CreateLink, Fail, Goto, Stage, Functions
<1>4. CASE CallFails(s, new)
  BY <1>1, <1>4, FailedCall, StageFail DEF CreateLink
<1> QED
  BY <1>2, <1>3, <1>4 DEF CreateLink

LEMMA LinksCreatedStage ==
  ASSUME Functions, NEW s \in Sessions, Stage(s), LinksCreated(s)
  PROVE  Stage(s)'
<1>1. pc[s] = "links" /\ next[s] = Len(LinksOf(s)) + 1
  BY Lists DEF LinksCreated, Stage, Built
<1>2. HasNodes(s) /\ project[s].cables = AllEnds(lab[s])
  BY <1>1, EndsComplete DEF Stage, Built
<1>3. pc'[s] = "start"
  BY DEF LinksCreated, Goto, Functions
<1> QED
  BY <1>1, <1>2, <1>3
  DEF LinksCreated, Stage, IsRow, RowFollows, Built, HasNodes, PCs, Working

LEMMA StartNodesStage ==
  ASSUME Functions, NEW s \in Sessions, Stage(s), StartNodes(s)
  PROVE  Stage(s)'
<1> DEFINE new == Started(s)
<1>1. /\ IsProject(new) /\ new.nodes = project[s].nodes /\ new.cables = project[s].cables
      /\ new.started /\ pc[s] \in Working
  BY StartedField DEF Started, StartNodes, Stage, PCs, Working
<1>2. CASE /\ project' = [project EXCEPT ![s] = new]
           /\ pc' = [pc EXCEPT ![s] = "macs"]
           /\ UNCHANGED <<next, nodeMap, faulted>>
  <2>1. project'[s] = new /\ pc'[s] = "macs" /\ pc[s] = "start"
    BY <1>2 DEF Functions, StartNodes
  <2> HIDE DEF new
  <2> QED
    BY <1>1, <1>2, <2>1
    DEF StartNodes, Stage, IsRow, RowFollows, Built, HasNodes, PCs, Working
<1>3. CASE CallFails(s, new)
  BY <1>1, <1>3, FailedCall, StageFail DEF StartNodes
<1> QED
  BY <1>2, <1>3 DEF StartNodes, Goto

LEMMA PopulateNodeMACsStage ==
  ASSUME Functions, NEW s \in Sessions, Stage(s), PopulateNodeMACs(s)
  PROVE  Stage(s)'
<1>1. pc[s] = "macs" /\ pc'[s] = "commit" /\ DOMAIN nodeMap'[s] = DOMAIN nodeMap[s]
  BY DEF PopulateNodeMACs, Goto, Functions
<1> QED
  BY <1>1
  DEF PopulateNodeMACs, Stage, IsRow, RowFollows, Built, HasNodes, PCs, Working

LEMMA SetProvisionedStage ==
  ASSUME Functions, NEW s \in Sessions, Stage(s), SetProvisioned(s)
  PROVE  Stage(s)'
<1>1. pc[s] = "commit" /\ pc'[s] = "done"
  BY DEF SetProvisioned, Goto, Functions
<1>2. CASE row' = [row EXCEPT ![s] = [status |-> "running", project |-> s, nodes |-> nodeMap[s]]]
  <2>1. row'[s] = [status |-> "running", project |-> s, nodes |-> nodeMap[s]]
    BY <1>2 DEF Functions
  <2> QED
    BY <1>1, <2>1
    DEF SetProvisioned, Stage, IsRow, IsProject, RowFollows, Built, HasNodes, PCs, Working
<1>3. CASE UNCHANGED row
  BY <1>1, <1>3 DEF SetProvisioned, Stage, IsRow, RowFollows, Built, PCs, Working
<1> QED
  BY <1>2, <1>3 DEF SetProvisioned, StatementFails

LEMMA SetFailedStage ==
  ASSUME Functions, NEW s \in Sessions, Stage(s), SetFailed(s)
  PROVE  Stage(s)'
<1>1. pc[s] = "fail" /\ pc'[s] = "done"
  BY DEF SetFailed, Goto, Functions
<1>2. CASE row' = [row EXCEPT ![s].status = "failed"]
  <2>1. row'[s] = [row[s] EXCEPT !.status = "failed"]
    BY <1>2 DEF Functions
  <2>2. /\ IsRow(row'[s]) /\ row'[s].status = "failed"
        /\ row'[s].project = row[s].project /\ row'[s].nodes = row[s].nodes
    BY <2>1 DEF Stage, IsRow
  <2> QED
    BY <1>1, <2>2 DEF SetFailed, Stage, RowFollows, Built, PCs, Working
<1>3. CASE UNCHANGED row
  BY <1>1, <1>3 DEF SetFailed, Stage, IsRow, RowFollows, Built, PCs, Working
<1> QED
  BY <1>2, <1>3 DEF SetFailed, StatementFails

LEMMA StepStage ==
  ASSUME Functions, NEW s \in Sessions, Stage(s), ProvisionStep(s)
  PROVE  Stage(s)'
BY LaunchStage, EnsureKaliImageStage, CreateProjectStage, CreateNodeStage, NodesCreatedStage,
   CreateLinkStage, LinksCreatedStage, StartNodesStage, PopulateNodeMACsStage,
   SetProvisionedStage, SetFailedStage DEF ProvisionStep

\* The end of the process: nothing of a session moves but its goroutine, to its end.
LEMMA CrashStage ==
  ASSUME Functions, NEW s \in Sessions, Stage(s), Crash
  PROVE  Stage(s)'
<1>1. pc'[s] = IF pc[s] = "idle" THEN "idle" ELSE "done"
  BY DEF Crash
<1> QED
  BY <1>1
  DEF Crash, Stage, IsRow, IsProject, RowFollows, Built, HasNodes, NodesOf, LinksOf, PCs, Working

-----------------------------------------------------------------------------
(***************************************************************************)
(* The invariant holds.                                                    *)
(***************************************************************************)
LEMMA InitInv == Init => IInv
<1> SUFFICES ASSUME Init PROVE IInv
  OBVIOUS
<1>1. Functions /\ second \in 0..MaxSecond /\ faulted \subseteq Sessions
  BY LaunchAssumption DEF Init, Functions
<1>2. ASSUME NEW s \in Sessions PROVE Stage(s)
  <2>1. /\ row[s] = [status |-> "none", project |-> None, nodes |-> << >>]
        /\ pc[s] = "idle" /\ next[s] = 1 /\ nodeMap[s] = << >> /\ project[s] = NoProject
    BY DEF Init
  <2>2. IsRow(row[s]) /\ IsProject(project[s])
    BY <2>1 DEF IsRow, IsProject, NoProject, Empty
  <2> QED
    BY <2>1, <2>2, EmptyDomain DEF Stage, RowFollows, Built, PCs, Working
<1> QED
  BY <1>1, <1>2 DEF IInv

LEMMA NextInv == IInv /\ [Next]_vars => IInv'
<1> SUFFICES ASSUME IInv, [Next]_vars PROVE IInv'
  OBVIOUS
<1>1. ASSUME NEW s \in Sessions, ProvisionStep(s) PROVE IInv'
  <2>1. /\ Functions' /\ lab' = lab /\ second' = second
        /\ faulted' \in {faulted, faulted \cup {s}}
        /\ \A t \in Sessions \ {s} : Same(t)
    BY <1>1, Frame DEF IInv
  <2>2. Stage(s)'
    BY <1>1, StepStage DEF IInv
  <2>3. ASSUME NEW t \in Sessions \ {s} PROVE Stage(t)'
    BY <2>1, StageSame DEF IInv
  <2> QED
    BY <2>1, <2>2, <2>3 DEF IInv
<1>2. CASE Crash
  <2>1. Functions' /\ second' = second /\ faulted' \subseteq Sessions
    BY <1>2 DEF Crash, Functions, IInv
  <2>2. ASSUME NEW s \in Sessions PROVE Stage(s)'
    BY <1>2, CrashStage DEF IInv
  <2> QED
    BY <2>1, <2>2 DEF IInv
<1>3. ASSUME lab' = lab, UNCHANGED <<row, pc, next, name, nodeMap, project, faulted>>,
             second' \in 0..MaxSecond
      PROVE  IInv'
  <2>1. Functions'
    BY <1>3 DEF Functions, IInv
  <2>2. ASSUME NEW s \in Sessions PROVE Stage(s)'
    BY <1>3, StageSame DEF Same, IInv
  <2> QED
    BY <1>3, <2>1, <2>2 DEF IInv
<1>4. CASE Tick
  <2>1. second' \in 0..MaxSecond
    BY <1>4, LaunchAssumption DEF Tick, IInv
  <2> QED
    BY <1>3, <1>4, <2>1 DEF Tick
<1>5. CASE UNCHANGED vars
  BY <1>3, <1>5 DEF vars, IInv
<1> QED
  BY <1>1, <1>2, <1>4, <1>5 DEF Next, AllDone

LEMMA Inductive == Spec => []IInv
BY InitInv, NextInv, PTL DEF Spec

\* Every variable of the goroutine keeps its type; the node map and the row name
\* only nodes of the lab (service.go, provision).
THEOREM TypeCorrect == Spec => []TypeOK
<1>1. IInv => TypeOK
  <2> SUFFICES ASSUME IInv PROVE TypeOK
    OBVIOUS
  <2>1. pc \in [Sessions -> PCs] /\ next \in [Sessions -> Nat \ {0}]
    BY DEF IInv, Functions, Stage
  <2>2. ASSUME NEW s \in Sessions
        PROVE  /\ row[s].status \in {"none", "provisioning", "running", "failed"}
               /\ row[s].project \in {s, None}
               /\ DOMAIN row[s].nodes \subseteq Names(lab[s])
               /\ DOMAIN nodeMap[s] \subseteq Names(lab[s])
    BY EmptyDomain DEF IInv, Stage, RowFollows, Built
  <2> QED
    BY <2>1, <2>2 DEF TypeOK, IInv
<1> QED
  BY <1>1, Inductive, PTL

\* A row that says running has a started project behind it with every node and every
\* cable of its lab (service.go, provision; gns3client_impl.go, createLinks).
THEOREM RunningLabsAreBuilt == Spec => []RunningIsBuilt
<1>1. IInv => RunningIsBuilt
  BY DEF IInv, Stage, Built, RunningIsBuilt, AllEnds, LinksOf
<1> QED
  BY <1>1, Inductive, PTL

-----------------------------------------------------------------------------
(***************************************************************************)
(* Why a launch fails, given a catalogue whose topologies GNS3 can build.  *)
(***************************************************************************)
Caused(s) ==
  /\ pc[s] \in {"idle", "image", "create"} => name[s] = None
  /\ pc[s] = "fail" \/ row[s].status = "failed" => s \in faulted \/ Rival(s)

CInv == IInv /\ \A s \in Sessions : Caused(s)

\* A project keeps its name.
LEMMA NameKept ==
  ASSUME Functions, NEW s \in Sessions, Stage(s), ProvisionStep(s), project[s].name # None
  PROVE  project'[s].name = project[s].name
<1>1. CASE CreateProject(s)
  BY <1>1 DEF CreateProject, Stage, Built, NoProject, Empty
<1>2. CASE CreateNode(s)
  BY <1>2 DEF CreateNode, CallFails, Fail, WithNode, Functions, Stage, IsProject
<1>3. CASE CreateLink(s)
  BY <1>3 DEF CreateLink, CallFails, Fail, WithLink, Functions, Stage, IsProject
<1>4. CASE StartNodes(s)
  BY <1>4 DEF StartNodes, CallFails, Fail, Started, Functions, Stage, IsProject
<1>5. CASE EnsureKaliImage(s)
  BY <1>5 DEF EnsureKaliImage, CallFails, Fail, Functions
<1> QED
  BY <1>1, <1>2, <1>3, <1>4, <1>5
  DEF ProvisionStep, Launch, NodesCreated, LinksCreated, PopulateNodeMACs, SetProvisioned, SetFailed

LEMMA RivalStays ==
  ASSUME Functions, NEW s \in Sessions, Stage(s), ProvisionStep(s),
         \A t \in Sessions \ {s} : Same(t),
         NEW t \in Sessions, Rival(t), name'[t] = name[t]
  PROVE  Rival(t)'
<1>1. PICK r \in Sessions \ {t} : project[r].name = name[t] /\ name[t] # None
  BY DEF Rival
<1>2. project'[r].name = project[r].name
  BY <1>1, NameKept DEF Same
<1> QED
  BY <1>1, <1>2 DEF Rival

\* A sound topology is never refused.
LEMMA NodeAccepted ==
  ASSUME SoundTopologies, Functions, NEW s \in Sessions, NEW i \in DOMAIN NodesOf(s)
  PROVE  Accepted(NodesOf(s)[i])
BY DEF SoundTopologies, Functions, NodesOf

LEMMA LinkAccepted ==
  ASSUME SoundTopologies, Functions, NEW s \in Sessions, Stage(s), pc[s] = "links",
         next[s] \in DOMAIN LinksOf(s)
  PROVE  Accepts(s, LinksOf(s)[next[s]])
<1> DEFINE t == lab[s]
           l == t.Links[next[s]]
<1>1. /\ Connectable(t, l)
      /\ \A i \in DOMAIN t.Links : i # next[s] => Ends(t, l) \cap Ends(t, t.Links[i]) = {}
  BY DEF SoundTopologies, Functions, LinksOf
<1>2. DOMAIN t.Links = 1..Len(LinksOf(s)) /\ Len(LinksOf(s)) \in Nat
  BY Lists DEF LinksOf
<1>3. \A i \in 1..(next[s] - 1) : i \in DOMAIN t.Links /\ i # next[s]
  BY <1>2 DEF Stage, LinksOf
<1>4. project[s].cables = EndsBefore(t, next[s]) /\ DOMAIN nodeMap[s] = Names(t)
  BY DEF Stage, Built, HasNodes
<1>5. Ends(t, l) \cap project[s].cables = {}
  BY <1>1, <1>3, <1>4 DEF EndsBefore
<1>6. {l.NodeA, l.NodeB} \subseteq DOMAIN nodeMap[s]
  BY <1>1, <1>4 DEF Connectable
<1> QED
  BY <1>1, <1>5, <1>6 DEF Accepts, LinksOf

\* A goroutine gives up only because of a fault or of a rival.
LEMMA GivesUp ==
  ASSUME SoundTopologies, Functions, second \in 0..MaxSecond, NEW s \in Sessions, Stage(s), ProvisionStep(s),
         \A t \in Sessions \ {s} : Same(t), pc'[s] = "fail"
  PROVE  s \in faulted' \/ Rival(s)'
<1>1. CASE CreateProject(s)
  <2>1. name'[s] = ProjectName(s)
    BY <1>1 DEF CreateProject, Functions
  <2>2. CASE NameTaken(s, ProjectName(s))
    <3>1. ProjectName(s) # None
      <4>1. lab \in Launches /\ second \in 0..MaxSecond
        BY DEF Functions
      <4> QED
        BY <4>1, LaunchAssumption DEF ProjectName
    <3> QED
      BY <2>1, <2>2, <3>1 DEF NameTaken, Rival, Same
  <2>3. CASE ~NameTaken(s, ProjectName(s))
    BY <1>1, <2>3 DEF CreateProject, CallFails, Goto, Functions
  <2> QED
    BY <2>2, <2>3
<1>2. CASE CreateNode(s)
  BY <1>2, NodeAccepted DEF CreateNode, CallFails
<1>3. CASE CreateLink(s)
  BY <1>3, LinkAccepted DEF CreateLink, CallFails
<1>4. CASE EnsureKaliImage(s)
  BY <1>4 DEF EnsureKaliImage, CallFails, Goto, Functions
<1>5. CASE StartNodes(s)
  BY <1>5 DEF StartNodes, CallFails, Goto, Functions
<1> QED
  BY <1>1, <1>2, <1>3, <1>4, <1>5
  DEF ProvisionStep, Launch, NodesCreated, LinksCreated, PopulateNodeMACs, SetProvisioned,
      SetFailed, Goto, Functions

LEMMA CausedStep ==
  ASSUME SoundTopologies, IInv, NEW s \in Sessions, Caused(s), ProvisionStep(s)
  PROVE  Caused(s)'
<1> USE DEF IInv
<1>1. /\ faulted' \in {faulted, faulted \cup {s}}
      /\ \A t \in Sessions \ {s} : Same(t)
  BY Frame
<1>2. pc'[s] = "fail" => s \in faulted' \/ Rival(s)'
  BY <1>1, GivesUp
<1>3. pc[s] = "done" => FALSE
  BY DEF ProvisionStep, Launch, EnsureKaliImage, CreateProject, CreateNode, NodesCreated,
     CreateLink, LinksCreated, StartNodes, PopulateNodeMACs, SetProvisioned, SetFailed
<1>4. row[s].status # "failed"
  BY <1>3 DEF Stage, RowFollows, PCs, Working
<1>5. ASSUME row'[s].status = "failed" PROVE s \in faulted' \/ Rival(s)'
  <2>1. SetFailed(s)
    <3>1. row'[s] # row[s]
      BY <1>4, <1>5
    <3>2. ~SetProvisioned(s)
      BY <1>4, <1>5 DEF SetProvisioned, StatementFails, Functions
    <3>3. ~Launch(s)
      BY <1>4, <1>5 DEF Launch, Functions, Stage, IsRow
    <3> QED
      BY <3>1, <3>2, <3>3
      DEF ProvisionStep, EnsureKaliImage, CreateProject, CreateNode, NodesCreated,
          CreateLink, LinksCreated, StartNodes, PopulateNodeMACs
  <2>2. s \in faulted \/ Rival(s)
    BY <2>1 DEF SetFailed, Caused
  <2>3. name' = name
    BY <2>1 DEF SetFailed
  <2> QED
    BY <1>1, <2>2, <2>3, RivalStays
<1>6. pc'[s] \in {"idle", "image", "create"} => name'[s] = None
  <2>1. CASE pc[s] \in {"idle", "image"}
    BY <2>1 DEF Caused, ProvisionStep, Launch, EnsureKaliImage, CreateProject, CreateNode,
       NodesCreated, CreateLink, LinksCreated, StartNodes, PopulateNodeMACs, SetProvisioned,
       SetFailed
  <2>2. CASE pc[s] \notin {"idle", "image"}
    BY <2>2 DEF ProvisionStep, Launch, EnsureKaliImage, CreateProject, CreateNode,
       NodesCreated, CreateLink, LinksCreated, StartNodes, PopulateNodeMACs, SetProvisioned,
       SetFailed, CallFails, Fail, Goto, Functions
  <2> QED
    BY <2>1, <2>2
<1> QED
  BY <1>2, <1>5, <1>6 DEF Caused

LEMMA CausedOther ==
  ASSUME IInv, NEW s \in Sessions, ProvisionStep(s),
         NEW t \in Sessions \ {s}, Caused(t)
  PROVE  Caused(t)'
<1>1. /\ faulted' \in {faulted, faulted \cup {s}}
      /\ \A u \in Sessions \ {s} : Same(u)
  BY Frame DEF IInv
<1>2. Rival(t) => Rival(t)'
  BY <1>1, RivalStays DEF IInv, Same
<1> QED
  BY <1>1, <1>2 DEF Caused, Same

LEMMA CausedHolds ==
  ASSUME SoundTopologies
  PROVE  Spec => []CInv
<1>1. Init => CInv
  <2> SUFFICES ASSUME Init PROVE CInv
    OBVIOUS
  <2>1. \A s \in Sessions : Caused(s)
    BY DEF Init, Caused
  <2> QED
    BY <2>1, InitInv DEF CInv
<1>2. CInv /\ [Next]_vars => CInv'
  <2> SUFFICES ASSUME CInv, [Next]_vars PROVE CInv'
    OBVIOUS
  <2>1. IInv'
    BY NextInv DEF CInv
  <2>2. ASSUME NEW s \in Sessions, ProvisionStep(s), NEW t \in Sessions PROVE Caused(t)'
    BY <2>2, CausedStep, CausedOther DEF CInv
  <2>3. CASE Crash
    <3>1. ASSUME NEW s \in Sessions PROVE Caused(s)'
      <4>1. /\ pc'[s] = IF pc[s] = "idle" THEN "idle" ELSE "done"
            /\ row' = row /\ name' = name /\ project' = project /\ faulted \subseteq faulted'
        BY <2>3 DEF Crash
      <4> QED
        BY <4>1 DEF CInv, Caused, Rival
    <3> QED
      BY <2>1, <3>1 DEF CInv
  <2>4. CASE UNCHANGED <<row, pc, name, project, faulted>>
    BY <2>1, <2>4 DEF CInv, Caused, Rival
  <2> QED
    BY <2>1, <2>2, <2>3, <2>4 DEF CInv, Next, Tick, AllDone, vars
<1> QED
  BY <1>1, <1>2, PTL DEF Spec

\* With a catalogue of sound topologies a launch fails only by a fault around it or by a
\* launch of the same lab in the same second (service.go, provision; gns3client_impl.go).
THEOREM LaunchesFailForCause ==
  ASSUME SoundTopologies
  PROVE  Spec => []FailsForCause
<1>1. CInv => FailsForCause
  BY DEF CInv, Caused, FailsForCause
<1> QED
  BY <1>1, CausedHolds, PTL

-----------------------------------------------------------------------------
(***************************************************************************)
(* The launch as one step: what a row turns into.                          *)
(***************************************************************************)
LEMMA RowStep ==
  ASSUME IInv, NEW s \in Sessions, ProvisionStep(s)
  PROVE  Outcome!Next \/ UNCHANGED <<row, lab>>
<1>1. /\ lab' = lab /\ DOMAIN row' = Sessions
      /\ \A t \in Sessions \ {s} : row'[t] = row[t]
  BY Frame DEF IInv, Functions, Same
<1>2. CASE Launch(s)
  <2>1. CASE Len(NodesOf(s)) = 0
    BY <1>2, <2>1 DEF Launch
  <2>2. CASE Len(NodesOf(s)) # 0
    <3>1. row'[s] = [row[s] EXCEPT !.status = "provisioning"] /\ row[s].status = "none"
      BY <1>2, <2>2 DEF Launch, Functions, IInv, Stage, RowFollows
    <3>2. /\ row'[s].status = "provisioning"
          /\ row'[s].project = row[s].project /\ row'[s].nodes = row[s].nodes
      BY <3>1 DEF IInv, Stage, IsRow
    <3>3. 1 \in DOMAIN lab[s].Nodes
      BY <2>2, Lists DEF IInv, NodesOf
    <3>4. Names(lab[s]) # {}
      BY <3>3 DEF Names, Elements
    <3>5. Outcome!Launch(s)
      BY <1>1, <3>1, <3>2, <3>4 DEF Outcome!Launch, Outcome!Turns, Outcome!KeepsContent
    <3> QED
      BY <3>5 DEF Outcome!Next
  <2> QED
    BY <2>1, <2>2
<1>3. CASE SetFailed(s)
  <2>1. CASE row' = [row EXCEPT ![s].status = "failed"]
    <3>1. row'[s] = [row[s] EXCEPT !.status = "failed"] /\ row[s].status = "provisioning"
      BY <1>3, <2>1 DEF SetFailed, Functions, IInv, Stage, RowFollows, PCs, Working
    <3>2. /\ row'[s].status = "failed"
          /\ row'[s].project = row[s].project /\ row'[s].nodes = row[s].nodes
      BY <3>1 DEF IInv, Stage, IsRow
    <3>3. Outcome!Fail(s)
      BY <1>1, <3>1, <3>2 DEF Outcome!Fail, Outcome!Turns, Outcome!KeepsContent
    <3> QED
      BY <3>3 DEF Outcome!Next
  <2> QED
    BY <1>1, <1>3, <2>1 DEF SetFailed, StatementFails
<1>4. CASE SetProvisioned(s)
  <2> DEFINE new == [status |-> "running", project |-> s, nodes |-> nodeMap[s]]
  <2>1. CASE row' = [row EXCEPT ![s] = new]
    <3>1. row'[s] = new /\ row[s].status = "provisioning"
      BY <1>4, <2>1 DEF SetProvisioned, Functions, IInv, Stage, RowFollows, PCs, Working
    <3>2. \A t \in Sessions : row[t].project # s
      <4>1. ASSUME NEW t \in Sessions PROVE row[t].project # s
        BY <3>1, LaunchAssumption DEF IInv, Stage, RowFollows, Built
      <4> QED
        BY <4>1
    <3>3. DOMAIN nodeMap[s] = Names(lab[s])
      BY <1>4 DEF SetProvisioned, IInv, Stage, Built, HasNodes
    <3>4. Outcome!Run(s)
      BY <1>1, <3>1, <3>2, <3>3, LaunchAssumption DEF Outcome!Run, Outcome!Turns
    <3> QED
      BY <3>4 DEF Outcome!Next
  <2> QED
    BY <1>1, <1>4, <2>1 DEF SetProvisioned, StatementFails
<1> QED
  BY <1>1, <1>2, <1>3, <1>4
  DEF ProvisionStep, EnsureKaliImage, CreateProject, CreateNode, NodesCreated,
      CreateLink, LinksCreated, StartNodes, PopulateNodeMACs

\* Nobody sees of a launch more than LaunchOutcome says: one change of the row, to running
\* with the whole lab or to failed with none of it (service.go, provision, SetProvisioned).
THEOREM ImplementsLaunchOutcome == Spec => ImplementsOutcome
<1>1. Init => Outcome!Init
  BY DEF Init, Outcome!Init, Outcome!NoRow
<1>2. IInv /\ [Next]_vars => [Outcome!Next]_<<row, lab>>
  <2> SUFFICES ASSUME IInv, [Next]_vars PROVE Outcome!Next \/ UNCHANGED <<row, lab>>
    OBVIOUS
  <2> QED
    BY RowStep DEF Next, Crash, Tick, AllDone, vars
<1> QED
  BY <1>1, <1>2, Inductive, PTL DEF Spec, ImplementsOutcome, Outcome!Spec

-----------------------------------------------------------------------------
(***************************************************************************)
(* What a verifier finds: an entry of the node map describes a node of the *)
(* topology under that name, whatever MAC addresses were resolved.         *)
(***************************************************************************)
NodesNamed(t, n) == {x \in Elements(t.Nodes) : x.Name = n}

Describes(s, info, x) ==
  /\ info = [NodeType |-> x.NodeType, ConsoleType |-> ConsoleOf(Payload(x)), MAC |-> info.MAC]
  /\ info.MAC \in {"", MACOf(s, x.Name)}

Recorded(s, m) == \A n \in DOMAIN m : \E x \in NodesNamed(lab[s], n) : Describes(s, m[n], x)

Describing(s) ==
  /\ Recorded(s, nodeMap[s])
  /\ row[s].status = "running" => Recorded(s, row[s].nodes)

DInv == IInv /\ \A s \in Sessions : Describing(s)

\* What a topology needs for the verifiers of its lab: the device they drive is an IOS node
\* with a telnet console and the one they speak of, the ports they read are in the links, the
\* hosts they look for are behind those ports.
EndOf(t, d, p) == <<d, interfaceToPort(nodeTypeOf(t, d), p)>>

IOSNode(x) == x.NodeType \in {"iou", "dynamips"} /\ ConsoleOf(Payload(x)) # "vnc"

Serves(t, entry) ==
  /\ entry.TargetDevice \in Names(t)
  /\ \A x \in NodesNamed(t, entry.TargetDevice) : IOSNode(x)
  /\ DevicesNamed(entry) \subseteq {entry.TargetDevice}
  /\ \A p \in PortsRead(entry) : EndOf(t, entry.TargetDevice, p) \in AllEnds(t)
  /\ \A i \in DOMAIN entry.Checks :
       entry.Checks[i].kind = "mac" =>
         entry.Checks[i].hosts \subseteq Peers(t, EndOf(t, entry.TargetDevice, entry.Checks[i].port))

ServesVerifiers(t) == \A entry \in Entries(t.Id) : Serves(t, entry)

\* The node map the running row is given, and its two writers.
LEMMA NodeRecorded ==
  ASSUME NEW s \in Sessions, NEW m, Recorded(s, m), NEW x \in Elements(lab[s].Nodes)
  PROVE  Recorded(s, WithEntry(m, x.Name, NodeInfo(x)))
<1> DEFINE m2 == WithEntry(m, x.Name, NodeInfo(x))
<1>1. DOMAIN m2 = DOMAIN m \cup {x.Name}
  BY DEF WithEntry
<1>2. x \in NodesNamed(lab[s], x.Name) /\ Describes(s, NodeInfo(x), x)
  BY DEF NodesNamed, Describes, NodeInfo
<1>3. ASSUME NEW n \in DOMAIN m2
      PROVE  \E y \in NodesNamed(lab[s], n) : Describes(s, m2[n], y)
  <2>1. CASE n = x.Name
    <3>1. m2[n] = NodeInfo(x)
      BY <1>3, <2>1 DEF WithEntry
    <3> QED
      BY <1>2, <2>1, <3>1
  <2>2. CASE n # x.Name
    <3>1. n \in DOMAIN m /\ m2[n] = m[n]
      BY <1>1, <1>3, <2>2 DEF WithEntry
    <3> QED
      BY <3>1 DEF Recorded
  <2> QED
    BY <2>1, <2>2
<1> HIDE DEF m2
<1>4. Recorded(s, m2)
  BY <1>3 DEF Recorded
<1> QED
  BY <1>4 DEF m2

LEMMA MACField ==
  ASSUME NEW type, NEW console, NEW mac, NEW new
  PROVE  [[NodeType |-> type, ConsoleType |-> console, MAC |-> mac] EXCEPT !.MAC = new] =
           [NodeType |-> type, ConsoleType |-> console, MAC |-> new]
OBVIOUS

LEMMA ResolvedRecorded ==
  ASSUME NEW s \in Sessions, NEW m, Recorded(s, m), NEW resolved
  PROVE  Recorded(s, [n \in DOMAIN m |->
                        IF n \in resolved THEN [m[n] EXCEPT !.MAC = MACOf(s, n)] ELSE m[n]])
<1> DEFINE m2 == [n \in DOMAIN m |->
                    IF n \in resolved THEN [m[n] EXCEPT !.MAC = MACOf(s, n)] ELSE m[n]]
<1>1. ASSUME NEW n \in DOMAIN m PROVE \E x \in NodesNamed(lab[s], n) : Describes(s, m2[n], x)
  <2>1. PICK x \in NodesNamed(lab[s], n) : Describes(s, m[n], x)
    BY DEF Recorded
  <2>2. CASE n \in resolved
    <3>1. m2[n] = [m[n] EXCEPT !.MAC = MACOf(s, n)] /\ x.Name = n
      BY <2>2 DEF NodesNamed
    <3>2. m[n] = [NodeType |-> x.NodeType, ConsoleType |-> ConsoleOf(Payload(x)),
                  MAC |-> m[n].MAC]
      BY <2>1 DEF Describes
    <3> HIDE DEF m2
    <3>3. m2[n] = [NodeType |-> x.NodeType, ConsoleType |-> ConsoleOf(Payload(x)),
                   MAC |-> MACOf(s, x.Name)]
      BY <3>1, <3>2, MACField
    <3>4. Describes(s, m2[n], x)
      BY <3>3 DEF Describes
    <3> QED
      BY <3>4
  <2>3. CASE n \notin resolved
    BY <2>1, <2>3
  <2> QED
    BY <2>2, <2>3
<1>2. DOMAIN m2 = DOMAIN m
  OBVIOUS
<1> HIDE DEF m2
<1>3. Recorded(s, m2)
  BY <1>1, <1>2 DEF Recorded
<1> QED
  BY <1>3 DEF m2

\* Where the node map stays and the row does not become running.
LEMMA DescribingKept ==
  ASSUME NEW t \in Sessions, Describing(t), lab' = lab, nodeMap'[t] = nodeMap[t],
         row'[t].status = "running" => row'[t] = row[t]
  PROVE  Describing(t)'
BY DEF Describing, Recorded, NodesNamed

LEMMA DescribingStep ==
  ASSUME IInv, NEW s \in Sessions, Describing(s), ProvisionStep(s)
  PROVE  Describing(s)'
<1>1. lab' = lab /\ Functions /\ Stage(s)
  BY Frame DEF IInv
<1>2. CASE CreateNode(s)
  <2> DEFINE x == NodesOf(s)[next[s]]
  <2>1. x \in Elements(lab[s].Nodes) /\ row' = row
    BY <1>2 DEF CreateNode, NodesOf, Elements
  <2>2. CASE nodeMap' = [nodeMap EXCEPT ![s] = WithEntry(@, x.Name, NodeInfo(x))]
    <3>1. nodeMap'[s] = WithEntry(nodeMap[s], x.Name, NodeInfo(x))
      BY <1>1, <2>2 DEF Functions
    <3> HIDE DEF x
    <3>2. Recorded(s, nodeMap'[s])
      BY <2>1, <3>1, NodeRecorded DEF Describing
    <3> QED
      BY <1>1, <2>1, <3>2 DEF Describing, Recorded, NodesNamed
  <2>3. CASE nodeMap' = nodeMap
    BY <1>1, <2>1, <2>3, DescribingKept
  <2> QED
    BY <1>2, <2>2, <2>3 DEF CreateNode, CallFails, Fail
<1>3. CASE PopulateNodeMACs(s)
  <2>1. PICK resolved :
          nodeMap' = [nodeMap EXCEPT ![s] =
            [n \in DOMAIN @ |-> IF n \in resolved THEN [@[n] EXCEPT !.MAC = MACOf(s, n)] ELSE @[n]]]
    BY <1>3 DEF PopulateNodeMACs
  <2>2. nodeMap'[s] = [n \in DOMAIN nodeMap[s] |->
          IF n \in resolved THEN [nodeMap[s][n] EXCEPT !.MAC = MACOf(s, n)] ELSE nodeMap[s][n]]
    BY <1>1, <2>1 DEF Functions
  <2>3. Recorded(s, nodeMap'[s]) /\ row' = row
    BY <1>3, <2>2, ResolvedRecorded DEF Describing, PopulateNodeMACs
  <2> QED
    BY <1>1, <2>3 DEF Describing, Recorded, NodesNamed
<1>4. CASE SetProvisioned(s)
  <2>1. nodeMap' = nodeMap /\ (row'[s].nodes = nodeMap[s] \/ row' = row)
    BY <1>1, <1>4 DEF SetProvisioned, StatementFails, Functions
  <2> QED
    BY <1>1, <2>1 DEF Describing, Recorded, NodesNamed
<1>5. CASE SetFailed(s) \/ Launch(s)
  <2>1. nodeMap' = nodeMap
    BY <1>5 DEF SetFailed, Launch
  <2>2. row' = row \/ row'[s] = [row[s] EXCEPT !.status = "failed"]
                   \/ row'[s] = [row[s] EXCEPT !.status = "provisioning"]
    BY <1>1, <1>5 DEF SetFailed, StatementFails, Launch, Functions
  <2>3. row' = row \/ row'[s].status \in {"failed", "provisioning"}
    BY <1>1, <2>2 DEF Stage, IsRow
  <2> QED
    BY <1>1, <2>1, <2>3, DescribingKept
<1>6. CASE UNCHANGED <<row, nodeMap>>
  BY <1>1, <1>6, DescribingKept
<1> QED
  BY <1>2, <1>3, <1>4, <1>5, <1>6
  DEF ProvisionStep, EnsureKaliImage, CreateProject, NodesCreated, CreateLink, LinksCreated,
      StartNodes, CallFails, Fail

LEMMA DescribingHolds == Spec => []DInv
<1>1. Init => DInv
  <2> SUFFICES ASSUME Init PROVE DInv
    OBVIOUS
  <2>1. ASSUME NEW s \in Sessions PROVE Describing(s)
    BY EmptyDomain DEF Init, Describing, Recorded
  <2> QED
    BY <2>1, InitInv DEF DInv
<1>2. DInv /\ [Next]_vars => DInv'
  <2> SUFFICES ASSUME DInv, [Next]_vars PROVE DInv'
    OBVIOUS
  <2>1. IInv'
    BY NextInv DEF DInv
  <2>2. ASSUME NEW s \in Sessions, ProvisionStep(s), NEW t \in Sessions PROVE Describing(t)'
    <3>1. lab' = lab /\ \A u \in Sessions \ {s} : Same(u)
      BY <2>2, Frame DEF DInv, IInv
    <3>2. CASE t = s
      BY <2>2, <3>2, DescribingStep DEF DInv
    <3>3. CASE t # s
      BY <3>1, <3>3, DescribingKept DEF DInv, Same
    <3> QED
      BY <3>2, <3>3
  <2>3. ASSUME UNCHANGED <<lab, row, nodeMap>>, NEW t \in Sessions PROVE Describing(t)'
    BY <2>3, DescribingKept DEF DInv
  <2> QED
    BY <2>1, <2>2, <2>3 DEF DInv, Next, Crash, Tick, AllDone, vars
<1> QED
  BY <1>1, <1>2, PTL DEF Spec

\* The addresses compared are those of different hosts, resolved or not.
LEMMA AddressesDiffer ==
  ASSUME NEW s \in Sessions, Recorded(s, row[s].nodes), NEW g, NEW h,
         ResolvedMAC(s, g) = ResolvedMAC(s, h)
  PROVE  g = h
<1>1. ASSUME NEW k PROVE ResolvedMAC(s, k) \in {<<s, k>>, <<"unresolved", k>>}
  <2>1. CASE k \in DOMAIN row[s].nodes /\ row[s].nodes[k].MAC # ""
    <3>1. PICK x \in NodesNamed(lab[s], k) : Describes(s, row[s].nodes[k], x)
      BY <2>1 DEF Recorded
    <3>2. row[s].nodes[k].MAC = MACOf(s, x.Name) /\ x.Name = k
      BY <2>1, <3>1 DEF Describes, NodesNamed
    <3> QED
      BY <2>1, <3>2 DEF ResolvedMAC, MACOf
  <2>2. CASE ~(k \in DOMAIN row[s].nodes /\ row[s].nodes[k].MAC # "")
    BY <2>2 DEF ResolvedMAC, Unresolved
  <2> QED
    BY <2>1, <2>2
<1>2. ResolvedMAC(s, g) \in {<<s, g>>, <<"unresolved", g>>}
  BY <1>1
<1>3. ResolvedMAC(s, h) \in {<<s, h>>, <<"unresolved", h>>}
  BY <1>1
<1> QED
  BY <1>2, <1>3

LEMMA DescribedFields ==
  ASSUME NEW s, NEW info, NEW x, Describes(s, info, x)
  PROVE  info.NodeType = x.NodeType /\ info.ConsoleType = ConsoleOf(Payload(x))
<1>1. info = [NodeType |-> x.NodeType, ConsoleType |-> ConsoleOf(Payload(x)), MAC |-> info.MAC]
  BY DEF Describes
<1> QED
  BY <1>1

\* With a catalogue that suits its verifiers, a verification finds of every session that is
\* running the console, the cables and the addresses it needs, however its launch went and
\* whichever MAC addresses were resolved (verify_resolver.go, ResolveVerifySession;
\* lab02_verify.go, RegisterLab02Verifiers).
THEOREM RunningLabsServeVerifiers ==
  ASSUME \A f \in Launches, s \in Sessions : ServesVerifiers(f[s])
  PROVE  Spec => []VerifiersServed
<1>1. ASSUME DInv, NEW s \in Sessions, row[s].status = "running",
             NEW entry \in Entries(lab[s].Id)
      PROVE  LET d == entry.TargetDevice
                 End(p) == <<d, interfaceToPort(nodeTypeOf(lab[s], d), p)>>
             IN  /\ d \in ConsoleNodes(s)
                 /\ row[s].nodes[d].NodeType \in {"iou", "dynamips"}
                 /\ DevicesNamed(entry) \subseteq {d}
                 /\ \A p \in PortsRead(entry) : End(p) \in project[s].cables
                 /\ \A i \in DOMAIN entry.Checks :
                      entry.Checks[i].kind = "mac" =>
                        entry.Checks[i].hosts \subseteq Peers(lab[s], End(entry.Checks[i].port))
                 /\ \A g, h \in HostsRead(entry) : ResolvedMAC(s, g) = ResolvedMAC(s, h) => g = h
  <2> DEFINE d == entry.TargetDevice
             info == row[s].nodes[d]
  <2>1. Serves(lab[s], entry)
    BY <1>1 DEF DInv, IInv, Functions, ServesVerifiers
  <2>2. /\ DOMAIN row[s].nodes = Names(lab[s]) /\ project[s].cables = AllEnds(lab[s])
        /\ Recorded(s, row[s].nodes)
    BY <1>1 DEF DInv, IInv, Stage, Built, Describing
  <2>3. PICK x \in NodesNamed(lab[s], d) : Describes(s, info, x)
    BY <2>1, <2>2 DEF Recorded, Serves
  <2>4. IOSNode(x)
    BY <2>1, <2>3 DEF Serves
  <2>5. info.NodeType = x.NodeType /\ info.ConsoleType = ConsoleOf(Payload(x))
    BY <2>3, DescribedFields
  <2>6. d \in ConsoleNodes(s) /\ info.NodeType \in {"iou", "dynamips"}
    BY <2>1, <2>2, <2>4, <2>5 DEF ConsoleNodes, usesVNCConsole, IOSNode, Serves
  <2>7. \A g, h \in HostsRead(entry) : ResolvedMAC(s, g) = ResolvedMAC(s, h) => g = h
    BY <2>2, AddressesDiffer
  <2>8. /\ DevicesNamed(entry) \subseteq {d}
        /\ \A p \in PortsRead(entry) :
             <<d, interfaceToPort(nodeTypeOf(lab[s], d), p)>> \in project[s].cables
    BY <2>1, <2>2 DEF Serves, EndOf
  <2>9. \A i \in DOMAIN entry.Checks :
          entry.Checks[i].kind = "mac" =>
            entry.Checks[i].hosts \subseteq
              Peers(lab[s], <<d, interfaceToPort(nodeTypeOf(lab[s], d), entry.Checks[i].port)>>)
    BY <2>1 DEF Serves, EndOf
  <2> QED
    BY <2>6, <2>7, <2>8, <2>9
<1>2. DInv => VerifiersServed
  BY <1>1 DEF VerifiersServed
<1> QED
  BY <1>2, DescribingHolds, PTL

-----------------------------------------------------------------------------
(***************************************************************************)
(* What a launch leaves behind, and who wins a name.                       *)
(***************************************************************************)
\* A goroutine that is done and met no fault had nothing to build, has a running row and its
\* project, or lost the name of its project to a rival and created nothing.
Settled(s) ==
  \/ s \in faulted
  \/ row[s].status = "none" /\ name[s] = None /\ project[s] = NoProject
  \/ row[s].status = "running" /\ name[s] # None /\ project[s].name = name[s]
  \/ row[s].status = "failed" /\ project[s] = NoProject /\ Rival(s)

\* The project carries the name provision chose for it, from its creation on.
Named(s) ==
  /\ pc[s] \in {"nodes", "links", "start", "macs", "commit"} =>
       name[s] # None /\ project[s].name = name[s]
  /\ project[s].name # None => project[s].name = name[s]

Settling(s) ==
  /\ Caused(s) /\ Named(s)
  /\ pc[s] = "fail" => s \in faulted \/ (project[s] = NoProject /\ Rival(s))
  /\ pc[s] = "done" => Settled(s)

DistinctProjects == \A s, t \in Sessions :
  s # t /\ project[s].name = project[t].name => project[s].name = None

WInv == IInv /\ DistinctProjects /\ \A s \in Sessions : Settling(s)

\* The name is only chosen by CreateProject, and the project only gets it there.
LEMMA NameChosen ==
  ASSUME IInv, NEW s \in Sessions, ProvisionStep(s), ~CreateProject(s)
  PROVE  name' = name /\ project'[s].name = project[s].name
<1> USE DEF IInv
<1>1. name' = name
  BY DEF ProvisionStep, Launch, EnsureKaliImage, CreateNode, NodesCreated, CreateLink,
     LinksCreated, StartNodes, PopulateNodeMACs, SetProvisioned, SetFailed
<1>2. CASE CreateNode(s)
  BY <1>2 DEF CreateNode, CallFails, Fail, WithNode, Functions, Stage, IsProject
<1>3. CASE CreateLink(s)
  BY <1>3 DEF CreateLink, CallFails, Fail, WithLink, Functions, Stage, IsProject
<1>4. CASE StartNodes(s)
  BY <1>4 DEF StartNodes, CallFails, Fail, Started, Functions, Stage, IsProject
<1>5. CASE EnsureKaliImage(s)
  BY <1>5 DEF EnsureKaliImage, CallFails, Fail, Functions
<1> QED
  BY <1>1, <1>2, <1>3, <1>4, <1>5
  DEF ProvisionStep, Launch, NodesCreated, LinksCreated, PopulateNodeMACs, SetProvisioned, SetFailed

LEMMA ProjectNamed ==
  ASSUME IInv, NEW s \in Sessions
  PROVE  ProjectName(s) # None /\ NoProject.name = None /\ Empty(ProjectName(s)).name = ProjectName(s)
<1>1. lab \in Launches /\ second \in 0..MaxSecond
  BY DEF IInv, Functions
<1> QED
  BY <1>1, LaunchAssumption DEF ProjectName, NoProject, Empty

LEMMA CreateProjectNames ==
  ASSUME IInv, NEW s \in Sessions, CreateProject(s)
  PROVE  /\ project[s] = NoProject /\ name'[s] = ProjectName(s)
         /\ \/ pc'[s] = "nodes" /\ project'[s].name = ProjectName(s) /\ ~NameTaken(s, ProjectName(s))
            \/ pc'[s] = "fail" /\ project' = project /\ NameTaken(s, ProjectName(s))
            \/ /\ pc'[s] = "fail" /\ s \in faulted'
               /\ \/ project'[s] = NoProject
                  \/ project'[s].name = ProjectName(s) /\ ~NameTaken(s, ProjectName(s))
<1>1. project[s] = NoProject /\ name'[s] = ProjectName(s)
  BY DEF CreateProject, IInv, Stage, Built, Functions
<1>2. CASE /\ ~NameTaken(s, ProjectName(s))
           /\ project' = [project EXCEPT ![s] = Empty(ProjectName(s))] /\ Goto(s, "nodes")
  BY <1>1, <1>2, ProjectNamed DEF Goto, IInv, Functions
<1>3. CASE NameTaken(s, ProjectName(s)) /\ Fail(s) /\ UNCHANGED project
  BY <1>1, <1>3 DEF Fail, Goto, IInv, Functions
<1>4. CASE ~NameTaken(s, ProjectName(s)) /\ CallFails(s, Empty(ProjectName(s)))
  BY <1>1, <1>4, ProjectNamed DEF CallFails, Fail, Goto, IInv, Functions
<1> QED
  BY <1>2, <1>3, <1>4 DEF CreateProject

LEMMA NamedStep ==
  ASSUME IInv, NEW s \in Sessions, Caused(s), Named(s), ProvisionStep(s)
  PROVE  Named(s)'
<1>1. CASE CreateProject(s)
  BY <1>1, CreateProjectNames, ProjectNamed DEF Named
<1>2. CASE ~CreateProject(s)
  <2>1. name' = name /\ project'[s].name = project[s].name
    BY <1>2, NameChosen
  <2>2. pc'[s] \in {"nodes", "links", "start", "macs", "commit"} =>
          pc[s] \in {"nodes", "links", "start", "macs", "commit"}
    BY <1>2 DEF IInv, Functions, ProvisionStep, Launch, EnsureKaliImage, CreateNode,
       NodesCreated, CreateLink, LinksCreated, StartNodes, PopulateNodeMACs, SetProvisioned,
       SetFailed, CallFails, Fail, Goto
  <2> QED
    BY <2>1, <2>2 DEF Named
<1> QED
  BY <1>1, <1>2

\* Without a fault a goroutine gives up where it loses the name, before it has a project.
LEMMA FailsClean ==
  ASSUME SoundTopologies, IInv, NEW s \in Sessions, ProvisionStep(s), pc'[s] = "fail",
         s \notin faulted'
  PROVE  project'[s] = NoProject /\ Rival(s)'
<1>1. \A t \in Sessions \ {s} : Same(t)
  BY Frame DEF IInv
<1>2. CreateProject(s)
  <2>1. CASE CreateNode(s)
    BY <2>1, NodeAccepted DEF CreateNode, CallFails, IInv, Stage
  <2>2. CASE CreateLink(s)
    BY <2>2, LinkAccepted DEF CreateLink, CallFails, IInv, Stage
  <2>3. CASE EnsureKaliImage(s)
    BY <2>3 DEF EnsureKaliImage, CallFails, Goto, IInv, Functions
  <2>4. CASE StartNodes(s)
    BY <2>4 DEF StartNodes, CallFails, Goto, IInv, Functions
  <2> QED
    BY <2>1, <2>2, <2>3, <2>4
    DEF ProvisionStep, Launch, NodesCreated, LinksCreated, PopulateNodeMACs, SetProvisioned,
        SetFailed, Goto, IInv, Functions
<1>3. project' = project /\ project[s] = NoProject /\ NameTaken(s, ProjectName(s))
      /\ name'[s] = ProjectName(s)
  BY <1>2, CreateProjectNames
<1> QED
  BY <1>1, <1>3, ProjectNamed DEF NameTaken, Rival

LEMMA DoneSettled ==
  ASSUME IInv, NEW s \in Sessions, Settling(s), ProvisionStep(s), pc'[s] = "done"
  PROVE  Settled(s)'
<1> USE DEF IInv
<1>1. /\ faulted' \in {faulted, faulted \cup {s}}
      /\ \A t \in Sessions \ {s} : Same(t)
  BY Frame
<1>2. CASE Launch(s)
  <2>1. row'[s].status = "none" /\ project' = project /\ name' = name /\ pc[s] = "idle"
    BY <1>2 DEF Launch, Goto, Functions, Stage, RowFollows
  <2> QED
    BY <2>1 DEF Stage, Built, Settling, Caused, Settled
<1>3. CASE SetProvisioned(s)
  <2>1. /\ project' = project /\ name' = name /\ pc[s] = "commit"
        /\ row'[s].status = "running" \/ s \in faulted'
    BY <1>3 DEF SetProvisioned, StatementFails, Functions
  <2> QED
    BY <2>1 DEF Settling, Named, Settled
<1>4. CASE SetFailed(s)
  <2>1. /\ project' = project /\ name' = name /\ pc[s] = "fail"
        /\ row'[s] = [row[s] EXCEPT !.status = "failed"] \/ s \in faulted'
    BY <1>4 DEF SetFailed, StatementFails, Functions
  <2>2. s \in faulted \/ (project[s] = NoProject /\ Rival(s))
    BY <2>1 DEF Settling
  <2>3. s \in faulted => s \in faulted'
    BY <1>1
  <2>4. row'[s].status = "failed" \/ s \in faulted'
    BY <2>1 DEF Stage, IsRow
  <2>5. Rival(s) => Rival(s)'
    BY <2>1 DEF Rival
  <2> QED
    BY <2>1, <2>2, <2>3, <2>4, <2>5 DEF Settled
<1> QED
  BY <1>2, <1>3, <1>4
  DEF ProvisionStep, EnsureKaliImage, CreateProject, CreateNode, NodesCreated, CreateLink,
      LinksCreated, StartNodes, PopulateNodeMACs, CallFails, Fail, Goto, Functions, Stage

LEMMA SettlingStep ==
  ASSUME SoundTopologies, IInv, NEW s \in Sessions, Settling(s), ProvisionStep(s)
  PROVE  Settling(s)'
BY CausedStep, NamedStep, FailsClean, DoneSettled DEF Settling

LEMMA SettlingOther ==
  ASSUME IInv, NEW s \in Sessions, ProvisionStep(s), NEW t \in Sessions \ {s}, Settling(t)
  PROVE  Settling(t)'
<1>1. /\ faulted' \in {faulted, faulted \cup {s}}
      /\ \A u \in Sessions \ {s} : Same(u)
  BY Frame DEF IInv
<1>2. Rival(t) => Rival(t)'
  BY <1>1, RivalStays DEF IInv, Same
<1>3. Caused(t)'
  BY CausedOther DEF Settling
<1>4. Same(t)
  BY <1>1
<1> QED
  BY <1>1, <1>2, <1>3, <1>4 DEF Settling, Named, Settled, Same

LEMMA ProjectsStayDistinct ==
  ASSUME IInv, DistinctProjects, NEW s \in Sessions, ProvisionStep(s)
  PROVE  DistinctProjects'
<1>1. \A t \in Sessions \ {s} : project'[t] = project[t]
  BY Frame DEF IInv, Same
<1>2. CASE project'[s].name = project[s].name
  BY <1>1, <1>2 DEF DistinctProjects
<1>3. CASE project'[s].name # project[s].name
  <2>1. ~NameTaken(s, project'[s].name)
    BY <1>3, NameChosen, CreateProjectNames
  <2> QED
    BY <1>1, <2>1 DEF NameTaken, DistinctProjects
<1> QED
  BY <1>2, <1>3

LEMMA SettlingHolds ==
  ASSUME SoundTopologies
  PROVE  Spec => []WInv
<1>1. Init => WInv
  <2> SUFFICES ASSUME Init PROVE WInv
    OBVIOUS
  <2>1. \A s \in Sessions : Settling(s)
    BY DEF Init, Settling, Caused, Named, NoProject, Empty
  <2>2. DistinctProjects
    BY DEF Init, DistinctProjects, NoProject, Empty
  <2> QED
    BY <2>1, <2>2, InitInv DEF WInv
<1>2. WInv /\ [Next]_vars => WInv'
  <2> SUFFICES ASSUME WInv, [Next]_vars PROVE WInv'
    OBVIOUS
  <2>1. IInv'
    BY NextInv DEF WInv
  <2>2. ASSUME NEW s \in Sessions, ProvisionStep(s) PROVE WInv'
    <3>1. \A t \in Sessions : Settling(t)'
      BY <2>2, SettlingStep, SettlingOther DEF WInv
    <3>2. DistinctProjects'
      BY <2>2, ProjectsStayDistinct DEF WInv
    <3> QED
      BY <2>1, <3>1, <3>2 DEF WInv
  <2>3. CASE Crash
    <3>1. ASSUME NEW s \in Sessions PROVE Settling(s)'
      <4>1. /\ pc'[s] = IF pc[s] = "idle" THEN "idle" ELSE "done"
            /\ row' = row /\ name' = name /\ project' = project /\ faulted \subseteq faulted'
            /\ pc[s] \notin {"idle", "done"} => s \in faulted'
        BY <2>3 DEF Crash
      <4>2. Settling(s)
        BY DEF WInv
      <4>3. Rival(s) => Rival(s)'
        BY <4>1 DEF Rival
      <4>4. Caused(s)' /\ Named(s)' /\ pc'[s] # "fail"
        BY <4>1, <4>2, <4>3 DEF Settling, Caused, Named
      <4>5. pc'[s] = "done" => Settled(s)'
        BY <4>1, <4>2, <4>3 DEF Settling, Settled
      <4> QED
        BY <4>4, <4>5 DEF Settling
    <3>2. DistinctProjects'
      BY <2>3 DEF Crash, WInv, DistinctProjects
    <3> QED
      BY <2>1, <3>1, <3>2 DEF WInv
  <2>4. CASE UNCHANGED <<row, pc, name, project, faulted>>
    BY <2>1, <2>4 DEF WInv, DistinctProjects, Settling, Caused, Named, Settled, Rival
  <2> QED
    BY <2>1, <2>2, <2>3, <2>4 DEF WInv, Next, Tick, AllDone, vars
<1> QED
  BY <1>1, <1>2, PTL DEF Spec

\* A launch that met no fault leaves a running row with its project, or nothing: only a fault
\* leaves a project in GNS3 that no row knows, or a row that says provisioning.
CleanLaunches == \A s \in Sessions : pc[s] = "done" => Settled(s)

\* With a catalogue of sound topologies, what fails without a fault cleans up by never having
\* created anything (service.go, provision, which deletes no project; gns3client_impl.go).
THEOREM LaunchesEndClean ==
  ASSUME SoundTopologies
  PROVE  Spec => []CleanLaunches
<1>1. WInv => CleanLaunches
  BY DEF WInv, Settling, CleanLaunches
<1> QED
  BY <1>1, SettlingHolds, PTL

\* The launches that asked GNS3 for the same project name.
Contenders(s) == {t \in Sessions : name[t] = name[s]}

\* When launches collide on a name and none of them meets a fault, one of them runs, and the
\* others have failed and left nothing in GNS3.
OneLaunchWins == \A s \in Sessions :
  name[s] # None /\ (\A t \in Contenders(s) : pc[t] = "done" /\ t \notin faulted) =>
    \E t \in Contenders(s) :
      /\ row[t].status = "running"
      /\ \A u \in Contenders(s) \ {t} : row[u].status = "failed" /\ project[u] = NoProject

\* Of the users who launch one lab within a second one is served, never none, and no two are
\* given one project (gns3client_impl.go, CreateProject: the name has the lab
\* and the second, and no user).
THEOREM ContentionHasAWinner ==
  ASSUME SoundTopologies
  PROVE  Spec => []OneLaunchWins
<1>1. ASSUME WInv, NEW s \in Sessions, name[s] # None,
             \A t \in Contenders(s) : pc[t] = "done" /\ t \notin faulted
      PROVE  \E t \in Contenders(s) :
                /\ row[t].status = "running"
                /\ \A u \in Contenders(s) \ {t} : row[u].status = "failed" /\ project[u] = NoProject
  <2>1. ASSUME NEW t \in Contenders(s)
        PROVE  \/ row[t].status = "running" /\ project[t].name = name[s]
               \/ row[t].status = "failed" /\ project[t] = NoProject /\ Rival(t)
    BY <1>1, <2>1 DEF WInv, Settling, Settled, Contenders
  <2>2. PICK t \in Contenders(s) : row[t].status = "running" /\ project[t].name = name[s]
    <3>1. CASE row[s].status = "running" /\ project[s].name = name[s]
      BY <3>1 DEF Contenders
    <3>2. CASE Rival(s)
      <4>1. PICK r \in Sessions : project[r].name = name[s]
        BY <3>2 DEF Rival
      <4>2. r \in Contenders(s)
        BY <1>1, <4>1 DEF WInv, Settling, Named, Contenders
      <4>3. project[r] # NoProject
        BY <1>1, <4>1 DEF NoProject, Empty
      <4> QED
        BY <2>1, <4>2, <4>3
    <3> QED
      BY <2>1, <3>1, <3>2 DEF Contenders
  <2>3. ASSUME NEW u \in Contenders(s) \ {t}
        PROVE  row[u].status = "failed" /\ project[u] = NoProject
    <3>1. project[u].name # name[s]
      BY <1>1, <2>2 DEF WInv, DistinctProjects, Contenders
    <3> QED
      BY <2>1, <3>1
  <2> QED
    BY <2>2, <2>3
<1>2. WInv => OneLaunchWins
  BY <1>1 DEF OneLaunchWins
<1> QED
  BY <1>2, SettlingHolds, PTL

-----------------------------------------------------------------------------
(***************************************************************************)
(* A launch ends.                                                          *)
(***************************************************************************)
\* The steps a goroutine has still to make at most, at element i of a topology with n nodes
\* and l links.
LaunchWork(at, i, n, l) ==
  CASE at = "idle"              -> n + l + 8
    [] at = "image"             -> n + l + 7
    [] at = "create"            -> n + l + 6
    [] at = "nodes"             -> (n + 1 - i) + l + 5
    [] at = "links"             -> (l + 1 - i) + 4
    [] at = "start"             -> 3
    [] at = "macs"              -> 2
    [] at \in {"commit", "fail"} -> 1
    [] OTHER                    -> 0

LaunchLeft(s) == LaunchWork(pc[s], next[s], Len(NodesOf(s)), Len(LinksOf(s)))

\* A launch has a step for each node and each link of its lab and eight more to make; each one
\* leaves it less to do, and no other session, no fault and no restart gives it more.
LaunchAdvances ==
  /\ \A s \in Sessions : LaunchLeft(s) = Len(NodesOf(s)) + Len(LinksOf(s)) + 8
  /\ [][\A s \in Sessions :
          /\ LaunchLeft(s)' \in Nat /\ LaunchLeft(s)' <= LaunchLeft(s)
          /\ ProvisionStep(s) => LaunchLeft(s)' < LaunchLeft(s)]_vars

LEMMA LeftIsNat ==
  ASSUME Functions, NEW s \in Sessions, Stage(s)
  PROVE  LaunchLeft(s) \in Nat
<1> DEFINE n == Len(NodesOf(s))
           l == Len(LinksOf(s))
<1>1. n \in Nat /\ l \in Nat
  BY Lists
<1>2. /\ next[s] \in Nat
      /\ pc[s] = "nodes" => next[s] <= n + 1
      /\ pc[s] = "links" => next[s] <= l + 1
  BY DEF Stage, Built
<1> HIDE DEF n, l
<1>3. LaunchWork(pc[s], next[s], n, l) \in Nat
  BY <1>1, <1>2 DEF LaunchWork
<1> QED
  BY <1>3 DEF LaunchLeft, n, l

\* What a step of the goroutine does to its place in the code.
LEMMA Advances ==
  ASSUME IInv, NEW s \in Sessions, ProvisionStep(s)
  PROVE  /\ pc[s] \notin {"done"}
         /\ \/ pc'[s] = "done"
            \/ pc[s] \notin {"idle", "fail"} /\ pc'[s] = "fail"
            \/ pc[s] = "idle" /\ pc'[s] = "image"
            \/ pc[s] = "image" /\ pc'[s] = "create"
            \/ pc[s] = "create" /\ pc'[s] = "nodes" /\ next'[s] = 1
            \/ pc[s] = "nodes" /\ pc'[s] = "nodes" /\ next'[s] = next[s] + 1
            \/ pc[s] = "nodes" /\ pc'[s] = "links" /\ next'[s] = 1
            \/ pc[s] = "links" /\ pc'[s] = "links" /\ next'[s] = next[s] + 1
            \/ pc[s] = "links" /\ pc'[s] = "start"
            \/ pc[s] = "start" /\ pc'[s] = "macs"
            \/ pc[s] = "macs" /\ pc'[s] = "commit"
         /\ pc'[s] = "fail" => pc[s] # "commit"
<1> USE DEF IInv, Functions
<1>1. CASE Launch(s)
  BY <1>1 DEF Launch, Goto
<1>2. CASE EnsureKaliImage(s)
  BY <1>2 DEF EnsureKaliImage, CallFails, Fail, Goto
<1>3. CASE CreateProject(s)
  <2>1. next[s] = 1 /\ pc[s] = "create"
    BY <1>3 DEF CreateProject, Stage, Built
  <2> QED
    BY <1>3, <2>1 DEF CreateProject, CallFails, Fail, Goto
<1>4. CASE CreateNode(s)
  BY <1>4 DEF CreateNode, CallFails, Fail, Goto
<1>5. CASE NodesCreated(s)
  BY <1>5 DEF NodesCreated, Goto
<1>6. CASE CreateLink(s)
  BY <1>6 DEF CreateLink, CallFails, Fail, Goto
<1>7. CASE LinksCreated(s)
  BY <1>7 DEF LinksCreated, Goto
<1>8. CASE StartNodes(s)
  BY <1>8 DEF StartNodes, CallFails, Fail, Goto
<1>9. CASE PopulateNodeMACs(s)
  BY <1>9 DEF PopulateNodeMACs, Goto
<1>10. CASE SetProvisioned(s) \/ SetFailed(s)
  BY <1>10 DEF SetProvisioned, SetFailed, Goto
<1> QED
  BY <1>1, <1>2, <1>3, <1>4, <1>5, <1>6, <1>7, <1>8, <1>9, <1>10 DEF ProvisionStep

LEMMA WorkDone ==
  ASSUME IInv, IInv', NEW s \in Sessions, ProvisionStep(s)
  PROVE  LaunchLeft(s)' < LaunchLeft(s)
<1> DEFINE n == Len(NodesOf(s))
           l == Len(LinksOf(s))
<1>1. n \in Nat /\ l \in Nat
  BY Lists DEF IInv
<1>2. lab' = lab
  BY Frame DEF IInv
<1>3. LaunchLeft(s)' = LaunchWork(pc'[s], next'[s], n, l)
  BY <1>2 DEF LaunchLeft, NodesOf, LinksOf
<1>4. LaunchLeft(s) = LaunchWork(pc[s], next[s], n, l)
  BY DEF LaunchLeft
<1>5. /\ pc[s] \in PCs /\ next[s] \in Nat \ {0} /\ next'[s] \in Nat \ {0}
      /\ pc[s] = "nodes" => next[s] <= n + 1
      /\ pc[s] = "links" => next[s] <= l + 1
  BY DEF IInv, Stage, Built
<1> HIDE DEF n, l
<1>6. CASE pc'[s] = "done"
  BY <1>1, <1>3, <1>4, <1>5, <1>6, Advances DEF LaunchWork, PCs
<1>7. CASE pc'[s] = "fail"
  BY <1>1, <1>3, <1>4, <1>5, <1>7, Advances DEF LaunchWork, PCs
<1>8. CASE pc'[s] \notin {"done", "fail"}
  BY <1>1, <1>3, <1>4, <1>5, <1>8, Advances DEF LaunchWork
<1> QED
  BY <1>6, <1>7, <1>8

\* provision repeats nothing: a launch is over after a bounded number of calls and statements,
\* whatever GNS3 answers (service.go, provision; gns3client_impl.go, ProvisionTopology and
\* createLinks).  The bound is what LabSession, where it is three steps, takes for granted.
THEOREM LaunchIsBounded == Spec => LaunchAdvances
<1>1. Init => \A s \in Sessions : LaunchLeft(s) = Len(NodesOf(s)) + Len(LinksOf(s)) + 8
  BY DEF Init, LaunchLeft, LaunchWork
<1>2. ASSUME IInv, IInv', [Next]_vars, NEW s \in Sessions
      PROVE  /\ LaunchLeft(s)' \in Nat /\ LaunchLeft(s)' <= LaunchLeft(s)
             /\ ProvisionStep(s) => LaunchLeft(s)' < LaunchLeft(s)
  <2>1. LaunchLeft(s) \in Nat
    BY <1>2, LeftIsNat DEF IInv
  <2>2. LaunchLeft(s)' \in Nat
    <3> DEFINE n == Len(NodesOf(s))'
               l == Len(LinksOf(s))'
    <3>1. lab' = lab
      BY <1>2, Frame DEF IInv, Next, Crash, Tick, AllDone, vars
    <3>2. n \in Nat /\ l \in Nat
      BY <1>2, <3>1, Lists DEF IInv, NodesOf, LinksOf
    <3>3. /\ next'[s] \in Nat
          /\ pc'[s] = "nodes" => next'[s] <= n + 1
          /\ pc'[s] = "links" => next'[s] <= l + 1
      BY <1>2 DEF IInv, Stage, Built
    <3> HIDE DEF n, l
    <3>4. LaunchWork(pc'[s], next'[s], n, l) \in Nat
      BY <3>2, <3>3 DEF LaunchWork
    <3> QED
      BY <3>4 DEF LaunchLeft, n, l
  <2>3. ProvisionStep(s) => LaunchLeft(s)' < LaunchLeft(s)
    BY <1>2, WorkDone
  <2>4. ASSUME NEW t \in Sessions \ {s}, ProvisionStep(t) PROVE LaunchLeft(s)' = LaunchLeft(s)
    BY <1>2, <2>4, Frame DEF IInv, Same, LaunchLeft, NodesOf, LinksOf
  <2>5. CASE Crash
    <3>1. lab' = lab /\ next' = next /\ (pc'[s] = pc[s] \/ pc'[s] = "done")
      BY <2>5 DEF Crash
    <3>2. CASE pc'[s] = pc[s]
      BY <2>1, <3>1, <3>2, <2>3 DEF LaunchLeft, NodesOf, LinksOf
    <3>3. CASE pc'[s] = "done"
      <4>1. LaunchLeft(s)' = 0
        BY <3>3 DEF LaunchLeft, LaunchWork
      <4> QED
        BY <2>1, <2>3, <4>1
    <3> QED
      BY <3>1, <3>2, <3>3
  <2>6. CASE UNCHANGED <<lab, pc, next>>
    <3>1. LaunchLeft(s)' = LaunchLeft(s)
      BY <2>6 DEF LaunchLeft, NodesOf, LinksOf
    <3> QED
      BY <2>1, <2>3, <3>1
  <2>7. \/ ProvisionStep(s) \/ Crash \/ UNCHANGED <<lab, pc, next>>
        \/ \E t \in Sessions \ {s} : ProvisionStep(t)
    BY <1>2 DEF Next, Tick, AllDone, vars
  <2> QED
    BY <2>1, <2>2, <2>3, <2>4, <2>5, <2>6, <2>7
<1>3. IInv /\ IInv' /\ [Next]_vars =>
        [\A s \in Sessions :
          /\ LaunchLeft(s)' \in Nat /\ LaunchLeft(s)' <= LaunchLeft(s)
          /\ ProvisionStep(s) => LaunchLeft(s)' < LaunchLeft(s)]_vars
  BY <1>2
<1> QED
  BY <1>1, <1>3, Inductive, PTL DEF Spec, LaunchAdvances

=============================================================================
