--------------------------- MODULE LaunchOutcome ---------------------------
(***************************************************************************)
(* What the rest of the backend may assume of a launched lab: its row      *)
(* changes once.  Either it becomes running, with a project of its own and *)
(* an entry for every node of the lab, or it becomes failed and names no   *)
(* project.  A row whose launch was interrupted stays as it was.           *)
(***************************************************************************)
CONSTANTS Sessions,
          NodeNames(_),   \* the nodes of a lab, none for a content-only one
          None            \* no GNS3 project

VARIABLES row,            \* row of each session: status, project, node map
          lab             \* the lab it is for

NoRow == [status |-> "none", project |-> None, nodes |-> << >>]

Init == row = [s \in Sessions |-> NoRow]

\* The row of s goes from one status to another; the others stay.
Turns(s, from, to) ==
  /\ row[s].status = from
  /\ row'[s].status = to
  /\ DOMAIN row' = Sessions
  /\ \A t \in Sessions \ {s} : row'[t] = row[t]
  /\ UNCHANGED lab

KeepsContent(s) == row'[s].project = row[s].project /\ row'[s].nodes = row[s].nodes

Launch(s) == Turns(s, "none", "provisioning") /\ NodeNames(lab[s]) # {} /\ KeepsContent(s)

Fail(s) == Turns(s, "provisioning", "failed") /\ KeepsContent(s)

Run(s) ==
  /\ Turns(s, "provisioning", "running")
  /\ row'[s].project # None
  /\ \A t \in Sessions : row[t].project # row'[s].project
  /\ DOMAIN row'[s].nodes = NodeNames(lab[s])

Next == \E s \in Sessions : Launch(s) \/ Fail(s) \/ Run(s)

Spec == Init /\ [][Next]_<<row, lab>>

=============================================================================
