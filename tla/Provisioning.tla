---------------------------- MODULE Provisioning ----------------------------
(***************************************************************************)
(* Service.provision of src/internal/labsession/service.go, the goroutine  *)
(* that builds a launched lab, with the GNS3 client calls it is made of    *)
(* (gns3client_impl.go): project, nodes, cables, start, MAC addresses, and *)
(* the statement that makes the row running.  One goroutine per session;   *)
(* they meet in GNS3, which refuses a second project of the same name.     *)
(*                                                                         *)
(* LabSession takes the same goroutine as four steps and adds everybody    *)
(* else who touches the row; here the row belongs to its goroutine and the *)
(* content of the lab matters: which nodes, ports and cables are created.  *)
(*                                                                         *)
(* Bounds: MaxSecond, the seconds during which the launches happen.        *)
(***************************************************************************)
EXTENDS Naturals, Sequences, FiniteSets, TLC

CONSTANTS Sessions,
          Launches,     \* which labs are launched: a set of functions from Sessions
          Faults,       \* what may go wrong, a subset of FaultKinds
          MaxSecond,
          None

FaultKinds == {"gns3", "lost_reply", "mac", "db", "crash"}

ASSUME LaunchAssumption ==
  /\ \A f \in Launches : DOMAIN f = Sessions
  /\ Faults \subseteq FaultKinds
  /\ MaxSecond \in Nat
  /\ None \notin Sessions
  /\ \A f \in Launches, s \in Sessions, n \in 0..MaxSecond : <<f[s].Id, n>> # None

\* The nodes and the links of a topology are lists.
IsList(seq) == Len(seq) \in Nat /\ DOMAIN seq = 1..Len(seq)

ASSUME TopologyAssumption ==
  \A f \in Launches, s \in Sessions : IsList(f[s].Nodes) /\ IsList(f[s].Links)

VARIABLES lab,        \* the lab each session was launched for: id and topology
          row,        \* its row of lab_sessions
          pc,         \* control of its goroutine
          next,       \* loop index into the nodes or the links of the template
          name,       \* name given to CreateProject
          nodeMap,    \* the NodeMap under construction
          project,    \* the project GNS3 holds for it
          second,     \* time.Now().Unix()
          faulted     \* sessions a fault has happened to

vars == <<lab, row, pc, next, name, nodeMap, project, second, faulted>>

NodesOf(s) == lab[s].Nodes
LinksOf(s) == lab[s].Links

Elements(seq) == {seq[i] : i \in DOMAIN seq}
Names(t) == {n.Name : n \in Elements(t.Nodes)}

NodeNamed(t, n) == CHOOSE x \in Elements(t.Nodes) : x.Name = n

nodeTypeOf(t, n) == NodeNamed(t, n).NodeType

-----------------------------------------------------------------------------
(***************************************************************************)
(* GNS3: the properties a node needs, the ports it then has as             *)
(* <<adapter, port>>, and the console it offers.                           *)
(***************************************************************************)
Required(type) ==
  CASE type = "iou"      -> {"path"}
    [] type = "dynamips" -> {"platform", "image", "ram"}
    [] type = "docker"   -> {"image", "console_type"}
    [] type = "qemu"     -> {"qemu_path"}
    [] OTHER             -> {}

ModulePorts(module) ==
  CASE module \in {"GT96100-FE", "PA-2FE-TX"}             -> 0..1
    [] module \in {"NM-1FE-TX", "C7200-IO-FE", "PA-FE-TX"} -> {0}
    [] module = "NM-16ESW"                                -> 0..15
    [] OTHER                                              -> {}

Slots == <<"slot0", "slot1", "slot2">>

Property(props, key, default) == IF key \in DOMAIN props THEN props[key] ELSE default

PortsOf(node) ==
  LET props == node.Properties IN
  CASE node.NodeType = "dynamips" ->
         UNION {{k - 1} \X ModulePorts(Property(props, Slots[k], "empty")) : k \in DOMAIN Slots}
    [] node.NodeType = "iou"          -> {<<0, p>> : p \in 0..3}
    [] node.NodeType = "ethernet_hub" -> {<<0, p>> : p \in 0..7}
    [] node.NodeType \in {"docker", "qemu"} ->
         {<<a, 0>> : a \in 0..(Property(props, "adapters", 1) - 1)}
    [] OTHER                          -> {<<0, 0>>}

ConsoleOf(node) ==
  IF node.NodeType = "ethernet_hub" THEN "none"
  ELSE Property(node.Properties, "console_type", "telnet")

-----------------------------------------------------------------------------
(***************************************************************************)
(* HTTPGNS3Client                                                          *)
(***************************************************************************)
SupportedTypes == {"iou", "dynamips", "qemu", "docker", "vpcs", "ethernet_hub"}

\* The properties ProvisionTopology adds; those of the template win.
Defaults(type) ==
  CASE type \in {"iou", "dynamips"} -> [startup_config_content |-> "base"]
    [] type = "qemu"                -> [qemu_path |-> "qemu_path"]
    [] type = "docker"              -> [image |-> "image", console_type |-> "telnet"]
    [] OTHER                        -> << >>

Payload(node) == [node EXCEPT !.Properties = @ @@ Defaults(node.NodeType)]

Unrecognized == <<"unrecognized">>

interfaceToPort(type, iface) ==
  CASE type = "iou" /\ iface[1] \in {"Et", "Fa"} /\ iface[2] = 0 -> <<0, iface[3]>>
    [] type = "dynamips" /\ iface[1] = "Fa"                 -> <<iface[2], iface[3]>>
    [] type = "dynamips" /\ iface[1] = "Gi" /\ iface[2] = 0 -> <<0, iface[3]>>
    [] type = "dynamips" /\ iface[1] = "Gi" /\ iface[2] = 1 -> <<1, iface[3] - 1>>
    [] type = "vpcs"                                        -> <<0, 0>>
    [] type = "ethernet_hub" /\ iface[1] = "e"              -> <<0, iface[2]>>
    [] type = "docker" /\ iface[1] = "eth"                  -> <<iface[2], 0>>
    [] type = "qemu" /\ iface[1] \in {"eth", "Ethernet"}    -> <<iface[2], 0>>
    [] OTHER                                                -> Unrecognized

\* Both ends of a link as <<node, port>>.
EndA(t, l) == <<l.NodeA, interfaceToPort(nodeTypeOf(t, l.NodeA), l.IfaceA)>>
EndB(t, l) == <<l.NodeB, interfaceToPort(nodeTypeOf(t, l.NodeB), l.IfaceB)>>
Ends(t, l) == {EndA(t, l), EndB(t, l)}

NodeInfo(node) == [NodeType |-> node.NodeType, ConsoleType |-> ConsoleOf(Payload(node)), MAC |-> ""]

\* macResolvers: the types whose MAC address is looked up.
ResolvedTypes == {"docker", "qemu", "vpcs"}

MACOf(s, n) == <<s, n>>

-----------------------------------------------------------------------------
(***************************************************************************)
(* Service.provision                                                       *)
(***************************************************************************)
Empty(n) == [name |-> n, nodes |-> {}, cables |-> {}, started |-> FALSE]
NoProject == Empty(None)

Goto(s, l) == pc' = [pc EXCEPT ![s] = l]

\* Launch: a content-only lab gets no row and no goroutine.
Launch(s) ==
  /\ pc[s] = "idle"
  /\ IF Len(NodesOf(s)) = 0
     THEN Goto(s, "done") /\ UNCHANGED row
     ELSE Goto(s, "image") /\ row' = [row EXCEPT ![s].status = "provisioning"]
  /\ UNCHANGED <<lab, next, name, nodeMap, project, second, faulted>>

\* An error goes to SetStatus(failed); no call is repeated.
Fail(s) == Goto(s, "fail") /\ UNCHANGED <<next, nodeMap>>

\* A call GNS3 does not answer, or carries out without the answer arriving.
CallFails(s, effect) ==
  /\ "gns3" \in Faults
  /\ \/ UNCHANGED project
     \/ "lost_reply" \in Faults /\ project' = [project EXCEPT ![s] = effect]
  /\ faulted' = faulted \cup {s}
  /\ Fail(s)

EnsureKaliImage(s) ==
  /\ pc[s] = "image"
  /\ \/ Goto(s, "create") /\ UNCHANGED <<next, nodeMap, project, faulted>>
     \/ CallFails(s, project[s])
  /\ UNCHANGED <<lab, row, name, second>>

\* Projects are named after the lab and the second: provision passes user id 0.
ProjectName(s) == <<lab[s].Id, second>>
NameTaken(s, n) == \E t \in Sessions \ {s} : project[t].name = n

CreateProject(s) ==
  /\ pc[s] = "create"
  /\ name' = [name EXCEPT ![s] = ProjectName(s)]
  /\ \/ /\ ~NameTaken(s, ProjectName(s))
        /\ project' = [project EXCEPT ![s] = Empty(ProjectName(s))]
        /\ Goto(s, "nodes")
        /\ UNCHANGED <<next, nodeMap, faulted>>
     \/ /\ NameTaken(s, ProjectName(s))
        /\ Fail(s) /\ UNCHANGED <<project, faulted>>
     \/ /\ ~NameTaken(s, ProjectName(s))
        /\ CallFails(s, Empty(ProjectName(s)))
  /\ UNCHANGED <<lab, row, second>>

\* ProvisionTopology: a type it does not know is an error, as is a node GNS3 refuses.
Accepted(node) ==
  /\ node.NodeType \in SupportedTypes
  /\ Required(node.NodeType) \subseteq DOMAIN Payload(node).Properties

WithEntry(m, key, info) == [k \in DOMAIN m \cup {key} |-> IF k = key THEN info ELSE m[k]]
WithNode(s, node) == [project[s] EXCEPT !.nodes = @ \cup {node.Name}]

\* Faulty variant: the node map is keyed by type.
CreateNodeByType(s) ==
  /\ pc[s] = "nodes"
  /\ next[s] \in DOMAIN NodesOf(s)
  /\ LET node == NodesOf(s)[next[s]] IN
       /\ Accepted(node)
       /\ project' = [project EXCEPT ![s] = WithNode(s, node)]
       /\ nodeMap' = [nodeMap EXCEPT ![s] = WithEntry(@, node.NodeType, NodeInfo(node))]
       /\ next' = [next EXCEPT ![s] = @ + 1]
  /\ UNCHANGED <<lab, row, pc, name, second, faulted>>

CreateNode(s) ==
  /\ pc[s] = "nodes"
  /\ next[s] \in DOMAIN NodesOf(s)
  /\ LET node == NodesOf(s)[next[s]] IN
       \/ /\ Accepted(node)
          /\ project' = [project EXCEPT ![s] = WithNode(s, node)]
          /\ nodeMap' = [nodeMap EXCEPT ![s] = WithEntry(@, node.Name, NodeInfo(node))]
          /\ next' = [next EXCEPT ![s] = @ + 1]
          /\ UNCHANGED <<pc, faulted>>
       \/ ~Accepted(node) /\ Fail(s) /\ UNCHANGED <<project, faulted>>
       \/ Accepted(node) /\ CallFails(s, WithNode(s, node))
  /\ UNCHANGED <<lab, row, name, second>>

NodesCreated(s) ==
  /\ pc[s] = "nodes"
  /\ next[s] \notin DOMAIN NodesOf(s)
  /\ Goto(s, "links")
  /\ next' = [next EXCEPT ![s] = 1]
  /\ UNCHANGED <<lab, row, name, nodeMap, project, second, faulted>>

\* createLinks: both nodes were created, both interfaces have a port number,
\* and in GNS3 both ports exist and are free.
PortExists(t, end) ==
  /\ end[2] # Unrecognized
  /\ end[2] \in PortsOf(Payload(NodeNamed(t, end[1])))

Connectable(t, l) ==
  /\ {l.NodeA, l.NodeB} \subseteq Names(t)
  /\ PortExists(t, EndA(t, l)) /\ PortExists(t, EndB(t, l))
  /\ EndA(t, l) # EndB(t, l)

Accepts(s, l) ==
  /\ {l.NodeA, l.NodeB} \subseteq DOMAIN nodeMap[s]
  /\ Connectable(lab[s], l)
  /\ Ends(lab[s], l) \cap project[s].cables = {}

WithLink(s, l) == [project[s] EXCEPT !.cables = @ \cup Ends(lab[s], l)]

\* Faulty variant: a link that cannot be made is passed over.
CreateLinkOrSkip(s) ==
  /\ pc[s] = "links"
  /\ next[s] \in DOMAIN LinksOf(s)
  /\ LET l == LinksOf(s)[next[s]] IN
       \/ Accepts(s, l) /\ project' = [project EXCEPT ![s] = WithLink(s, l)] /\ UNCHANGED faulted
       \/ "gns3" \in Faults /\ faulted' = faulted \cup {s} /\ UNCHANGED project
  /\ next' = [next EXCEPT ![s] = @ + 1]
  /\ UNCHANGED <<lab, row, pc, name, nodeMap, second>>

CreateLink(s) ==
  /\ pc[s] = "links"
  /\ next[s] \in DOMAIN LinksOf(s)
  /\ LET l == LinksOf(s)[next[s]] IN
       \/ /\ Accepts(s, l)
          /\ project' = [project EXCEPT ![s] = WithLink(s, l)]
          /\ next' = [next EXCEPT ![s] = @ + 1]
          /\ UNCHANGED <<pc, nodeMap, faulted>>
       \/ ~Accepts(s, l) /\ Fail(s) /\ UNCHANGED <<project, faulted>>
       \/ Accepts(s, l) /\ CallFails(s, WithLink(s, l))
  /\ UNCHANGED <<lab, row, name, second>>

LinksCreated(s) ==
  /\ pc[s] = "links"
  /\ next[s] \notin DOMAIN LinksOf(s)
  /\ Goto(s, "start")
  /\ UNCHANGED <<lab, row, next, name, nodeMap, project, second, faulted>>

Started(s) == [project[s] EXCEPT !.started = TRUE]

StartNodes(s) ==
  /\ pc[s] = "start"
  /\ \/ /\ project' = [project EXCEPT ![s] = Started(s)]
        /\ Goto(s, "macs")
        /\ UNCHANGED <<next, nodeMap, faulted>>
     \/ CallFails(s, Started(s))
  /\ UNCHANGED <<lab, row, name, second>>

\* PopulateNodeMACs: every node is tried, in no particular order, and the errors
\* (GNS3, a VPCS console that does not answer in time) are only logged.
PopulateNodeMACs(s) ==
  /\ pc[s] = "macs"
  /\ \E resolved \in SUBSET {n \in DOMAIN nodeMap[s] : nodeMap[s][n].NodeType \in ResolvedTypes} :
       /\ \/ "mac" \in Faults
          \/ \A n \in DOMAIN nodeMap[s] \ resolved : nodeMap[s][n].NodeType \notin ResolvedTypes
       /\ nodeMap' = [nodeMap EXCEPT ![s] =
            [n \in DOMAIN @ |-> IF n \in resolved THEN [@[n] EXCEPT !.MAC = MACOf(s, n)] ELSE @[n]]]
  /\ Goto(s, "commit")
  /\ UNCHANGED <<lab, row, next, name, project, second, faulted>>

\* SetProvisioned and SetStatus(failed): a statement that fails is only logged.
StatementFails(s) == "db" \in Faults /\ faulted' = faulted \cup {s} /\ UNCHANGED row

\* Faulty variant: a missing MAC address fails the row that is running by now.
SetProvisionedThenFail(s) ==
  /\ pc[s] = "commit"
  /\ row' = [row EXCEPT ![s] = [status |-> "running", project |-> s, nodes |-> nodeMap[s]]]
  /\ \/ Goto(s, "done")
     \/ "mac" \in Faults /\ Goto(s, "fail")
  /\ UNCHANGED <<lab, next, name, nodeMap, project, second, faulted>>

SetProvisioned(s) ==
  /\ pc[s] = "commit"
  /\ \/ /\ row' = [row EXCEPT ![s] =
                     [status |-> "running", project |-> s, nodes |-> nodeMap[s]]]
        /\ UNCHANGED faulted
     \/ StatementFails(s)
  /\ Goto(s, "done")
  /\ UNCHANGED <<lab, next, name, nodeMap, project, second>>

SetFailed(s) ==
  /\ pc[s] = "fail"
  /\ \/ row' = [row EXCEPT ![s].status = "failed"] /\ UNCHANGED faulted
     \/ StatementFails(s)
  /\ Goto(s, "done")
  /\ UNCHANGED <<lab, next, name, nodeMap, project, second>>

\* The process ends and takes the goroutines with it.
Crash ==
  /\ "crash" \in Faults
  /\ \E s \in Sessions : pc[s] \notin {"idle", "done"}
  /\ pc' = [s \in Sessions |-> IF pc[s] = "idle" THEN "idle" ELSE "done"]
  /\ faulted' = faulted \cup {s \in Sessions : pc[s] \notin {"idle", "done"}}
  /\ UNCHANGED <<lab, row, next, name, nodeMap, project, second>>

Tick ==
  /\ second < MaxSecond
  /\ \E s \in Sessions : pc[s] \in {"idle", "image", "create"}
  /\ second' = second + 1
  /\ UNCHANGED <<lab, row, pc, next, name, nodeMap, project, faulted>>

AllDone == (\A s \in Sessions : pc[s] = "done") /\ UNCHANGED vars

Init ==
  /\ lab \in Launches
  /\ row = [s \in Sessions |-> [status |-> "none", project |-> None, nodes |-> << >>]]
  /\ pc = [s \in Sessions |-> "idle"]
  /\ next = [s \in Sessions |-> 1]
  /\ name = [s \in Sessions |-> None]
  /\ nodeMap = [s \in Sessions |-> << >>]
  /\ project = [s \in Sessions |-> NoProject]
  /\ second = 0
  /\ faulted = {}

ProvisionStep(s) ==
  \/ Launch(s) \/ EnsureKaliImage(s) \/ CreateProject(s)
  \/ CreateNode(s) \/ NodesCreated(s) \/ CreateLink(s) \/ LinksCreated(s)
  \/ StartNodes(s) \/ PopulateNodeMACs(s) \/ SetProvisioned(s) \/ SetFailed(s)

Next == (\E s \in Sessions : ProvisionStep(s)) \/ Crash \/ Tick \/ AllDone

Spec == Init /\ [][Next]_vars

-----------------------------------------------------------------------------
(***************************************************************************)
(* Properties                                                              *)
(***************************************************************************)
PCs == {"idle", "image", "create", "nodes", "links", "start", "macs", "commit", "fail", "done"}

\* Types of the variables.
TypeOK ==
  /\ pc \in [Sessions -> PCs]
  /\ next \in [Sessions -> Nat \ {0}]
  /\ second \in 0..MaxSecond
  /\ faulted \subseteq Sessions
  /\ \A s \in Sessions :
       /\ row[s].status \in {"none", "provisioning", "running", "failed"}
       /\ row[s].project \in {s, None}
       /\ DOMAIN row[s].nodes \subseteq Names(lab[s])
       /\ DOMAIN nodeMap[s] \subseteq Names(lab[s])

\* What a topology needs for GNS3 to build it: nodes it accepts, links between ports
\* that exist, no port twice.
SoundTopologies == \A f \in Launches, s \in Sessions :
  LET t == f[s] IN
  /\ \A i \in DOMAIN t.Nodes : Accepted(t.Nodes[i])
  /\ \A i \in DOMAIN t.Links : Connectable(t, t.Links[i])
  /\ \A i, j \in DOMAIN t.Links : i # j => Ends(t, t.Links[i]) \cap Ends(t, t.Links[j]) = {}

(***************************************************************************)
(* A launch fails only because something failed around it or because       *)
(* somebody launched the same lab in the same second: never because of the *)
(* topology, the interface mapping or the properties a node is created     *)
(* with (gns3client_impl.go, ProvisionTopology and createLinks, with every *)
(* labNN_topology.go).                                                     *)
(***************************************************************************)
Rival(s) == \E t \in Sessions \ {s} : project[t].name = name[s] /\ name[s] # None

FailsForCause == \A s \in Sessions :
  row[s].status = "failed" => s \in faulted \/ Rival(s)

(***************************************************************************)
(* A running row has the lab behind it: its project holds every node of    *)
(* the topology and a cable in both ends of every link, it was started,    *)
(* and the node map has the nodes' types (SetProvisioned is reached from   *)
(* no partial build).                                                      *)
(***************************************************************************)
RunningIsBuilt == \A s \in Sessions :
  row[s].status = "running" =>
    /\ row[s].project = s
    /\ project[s].started
    /\ project[s].nodes = Names(lab[s])
    /\ DOMAIN row[s].nodes = Names(lab[s])
    /\ project[s].cables = UNION {Ends(lab[s], l) : l \in Elements(LinksOf(s))}

(***************************************************************************)
(* The launch as its users see it: one change of the row, all or nothing   *)
(* (LaunchOutcome).                                                        *)
(***************************************************************************)
Outcome == INSTANCE LaunchOutcome WITH NodeNames <- Names

ImplementsOutcome == Outcome!Spec

=============================================================================
