---------------------------- MODULE LabVerdicts ----------------------------
(***************************************************************************)
(* What the verdict of a verification says about the lab.  The assertions  *)
(* of src/internal/verify/dsl.go and dsl_stubs.go are evaluated over what  *)
(* the parsers (parse.go, stp_parser.go) make of the device a verifier is  *)
(* registered for, while a student works on that device, hosts talk, Kali  *)
(* attacks, and the fault injection of lab15_scenario.go runs, up to the   *)
(* command that fails.                                                     *)
(*                                                                         *)
(* A verification is one step here: ConsoleTruth models the console, the   *)
(* order of the reads and the deadline.  The device and the hosts are      *)
(* external: they behave as the captures in the tests of verify and the    *)
(* comments of the verifiers say.                                          *)
(*                                                                         *)
(* Bound: a student does what some assertion of the phase can tell apart,  *)
(* or what the comments of its verifier say the phase is about.            *)
(***************************************************************************)
EXTENDS Verifiers, FiniteSets

CONSTANTS Works,      \* the <<lab, phase>> that are worked on
          Template,   \* the topology of each lab
          Registry,   \* the verifiers main registers
          None

ASSUME WorksAssumption ==
  /\ Works \subseteq (DOMAIN Template) \X {"build", "attack", "harden"}
  /\ \A w \in DOMAIN Registry : w[1] \in DOMAIN Template

ASSUME NoneAssumption ==
  /\ None \notin {"passed", "failed"}
  /\ None \notin {"SW1", "SW2", "SW3"}
  /\ \A w \in DOMAIN Registry : Registry[w].TargetDevice # None
  /\ \A i \in 0..3 : Et(i) # None

VARIABLES work,       \* the phase verified
          verifier,   \* what Lookup returns for it
          behind,     \* ports of its device behind which each node is
          hosts,      \* the VPCS and the containers of the lab
          port,       \* configuration and state of the ports of its device
          recovery,   \* errdisable recovery interval 300 is configured
          cam,        \* MAC address table: host to port
          flooded,    \* macof's addresses fill the table
          known,      \* hosts whose MAC address was resolved at provisioning
          up,         \* hosts that are configured and answer
          open,       \* the firewall lets the outside in
          elected,    \* switch given the best priority, None before that
          attacking,  \* Kali sends superior BPDUs
          tasks,      \* done of what the phase is about and no assertion reads
          script,     \* commands of the fault injection still to send
          iface,      \* interface they apply to
          untouched,  \* nobody worked on the lab yet
          verdict     \* of the verification that has just run

session   == <<work, verifier, behind, hosts, known>>
device    == <<port, recovery, cam, flooded>>
network   == <<up, open, elected, attacking, tasks>>
injection == <<script, iface>>
vars == <<session, device, network, injection, untouched, verdict>>

Lookup(w) == IF w \in DOMAIN Registry THEN Registry[w] ELSE Entry(None, << >>)
Registered == verifier.TargetDevice # None
Target == verifier.TargetDevice
Checks == verifier.Checks
Elements(seq) == {seq[i] : i \in DOMAIN seq}
Asked(kinds) == \E c \in Elements(Checks) : c.kind \in kinds

-----------------------------------------------------------------------------
(***************************************************************************)
(* The device and what is cabled to it                                     *)
(***************************************************************************)
\* An IOU adapter has four ports: after Et0/3 comes Et1/0.
PortsOf(d) == IF d \in {"SW1", "SW2", "SW3"} THEN {Et(i) : i \in 0..3} ELSE {Fa(0, 0), Fa(0, 1)}

Cabled(links, d, n) ==
  {l.IfaceA : l \in {x \in links : x.NodeA = d /\ x.NodeB = n}}
  \cup {l.IfaceB : l \in {x \in links : x.NodeB = d /\ x.NodeA = n}}

\* The ports of d behind which a node is, over a cable of its own or over the hub.
Behind(links, d, n) ==
  Cabled(links, d, n) \cup IF Cabled(links, n, "H1") # {} THEN Cabled(links, d, "H1") ELSE {}

PortsTo(n) == IF n \in DOMAIN behind THEN behind[n] ELSE {}

Forwards(p) == ~port[p].shut /\ ~port[p].err
Connected(n) == \E p \in PortsTo(n) : Forwards(p)
InVLAN(n, v) == \E p \in PortsTo(n) : port[p].vlan = v

\* A ping from the device: from its address in VLAN 1 to a host at one of its
\* ports, or across the firewall.
GetsThrough(h) ==
  /\ h \in up
  /\ IF PortsTo(h) = {} THEN open /\ Connected("FW") ELSE Connected(h) /\ InVLAN(h, 1)

\* Spanning tree on a triangle of switches: the bridge with the best identifier
\* that the device hears of is the root.
Switches == {"SW1", "SW2", "SW3"}
Id == [b \in Switches \cup {"KALI"} |->
         CASE b = "KALI" -> 0 [] b = "SW1" -> 1 [] b = "SW2" -> 2 [] b = "SW3" -> 3]
Heard == IF \E s \in Switches \ {Target} : Connected(s) THEN Switches ELSE {Target}
HearsKali ==
  /\ attacking
  /\ IF Target = "SW3" THEN \E p \in PortsTo("KALI") : Forwards(p) /\ ~port[p].guarded
     ELSE Heard = Switches
Root ==
  IF HearsKali THEN "KALI"
  ELSE IF elected \in Heard THEN elected
  ELSE CHOOSE b \in Heard : \A c \in Heard : Id[b] <= Id[c]

Hops(root, b) == IF b = root THEN 0 ELSE IF root # "KALI" \/ b = "SW3" THEN 1 ELSE 2
Nearer(root, a, b) ==
  Hops(root, a) < Hops(root, b) \/ (Hops(root, a) = Hops(root, b) /\ Id[a] < Id[b])

Uplinks(root) == {b \in (Switches \cup {root}) \ {Target} : Connected(b)}
Best(root) == CHOOSE b \in Uplinks(root) : \A c \in Uplinks(root) : ~Nearer(root, c, b)

\* The bridges at a port, and those that are nearer to the root than the device.
Facing(root, p) == {b \in Uplinks(root) : p \in PortsTo(b)}
Before(root) ==
  LET own == Hops(root, Best(root)) + 1
  IN {b \in Uplinks(root) : Hops(root, b) < own \/ (Hops(root, b) = own /\ Id[b] < Id[Target])}

Role(root, p) ==
  IF root = Target \/ Facing(root, p) = {} THEN "Desg"
  ELSE IF Best(root) \in Facing(root, p) THEN "Root"
  ELSE IF Facing(root, p) \cap Before(root) # {} THEN "Altn" ELSE "Desg"

-----------------------------------------------------------------------------
(***************************************************************************)
(* The evidence: what the parsers return                                   *)
(***************************************************************************)
\* parseInterfaceStatus: an err-disabled port "is down, line protocol is down
\* (err-disabled)", not administratively; of a port that does not exist the
\* device prints nothing the parser knows.
Interface(p) ==
  IF p \in DOMAIN port
  THEN [AdminUp |-> ~port[p].shut, LinkUp |-> Forwards(p), ErrDisabled |-> port[p].err,
        Described |-> port[p].described]
  ELSE [AdminUp |-> TRUE, LinkUp |-> FALSE, ErrDisabled |-> FALSE, Described |-> FALSE]

\* parseErrdisableRecovery: the timer line that enables it is always printed.
ErrdisableRecovery == [Enabled |-> TRUE, IntervalSet |-> recovery]

\* parseMACTable, MACTable.PortFor; an unresolved address is in no table.
PortFor(h) == IF h \in known \cap DOMAIN cam THEN cam[h] ELSE None
FloodSize == 1000
MACCount == Cardinality(DOMAIN cam) + IF flooded THEN FloodSize ELSE 0

\* parseVlanBrief
VLANFor(p) == IF p \in DOMAIN port THEN port[p].vlan ELSE None

\* ParseSTP: the ports that forward or block, with their roles.
STPTable == [IsRoot |-> Root = Target,
             PortRoles |-> [p \in {q \in DOMAIN port : Forwards(q)} |-> Role(Root, p)]]

\* Faulty variant: two replies of three are not enough.
pingPassesAll(replies) == (replies * 100) \div 3 > 66

\* parsePingResult over "ping ... repeat 3".
pingPasses(replies) == (replies * 100) \div 3 >= 66

-----------------------------------------------------------------------------
(***************************************************************************)
(* The assertions, and Run: all of them, over one set of evidence          *)
(***************************************************************************)
\* Faulty variant: an err-disabled port is down as well.
DownOrErrDisabled(c) == ~Interface(c.port).AdminUp \/ Interface(c.port).ErrDisabled

IsUp(c)   == ~Interface(c.port).ErrDisabled /\ Interface(c.port).AdminUp /\ Interface(c.port).LinkUp
IsDown(c) == ~Interface(c.port).AdminUp

\* The first packet to a host may be lost to ARP.
Replies(h, lost) == IF GetsThrough(h) THEN 3 - lost ELSE 0
Reachable(h, lost) == pingPasses(Replies(h, lost))

Holds(c, lost) ==
  CASE c.kind = "up"          -> IsUp(c)
    [] c.kind = "down"        -> IsDown(c)
    [] c.kind = "vlan"        -> VLANFor(c.port) = c.vlan
    [] c.kind = "description" -> Interface(c.port).Described
    [] c.kind = "recovery"    -> ErrdisableRecovery.Enabled /\ ErrdisableRecovery.IntervalSet
    [] c.kind = "mac"         -> \A h \in c.hosts : PortFor(h) = c.port
    [] c.kind = "count"       -> MACCount >= c.n
    [] c.kind = "root"        -> STPTable.IsRoot
    [] c.kind = "role"        -> /\ c.port \in DOMAIN STPTable.PortRoles
                                 /\ STPTable.PortRoles[c.port] = c.role
    [] c.kind = "violations"  -> port[c.port].violated
    [] c.kind = "reachable"   -> Reachable(c.host, lost)
    [] c.kind = "unreachable" -> ~Reachable(c.host, lost)

\* Faulty variant: an unregistered phase passes, having no assertion that fails.
RunOpen(lost) == \A c \in Elements(Checks) : Holds(c, lost)

\* VerifierRegistry.Run is closed: no verifier, no pass.
Run(lost) == Registered /\ \A c \in Elements(Checks) : Holds(c, lost)

Verify ==
  /\ \E lost \in 0..1 : verdict' = IF Run(lost) THEN "passed" ELSE "failed"
  /\ UNCHANGED <<session, device, network, injection, untouched>>

-----------------------------------------------------------------------------
(***************************************************************************)
(* Lab15AttackScenario, sent by RunCommands: in order, one at a time, and  *)
(* no further than the first command that fails; nothing is undone.        *)
(***************************************************************************)
Command(name, arg) == [name |-> name, arg |-> arg]

Lab15AttackScenario ==
  <<Command("configure terminal", None),
    Command("interface", Et(0)), Command("shutdown", None),
    Command("interface", Et(1)), Command("switchport access vlan", 99),
    Command("interface", Et(2)), Command("spanning-tree portfast", None),
    Command("spanning-tree bpduguard enable", None),
    Command("interface", Et(3)), Command("shutdown", None),
    Command("end", None)>>

ScenarioOf(w) == IF w = <<15, "attack">> THEN Lab15AttackScenario ELSE << >>

\* A port that goes down forgets its addresses; a new one replaces an old one.
Flush(p) == [h \in {g \in DOMAIN cam : cam[g] # p} |-> cam[h]]
Learn(h, p) == [g \in DOMAIN cam \cup {h} |-> IF g = h THEN p ELSE cam[g]]

RunCommand ==
  /\ script # << >>
  /\ script' = Tail(script)
  /\ LET cmd == Head(script) IN
       /\ iface' = IF cmd.name = "interface" THEN cmd.arg ELSE iface
       /\ port' = CASE cmd.name = "shutdown" -> [port EXCEPT ![iface].shut = TRUE]
                    [] cmd.name = "switchport access vlan" -> [port EXCEPT ![iface].vlan = cmd.arg]
                    [] cmd.name = "spanning-tree bpduguard enable" ->
                         [port EXCEPT ![iface].guarded = TRUE]
                    [] OTHER -> port
  /\ verdict' = None
  /\ UNCHANGED <<session, recovery, cam, flooded, network, untouched>>

CommandFails ==
  /\ script # << >>
  /\ script' = << >>
  /\ verdict' = None
  /\ UNCHANGED <<session, device, network, iface, untouched>>

-----------------------------------------------------------------------------
(***************************************************************************)
(* The student on the device.  The console is exclusive: not during the    *)
(* injection.                                                              *)
(***************************************************************************)
Worked == script = << >> /\ untouched' = FALSE /\ verdict' = None

(***************************************************************************)
(* What the comments of a verifier say its phase is about, of which no     *)
(* assertion reads anything: the DHCP pool of R1, the pool exhausted and a *)
(* rogue server answering (lab 8), the trunk taken down and up again, the  *)
(* console password (lab 16), the way out left open (lab 47).              *)
(***************************************************************************)
Unread ==
  CASE work = <<8, "build">>   -> {"pool"}
    [] work = <<8, "attack">>  -> {"exhausted", "rogue"}
    [] work = <<16, "build">>  -> {"bounced"}
    [] work = <<16, "harden">> -> {"password"}
    [] work = <<47, "harden">> -> {"outbound"}
    [] OTHER -> {}

Configures(newPort) == Worked /\ port' = newPort /\ UNCHANGED <<session, recovery, network, injection>>

\* Faulty variant: an err-disabled port stays so when it is shut.
ShutdownKeepsErr(p) ==
  /\ Asked({"up", "down", "root", "role", "reachable"}) /\ ~port[p].shut
  /\ Configures([port EXCEPT ![p].shut = TRUE]) /\ cam' = Flush(p)
  /\ UNCHANGED flooded

\* What becomes of the violation counter is the image's choice.
Shutdown(p) ==
  /\ Asked({"up", "down", "root", "role", "reachable"}) /\ ~port[p].shut
  /\ \E kept \in {port[p].violated, FALSE} :
       Configures([port EXCEPT ![p].shut = TRUE, ![p].err = FALSE, ![p].violated = kept])
  /\ cam' = Flush(p)
  /\ UNCHANGED flooded

\* Lab 16's exercise on the trunk ends with this.
NoShutdown(p) ==
  /\ port[p].shut /\ Worked
  /\ port' = [port EXCEPT ![p].shut = FALSE]
  /\ tasks' = IF p \in PortsTo("SW2") THEN tasks \cup (Unread \cap {"bounced"}) ELSE tasks
  /\ UNCHANGED <<session, recovery, cam, flooded, up, open, elected, attacking, injection>>

\* VLAN 99 is the unused one of lab 1.
AccessVLAN(p) ==
  /\ \E c, d \in {x \in Elements(Checks) : x.kind = "vlan"} :
       /\ c.port = p
       /\ \E v \in {1, d.vlan} \cup (IF work[1] = 1 THEN {99} ELSE {}) :
            Configures([port EXCEPT ![p].vlan = v])
  /\ UNCHANGED <<cam, flooded>>

Describe(p) ==
  /\ Asked({"description"})
  /\ Configures([port EXCEPT ![p].described = TRUE]) /\ UNCHANGED <<cam, flooded>>

\* Port-security, with the violation mode that shuts the port down.
Secure(p) ==
  /\ Asked({"violations"}) \/ work \in {<<8, "attack">>, <<8, "harden">>}
  /\ p \in PortsTo("PC1") \cup PortsTo("KALI")
  /\ Configures([port EXCEPT ![p].secured = TRUE]) /\ UNCHANGED <<cam, flooded>>

Guard(p) ==
  /\ Asked({"role"}) /\ p \in PortsTo("KALI")
  /\ Configures([port EXCEPT ![p].guarded = TRUE]) /\ UNCHANGED <<cam, flooded>>

Unguard(p) ==
  port[p].guarded /\ Configures([port EXCEPT ![p].guarded = FALSE]) /\ UNCHANGED <<cam, flooded>>

SetRecovery ==
  /\ Asked({"recovery"}) /\ Worked
  /\ recovery' = TRUE
  /\ UNCHANGED <<session, port, cam, flooded, network, injection>>

\* A static entry of the MAC table: the parser takes it for a learned one.
PlantMAC(h, p) ==
  /\ Asked({"mac"}) /\ Worked
  /\ cam' = Learn(h, p)
  /\ UNCHANGED <<session, port, recovery, flooded, network, injection>>

ConfigureDevice ==
  \/ \E p \in DOMAIN port : Shutdown(p) \/ NoShutdown(p) \/ AccessVLAN(p) \/ Describe(p)
                            \/ Secure(p) \/ Guard(p) \/ Unguard(p)
  \/ SetRecovery
  \/ \E h \in HostsRead(verifier), p \in PortsRead(verifier) : PlantMAC(h, p)

-----------------------------------------------------------------------------
(***************************************************************************)
(* The hosts, the firewall, the other switches, and Kali                   *)
(***************************************************************************)
Pinged == {c.host : c \in {x \in Elements(Checks) : x.kind \in {"reachable", "unreachable"}}}

Elsewhere == Worked /\ UNCHANGED <<session, recovery, injection>>

ConfigureHost(h) ==
  /\ Elsewhere /\ up' = up \cup {h}
  /\ UNCHANGED <<port, cam, flooded, open, elected, attacking, tasks>>

LoseHost(h) ==
  /\ Elsewhere /\ up' = up \ {h}
  /\ UNCHANGED <<port, cam, flooded, open, elected, attacking, tasks>>

Policy ==
  /\ \E h \in Pinged : PortsTo(h) = {}
  /\ Elsewhere /\ open' = ~open
  /\ UNCHANGED <<port, cam, flooded, up, elected, attacking, tasks>>

Elect(b) ==
  /\ Asked({"root", "role"})
  /\ Elsewhere /\ elected' = b
  /\ UNCHANGED <<port, cam, flooded, up, open, attacking, tasks>>

\* A task that is a matter of configuration is done, or undone.
Perform(t) ==
  /\ Elsewhere /\ tasks' \in {tasks \cup {t}, tasks \ {t}}
  /\ UNCHANGED <<port, cam, flooded, up, open, elected, attacking>>

Talk(h) ==
  /\ Asked({"mac", "count"}) /\ Elsewhere
  /\ \E p \in PortsTo(h) : Forwards(p) /\ cam' = Learn(h, p)
  /\ UNCHANGED <<port, flooded, network>>

Age ==
  /\ Asked({"mac", "count"}) /\ Elsewhere
  /\ cam' = << >> /\ flooded' = FALSE
  /\ UNCHANGED <<port, network>>

\* macof: a secured port is err-disabled by the first address too many.
Macof(p) ==
  /\ Asked({"count", "violations"}) /\ Elsewhere
  /\ Forwards(p)
  /\ IF port[p].secured
     THEN port' = [port EXCEPT ![p].err = TRUE, ![p].violated = TRUE] /\ UNCHANGED flooded
     ELSE flooded' = TRUE /\ UNCHANGED port
  /\ UNCHANGED <<cam, network>>

\* Kali asks R1 for every address of the pool, from as many MAC addresses.
Starve(p) ==
  /\ work \in {<<8, "attack">>, <<8, "harden">>} /\ Elsewhere
  /\ Forwards(p)
  /\ IF port[p].secured
     THEN port' = [port EXCEPT ![p].err = TRUE, ![p].violated = TRUE] /\ UNCHANGED tasks
     ELSE tasks' = tasks \cup (Unread \cap {"exhausted"}) /\ UNCHANGED port
  /\ UNCHANGED <<cam, flooded, up, open, elected, attacking>>

Yersinia ==
  /\ Asked({"root", "role"}) \/ \E p \in DOMAIN port : port[p].guarded
  /\ Elsewhere /\ attacking' = ~attacking
  /\ UNCHANGED <<port, cam, flooded, up, open, elected, tasks>>

BPDUGuard(p) ==
  /\ attacking /\ port[p].guarded /\ Forwards(p)
  /\ Elsewhere /\ port' = [port EXCEPT ![p].err = TRUE]
  /\ UNCHANGED <<cam, flooded, network>>

Around ==
  \/ \E h \in Pinged : ConfigureHost(h) \/ LoseHost(h)
  \/ \E h \in hosts : Talk(h)
  \/ \E b \in Switches : Elect(b)
  \/ \E t \in Unread \ {"exhausted", "bounced"} : Perform(t)
  \/ \E p \in PortsTo("KALI") : Macof(p) \/ Starve(p) \/ BPDUGuard(p)
  \/ Policy \/ Age \/ Yersinia

-----------------------------------------------------------------------------
\* "The 12.2 image ignores interface blocks": its ports boot administratively
\* down, as those of a router do.
BootsShut == work = <<1, "build">> \/ Target = "R1"

FreshPort == [shut |-> BootsShut, err |-> FALSE, vlan |-> 1, described |-> FALSE,
              secured |-> FALSE, violated |-> FALSE, guarded |-> FALSE]

\* PopulateNodeMACs finds the address of a VPCS on its console, which may not answer.
Init ==
  /\ work \in Works
  /\ verifier = Lookup(work)
  /\ LET t == Template[work[1]]
         named(types) == {n.Name : n \in {x \in Elements(t.Nodes) : x.NodeType \in types}}
     IN /\ behind = [n \in {x.Name : x \in Elements(t.Nodes)} |->
                       Behind(Elements(t.Links), Target, n)]
        /\ hosts = named({"vpcs", "docker"})
        /\ known \in {hosts} \cup (IF Asked({"mac"}) THEN {named({"docker"})} ELSE {})
  /\ port = IF Registered THEN [p \in PortsOf(Target) |-> FreshPort] ELSE << >>
  /\ recovery \in IF Asked({"recovery"}) THEN BOOLEAN ELSE {FALSE}
  /\ cam = << >> /\ flooded = FALSE
  /\ up = {} /\ open = FALSE
  /\ elected = None /\ attacking = FALSE /\ tasks = {}
  /\ script = ScenarioOf(work) /\ iface = None
  /\ untouched = TRUE /\ verdict = None

Next == Verify \/ RunCommand \/ CommandFails \/ ConfigureDevice \/ Around

Spec == Init /\ [][Next]_vars

-----------------------------------------------------------------------------
(***************************************************************************)
(* Properties                                                              *)
(***************************************************************************)
\* Types of the variables; a port is never shut and err-disabled at once.
TypeOK ==
  /\ work \in Works /\ known \subseteq hosts
  /\ \A p \in DOMAIN port : ~(port[p].shut /\ port[p].err) /\ port[p].vlan \in {1, 10, 20, 99}
  /\ {recovery, flooded, open, attacking, untouched} \subseteq BOOLEAN
  /\ DOMAIN cam \subseteq hosts /\ up \subseteq Pinged
  /\ elected \in Switches \cup {None} /\ tasks \subseteq Unread
  /\ verdict \in {"passed", "failed", None}

(***************************************************************************)
(* What a phase is about, as the comments of its verifier have it, in      *)
(* terms of the hosts and of the network, not of the ports the verifiers   *)
(* name.  Shown is the part its assertions speak of, Besides the rest.     *)
(***************************************************************************)
Located(h) == h \in known \cap DOMAIN cam /\ cam[h] \in PortsTo(h)
AllThrough(hs) == \A h \in hs : GetsThrough(h)
AllConnected(ns) == \A n \in ns : Connected(n)
ShutTo(n) == \A p \in PortsTo(n) : port[p].shut
SecuredTo(n) == \A p \in PortsTo(n) : port[p].secured
Used(p) == \E n \in DOMAIN behind : p \in behind[n]

Shown ==
  CASE work = <<1, "build">>   -> InVLAN("PC1", 10) /\ Connected("SW2")
    [] work = <<2, "build">>   -> Root = "SW1"
    [] work = <<2, "attack">>  -> Root = "KALI"
    [] work = <<2, "harden">>  -> Root = "SW1" /\ AllConnected({"SW1", "SW2"})
    [] work = <<3, "build">>   -> flooded \/ \E g, h \in DOMAIN cam : g # h
    [] work = <<3, "attack">>  -> flooded
    [] work = <<3, "harden">>  -> \E p \in PortsTo("KALI") : port[p].violated
    [] work = <<8, "build">>   -> GetsThrough("R1")
    [] work = <<8, "attack">>  -> AllConnected({"R1", "PC1", "KALI"})
    [] work = <<8, "harden">>  -> AllConnected({"PC1", "KALI"})
    [] work = <<15, "build">>  -> /\ \A h \in hosts : Located(h)
                                  /\ cam["PC1"] = cam["PC2"] /\ cam["PC1"] = cam["KALI2"]
                                  /\ cam["PC1"] # cam["PC3"] /\ cam["PC1"] # cam["KALI"]
                                  /\ cam["PC3"] # cam["KALI"]
    [] work = <<15, "attack">> -> AllConnected({"H1", "PC3", "KALI", "R1"})
                                  /\ AllThrough({"PC1", "PC2", "PC3", "KALI"})
    [] work = <<15, "harden">> -> recovery /\ \A p \in DOMAIN port : port[p].described
    [] work = <<16, "build">>  -> Connected("SW2")
    [] work = <<16, "attack">> -> ShutTo("PC1")
    [] work = <<16, "harden">> -> AllConnected({"SW2", "PC1"})
    [] work = <<47, "build">>  -> Connected("R2") /\ InVLAN("PC1", 10) /\ InVLAN("PC2", 20)
    [] work = <<47, "attack">> -> AllConnected({"KALI", "FW"}) /\ AllThrough({"R2", "PC1", "PC2"})
    [] work = <<47, "harden">> -> /\ AllConnected({"KALI", "FW"})
                                  /\ ~GetsThrough("PC1") /\ ~GetsThrough("PC2")
    [] OTHER -> FALSE

Besides ==
  CASE work = <<1, "build">>   -> InVLAN("KALI", 99)
    [] work = <<2, "build">>   -> elected = "SW1"
    [] work = <<2, "harden">>  -> \A p \in PortsTo("KALI") : port[p].guarded
    [] work = <<3, "build">>   -> {"PC1", "PC2"} \subseteq DOMAIN cam
    [] work = <<3, "harden">>  -> \E p \in PortsTo("KALI") : port[p].violated /\ port[p].err
    [] work = <<8, "attack">>  -> tasks = Unread /\ SecuredTo("PC1") /\ SecuredTo("KALI")
    [] work = <<8, "harden">>  -> SecuredTo("PC1") /\ SecuredTo("KALI")
    [] work = <<16, "harden">> -> /\ tasks = Unread
                                  /\ \A p \in DOMAIN port : IF Used(p) THEN Forwards(p) ELSE port[p].shut
    [] work = <<47, "harden">> -> tasks = Unread /\ ~open
    [] OTHER -> tasks = Unread

Done == Shown /\ Besides

\* The phases of which part is checked (no assertion reads Besides), and those of
\* which an assertion asks for something else than their text.
PartlyChecked ==
  {<<2, "build">>, <<2, "harden">>, <<3, "build">>, <<8, "build">>, <<8, "attack">>,
   <<8, "harden">>, <<16, "build">>, <<16, "harden">>, <<47, "harden">>}
Contradicted == {<<1, "build">>, <<3, "harden">>, <<15, "harden">>}

(***************************************************************************)
(* What the verdict of a verification is worth.  No pass shows less than   *)
(* it speaks of: no port of another host is looked at, no fault of the     *)
(* injection escapes, an unresolved MAC address or a missing verifier      *)
(* never passes.  Whoever has done all of a phase passes: a lost first     *)
(* ping or a repaired port fails nobody.  And where nothing is left        *)
(* unchecked, a pass is the whole phase (dsl.go, parse.go, registry.go,    *)
(* labNN_verify.go).                                                       *)
(***************************************************************************)
VerdictIsRight ==
  /\ verdict = "passed" => Shown
  /\ verdict = "failed" /\ work \notin Contradicted => ~Done
  /\ verdict = "passed" /\ work \notin PartlyChecked \cup Contradicted => Done

(***************************************************************************)
(* Three phases fail the student who did what their text says.  In lab 1   *)
(* Kali's port "should be on unused VLAN 99" and is asked to be in VLAN 10 *)
(* (lab01_verify.go); in lab 3 the err-disabled port is asked to be        *)
(* administratively down (lab03_verify.go); in lab 15 the switch has no    *)
(* fifth port to describe (lab15_verify.go), which the collector of        *)
(* lab15_harden_verify_test.go makes up.                                   *)
(***************************************************************************)
DescribedWorkFails == verdict = "passed" /\ work \in Contradicted => ~Done

(***************************************************************************)
(* Nobody passes a phase without having done anything, six phases apart:   *)
(* an untouched 15.1a switch has its ports up and SW1 wins the election.   *)
(***************************************************************************)
PassedUntouched ==
  {<<2, "build">>, <<2, "harden">>, <<8, "attack">>, <<8, "harden">>, <<16, "build">>, <<16, "harden">>}

PassNeedsWork == verdict = "passed" /\ untouched => work \in PassedUntouched

=============================================================================
