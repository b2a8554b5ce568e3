------------------------- MODULE LabVerdictsProofs --------------------------
(***************************************************************************)
(* Proofs about LabVerdicts: with the verifiers main registers, on labs    *)
(* that are cabled as those verifiers expect, a verdict says what it is    *)
(* taken to say, whatever is worked on, and in whatever order.             *)
(***************************************************************************)
EXTENDS LabVerdicts, FiniteSetTheorems, SequenceTheorems, TLAPS

-----------------------------------------------------------------------------
(***************************************************************************)
(* The premises: what the verifiers know of the labs.                      *)
(***************************************************************************)
Named(lab, types) ==
  {n.Name : n \in {x \in Elements(Template[lab].Nodes) : x.NodeType \in types}}
NodeNames(lab) == {x.Name : x \in Elements(Template[lab].Nodes)}
HostNames(lab) == Named(lab, {"vpcs", "docker"})

\* Node n is behind these ports of device d.
Leads(lab, d, n, ports) ==
  n \in NodeNames(lab) /\ Behind(Elements(Template[lab].Links), d, n) = ports

Wired01 ==
  /\ Leads(1, "SW1", "PC1", {Et(1)}) /\ Leads(1, "SW1", "SW2", {Et(2)})
  /\ Leads(1, "SW1", "KALI", {Et(3)})

Wired02 ==
  /\ Leads(2, "SW3", "SW1", {Et(1)}) /\ Leads(2, "SW3", "KALI", {Et(2)})
  /\ Leads(2, "SW3", "SW2", {Et(3)})

\* 100 addresses are a flood only where there are fewer hosts.
Wired03 ==
  /\ Leads(3, "SW1", "KALI", {Et(3)})
  /\ IsFiniteSet(HostNames(3)) /\ Cardinality(HostNames(3)) < 100

Wired08 ==
  /\ Leads(8, "SW1", "R1", {Et(0)}) /\ Leads(8, "SW1", "PC1", {Et(1)})
  /\ Leads(8, "SW1", "KALI", {Et(3)})

Wired15 ==
  /\ HostNames(15) = {"PC1", "PC2", "PC3", "KALI", "KALI2"}
  /\ \A n \in {"PC1", "PC2", "KALI2", "H1"} : Leads(15, "SW1", n, {Et(0)})
  /\ Leads(15, "SW1", "PC3", {Et(1)}) /\ Leads(15, "SW1", "KALI", {Et(2)})
  /\ Leads(15, "SW1", "R1", {Et(3)})

Wired16 == Leads(16, "SW1", "PC1", {Et(0)}) /\ Leads(16, "SW1", "SW2", {Et(2)})

Wired47 ==
  /\ Leads(47, "SW1", "R2", {Et(0)}) /\ Leads(47, "SW1", "PC1", {Et(1)})
  /\ Leads(47, "SW1", "PC2", {Et(2)})
  /\ Leads(47, "R1", "KALI", {Fa(0, 0)}) /\ Leads(47, "R1", "FW", {Fa(0, 1)})

Wired == Wired01 /\ Wired02 /\ Wired03 /\ Wired08 /\ Wired15 /\ Wired16 /\ Wired47

-----------------------------------------------------------------------------
(***************************************************************************)
(* The catalogue is cabled so.                                             *)
(***************************************************************************)
LEMMA NodeOf ==
  ASSUME NEW n, NEW k
  PROVE  Router(n).Name = n /\ Switch(n).Name = n /\ PC(n).Name = n /\ Kali(n, k).Name = n
BY DEF Node, Router, Switch, PC, Kali

\* Node n is in topology t, behind these ports of its device d.
Places(t, d, n, ports) ==
  n \in {x.Name : x \in Elements(t.Nodes)} /\ Behind(Elements(t.Links), d, n) = ports

LEMMA Places01 ==
  /\ Places(Lab01Topology, "SW1", "PC1", {Et(1)}) /\ Places(Lab01Topology, "SW1", "SW2", {Et(2)})
  /\ Places(Lab01Topology, "SW1", "KALI", {Et(3)})
<1>1. Places(Lab01Topology, "SW1", "PC1", {Et(1)})
  BY NodeOf DEF Places, Behind, Cabled, Elements, Lab01Topology, Link, Et, Eth, Fa
<1>2. Places(Lab01Topology, "SW1", "SW2", {Et(2)})
  BY NodeOf DEF Places, Behind, Cabled, Elements, Lab01Topology, Link, Et, Eth, Fa
<1>3. Places(Lab01Topology, "SW1", "KALI", {Et(3)})
  BY NodeOf DEF Places, Behind, Cabled, Elements, Lab01Topology, Link, Et, Eth, Fa
<1> QED BY <1>1, <1>2, <1>3

LEMMA Places02 ==
  /\ Places(Lab02Topology, "SW3", "SW1", {Et(1)}) /\ Places(Lab02Topology, "SW3", "KALI", {Et(2)})
  /\ Places(Lab02Topology, "SW3", "SW2", {Et(3)})
<1>1. Places(Lab02Topology, "SW3", "SW1", {Et(1)})
  BY NodeOf DEF Places, Behind, Cabled, Elements, Lab02Topology, Link, Et, Eth, Fa
<1>2. Places(Lab02Topology, "SW3", "KALI", {Et(2)})
  BY NodeOf DEF Places, Behind, Cabled, Elements, Lab02Topology, Link, Et, Eth, Fa
<1>3. Places(Lab02Topology, "SW3", "SW2", {Et(3)})
  BY NodeOf DEF Places, Behind, Cabled, Elements, Lab02Topology, Link, Et, Eth, Fa
<1> QED BY <1>1, <1>2, <1>3

LEMMA Places03 ==
  /\ Places(Lab03Topology, "SW1", "KALI", {Et(3)})
  /\ {n.Name : n \in {x \in Elements(Lab03Topology.Nodes) : x.NodeType \in {"vpcs", "docker"}}}
       = {"PC1", "PC2", "KALI"}
<1>1. Places(Lab03Topology, "SW1", "KALI", {Et(3)})
  BY NodeOf DEF Places, Behind, Cabled, Elements, Lab03Topology, Link, Et, Eth
<1>2. {x \in Elements(Lab03Topology.Nodes) : x.NodeType \in {"vpcs", "docker"}}
        = {PC("PC1"), PC("PC2"), Kali("KALI", 2)}
  BY DEF Elements, Lab03Topology, Switch, PC, Kali, Node
<1>3. {n.Name : n \in {PC("PC1"), PC("PC2"), Kali("KALI", 2)}} = {"PC1", "PC2", "KALI"}
  BY DEF PC, Kali, Node
<1> QED BY <1>1, <1>2, <1>3

LEMMA Places08 ==
  /\ Places(Lab08Topology, "SW1", "R1", {Et(0)}) /\ Places(Lab08Topology, "SW1", "PC1", {Et(1)})
  /\ Places(Lab08Topology, "SW1", "KALI", {Et(3)})
BY NodeOf DEF Places, Behind, Cabled, Elements, Lab08Topology, Link, Et, Eth, Fa

\* Lab 15: three hosts are behind the hub.
LEMMA Places15 ==
  /\ {n.Name : n \in {x \in Elements(Lab15Topology.Nodes) : x.NodeType \in {"vpcs", "docker"}}}
       = {"PC1", "PC2", "PC3", "KALI", "KALI2"}
  /\ \A n \in {"PC1", "PC2", "KALI2", "H1"} : Places(Lab15Topology, "SW1", n, {Et(0)})
  /\ Places(Lab15Topology, "SW1", "PC3", {Et(1)}) /\ Places(Lab15Topology, "SW1", "KALI", {Et(2)})
  /\ Places(Lab15Topology, "SW1", "R1", {Et(3)})
<1> DEFINE links == Elements(Lab15Topology.Links)
<1>1. {x \in Elements(Lab15Topology.Nodes) : x.NodeType \in {"vpcs", "docker"}}
        = {PC("PC1"), PC("PC2"), PC("PC3"), Kali("KALI", 1), Kali("KALI2", 1)}
  BY DEF Elements, Lab15Topology, PC, Kali, HubNode, SwitchWith, Appliance, Node
<1>2. {n.Name : n \in {PC("PC1"), PC("PC2"), PC("PC3"), Kali("KALI", 1), Kali("KALI2", 1)}}
        = {"PC1", "PC2", "PC3", "KALI", "KALI2"}
  BY DEF PC, Kali, Node
<1>3. {"H1", "R1", "PC1", "PC2", "PC3", "KALI", "KALI2"}
        \subseteq {x.Name : x \in Elements(Lab15Topology.Nodes)}
  BY DEF Elements, Lab15Topology, PC, Kali, HubNode, SwitchWith, Appliance, Node
<1>4. Cabled(links, "SW1", "H1") = {Et(0)} /\ Cabled(links, "H1", "H1") = {}
  BY DEF Cabled, Elements, Lab15Topology, Link
<1>5. /\ Cabled(links, "PC1", "H1") = {Eth(0)} /\ Cabled(links, "SW1", "PC1") = {}
      /\ Cabled(links, "PC2", "H1") = {Eth(0)} /\ Cabled(links, "SW1", "PC2") = {}
      /\ Cabled(links, "KALI2", "H1") = {Eth(0)} /\ Cabled(links, "SW1", "KALI2") = {}
  <2>1. Cabled(links, "PC1", "H1") = {Eth(0)} /\ Cabled(links, "SW1", "PC1") = {}
    BY DEF Cabled, Elements, Lab15Topology, Link
  <2>2. Cabled(links, "PC2", "H1") = {Eth(0)} /\ Cabled(links, "SW1", "PC2") = {}
    BY DEF Cabled, Elements, Lab15Topology, Link
  <2>3. Cabled(links, "KALI2", "H1") = {Eth(0)} /\ Cabled(links, "SW1", "KALI2") = {}
    BY DEF Cabled, Elements, Lab15Topology, Link
  <2> QED
    BY <2>1, <2>2, <2>3
<1>6. Cabled(links, "PC3", "H1") = {} /\ Cabled(links, "SW1", "PC3") = {Et(1)}
  BY DEF Cabled, Elements, Lab15Topology, Link
<1>7. Cabled(links, "KALI", "H1") = {} /\ Cabled(links, "SW1", "KALI") = {Et(2)}
  BY DEF Cabled, Elements, Lab15Topology, Link
<1>8. Cabled(links, "R1", "H1") = {} /\ Cabled(links, "SW1", "R1") = {Et(3)}
  BY DEF Cabled, Elements, Lab15Topology, Link
<1> HIDE DEF links
<1>9. Behind(links, "SW1", "H1") = {Et(0)}
  BY <1>4 DEF Behind
<1>10. /\ Behind(links, "SW1", "PC1") = {Et(0)} /\ Behind(links, "SW1", "PC2") = {Et(0)}
       /\ Behind(links, "SW1", "KALI2") = {Et(0)}
  BY <1>4, <1>5 DEF Behind
<1>11. /\ Behind(links, "SW1", "PC3") = {Et(1)} /\ Behind(links, "SW1", "KALI") = {Et(2)}
       /\ Behind(links, "SW1", "R1") = {Et(3)}
  BY <1>6, <1>7, <1>8 DEF Behind
<1> QED BY <1>1, <1>2, <1>3, <1>9, <1>10, <1>11 DEF Places, links

LEMMA Places16 ==
  /\ Places(Lab16Topology, "SW1", "PC1", {Et(0)}) /\ Places(Lab16Topology, "SW1", "SW2", {Et(2)})
BY NodeOf DEF Places, Behind, Cabled, Elements, Lab16Topology, Link, Et, Eth, Fa

LEMMA Places47 ==
  /\ Places(Lab47Topology, "SW1", "R2", {Et(0)}) /\ Places(Lab47Topology, "SW1", "PC1", {Et(1)})
  /\ Places(Lab47Topology, "SW1", "PC2", {Et(2)})
  /\ Places(Lab47Topology, "R1", "KALI", {Fa(0, 0)}) /\ Places(Lab47Topology, "R1", "FW", {Fa(0, 1)})
<1> DEFINE links == Elements(Lab47Topology.Links)
<1>1. {"R2", "PC1", "PC2", "KALI", "FW"} \subseteq {x.Name : x \in Elements(Lab47Topology.Nodes)}
  BY DEF Elements, Lab47Topology, Router, ApplianceWith, Router7200, SwitchWith, PC, Kali, Node
<1>2. /\ Cabled(links, "R2", "H1") = {} /\ Cabled(links, "SW1", "R2") = {Et(0)}
      /\ Cabled(links, "PC1", "H1") = {} /\ Cabled(links, "SW1", "PC1") = {Et(1)}
      /\ Cabled(links, "PC2", "H1") = {} /\ Cabled(links, "SW1", "PC2") = {Et(2)}
  <2>1. Cabled(links, "R2", "H1") = {} /\ Cabled(links, "SW1", "R2") = {Et(0)}
    BY DEF Cabled, Elements, Lab47Topology, Link
  <2>2. Cabled(links, "PC1", "H1") = {} /\ Cabled(links, "SW1", "PC1") = {Et(1)}
    BY DEF Cabled, Elements, Lab47Topology, Link
  <2>3. Cabled(links, "PC2", "H1") = {} /\ Cabled(links, "SW1", "PC2") = {Et(2)}
    BY DEF Cabled, Elements, Lab47Topology, Link
  <2> QED
    BY <2>1, <2>2, <2>3
<1>3. /\ Cabled(links, "KALI", "H1") = {} /\ Cabled(links, "R1", "KALI") = {Fa(0, 0)}
      /\ Cabled(links, "FW", "H1") = {} /\ Cabled(links, "R1", "FW") = {Fa(0, 1)}
  BY DEF Cabled, Elements, Lab47Topology, Link
<1> HIDE DEF links
<1>4. /\ Behind(links, "SW1", "R2") = {Et(0)} /\ Behind(links, "SW1", "PC1") = {Et(1)}
      /\ Behind(links, "SW1", "PC2") = {Et(2)}
      /\ Behind(links, "R1", "KALI") = {Fa(0, 0)} /\ Behind(links, "R1", "FW") = {Fa(0, 1)}
  BY <1>2, <1>3 DEF Behind
<1> QED BY <1>1, <1>4 DEF Places, links

(***************************************************************************)
(* The labs of the catalogue are cabled as the verifiers main registers    *)
(* expect (labNN_topology.go, labNN_verify.go): each port an assertion     *)
(* names leads to the node its phase is about.                             *)
(***************************************************************************)
THEOREM CatalogueWired == Template = LiveLabs => Wired
<1> SUFFICES ASSUME Template = LiveLabs PROVE Wired
  OBVIOUS
<1>1. /\ Template[1] = Lab01Topology /\ Template[2] = Lab02Topology
      /\ Template[3] = Lab03Topology /\ Template[8] = Lab08Topology
      /\ Template[15] = Lab15Topology /\ Template[16] = Lab16Topology
      /\ Template[47] = Lab47Topology
  BY DEF LiveLabs
<1>2. \A lab, d, n, ports : Leads(lab, d, n, ports) <=> Places(Template[lab], d, n, ports)
  BY DEF Leads, Places, NodeNames
<1>3. \A lab : HostNames(lab) = {n.Name : n \in {x \in Elements(Template[lab].Nodes) :
                                                    x.NodeType \in {"vpcs", "docker"}}}
  BY DEF HostNames, Named
<1>4. Wired01 /\ Wired02 /\ Wired08
  BY <1>1, <1>2, Places01, Places02, Places08 DEF Wired01, Wired02, Wired08
<1>5. Wired03
  <2>1. IsFiniteSet(HostNames(3)) /\ Cardinality(HostNames(3)) < 100
    <3>1. HostNames(3) = ({"PC1"} \cup {"PC2"}) \cup {"KALI"}
      BY <1>1, <1>3, Places03
    <3>2. IsFiniteSet({"PC1"}) /\ Cardinality({"PC1"}) = 1
      BY FS_Singleton
    <3>3. /\ IsFiniteSet({"PC1"} \cup {"PC2"})
          /\ Cardinality({"PC1"} \cup {"PC2"}) \in 1..2
      BY <3>2, FS_AddElement
    <3>4. /\ IsFiniteSet(({"PC1"} \cup {"PC2"}) \cup {"KALI"})
          /\ Cardinality(({"PC1"} \cup {"PC2"}) \cup {"KALI"}) \in 1..3
      BY <3>3, FS_AddElement
    <3> QED BY <3>1, <3>4
  <2> QED BY <1>1, <1>2, <2>1, Places03 DEF Wired03
<1>6. Wired15
  BY <1>1, <1>2, <1>3, Places15 DEF Wired15
<1>7. Wired16 /\ Wired47
  BY <1>1, <1>2, Places16, Places47 DEF Wired16, Wired47
<1> QED BY <1>4, <1>5, <1>6, <1>7 DEF Wired

-----------------------------------------------------------------------------
(***************************************************************************)
(* The registry: what Lookup returns for each phase.                       *)
(***************************************************************************)
\* The three phases of a lab, registered one after the other.
PhasesOf(lab) == {<<lab, "build">>, <<lab, "attack">>, <<lab, "harden">>}
Filled(reg, r, lab, built, attacked, hardened) ==
  /\ DOMAIN r = DOMAIN reg \cup PhasesOf(lab)
  /\ r[<<lab, "build">>] = built
  /\ r[<<lab, "attack">>] = attacked
  /\ r[<<lab, "harden">>] = hardened
  /\ \A k \in DOMAIN reg : k \notin PhasesOf(lab) => r[k] = reg[k]

LEMMA RegisterThree ==
  ASSUME NEW reg, NEW lab, NEW d1, NEW c1, NEW d2, NEW c2, NEW d3, NEW c3
  PROVE  Filled(reg, Register(Register(Register(reg, lab, "build", d1, c1), lab, "attack", d2, c2),
                              lab, "harden", d3, c3),
                lab, Entry(d1, c1), Entry(d2, c2), Entry(d3, c3))
<1> DEFINE r1 == Register(reg, lab, "build", d1, c1)
           r2 == Register(r1, lab, "attack", d2, c2)
           r3 == Register(r2, lab, "harden", d3, c3)
<1>1. /\ DOMAIN r1 = DOMAIN reg \cup {<<lab, "build">>}
      /\ r1[<<lab, "build">>] = Entry(d1, c1)
      /\ \A k \in DOMAIN reg : k # <<lab, "build">> => r1[k] = reg[k]
  BY DEF Register
<1> HIDE DEF r1
<1>2. /\ DOMAIN r2 = DOMAIN r1 \cup {<<lab, "attack">>}
      /\ r2[<<lab, "attack">>] = Entry(d2, c2)
      /\ \A k \in DOMAIN r1 : k # <<lab, "attack">> => r2[k] = r1[k]
  BY DEF Register
<1> HIDE DEF r2
<1>3. /\ DOMAIN r3 = DOMAIN r2 \cup {<<lab, "harden">>}
      /\ r3[<<lab, "harden">>] = Entry(d3, c3)
      /\ \A k \in DOMAIN r2 : k # <<lab, "harden">> => r3[k] = r2[k]
  BY DEF Register
<1> HIDE DEF r3
<1>4. Filled(reg, r3, lab, Entry(d1, c1), Entry(d2, c2), Entry(d3, c3))
  BY <1>1, <1>2, <1>3 DEF Filled, PhasesOf
<1> QED BY <1>4 DEF r1, r2, r3

LEMMA FilledEach ==
  ASSUME NEW reg
  PROVE  /\ Filled(reg, RegisterLab02Verifiers(reg), 2, Entry("SW1", Lab02BuildVerifier),
                   Entry("SW3", Lab02AttackVerifier), Entry("SW3", Lab02HardenVerifier))
         /\ Filled(reg, RegisterLab03Verifiers(reg), 3, Entry("SW1", Lab03BuildVerifier),
                   Entry("SW1", Lab03AttackVerifier), Entry("SW1", Lab03HardenVerifier))
         /\ Filled(reg, RegisterLab8Verifiers(reg), 8, Entry("SW1", Lab8BuildVerifier),
                   Entry("SW1", Lab8AttackVerifier), Entry("SW1", Lab8HardenVerifier))
         /\ Filled(reg, RegisterLab15Verifiers(reg), 15, Entry("SW1", Lab15BuildVerifier),
                   Entry("SW1", Lab15AttackVerifier), Entry("SW1", Lab15HardenVerifier))
         /\ Filled(reg, RegisterLab16Verifiers(reg), 16, Entry("SW1", Lab16BuildVerifier),
                   Entry("SW1", Lab16AttackVerifier), Entry("SW1", Lab16HardenVerifier))
         /\ Filled(reg, RegisterLab47Verifiers(reg), 47, Entry("SW1", Lab47BuildVerifier),
                   Entry("R1", Lab47AttackVerifier), Entry("R1", Lab47HardenVerifier))
BY RegisterThree, Zenon
   DEF RegisterLab02Verifiers, RegisterLab03Verifiers, RegisterLab8Verifiers,
       RegisterLab15Verifiers, RegisterLab16Verifiers, RegisterLab47Verifiers

Labs == {2, 3, 8, 15, 16, 47}

LEMMA RegistryContents ==
  /\ DOMAIN verifyReg = {<<1, "build">>} \cup UNION {PhasesOf(lab) : lab \in Labs}
  /\ verifyReg[<<1, "build">>] = Entry("SW1", Lab1BuildVerifier)
  /\ verifyReg[<<2, "build">>] = Entry("SW1", Lab02BuildVerifier)
  /\ verifyReg[<<2, "attack">>] = Entry("SW3", Lab02AttackVerifier)
  /\ verifyReg[<<2, "harden">>] = Entry("SW3", Lab02HardenVerifier)
  /\ verifyReg[<<3, "build">>] = Entry("SW1", Lab03BuildVerifier)
  /\ verifyReg[<<3, "attack">>] = Entry("SW1", Lab03AttackVerifier)
  /\ verifyReg[<<3, "harden">>] = Entry("SW1", Lab03HardenVerifier)
  /\ verifyReg[<<8, "build">>] = Entry("SW1", Lab8BuildVerifier)
  /\ verifyReg[<<8, "attack">>] = Entry("SW1", Lab8AttackVerifier)
  /\ verifyReg[<<8, "harden">>] = Entry("SW1", Lab8HardenVerifier)
  /\ verifyReg[<<15, "build">>] = Entry("SW1", Lab15BuildVerifier)
  /\ verifyReg[<<15, "attack">>] = Entry("SW1", Lab15AttackVerifier)
  /\ verifyReg[<<15, "harden">>] = Entry("SW1", Lab15HardenVerifier)
  /\ verifyReg[<<16, "build">>] = Entry("SW1", Lab16BuildVerifier)
  /\ verifyReg[<<16, "attack">>] = Entry("SW1", Lab16AttackVerifier)
  /\ verifyReg[<<16, "harden">>] = Entry("SW1", Lab16HardenVerifier)
  /\ verifyReg[<<47, "build">>] = Entry("SW1", Lab47BuildVerifier)
  /\ verifyReg[<<47, "attack">>] = Entry("R1", Lab47AttackVerifier)
  /\ verifyReg[<<47, "harden">>] = Entry("R1", Lab47HardenVerifier)
<1> DEFINE with1  == RegisterLab1Verifiers(NewVerifierRegistry)
           with8  == RegisterLab8Verifiers(with1)
           with15 == RegisterLab15Verifiers(with8)
           with16 == RegisterLab16Verifiers(with15)
           with02 == RegisterLab02Verifiers(with16)
           with03 == RegisterLab03Verifiers(with02)
           with47 == RegisterLab47Verifiers(with03)
<1>1. verifyReg = with47
  BY Zenon DEF verifyReg
<1>2. DOMAIN with1 = {<<1, "build">>} /\ with1[<<1, "build">>] = Entry("SW1", Lab1BuildVerifier)
  BY DEF RegisterLab1Verifiers, NewVerifierRegistry, Register
<1>3. /\ Filled(with1, with8, 8, Entry("SW1", Lab8BuildVerifier),
                Entry("SW1", Lab8AttackVerifier), Entry("SW1", Lab8HardenVerifier))
      /\ Filled(with8, with15, 15, Entry("SW1", Lab15BuildVerifier),
                Entry("SW1", Lab15AttackVerifier), Entry("SW1", Lab15HardenVerifier))
      /\ Filled(with15, with16, 16, Entry("SW1", Lab16BuildVerifier),
                Entry("SW1", Lab16AttackVerifier), Entry("SW1", Lab16HardenVerifier))
      /\ Filled(with16, with02, 2, Entry("SW1", Lab02BuildVerifier),
                Entry("SW3", Lab02AttackVerifier), Entry("SW3", Lab02HardenVerifier))
      /\ Filled(with02, with03, 3, Entry("SW1", Lab03BuildVerifier),
                Entry("SW1", Lab03AttackVerifier), Entry("SW1", Lab03HardenVerifier))
      /\ Filled(with03, with47, 47, Entry("SW1", Lab47BuildVerifier),
                Entry("R1", Lab47AttackVerifier), Entry("R1", Lab47HardenVerifier))
  BY FilledEach, Zenon
<1> HIDE DEF with1, with8, with15, with16, with02, with03, with47
<1>4. DOMAIN with47 = {<<1, "build">>} \cup UNION {PhasesOf(lab) : lab \in Labs}
  BY <1>2, <1>3 DEF Filled, Labs
<1>5. /\ with8[<<1, "build">>] = Entry("SW1", Lab1BuildVerifier)
      /\ with15[<<1, "build">>] = Entry("SW1", Lab1BuildVerifier)
      /\ with16[<<1, "build">>] = Entry("SW1", Lab1BuildVerifier)
      /\ with02[<<1, "build">>] = Entry("SW1", Lab1BuildVerifier)
      /\ with03[<<1, "build">>] = Entry("SW1", Lab1BuildVerifier)
      /\ with47[<<1, "build">>] = Entry("SW1", Lab1BuildVerifier)
  BY <1>2, <1>3 DEF Filled, PhasesOf
<1>6. \A k \in PhasesOf(8) : with15[k] = with8[k] /\ with16[k] = with8[k] /\ with02[k] = with8[k]
                              /\ with03[k] = with8[k] /\ with47[k] = with8[k]
  BY <1>3 DEF Filled, PhasesOf
<1>7. \A k \in PhasesOf(15) : with16[k] = with15[k] /\ with02[k] = with15[k]
                               /\ with03[k] = with15[k] /\ with47[k] = with15[k]
  BY <1>3 DEF Filled, PhasesOf
<1>8. \A k \in PhasesOf(16) : with02[k] = with16[k] /\ with03[k] = with16[k]
                               /\ with47[k] = with16[k]
  BY <1>3 DEF Filled, PhasesOf
<1>9. \A k \in PhasesOf(2) : with03[k] = with02[k] /\ with47[k] = with02[k]
  BY <1>3 DEF Filled, PhasesOf
<1>10. \A k \in PhasesOf(3) : with47[k] = with03[k]
  BY <1>3 DEF Filled, PhasesOf
<1> QED BY <1>1, <1>3, <1>4, <1>5, <1>6, <1>7, <1>8, <1>9, <1>10 DEF Filled, PhasesOf

-----------------------------------------------------------------------------
(***************************************************************************)
(* The parts of the inductive invariant.                                   *)
(***************************************************************************)
\* What Init reads from the registry and the topology does not change.
SessionFits ==
  /\ work \in Works
  /\ verifier = Lookup(work)
  /\ behind = [n \in NodeNames(work[1]) |->
                 Behind(Elements(Template[work[1]].Links), Target, n)]
  /\ hosts = HostNames(work[1])
  /\ known \subseteq hosts

PortState ==
  [shut : BOOLEAN, err : BOOLEAN, vlan : {1, 10, 20, 99}, described : BOOLEAN,
   secured : BOOLEAN, violated : BOOLEAN, guarded : BOOLEAN]

\* The device has its ports; no port is shut and err-disabled at once.
PortsFit ==
  /\ DOMAIN port = IF Registered THEN PortsOf(Target) ELSE {}
  /\ \A p \in DOMAIN port : port[p] \in PortState /\ ~(port[p].shut /\ port[p].err)

NetworkFits ==
  /\ {recovery, flooded, open, attacking, untouched} \subseteq BOOLEAN
  /\ DOMAIN cam \subseteq hosts /\ up \subseteq Pinged
  /\ elected \in Switches \cup {None} /\ tasks \subseteq Unread

\* The injection meets no err-disabled port: Kali attacks after it.
Arguments == {None, 99} \cup {Et(i) : i \in 0..3}
Commands ==
  [name : {"configure terminal", "interface", "shutdown", "end", "spanning-tree portfast",
           "spanning-tree bpduguard enable"},
   arg : Arguments]
  \cup {Command("switchport access vlan", 99)}

InjectionFits ==
  /\ script \in Seq(Commands)
  /\ script # << >> => /\ work = <<15, "attack">>
                       /\ \A p \in DOMAIN port : ~port[p].err

\* A lab nobody has worked on is as it booted, but for the injection.
Pristine ==
  untouched =>
    /\ cam = << >> /\ ~flooded /\ up = {} /\ ~open /\ ~attacking
    /\ work # <<15, "attack">> => \A p \in DOMAIN port : port[p] = FreshPort

IInv == SessionFits /\ PortsFit /\ NetworkFits /\ InjectionFits /\ Pristine

-----------------------------------------------------------------------------
(***************************************************************************)
(* The session: the verifier of each phase, and where the nodes are.       *)
(***************************************************************************)
LEMMA Served ==
  ASSUME Registry = verifyReg, SessionFits
  PROVE  /\ Registered <=> work \in DOMAIN verifyReg
         /\ ~Registered => Checks = << >>
         /\ work = <<1, "build">>   => Target = "SW1" /\ Checks = Lab1BuildVerifier
         /\ work = <<2, "build">>   => Target = "SW1" /\ Checks = Lab02BuildVerifier
         /\ work = <<2, "attack">>  => Target = "SW3" /\ Checks = Lab02AttackVerifier
         /\ work = <<2, "harden">>  => Target = "SW3" /\ Checks = Lab02HardenVerifier
         /\ work = <<3, "build">>   => Target = "SW1" /\ Checks = Lab03BuildVerifier
         /\ work = <<3, "attack">>  => Target = "SW1" /\ Checks = Lab03AttackVerifier
         /\ work = <<3, "harden">>  => Target = "SW1" /\ Checks = Lab03HardenVerifier
         /\ work = <<8, "build">>   => Target = "SW1" /\ Checks = Lab8BuildVerifier
         /\ work = <<8, "attack">>  => Target = "SW1" /\ Checks = Lab8AttackVerifier
         /\ work = <<8, "harden">>  => Target = "SW1" /\ Checks = Lab8HardenVerifier
         /\ work = <<15, "build">>  => Target = "SW1" /\ Checks = Lab15BuildVerifier
         /\ work = <<15, "attack">> => Target = "SW1" /\ Checks = Lab15AttackVerifier
         /\ work = <<15, "harden">> => Target = "SW1" /\ Checks = Lab15HardenVerifier
         /\ work = <<16, "build">>  => Target = "SW1" /\ Checks = Lab16BuildVerifier
         /\ work = <<16, "attack">> => Target = "SW1" /\ Checks = Lab16AttackVerifier
         /\ work = <<16, "harden">> => Target = "SW1" /\ Checks = Lab16HardenVerifier
         /\ work = <<47, "build">>  => Target = "SW1" /\ Checks = Lab47BuildVerifier
         /\ work = <<47, "attack">> => Target = "R1" /\ Checks = Lab47AttackVerifier
         /\ work = <<47, "harden">> => Target = "R1" /\ Checks = Lab47HardenVerifier
<1>1. Registered <=> work \in DOMAIN verifyReg
  BY NoneAssumption DEF SessionFits, Lookup, Registered, Entry
<1>2. ~Registered => Checks = << >>
  BY NoneAssumption DEF SessionFits, Lookup, Registered, Entry, Checks
<1>3. ASSUME NEW w \in DOMAIN verifyReg, NEW d, NEW cs, verifyReg[w] = Entry(d, cs)
      PROVE  work = w => Target = d /\ Checks = cs
  BY <1>3 DEF SessionFits, Lookup, Target, Checks, Entry
<1>4. <<1, "build">> \in DOMAIN verifyReg
  BY RegistryContents
<1>5. ASSUME NEW lab \in Labs
      PROVE  /\ <<lab, "build">> \in DOMAIN verifyReg /\ <<lab, "attack">> \in DOMAIN verifyReg
             /\ <<lab, "harden">> \in DOMAIN verifyReg
  BY RegistryContents DEF PhasesOf
<1>6. {2, 3, 8, 15, 16, 47} \subseteq Labs
  BY DEF Labs
<1>7. /\ work = <<1, "build">>   => Target = "SW1" /\ Checks = Lab1BuildVerifier
      /\ work = <<2, "build">>   => Target = "SW1" /\ Checks = Lab02BuildVerifier
      /\ work = <<2, "attack">>  => Target = "SW3" /\ Checks = Lab02AttackVerifier
      /\ work = <<2, "harden">>  => Target = "SW3" /\ Checks = Lab02HardenVerifier
      /\ work = <<3, "build">>   => Target = "SW1" /\ Checks = Lab03BuildVerifier
      /\ work = <<3, "attack">>  => Target = "SW1" /\ Checks = Lab03AttackVerifier
      /\ work = <<3, "harden">>  => Target = "SW1" /\ Checks = Lab03HardenVerifier
  BY <1>3, <1>4, <1>5, <1>6, RegistryContents
<1>8. /\ work = <<8, "build">>   => Target = "SW1" /\ Checks = Lab8BuildVerifier
      /\ work = <<8, "attack">>  => Target = "SW1" /\ Checks = Lab8AttackVerifier
      /\ work = <<8, "harden">>  => Target = "SW1" /\ Checks = Lab8HardenVerifier
      /\ work = <<15, "build">>  => Target = "SW1" /\ Checks = Lab15BuildVerifier
      /\ work = <<15, "attack">> => Target = "SW1" /\ Checks = Lab15AttackVerifier
      /\ work = <<15, "harden">> => Target = "SW1" /\ Checks = Lab15HardenVerifier
  BY <1>3, <1>5, <1>6, RegistryContents
<1>9. /\ work = <<16, "build">>  => Target = "SW1" /\ Checks = Lab16BuildVerifier
      /\ work = <<16, "attack">> => Target = "SW1" /\ Checks = Lab16AttackVerifier
      /\ work = <<16, "harden">> => Target = "SW1" /\ Checks = Lab16HardenVerifier
      /\ work = <<47, "build">>  => Target = "SW1" /\ Checks = Lab47BuildVerifier
      /\ work = <<47, "attack">> => Target = "R1" /\ Checks = Lab47AttackVerifier
      /\ work = <<47, "harden">> => Target = "R1" /\ Checks = Lab47HardenVerifier
  BY <1>3, <1>5, <1>6, RegistryContents
<1> QED BY <1>1, <1>2, <1>7, <1>8, <1>9

LEMMA PortsToLed ==
  ASSUME SessionFits, NEW n, NEW ports, Leads(work[1], Target, n, ports)
  PROVE  PortsTo(n) = ports
BY DEF SessionFits, Leads, PortsTo

(***************************************************************************)
(* The assertions: what each asks of the port, the table, or the host.     *)
(***************************************************************************)
LEMMA PortAssertions ==
  ASSUME PortsFit, NEW p \in DOMAIN port, NEW lost
  PROVE  /\ Holds(ExpectInterfaceUp(p), lost) <=> Forwards(p)
         /\ Holds(ExpectInterfaceDown(p), lost) <=> port[p].shut
         /\ Holds(ExpectPortSecurityViolations(p), lost) <=> port[p].violated
<1> USE DEF PortsFit, PortState
<1>1. Holds(ExpectInterfaceUp(p), lost) <=> Forwards(p)
  BY DEF Holds, ExpectInterfaceUp, IsUp, Interface, Forwards
<1>2. Holds(ExpectInterfaceDown(p), lost) <=> port[p].shut
  BY DEF Holds, ExpectInterfaceDown, IsDown, Interface
<1>3. Holds(ExpectPortSecurityViolations(p), lost) <=> port[p].violated
  BY DEF Holds, ExpectPortSecurityViolations
<1> QED BY <1>1, <1>2, <1>3

LEMMA VLANAssertion ==
  ASSUME NEW p \in DOMAIN port, NEW v, NEW lost
  PROVE  Holds(ExpectPortVLAN(p, v), lost) <=> port[p].vlan = v
BY DEF Holds, ExpectPortVLAN, VLANFor

LEMMA HostAssertions ==
  ASSUME NEW h, NEW lost \in 0..1
  PROVE  /\ Holds(ExpectReachable(h), lost) <=> GetsThrough(h)
         /\ Holds(ExpectNotReachable(h), lost) <=> ~GetsThrough(h)
<1>1. Reachable(h, lost) <=> GetsThrough(h)
  <2>1. CASE GetsThrough(h) /\ lost = 0
    BY <2>1 DEF Reachable, Replies, pingPasses
  <2>2. CASE GetsThrough(h) /\ lost = 1
    BY <2>2 DEF Reachable, Replies, pingPasses
  <2>3. CASE ~GetsThrough(h)
    BY <2>3 DEF Reachable, Replies, pingPasses
  <2> QED BY <2>1, <2>2, <2>3
<1>2. Holds(ExpectReachable(h), lost) <=> Reachable(h, lost)
  BY DEF Holds, ExpectReachable
<1>3. Holds(ExpectNotReachable(h), lost) <=> ~Reachable(h, lost)
  BY DEF Holds, ExpectNotReachable
<1> QED BY <1>1, <1>2, <1>3

LEMMA TableAssertions ==
  ASSUME NEW lost
  PROVE  /\ \A hs, p : Holds(ExpectMACsShareOnePort(hs, p), lost) <=> \A h \in hs : PortFor(h) = p
         /\ \A h, p : Holds(ExpectMACOnPort(h, p), lost) <=> PortFor(h) = p
         /\ \A n : Holds(ExpectMACCount(n), lost) <=> MACCount >= n
         /\ \A d : Holds(ExpectRootBridge(d), lost) <=> Root = Target
         /\ \A d, p, role : Holds(ExpectPortRole(d, p, role), lost) <=>
                              p \in DOMAIN port /\ Forwards(p) /\ Role(Root, p) = role
<1>1. ASSUME NEW hs, NEW p
      PROVE  Holds(ExpectMACsShareOnePort(hs, p), lost) <=> \A h \in hs : PortFor(h) = p
  BY DEF Holds, ExpectMACsShareOnePort
<1>2. ASSUME NEW h, NEW p PROVE Holds(ExpectMACOnPort(h, p), lost) <=> PortFor(h) = p
  BY DEF Holds, ExpectMACOnPort
<1>3. ASSUME NEW n PROVE Holds(ExpectMACCount(n), lost) <=> MACCount >= n
  BY DEF Holds, ExpectMACCount
<1>4. ASSUME NEW d PROVE Holds(ExpectRootBridge(d), lost) <=> Root = Target
  BY DEF Holds, ExpectRootBridge, STPTable
<1>5. ASSUME NEW d, NEW p, NEW role
      PROVE  Holds(ExpectPortRole(d, p, role), lost) <=>
               p \in DOMAIN port /\ Forwards(p) /\ Role(Root, p) = role
  BY DEF Holds, ExpectPortRole, STPTable
<1> QED BY <1>1, <1>2, <1>3, <1>4, <1>5

LEMMA ElementsOf ==
  /\ \A a : Elements(<<a>>) = {a}
  /\ \A a, b : Elements(<<a, b>>) = {a, b}
  /\ \A a, b, c : Elements(<<a, b, c>>) = {a, b, c}
  /\ \A a, b, c, d : Elements(<<a, b, c, d>>) = {a, b, c, d}
  /\ \A a, b, c, d, e : Elements(<<a, b, c, d, e>>) = {a, b, c, d, e}
BY DEF Elements

LEMMA PortNames ==
  ASSUME PortsFit, Registered
  PROVE  /\ Target \in {"SW1", "SW3"} => DOMAIN port = {Et(0), Et(1), Et(2), Et(3)}
         /\ Target = "R1" => DOMAIN port = {Fa(0, 0), Fa(0, 1)}
<1>1. {Et(i) : i \in 0..3} = {Et(0), Et(1), Et(2), Et(3)}
  OBVIOUS
<1> QED BY <1>1 DEF PortsFit, PortsOf

-----------------------------------------------------------------------------
(***************************************************************************)
(* A phase at a time: all assertions hold exactly when what they speak of   *)
(* is there.                                                               *)
(***************************************************************************)
LEMMA JudgedByPort ==
  ASSUME Registry = verifyReg, Wired, SessionFits, PortsFit, NEW lost \in 0..1
  PROVE  /\ work = <<1, "build">> => (Run(lost) => Shown)
         /\ work = <<8, "build">> => (Run(lost) <=> Shown)
         /\ work = <<8, "attack">> => (Run(lost) <=> Shown)
         /\ work = <<8, "harden">> => (Run(lost) <=> Shown)
         /\ work = <<16, "build">> => (Run(lost) <=> Shown)
         /\ work = <<16, "attack">> => (Run(lost) <=> Shown)
         /\ work = <<16, "harden">> => (Run(lost) <=> Shown)
         /\ work = <<47, "build">> => (Run(lost) <=> Shown)
         /\ work = <<47, "attack">> => (Run(lost) <=> Shown)
         /\ work = <<47, "harden">> => (Run(lost) <=> Shown)
<1> USE PortAssertions, HostAssertions, ElementsOf, PortNames
    DEF Connected, InVLAN, AllConnected, AllThrough, ShutTo
<1>1. CASE work = <<1, "build">>
  <2>1. Registered /\ Target = "SW1" /\ Checks = Lab1BuildVerifier
    BY <1>1, Served, RegistryContents
  <2>2. PortsTo("PC1") = {Et(1)} /\ PortsTo("SW2") = {Et(2)} /\ PortsTo("KALI") = {Et(3)}
    BY <1>1, <2>1, PortsToLed DEF Wired, Wired01
  <2>3. Run(lost) <=> port[Et(1)].vlan = 10 /\ port[Et(3)].vlan = 10 /\ Forwards(Et(2))
    BY <2>1, VLANAssertion DEF Run, Lab1BuildVerifier
  <2> QED BY <1>1, <2>2, <2>3 DEF Shown
<1>2. CASE work = <<8, "build">>
  <2>1. Registered /\ Checks = Lab8BuildVerifier
    BY <1>2, Served, RegistryContents DEF PhasesOf, Labs
  <2>2. Run(lost) <=> GetsThrough("R1")
    BY <2>1 DEF Run, Lab8BuildVerifier
  <2> QED BY <1>2, <2>2 DEF Shown
<1>3. CASE work = <<8, "attack">>
  <2>1. Registered /\ Target = "SW1" /\ Checks = Lab8AttackVerifier
    BY <1>3, Served, RegistryContents DEF PhasesOf, Labs
  <2>2. PortsTo("R1") = {Et(0)} /\ PortsTo("PC1") = {Et(1)} /\ PortsTo("KALI") = {Et(3)}
    BY <1>3, <2>1, PortsToLed DEF Wired, Wired08
  <2>3. Run(lost) <=> Forwards(Et(0)) /\ Forwards(Et(1)) /\ Forwards(Et(3))
    BY <2>1 DEF Run, Lab8AttackVerifier
  <2> QED BY <1>3, <2>2, <2>3 DEF Shown
<1>4. CASE work = <<8, "harden">>
  <2>1. Registered /\ Target = "SW1" /\ Checks = Lab8HardenVerifier
    BY <1>4, Served, RegistryContents DEF PhasesOf, Labs
  <2>2. PortsTo("PC1") = {Et(1)} /\ PortsTo("KALI") = {Et(3)}
    BY <1>4, <2>1, PortsToLed DEF Wired, Wired08
  <2>3. Run(lost) <=> Forwards(Et(1)) /\ Forwards(Et(3))
    BY <2>1 DEF Run, Lab8HardenVerifier
  <2> QED BY <1>4, <2>2, <2>3 DEF Shown
<1>5. CASE work = <<16, "build">>
  <2>1. Registered /\ Target = "SW1" /\ Checks = Lab16BuildVerifier
    BY <1>5, Served, RegistryContents DEF PhasesOf, Labs
  <2>2. PortsTo("SW2") = {Et(2)}
    BY <1>5, <2>1, PortsToLed DEF Wired, Wired16
  <2>3. Run(lost) <=> Forwards(Et(2))
    BY <2>1 DEF Run, Lab16BuildVerifier
  <2> QED BY <1>5, <2>2, <2>3 DEF Shown
<1>6. CASE work = <<16, "attack">>
  <2>1. Registered /\ Target = "SW1" /\ Checks = Lab16AttackVerifier
    BY <1>6, Served, RegistryContents DEF PhasesOf, Labs
  <2>2. PortsTo("PC1") = {Et(0)}
    BY <1>6, <2>1, PortsToLed DEF Wired, Wired16
  <2>3. Run(lost) <=> port[Et(0)].shut
    BY <2>1 DEF Run, Lab16AttackVerifier
  <2> QED BY <1>6, <2>2, <2>3 DEF Shown
<1>7. CASE work = <<16, "harden">>
  <2>1. Registered /\ Target = "SW1" /\ Checks = Lab16HardenVerifier
    BY <1>7, Served, RegistryContents DEF PhasesOf, Labs
  <2>2. PortsTo("PC1") = {Et(0)} /\ PortsTo("SW2") = {Et(2)}
    BY <1>7, <2>1, PortsToLed DEF Wired, Wired16
  <2>3. Run(lost) <=> Forwards(Et(2)) /\ Forwards(Et(0))
    BY <2>1 DEF Run, Lab16HardenVerifier
  <2> QED BY <1>7, <2>2, <2>3 DEF Shown
<1>8. CASE work = <<47, "build">>
  <2>1. Registered /\ Target = "SW1" /\ Checks = Lab47BuildVerifier
    BY <1>8, Served, RegistryContents DEF PhasesOf, Labs
  <2>2. PortsTo("R2") = {Et(0)} /\ PortsTo("PC1") = {Et(1)} /\ PortsTo("PC2") = {Et(2)}
    BY <1>8, <2>1, PortsToLed DEF Wired, Wired47
  <2>3. Run(lost) <=> Forwards(Et(0)) /\ port[Et(1)].vlan = 10 /\ port[Et(2)].vlan = 20
    BY <2>1, VLANAssertion DEF Run, Lab47BuildVerifier
  <2> QED BY <1>8, <2>2, <2>3 DEF Shown
<1>9. ASSUME work \in {<<47, "attack">>, <<47, "harden">>}
      PROVE  /\ Registered /\ Target = "R1"
             /\ PortsTo("KALI") = {Fa(0, 0)} /\ PortsTo("FW") = {Fa(0, 1)}
  <2>1. Registered /\ Target = "R1"
    BY <1>9, Served, RegistryContents DEF PhasesOf, Labs
  <2> QED BY <1>9, <2>1, PortsToLed DEF Wired, Wired47
<1>10. CASE work = <<47, "attack">>
  <2>1. Checks = Lab47AttackVerifier
    BY <1>10, Served
  <2>2. Run(lost) <=> /\ Forwards(Fa(0, 0)) /\ Forwards(Fa(0, 1))
                      /\ GetsThrough("R2") /\ GetsThrough("PC1") /\ GetsThrough("PC2")
    BY <1>9, <1>10, <2>1 DEF Run, Lab47AttackVerifier
  <2> QED BY <1>9, <1>10, <2>2 DEF Shown
<1>11. CASE work = <<47, "harden">>
  <2>1. Checks = Lab47HardenVerifier
    BY <1>11, Served
  <2>2. Run(lost) <=> /\ Forwards(Fa(0, 0)) /\ Forwards(Fa(0, 1))
                      /\ ~GetsThrough("PC1") /\ ~GetsThrough("PC2")
    BY <1>9, <1>11, <2>1 DEF Run, Lab47HardenVerifier
  <2> QED BY <1>9, <1>11, <2>2 DEF Shown
<1> QED BY <1>1, <1>2, <1>3, <1>4, <1>5, <1>6, <1>7, <1>8, <1>10, <1>11

\* Lab 3: more hosts than one, or a flood, by the number of addresses.
LEMMA AddressCount ==
  ASSUME IsFiniteSet(DOMAIN cam)
  PROVE  /\ MACCount >= 2 <=> flooded \/ \E g, h \in DOMAIN cam : g # h
         /\ Cardinality(DOMAIN cam) < 100 => (MACCount >= 100 <=> flooded)
<1>1. Cardinality(DOMAIN cam) \in Nat
  BY FS_CardinalityType
<1>2. (\E g, h \in DOMAIN cam : g # h) => Cardinality(DOMAIN cam) >= 2
  <2>1. SUFFICES ASSUME NEW g \in DOMAIN cam, NEW h \in DOMAIN cam, g # h
                 PROVE  Cardinality(DOMAIN cam) >= 2
    OBVIOUS
  <2>2. Cardinality(DOMAIN cam) # 0
    BY <2>1, FS_EmptySet
  <2>3. Cardinality(DOMAIN cam) # 1
    <3>1. SUFFICES ASSUME NEW x, DOMAIN cam = {x} PROVE FALSE
      BY FS_Singleton
    <3> QED BY <2>1, <3>1
  <2> QED BY <1>1, <2>2, <2>3
<1>3. Cardinality(DOMAIN cam) >= 2 => \E g, h \in DOMAIN cam : g # h
  <2>1. SUFFICES ASSUME ~ \E g, h \in DOMAIN cam : g # h PROVE Cardinality(DOMAIN cam) <= 1
    BY <1>1
  <2>2. CASE DOMAIN cam = {}
    BY <2>2, FS_EmptySet
  <2>3. CASE DOMAIN cam # {}
    <3>1. PICK x : DOMAIN cam = {x}
      BY <2>1, <2>3
    <3> QED BY <3>1, FS_Singleton
  <2> QED BY <2>2, <2>3
<1> QED BY <1>1, <1>2, <1>3 DEF MACCount, FloodSize

LEMMA JudgedByTable ==
  ASSUME Registry = verifyReg, Wired, SessionFits, PortsFit, NetworkFits, NEW lost \in 0..1
  PROVE  /\ work = <<3, "build">> => (Run(lost) <=> Shown)
         /\ work = <<3, "attack">> => (Run(lost) <=> Shown)
         /\ work = <<15, "build">> => (Run(lost) <=> Shown)
         /\ work = <<15, "attack">> => (Run(lost) <=> Shown)
<1>1. ASSUME work[1] = 3
      PROVE  IsFiniteSet(DOMAIN cam) /\ Cardinality(DOMAIN cam) < 100
  <2>1. IsFiniteSet(hosts) /\ Cardinality(hosts) < 100 /\ Cardinality(hosts) \in Nat
    BY <1>1, FS_CardinalityType DEF SessionFits, Wired, Wired03
  <2>2. /\ IsFiniteSet(DOMAIN cam) /\ Cardinality(DOMAIN cam) <= Cardinality(hosts)
        /\ Cardinality(DOMAIN cam) \in Nat
    BY <2>1, FS_Subset, FS_CardinalityType DEF NetworkFits
  <2> QED BY <2>1, <2>2
<1>2. CASE work = <<3, "build">>
  <2>1. Registered /\ Checks = Lab03BuildVerifier
    BY <1>2, Served, RegistryContents DEF PhasesOf, Labs
  <2>2. Run(lost) <=> MACCount >= 2
    BY <2>1, TableAssertions, ElementsOf DEF Run, Lab03BuildVerifier
  <2>3. Run(lost) <=> flooded \/ \E g, h \in DOMAIN cam : g # h
    BY <1>1, <1>2, <2>2, AddressCount
  <2> QED BY <1>2, <2>3 DEF Shown
<1>3. CASE work = <<3, "attack">>
  <2>1. Registered /\ Checks = Lab03AttackVerifier
    BY <1>3, Served, RegistryContents DEF PhasesOf, Labs
  <2>2. Run(lost) <=> MACCount >= 100
    BY <2>1, TableAssertions, ElementsOf DEF Run, Lab03AttackVerifier
  <2>3. Run(lost) <=> flooded
    BY <1>1, <1>3, <2>2, AddressCount
  <2> QED BY <1>3, <2>3 DEF Shown
<1>4. ASSUME work \in {<<15, "build">>, <<15, "attack">>}
      PROVE  /\ Registered /\ Target = "SW1"
             /\ hosts = {"PC1", "PC2", "PC3", "KALI", "KALI2"}
             /\ PortsTo("PC1") = {Et(0)} /\ PortsTo("PC2") = {Et(0)}
             /\ PortsTo("KALI2") = {Et(0)} /\ PortsTo("H1") = {Et(0)}
             /\ PortsTo("PC3") = {Et(1)} /\ PortsTo("KALI") = {Et(2)} /\ PortsTo("R1") = {Et(3)}
  <2>1. Registered /\ Target = "SW1"
    BY <1>4, Served, RegistryContents DEF PhasesOf, Labs
  <2>2. work[1] = 15
    BY <1>4
  <2> QED BY <2>1, <2>2, PortsToLed DEF Wired, Wired15, SessionFits
<1>5. CASE work = <<15, "build">>
  <2>1. Checks = Lab15BuildVerifier
    BY <1>5, Served
  <2>2. Run(lost) <=> /\ PortFor("PC1") = Et(0) /\ PortFor("PC2") = Et(0) /\ PortFor("KALI2") = Et(0)
                      /\ PortFor("PC3") = Et(1) /\ PortFor("KALI") = Et(2)
    BY <1>4, <1>5, <2>1, TableAssertions, ElementsOf DEF Run, Lab15BuildVerifier
  <2>3. ASSUME NEW h \in hosts, NEW i \in 0..3, PortsTo(h) = {Et(i)}
        PROVE  Located(h) <=> PortFor(h) = Et(i)
    BY <2>3, NoneAssumption DEF Located, PortFor
  <2>4. (\A h \in hosts : Located(h)) <=> Run(lost)
    BY <1>4, <1>5, <2>2, <2>3
  <2>5. Run(lost) => /\ cam["PC1"] = Et(0) /\ cam["PC2"] = Et(0) /\ cam["KALI2"] = Et(0)
                     /\ cam["PC3"] = Et(1) /\ cam["KALI"] = Et(2)
    BY <2>2, NoneAssumption DEF PortFor
  <2>6. Et(0) # Et(1) /\ Et(0) # Et(2) /\ Et(1) # Et(2)
    BY DEF Et
  <2> QED BY <1>5, <2>4, <2>5, <2>6 DEF Shown
<1>6. CASE work = <<15, "attack">>
  <2>1. Checks = Lab15AttackVerifier
    BY <1>6, Served
  <2>2. Elements(Checks) =
          {ExpectInterfaceUp(Et(0)), ExpectInterfaceUp(Et(1)), ExpectInterfaceUp(Et(2)),
           ExpectInterfaceUp(Et(3)), ExpectPortVLAN(Et(1), 1), ExpectReachable("PC1"),
           ExpectReachable("PC2"), ExpectReachable("PC3"), ExpectReachable("KALI")}
    BY <2>1 DEF Elements, Lab15AttackVerifier
  <2>3. Run(lost) <=>
          /\ Forwards(Et(0)) /\ Forwards(Et(1)) /\ Forwards(Et(2)) /\ Forwards(Et(3))
          /\ port[Et(1)].vlan = 1
          /\ AllThrough({"PC1", "PC2", "PC3", "KALI"})
    BY <1>4, <1>6, <2>2, PortAssertions, VLANAssertion, HostAssertions, PortNames
       DEF Run, AllThrough
  <2>4. GetsThrough("PC3") => port[Et(1)].vlan = 1
    BY <1>4, <1>6 DEF GetsThrough, InVLAN
  <2>5. AllConnected({"H1", "PC3", "KALI", "R1"}) <=>
          Forwards(Et(0)) /\ Forwards(Et(1)) /\ Forwards(Et(2)) /\ Forwards(Et(3))
    BY <1>4, <1>6 DEF AllConnected, Connected
  <2> QED BY <1>6, <2>3, <2>4, <2>5 DEF Shown, AllThrough
<1> QED BY <1>2, <1>3, <1>5, <1>6

(***************************************************************************)
(* Spanning tree as SW3 sees it.                                           *)
(***************************************************************************)
LEMMA Identifiers ==
  /\ Id["KALI"] = 0 /\ Id["SW1"] = 1 /\ Id["SW2"] = 2 /\ Id["SW3"] = 3
  /\ Switches \cup {"KALI"} = {"KALI", "SW1", "SW2", "SW3"}
BY DEF Id, Switches

LEMMA RootHeard ==
  ASSUME Target \in Switches
  PROVE  /\ Root = "KALI" <=> HearsKali
         /\ ~HearsKali => Root \in Heard
         /\ Heard \subseteq Switches
<1>1. Heard \subseteq Switches /\ Target \in Heard
  BY DEF Heard
<1>2. \E b \in Heard : \A c \in Heard : Id[b] <= Id[c]
  <2>1. CASE "SW1" \in Heard
    BY <1>1, <2>1, Identifiers DEF Switches
  <2>2. CASE "SW1" \notin Heard /\ "SW2" \in Heard
    BY <1>1, <2>2, Identifiers DEF Switches
  <2>3. CASE "SW1" \notin Heard /\ "SW2" \notin Heard
    BY <1>1, <2>3, Identifiers DEF Switches
  <2> QED BY <2>1, <2>2, <2>3
<1> DEFINE best == CHOOSE b \in Heard : \A c \in Heard : Id[b] <= Id[c]
<1>3. best \in Heard
  BY <1>2
<1> HIDE DEF best
<1>4. Root = IF HearsKali THEN "KALI" ELSE IF elected \in Heard THEN elected ELSE best
  BY DEF Root, best
<1> QED BY <1>1, <1>3, <1>4 DEF Switches

\* A neighbour that is nearer to the root than every other is the best uplink.
LEMMA BestUplink ==
  ASSUME NEW root, NEW b \in Uplinks(root),
         \A c \in Uplinks(root) : ~Nearer(root, c, b),
         \A c \in Uplinks(root) \ {b} : Nearer(root, b, c)
  PROVE  Best(root) = b
<1>1. \E x \in Uplinks(root) : \A c \in Uplinks(root) : ~Nearer(root, c, x)
  OBVIOUS
<1>2. Best(root) \in Uplinks(root) /\ \A c \in Uplinks(root) : ~Nearer(root, c, Best(root))
  BY <1>1 DEF Best
<1> QED BY <1>2

LEMMA JudgedBySpanningTree ==
  ASSUME Registry = verifyReg, Wired, SessionFits, PortsFit, NetworkFits, NEW lost \in 0..1
  PROVE  /\ work = <<2, "build">> => (Run(lost) <=> Shown)
         /\ work = <<2, "attack">> => (Run(lost) <=> Shown)
         /\ work = <<2, "harden">> => (Run(lost) <=> Shown)
<1>1. CASE work = <<2, "build">>
  <2>1. Registered /\ Target = "SW1" /\ Checks = Lab02BuildVerifier
    BY <1>1, Served, RegistryContents DEF PhasesOf, Labs
  <2>2. Run(lost) <=> Root = "SW1"
    BY <2>1, TableAssertions, ElementsOf DEF Run, Lab02BuildVerifier
  <2> QED BY <1>1, <2>2 DEF Shown
<1>2. ASSUME work \in {<<2, "attack">>, <<2, "harden">>}
      PROVE  /\ Registered /\ Target = "SW3"
             /\ PortsTo("SW1") = {Et(1)} /\ PortsTo("KALI") = {Et(2)} /\ PortsTo("SW2") = {Et(3)}
             /\ DOMAIN port = {Et(0), Et(1), Et(2), Et(3)}
  <2>1. Registered /\ Target = "SW3"
    BY <1>2, Served, RegistryContents DEF PhasesOf, Labs
  <2> QED BY <1>2, <2>1, PortsToLed, PortNames DEF Wired, Wired02
<1>3. ASSUME work \in {<<2, "attack">>, <<2, "harden">>}
      PROVE  /\ Root \in {"KALI", "SW1", "SW2", "SW3"}
             /\ Root = "KALI" => Forwards(Et(2))
             /\ Connected("SW1") <=> Forwards(Et(1))
             /\ Connected("KALI") <=> Forwards(Et(2))
             /\ Connected("SW2") <=> Forwards(Et(3))
  BY <1>2, <1>3, RootHeard, Identifiers DEF NetworkFits, HearsKali, Connected, Switches
<1>4. Et(1) # Et(2) /\ Et(1) # Et(3) /\ Et(2) # Et(3)
  BY DEF Et
<1>5. CASE work = <<2, "attack">>
  <2>1. Checks = Lab02AttackVerifier
    BY <1>5, Served
  <2>2. Run(lost) <=> Forwards(Et(2)) /\ Role(Root, Et(2)) = "Root"
    BY <1>2, <1>5, <2>1, TableAssertions, ElementsOf DEF Run, Lab02AttackVerifier
  <2>3. ASSUME Root = "KALI" PROVE Role(Root, Et(2)) = "Root"
    <3>1. "KALI" \in Uplinks(Root)
      BY <1>2, <1>3, <1>5, <2>3 DEF Uplinks
    <3>2. \A c \in Uplinks(Root) \ {"KALI"} : Nearer(Root, "KALI", c) /\ ~Nearer(Root, c, "KALI")
      BY <2>3 DEF Nearer, Hops
    <3>3. ~Nearer(Root, "KALI", "KALI")
      BY Identifiers DEF Nearer, Hops
    <3>4. Best(Root) = "KALI"
      BY <3>1, <3>2, <3>3, BestUplink
    <3> QED BY <1>2, <1>5, <2>3, <3>1, <3>4 DEF Role, Facing
  <2>4. ASSUME Forwards(Et(2)), Role(Root, Et(2)) = "Root" PROVE Root = "KALI"
    <3>1. PICK b : b \in Facing(Root, Et(2))
      BY <2>4 DEF Role
    <3>2. b \in (Switches \cup {Root}) \ {"SW3"} /\ Et(2) \in PortsTo(b)
      BY <1>2, <1>5, <3>1 DEF Facing, Uplinks
    <3> QED BY <1>2, <1>3, <1>4, <1>5, <3>2 DEF Switches
  <2> QED BY <1>3, <1>5, <2>2, <2>3, <2>4 DEF Shown
<1>6. CASE work = <<2, "harden">>
  <2>1. Checks = Lab02HardenVerifier
    BY <1>6, Served
  <2>2. Run(lost) <=> Forwards(Et(3)) /\ Role(Root, Et(3)) = "Altn"
    BY <1>2, <1>6, <2>1, TableAssertions, ElementsOf DEF Run, Lab02HardenVerifier
  <2>3. Facing(Root, Et(3)) = {b \in Uplinks(Root) : b = "SW2"}
    BY <1>2, <1>3, <1>4, <1>6 DEF Facing, Uplinks, Switches
  <2>4. "SW2" \in Uplinks(Root) <=> Forwards(Et(3))
    BY <1>2, <1>3, <1>6 DEF Uplinks, Switches
  <2>5. ASSUME Forwards(Et(3)), Root # "SW3"
        PROVE  Role(Root, Et(3)) = IF Best(Root) = "SW2" THEN "Root"
                                   ELSE IF "SW2" \in Before(Root) THEN "Altn" ELSE "Desg"
    BY <1>2, <1>6, <2>3, <2>4, <2>5 DEF Role
  <2>6. ASSUME Forwards(Et(3)), Root = "KALI" PROVE Role(Root, Et(3)) = "Desg"
    <3>1. "KALI" \in Uplinks(Root)
      BY <1>2, <1>3, <1>6, <2>6 DEF Uplinks
    <3>2. \A c \in Uplinks(Root) \ {"KALI"} : Nearer(Root, "KALI", c) /\ ~Nearer(Root, c, "KALI")
      BY <2>6 DEF Nearer, Hops
    <3>3. ~Nearer(Root, "KALI", "KALI")
      BY Identifiers DEF Nearer, Hops
    <3>4. Best(Root) = "KALI"
      BY <3>1, <3>2, <3>3, BestUplink
    <3>5. "SW2" \notin Before(Root)
      BY <2>6, <3>4 DEF Before, Hops
    <3> QED BY <2>5, <2>6, <3>4, <3>5
  <2>7. ASSUME Forwards(Et(3)), Root = "SW2" PROVE Role(Root, Et(3)) = "Root"
    <3>1. "SW2" \in Uplinks(Root)
      BY <2>4, <2>7
    <3>2. \A c \in Uplinks(Root) \ {"SW2"} : Nearer(Root, "SW2", c) /\ ~Nearer(Root, c, "SW2")
      BY <2>7 DEF Nearer, Hops
    <3>3. ~Nearer(Root, "SW2", "SW2")
      BY Identifiers DEF Nearer, Hops
    <3>4. Best(Root) = "SW2"
      BY <3>1, <3>2, <3>3, BestUplink
    <3> QED BY <2>5, <2>7, <3>4
  <2>8. ASSUME Forwards(Et(3)), Root = "SW1"
        PROVE  Role(Root, Et(3)) = IF Forwards(Et(1)) THEN "Altn" ELSE "Root"
    <3>1. Uplinks(Root) = {b \in {"SW1", "SW2"} : b = "SW1" => Forwards(Et(1))}
      BY <1>2, <1>3, <1>6, <2>8 DEF Uplinks, Switches
    <3>2. CASE Forwards(Et(1))
      <4>1. Nearer(Root, "SW1", "SW2") /\ ~Nearer(Root, "SW2", "SW1") /\ ~Nearer(Root, "SW1", "SW1")
        BY <2>8, Identifiers DEF Nearer, Hops
      <4>2. Best(Root) = "SW1"
        BY <3>1, <3>2, <4>1, BestUplink
      <4>3. "SW2" \in Before(Root)
        <5>1. Hops(Root, Best(Root)) + 1 = 1 /\ Hops(Root, "SW2") = 1 /\ Id["SW2"] < Id[Target]
          BY <1>2, <1>6, <2>8, <4>2, Identifiers DEF Hops
        <5>2. "SW2" \in Uplinks(Root)
          BY <3>1
        <5> QED BY <5>1, <5>2 DEF Before
      <4> QED BY <2>5, <2>8, <3>2, <4>2, <4>3
    <3>3. CASE ~Forwards(Et(1))
      <4>1. Uplinks(Root) = {"SW2"} /\ ~Nearer(Root, "SW2", "SW2")
        BY <2>8, <3>1, <3>3, Identifiers DEF Nearer, Hops
      <4>2. Best(Root) = "SW2"
        BY <4>1, BestUplink
      <4> QED BY <2>5, <2>8, <3>3, <4>2
    <3> QED BY <3>2, <3>3
  <2>9. ASSUME Root = "SW3" PROVE Role(Root, Et(3)) = "Desg"
    BY <1>2, <1>6, <2>9 DEF Role
  <2>10. Run(lost) <=> Root = "SW1" /\ Forwards(Et(1)) /\ Forwards(Et(3))
    BY <1>3, <1>6, <2>2, <2>6, <2>7, <2>8, <2>9
  <2> QED BY <1>3, <1>6, <2>10 DEF Shown, AllConnected
<1> QED BY <1>1, <1>5, <1>6

-----------------------------------------------------------------------------
(***************************************************************************)
(* All phases: what a passed verification says.                            *)
(***************************************************************************)
LEMMA NoVerifier ==
  ASSUME Registry = verifyReg, SessionFits, ~Registered
  PROVE  ~Shown
<1>1. work \notin DOMAIN verifyReg
  BY Served
<1>2. work \notin {<<1, "build">>, <<2, "build">>, <<2, "attack">>, <<2, "harden">>,
                  <<3, "build">>, <<3, "attack">>, <<3, "harden">>}
  BY <1>1, RegistryContents DEF PhasesOf, Labs
<1>3. work \notin {<<8, "build">>, <<8, "attack">>, <<8, "harden">>,
                  <<15, "build">>, <<15, "attack">>, <<15, "harden">>}
  BY <1>1, RegistryContents DEF PhasesOf, Labs
<1>4. work \notin {<<16, "build">>, <<16, "attack">>, <<16, "harden">>,
                  <<47, "build">>, <<47, "attack">>, <<47, "harden">>}
  BY <1>1, RegistryContents DEF PhasesOf, Labs
<1> QED BY <1>2, <1>3, <1>4 DEF Shown

LEMMA RunIsShown ==
  ASSUME Registry = verifyReg, Wired, SessionFits, PortsFit, NetworkFits, NEW lost \in 0..1,
         work \notin Contradicted
  PROVE  Run(lost) <=> Shown
<1>1. CASE ~Registered
  BY <1>1, NoVerifier DEF Run
<1>2. CASE Registered
  <2>1. work \in {<<1, "build">>} \cup UNION {PhasesOf(lab) : lab \in Labs}
    BY <1>2, Served, RegistryContents
  <2>2. \/ work \in {<<8, "build">>, <<8, "attack">>, <<8, "harden">>}
        \/ work \in {<<16, "build">>, <<16, "attack">>, <<16, "harden">>}
        \/ work \in {<<47, "build">>, <<47, "attack">>, <<47, "harden">>}
        \/ work \in {<<3, "build">>, <<3, "attack">>, <<15, "build">>, <<15, "attack">>}
        \/ work \in {<<2, "build">>, <<2, "attack">>, <<2, "harden">>}
    BY <2>1 DEF PhasesOf, Labs, Contradicted
  <2> QED BY <2>2, JudgedByPort, JudgedByTable, JudgedBySpanningTree
<1> QED BY <1>1, <1>2

\* Lab 15's switch has no fifth port.
LEMMA FifthPort ==
  ASSUME Registry = verifyReg, SessionFits, PortsFit, NEW lost, work = <<15, "harden">>
  PROVE  ~Run(lost)
<1>1. Registered /\ Target = "SW1" /\ Checks = Lab15HardenVerifier
  BY Served, RegistryContents DEF PhasesOf, Labs
<1>2. ExpectDescription(Et(4)) \in Elements(Checks)
  BY <1>1 DEF Elements, Lab15HardenVerifier
<1>3. Et(4) \notin DOMAIN port
  BY <1>1, PortNames DEF Et
<1>4. ~Holds(ExpectDescription(Et(4)), lost)
  BY <1>3 DEF Holds, ExpectDescription, Interface
<1> QED BY <1>2, <1>4 DEF Run

\* Lab 3's port is asked to be shut.
LEMMA ShutAfterViolation ==
  ASSUME Registry = verifyReg, Wired, SessionFits, PortsFit, NEW lost,
         work = <<3, "harden">>, Run(lost)
  PROVE  PortsTo("KALI") = {Et(3)} /\ Et(3) \in DOMAIN port
         /\ port[Et(3)].violated /\ port[Et(3)].shut
<1>1. Registered /\ Target = "SW1" /\ Checks = Lab03HardenVerifier
  BY Served, RegistryContents DEF PhasesOf, Labs
<1>2. PortsTo("KALI") = {Et(3)}
  BY <1>1, PortsToLed DEF Wired, Wired03
<1>3. Et(3) \in DOMAIN port
  BY <1>1, PortNames
<1> QED BY <1>1, <1>2, <1>3, PortAssertions, ElementsOf DEF Run, Lab03HardenVerifier

\* Lab 1 asks for Kali's port in another VLAN than its text.
LEMMA KaliInVLAN10 ==
  ASSUME Registry = verifyReg, Wired, SessionFits, PortsFit, NEW lost,
         work = <<1, "build">>, Run(lost)
  PROVE  ~InVLAN("KALI", 99)
<1>1. Registered /\ Target = "SW1" /\ Checks = Lab1BuildVerifier
  BY Served, RegistryContents
<1>2. PortsTo("KALI") = {Et(3)}
  BY <1>1, PortsToLed DEF Wired, Wired01
<1>3. Et(3) \in DOMAIN port
  BY <1>1, PortNames
<1>4. port[Et(3)].vlan = 10
  BY <1>1, <1>3, VLANAssertion, ElementsOf DEF Run, Lab1BuildVerifier
<1> QED BY <1>2, <1>4 DEF InVLAN

\* No pass without what the assertions of its phase speak of.
LEMMA RunShows ==
  ASSUME Registry = verifyReg, Wired, SessionFits, PortsFit, NetworkFits, NEW lost \in 0..1,
         Run(lost)
  PROVE  Shown
<1>1. CASE work \notin Contradicted
  BY <1>1, RunIsShown
<1>2. CASE work = <<1, "build">>
  BY <1>2, JudgedByPort
<1>3. CASE work = <<3, "harden">>
  BY <1>3, ShutAfterViolation DEF Shown
<1>4. CASE work = <<15, "harden">>
  BY <1>4, FifthPort
<1> QED BY <1>1, <1>2, <1>3, <1>4 DEF Contradicted

\* Where nothing is left unchecked, there is nothing besides.
LEMMA NothingBesides ==
  ASSUME NetworkFits, work \notin PartlyChecked \cup Contradicted
  PROVE  Besides
<1>1. tasks = Unread
  BY DEF NetworkFits, Unread, PartlyChecked
<1> QED BY <1>1 DEF Besides, PartlyChecked, Contradicted

\* What a phase shows is not there before somebody works on the lab.
LEMMA FreshNotShown ==
  ASSUME Registry = verifyReg, Wired, SessionFits, PortsFit, NetworkFits, Pristine, untouched, Shown
  PROVE  work \in PassedUntouched
<1>1. Registered
  BY NoVerifier
<1>2. /\ cam = << >> /\ ~flooded /\ up = {} /\ ~attacking
      /\ work # <<15, "attack">> => \A p \in DOMAIN port : port[p] = FreshPort
  BY DEF Pristine
<1>3. \A h : ~GetsThrough(h)
  BY <1>2 DEF GetsThrough
<1>4. work \notin {<<8, "build">>, <<15, "attack">>, <<47, "attack">>}
  BY <1>3 DEF Shown, AllThrough
<1>5. work \notin {<<3, "build">>, <<3, "attack">>}
  BY <1>2 DEF Shown
<1>6. work # <<15, "build">>
  <2>1. ASSUME work = <<15, "build">> PROVE FALSE
    <3>1. "PC1" \in hosts
      BY <2>1 DEF SessionFits, Wired, Wired15
    <3>2. Located("PC1")
      BY <2>1, <3>1 DEF Shown
    <3> QED BY <1>2, <3>2 DEF Located
  <2> QED BY <2>1
<1>7. work # <<2, "attack">>
  <2>1. ASSUME work = <<2, "attack">> PROVE FALSE
    <3>1. Target = "SW3"
      BY <2>1, Served
    <3>2. Root = "KALI" <=> HearsKali
      BY <3>1, RootHeard DEF NetworkFits, Switches
    <3> QED BY <1>2, <2>1, <3>2 DEF Shown, HearsKali
  <2> QED BY <2>1
<1>8. work # <<1, "build">>
  <2>1. ASSUME work = <<1, "build">> PROVE FALSE
    <3>1. Target = "SW1"
      BY <2>1, Served
    <3>2. PortsTo("PC1") = {Et(1)} /\ Et(1) \in DOMAIN port
      BY <1>1, <2>1, <3>1, PortsToLed, PortNames DEF Wired, Wired01
    <3> QED BY <1>2, <2>1, <3>2 DEF Shown, InVLAN, FreshPort
  <2> QED BY <2>1
<1>9. work # <<16, "attack">>
  <2>1. ASSUME work = <<16, "attack">> PROVE FALSE
    <3>1. Target = "SW1"
      BY <2>1, Served
    <3>2. PortsTo("PC1") = {Et(0)} /\ Et(0) \in DOMAIN port
      BY <1>1, <2>1, <3>1, PortsToLed, PortNames DEF Wired, Wired16
    <3>3. ~FreshPort.shut
      BY <2>1, <3>1 DEF FreshPort, BootsShut
    <3>4. port[Et(0)] = FreshPort
      BY <1>2, <2>1, <3>2
    <3> QED BY <2>1, <3>2, <3>3, <3>4 DEF Shown, ShutTo
  <2> QED BY <2>1
<1>10. work # <<47, "build">>
  <2>1. ASSUME work = <<47, "build">> PROVE FALSE
    <3>1. Target = "SW1"
      BY <2>1, Served
    <3>2. PortsTo("PC1") = {Et(1)} /\ Et(1) \in DOMAIN port
      BY <1>1, <2>1, <3>1, PortsToLed, PortNames DEF Wired, Wired47
    <3> QED BY <1>2, <2>1, <3>2 DEF Shown, InVLAN, FreshPort
  <2> QED BY <2>1
<1>11. work # <<47, "harden">>
  <2>1. ASSUME work = <<47, "harden">> PROVE FALSE
    <3>1. Target = "R1"
      BY <2>1, Served
    <3>2. PortsTo("KALI") = {Fa(0, 0)} /\ Fa(0, 0) \in DOMAIN port
      BY <1>1, <2>1, <3>1, PortsToLed, PortNames DEF Wired, Wired47
    <3>3. Connected("KALI")
      BY <2>1 DEF Shown, AllConnected
    <3>4. FreshPort.shut
      BY <3>1 DEF FreshPort, BootsShut
    <3>5. port[Fa(0, 0)] = FreshPort
      BY <1>2, <2>1, <3>2
    <3> QED BY <3>2, <3>3, <3>4, <3>5 DEF Connected, Forwards
  <2> QED BY <2>1
<1>12. work # <<3, "harden">> /\ work # <<15, "harden">>
  <2>1. ASSUME work \in {<<3, "harden">>, <<15, "harden">>} PROVE FALSE
    <3>1. Target = "SW1"
      BY <2>1, Served
    <3>2. Et(3) \in DOMAIN port /\ (work = <<3, "harden">> => PortsTo("KALI") = {Et(3)})
      BY <1>1, <2>1, <3>1, PortsToLed, PortNames DEF Wired, Wired03
    <3> QED BY <1>2, <2>1, <3>2 DEF Shown, FreshPort
  <2> QED BY <2>1
<1>13. work \in {<<1, "build">>} \cup UNION {PhasesOf(lab) : lab \in Labs}
  BY <1>1, Served, RegistryContents
<1> QED BY <1>4, <1>5, <1>6, <1>7, <1>8, <1>9, <1>10, <1>11, <1>12, <1>13
        DEF PassedUntouched, PhasesOf, Labs

-----------------------------------------------------------------------------
(***************************************************************************)
(* The invariant is inductive.                                             *)
(***************************************************************************)
\* The VLANs a verifier names, and the hosts it knows by their MAC.
Sound(cs) ==
  \A i \in DOMAIN cs : /\ cs[i].kind = "vlan" => cs[i].vlan \in {1, 10, 20}
                       /\ cs[i].kind # "mac"

LEMMA SoundChecks ==
  /\ Sound(Lab1BuildVerifier)
  /\ Sound(Lab02BuildVerifier) /\ Sound(Lab02AttackVerifier) /\ Sound(Lab02HardenVerifier)
  /\ Sound(Lab03BuildVerifier) /\ Sound(Lab03AttackVerifier) /\ Sound(Lab03HardenVerifier)
  /\ Sound(Lab8BuildVerifier) /\ Sound(Lab8AttackVerifier) /\ Sound(Lab8HardenVerifier)
  /\ Sound(Lab15AttackVerifier) /\ Sound(Lab15HardenVerifier)
  /\ Sound(Lab16BuildVerifier) /\ Sound(Lab16AttackVerifier) /\ Sound(Lab16HardenVerifier)
  /\ Sound(Lab47BuildVerifier) /\ Sound(Lab47AttackVerifier) /\ Sound(Lab47HardenVerifier)
<1> USE DEF Sound, ExpectInterfaceUp, ExpectInterfaceDown, ExpectPortVLAN, ExpectDescription,
            ExpectErrdisableRecovery, ExpectMACCount, ExpectRootBridge, ExpectPortRole,
            ExpectPortSecurityViolations, ExpectReachable, ExpectNotReachable
<1>1. Sound(Lab1BuildVerifier)
  BY DEF Lab1BuildVerifier
<1>2. Sound(Lab02BuildVerifier) /\ Sound(Lab02AttackVerifier) /\ Sound(Lab02HardenVerifier)
  BY DEF Lab02BuildVerifier, Lab02AttackVerifier, Lab02HardenVerifier
<1>3. Sound(Lab03BuildVerifier) /\ Sound(Lab03AttackVerifier) /\ Sound(Lab03HardenVerifier)
  BY DEF Lab03BuildVerifier, Lab03AttackVerifier, Lab03HardenVerifier
<1>4. Sound(Lab8BuildVerifier) /\ Sound(Lab8AttackVerifier) /\ Sound(Lab8HardenVerifier)
  BY DEF Lab8BuildVerifier, Lab8AttackVerifier, Lab8HardenVerifier
<1>5. Sound(Lab15AttackVerifier)
  BY DEF Lab15AttackVerifier
<1>6. Sound(Lab15HardenVerifier)
  BY DEF Lab15HardenVerifier
<1>7. Sound(Lab16BuildVerifier) /\ Sound(Lab16AttackVerifier) /\ Sound(Lab16HardenVerifier)
  BY DEF Lab16BuildVerifier, Lab16AttackVerifier, Lab16HardenVerifier
<1>8. Sound(Lab47BuildVerifier)
  BY DEF Lab47BuildVerifier
<1>9. Sound(Lab47AttackVerifier)
  BY DEF Lab47AttackVerifier
<1>10. Sound(Lab47HardenVerifier)
  BY DEF Lab47HardenVerifier
<1> QED BY <1>1, <1>2, <1>3, <1>4, <1>5, <1>6, <1>7, <1>8, <1>9, <1>10

LEMMA ChecksFit ==
  ASSUME Registry = verifyReg, Wired, SessionFits
  PROVE  /\ \A c \in Elements(Checks) : c.kind = "vlan" => c.vlan \in {1, 10, 20}
         /\ HostsRead(verifier) \subseteq hosts
<1>1. CASE work = <<15, "build">>
  <2>1. Checks = Lab15BuildVerifier /\ hosts = {"PC1", "PC2", "PC3", "KALI", "KALI2"}
    BY <1>1, Served DEF SessionFits, Wired, Wired15
  <2>2. ASSUME NEW i \in DOMAIN Checks
        PROVE  Checks[i].kind = "mac" /\ Checks[i].hosts \subseteq hosts
    BY <2>1 DEF Lab15BuildVerifier, ExpectMACsShareOnePort, ExpectMACOnPort
  <2> QED BY <2>2 DEF Elements, HostsRead, Checks
<1>2. CASE work # <<15, "build">>
  <2>1. Sound(Checks)
    <3>1. CASE ~Registered
      BY <3>1, Served DEF Sound
    <3>2. CASE Registered
      <4>1. work \in {<<1, "build">>} \cup UNION {PhasesOf(lab) : lab \in Labs}
        BY <3>2, Served, RegistryContents
      <4>2. \/ work \in {<<1, "build">>, <<2, "build">>, <<2, "attack">>, <<2, "harden">>}
            \/ work \in {<<3, "build">>, <<3, "attack">>, <<3, "harden">>}
            \/ work \in {<<8, "build">>, <<8, "attack">>, <<8, "harden">>}
            \/ work \in {<<15, "attack">>, <<15, "harden">>}
            \/ work \in {<<16, "build">>, <<16, "attack">>, <<16, "harden">>}
            \/ work \in {<<47, "build">>, <<47, "attack">>, <<47, "harden">>}
        BY <1>2, <4>1 DEF PhasesOf, Labs
      <4> QED BY <4>2, Served, SoundChecks
    <3> QED BY <3>1, <3>2
  <2> QED BY <2>1 DEF Sound, Elements, HostsRead, Checks
<1> QED BY <1>1, <1>2

LEMMA ElevenOf ==
  ASSUME NEW S, NEW a \in S, NEW b \in S, NEW c \in S, NEW d \in S, NEW e \in S, NEW f \in S,
         NEW g \in S, NEW h \in S, NEW i \in S, NEW j \in S, NEW k \in S
  PROVE  <<a, b, c, d, e, f, g, h, i, j, k>> \in Seq(S)
OBVIOUS

LEMMA InitIInv ==
  ASSUME Registry = verifyReg, Wired, Init
  PROVE  IInv
<1>1. SessionFits
  <2>1. work \in Works /\ verifier = Lookup(work)
    BY DEF Init
  <2>2. behind = [n \in NodeNames(work[1]) |->
                   Behind(Elements(Template[work[1]].Links), Target, n)]
    BY DEF Init, NodeNames
  <2>3. hosts = HostNames(work[1])
    BY DEF Init, HostNames, Named
  <2>4. Named(work[1], {"docker"}) \subseteq HostNames(work[1])
    BY DEF Named, HostNames
  <2>5. known \in {hosts, Named(work[1], {"docker"})}
    BY DEF Init, Named
  <2> QED BY <2>1, <2>2, <2>3, <2>4, <2>5 DEF SessionFits
<1>2. PortsFit
  <2>1. port = IF Registered THEN [p \in PortsOf(Target) |-> FreshPort] ELSE << >>
    BY DEF Init
  <2>2. FreshPort \in PortState /\ ~FreshPort.err
    BY DEF FreshPort, PortState, BootsShut
  <2> QED BY <2>1, <2>2 DEF PortsFit
<1>3. NetworkFits
  <2>1. recovery \in BOOLEAN /\ flooded = FALSE /\ open = FALSE /\ attacking = FALSE
        /\ untouched = TRUE /\ cam = << >> /\ up = {} /\ elected = None /\ tasks = {}
    BY DEF Init
  <2>2. {recovery, flooded, open, attacking, untouched} \subseteq BOOLEAN
    BY <2>1
  <2>3. /\ DOMAIN cam \subseteq hosts /\ up \subseteq Pinged
        /\ elected \in Switches \cup {None} /\ tasks \subseteq Unread
    BY <2>1
  <2> QED BY <2>2, <2>3 DEF NetworkFits
<1>4. InjectionFits
  <2>1. script = ScenarioOf(work)
    BY DEF Init
  <2>2. Lab15AttackScenario \in Seq(Commands)
    <3>1. {None, 99, Et(0), Et(1), Et(2), Et(3)} \subseteq Arguments
      BY DEF Arguments
    <3>2. /\ Command("configure terminal", None) \in Commands
          /\ Command("interface", Et(0)) \in Commands /\ Command("interface", Et(1)) \in Commands
          /\ Command("interface", Et(2)) \in Commands /\ Command("interface", Et(3)) \in Commands
          /\ Command("shutdown", None) \in Commands
          /\ Command("switchport access vlan", 99) \in Commands
          /\ Command("spanning-tree portfast", None) \in Commands
          /\ Command("spanning-tree bpduguard enable", None) \in Commands
          /\ Command("end", None) \in Commands
      BY <3>1 DEF Commands, Command
    <3> QED BY <3>2, ElevenOf DEF Lab15AttackScenario
  <2>3. \A p \in DOMAIN port : ~port[p].err
    BY DEF Init, FreshPort
  <2> QED BY <2>1, <2>2, <2>3 DEF InjectionFits, ScenarioOf
<1>5. Pristine
  <2>1. \A p \in DOMAIN port : port[p] = FreshPort
    BY DEF Init
  <2>2. cam = << >> /\ ~flooded /\ up = {} /\ ~open /\ ~attacking
    BY DEF Init
  <2> QED BY <2>1, <2>2 DEF Pristine
<1> QED BY <1>1, <1>2, <1>3, <1>4, <1>5 DEF IInv

\* The ports after one of them has changed, or none.
LEMMA PortReplaced ==
  ASSUME PortsFit, verifier' = verifier, NEW p, NEW r \in PortState, ~(r.shut /\ r.err),
         port' = [port EXCEPT ![p] = r]
  PROVE  PortsFit'
BY DEF PortsFit, Registered, Target

LEMMA PortsKept ==
  ASSUME PortsFit, verifier' = verifier, port' = port PROVE PortsFit'
BY DEF PortsFit, Registered, Target

\* The student, the hosts and Kali leave the session and the injection alone.
WorksOnly == Worked /\ UNCHANGED session /\ UNCHANGED injection

LEMMA WorkedOn ==
  ASSUME ConfigureDevice \/ Around
  PROVE  WorksOnly
<1> USE DEF Configures, Elsewhere, WorksOnly
<1>1. ASSUME NEW p \in DOMAIN port,
             \/ Shutdown(p) \/ NoShutdown(p) \/ AccessVLAN(p) \/ Describe(p)
             \/ Secure(p) \/ Guard(p) \/ Unguard(p)
      PROVE  WorksOnly
  BY <1>1 DEF Shutdown, NoShutdown, AccessVLAN, Describe, Secure, Guard, Unguard
<1>2. ASSUME SetRecovery \/ \E h, p : PlantMAC(h, p) PROVE WorksOnly
  BY <1>2 DEF SetRecovery, PlantMAC
<1>3. ASSUME NEW h, ConfigureHost(h) \/ LoseHost(h) \/ Talk(h) \/ Elect(h) \/ Perform(h)
      PROVE  WorksOnly
  BY <1>3 DEF ConfigureHost, LoseHost, Talk, Elect, Perform
<1>4. ASSUME NEW p, Macof(p) \/ Starve(p) \/ BPDUGuard(p) PROVE WorksOnly
  BY <1>4 DEF Macof, Starve, BPDUGuard
<1>5. ASSUME Policy \/ Age \/ Yersinia PROVE WorksOnly
  BY <1>5 DEF Policy, Age, Yersinia
<1> HIDE DEF Configures, Elsewhere, WorksOnly
<1>6. CASE ConfigureDevice
  BY <1>1, <1>2, <1>6 DEF ConfigureDevice
<1>7. CASE Around
  BY <1>3, <1>4, <1>5, <1>7 DEF Around
<1> QED BY <1>6, <1>7

LEMMA DevicePorts ==
  ASSUME Registry = verifyReg, Wired, IInv, ConfigureDevice \/ Around
  PROVE  PortsFit'
<1>0. PortsFit /\ verifier' = verifier
  BY WorkedOn DEF IInv, WorksOnly, session
<1>p. \A p \in DOMAIN port : port[p] \in PortState /\ ~(port[p].shut /\ port[p].err)
  BY <1>0 DEF PortsFit
<1>1. ASSUME port' = port PROVE PortsFit'
  BY <1>0, <1>1, PortsKept
<1>2. ASSUME NEW p \in DOMAIN port, Shutdown(p) PROVE PortsFit'
  <2>1. PICK kept \in {port[p].violated, FALSE} :
          port' = [port EXCEPT ![p].shut = TRUE, ![p].err = FALSE, ![p].violated = kept]
    BY <1>2 DEF Shutdown, Configures
  <2> DEFINE r == [port[p] EXCEPT !.shut = TRUE, !.err = FALSE, !.violated = kept]
  <2>2. port' = [port EXCEPT ![p] = r]
    BY <2>1
  <2>3. port[p] \in PortState /\ kept \in BOOLEAN
    BY <1>p DEF PortState
  <2>4. r \in PortState /\ ~r.err
    BY <2>3 DEF PortState
  <2> QED BY <1>0, <2>2, <2>4, PortReplaced
<1>3. ASSUME NEW p \in DOMAIN port, NoShutdown(p) PROVE PortsFit'
  <2> DEFINE r == [port[p] EXCEPT !.shut = FALSE]
  <2>1. port' = [port EXCEPT ![p] = r]
    BY <1>3 DEF NoShutdown, Configures
  <2>2. r \in PortState /\ ~r.shut
    <3>1. port[p] \in PortState /\ ~(port[p].shut /\ port[p].err)
      BY <1>p
    <3> QED BY <3>1 DEF PortState
  <2> QED BY <1>0, <2>1, <2>2, PortReplaced
<1>4. ASSUME NEW p \in DOMAIN port, AccessVLAN(p) PROVE PortsFit'
  <2>1. PICK v \in {1, 10, 20, 99} : port' = [port EXCEPT ![p].vlan = v]
    BY <1>4, ChecksFit DEF AccessVLAN, Configures, IInv
  <2> DEFINE r == [port[p] EXCEPT !.vlan = v]
  <2>2. port' = [port EXCEPT ![p] = r]
    BY <2>1
  <2>3. r \in PortState /\ ~(r.shut /\ r.err)
    <3>1. port[p] \in PortState /\ ~(port[p].shut /\ port[p].err)
      BY <1>p
    <3> QED BY <3>1 DEF PortState
  <2> QED BY <1>0, <2>2, <2>3, PortReplaced
<1>5. ASSUME NEW p \in DOMAIN port, Describe(p) PROVE PortsFit'
  <2> DEFINE r == [port[p] EXCEPT !.described = TRUE]
  <2>1. port' = [port EXCEPT ![p] = r]
    BY <1>5 DEF Describe, Configures
  <2>2. r \in PortState /\ ~(r.shut /\ r.err)
    <3>1. port[p] \in PortState /\ ~(port[p].shut /\ port[p].err)
      BY <1>p
    <3> QED BY <3>1 DEF PortState
  <2> QED BY <1>0, <2>1, <2>2, PortReplaced
<1>6. ASSUME NEW p \in DOMAIN port, Secure(p) PROVE PortsFit'
  <2> DEFINE r == [port[p] EXCEPT !.secured = TRUE]
  <2>1. port' = [port EXCEPT ![p] = r]
    BY <1>6 DEF Secure, Configures
  <2>2. r \in PortState /\ ~(r.shut /\ r.err)
    <3>1. port[p] \in PortState /\ ~(port[p].shut /\ port[p].err)
      BY <1>p
    <3> QED BY <3>1 DEF PortState
  <2> QED BY <1>0, <2>1, <2>2, PortReplaced
<1>7. ASSUME NEW p \in DOMAIN port, NEW g \in BOOLEAN,
             port' = [port EXCEPT ![p].guarded = g]
      PROVE  PortsFit'
  <2> DEFINE r == [port[p] EXCEPT !.guarded = g]
  <2>1. port' = [port EXCEPT ![p] = r]
    BY <1>7
  <2>2. r \in PortState /\ ~(r.shut /\ r.err)
    <3>1. port[p] \in PortState /\ ~(port[p].shut /\ port[p].err)
      BY <1>p
    <3> QED BY <3>1 DEF PortState
  <2> QED BY <1>0, <2>1, <2>2, PortReplaced
<1>8. ASSUME NEW p \in DOMAIN port, Guard(p) \/ Unguard(p) PROVE PortsFit'
  BY <1>7, <1>8 DEF Guard, Unguard, Configures
\* Only a port that forwards, and so is not shut, is err-disabled.
<1>9. ASSUME NEW p \in PortsTo("KALI"), Macof(p) \/ Starve(p) PROVE PortsFit'
  <2>1. CASE port' = port
    BY <1>1, <2>1
  <2>2. CASE p \notin DOMAIN port /\ port' = [port EXCEPT ![p].err = TRUE, ![p].violated = TRUE]
    BY <1>0, <2>2 DEF PortsFit, Registered, Target
  <2>3. CASE p \in DOMAIN port /\ port' = [port EXCEPT ![p].err = TRUE, ![p].violated = TRUE]
    <3> DEFINE r == [port[p] EXCEPT !.err = TRUE, !.violated = TRUE]
    <3>1. port' = [port EXCEPT ![p] = r]
      BY <2>3
    <3>2. r \in PortState /\ ~r.shut
      <4>1. port[p] \in PortState /\ ~port[p].shut
        BY <1>p, <1>9, <2>3 DEF Macof, Starve, Forwards
      <4> QED BY <4>1 DEF PortState
    <3> QED BY <1>0, <3>1, <3>2, PortReplaced
  <2> QED BY <1>9, <2>1, <2>2, <2>3 DEF Macof, Starve
<1>10. ASSUME NEW p \in PortsTo("KALI"), BPDUGuard(p) PROVE PortsFit'
  <2>1. port' = [port EXCEPT ![p].err = TRUE] /\ Forwards(p)
    BY <1>10 DEF BPDUGuard
  <2>2. CASE p \notin DOMAIN port
    BY <1>0, <2>1, <2>2 DEF PortsFit, Registered, Target
  <2>3. CASE p \in DOMAIN port
    <3> DEFINE r == [port[p] EXCEPT !.err = TRUE]
    <3>1. port' = [port EXCEPT ![p] = r]
      BY <2>1, <2>3
    <3>2. r \in PortState /\ ~r.shut
      <4>1. port[p] \in PortState /\ ~port[p].shut
        BY <1>p, <2>1, <2>3 DEF Forwards
      <4> QED BY <4>1 DEF PortState
    <3> QED BY <1>0, <3>1, <3>2, PortReplaced
  <2> QED BY <2>2, <2>3
<1>11. ASSUME SetRecovery \/ (\E h, p : PlantMAC(h, p)) PROVE port' = port
  BY <1>11 DEF SetRecovery, PlantMAC
<1>12. ASSUME NEW h, ConfigureHost(h) \/ LoseHost(h) \/ Talk(h) \/ Elect(h) \/ Perform(h)
       PROVE  port' = port
  BY <1>12 DEF ConfigureHost, LoseHost, Talk, Elect, Perform
<1>13. ASSUME Policy \/ Age \/ Yersinia PROVE port' = port
  BY <1>13 DEF Policy, Age, Yersinia
<1>14. CASE ConfigureDevice
  BY <1>1, <1>2, <1>3, <1>4, <1>5, <1>6, <1>8, <1>11, <1>14 DEF ConfigureDevice
<1>15. CASE Around
  BY <1>1, <1>9, <1>10, <1>12, <1>13, <1>15 DEF Around
<1> QED BY <1>14, <1>15

LEMMA DeviceNetwork ==
  ASSUME Registry = verifyReg, Wired, IInv, ConfigureDevice \/ Around
  PROVE  NetworkFits'
<1>0. /\ NetworkFits /\ UNCHANGED <<verifier, hosts>> /\ Pinged' = Pinged
      /\ untouched' = FALSE /\ Unread' = Unread
  BY WorkedOn DEF IInv, WorksOnly, Worked, session, Pinged, Checks, Unread
<1>1. ASSUME recovery' \in BOOLEAN, flooded' \in BOOLEAN, open' \in BOOLEAN, attacking' \in BOOLEAN,
             DOMAIN cam' \subseteq hosts, up' \subseteq Pinged, elected' \in Switches \cup {None},
             tasks' \subseteq Unread
      PROVE  NetworkFits'
  BY <1>0, <1>1 DEF NetworkFits
<1>2. \A p : DOMAIN Flush(p) \subseteq DOMAIN cam
  BY DEF Flush
<1>3. \A h, p : DOMAIN Learn(h, p) = DOMAIN cam \cup {h}
  BY DEF Learn
<1>4. /\ recovery \in BOOLEAN /\ flooded \in BOOLEAN /\ open \in BOOLEAN /\ attacking \in BOOLEAN
      /\ DOMAIN cam \subseteq hosts /\ up \subseteq Pinged
      /\ elected \in Switches \cup {None} /\ tasks \subseteq Unread
  BY <1>0 DEF NetworkFits
<1> USE DEF Configures, Elsewhere, network
<1>5. ASSUME NEW p \in DOMAIN port, Shutdown(p) PROVE NetworkFits'
  <2>1. cam' = Flush(p) /\ UNCHANGED <<recovery, flooded, network>>
    BY <1>5 DEF Shutdown
  <2> QED BY <1>1, <1>2, <1>4, <2>1
<1>6a. ASSUME NEW p \in DOMAIN port, NoShutdown(p) PROVE NetworkFits'
  <2>1. /\ tasks' \in {tasks, tasks \cup (Unread \cap {"bounced"})}
        /\ UNCHANGED <<recovery, cam, flooded, up, open, elected, attacking>>
    BY <1>6a DEF NoShutdown
  <2> QED BY <1>1, <1>4, <2>1
<1>6. ASSUME NEW p \in DOMAIN port,
             AccessVLAN(p) \/ Describe(p) \/ Secure(p) \/ Guard(p) \/ Unguard(p)
      PROVE  NetworkFits'
  <2>1. UNCHANGED <<recovery, cam, flooded, network>>
    BY <1>6 DEF AccessVLAN, Describe, Secure, Guard, Unguard
  <2> QED BY <1>1, <1>4, <2>1
<1>7. CASE SetRecovery
  <2>1. recovery' = TRUE /\ UNCHANGED <<cam, flooded, network>>
    BY <1>7 DEF SetRecovery
  <2> QED BY <1>1, <1>4, <2>1
<1>8. ASSUME NEW h \in HostsRead(verifier), NEW p, PlantMAC(h, p) PROVE NetworkFits'
  <2>1. cam' = Learn(h, p) /\ UNCHANGED <<recovery, flooded, network>>
    BY <1>8 DEF PlantMAC
  <2>2. h \in hosts
    BY <1>8, ChecksFit DEF IInv
  <2>3. DOMAIN cam' = DOMAIN cam \cup {h}
    BY <1>3, <2>1
  <2> QED BY <1>1, <1>4, <2>1, <2>2, <2>3
<1>9. ASSUME NEW h \in Pinged, ConfigureHost(h) \/ LoseHost(h) PROVE NetworkFits'
  <2>1. /\ up' \in {up \cup {h}, up \ {h}}
        /\ UNCHANGED <<recovery, cam, flooded, open, elected, attacking, tasks>>
    BY <1>9 DEF ConfigureHost, LoseHost
  <2> QED BY <1>1, <1>4, <2>1
<1>10. ASSUME NEW h \in hosts, Talk(h) PROVE NetworkFits'
  <2>1. (\E p : cam' = Learn(h, p)) /\ UNCHANGED <<recovery, flooded, network>>
    BY <1>10 DEF Talk
  <2> QED BY <1>1, <1>3, <1>4, <2>1
<1>11. ASSUME NEW b \in Switches, Elect(b) PROVE NetworkFits'
  <2>1. elected' = b /\ UNCHANGED <<recovery, cam, flooded, up, open, attacking, tasks>>
    BY <1>11 DEF Elect
  <2> QED BY <1>1, <1>4, <2>1
<1>11a. ASSUME NEW t \in Unread, Perform(t) PROVE NetworkFits'
  <2>1. /\ tasks' \in {tasks \cup {t}, tasks \ {t}}
        /\ UNCHANGED <<recovery, cam, flooded, up, open, elected, attacking>>
    BY <1>11a DEF Perform
  <2> QED BY <1>1, <1>4, <2>1
<1>11b. ASSUME NEW p, Starve(p) PROVE NetworkFits'
  <2>1. /\ tasks' \in {tasks, tasks \cup (Unread \cap {"exhausted"})}
        /\ UNCHANGED <<recovery, cam, flooded, up, open, elected, attacking>>
    BY <1>11b DEF Starve
  <2> QED BY <1>1, <1>4, <2>1
<1>12. ASSUME NEW p, Macof(p) \/ BPDUGuard(p) PROVE NetworkFits'
  <2>1. flooded' \in {flooded, TRUE} /\ UNCHANGED <<recovery, cam, network>>
    BY <1>12 DEF Macof, BPDUGuard
  <2> QED BY <1>1, <1>4, <2>1
<1>13. CASE Policy
  <2>1. open' = ~open /\ UNCHANGED <<recovery, cam, flooded, up, elected, attacking, tasks>>
    BY <1>13 DEF Policy
  <2> QED BY <1>1, <1>4, <2>1
<1>14. CASE Age
  <2>1. DOMAIN cam' = {} /\ flooded' = FALSE /\ UNCHANGED <<recovery, network>>
    BY <1>14 DEF Age
  <2> QED BY <1>1, <1>4, <2>1
<1>15. CASE Yersinia
  <2>1. attacking' = ~attacking /\ UNCHANGED <<recovery, cam, flooded, up, open, elected, tasks>>
    BY <1>15 DEF Yersinia
  <2> QED BY <1>1, <1>4, <2>1
<1> HIDE DEF Configures, Elsewhere, network
<1>16. CASE ConfigureDevice
  BY <1>5, <1>6a, <1>6, <1>7, <1>8, <1>16 DEF ConfigureDevice
<1>17. CASE Around
  BY <1>9, <1>10, <1>11, <1>11a, <1>11b, <1>12, <1>13, <1>14, <1>15, <1>17 DEF Around
<1> QED BY <1>16, <1>17

\* A command of the injection, sent or failed.
LEMMA InjectionStep ==
  ASSUME IInv, RunCommand \/ CommandFails
  PROVE  IInv'
<1>1. /\ script # << >> /\ work = <<15, "attack">>
      /\ UNCHANGED <<session, recovery, cam, flooded, network, untouched>>
      /\ \A p \in DOMAIN port : ~port[p].err
  BY DEF RunCommand, CommandFails, IInv, InjectionFits, device
<1>2. SessionFits'
  BY <1>1 DEF IInv, SessionFits, session, Target
<1>3. script' \in Seq(Commands)
  <2>1. script \in Seq(Commands)
    BY DEF IInv, InjectionFits
  <2>2. script' = Tail(script) \/ script' = << >>
    BY DEF RunCommand, CommandFails
  <2>3. Tail(script) \in Seq(Commands)
    BY <1>1, <2>1, HeadTailProperties
  <2>4. << >> \in Seq(Commands)
    OBVIOUS
  <2> QED BY <2>2, <2>3, <2>4
<1>4. PortsFit' /\ \A p \in DOMAIN port' : ~port'[p].err
  <2>0. PortsFit /\ verifier' = verifier
    BY <1>1 DEF IInv, session
  <2>p. \A p \in DOMAIN port : port[p] \in PortState /\ ~port[p].err
    BY <1>1, <2>0 DEF PortsFit
  <2>1. ASSUME NEW p, NEW r \in PortState, ~r.err, port' = [port EXCEPT ![p] = r]
        PROVE  PortsFit' /\ \A q \in DOMAIN port' : ~port'[q].err
    BY <1>1, <2>0, <2>1, PortReplaced
  <2>2. CASE port' = port
    BY <1>1, <2>0, <2>2, PortsKept
  <2>3. CASE iface \notin DOMAIN port
    <3>1. port' = port \/ (DOMAIN port' = DOMAIN port /\ \A p \in DOMAIN port : port'[p] = port[p])
      BY <2>3 DEF RunCommand, CommandFails, device
    <3> QED BY <1>1, <2>0, <3>1 DEF PortsFit, Registered, Target
  <2>4. CASE iface \in DOMAIN port /\ port' = [port EXCEPT ![iface].shut = TRUE]
    <3> DEFINE r == [port[iface] EXCEPT !.shut = TRUE]
    <3>1. r \in PortState /\ ~r.err
      <4>1. port[iface] \in PortState /\ ~port[iface].err
        BY <2>p, <2>4
      <4> QED BY <4>1 DEF PortState
    <3> QED BY <2>1, <2>4, <3>1
  <2>5. CASE iface \in DOMAIN port /\ port' = [port EXCEPT ![iface].vlan = 99]
    <3> DEFINE r == [port[iface] EXCEPT !.vlan = 99]
    <3>1. r \in PortState /\ ~r.err
      <4>1. port[iface] \in PortState /\ ~port[iface].err
        BY <2>p, <2>5
      <4> QED BY <4>1 DEF PortState
    <3> QED BY <2>1, <2>5, <3>1
  <2>6. CASE iface \in DOMAIN port /\ port' = [port EXCEPT ![iface].guarded = TRUE]
    <3> DEFINE r == [port[iface] EXCEPT !.guarded = TRUE]
    <3>1. r \in PortState /\ ~r.err
      <4>1. port[iface] \in PortState /\ ~port[iface].err
        BY <2>p, <2>6
      <4> QED BY <4>1 DEF PortState
    <3> QED BY <2>1, <2>6, <3>1
  <2>7. \A c \in Commands : c.name = "switchport access vlan" => c.arg = 99
    <3>1. Command("switchport access vlan", 99).arg = 99
      BY DEF Command
    <3> QED BY <3>1 DEF Commands
  <2>8. \/ port' = port
        \/ port' = [port EXCEPT ![iface].shut = TRUE]
        \/ port' = [port EXCEPT ![iface].vlan = 99]
        \/ port' = [port EXCEPT ![iface].guarded = TRUE]
    <3>1. CASE CommandFails
      BY <3>1 DEF CommandFails, device
    <3>2. CASE RunCommand
      <4>1. Head(script) \in Commands
        BY <1>1 DEF IInv, InjectionFits
      <4> QED BY <2>7, <3>2, <4>1 DEF RunCommand
    <3> QED BY <3>1, <3>2
  <2> QED BY <2>2, <2>3, <2>4, <2>5, <2>6, <2>8
<1>5. NetworkFits'
  BY <1>1 DEF IInv, NetworkFits, session, network, Pinged, Checks, Unread
<1>6. InjectionFits'
  BY <1>1, <1>3, <1>4 DEF InjectionFits, session
<1>7. Pristine'
  BY <1>1 DEF IInv, Pristine, session, network
<1> QED BY <1>2, <1>4, <1>5, <1>6, <1>7 DEF IInv

LEMMA NextIInv ==
  ASSUME Registry = verifyReg, Wired, IInv, [Next]_vars
  PROVE  IInv'
<1>1. ASSUME UNCHANGED <<session, device, network, injection, untouched>> PROVE IInv'
  BY <1>1 DEF IInv, SessionFits, PortsFit, NetworkFits, InjectionFits, Pristine, session, device,
              network, injection, Registered, Target, Pinged, Checks, Unread, FreshPort, BootsShut
<1>2. CASE Verify \/ UNCHANGED vars
  BY <1>1, <1>2 DEF Verify, vars
<1>3. CASE RunCommand \/ CommandFails
  BY <1>3, InjectionStep
<1>4. CASE ConfigureDevice \/ Around
  <2>1. Worked /\ UNCHANGED session /\ UNCHANGED injection
    BY <1>4, WorkedOn DEF WorksOnly
  <2>2. SessionFits'
    BY <2>1 DEF IInv, SessionFits, session, Target
  <2>3. PortsFit' /\ NetworkFits'
    BY <1>4, DevicePorts, DeviceNetwork
  <2>4. InjectionFits'
    BY <2>1 DEF IInv, InjectionFits, Worked, injection
  <2>5. Pristine'
    BY <2>1 DEF Pristine, Worked
  <2> QED BY <2>2, <2>3, <2>4, <2>5 DEF IInv
<1> QED BY <1>2, <1>3, <1>4 DEF Next

-----------------------------------------------------------------------------
(***************************************************************************)
(* The theorems                                                            *)
(***************************************************************************)
\* Lookup, the ports and the table stay what they are taken for.
THEOREM Inductive ==
  ASSUME Registry = verifyReg, Wired
  PROVE  Spec => []IInv
<1>1. Init => IInv
  BY InitIInv
<1>2. IInv /\ [Next]_vars => IInv'
  BY NextIInv
<1> QED BY <1>1, <1>2, PTL DEF Spec

\* A verification leaves what it read as it was, and nothing else sets a verdict.
LEMMA VerdictStep ==
  ASSUME Next, verdict' # None
  PROVE  /\ UNCHANGED <<session, device, network, untouched>>
         /\ \E lost \in 0..1 : verdict' = IF Run(lost) THEN "passed" ELSE "failed"
<1>1. RunCommand \/ CommandFails => verdict' = None
  BY DEF RunCommand, CommandFails
<1>2. ConfigureDevice \/ Around => verdict' = None
  BY WorkedOn DEF WorksOnly, Worked
<1>3. Verify
  BY <1>1, <1>2 DEF Next
<1> QED BY <1>3 DEF Verify

\* What a phase is about is read from the variables a verification leaves alone.
LEMMA DoneKept ==
  ASSUME UNCHANGED <<session, device, network>>
  PROVE  Shown' = Shown /\ Done' = Done
<1>1. /\ UNCHANGED <<work, verifier, behind, hosts, known, port, recovery, cam, flooded>>
      /\ UNCHANGED <<up, open, elected, attacking, tasks>>
  BY DEF session, device, network
<1>2. Root' = Root
  BY <1>1 DEF Root, HearsKali, Heard, Connected, PortsTo, Forwards, Target
<1>3. Shown' = Shown
  BY <1>1, <1>2
     DEF Shown, AllConnected, AllThrough, GetsThrough, Connected, InVLAN, Located, ShutTo,
         PortsTo, Forwards
<1>4. Besides' = Besides
  BY <1>1 DEF Besides, InVLAN, SecuredTo, Used, Unread, PortsTo, Forwards
<1> QED BY <1>3, <1>4 DEF Done

(***************************************************************************)
(* The variables have their types, and no port of a device is shut and     *)
(* err-disabled at once, whatever is worked on (dsl.go, parse.go).         *)
(***************************************************************************)
THEOREM Typed ==
  ASSUME Registry = verifyReg, Wired
  PROVE  Spec => []TypeOK
<1> DEFINE TInv == IInv /\ verdict \in {"passed", "failed", None}
<1>1. Init => TInv
  BY InitIInv DEF Init
<1>2. TInv /\ [Next]_vars => TInv'
  <2> SUFFICES ASSUME TInv, [Next]_vars PROVE TInv'
    OBVIOUS
  <2>1. IInv'
    BY NextIInv
  <2>2. CASE Next /\ verdict' # None
    BY <2>1, <2>2, VerdictStep
  <2>3. CASE verdict' = None \/ UNCHANGED vars
    BY <2>1, <2>3 DEF vars
  <2> QED BY <2>2, <2>3
<1>3. TInv => TypeOK
  BY DEF TypeOK, IInv, SessionFits, PortsFit, PortState, NetworkFits
<1> QED BY <1>1, <1>2, <1>3, PTL DEF Spec

(***************************************************************************)
(* What a verdict is worth: on any set of phases, after any work, attack,  *)
(* fault of the injection and lost first ping, a pass of registry.go shows *)
(* what its assertions speak of, and all of the phase where nothing is     *)
(* left unchecked, and whoever has done all of a phase passes it, the      *)
(* three contradicted ones apart.                                          *)
(***************************************************************************)
THEOREM Right ==
  ASSUME Registry = verifyReg, Wired
  PROVE  Spec => []VerdictIsRight
<1>1. Init => IInv /\ VerdictIsRight
  BY InitIInv, NoneAssumption DEF Init, VerdictIsRight
<1>2. IInv /\ VerdictIsRight /\ [Next]_vars => IInv' /\ VerdictIsRight'
  <2> SUFFICES ASSUME IInv, VerdictIsRight, [Next]_vars PROVE IInv' /\ VerdictIsRight'
    OBVIOUS
  <2>1. IInv'
    BY NextIInv
  <2>2. CASE Next /\ verdict' # None
    <3>1. /\ UNCHANGED <<session, device, network>>
          /\ \E lost \in 0..1 : verdict' = IF Run(lost) THEN "passed" ELSE "failed"
      BY <2>2, VerdictStep
    <3>2. Shown' = Shown /\ Done' = Done /\ work' = work
      BY <3>1, DoneKept DEF session
    <3>3. verdict' = "passed" => Shown
      BY <3>1, RunShows DEF IInv
    <3>4. verdict' = "failed" /\ work \notin Contradicted => ~Done
      <4>1. \A lost \in 0..1 : work \notin Contradicted => (Run(lost) <=> Shown)
        BY RunIsShown DEF IInv
      <4> QED BY <3>1, <4>1 DEF Done
    <3>5. verdict' = "passed" /\ work \notin PartlyChecked \cup Contradicted => Done
      BY <3>3, NothingBesides DEF Done, IInv
    <3> QED BY <2>1, <3>2, <3>3, <3>4, <3>5 DEF VerdictIsRight, PartlyChecked, Contradicted
  <2>3. CASE verdict' = None
    BY <2>1, <2>3, NoneAssumption DEF VerdictIsRight
  <2>4. CASE UNCHANGED vars
    <3>1. Shown' = Shown /\ Done' = Done /\ work' = work /\ verdict' = verdict
      BY <2>4, DoneKept DEF vars, session
    <3> QED BY <2>1, <3>1 DEF VerdictIsRight, PartlyChecked, Contradicted
  <2> QED BY <2>2, <2>3, <2>4
<1> QED BY <1>1, <1>2, PTL DEF Spec

(***************************************************************************)
(* Labs 1 (build), 3 and 15 (harden) fail every student who did what their *)
(* text describes: the code cannot pass them (lab01_verify.go,             *)
(* lab03_verify.go, lab15_verify.go).                                      *)
(***************************************************************************)
THEOREM DescribedWorkCannotPass ==
  ASSUME Registry = verifyReg, Wired
  PROVE  Spec => []DescribedWorkFails
<1>1. Init => IInv /\ DescribedWorkFails
  BY InitIInv, NoneAssumption DEF Init, DescribedWorkFails
<1>2. IInv /\ DescribedWorkFails /\ [Next]_vars => IInv' /\ DescribedWorkFails'
  <2> SUFFICES ASSUME IInv, DescribedWorkFails, [Next]_vars PROVE IInv' /\ DescribedWorkFails'
    OBVIOUS
  <2>1. IInv'
    BY NextIInv
  <2>2. CASE Next /\ verdict' = "passed"
    <3>1. UNCHANGED <<session, device, network>> /\ \E lost \in 0..1 : Run(lost)
      BY <2>2, VerdictStep, NoneAssumption
    <3>2. ASSUME work = <<1, "build">> PROVE ~Done
      <4>1. ~InVLAN("KALI", 99)
        BY <3>1, <3>2, KaliInVLAN10 DEF IInv
      <4> QED BY <3>2, <4>1 DEF Done, Besides
    <3>3. ASSUME work = <<3, "harden">> PROVE ~Done
      <4>1. PortsTo("KALI") = {Et(3)} /\ Et(3) \in DOMAIN port /\ port[Et(3)].shut
        BY <3>1, <3>3, ShutAfterViolation DEF IInv
      <4>2. ~port[Et(3)].err
        BY <4>1 DEF IInv, PortsFit
      <4> QED BY <3>3, <4>1, <4>2 DEF Done, Besides
    <3>4. work # <<15, "harden">>
      BY <3>1, FifthPort DEF IInv
    <3>5. work \in Contradicted => ~Done
      BY <3>2, <3>3, <3>4 DEF Contradicted
    <3>6. Done' = Done /\ work' = work
      BY <3>1, DoneKept DEF session
    <3> QED BY <2>1, <3>5, <3>6 DEF DescribedWorkFails, Contradicted
  <2>3. CASE verdict' # "passed"
    BY <2>1, <2>3 DEF DescribedWorkFails
  <2>4. CASE UNCHANGED vars
    <3>1. Done' = Done /\ work' = work /\ verdict' = verdict
      BY <2>4, DoneKept DEF vars, session
    <3> QED BY <2>1, <3>1 DEF DescribedWorkFails, Contradicted
  <2> QED BY <2>2, <2>3, <2>4
<1> QED BY <1>1, <1>2, PTL DEF Spec

(***************************************************************************)
(* Nobody passes a phase without having done anything, but for the six     *)
(* phases that an untouched lab is in already (labNN_verify.go).           *)
(***************************************************************************)
THEOREM NeedsWork ==
  ASSUME Registry = verifyReg, Wired
  PROVE  Spec => []PassNeedsWork
<1>1. Init => IInv /\ PassNeedsWork
  BY InitIInv, NoneAssumption DEF Init, PassNeedsWork
<1>2. IInv /\ PassNeedsWork /\ [Next]_vars => IInv' /\ PassNeedsWork'
  <2> SUFFICES ASSUME IInv, PassNeedsWork, [Next]_vars PROVE IInv' /\ PassNeedsWork'
    OBVIOUS
  <2>1. IInv'
    BY NextIInv
  <2>2. CASE Next /\ verdict' = "passed" /\ untouched'
    <3>1. UNCHANGED <<session, untouched>>
      BY <2>2, VerdictStep, NoneAssumption
    <3>2. PICK lost \in 0..1 : Run(lost)
      BY <2>2, VerdictStep, NoneAssumption
    <3>3. Shown
      BY <3>2, RunShows DEF IInv
    <3>4. work \in PassedUntouched
      BY <2>2, <3>1, <3>3, FreshNotShown DEF IInv
    <3> QED BY <2>1, <3>1, <3>4 DEF PassNeedsWork, session, PassedUntouched
  <2>3. CASE ~(verdict' = "passed" /\ untouched')
    BY <2>1, <2>3 DEF PassNeedsWork
  <2>4. CASE UNCHANGED vars
    BY <2>1, <2>4 DEF PassNeedsWork, vars, session, PassedUntouched
  <2> QED BY <2>2, <2>3, <2>4
<1> QED BY <1>1, <1>2, PTL DEF Spec

(***************************************************************************)
(* As deployed, with the labs of the catalogue and the verifiers main      *)
(* registers (src/cmd/server/main.go), all of this holds of every session. *)
(***************************************************************************)
THEOREM Deployed ==
  ASSUME Registry = verifyReg, Template = LiveLabs
  PROVE  Spec => [](TypeOK /\ VerdictIsRight /\ DescribedWorkFails /\ PassNeedsWork)
<1>1. Wired
  BY CatalogueWired
<1>2. Spec => []TypeOK
  BY <1>1, Typed
<1>3. Spec => []VerdictIsRight
  BY <1>1, Right
<1>4. Spec => []DescribedWorkFails
  BY <1>1, DescribedWorkCannotPass
<1>5. Spec => []PassNeedsWork
  BY <1>1, NeedsWork
<1> QED BY <1>2, <1>3, <1>4, <1>5, PTL

=============================================================================
