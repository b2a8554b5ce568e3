----------------------------- MODULE Catalogue -----------------------------
(***************************************************************************)
(* The lab catalogue of src/internal/labsession: the topology of every lab *)
(* (labNN_topology.go), the table that finds it by lab id, and the check   *)
(* programs of the labs that have a console-truth verifier                 *)
(* (labNN_verify.go, registered in src/cmd/server/main.go).                *)
(*                                                                         *)
(* Of a node we keep its name, its GNS3 type and the properties that a     *)
(* cable or a create call depends on; the value of a property that only    *)
(* has to be there (image, path, ram) is its own name.  An interface name  *)
(* is its family and its numbers, "Fa1/0" being Fa(1, 0).  Startup         *)
(* configurations and descriptions of the labs are left out.               *)
(***************************************************************************)
EXTENDS Naturals, Sequences, TLC

Node(name, type, props) == [Name |-> name, NodeType |-> type, Properties |-> props]

NoProperties == << >>

(* dynamips: the platform and the modules in its slots                     *)
Router(name) ==
  Node(name, "dynamips", [platform |-> "c3725", image |-> "image", ram |-> "ram",
                          slot0 |-> "GT96100-FE"])
RouterWAN(name) ==
  Node(name, "dynamips", [platform |-> "c3725", image |-> "image", ram |-> "ram",
                          slot0 |-> "GT96100-FE", slot2 |-> "NM-1FE-TX"])
RouterESW(name) ==
  Node(name, "dynamips", [platform |-> "c3725", image |-> "image", ram |-> "ram",
                          slot0 |-> "GT96100-FE", slot1 |-> "NM-16ESW"])
Router7200(name) ==
  Node(name, "dynamips", [platform |-> "c7200", image |-> "image", ram |-> "ram",
                          slot0 |-> "C7200-IO-FE", slot1 |-> "PA-FE-TX",
                          slot2 |-> "PA-2FE-TX"])

(* iou: the image's path and, in two labs, the number of adapters          *)
Switch(name)        == Node(name, "iou", [path |-> "path"])
SwitchWith(name, n) == Node(name, "iou", [path |-> "path", ethernet_adapters |-> n])

PC(name)      == Node(name, "vpcs", NoProperties)
HubNode(name) == Node(name, "ethernet_hub", NoProperties)
Kali(name, n) == Node(name, "docker", [adapters |-> n])

Appliance(name) == Node(name, "qemu", [qemu_path |-> "qemu_path"])
ApplianceWith(name, n, console) ==
  Node(name, "qemu", [qemu_path |-> "qemu_path", adapters |-> n, console_type |-> console])

Fa(slot, port) == <<"Fa", slot, port>>
Gi(slot, port) == <<"Gi", slot, port>>
Et(port)       == <<"Et", 0, port>>
Eth(n)         == <<"eth", n>>
Ethernet(n)    == <<"Ethernet", n>>
Hub(n)         == <<"e", n>>

Link(a, ia, b, ib) == [NodeA |-> a, IfaceA |-> ia, NodeB |-> b, IfaceB |-> ib]

-----------------------------------------------------------------------------
(***************************************************************************)
(* The topologies                                                          *)
(***************************************************************************)

Lab01Topology ==
  [Nodes |-> <<Router("R1"), Switch("SW1"), Switch("SW2"), PC("PC1"), Kali("KALI", 2), PC("SRV1")>>,
   Links |-> <<Link("R1", Fa(0, 0), "SW1", Et(0)), Link("PC1", Eth(0), "SW1", Et(1)),
               Link("SW1", Et(2), "SW2", Et(1)), Link("KALI", Eth(0), "SW1", Et(3)),
               Link("SRV1", Eth(0), "SW2", Et(2))>>]

\* Faulty variant: SW1's Et0/1 carries the trunk and PC1, as it did before 2026-07-29.
Lab02Conflicting ==
  [Nodes |-> <<Switch("SW1"), Switch("SW2"), Switch("SW3"), PC("PC1"), Kali("KALI", 2)>>,
   Links |-> <<Link("SW1", Et(1), "SW2", Et(1)), Link("SW1", Et(2), "SW3", Et(1)),
               Link("SW2", Et(2), "SW3", Et(3)), Link("SW1", Et(1), "PC1", Eth(0)),
               Link("SW3", Et(2), "KALI", Eth(0))>>]

Lab02Topology ==
  [Nodes |-> <<Switch("SW1"), Switch("SW2"), Switch("SW3"), PC("PC1"), Kali("KALI", 2)>>,
   Links |-> <<Link("SW1", Et(0), "SW2", Et(1)), Link("SW1", Et(2), "SW3", Et(1)),
               Link("SW2", Et(2), "SW3", Et(3)), Link("SW1", Et(1), "PC1", Eth(0)),
               Link("SW3", Et(2), "KALI", Eth(0))>>]

Lab03Topology ==
  [Nodes |-> <<Switch("SW1"), PC("PC1"), PC("PC2"), Kali("KALI", 2)>>,
   Links |-> <<Link("PC1", Eth(0), "SW1", Et(1)), Link("PC2", Eth(0), "SW1", Et(2)),
               Link("KALI", Eth(0), "SW1", Et(3))>>]

Lab04Topology ==
  [Nodes |-> <<Switch("SW1"), RouterWAN("R1"), RouterWAN("R2"), Kali("KALI", 2)>>,
   Links |-> <<Link("R1", Fa(0, 0), "SW1", Et(0)), Link("R2", Fa(0, 0), "SW1", Et(1)),
               Link("KALI", Eth(0), "SW1", Et(2))>>]

Lab05Topology ==
  [Nodes |-> <<Switch("SW1"), RouterWAN("R1"), RouterWAN("R2"), Kali("KALI", 2)>>,
   Links |-> <<Link("R1", Fa(0, 0), "SW1", Et(0)), Link("R2", Fa(0, 0), "SW1", Et(1)),
               Link("KALI", Eth(0), "SW1", Et(2))>>]

Lab06Topology ==
  [Nodes |-> <<RouterWAN("R1"), Switch("SW1"), PC("SERVER"), Kali("KALI", 2)>>,
   Links |-> <<Link("R1", Fa(0, 0), "SW1", Et(0)), Link("KALI", Eth(0), "SW1", Et(1)),
               Link("R1", Fa(0, 1), "SERVER", Eth(0))>>]

Lab07Topology ==
  [Nodes |-> <<RouterESW("R1"), Switch("SW1"), Kali("KALI", 2)>>,
   Links |-> <<Link("R1", Fa(0, 0), "SW1", Et(1)), Link("KALI", Eth(0), "SW1", Et(2))>>]

Lab08Topology ==
  [Nodes |-> <<Router("R1"), Switch("SW1"), PC("PC1"), Kali("KALI", 2)>>,
   Links |-> <<Link("R1", Fa(0, 0), "SW1", Et(0)), Link("PC1", Eth(0), "SW1", Et(1)),
               Link("KALI", Eth(0), "SW1", Et(3))>>]

Lab09Topology ==
  [Nodes |-> <<Router("R1"), Router("R2"), Switch("SW1"), Switch("SW2"), PC("PC1"), PC("PC2"),
               Kali("KALI", 2)>>,
   Links |-> <<Link("R1", Fa(0, 0), "SW1", Et(0)), Link("PC1", Eth(0), "SW1", Et(1)),
               Link("R1", Fa(0, 1), "SW2", Et(0)), Link("R2", Fa(0, 0), "SW2", Et(1)),
               Link("KALI", Eth(0), "SW2", Et(2)), Link("R2", Fa(0, 1), "PC2", Eth(0))>>]

Lab10Topology ==
  [Nodes |-> <<Router("R1"), Switch("SW1"), PC("PC-A"), PC("PC-B"), Kali("KALI", 2)>>,
   Links |-> <<Link("R1", Fa(0, 0), "SW1", Et(0)), Link("PC-A", Eth(0), "SW1", Et(1)),
               Link("PC-B", Eth(0), "SW1", Et(2)), Link("KALI", Eth(0), "SW1", Et(3))>>]

Lab11Topology ==
  [Nodes |-> <<RouterESW("R1"), Switch("SW1"), Kali("KALI", 2)>>,
   Links |-> <<Link("R1", Fa(0, 0), "SW1", Et(1)), Link("KALI", Eth(0), "SW1", Et(2))>>]

Lab12Topology ==
  [Nodes |-> <<Router("R1"), Switch("SW1"), PC("PC1"), PC("PC2"), Kali("KALI", 2)>>,
   Links |-> <<Link("R1", Fa(0, 0), "SW1", Et(0)), Link("PC1", Eth(0), "SW1", Et(1)),
               Link("KALI", Eth(0), "SW1", Et(2)), Link("PC2", Eth(0), "SW1", Et(3))>>]

Lab13Topology ==
  [Nodes |-> <<Router("R1"), Switch("SW1"), Switch("AP1"), PC("PC1"), Kali("KALI", 2)>>,
   Links |-> <<Link("R1", Fa(0, 0), "SW1", Et(0)), Link("AP1", Et(0), "SW1", Et(1)),
               Link("PC1", Eth(0), "SW1", Et(2)), Link("KALI", Eth(0), "SW1", Et(3))>>]

Lab14Topology ==
  [Nodes |-> <<Router("R1"), Switch("SW1"), PC("PC1"), PC("PC2"), Kali("KALI", 2)>>,
   Links |-> <<Link("R1", Fa(0, 0), "SW1", Et(0)), Link("PC1", Eth(0), "SW1", Et(1)),
               Link("PC2", Eth(0), "SW1", Et(2)), Link("KALI", Eth(0), "SW1", Et(3))>>]

Lab15Topology ==
  [Nodes |-> <<HubNode("H1"), SwitchWith("SW1", 5), SwitchWith("R1", 6), Appliance("FW1"),
               PC("PC1"), PC("PC2"), PC("PC3"), Kali("KALI", 1), Kali("KALI2", 1)>>,
   Links |-> <<Link("PC1", Eth(0), "H1", Hub(0)), Link("PC2", Eth(0), "H1", Hub(1)),
               Link("KALI2", Eth(0), "H1", Hub(3)), Link("H1", Hub(2), "SW1", Et(0)),
               Link("PC3", Eth(0), "SW1", Et(1)), Link("KALI", Eth(0), "SW1", Et(2)),
               Link("SW1", Et(3), "R1", Et(0)), Link("R1", Et(1), "FW1", Ethernet(0))>>]

Lab16Topology ==
  [Nodes |-> <<Switch("SW1"), Switch("SW2"), Router("R1"), PC("PC1"), PC("PC2"), Kali("KALI", 2)>>,
   Links |-> <<Link("PC1", Eth(0), "SW1", Et(0)), Link("R1", Fa(0, 0), "SW1", Et(1)),
               Link("SW1", Et(2), "SW2", Et(1)), Link("KALI", Eth(0), "SW2", Et(0)),
               Link("PC2", Eth(0), "SW2", Et(2))>>]

Lab17Topology ==
  [Nodes |-> <<Router("R1"), Switch("SW1"), PC("PC1"), PC("PC2"), Kali("KALI", 2)>>,
   Links |-> <<Link("R1", Fa(0, 0), "SW1", Et(0)), Link("PC1", Eth(0), "SW1", Et(1)),
               Link("PC2", Eth(0), "SW1", Et(2)), Link("KALI", Eth(0), "SW1", Et(3))>>]

Lab18Topology ==
  [Nodes |-> <<Router("R1"), Switch("SW1"), PC("PC1"), Kali("KALI", 2)>>,
   Links |-> <<Link("R1", Fa(0, 0), "SW1", Et(0)), Link("PC1", Eth(0), "SW1", Et(1)),
               Link("KALI", Eth(0), "SW1", Et(2))>>]

Lab19Topology ==
  [Nodes |-> <<RouterWAN("R1"), Router("R2"), Switch("SW1"), PC("PC1"), PC("PC2"), PC("PC3"),
               Kali("KALI", 2)>>,
   Links |-> <<Link("R1", Fa(0, 0), "SW1", Et(0)), Link("PC1", Eth(0), "SW1", Et(1)),
               Link("PC2", Eth(0), "SW1", Et(2)), Link("KALI", Eth(0), "SW1", Et(3)),
               Link("R1", Fa(0, 1), "PC3", Eth(0)), Link("R1", Fa(2, 0), "R2", Fa(0, 0))>>]

Lab20Topology ==
  [Nodes |-> <<Switch("SW1"), PC("PC1"), RouterESW("R1"), Kali("KALI", 2)>>,
   Links |-> <<Link("PC1", Eth(0), "SW1", Et(1)), Link("KALI", Eth(0), "SW1", Et(2)),
               Link("R1", Fa(0, 0), "SW1", Et(3))>>]

Lab21Topology ==
  [Nodes |-> <<RouterESW("R1"), RouterESW("R2"), RouterESW("R3"), PC("PC1"), PC("PC2"),
               PC("PC3"), Kali("KALI", 2)>>,
   Links |-> <<Link("R1", Fa(0, 0), "R2", Fa(0, 0)), Link("R2", Fa(0, 1), "R3", Fa(0, 0)),
               Link("R3", Fa(0, 1), "R1", Fa(0, 1)), Link("R1", Gi(1, 1), "PC1", Eth(0)),
               Link("R1", Gi(1, 2), "KALI", Eth(0)), Link("R2", Gi(1, 1), "PC2", Eth(0)),
               Link("R3", Gi(1, 1), "PC3", Eth(0))>>]

Lab24Topology ==
  [Nodes |-> <<Switch("SW1"), Switch("SW2"), PC("PC1"), Kali("KALI", 2)>>,
   Links |-> <<Link("SW1", Et(0), "SW2", Et(0)), Link("KALI", Eth(0), "SW1", Et(1)),
               Link("PC1", Eth(0), "SW1", Et(2))>>]

Lab25Topology ==
  [Nodes |-> <<Switch("SW1"), Switch("SW2"), Switch("SW3"), PC("PC1"), PC("PC2"), Kali("KALI", 2)>>,
   Links |-> <<Link("SW1", Et(0), "SW2", Et(0)), Link("SW1", Et(1), "SW3", Et(0)),
               Link("SW2", Et(1), "SW3", Et(1)), Link("KALI", Eth(0), "SW1", Et(2)),
               Link("PC1", Eth(0), "SW1", Et(3)), Link("PC2", Eth(0), "SW3", Et(2))>>]

Lab26Topology ==
  [Nodes |-> <<Switch("SW1"), Switch("SW2"), PC("PC1"), Kali("KALI", 2)>>,
   Links |-> <<Link("SW1", Et(0), "SW2", Et(0)), Link("SW1", Et(1), "SW2", Et(1)),
               Link("KALI", Eth(0), "SW1", Et(2)), Link("PC1", Eth(0), "SW1", Et(3))>>]

Lab27Topology ==
  [Nodes |-> <<Router("R1"), Router("R2"), Router("R3"), Switch("SW1"), PC("PC1"), PC("PC2"),
               Kali("KALI", 2)>>,
   Links |-> <<Link("R1", Fa(0, 0), "SW1", Et(0)), Link("R1", Fa(0, 1), "R2", Fa(0, 0)),
               Link("R2", Fa(0, 1), "R3", Fa(0, 0)), Link("R3", Fa(0, 1), "PC2", Eth(0)),
               Link("PC1", Eth(0), "SW1", Et(1)), Link("KALI", Eth(0), "SW1", Et(2))>>]

Lab28Topology ==
  [Nodes |-> <<Router("R1"), Switch("SW1"), PC("PC1"), PC("PC2"), Kali("KALI", 2)>>,
   Links |-> <<Link("R1", Fa(0, 0), "SW1", Et(0)), Link("PC1", Eth(0), "SW1", Et(1)),
               Link("KALI", Eth(0), "SW1", Et(2)), Link("PC2", Eth(0), "SW1", Et(3))>>]

Lab29Topology ==
  [Nodes |-> <<Router("R1"), Switch("SW1"), PC("PC1"), PC("PC2"), Kali("KALI", 2)>>,
   Links |-> <<Link("R1", Fa(0, 0), "SW1", Et(0)), Link("PC1", Eth(0), "SW1", Et(1)),
               Link("KALI", Eth(0), "SW1", Et(2)), Link("PC2", Eth(0), "SW1", Et(3))>>]

Lab31Topology ==
  [Nodes |-> <<Router("R1"), Router("R2"), Switch("SW1"), PC("PC1"), Kali("KALI", 2)>>,
   Links |-> <<Link("R1", Fa(0, 0), "SW1", Et(0)), Link("R1", Fa(0, 1), "R2", Fa(0, 0)),
               Link("KALI", Eth(0), "SW1", Et(1)), Link("PC1", Eth(0), "SW1", Et(2))>>]

Lab32Topology ==
  [Nodes |-> <<Router("R1"), Switch("SW1"), PC("PC1"), Kali("KALI", 2)>>,
   Links |-> <<Link("R1", Fa(0, 0), "SW1", Et(0)), Link("KALI", Eth(0), "SW1", Et(1)),
               Link("PC1", Eth(0), "SW1", Et(2))>>]

Lab33Topology ==
  [Nodes |-> <<Router("R1"), Switch("SW1"), PC("PC1"), Kali("KALI", 2)>>,
   Links |-> <<Link("R1", Fa(0, 0), "SW1", Et(0)), Link("KALI", Eth(0), "SW1", Et(1)),
               Link("PC1", Eth(0), "SW1", Et(2))>>]

Lab34Topology ==
  [Nodes |-> <<Router("R1"), Switch("SW1"), Kali("KALI", 2)>>,
   Links |-> <<Link("R1", Fa(0, 0), "SW1", Et(0)), Link("KALI", Eth(0), "SW1", Et(1))>>]

Lab35Topology ==
  [Nodes |-> <<Router("R1"), Router("R2"), Switch("SW1"), PC("PC1"), Kali("KALI", 2)>>,
   Links |-> <<Link("R1", Fa(0, 0), "SW1", Et(0)), Link("R1", Fa(0, 1), "R2", Fa(0, 0)),
               Link("PC1", Eth(0), "SW1", Et(1)), Link("KALI", Eth(0), "SW1", Et(2))>>]

Lab36Topology ==
  [Nodes |-> <<Switch("SW1"), PC("PC1"), PC("PC2"), Kali("KALI", 2)>>,
   Links |-> <<Link("PC1", Eth(0), "SW1", Et(0)), Link("PC2", Eth(0), "SW1", Et(2)),
               Link("KALI", Eth(0), "SW1", Et(1))>>]

Lab37Topology ==
  [Nodes |-> <<Router("R1"), Switch("SW1"), PC("PC1"), Kali("KALI", 2)>>,
   Links |-> <<Link("R1", Fa(0, 0), "SW1", Et(0)), Link("KALI", Eth(0), "SW1", Et(1)),
               Link("PC1", Eth(0), "SW1", Et(2))>>]

Lab38Topology ==
  [Nodes |-> <<Router("R1"), Switch("SW1"), PC("PC-A"), Kali("KALI", 2)>>,
   Links |-> <<Link("R1", Fa(0, 0), "SW1", Et(0)), Link("PC-A", Eth(0), "SW1", Et(1)),
               Link("KALI", Eth(0), "SW1", Et(2))>>]

Lab39Topology ==
  [Nodes |-> <<Router("R1"), Router("R2"), Router("R3"), Switch("SW1"), Switch("SW2"), PC("PC1"),
               PC("PC2"), PC("PC3"), Kali("KALI", 2)>>,
   Links |-> <<Link("R1", Fa(0, 0), "SW1", Et(0)), Link("R1", Fa(0, 1), "R2", Fa(0, 0)),
               Link("R2", Fa(0, 1), "R3", Fa(0, 0)), Link("R3", Fa(0, 1), "SW2", Et(0)),
               Link("PC1", Eth(0), "SW1", Et(1)), Link("PC2", Eth(0), "SW1", Et(2)),
               Link("PC3", Eth(0), "SW2", Et(1)), Link("KALI", Eth(0), "SW1", Et(3))>>]

Lab43Topology ==
  [Nodes |-> <<Router("R1"), Switch("SW1"), Kali("KALI", 2)>>,
   Links |-> <<Link("R1", Fa(0, 0), "SW1", Et(0)), Link("KALI", Eth(0), "SW1", Et(1))>>]

Lab44Topology ==
  [Nodes |-> <<Router("R1"), Switch("SW1"), Kali("KALI", 2)>>,
   Links |-> <<Link("R1", Fa(0, 0), "SW1", Et(0)), Link("KALI", Eth(0), "SW1", Et(1))>>]

Lab45Topology ==
  [Nodes |-> <<Router("R1"), Switch("SW1"), Kali("KALI", 2)>>,
   Links |-> <<Link("R1", Fa(0, 0), "SW1", Et(0)), Link("KALI", Eth(0), "SW1", Et(1))>>]

Lab46Topology ==
  [Nodes |-> <<Switch("SW1"), PC("PC-A"), PC("PC-B"), Kali("KALI", 2)>>,
   Links |-> <<Link("PC-A", Eth(0), "SW1", Et(1)), Link("PC-B", Eth(0), "SW1", Et(2)),
               Link("KALI", Eth(0), "SW1", Et(3))>>]

Lab47Topology ==
  [Nodes |-> <<Router("R1"), ApplianceWith("FW", 4, "vnc"), Router7200("R2"),
               SwitchWith("SW1", 4), PC("PC1"), PC("PC2"), Kali("KALI", 2)>>,
   Links |-> <<Link("KALI", Eth(0), "R1", Fa(0, 0)), Link("R1", Fa(0, 1), "FW", Ethernet(0)),
               Link("FW", Ethernet(1), "R2", Fa(0, 0)), Link("R2", Fa(1, 0), "SW1", Et(0)),
               Link("PC1", Eth(0), "SW1", Et(1)), Link("PC2", Eth(0), "SW1", Et(2))>>]

-----------------------------------------------------------------------------
(***************************************************************************)
(* lookupTopologyTemplate: a lab without an entry is content-only.         *)
(***************************************************************************)
LiveLabs ==
  [lab \in (1..21) \cup (24..29) \cup (31..39) \cup (43..47) |->
     CASE lab = 1  -> Lab01Topology   [] lab = 2  -> Lab02Topology   [] lab = 3  -> Lab03Topology
       [] lab = 4  -> Lab04Topology   [] lab = 5  -> Lab05Topology   [] lab = 6  -> Lab06Topology
       [] lab = 7  -> Lab07Topology   [] lab = 8  -> Lab08Topology   [] lab = 9  -> Lab09Topology
       [] lab = 10 -> Lab10Topology   [] lab = 11 -> Lab11Topology   [] lab = 12 -> Lab12Topology
       [] lab = 13 -> Lab13Topology   [] lab = 14 -> Lab14Topology   [] lab = 15 -> Lab15Topology
       [] lab = 16 -> Lab16Topology   [] lab = 17 -> Lab17Topology   [] lab = 18 -> Lab18Topology
       [] lab = 19 -> Lab19Topology   [] lab = 20 -> Lab20Topology   [] lab = 21 -> Lab21Topology
       [] lab = 24 -> Lab24Topology   [] lab = 25 -> Lab25Topology   [] lab = 26 -> Lab26Topology
       [] lab = 27 -> Lab27Topology   [] lab = 28 -> Lab28Topology   [] lab = 29 -> Lab29Topology
       [] lab = 31 -> Lab31Topology   [] lab = 32 -> Lab32Topology   [] lab = 33 -> Lab33Topology
       [] lab = 34 -> Lab34Topology   [] lab = 35 -> Lab35Topology   [] lab = 36 -> Lab36Topology
       [] lab = 37 -> Lab37Topology   [] lab = 38 -> Lab38Topology   [] lab = 39 -> Lab39Topology
       [] lab = 43 -> Lab43Topology   [] lab = 44 -> Lab44Topology   [] lab = 45 -> Lab45Topology
       [] lab = 46 -> Lab46Topology   [] lab = 47 -> Lab47Topology]

ConceptualLab == [Nodes |-> << >>, Links |-> << >>]

lookupTopologyTemplate(lab) == IF lab \in DOMAIN LiveLabs THEN LiveLabs[lab] ELSE ConceptualLab

=============================================================================
