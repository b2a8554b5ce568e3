--------------------------- MODULE ProvisionedLab ---------------------------
(***************************************************************************)
(* What a verification finds of a session that Provisioning made running:  *)
(* the console addresses and MAC addresses of verify_resolver.go and       *)
(* verify/lab_session.go, for the verifiers that main registers.           *)
(***************************************************************************)
EXTENDS Provisioning, Verifiers

\* usesVNCConsole: such a node is not reached over telnet.
usesVNCConsole(info) == info.ConsoleType = "vnc" \/ info.NodeType = "qemu"

\* ResolveVerifySession, and LabSession.MAC with its sentinel for a node without one.
Unresolved(h) == <<"unresolved", h>>

ResolvedMAC(s, h) ==
  IF h \in DOMAIN row[s].nodes /\ row[s].nodes[h].MAC # "" THEN row[s].nodes[h].MAC ELSE Unresolved(h)

ConsoleNodes(s) == {n \in DOMAIN row[s].nodes : ~usesVNCConsole(row[s].nodes[n])}

\* Hosts that share a cable or a hub with a port of a device.
Peers(t, end) ==
  LET Across(e) == UNION {Ends(t, l) \ {e} : l \in {x \in Elements(t.Links) : e \in Ends(t, x)}}
      Hubs == {e[1] : e \in {f \in Across(end) : nodeTypeOf(t, f[1]) = "ethernet_hub"}}
      OnHub == {e \in UNION {Ends(t, l) : l \in Elements(t.Links)} : e[1] \in Hubs}
  IN {e[1] : e \in Across(end)} \cup {e[1] : e \in UNION {Across(h) : h \in OnHub}}

(***************************************************************************)
(* A running session meets the needs of its lab's verifiers: the device    *)
(* whose console is driven is an IOS device of the node map with a telnet  *)
(* console and is the device the assertions speak of; every port they read *)
(* has a cable; a host they look for by MAC address is behind the port     *)
(* they look at; and the addresses they compare are those of different     *)
(* hosts (lab02_verify.go, RegisterLab02Verifiers: "Keep both in sync").   *)
(***************************************************************************)
VerifiersServed == \A s \in Sessions :
  row[s].status = "running" =>
    \A entry \in Entries(lab[s].Id) :
      LET d == entry.TargetDevice
          End(p) == <<d, interfaceToPort(nodeTypeOf(lab[s], d), p)>>
      IN /\ d \in ConsoleNodes(s)
         /\ row[s].nodes[d].NodeType \in {"iou", "dynamips"}
         /\ DevicesNamed(entry) \subseteq {d}
         /\ \A p \in PortsRead(entry) : End(p) \in project[s].cables
         /\ \A i \in DOMAIN entry.Checks :
              entry.Checks[i].kind = "mac" =>
                entry.Checks[i].hosts \subseteq Peers(lab[s], End(entry.Checks[i].port))
         /\ \A g, h \in HostsRead(entry) : ResolvedMAC(s, g) = ResolvedMAC(s, h) => g = h

=============================================================================
