----------------------------- MODULE Verifiers -----------------------------
(***************************************************************************)
(* The console-truth verifiers of src/internal/labsession/labNN_verify.go: *)
(* for a lab and a phase, the device whose console is driven and the list  *)
(* of assertions (src/internal/verify/dsl.go, dsl_stubs.go).  A host that  *)
(* is named through sess.MAC or an IP plan is named by its node.           *)
(***************************************************************************)
EXTENDS Catalogue

ExpectInterfaceUp(port)       == [kind |-> "up", port |-> port]
ExpectInterfaceDown(port)     == [kind |-> "down", port |-> port]
ExpectPortVLAN(port, vlan)    == [kind |-> "vlan", port |-> port, vlan |-> vlan]
ExpectDescription(port)       == [kind |-> "description", port |-> port]
ExpectErrdisableRecovery      == [kind |-> "recovery"]
ExpectMACOnPort(host, port)   == [kind |-> "mac", hosts |-> {host}, port |-> port]
ExpectMACsShareOnePort(hosts, port) == [kind |-> "mac", hosts |-> hosts, port |-> port]
ExpectMACCount(n)             == [kind |-> "count", n |-> n]
ExpectRootBridge(device)      == [kind |-> "root", device |-> device]
ExpectPortRole(device, port, role) ==
  [kind |-> "role", device |-> device, port |-> port, role |-> role]
ExpectPortSecurityViolations(port) == [kind |-> "violations", port |-> port]
ExpectReachable(host)         == [kind |-> "reachable", host |-> host]
ExpectNotReachable(host)      == [kind |-> "unreachable", host |-> host]

-----------------------------------------------------------------------------
Lab1BuildVerifier ==
  <<ExpectPortVLAN(Et(1), 10), ExpectPortVLAN(Et(3), 10), ExpectInterfaceUp(Et(2))>>

Lab02BuildVerifier  == <<ExpectRootBridge("SW1")>>
Lab02AttackVerifier == <<ExpectPortRole("SW3", Et(2), "Root")>>
Lab02HardenVerifier == <<ExpectPortRole("SW3", Et(3), "Altn")>>

Lab03BuildVerifier  == <<ExpectMACCount(2)>>
Lab03AttackVerifier == <<ExpectMACCount(100)>>
Lab03HardenVerifier == <<ExpectPortSecurityViolations(Et(3)), ExpectInterfaceDown(Et(3))>>

Lab8BuildVerifier  == <<ExpectReachable("R1")>>
Lab8AttackVerifier == <<ExpectInterfaceUp(Et(0)), ExpectInterfaceUp(Et(1)), ExpectInterfaceUp(Et(3))>>
Lab8HardenVerifier == <<ExpectInterfaceUp(Et(1)), ExpectInterfaceUp(Et(3))>>

Lab15BuildVerifier ==
  <<ExpectMACsShareOnePort({"PC1", "PC2", "KALI2"}, Et(0)),
    ExpectMACOnPort("PC3", Et(1)), ExpectMACOnPort("KALI", Et(2))>>
Lab15AttackVerifier ==
  <<ExpectInterfaceUp(Et(0)), ExpectInterfaceUp(Et(1)), ExpectInterfaceUp(Et(2)),
    ExpectInterfaceUp(Et(3)), ExpectPortVLAN(Et(1), 1), ExpectReachable("PC1"),
    ExpectReachable("PC2"), ExpectReachable("PC3"), ExpectReachable("KALI")>>
Lab15HardenVerifier ==
  <<ExpectDescription(Et(0)), ExpectDescription(Et(1)), ExpectDescription(Et(2)),
    ExpectDescription(Et(3)), ExpectDescription(Et(4)), ExpectErrdisableRecovery>>

Lab16BuildVerifier  == <<ExpectInterfaceUp(Et(2))>>
Lab16AttackVerifier == <<ExpectInterfaceDown(Et(0))>>
Lab16HardenVerifier == <<ExpectInterfaceUp(Et(2)), ExpectInterfaceUp(Et(0))>>

Lab47BuildVerifier ==
  <<ExpectInterfaceUp(Et(0)), ExpectPortVLAN(Et(1), 10), ExpectPortVLAN(Et(2), 20)>>
Lab47AttackVerifier ==
  <<ExpectInterfaceUp(Fa(0, 0)), ExpectInterfaceUp(Fa(0, 1)), ExpectReachable("R2"),
    ExpectReachable("PC1"), ExpectReachable("PC2")>>
Lab47HardenVerifier ==
  <<ExpectInterfaceUp(Fa(0, 0)), ExpectInterfaceUp(Fa(0, 1)),
    ExpectNotReachable("PC1"), ExpectNotReachable("PC2")>>

-----------------------------------------------------------------------------
(***************************************************************************)
(* VerifierRegistry, as main fills it: a phase without an entry has no     *)
(* verifier and is never passed.                                           *)
(***************************************************************************)
Entry(target, checks) == [TargetDevice |-> target, Checks |-> checks]

NewVerifierRegistry == << >>

Register(reg, lab, phase, target, checks) ==
  [k \in DOMAIN reg \cup {<<lab, phase>>} |->
     IF k = <<lab, phase>> THEN Entry(target, checks) ELSE reg[k]]

RegisterLab1Verifiers(reg) == Register(reg, 1, "build", "SW1", Lab1BuildVerifier)

\* Faulty variant: the console driven is not that of the device asserted about.
RegisterLab02OnSW2(reg) ==
  LET built    == Register(reg, 2, "build", "SW1", Lab02BuildVerifier)
      attacked == Register(built, 2, "attack", "SW3", Lab02AttackVerifier)
  IN Register(attacked, 2, "harden", "SW2", Lab02HardenVerifier)

RegisterLab02Verifiers(reg) ==
  LET built    == Register(reg, 2, "build", "SW1", Lab02BuildVerifier)
      attacked == Register(built, 2, "attack", "SW3", Lab02AttackVerifier)
  IN Register(attacked, 2, "harden", "SW3", Lab02HardenVerifier)

RegisterLab03Verifiers(reg) ==
  LET built    == Register(reg, 3, "build", "SW1", Lab03BuildVerifier)
      attacked == Register(built, 3, "attack", "SW1", Lab03AttackVerifier)
  IN Register(attacked, 3, "harden", "SW1", Lab03HardenVerifier)

RegisterLab8Verifiers(reg) ==
  LET built    == Register(reg, 8, "build", "SW1", Lab8BuildVerifier)
      attacked == Register(built, 8, "attack", "SW1", Lab8AttackVerifier)
  IN Register(attacked, 8, "harden", "SW1", Lab8HardenVerifier)

RegisterLab15Verifiers(reg) ==
  LET built    == Register(reg, 15, "build", "SW1", Lab15BuildVerifier)
      attacked == Register(built, 15, "attack", "SW1", Lab15AttackVerifier)
  IN Register(attacked, 15, "harden", "SW1", Lab15HardenVerifier)

RegisterLab16Verifiers(reg) ==
  LET built    == Register(reg, 16, "build", "SW1", Lab16BuildVerifier)
      attacked == Register(built, 16, "attack", "SW1", Lab16AttackVerifier)
  IN Register(attacked, 16, "harden", "SW1", Lab16HardenVerifier)

RegisterLab47Verifiers(reg) ==
  LET built    == Register(reg, 47, "build", "SW1", Lab47BuildVerifier)
      attacked == Register(built, 47, "attack", "R1", Lab47AttackVerifier)
  IN Register(attacked, 47, "harden", "R1", Lab47HardenVerifier)

verifyReg ==
  LET with1  == RegisterLab1Verifiers(NewVerifierRegistry)
      with8  == RegisterLab8Verifiers(with1)
      with15 == RegisterLab15Verifiers(with8)
      with16 == RegisterLab16Verifiers(with15)
      with02 == RegisterLab02Verifiers(with16)
      with03 == RegisterLab03Verifiers(with02)
  IN RegisterLab47Verifiers(with03)

Entries(lab) == {verifyReg[k] : k \in {x \in DOMAIN verifyReg : x[1] = lab}}

(***************************************************************************)
(* The ports of its target a verifier reads and expects a cable in, and    *)
(* the hosts it knows by their MAC.  A description can be put on any port. *)
(***************************************************************************)
CabledKinds == {"up", "down", "vlan", "role", "mac", "violations"}

PortsRead(entry) == {c.port : c \in {x \in {entry.Checks[i] : i \in DOMAIN entry.Checks} :
                                        x.kind \in CabledKinds}}
HostsRead(entry) == UNION {c.hosts : c \in {x \in {entry.Checks[i] : i \in DOMAIN entry.Checks} :
                                               x.kind = "mac"}}
DevicesNamed(entry) == {c.device : c \in {x \in {entry.Checks[i] : i \in DOMAIN entry.Checks} :
                                             x.kind \in {"root", "role"}}}

=============================================================================
