--------------------------- MODULE MCProvisioning ---------------------------
EXTENDS ProvisionedLab

CONSTANTS s1, s2

MCSessions == {s1, s2}

Launched(id) == [Id |-> id] @@ lookupTopologyTemplate(id)
Both(a, b) == s1 :> Launched(a) @@ s2 :> Launched(b)

\* Every lab of the catalogue alone (lab 22 is content-only), and two launches
\* of one small lab or of two.
MCLaunches ==
  {Both(id, 22) : id \in DOMAIN LiveLabs \cup {22}} \cup {Both(43, 43), Both(44, 43)}

\* A launch without a fault and without a rival tries every node and every link:
\* FailsForCause of these launches is SoundTopologies, the premise of
\* ProvisioningProofs, LaunchesFailForCause; and VerifiersServed of the rows that
\* become running is the premise of RunningLabsServeVerifiers.

=============================================================================
