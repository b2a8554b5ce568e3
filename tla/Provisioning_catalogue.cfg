\* Every lab of the catalogue, next to a second launch.
SPECIFICATION Spec
CONSTANTS
  None = None
  s1 = s1
  s2 = s2
  Sessions <- MCSessions
  Launches <- MCLaunches
  Faults = {"gns3", "lost_reply", "mac", "db", "crash"}
  MaxSecond = 1
INVARIANTS
  TypeOK
  FailsForCause
  RunningIsBuilt
  VerifiersServed
PROPERTIES
  ImplementsOutcome
