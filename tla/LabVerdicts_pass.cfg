\* Every lab phase that has a verifier.
SPECIFICATION Spec
CONSTANTS
  None = None
  Works <- MCWorks
  Template <- LiveLabs
  Registry <- verifyReg
INVARIANTS
  TypeOK
  VerdictIsRight
  DescribedWorkFails
  PassNeedsWork
