\* An owner who learns and three to invite; two requests at a time.
SPECIFICATION Spec
CONSTANTS
  None = None
  acc1 = acc1
  acc2 = acc2
  acc3 = acc3
  acc4 = acc4
  lab1 = lab1
  lab37 = lab37
  Users <- MCUsers
  Owners <- MCOwners
  Learners <- MCLearners
  Requests = {r1, r2}
  Seats = 2
  Catalogues <- MCCatalogues
  Codes = {c1, c2}
  MaxTeams = 3
INVARIANTS
  TypeOK
  OverrunIsBounded
  CertificateEarned
  MailedCodesStayValid
SYMMETRY Symmetry
