\* A grace window on, which outlasts the absolute deadline.
CONSTANTS
  Users = {u1}
  Tokens = {t1, t2, t3}
  Requests = {r1, r2}
  RefreshTokenExpiry = 1
  RefreshTokenAbsolute = 2
  RefreshTokenGrace = 1
  MaxTime = 3
  MaxLogins = 2
  None = None
SPECIFICATION Spec
SYMMETRY Symmetry
CONSTRAINT FewLogins
INVARIANTS
  TypeOK
  FamilyDeadline
  SingleSuccessor
  RevocationIsFinal
PROPERTIES
  GraceAnchored
  OnlyRevocationRemovesLiveRows
  NoRedemptionPastDeadline
