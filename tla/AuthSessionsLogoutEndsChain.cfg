CONSTANTS
  Users = {u1}
  Tokens = {t1, t2, t3}
  Requests = {r1, r2}
  RefreshTokenExpiry = 1
  RefreshTokenAbsolute = 3
  RefreshTokenGrace = 1
  MaxTime = 3
  MaxLogins = 3
  None = None
SPECIFICATION Spec
SYMMETRY Symmetry
CONSTRAINT FewLogins
INVARIANTS
  LogoutEndsChain
