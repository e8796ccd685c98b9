\* Grace window off: a token is good for one refresh. Two accounts and their logouts.
CONSTANTS
  Users = {u1, u2}
  Tokens = {t1, t2, t3}
  Requests = {r1, r2}
  RefreshTokenExpiry = 1
  RefreshTokenAbsolute = 1
  RefreshTokenGrace = 0
  MaxTime = 1
  MaxLogins = 1
  None = None
SPECIFICATION Spec
SYMMETRY Symmetry
CONSTRAINT FewLogins
INVARIANTS
  RevocationScoped
  StrictSingleUse
PROPERTIES
  RefinesTokenFamilies
