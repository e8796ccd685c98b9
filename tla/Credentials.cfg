\* Two requests race over two accounts, their passwords and their mails.
CONSTANTS
  r1 = r1
  r2 = r2
  Requests <- MCRequests
  Workloads <- MCWorkloads
  Users = {u1, u2}
  Addresses = {a1, a2}
  Usernames = {n1, n2}
  Passwords = {p1, p2}
  GithubIds = {g1}
  Tokens = {t1, t2}
  Workers = {w1}
  QueueSize = 1
  None = None
SPECIFICATION Spec
SYMMETRY Symmetry
INVARIANTS
  TypeOK
  UniqueIdentities
  ChangedForGood
  MailsAccountedFor
PROPERTIES
  DeletedUntouched
