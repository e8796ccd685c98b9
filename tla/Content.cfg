\* Two requests race over posts, their tags, reports, reactions and bookmarks.
CONSTANTS
  r1 = r1
  r2 = r2
  Requests <- MCRequests
  Workloads <- MCWorkloads
  Users = {u1, u2}
  Post = {p1, p2}
  MaxPosts <- MCMaxPosts
  MaxDecisions = 2
  Tags = {t1, t2}
  TagNames = {go, news}
  Comment = {c1}
  Bookmark = {b1, b2}
  Folder = {f1, f2}
  Notice = {n1, n2}
  None = None
SPECIFICATION Spec
SYMMETRY Symmetry
INVARIANTS
  TypeOK
  LogAccounts
  TagsAsAsked
  CountsMatchRows
PROPERTIES
  HiddenLeftAlone
