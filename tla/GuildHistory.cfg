\* Two requests of one user while a client pages through a channel.
CONSTANTS
  Guild = {g1}
  Users = {u1}
  Requests = {r1, r2}
  Channels = {c1}
  Names = {general}
  General = general
  MaxId = 2
  Operations = {"send", "edit", "remove", "deleteChannel"}
  None = None
  Instances = {i1}
  Streams = {s1}
  Buffer = 1
  WithRedis = FALSE
  Limit = 1
SPECIFICATION Spec
SYMMETRY Symmetry
INVARIANTS
  NothingMissed
  PagesDisjoint
CHECK_DEADLOCK FALSE
