\* Two users join and leave while their streams are open; nobody writes.
CONSTANTS
  Guild = {g1}
  Users = {u1, u2}
  Requests = {r1, r2}
  Channels = {c1}
  Names = {general}
  General = general
  MaxId = 0
  Operations = {"join", "leave", "deleteGuild", "updateGuild", "updateChannel"}
  None = None
  Instances = {i1}
  Streams = {s1}
  Buffer = 1
  WithRedis = FALSE
  Limit = 1
SPECIFICATION FairSpec
PROPERTY
  LeaversCutOff
CHECK_DEADLOCK FALSE
