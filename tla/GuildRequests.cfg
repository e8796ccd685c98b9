\* Two requests race on one guild with two users and two channels; nobody listens.
CONSTANTS
  Guild = {g1}
  Users = {u1, u2}
  Requests = {r1, r2}
  Channels = {c1, c2}
  Names = {general, talk}
  General = general
  MaxId = 2
  Operations = {"join", "leave", "deleteGuild", "createChannel", "deleteChannel", "send", "edit", "remove"}
  None = None
  Instances = {i1}
  Streams = {}
  Buffer = 1
  WithRedis = FALSE
  Limit = 1
SPECIFICATION Spec
SYMMETRY Symmetry
INVARIANTS
  TypeOK
  OwnerKeepsSeat
  MemberCountExact
  OwnWords
  QuotesStayInChannel
CHECK_DEADLOCK FALSE
