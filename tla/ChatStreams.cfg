\* One request streams while the other writes and deletes around it.
CONSTANTS
  r1 = r1
  r2 = r2
  Users = {u1}
  Requests <- MCRequests
  Operations <- MCOperations
  Conversations = {c1}
  MaxId = 2
  MaxChunks = 2
  None = None
SPECIFICATION FairSpec
INVARIANTS
  TypeOK
  OneVerdict
  ShownIsStored
  WholeReplies
PROPERTIES
  StreamsEnd
CHECK_DEADLOCK FALSE
