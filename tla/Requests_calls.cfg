SPECIFICATION FairSpec
CONSTANTS
  Node = {a, b}
  a = a
  b = b
  r1 = r1
  r2 = r2
  q = q
  d = d
  Request = {r1, r2}
  Query = {q}
  Direct = {d}
  From <- Callers
  To <- Peers
  Update = {r2}
  Refusable = {q}
  CommandCap = 2
  EventCap = 1
INVARIANTS TypeOK Registered ChannelHeld
PROPERTIES RpcSpec CallsEnd RepliesEnd
CHECK_DEADLOCK FALSE
