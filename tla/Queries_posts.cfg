SPECIFICATION FairSpec
CONSTANTS
  Node = {a, b}
  a = a
  b = b
  Data = {text}
  Address = {addr}
  NoAddress = none
  Post = {1, 2}
  MaxPosts = 2
  EventCap = 1
  Crashing = {a}
INVARIANTS TypeOK OnlyPublished TrueAnswer NothingVanishes
PROPERTIES Propagated PostsEnd
CHECK_DEADLOCK FALSE
