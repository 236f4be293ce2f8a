SPECIFICATION Spec
CONSTANTS
  Task = {1, 2}
  Wallet = {w1, w2}
  Peer = {p1, p2}
  NoPeer = none
  p1 = p1
  p2 = p2
  w1 = w1
  w2 = w2
  o1 = o1
  o2 = o2
  Commit <- Commits
  Owner <- Owners
  Epoch <- Epochs
  Providers <- BothKnow
  Holds <- Holders
  Known <- Records
PROPERTY CommitsKept
CHECK_DEADLOCK FALSE
