SPECIFICATION TaskSpec
CONSTANTS
  r1 = r1
  p1 = p1
  i1 = i1
  Node = {r1, p1}
  Id = {i1}
  Rpc = {s1, s2}
  Want <- OneWant
  Flags = {FALSE, TRUE}
  Crashing = {}
INVARIANT CheckUnderWay
PROPERTIES
  SendReleased
  VerifyEnds
  SendLeaves
