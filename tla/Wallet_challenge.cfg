SPECIFICATION Spec
CONSTANTS
  Address = {owner, alice, bob}
  Owner = owner
  Nobody = nobody
  alice = alice
  bob = bob
  u1 = u1
  Index = {1, 2}
  U = {u1}
  Signatures <- AllSigned
  EpochDuration = 5
  IndexValue = 1
  BurnBuffer = 2
  InvDisadvantage = 1
  Tokens <- AnyToken
  StartTime = 10
  Times = {11, 15}
  MaxEpoch = 1
  MaxDeposit = 2
PROPERTY BurnContestable
CHECK_DEADLOCK FALSE
