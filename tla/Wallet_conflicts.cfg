SPECIFICATION Spec
CONSTANTS
  Address = {owner, alice, bob}
  Owner = owner
  Nobody = nobody
  alice = alice
  bob = bob
  u1 = u1
  Index = {1, 2}
  U = {u1, u2}
  Signatures <- AllSigned
  EpochDuration = 5
  IndexValue = 1
  BurnBuffer = 2
  InvDisadvantage = 1
  Tokens <- AnyToken
  StartTime = 0
  Times = {1, 2, 5}
  MaxEpoch = 2
  MaxDeposit = 4
INVARIANTS TypeOK UsedOnce PaidOnce BurnLedger
PROPERTIES ClaimsSpec BlockedForGood
CHECK_DEADLOCK FALSE
