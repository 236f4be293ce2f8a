SPECIFICATION Spec
CONSTANTS
  Top = 3
  Longest = 4
  Indexes <- AllIndexes
  Id = {1, 2}
  Owner = owner
  Self = self
  MaxCommits = 1
INVARIANTS ConflictFound AlarmWithinSpan
PROPERTY T2StaysLocked
CHECK_DEADLOCK FALSE
