SPECIFICATION Spec
CONSTANTS
  NumHolders = 2
  Delegatees = {}
  Transfers = {}
  Amounts = {1}
  InitGrove = 2
  Wad = 2
  Rewards = {1, 4}
  Cover = {2}
  Events = {"e1"}
  Durations = {1, 2}
  UnbondingPeriods = {1}
  MaxUnbonding = 2
  MaxDuration = 3
  PauseModes = {}
  MaxUnbonds = 1
  MaxIndex = 3
  MaxUsdfr = 5
  MaxCoverage = 2
INVARIANTS TypeOK RewardsHeld
PROPERTIES EarnedByTime StreamNeverSlowed
