SPECIFICATION Spec
CONSTANTS
  NumHolders = 2
  Delegatees = {0, 1, 2}
  Transfers = {1}
  Amounts = {1, 2}
  InitGrove = 2
  Wad = 1
  Rewards = {}
  Cover = {}
  Events = {}
  Durations = {1}
  UnbondingPeriods = {1, 2}
  MaxUnbonding = 2
  MaxDuration = 1
  PauseModes = {TRUE, FALSE}
  MaxUnbonds = 1
  MaxIndex = 0
  MaxUsdfr = 0
  MaxCoverage = 0
INVARIANTS VotesAreStake OneVoteEach GroveCustody
