SPECIFICATION FairSpec
CONSTANTS
  u1 = u1
  u2 = u2
  q = q
  fee = fee
  Queue = q
  FeeRecipient = fee
  Users = {u1, u2}
  FeeShares = {0}
  Amounts = {}
  Moves = {}
  Marks = {0}
  Halts = {}
  VestingModes = {FALSE}
  SanctionTargets = {u1}
  MaxHeld = 9
  MaxSupply = 20
  InitShares = 6
  InitHeld = 8
  Bps = 2
  MinResidueValue = 1
  MaxMinValue = 4
  DefaultCooldown = 1
  MaxCooldown = 2
  Durations = {1}
  Cooldowns = {1}
  LiquidityShares = {2}
  MinValues = {2}
  IdleLevels = {4}
  Sizes = {4, 6}
  Chunks = {1, 3}
  MaxRequests = 3
  VirtualShares = 2
  One = 4
  StrandedRatio = 3
  CollapseDivisor = 4
PROPERTIES EveryoneServed
