SPECIFICATION FairSpec
CONSTANTS
  u1 = u1
  q = q
  fee = fee
  Queue = q
  FeeRecipient = fee
  Users = {u1}
  FeeShares = {0}
  Amounts = {}
  Moves = {}
  Marks = {0}
  Halts = {}
  VestingModes = {FALSE}
  SanctionTargets = {}
  MaxHeld = 9
  MaxSupply = 20
  InitShares = 12
  InitHeld = 8
  Bps = 2
  MinResidueValue = 1
  MaxMinValue = 4
  DefaultCooldown = 1
  MaxCooldown = 2
  Durations = {1}
  Cooldowns = {1}
  LiquidityShares = {2}
  MinValues = {0, 2}
  IdleLevels = {2, 8}
  Sizes = {2, 5}
  Chunks = {1}
  MaxRequests = 2
  VirtualShares = 2
  One = 4
  StrandedRatio = 3
  CollapseDivisor = 4
PROPERTIES SettlementCloses
