SPECIFICATION Spec
CONSTANTS
  u1 = u1
  q = q
  fee = fee
  Queue = q
  FeeRecipient = fee
  Users = {u1}
  FeeShares = {0, 2}
  Amounts = {}
  Moves = {}
  Marks = {0}
  Halts = {"queuePaused", "exitsLocked", "vaultPaused"}
  VestingModes = {FALSE}
  SanctionTargets = {}
  MaxHeld = 9
  MaxSupply = 14
  InitShares = 12
  InitHeld = 8
  Bps = 2
  MinResidueValue = 1
  MaxMinValue = 4
  DefaultCooldown = 1
  MaxCooldown = 2
  Durations = {1, 2}
  Cooldowns = {1, 2}
  LiquidityShares = {1}
  MinValues = {0, 4}
  IdleLevels = {6, 16}
  Sizes = {4}
  Chunks = {1, 2}
  MaxRequests = 3
  VirtualShares = 2
  One = 4
  StrandedRatio = 3
  CollapseDivisor = 4
INVARIANTS FloorReachable BudgetBound
PROPERTIES HeartbeatEarned
