SPECIFICATION Spec
CONSTANTS
  u1 = u1
  q = q
  fee = fee
  Queue = q
  FeeRecipient = fee
  Users = {u1}
  FeeShares = {0, 1}
  Amounts = {1, 4}
  Moves = {2}
  Marks = {0, 2}
  Halts = {}
  VestingModes = {TRUE, FALSE}
  SanctionTargets = {}
  MaxHeld = 7
  MaxSupply = 9
  InitShares = 6
  InitHeld = 5
  Bps = 2
  MinResidueValue = 1
  MaxMinValue = 4
  DefaultCooldown = 0
  MaxCooldown = 0
  Durations = {1}
  Cooldowns = {0}
  LiquidityShares = {2}
  MinValues = {0}
  IdleLevels = {6}
  Sizes = {3}
  Chunks = {1}
  MaxRequests = 2
  VirtualShares = 2
  One = 4
  StrandedRatio = 3
  CollapseDivisor = 4
INVARIANTS TypeOK StreamBacked
PROPERTIES NoDilution ChunkLeavesNoStep
