SPECIFICATION Spec
CONSTANTS
  u1 = u1
  q = q
  fee = fee
  Queue = q
  FeeRecipient = fee
  Users = {u1}
  FeeShares = {0}
  Amounts = {}
  Moves = {}
  Marks = {0}
  Halts = {}
  VestingModes = {FALSE}
  SanctionTargets = {}
  MaxHeld = 9
  MaxSupply = 20
  InitShares = 12
  InitHeld = 8
  Bps = 2
  MinResidueValue = 1
  MaxMinValue = 4
  DefaultCooldown = 1
  MaxCooldown = 2
  Durations = {1}
  Cooldowns = {1}
  LiquidityShares = {1, 2}
  MinValues = {0}
  IdleLevels = {2, 3, 8}
  Sizes = {3, 5}
  Chunks = {1, 3}
  MaxRequests = 1
  VirtualShares = 2
  One = 4
  StrandedRatio = 3
  CollapseDivisor = 4
INVARIANTS BudgetSharesMaximal
