SPECIFICATION MCSpec
CONSTANTS
  MaxUser = 3
  PRECISION = 10000
  minimumScalingFactor = 2000
  rewardSenderActive = TRUE
  sbrDistributionRate = 0
  sbrDistributionTime = 1
  StakeAmounts = {3000, 8000}
  RewardAmounts = {700}
  CollateralAmounts = {500, 4000}
  LiquidationAmounts = {2500, 8000}
  Supply = 40000
  MaxTime = 9
  MaxRewards = 9
  MaxResets = 1
  MaxCalls = 0
  Borrowers = {1, 2}
  Bots = {3}
  BorrowAmounts = {10000}
  ShieldingFees = {1000}
  TradeAmounts = {2000}
  SmallStake = 1
  SBRTotalStake = 0
  totalPrecision = 40
  aggregatePrecision = 25
  numSimulations = 4
  MaxBusy <- Bounds
INVARIANTS BooksAgree UnlistedHaveNothing
PROPERTIES Ends
CHECK_DEADLOCK FALSE
