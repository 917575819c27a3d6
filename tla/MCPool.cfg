SPECIFICATION MCSpec
CONSTANTS
  MaxUser = 2
  PRECISION = 1000
  minimumScalingFactor = 200
  rewardSenderActive = TRUE
  sbrDistributionRate = 2
  sbrDistributionTime = 2
  MaxResets = 4
  StakeAmounts = {1, 2, 15, 85}
  RewardAmounts = {1}
  CollateralAmounts = {1, 2, 50}
  LiquidationAmounts = {1, 2, 15, 81}
  Supply = 100
  MaxTime = 4
  MaxRewards = 4
  MaxCalls = 2
  Scenarios = {"losses", "callbacks", "pastTheEnd"}
INVARIANTS TypeOK StakesFitTotal SolventWithoutLapses FlagTellsStakers IssuanceWithoutLapses
PROPERTIES LiquidationShared
CHECK_DEADLOCK FALSE
