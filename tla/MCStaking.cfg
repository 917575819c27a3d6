SPECIFICATION MCSpec
CONSTANTS
  MaxUser = 2
  PRECISION = 1000
  rewardSenderActive = TRUE
  StakeAmounts = {3, 20, 50}
  RewardAmounts = {}
  CollateralAmounts = {7, 40}
  DFIRESupply = 200
  MaxPerToken = 1000000
  MaxBalance = 100000
  MaxCalls = 2
  ShieldingFees = {150, 990}
  totalPrecision = 5
  aggregatePrecision = 3
  numSimulations = 4
  MaxBusy = 6
  Endowment = 60
INVARIANTS TypeOK StakesBacked FlagTellsStakers ClaimsCovered PaidAsEarned ScriptRewardsAgree
CHECK_DEADLOCK FALSE
