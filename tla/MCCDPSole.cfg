SPECIFICATION MCSpec
CONSTANTS
  MaxId = 3
  PRECISION = 10
  BASIS_POINTS_DIVISOR = 20
  liquidationRatio = 22
  MINIMUM_DEBT = 4
  SBR_FEE_REWARD = 10
  REDEMPTION_LIQUIDATION_FEE = 2
  REDEMPTION_BASE_FEE = 1
  BOOTSTRAP_MODE_DEBT_THRESHOLD = 10
  CLOSE_TO_ZERO = 2
  Collaterals = {10, 20}
  Debts = {8, 16}
  ShieldingRates = {2}
  Prices = {10, 20}
  Hints = {0}
  StakeAmounts = {8}
  DFIRESupply = 8
  GasCosts = {0, 1}
  RedeemAmounts = {9, 20}
  MaxSpots = 5
  ReentrantCalls = TRUE
  Scenarios = {"alone"}
PROPERTIES FullyRepaidLeavesQueue
CHECK_DEADLOCK FALSE
