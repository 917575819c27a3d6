SPECIFICATION MCSpec
CONSTANTS
  MaxId = 3
  PRECISION = 1000
  BASIS_POINTS_DIVISOR = 100
  liquidationRatio = 110
  MINIMUM_DEBT = 40
  SBR_FEE_REWARD = 10
  REDEMPTION_LIQUIDATION_FEE = 10
  REDEMPTION_BASE_FEE = 5
  BOOTSTRAP_MODE_DEBT_THRESHOLD = 100
  CLOSE_TO_ZERO = 2
  Collaterals = {100, 200}
  Debts = {100, 160}
  ShieldingRates = {}
  Prices = {1000, 2000}
  Hints = {1}
  StakeAmounts = {200}
  DFIRESupply = 0
  GasCosts = {1}
  RedeemAmounts = {40, 180}
  MaxSpots = 4
  ReentrantCalls = FALSE
  Bots = {b1}
  Holders = {}
  shieldingRate = 1
  totalPrecision = 5
  aggregatePrecision = 3
  negligibleDebt = 1
  numSimulations = 3
  Opening = {1, 2, 3}
  OpeningDebts = {120}
  MaxBusy = 3
  EndsAfter = 2
INVARIANTS MismatchExplained OwnersFailAsExpected PendingFollows DebtLeftForWantOfDFID
CHECK_DEADLOCK FALSE
