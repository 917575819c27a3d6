SPECIFICATION MCSpec
CONSTANTS
  PRECISION = 10
  MINIMUM_DEBT = 500
  Prices <- MCPrices
  Deposits <- MCDeposits
  Amounts <- MCAmounts
  Rates <- MCRates
  Inheritances <- MCInheritances
  Opened = {"borrow", "repay", "closeSafe", "user-balances"}
  MaxVisits = 2
  MaxEvents = 2
  MaxSent = 1
  StakeAmounts = {3, 5}
  Balance = 8
  MaxStakeVisits = 2
  MaxStakeEvents = 1
  MaxStakeSent = 2
  Scenarios = {"browsing", "sliding", "retrying", "staking"}
INVARIANTS GetsWhatIsShown SecondStepOffered MaximumHolds NothingTwice OffersAreAccepted
CHECK_DEADLOCK FALSE
