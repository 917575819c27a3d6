-------------------------- MODULE MCStabilityPool --------------------------
(* Small instances of StabilityPool.  A scenario is chosen at the start: with  *)
(* which amounts there are calls and distributions, and how many steps.        *)
EXTENDS StabilityPoolH

CONSTANT Scenarios

VARIABLES scenario, steps

\* Liquidations that shrink, reset and use up the stakes, after three resets too.
Losses == INSTANCE StabilityPool WITH
  sbrDistributionRate <- 0, StakeAmounts <- {15, 85}, CollateralAmounts <- {50},
  LiquidationAmounts <- {2, 15, 81}, Supply <- 100, MaxTime <- 0, MaxRewards <- 4, MaxResets <- 4,
  MaxCalls <- 0

\* A staker who is paid calls the pool, or causes a distribution.
Callbacks == INSTANCE StabilityPool WITH
  sbrDistributionRate <- 0, StakeAmounts <- {2}, CollateralAmounts <- {2},
  LiquidationAmounts <- {1}, Supply <- 4, MaxTime <- 0, MaxRewards <- 4, MaxResets <- 2,
  MaxCalls <- 2

\* A clock that runs past the end of the issuance of DFIRE.
PastTheEnd == INSTANCE StabilityPool WITH
  StakeAmounts <- {1, 2}, CollateralAmounts <- {1}, LiquidationAmounts <- {1}, Supply <- 3,
  MaxTime <- 4, MaxRewards <- 2, MaxResets <- 2, MaxCalls <- 0

MaxSteps == [losses |-> 7, callbacks |-> 8, pastTheEnd |-> 8]

MCInit == InitH /\ scenario \in Scenarios /\ steps = 0

MCNext ==
  /\ steps < MaxSteps[scenario]
  /\ steps' = steps + 1
  /\ UNCHANGED scenario
  /\ \/ scenario = "losses" /\ Losses!Next
     \/ scenario = "callbacks" /\ Callbacks!Next
     \/ scenario = "pastTheEnd" /\ PastTheEnd!Next
  /\ Remember

MCSpec == MCInit /\ [][MCNext]_<<varsH, scenario, steps>>
============================================================================
