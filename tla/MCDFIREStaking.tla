--------------------------- MODULE MCDFIREStaking ---------------------------
(* Small instances of DFIREStaking and StakingSimulation.  Either anyone calls *)
(* the contract, with calls nested in the payments, or the simulation script   *)
(* does: after its first round, in which every borrower gets DFIRE, at most    *)
(* MaxBusy turns do something.                                                 *)
EXTENDS StakingSimulation

CONSTANTS MaxBusy, Endowment

VARIABLES scenario, busy

\* A fee can be so small that the stakers' tenth of it is 0.
Anyone == INSTANCE DFIREStakingH WITH
  StakeAmounts <- {1, 2}, RewardAmounts <- {0, 2}, CollateralAmounts <- {1, 2},
  DFIRESupply <- 3, MaxPerToken <- PRECISION, MaxBalance <- 3, MaxCalls <- 2

MCInit == SimInit /\ busy = 0 /\ scenario \in {"anyone", "script"}

Busy(action) == busy < MaxBusy /\ busy' = busy + 1 /\ action

Prepared == toAct = {}

Script ==
  \/ round = 0 /\ (\E u \in Users : ClaimRewards(u, Endowment)) /\ UNCHANGED busy
  \/ /\ round > 0
     /\ Busy(\/ \E u \in Users, amount \in StakeAmounts :
                  ClaimRewards(u, amount) \/ StakeSBR(u, amount) \/ UnstakeSBR(u, amount)
             \/ \E u \in Users, fee \in ShieldingFees : DistributeShieldingFee(u, fee)
             \/ \E fee \in CollateralAmounts : DistributeLiquidationFee(fee))
  \/ (StakeEntered \/ UnstakeEntered) /\ UNCHANGED busy
  \/ (round = 0 => Prepared) /\ EndRound /\ UNCHANGED busy
  \/ (\E u \in Users : TearDownStep1(u)) /\ UNCHANGED busy

MCNext ==
  /\ UNCHANGED scenario
  /\ \/ scenario = "anyone" /\ Anyone!NextH /\ UNCHANGED <<books, busy>>
     \/ scenario = "script" /\ Script

MCSpec == MCInit /\ [][MCNext]_<<simVars, scenario, busy>>

\* What the script says of the rewards: it alone keeps the books.
ScriptRewardsAgree == StakingBooksAgree /\ (scenario = "script" => RewardsReachStakers)
=============================================================================
