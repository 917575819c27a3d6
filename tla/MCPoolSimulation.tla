-------------------------- MODULE MCPoolSimulation --------------------------
(* Small instances of PoolSimulation, without DFIRE stakers and with some, who *)
(* take a part of the fees.  In the first round the borrowers borrow, in the   *)
(* second they stake or sell, and after that at most MaxBusy turns are not     *)
(* passed.                                                                     *)
EXTENDS PoolSimulation

CONSTANT MaxBusy    \* [scenario -> its bound]

Bounds            == [poolStakersOnly |-> 3, withSBRStakers |-> 3]
WithoutSBRStakers == [poolStakersOnly |-> 4]

VARIABLES scenario, busy

WithSBRStakers == INSTANCE PoolSimulation WITH SBRTotalStake <- 100

MCInit == SimInit /\ scenario \in DOMAIN MaxBusy /\ busy = 0

Busy(action) == busy < MaxBusy[scenario] /\ busy' = busy + 1 /\ action

PreparingTurn(u) ==
  IF u \notin Borrowers THEN PassTurn(u)
  ELSE IF round = 0
    THEN \E amount \in BorrowAmounts, fee \in ShieldingFees :
           \/ scenario = "poolStakersOnly" /\ Borrow(u, amount, fee)
           \/ scenario = "withSBRStakers" /\ WithSBRStakers!Borrow(u, amount, fee)
    ELSE (\E amount \in StakeAmounts : StakeSBD(u, amount)) \/ Trade(u)

BusyTurn(u) ==
  \/ HolderTurn(u)
  \/ Trade(u)
  \/ scenario = "poolStakersOnly" /\ (BorrowerTurn(u) \/ BotTurn(u))
  \/ scenario = "withSBRStakers" /\ (WithSBRStakers!BorrowerTurn(u) \/ WithSBRStakers!BotTurn(u))

Entering ==
  \/ scenario = "poolStakersOnly" /\ (EnterLiquidation \/ EnterRedemption)
  \/ scenario = "withSBRStakers"
       /\ (WithSBRStakers!EnterLiquidation \/ WithSBRStakers!EnterRedemption)

MCNext ==
  /\ UNCHANGED scenario
  /\ \/ \E u \in Users :
          \/ round < 2 /\ PreparingTurn(u) /\ UNCHANGED busy
          \/ round >= 2 /\ PassTurn(u) /\ UNCHANGED busy
          \/ round >= 2 /\ Busy(BusyTurn(u))
          \/ TearDownStep1(u) /\ UNCHANGED busy
     \/ (Entering \/ EndRound) /\ UNCHANGED busy

MCSpec == MCInit /\ [][MCNext]_<<simVars, scenario, busy>> /\ WF_<<simVars, scenario, busy>>(MCNext)
=============================================================================
