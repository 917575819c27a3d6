--------------------------- MODULE StakingSimulation ---------------------------
(***************************************************************************)
(* The part of scripts/simulate.js that exercises DFIREStaking: borrowers  *)
(* stake and unstake DFIRE, their fees and the liquidations of bots reward *)
(* the stakers, and the OfflineProtocolTracker shares out the same rewards *)
(* by its own arithmetic and compares the two.                             *)
(*                                                                         *)
(* The script awaits every transaction.  A stake or an unstake is two      *)
(* steps, as in DFIREStaking, and the books are written in the second one; *)
(* no account of the script has code, so that nothing is called between    *)
(* the two.  Attempts that are bound to fail, with more DFIRE than the     *)
(* contract has just said that the account holds, change nothing.          *)
(***************************************************************************)
EXTENDS DFIREStakingH

CONSTANTS
  ShieldingFees,        \* fees of a borrower's loan or top-up
  totalPrecision,       \* what the expects tolerate
  aggregatePrecision,
  numSimulations        \* rounds of the main loop

ASSUME StakingSimulationAssumption ==
  /\ ShieldingFees \subseteq Nat
  /\ totalPrecision \in Nat /\ aggregatePrecision \in 0 .. totalPrecision
  /\ numSimulations \in Nat

VARIABLES
  held,       \* [user -> the DFIRE, and the DFID and ETH from rewards, that it really has]
  actor,      \* [user -> what the Borrower object knows: stake, unclaimed and claimed rewards]
  tracker,    \* the tracker's sbrStaking
  midway,     \* a stake or unstake that the books do not show yet
  toAct,      \* the borrowers whose turn is still to come in this round
  round,
  phase       \* "running", then "teardown" and "done", or why the run has stopped

books   == <<held, actor, tracker, midway, toAct, round, phase>>
simVars == <<varsH, books>>

Nobody == [kind |-> "none", user |-> 0, amount |-> 0, sbd |-> 0, eth |-> 0]

SimInit ==
  /\ InitH
  /\ held = [u \in Users |-> [sbr |-> 0, sbd |-> 0, eth |-> 0]]
  /\ actor = [u \in Users |-> [stake |-> 0, sbd |-> 0, eth |-> 0, sbdBalance |-> 0]]
  /\ tracker = [stakers |-> {}, totalStake |-> 0, sbd |-> 0, eth |-> 0]
  /\ midway = Nobody
  /\ toAct = Users
  /\ round = 0
  /\ phase = "running"

CloseTo(a, b, tolerance) == a - b \in -tolerance .. tolerance

\* What an expect does to the run.
Expecting(holds) == phase' = IF holds THEN phase ELSE "mismatch"

Turn(u) == phase = "running" /\ midway = Nobody /\ u \in toAct /\ toAct' = toAct \ {u}

SumOf(f) == Sum(f, MaxUser)

-----------------------------------------------------------------------------
(* The turns of a borrower. *)

\* DFIRE come with the claims of the StabilityPool's stakers.
ClaimRewards(u, amount) ==
  /\ Turn(u)
  /\ stakingBalance + SumOf([v \in Users |-> held[v].sbr]) + amount <= DFIRESupply
  /\ held' = [held EXCEPT ![u].sbr = @ + amount]
  /\ UNCHANGED <<varsH, actor, tracker, midway, round, phase>>

\* At least a tenth, and never all.
PartOf(amount, whole) == amount * 1000 \in 100 * whole .. 999 * whole

\* What u has once its rewards and an amount of DFIRE are paid.
Paid(u, sbr) ==
  [sbr |-> held[u].sbr + sbr, sbd |-> held[u].sbd + Reward(u),
   eth |-> held[u].eth + CollateralReward(u)]

StakeSBR(u, amount) ==
  /\ Turn(u)
  /\ PartOf(amount, held[u].sbr)
  /\ BeginCallH(u, "stake", amount)
  /\ midway' = [kind |-> "stake", user |-> u, amount |-> amount,
                sbd |-> Reward(u), eth |-> CollateralReward(u)]
  /\ held' = [held EXCEPT ![u] = Paid(u, -amount)]
  /\ UNCHANGED <<actor, tracker, round, phase>>

UnstakeSBR(u, amount) ==
  /\ Turn(u)
  /\ PartOf(amount, actor[u].stake)
  /\ BeginCallH(u, "unstake", amount)
  /\ midway' = [kind |-> "unstake", user |-> u, amount |-> amount,
                sbd |-> Reward(u), eth |-> CollateralReward(u)]
  /\ held' = [held EXCEPT ![u] = Paid(u, amount)]
  /\ UNCHANGED <<actor, tracker, round, phase>>

\* (With a mistake, to see that a property notices it: what was unclaimed stays so.)
ClaimedNothing(u) == actor[u]

\* claimSbdRewardsSBRStaking and claimCollateralGainSBRStaking, if anything was pending.
Claimed(u) ==
  IF midway.sbd > 0 \/ midway.eth > 0
    THEN [actor[u] EXCEPT !.sbdBalance = @ + actor[u].sbd, !.sbd = 0, !.eth = 0]
    ELSE actor[u]

\* updateSBRStake.
Enlisted(u, stake) ==
  LET stakers == IF stake = 0 THEN tracker.stakers \ {u} ELSE tracker.stakers \union {u}
  IN  [tracker EXCEPT
         !.stakers = stakers,
         !.totalStake = SumOf([v \in Users |-> IF v \notin stakers THEN 0
                                               ELSE IF v = u THEN stake ELSE actor[v].stake])]

\* The transaction has returned: what was pending before it is compared and claimed.
Entered(kind, stake) ==
  LET u == midway.user
  IN  /\ midway.kind = kind
      /\ actor' = [actor EXCEPT ![u] = [Claimed(u) EXCEPT !.stake = stake]]
      /\ tracker' = Enlisted(u, stake)
      /\ midway' = Nobody
      /\ Expecting(/\ CloseTo(midway.sbd, actor[u].sbd, aggregatePrecision)
                   /\ CloseTo(midway.eth, actor[u].eth, aggregatePrecision)
                   /\ stakes'[u].stake = stake
                   /\ kind = "unstake" =>
                        CloseTo(actor'[u].sbdBalance, held[u].sbd, aggregatePrecision))
      /\ UNCHANGED <<held, toAct, round>>

StakeEntered   == FinishStakeH /\ Entered("stake", actor[midway.user].stake + midway.amount)
UnstakeEntered == FinishUnstakeH /\ Entered("unstake", actor[midway.user].stake - midway.amount)

-----------------------------------------------------------------------------
(* Rewards. *)

Share(u, amount) ==
  IF u \in tracker.stakers THEN (amount * actor[u].stake) \div tracker.totalStake ELSE 0
Shares(amount) == [u \in Users |-> Share(u, amount)]

\* distributeSbdRewardsSBRStaking and distributeCollateralGainSBRStaking: every
\* staker compares its share with what the contract then says, and adopts that.
Shared(sbd, eth) ==
  /\ Expecting(\A u \in tracker.stakers :
                 /\ CloseTo(Reward(u)', actor[u].sbd + Share(u, sbd), totalPrecision)
                 /\ CloseTo(CollateralReward(u)', actor[u].eth + Share(u, eth), totalPrecision))
  /\ actor' = [u \in Users |-> IF u \in tracker.stakers
                                 THEN [actor[u] EXCEPT !.sbd = Reward(u)',
                                                       !.eth = CollateralReward(u)']
                                 ELSE actor[u]]
  /\ tracker' = [tracker EXCEPT !.sbd = @ + SumOf(Shares(sbd)), !.eth = @ + SumOf(Shares(eth))]
  /\ UNCHANGED <<held, midway, round>>

\* distributeShieldingFee: a tenth of the fee of a loan or a top-up.
DistributeShieldingFee(u, fee) ==
  /\ Turn(u)
  /\ canReceive
  /\ AddRewardH((fee * 1000) \div 10000)
  /\ Shared((fee * 1000) \div 10000, 0)

\* OfflineProtocolTracker.liquidate, after a bot's liquidation: the ETH of the
\* fee that is not the bot's.  Bots have no other business here, and no turn.
DistributeLiquidationFee(fee) ==
  /\ phase = "running" /\ midway = Nobody
  /\ canReceive
  /\ AddCollateralRewardH(fee)
  /\ Shared(0, fee)
  /\ UNCHANGED toAct

\* validateSBRStaking.
ValidateSBRStaking ==
  LET listed(amounts) == SumOf([u \in Users |-> IF u \in tracker.stakers THEN amounts[u] ELSE 0])
      staked == listed([u \in Users |-> actor[u].stake])
  IN  /\ \A u \in tracker.stakers :
           /\ CloseTo(stakes[u].stake, actor[u].stake, totalPrecision)
           /\ CloseTo(Reward(u), actor[u].sbd, aggregatePrecision)
           /\ CloseTo(CollateralReward(u), actor[u].eth, aggregatePrecision)
      /\ CloseTo(staked, totalStake, totalPrecision)
      /\ CloseTo(staked, stakingBalance, totalPrecision)
      /\ CloseTo(listed([u \in Users |-> actor[u].sbd]), rewardBalance, aggregatePrecision)
      /\ CloseTo(listed([u \in Users |-> actor[u].eth]), ethBalance, totalPrecision)

EndRound ==
  /\ phase = "running" /\ midway = Nobody
  /\ round < numSimulations
  /\ round' = round + 1
  /\ toAct' = Users
  /\ Expecting(ValidateSBRStaking)
  /\ UNCHANGED <<varsH, held, actor, tracker, midway>>

\* tearDownStep1, of one borrower after another: it claims.
TearDownStep1(u) ==
  /\ phase \in {"running", "teardown"} /\ midway = Nobody
  /\ round = numSimulations
  /\ u \in toAct
  /\ ClaimH(u)
  /\ held' = [held EXCEPT ![u] = Paid(u, 0)]
  /\ toAct' = toAct \ {u}
  /\ phase' = IF toAct' = {} THEN "done" ELSE "teardown"
  /\ UNCHANGED <<actor, tracker, midway, round>>

SimNext ==
  \/ \E u \in Users, amount \in StakeAmounts :
       ClaimRewards(u, amount) \/ StakeSBR(u, amount) \/ UnstakeSBR(u, amount)
  \/ StakeEntered
  \/ UnstakeEntered
  \/ \E u \in Users, fee \in ShieldingFees : DistributeShieldingFee(u, fee)
  \/ \E fee \in CollateralAmounts : DistributeLiquidationFee(fee)
  \/ EndRound
  \/ \E u \in Users : TearDownStep1(u)

SimSpec == SimInit /\ [][SimNext]_simVars

-----------------------------------------------------------------------------

\* No check of the tracker fails: while stakes come and go between the rewards,
\* what it shares out by stake stays as close to the contract's cumulative reward
\* per token as distributeShieldingFee, distributeCollateralGainsToSBRStakers and
\* validateSBRStaking expect.
StakingBooksAgree == phase # "mismatch"

\* What the stakers have been paid and what is pending for them is together all
\* that was added for them, but for a unit lost to rounding at each payment or
\* division ("Total fee paid", the tracker's totalRewards): no share is paid
\* twice, or lost with a change of the stake.
RewardsReachStakers ==
  /\ CloseTo(SumOf([u \in Users |-> held[u].sbd + Reward(u)]), tracker.sbd, totalPrecision)
  /\ CloseTo(SumOf([u \in Users |-> held[u].eth + CollateralReward(u)]), tracker.eth,
             totalPrecision)
=============================================================================
