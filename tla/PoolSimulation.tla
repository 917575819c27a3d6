---------------------------- MODULE PoolSimulation ----------------------------
(***************************************************************************)
(* The part of scripts/simulate.js that exercises the StabilityPool: the   *)
(* actors stake, unstake, claim and trade DFID, borrowers pay fees, bots   *)
(* liquidate and redeem, and the OfflineProtocolTracker computes beside    *)
(* the contract what everyone should have and compares the two.            *)
(*                                                                         *)
(* The script awaits every transaction, so a turn of an actor is one step: *)
(* the contract's action (of StabilityPool) together with what the actor   *)
(* and the tracker write in their books.  An expect that fails, a division *)
(* by zero or a transaction that reverts ends the run, and  phase  tells   *)
(* which.  Random choices are nondeterministic; a price and the accounts'  *)
(* ETH are left out, as an actor with too little does nothing.             *)
(***************************************************************************)
EXTENDS StabilityPool

CONSTANTS
  Borrowers, Bots,      \* the other actors are ThirdpartyStablecoinHolders
  BorrowAmounts,        \* DFID that a borrower may mint
  ShieldingFees,        \* fees of a borrower's loan or top-up
  TradeAmounts,         \* DFID that an actor trades with the market
  SmallStake,           \* what an actor stakes that finds it has nothing: 1000 wei
  SBRTotalStake,        \* tracker.sbrStaking.totalStake, constant here
  totalPrecision,       \* what the expects tolerate
  aggregatePrecision,
  numSimulations        \* rounds of the main loop

ASSUME PoolSimulationAssumption ==
  /\ Borrowers \subseteq Users /\ Bots \subseteq Users /\ Borrowers \intersect Bots = {}
  /\ BorrowAmounts \subseteq Nat \ {0}
  /\ ShieldingFees \subseteq Nat \ {0}
  /\ TradeAmounts \subseteq Nat \ {0}
  /\ SmallStake \in Nat \ {0}
  /\ SBRTotalStake \in Nat
  /\ totalPrecision \in Nat /\ aggregatePrecision \in 0 .. totalPrecision
  /\ numSimulations \in Nat

VARIABLES
  actor,       \* [user -> what the Actor object knows: DFID, stake, unclaimed DFID and ETH]
  balanceOf,   \* [user -> the DFID it really has]
  market,      \* the Market's sbdBalance, and the DFID it really has
  tracker,     \* the tracker's stabilityPool
  midway,      \* a transaction of a bot that the tracker has not yet entered
  toAct,       \* the actors whose turn is still to come in this round
  round,
  phase,       \* "running", then "teardown" and "done", or why the run has stopped
  paidUnseen   \* history: whom a stake paid that the script takes to have failed

books   == <<actor, balanceOf, market, tracker, midway, toAct, round, phase, paidUnseen>>
simVars == <<poolVars, books>>

Nobody  == [kind |-> "none", amount |-> 0, eth |-> 0, fee |-> 0, byPool |-> FALSE]
Stakers == Users \ Bots

SimInit ==
  /\ Init
  /\ actor = [u \in Users |-> [sbdBalance |-> 0, stake |-> 0, sbd |-> 0, eth |-> 0]]
  /\ balanceOf = [u \in Users |-> 0]
  /\ market = [sbdBalance |-> 0, balance |-> 0]
  /\ tracker = [stakers |-> {}, totalStake |-> 0, rewardLoss |-> 0, stakeLoss |-> 0]
  /\ midway = Nobody
  /\ toAct = Users
  /\ round = 0
  /\ phase = "running"
  /\ paidUnseen = {}

CloseTo(a, b, tolerance) == a - b \in -tolerance .. tolerance

\* What an expect does to the run.
Expecting(holds, why) == phase' = IF holds THEN phase ELSE why

Turn(u) == phase = "running" /\ midway = Nobody /\ u \in toAct /\ toAct' = toAct \ {u}

SumOf(f) == Sum(f, MaxUser)

-----------------------------------------------------------------------------
(* The tracker's arithmetic. *)

StakesOf(actors, stakers) ==
  SumOf([u \in Users |-> IF u \in stakers THEN actors[u].stake ELSE 0])

\* Dividing by tracker.totalStake throws if there is a staker to do it for.
Divisible == tracker.stakers # {} => tracker.totalStake > 0

Share(amount, stake) == (amount * stake) \div tracker.totalStake

Distributed(amount) ==
  IF Divisible THEN SumOf([u \in Users |-> IF u \in tracker.stakers
                                             THEN Share(amount, actor[u].stake) ELSE 0])
               ELSE 0

\* addStabilityPoolStaker and updateStabilityPoolStake.
Enlisted(actors, stakers) ==
  [tracker EXCEPT !.stakers = stakers, !.totalStake = StakesOf(actors, stakers)]

ToPoolStakers(fee) == (fee * (IF SBRTotalStake = 0 THEN 10000 ELSE 9000)) \div 10000
ToSBRStakers(fee)  == IF SBRTotalStake = 0 THEN 0 ELSE (fee * 1000) \div 10000

ToDistribute(fee) == ToPoolStakers(fee) + tracker.rewardLoss

\* distributeSbdRewards: every staker compares its share with what the contract
\* then says is pending, and adopts that.
SharedSbd(amount) ==
  \A u \in tracker.stakers :
    CloseTo(PendingNow(u, "sbd")', actor[u].sbd + Share(amount, actor[u].stake), totalPrecision)

WithPendingSbd(actors) ==
  [u \in Users |-> IF u \in tracker.stakers
                     THEN [actors[u] EXCEPT !.sbd = PendingNow(u, "sbd")'] ELSE actors[u]]

\* claimSbdRewards and claimCollateralGain, if the contract reported something.
\* The DFIRE it reports is that of the account that asks, which has no snapshot.
ReportedDFIRE(u) ==
  Pending([users[u] EXCEPT !.snapshot["sbr"] = 0, !.sbrClaimed = FALSE], "sbr", perToken)
Reported(u) == PendingNow(u, "sbd") > 0 \/ PendingNow(u, "eth") > 0 \/ ReportedDFIRE(u) > 0

Claimed(u) ==
  IF Reported(u) THEN [actor[u] EXCEPT !.sbdBalance = @ + actor[u].sbd, !.sbd = 0, !.eth = 0]
                 ELSE actor[u]

PendingAsExpected(u, tolerance) ==
  /\ CloseTo(PendingNow(u, "sbd"), actor[u].sbd, tolerance)
  /\ CloseTo(PendingNow(u, "eth"), actor[u].eth, tolerance)

\* Whether a claim, alone or in a stake, does not revert.
Payable(u) ==
  /\ PendingNow(u, "sbd") <= dfid
  /\ PendingNow(u, "eth") <= eth
  /\ Computable(users[u], [perToken EXCEPT !["sbr"] = @ + IssuedPerToken])

Unstakable(u, amount) ==
  /\ Payable(u)
  /\ amount <= EffectiveStake(users[u])
  /\ amount <= totalStakedRaw
  /\ amount <= dfid - PendingNow(u, "sbd")

Reverted == phase' = "reverted" /\ UNCHANGED <<poolVars, actor, balanceOf, market, tracker>>

-----------------------------------------------------------------------------
(* The turns of any actor but a bot. *)

\* An actor that has next to nothing, by its books, tries to stake a little all the
\* same.  The script takes this to fail; but the contract pays what is pending before
\* it takes the stake, and when that is enough the stake succeeds.  The script catches
\* its own assertion and goes on: the books miss what was paid and staked.
StakeSBDInVain(u) ==
  /\ Turn(u)
  /\ SmallStake > actor[u].sbdBalance
  /\ \/ /\ Payable(u) /\ SmallStake <= balanceOf[u] + PendingNow(u, "sbd")
        /\ Transact(u, "stake", SmallStake)
        /\ balanceOf' = [balanceOf EXCEPT ![u] = @ - SmallStake + PendingNow(u, "sbd")]
        /\ paidUnseen' = IF PendingNow(u, "sbd") > 0 \/ PendingNow(u, "eth") > 0
                           THEN paidUnseen \union {u} ELSE paidUnseen
     \/ /\ ~(Payable(u) /\ SmallStake <= balanceOf[u] + PendingNow(u, "sbd"))
        /\ UNCHANGED <<poolVars, balanceOf, paidUnseen>>
  /\ UNCHANGED <<actor, market, tracker, midway, round, phase>>

StakeSBD(u, amount) ==
  LET paid   == Claimed(u)
      staked == [paid EXCEPT !.sbdBalance = @ - amount, !.stake = @ + amount]
  IN  /\ Turn(u)
      /\ amount <= actor[u].sbdBalance
      /\ \/ /\ Payable(u) /\ amount <= balanceOf[u] + PendingNow(u, "sbd")
            /\ Transact(u, "stake", amount)
            /\ balanceOf' = [balanceOf EXCEPT ![u] = @ - amount + PendingNow(u, "sbd")]
            /\ actor' = [actor EXCEPT ![u] = staked]
            /\ tracker' = Enlisted(actor', tracker.stakers \union {u})
            /\ Expecting(/\ PendingAsExpected(u, totalPrecision)
                         /\ CloseTo(staked.sbdBalance, balanceOf'[u], totalPrecision), "mismatch")
            /\ UNCHANGED market
         \/ /\ ~(Payable(u) /\ amount <= balanceOf[u] + PendingNow(u, "sbd"))
            /\ Reverted
      /\ UNCHANGED <<midway, round, paidUnseen>>

\* (With a mistake, to see that a property notices it: the stake is withdrawn, not what it earned.)
UnstakeSBDUnclaimed(u, amount) ==
  LET unstaked == [actor[u] EXCEPT !.sbdBalance = @ + amount, !.stake = @ - amount]
  IN  /\ Turn(u)
      /\ amount <= actor[u].stake
      /\ Unstakable(u, amount)
      /\ Transact(u, "unstake", amount)
      /\ balanceOf' = [balanceOf EXCEPT ![u] = @ + amount + PendingNow(u, "sbd")]
      /\ actor' = [actor EXCEPT ![u] = unstaked]
      /\ tracker' = Enlisted(actor', IF unstaked.stake = 0 THEN tracker.stakers \ {u}
                                                           ELSE tracker.stakers)
      /\ UNCHANGED <<market, midway, round, phase, paidUnseen>>

UnstakeSBD(u, amount) ==
  LET paid     == Claimed(u)
      unstaked == [paid EXCEPT !.sbdBalance = @ + amount, !.stake = @ - amount]
  IN  /\ Turn(u)
      /\ amount <= actor[u].stake
      /\ \/ /\ Unstakable(u, amount)
            /\ Transact(u, "unstake", amount)
            /\ balanceOf' = [balanceOf EXCEPT ![u] = @ + amount + PendingNow(u, "sbd")]
            /\ actor' = [actor EXCEPT ![u] = unstaked]
            /\ tracker' = Enlisted(actor', IF unstaked.stake = 0 THEN tracker.stakers \ {u}
                                                                 ELSE tracker.stakers)
            /\ Expecting(/\ PendingAsExpected(u, totalPrecision)
                         /\ CloseTo(unstaked.sbdBalance, balanceOf'[u], aggregatePrecision)
                         /\ CloseTo(unstaked.stake, EffectiveStake(users[u])', aggregatePrecision),
                         "mismatch")
            /\ UNCHANGED market
         \/ ~Unstakable(u, amount) /\ Reverted
      /\ UNCHANGED <<midway, round, paidUnseen>>

\* With no stake, by the books, the balance is not compared.
ClaimRewards(u) ==
  LET paid == IF actor[u].stake = 0 /\ PendingNow(u, "sbd") = 0 /\ PendingNow(u, "eth") = 0
                THEN actor[u] ELSE Claimed(u)
  IN  /\ Turn(u)
      /\ \/ /\ Payable(u)
            /\ IF users[u].stake > 0
                 THEN /\ Transact(u, "claim", 0)
                      /\ balanceOf' = [balanceOf EXCEPT ![u] = @ + PendingNow(u, "sbd")]
                 ELSE UNCHANGED <<poolVars, balanceOf>>
            /\ actor' = [actor EXCEPT ![u] = paid]
            /\ IF actor[u].stake = 0
                 THEN Expecting(PendingAsExpected(u, aggregatePrecision), "mismatch")
                 ELSE Expecting(/\ PendingAsExpected(u, totalPrecision)
                                /\ CloseTo(paid.sbdBalance, balanceOf'[u], totalPrecision),
                                "mismatch")
            /\ UNCHANGED <<market, tracker>>
         \/ ~Payable(u) /\ Reverted
      /\ UNCHANGED <<midway, round, paidUnseen>>

-----------------------------------------------------------------------------
(* Trade with the market, for ETH that the model leaves out. *)

\* At most half of the DFID that the actor has, or, with too little of it or of ETH
\* to trade, none; the balance is compared before that is decided.
BuyETH(u, amount) ==
  /\ Turn(u)
  /\ 2 * amount <= actor[u].sbdBalance
  /\ \/ /\ ~CloseTo(actor[u].sbdBalance, balanceOf[u], aggregatePrecision)
        /\ phase' = "mismatch"
        /\ UNCHANGED <<poolVars, actor, balanceOf, market, tracker>>
     \/ /\ CloseTo(actor[u].sbdBalance, balanceOf[u], aggregatePrecision)
        /\ amount <= balanceOf[u]
        /\ balanceOf' = [balanceOf EXCEPT ![u] = @ - amount]
        /\ actor' = [actor EXCEPT ![u].sbdBalance = @ - amount]
        /\ market' = [sbdBalance |-> market.sbdBalance + amount,
                      balance |-> market.balance + amount]
        /\ UNCHANGED <<poolVars, tracker, phase>>
     \/ /\ CloseTo(actor[u].sbdBalance, balanceOf[u], aggregatePrecision)
        /\ amount > balanceOf[u]
        /\ Reverted
  /\ UNCHANGED <<midway, round, paidUnseen>>

\* A part of the DFID that the market has.
BuySBD(u, amount) ==
  /\ Turn(u)
  /\ amount <= market.sbdBalance
  /\ amount <= market.balance
  /\ balanceOf' = [balanceOf EXCEPT ![u] = @ + amount]
  /\ actor' = [actor EXCEPT ![u].sbdBalance = @ + amount]
  /\ market' = [sbdBalance |-> market.sbdBalance - amount, balance |-> market.balance - amount]
  /\ UNCHANGED <<poolVars, tracker, midway, round, phase, paidUnseen>>

-----------------------------------------------------------------------------
(* A borrower's loan or top-up, as far as its fee goes. *)

\* The fee that the contract sends to the pool.
PoolFee(fee) == fee - ToSBRStakers(fee)

\* What the contract, and what the tracker, gives back to the borrower.
ContractRefund(fee) == IF totalStakedRaw > 0 THEN 0 ELSE PoolFee(fee)
TrackerRefund(fee) ==
  IF tracker.totalStake > 0 THEN 0 ELSE fee - Distributed(ToDistribute(fee)) - ToSBRStakers(fee)

PayFee(fee) == IF totalStakedRaw > 0 THEN AddReward(PoolFee(fee)) ELSE UNCHANGED poolVars

\* distributeShieldingFee, for an actor u that has by then received more DFID.
DistributeShieldingFee(u, fee, received) ==
  /\ actor' = [WithPendingSbd(actor) EXCEPT ![u].sbdBalance = @ + received + TrackerRefund(fee)]
  /\ tracker' = [tracker EXCEPT !.rewardLoss =
                   IF tracker.totalStake > 0
                     THEN ToDistribute(fee) - Distributed(ToDistribute(fee)) ELSE @]

Borrow(u, amount, fee) ==
  /\ Turn(u)
  /\ u \in Borrowers
  /\ fee < amount
  /\ PayFee(fee)
  /\ balanceOf' = [balanceOf EXCEPT ![u] = @ + amount - fee + ContractRefund(fee)]
  /\ DistributeShieldingFee(u, fee, amount - fee)
  /\ IF ~Divisible THEN phase' = "division"
                   ELSE Expecting(SharedSbd(ToDistribute(fee)), "mismatch")
  /\ UNCHANGED <<market, midway, round, paidUnseen>>

\* verifyStakerPendingRewards comes first.
VerifyStakerPendingRewards ==
  \A u \in tracker.stakers : /\ CloseTo(EffectiveStake(users[u]), actor[u].stake, aggregatePrecision)
                             /\ PendingAsExpected(u, aggregatePrecision)

TopupFee(u, fee) ==
  /\ Turn(u)
  /\ u \in Borrowers
  /\ fee <= actor[u].sbdBalance
  /\ fee <= balanceOf[u]
  /\ PayFee(fee)
  /\ balanceOf' = [balanceOf EXCEPT ![u] = @ - fee + ContractRefund(fee)]
  /\ DistributeShieldingFee(u, fee, -fee)
  /\ IF ~Divisible THEN phase' = "division"
       ELSE Expecting(/\ VerifyStakerPendingRewards
                      /\ SharedSbd(ToDistribute(fee))
                      /\ CloseTo(actor'[u].sbdBalance, balanceOf'[u], aggregatePrecision),
                      "mismatch")
  /\ UNCHANGED <<market, midway, round, paidUnseen>>

-----------------------------------------------------------------------------
(* A bot's liquidation: the contract calls the pool for the debt and then for  *)
(* the fee, and the tracker enters both after the transaction.                 *)

\* distributeCollateralGainsToStabilityPoolStakers, with or without a comparison.
SharedEth(actors, amount, total) ==
  [u \in Users |->
     IF u \in tracker.stakers
       THEN [actors[u] EXCEPT !.eth = @ + (amount * actors[u].stake) \div total] ELSE actors[u]]

PendingEthAsIn(actors) ==
  \A u \in tracker.stakers : CloseTo(PendingNow(u, "eth")', actors[u].eth, totalPrecision)

WithPendingEth(actors) ==
  [u \in Users |-> IF u \in tracker.stakers
                     THEN [actors[u] EXCEPT !.eth = PendingNow(u, "eth")'] ELSE actors[u]]

\* (With a mistake, to see that a property notices it: the stakes are not scaled.)
ScaledStakesForgotten(actors, debt) == actors

ScaledStakes(actors, debt) ==
  [u \in Users |->
     IF u \in tracker.stakers
       THEN [actors[u] EXCEPT !.stake = (@ * (tracker.totalStake - debt)) \div tracker.totalStake]
       ELSE actors[u]]

\* Who pays is decided by the contract with totalStakedRaw, by the tracker with its own sum.
Liquidate(u, debt, collateral, fee) ==
  /\ Turn(u)
  /\ u \in Bots
  /\ fee < collateral
  /\ IF debt <= totalStakedRaw THEN PerformLiquidation(debt, collateral - fee)
                               ELSE UNCHANGED poolVars
  /\ midway' = [kind |-> "liquidation", amount |-> debt, eth |-> collateral - fee, fee |-> fee,
                byPool |-> debt <= totalStakedRaw]
  /\ Expecting((debt <= totalStakedRaw) <=> (debt <= tracker.totalStake), "routes")
  /\ UNCHANGED <<actor, balanceOf, market, tracker, round, paidUnseen>>

\* The ETH of a fee goes to the DFIRE stakers if there are any, else to the pool.
PayEth(amount) ==
  IF SBRTotalStake = 0 /\ totalStakedRaw > 0 /\ amount > 0 THEN AddCollateralReward(amount)
                                                          ELSE UNCHANGED poolVars

StakeLeft == tracker.totalStake - (IF midway.byPool THEN midway.amount ELSE 0)

\* tracker.liquidate.
EnterLiquidation ==
  LET debt   == midway.amount
      left   == StakeLeft
      gained == IF midway.byPool THEN SharedEth(actor, midway.eth, tracker.totalStake) ELSE actor
      scaled == IF midway.byPool THEN ScaledStakes(gained, debt) ELSE gained
      toPool == SBRTotalStake = 0 /\ left > 0 /\ midway.fee > 0
      shared == IF toPool THEN SharedEth(scaled, midway.fee, left) ELSE scaled
      check  == toPool \/ (midway.byPool /\ SBRTotalStake > 0)
  IN  /\ midway.kind = "liquidation"
      /\ phase = "running"
      /\ PayEth(midway.fee)
      /\ actor' = IF check THEN WithPendingEth(shared) ELSE shared
      /\ tracker' = [tracker EXCEPT !.totalStake = left,
                                    !.stakeLoss = @ + (IF midway.byPool
                                                         THEN left - StakesOf(scaled, tracker.stakers)
                                                         ELSE 0)]
      /\ Expecting(check => PendingEthAsIn(shared), "mismatch")
      /\ midway' = Nobody
      /\ UNCHANGED <<balanceOf, market, toAct, round, paidUnseen>>

-----------------------------------------------------------------------------
(* A bot's redemption of half of its DFID, as far as its fees go: the owners'  *)
(* in DFID, then the redeemer's in ETH.  With nobody in the pool the redeemer  *)
(* keeps both.                                                                 *)

Redeem(u, ownerFee, redeemerFee) ==
  LET amount == actor[u].sbdBalance \div 2
  IN  /\ Turn(u)
      /\ u \in Bots
      /\ ownerFee < amount
      /\ amount <= balanceOf[u]
      /\ IF totalStakedRaw > 0 THEN AddReward(ownerFee) ELSE UNCHANGED poolVars
      /\ balanceOf' = [balanceOf EXCEPT ![u] = @ - amount + (IF totalStakedRaw > 0 THEN 0 ELSE ownerFee)]
      /\ actor' = [actor EXCEPT ![u].sbdBalance = @ - amount]
      /\ midway' = [kind |-> "redemption", amount |-> ownerFee, eth |-> redeemerFee, fee |-> 0,
                    byPool |-> FALSE]
      /\ Expecting(CloseTo(actor'[u].sbdBalance, balanceOf'[u], aggregatePrecision),
                   IF totalStakedRaw > 0 THEN "mismatch" ELSE "refund")
      /\ UNCHANGED <<market, tracker, round, paidUnseen>>

\* tracker.updateRedeemedSafes.
EnterRedemption ==
  LET owed   == midway.amount + tracker.rewardLoss
      shared == SharedEth(WithPendingSbd(actor), midway.eth, tracker.totalStake)
  IN  /\ midway.kind = "redemption"
      /\ phase = "running"
      /\ IF totalStakedRaw > 0 THEN AddCollateralReward(midway.eth) ELSE UNCHANGED poolVars
      /\ \/ /\ tracker.totalStake > 0
            /\ actor' = WithPendingEth(shared)
            /\ tracker' = [tracker EXCEPT !.rewardLoss = owed - Distributed(midway.amount)]
            /\ Expecting(SharedSbd(midway.amount) /\ PendingEthAsIn(shared), "mismatch")
         \/ tracker.totalStake = 0 /\ UNCHANGED <<actor, tracker, phase>>
      /\ midway' = Nobody
      /\ UNCHANGED <<balanceOf, market, toAct, round, paidUnseen>>

-----------------------------------------------------------------------------
(* The main loop. *)

PassTurn(u) ==
  Turn(u) /\ UNCHANGED <<poolVars, actor, balanceOf, market, tracker, midway, round, phase, paidUnseen>>

ListedTotal(c) == SumOf([u \in Users |-> IF u \in tracker.stakers THEN PendingNow(u, c) ELSE 0])
ListedStake ==
  SumOf([u \in Users |-> IF u \in tracker.stakers THEN EffectiveStake(users[u]) ELSE 0])

\* validateStabilityPool: compare everything, and adopt the contract's stakes.
StabilityPoolValid ==
  /\ \A u \in tracker.stakers : /\ CloseTo(EffectiveStake(users[u]), actor[u].stake, totalPrecision)
                                /\ PendingAsExpected(u, totalPrecision)
  /\ CloseTo(ListedStake, totalStakedRaw, totalPrecision)
  /\ CloseTo(ListedTotal("sbd") + ListedStake + tracker.rewardLoss + tracker.stakeLoss, dfid,
             totalPrecision)
  /\ CloseTo(ListedTotal("eth"), eth, totalPrecision)

\* (With a mistake, to see that a property notices it: the loop does not count.)
SameRound == round

NextRound == round + 1

\* tracker.step, and the clock of the next round.
EndRound ==
  /\ phase = "running" /\ midway = Nobody /\ toAct = {}
  /\ round < numSimulations
  /\ Tick
  /\ actor' = [u \in Users |-> IF u \in tracker.stakers
                                 THEN [actor[u] EXCEPT !.stake = EffectiveStake(users[u])]
                                 ELSE actor[u]]
  /\ tracker' = [tracker EXCEPT !.totalStake = ListedStake]
  /\ round' = NextRound
  /\ toAct' = Users
  /\ phase' = IF ~StabilityPoolValid THEN "mismatch"
              ELSE IF round' = numSimulations THEN "teardown" ELSE phase
  /\ UNCHANGED <<balanceOf, market, midway, paidUnseen>>

\* tearDownStep1: claim, unstake everything, and send all DFID to the market.
TearDownStep1(u) ==
  LET stake == EffectiveStake(users[u])
      paid  == IF users[u].stake > 0 THEN PendingNow(u, "sbd") ELSE 0
  IN  /\ phase = "teardown" /\ u \in toAct
      /\ toAct' = toAct \ {u}
      /\ \/ /\ Unstakable(u, stake)
            /\ IF stake > 0 THEN Transact(u, "unstake", stake)
               ELSE IF users[u].stake > 0 THEN Transact(u, "claim", 0)
               ELSE UNCHANGED poolVars
            /\ balanceOf' = [balanceOf EXCEPT ![u] = 0]
            /\ market' = [market EXCEPT !.balance = @ + balanceOf[u] + paid + stake]
            /\ phase' = IF toAct' = {} THEN "done" ELSE phase
            /\ UNCHANGED <<actor, tracker>>
         \/ ~Unstakable(u, stake) /\ Reverted
      /\ UNCHANGED <<midway, round, paidUnseen>>

HolderTurn(u) ==
  /\ u \in Stakers
  /\ \/ \E amount \in StakeAmounts : StakeSBD(u, amount) \/ UnstakeSBD(u, amount)
     \/ StakeSBDInVain(u)
     \/ ClaimRewards(u)

BorrowerTurn(u) ==
  \E fee \in ShieldingFees : TopupFee(u, fee) \/ \E amount \in BorrowAmounts : Borrow(u, amount, fee)

BotTurn(u) ==
  \/ \E debt \in LiquidationAmounts, collateral, fee \in CollateralAmounts :
       Liquidate(u, debt, collateral, fee)
  \/ \E ownerFee \in RewardAmounts, redeemerFee \in CollateralAmounts :
       Redeem(u, ownerFee, redeemerFee)

Trade(u) == \/ \E amount \in TradeAmounts \union {0} : BuyETH(u, amount)
            \/ \E amount \in TradeAmounts : BuySBD(u, amount)

SimNext ==
  \/ \E u \in Users : \/ PassTurn(u) \/ HolderTurn(u) \/ BorrowerTurn(u) \/ BotTurn(u)
                      \/ Trade(u) \/ TearDownStep1(u)
  \/ EnterLiquidation
  \/ EnterRedemption
  \/ EndRound

\* The script awaits its steps one after another, and each of them answers.
SimSpec == SimInit /\ [][SimNext]_simVars /\ WF_simVars(SimNext)

-----------------------------------------------------------------------------
(* Properties. *)

\* What the tracker computes with its own shares, for every order of turns, stays
\* as close to the contract as the expects ask.  A comparison fails only after a
\* stake that the script takes to have failed paid its staker (StakeSBDInVain),
\* and the books of all others are right even then.
BooksAgree ==
  /\ phase = "mismatch" => paidUnseen # {}
  /\ phase = "running" /\ midway = Nobody =>
       \A u \in tracker.stakers \ paidUnseen : PendingAsExpected(u, totalPrecision)

\* "Should run the simulation without errors": a transaction with which a staker
\* takes what the contract says is its own does not revert.
NothingReverts == phase # "reverted"

\* A staker that the tracker has dropped has nothing left in the contract that
\* its books would have to follow.
UnlistedHaveNothing ==
  \A u \in Users \ tracker.stakers :
    (phase = "running" /\ midway = Nobody) =>
      /\ EffectiveStake(users[u]) <= aggregatePrecision
      /\ CloseTo(actor[u].sbdBalance, balanceOf[u], totalPrecision)

\* The script comes to its end, or stops at an error.
Ends == <>(phase \notin {"running", "teardown"})
=============================================================================
