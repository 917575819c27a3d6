----------------------------- MODULE StableBase -----------------------------
(***************************************************************************)
(* The storage of StableBase.sol and StableBaseCDP.sol, and the internal   *)
(* functions of StableBase.sol.  The operations are in StableBaseCDP, as   *)
(* they are in the source.                                                 *)
(*                                                                         *)
(* A Safe is identified by its id in 1 .. MaxId.  All users are one party, *)
(* the public: DFID is a token that they can trade, so whoever calls can   *)
(* hold all of it, and whoever owns a Safe may call its operations.  The   *)
(* StabilityPool and DFIREStaking appear as what StableBase sees of them:  *)
(* how much is staked, and the DFID they hold.                             *)
(***************************************************************************)
EXTENDS Integers, Sums, OrderedList

CONSTANTS
  PRECISION,                      \* fixed point of ratios, prices and accumulators
  BASIS_POINTS_DIVISOR,
  liquidationRatio,               \* in basis points; 110% in the code
  MINIMUM_DEBT,
  SBR_FEE_REWARD,                 \* share of a fee for the DFIRE stakers, in basis points
  REDEMPTION_LIQUIDATION_FEE,     \* in basis points
  REDEMPTION_BASE_FEE,            \* in basis points
  BOOTSTRAP_MODE_DEBT_THRESHOLD,
  CLOSE_TO_ZERO                   \* the bound of closeToZero

ASSUME StableBaseAssumption ==
  /\ PRECISION \in Nat \ {0}
  /\ BASIS_POINTS_DIVISOR \in Nat \ {0}
  /\ liquidationRatio \in Nat /\ liquidationRatio >= BASIS_POINTS_DIVISOR
  /\ MINIMUM_DEBT \in Nat
  /\ SBR_FEE_REWARD \in 0 .. BASIS_POINTS_DIVISOR
  /\ REDEMPTION_LIQUIDATION_FEE \in 0 .. BASIS_POINTS_DIVISOR
  /\ REDEMPTION_BASE_FEE \in 0 .. REDEMPTION_LIQUIDATION_FEE
  /\ BOOTSTRAP_MODE_DEBT_THRESHOLD \in Nat
  /\ CLOSE_TO_ZERO \in Nat

Safes == Ids

VARIABLES
  safes,                    \* [id -> Safe]
  minted,                   \* the ids whose NFT exists, that is, has an owner
  liquidationSnapshots,     \* [id -> the accumulators it has been updated to]
  safesOrderedForLiquidation,
  safesOrderedForRedemption,
  cumulativeCollateralPerUnitCollateral,
  cumulativeDebtPerUnitCollateral,
  collateralLoss,           \* what rounding left undistributed
  debtLoss,
  totalCollateral,
  totalDebt,
  PROTOCOL_MODE,
  stabilityPoolCanReceiveRewards,
  sbrStakingPoolCanReceiveRewards,
  price,                    \* what priceOracle.fetchPrice() answers
  poolStake,                \* StabilityPool.totalStakedRaw
  dfireStake,               \* DFIREStaking.totalStake
  sbd,                      \* the DFID of the public, the CDP, the pool and DFIREStaking
  eth,                      \* the ETH held by the CDP
  redemption,               \* the redemption that is under way
  saved,                    \* the storage before it, should it revert
  roundings,                \* history: how often an amount was rounded down
  unclaimed,                \* history: what redistribution gave to collateral that had
                            \* been redeemed, times PRECISION
  debtAlone                 \* history: it moved the accumulator of debt and not the other

accumulators == <<cumulativeCollateralPerUnitCollateral, cumulativeDebtPerUnitCollateral,
                  collateralLoss, debtLoss, unclaimed, debtAlone>>
queues == <<safesOrderedForLiquidation, safesOrderedForRedemption>>
flags  == <<stabilityPoolCanReceiveRewards, sbrStakingPoolCanReceiveRewards>>
stakes == <<poolStake, dfireStake>>
totals == <<totalCollateral, totalDebt, PROTOCOL_MODE>>
vars   == <<safes, minted, liquidationSnapshots, queues, accumulators, totals, flags, price,
            stakes, sbd, eth, redemption, saved, roundings>>

Safe == [collateralAmount : Nat, borrowedAmount : Nat, weight : Nat,
         totalBorrowedAmount : Nat, feePaid : Nat]
NullSafe == [collateralAmount |-> 0, borrowedAmount |-> 0, weight |-> 0,
             totalBorrowedAmount |-> 0, feePaid |-> 0]
Snapshot == [collateral : Nat, debt : Nat]
Accounts == {"public", "cdp", "pool", "sbr"}

-----------------------------------------------------------------------------
(* _updateSafe: a Safe takes its share of what was redistributed since its     *)
(* snapshot.  It does so only if the accumulator of collateral has moved.      *)

Outdated(s) == liquidationSnapshots[s].collateral # cumulativeCollateralPerUnitCollateral

DebtIncrease(s) ==
  IF Outdated(s)
    THEN (safes[s].collateralAmount
            * (cumulativeDebtPerUnitCollateral - liquidationSnapshots[s].debt)) \div PRECISION
    ELSE 0

CollateralIncrease(s) ==
  IF Outdated(s)
    THEN (safes[s].collateralAmount
            * (cumulativeCollateralPerUnitCollateral - liquidationSnapshots[s].collateral))
           \div PRECISION
    ELSE 0

UpdatedSafe(s) ==
  [safes[s] EXCEPT !.borrowedAmount = @ + DebtIncrease(s),
                   !.totalBorrowedAmount = @ + DebtIncrease(s),
                   !.collateralAmount = @ + CollateralIncrease(s)]

\* (With a mistake, to see that a property notices it: the snapshot is not moved.)
WriteSafeOnly(s, safe) ==
  /\ safes' = [safes EXCEPT ![s] = safe]
  /\ UNCHANGED liquidationSnapshots

\* Safe s becomes safe, after it has been updated.
WriteSafe(s, safe) ==
  /\ safes' = [safes EXCEPT ![s] = safe]
  /\ liquidationSnapshots' =
       [liquidationSnapshots EXCEPT
          ![s] = [collateral |-> cumulativeCollateralPerUnitCollateral,
                  debt |-> IF Outdated(s) THEN cumulativeDebtPerUnitCollateral ELSE @.debt]]

NewRoundings(s) == IF Outdated(s) THEN 1 ELSE 0

\* (With a mistake, to see that a property notices it: the mode follows the debt before the call.)
WriteTotalsLate(collateral, debt, highestDebt) ==
  /\ totalCollateral' = collateral
  /\ totalDebt' = debt
  /\ PROTOCOL_MODE' =
       IF totalDebt > BOOTSTRAP_MODE_DEBT_THRESHOLD THEN "NORMAL" ELSE PROTOCOL_MODE

\* _updateTotalDebt: a debt that exceeds the threshold, if only for a moment
\* within a transaction, ends the bootstrap mode.
WriteTotals(collateral, debt, highestDebt) ==
  /\ totalCollateral' = collateral
  /\ totalDebt' = debt
  /\ PROTOCOL_MODE' =
       IF highestDebt > BOOTSTRAP_MODE_DEBT_THRESHOLD THEN "NORMAL" ELSE PROTOCOL_MODE

Ratio(debt, collateral) == (debt * PRECISION) \div collateral

-----------------------------------------------------------------------------
(* distributeFees: what of a fee in DFID goes to whom. *)

FeeToSBR(fee) ==
  IF dfireStake > 0 THEN (fee * SBR_FEE_REWARD) \div BASIS_POINTS_DIVISOR ELSE 0
FeeToPool(fee)   == IF poolStake > 0 THEN fee - FeeToSBR(fee) ELSE 0
FeeRefunded(fee) == fee - FeeToSBR(fee) - FeeToPool(fee)

\* StabilityPool.addReward refuses an amount of 0, staked or not.
FeeDistributable(fee) == fee - FeeToSBR(fee) > 0

-----------------------------------------------------------------------------
(* handleBorrow: the place in the redemption queue that the fee pays for. *)

MinimumWeight ==
  safesOrderedForRedemption.nodes[safesOrderedForRedemption.head].value

ShieldingFee(amount, shieldingRate) == (amount * shieldingRate) \div BASIS_POINTS_DIVISOR

BorrowWeight(safe, amount, shieldingRate) ==
  IF safe.borrowedAmount = 0 THEN MinimumWeight + shieldingRate
  ELSE IF shieldingRate = 0 THEN safe.weight
  ELSE LET weightedDiff == ((safe.weight - MinimumWeight) * safe.borrowedAmount)
                             \div BASIS_POINTS_DIVISOR
       IN  MinimumWeight
             + ((ShieldingFee(amount, shieldingRate) + weightedDiff) * BASIS_POINTS_DIVISOR)
                  \div (safe.borrowedAmount + amount)

-----------------------------------------------------------------------------
(* calculateRedemptionAmountsAndFee and redeemSafe. *)

CollateralValue(safe, at) == (safe.collateralAmount * at) \div PRECISION

Redeemable(safe, at) ==
  /\ CollateralValue(safe, at)
       >= (safe.borrowedAmount * liquidationRatio) \div BASIS_POINTS_DIVISOR
  /\ safe.totalBorrowedAmount > 0

FeePaidPercentage(safe) ==
  (safe.feePaid * BASIS_POINTS_DIVISOR * PRECISION) \div safe.totalBorrowedAmount

BorrowMode(safe) == FeePaidPercentage(safe) > REDEMPTION_BASE_FEE * PRECISION

FeeTier(safe) ==
  LET tier == FeePaidPercentage(safe) + REDEMPTION_BASE_FEE * PRECISION
      most == REDEMPTION_LIQUIDATION_FEE * PRECISION
  IN  IF tier < most THEN tier ELSE most

BaseFee(value) == (value * REDEMPTION_BASE_FEE) \div BASIS_POINTS_DIVISOR

\* The owner's part of the fee when all the collateral is redeemed, ...
OwnerFeeOfWhole(value, safe) ==
  IF BaseFee(value) > safe.feePaid THEN BaseFee(value) - safe.feePaid ELSE 0

\* ... and when the redemption covers the debt but not all the collateral.
OwnerFeeOfPart(value, safe) ==
  IF BaseFee(value) > safe.feePaid THEN BaseFee(value) - safe.feePaid ELSE BaseFee(value)

\* (With a mistake, to see that a property notices it: rounded up.)
CollateralForRoundedUp(amount, at) == (amount * PRECISION + at - 1) \div at

CollateralFor(amount, at) == (amount * PRECISION) \div at

\* What redeeming at most wanted DFID of the Safe at a price amounts to.
RedemptionAmounts(safe, wanted, at) ==
  LET value == CollateralValue(safe, at)
      whole == ~BorrowMode(safe) /\ wanted >= value
      part  == ~BorrowMode(safe) /\ wanted < value /\ wanted >= safe.borrowedAmount
      redeemed   == IF whole \/ wanted >= safe.borrowedAmount THEN safe.borrowedAmount ELSE wanted
      refunded   == IF whole THEN value - redeemed ELSE IF part THEN wanted - redeemed ELSE 0
      collateral == IF whole THEN safe.collateralAmount
                             ELSE CollateralFor(redeemed + refunded, at)
  IN  [redeemed   |-> redeemed,
       refunded   |-> refunded,
       collateral |-> collateral,
       ownerFee   |-> IF whole THEN OwnerFeeOfWhole(value, safe)
                      ELSE IF part THEN OwnerFeeOfPart(redeemed + refunded, safe) ELSE 0,
       redeemerFee |-> ((collateral * FeeTier(safe)) \div BASIS_POINTS_DIVISOR) \div PRECISION]

\* (With a mistake, to see that a property notices it: never recorded.)
ChargedNothing(amounts) == 0

\* The owner's fee is recorded, and the fee paid reset, only along with a refund.
ChargedOwnerFee(amounts) == IF amounts.refunded > 0 THEN amounts.ownerFee ELSE 0

RedeemedSafe(safe, amounts) ==
  LET charged == ChargedOwnerFee(amounts) > 0
  IN  [safe EXCEPT !.collateralAmount = @ - amounts.collateral,
                   !.borrowedAmount = @ - amounts.redeemed,
                   !.feePaid = IF charged THEN 0 ELSE @,
                   !.totalBorrowedAmount = IF charged THEN 1 ELSE @]

\* (With a mistake, to see that a property notices it: all the collateral must be gone.)
RedeemedWhole(safe, borrowMode) ==
  safe.borrowedAmount = 0 /\ safe.collateralAmount < CLOSE_TO_ZERO

\* Whether redeemSafe takes the Safe out of the queues; mode is that of the
\* Safe before it was redeemed.
RedeemedEmpty(safe, borrowMode) ==
  safe.borrowedAmount = 0 /\ (borrowMode \/ safe.collateralAmount < CLOSE_TO_ZERO)

-----------------------------------------------------------------------------
(* _liquidate and what it calls. *)

Liquidatable(safe) ==
  /\ safe.collateralAmount > 0
  /\ safe.borrowedAmount > 0
  /\ CollateralValue(safe, price)
       < (safe.borrowedAmount * liquidationRatio) \div BASIS_POINTS_DIVISOR

LiquidationFee(safe) ==
  (safe.collateralAmount * REDEMPTION_LIQUIDATION_FEE) \div BASIS_POINTS_DIVISOR

\* (With a mistake, to see that a property notices it: rounded up.)
PerUnitRoundedUp(amount, collateral) == (amount * PRECISION + collateral - 1) \div collateral

\* distributeDebtAndCollateral over the collateral of the other Safes.
PerUnitCollateral(amount, collateral) == (amount * PRECISION) \div collateral
LossOf(amount, collateral) ==
  amount - (PerUnitCollateral(amount, collateral) * collateral) \div PRECISION

DistributeDebtAndCollateral(debt, collateral, over) ==
  /\ cumulativeCollateralPerUnitCollateral' =
       cumulativeCollateralPerUnitCollateral + PerUnitCollateral(collateral + collateralLoss, over)
  /\ cumulativeDebtPerUnitCollateral' =
       cumulativeDebtPerUnitCollateral + PerUnitCollateral(debt + debtLoss, over)
  /\ collateralLoss' = LossOf(collateral + collateralLoss, over)
  /\ debtLoss' = LossOf(debt + debtLoss, over)

\* _distributeLiquidationFeeAndGasCompensation: the ETH that leaves, with the
\* pool as it is after the liquidation.  addCollateralReward keeps what it is
\* sent also when it answers false.
LiquidationFeeSent(fee, refund, poolFlag, staked) ==
  LET rest       == fee - refund
      toSBR      == sbrStakingPoolCanReceiveRewards
      toPool     == poolFlag /\ (toSBR => dfireStake = 0)
      allToCaller == (toPool /\ staked = 0) \/ (~toSBR /\ ~toPool)
  IN  IF rest = 0 THEN refund
      ELSE (IF toSBR THEN rest ELSE 0) + (IF toPool THEN rest ELSE 0)
             + (IF allToCaller THEN fee ELSE refund)
=============================================================================
