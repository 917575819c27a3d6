--------------------------- MODULE StableBaseCDP ---------------------------
(***************************************************************************)
(* The operations of StableBaseCDP.sol.  A call is one action: the EVM     *)
(* runs it to its end, and a call that reverts changes nothing, so a       *)
(* require is a guard; CanX holds when none of the requires of X fails.    *)
(* The exception is redeem: its loop runs as one step per Safe, then it    *)
(* pays ETH to the redeemer, who may call any operation back before redeem *)
(* has settled the totals, and it may revert late.                         *)
(***************************************************************************)
EXTENDS StableBase

CONSTANTS
  Collaterals,      \* amounts of ETH that a call may name
  Debts,            \* amounts of DFID that a call may name
  ShieldingRates,   \* rates of borrow and feeTopup, in basis points
  Prices,           \* prices that the oracle may report
  Hints,            \* hints that a call may name
  StakeAmounts,     \* amounts of a stake in DFID, and of one in DFIRE
  DFIRESupply,      \* bound on the DFIRE that is staked
  GasCosts,         \* what a liquidation may cost its caller, in ETH
  RedeemAmounts,    \* amounts of DFID that a redeemer may name
  MaxSpots,         \* iterations of a redemption that the gas of a block pays for
  ReentrantCalls    \* whether the redeemer calls back when it is paid

ASSUME StableBaseCDPAssumption ==
  /\ Collaterals \subseteq Nat \ {0}
  /\ Debts \subseteq Nat \ {0}
  /\ ShieldingRates \subseteq Nat
  /\ Prices \subseteq Nat \ {0}
  /\ Hints \subseteq Slots
  /\ StakeAmounts \subseteq Nat \ {0}
  /\ DFIRESupply \in Nat
  /\ GasCosts \subseteq Nat
  /\ RedeemAmounts \subseteq Nat \ {0}
  /\ MaxSpots \in Nat
  /\ ReentrantCalls \in BOOLEAN

NoRedemption ==
  [phase |-> "idle", requestedAmount |-> 0, price |-> 0, hint |-> 0, redeemedAmount |-> 0,
   refundedAmount |-> 0, processedSpots |-> 0, collateralAmount |-> 0, ownerFee |-> 0,
   redeemerFee |-> 0]
NothingSaved == <<>>

Init ==
  /\ safes = [s \in Safes |-> NullSafe]
  /\ minted = {}
  /\ liquidationSnapshots = [s \in Safes |-> [collateral |-> 0, debt |-> 0]]
  /\ safesOrderedForLiquidation = EmptyList
  /\ safesOrderedForRedemption = EmptyList
  /\ cumulativeCollateralPerUnitCollateral = 0
  /\ cumulativeDebtPerUnitCollateral = 0
  /\ collateralLoss = 0
  /\ debtLoss = 0
  /\ totalCollateral = 0
  /\ totalDebt = 0
  /\ PROTOCOL_MODE = "BOOTSTRAP"
  /\ stabilityPoolCanReceiveRewards = FALSE
  /\ sbrStakingPoolCanReceiveRewards = FALSE
  /\ price \in Prices
  /\ poolStake = 0
  /\ dfireStake = 0
  /\ sbd = [a \in Accounts |-> 0]
  /\ eth = 0
  /\ redemption = NoRedemption
  /\ saved = NothingSaved
  /\ roundings = 0
  /\ unclaimed = [collateral |-> 0, debt |-> 0]
  /\ debtAlone = FALSE

\* Who may start a call: anyone between transactions, and the redeemer while it is paid.
CanCall == redemption.phase = "idle" \/ (ReentrantCalls /\ redemption.phase = "paid")

\* The totals after _updateSafe(s).
UpdatedCollateral(s) == totalCollateral + CollateralIncrease(s)

\* (With a mistake, to see that a property notices it: without the increase.)
DebtBefore(s) == totalDebt

UpdatedDebt(s) == totalDebt + DebtIncrease(s)

\* DFID that moves, is minted or is burned: accounts the call adds to or takes from.
Credit(public, cdp, pool, sbr) ==
  sbd' = [sbd EXCEPT !.public = @ + public, !.cdp = @ + cdp, !.pool = @ + pool, !.sbr = @ + sbr]

-----------------------------------------------------------------------------
(* The operations of a Safe's owner. *)

CanOpenSafe(s) == CanCall /\ s \notin minted /\ safes[s].collateralAmount = 0

OpenSafe(s, amount) ==
  /\ CanOpenSafe(s)
  /\ safes' = [safes EXCEPT ![s] = [NullSafe EXCEPT !.collateralAmount = amount]]
  /\ liquidationSnapshots' =
       [liquidationSnapshots EXCEPT
          ![s] = [collateral |-> cumulativeCollateralPerUnitCollateral,
                  debt |-> cumulativeDebtPerUnitCollateral]]
  /\ minted' = minted \union {s}
  /\ WriteTotals(totalCollateral + amount, totalDebt, 0)
  /\ eth' = eth + amount
  /\ UNCHANGED <<queues, accumulators, flags, price, stakes, sbd, redemption, saved, roundings>>

CanCloseSafe(s) ==
  /\ CanCall
  /\ s \in minted
  /\ UpdatedSafe(s).borrowedAmount = 0
  /\ UpdatedSafe(s).collateralAmount <= eth

CloseSafe(s) ==
  LET safe == UpdatedSafe(s)
  IN  /\ CanCloseSafe(s)
      /\ WriteSafe(s, NullSafe)
      /\ minted' = minted \ {s}
      /\ WriteTotals(UpdatedCollateral(s) - safe.collateralAmount, UpdatedDebt(s), UpdatedDebt(s))
      /\ eth' = eth - safe.collateralAmount
      /\ roundings' = roundings + NewRoundings(s)
      /\ UNCHANGED <<queues, accumulators, flags, price, stakes, sbd, redemption, saved>>

CanBorrow(s, amount, shieldingRate, hintL, hintR) ==
  LET safe   == UpdatedSafe(s)
      fee    == ShieldingFee(amount, shieldingRate)
      most   == ((safe.collateralAmount * price * BASIS_POINTS_DIVISOR)
                   \div liquidationRatio) \div PRECISION
      debt   == safe.borrowedAmount + amount
      weight == BorrowWeight(safe, amount, shieldingRate)
  IN  /\ CanCall
      /\ s \in minted
      /\ safe.collateralAmount > 0
      /\ debt \in MINIMUM_DEBT .. most
      /\ safe.borrowedAmount # 0 => safe.weight >= MinimumWeight
      /\ fee <= amount
      /\ fee > 0 => FeeDistributable(fee)
      /\ CanUpsert(safesOrderedForRedemption, s, weight, hintR)
      /\ CanUpsert(safesOrderedForLiquidation, s, Ratio(debt, safe.collateralAmount), hintL)

Borrow(s, amount, shieldingRate, hintL, hintR) ==
  LET safe     == UpdatedSafe(s)
      fee      == ShieldingFee(amount, shieldingRate)
      weight   == BorrowWeight(safe, amount, shieldingRate)
      borrowed == [safe EXCEPT !.weight = weight,
                               !.borrowedAmount = @ + amount,
                               !.totalBorrowedAmount = @ + amount,
                               !.feePaid = @ + fee]
      ratio    == Ratio(borrowed.borrowedAmount, borrowed.collateralAmount)
  IN  /\ CanBorrow(s, amount, shieldingRate, hintL, hintR)
      /\ safesOrderedForRedemption' = Upserted(safesOrderedForRedemption, s, weight, hintR)
      /\ safesOrderedForLiquidation' = Upserted(safesOrderedForLiquidation, s, ratio, hintL)
      /\ WriteSafe(s, borrowed)
      /\ Credit(amount - fee + FeeRefunded(fee), 0, FeeToPool(fee), FeeToSBR(fee))
      /\ WriteTotals(UpdatedCollateral(s), UpdatedDebt(s) + amount, UpdatedDebt(s) + amount)
      /\ roundings' = roundings + NewRoundings(s)
      /\ UNCHANGED <<minted, accumulators, flags, price, stakes, eth, redemption, saved>>

CanRepay(s, amount, hint) ==
  LET safe  == UpdatedSafe(s)
      debt  == safe.borrowedAmount - amount
      ratio == Ratio(debt, safe.collateralAmount)
  IN  /\ CanCall
      /\ s \in minted
      /\ amount \in 1 .. safe.borrowedAmount
      /\ debt = 0 \/ debt >= MINIMUM_DEBT
      /\ amount <= sbd.public
      /\ safe.collateralAmount > 0
      /\ ratio # 0 => CanUpsert(safesOrderedForLiquidation, s, ratio, hint)

Repay(s, amount, hint) ==
  LET safe   == UpdatedSafe(s)
      repaid == [safe EXCEPT !.borrowedAmount = @ - amount]
      ratio  == Ratio(repaid.borrowedAmount, repaid.collateralAmount)
  IN  /\ CanRepay(s, amount, hint)
      /\ \/ /\ ratio # 0
            /\ safesOrderedForLiquidation' = Upserted(safesOrderedForLiquidation, s, ratio, hint)
            /\ UNCHANGED safesOrderedForRedemption
         \/ /\ ratio = 0
            /\ safesOrderedForLiquidation' = Removed(safesOrderedForLiquidation, s)
            /\ safesOrderedForRedemption' = Removed(safesOrderedForRedemption, s)
      /\ WriteSafe(s, repaid)
      /\ Credit(-amount, 0, 0, 0)
      /\ WriteTotals(UpdatedCollateral(s), UpdatedDebt(s) - amount, UpdatedDebt(s))
      /\ roundings' = roundings + NewRoundings(s)
      /\ UNCHANGED <<minted, accumulators, flags, price, stakes, eth, redemption, saved>>

\* What AddCollateral, WithdrawCollateral and AdjustPosition do to the Safe and the totals.
Move(s, moved) ==
  /\ WriteSafe(s, [UpdatedSafe(s) EXCEPT !.collateralAmount = @ + moved])
  /\ WriteTotals(UpdatedCollateral(s) + moved, UpdatedDebt(s), UpdatedDebt(s))
  /\ eth' = eth + moved
  /\ roundings' = roundings + NewRoundings(s)
  /\ UNCHANGED <<minted, accumulators, flags, price, stakes, sbd, redemption, saved>>

CanReorder(s, collateral, hint) ==
  /\ collateral > 0
  /\ CanUpsert(safesOrderedForLiquidation, s, Ratio(UpdatedSafe(s).borrowedAmount, collateral),
               hint)

\* The Safe's place in the liquidation queue, with a collateral and the debt it has.
Reorder(s, collateral, hint) ==
  LET ratio == Ratio(UpdatedSafe(s).borrowedAmount, collateral)
  IN  /\ safesOrderedForLiquidation' = Upserted(safesOrderedForLiquidation, s, ratio, hint)
      /\ UNCHANGED safesOrderedForRedemption

CanAddCollateral(s, amount, hint) ==
  /\ CanCall
  /\ s \in minted
  /\ UpdatedSafe(s).collateralAmount > 0
  /\ CanReorder(s, UpdatedSafe(s).collateralAmount + amount, hint)

AddCollateral(s, amount, hint) ==
  /\ CanAddCollateral(s, amount, hint)
  /\ Reorder(s, UpdatedSafe(s).collateralAmount + amount, hint)
  /\ Move(s, amount)

CanWithdrawCollateral(s, amount, hint) ==
  LET safe   == UpdatedSafe(s)
      locked == (safe.borrowedAmount * liquidationRatio * PRECISION)
                  \div (price * BASIS_POINTS_DIVISOR)
  IN  /\ CanCall
      /\ s \in minted
      /\ safe.collateralAmount > 0
      /\ safe.borrowedAmount > 0 => /\ amount <= safe.collateralAmount - locked
                                    /\ CanReorder(s, safe.collateralAmount - amount, hint)
      /\ amount <= safe.collateralAmount
      /\ amount <= eth

WithdrawCollateral(s, amount, hint) ==
  LET safe == UpdatedSafe(s)
  IN  /\ CanWithdrawCollateral(s, amount, hint)
      /\ \/ /\ safe.borrowedAmount > 0
            /\ Reorder(s, safe.collateralAmount - amount, hint)
         \/ /\ safe.borrowedAmount = 0
            /\ safesOrderedForLiquidation' = Removed(safesOrderedForLiquidation, s)
            /\ safesOrderedForRedemption' = Removed(safesOrderedForRedemption, s)
      /\ Move(s, -amount)

CanAdjustPosition(s, hint) ==
  CanCall /\ s \in minted /\ CanReorder(s, UpdatedSafe(s).collateralAmount, hint)

AdjustPosition(s, hint) ==
  /\ CanAdjustPosition(s, hint)
  /\ Reorder(s, UpdatedSafe(s).collateralAmount, hint)
  /\ Move(s, 0)

CanTopupFee(s, topupRate, hint) ==
  LET fee == ShieldingFee(UpdatedSafe(s).borrowedAmount, topupRate)
  IN  /\ CanCall
      /\ s \in minted
      /\ topupRate > 0
      /\ fee <= sbd.public
      /\ CanUpsert(safesOrderedForRedemption, s, UpdatedSafe(s).weight + topupRate, hint)
      /\ FeeDistributable(fee)

FeeTopup(s, topupRate, hint) ==
  LET safe   == UpdatedSafe(s)
      fee    == ShieldingFee(safe.borrowedAmount, topupRate)
      weight == safe.weight + topupRate
  IN  /\ CanTopupFee(s, topupRate, hint)
      /\ safesOrderedForRedemption' = Upserted(safesOrderedForRedemption, s, weight, hint)
      /\ WriteSafe(s, [safe EXCEPT !.weight = weight, !.feePaid = @ + fee])
      /\ Credit(FeeRefunded(fee) - fee, 0, FeeToPool(fee), FeeToSBR(fee))
      /\ WriteTotals(UpdatedCollateral(s), UpdatedDebt(s), UpdatedDebt(s))
      /\ roundings' = roundings + NewRoundings(s)
      /\ UNCHANGED <<minted, safesOrderedForLiquidation, accumulators, flags, price, stakes, eth,
                     redemption, saved>>

-----------------------------------------------------------------------------
(* Liquidation, by whoever calls: the pool pays the debt if it can, else the   *)
(* other Safes inherit debt and collateral.                                    *)

\* (With a mistake, to see that a property notices it: the CDP is not told that the last stake is gone.)
LiquidateByPoolSilently(debt) ==
  /\ debt <= poolStake
  /\ poolStake' = poolStake - debt
  /\ Credit(0, 0, -debt, 0)
  /\ UNCHANGED <<accumulators, stabilityPoolCanReceiveRewards>>

LiquidateByPool(debt) ==
  /\ debt <= poolStake
  /\ poolStake' = poolStake - debt
  /\ stabilityPoolCanReceiveRewards' = (stabilityPoolCanReceiveRewards /\ debt < poolStake)
  /\ Credit(0, 0, -debt, 0)
  /\ UNCHANGED accumulators

\* What the redemption under way has taken out of the Safes and not yet out of
\* totalCollateral.
InFlightCollateral == redemption.collateralAmount + redemption.redeemerFee

\* (History.)
Redistributed ==
  LET collateral == cumulativeCollateralPerUnitCollateral' - cumulativeCollateralPerUnitCollateral
      debt       == cumulativeDebtPerUnitCollateral' - cumulativeDebtPerUnitCollateral
  IN  /\ unclaimed' = [collateral |-> unclaimed.collateral + InFlightCollateral * collateral,
                       debt |-> unclaimed.debt + InFlightCollateral * debt]
      /\ debtAlone' = (debtAlone \/ (collateral = 0 /\ debt # 0))

LiquidateByOtherSafes(debt, collateral, over) ==
  /\ debt > poolStake
  /\ DistributeDebtAndCollateral(debt, collateral, over)
  /\ Redistributed
  /\ UNCHANGED <<poolStake, stabilityPoolCanReceiveRewards, sbd>>

\* The requires of _liquidate, but for the ETH that it pays.
CanLiquidateSafe(s) ==
  LET safe == UpdatedSafe(s)
  IN  /\ CanCall
      /\ s \in minted
      /\ Liquidatable(safe)
      /\ safe.borrowedAmount > poolStake =>
           /\ s # safesOrderedForLiquidation.head
           /\ UpdatedCollateral(s) - safe.collateralAmount > 0

LiquidateSafe(s, gas) ==
  LET safe    == UpdatedSafe(s)
      fee     == LiquidationFee(safe)
      over    == UpdatedCollateral(s) - safe.collateralAmount
      refund  == IF gas < fee THEN gas ELSE fee
      byPool  == safe.borrowedAmount <= poolStake
      feeSent == LiquidationFeeSent(fee, refund, stabilityPoolCanReceiveRewards', poolStake')
      sent    == feeSent + (IF byPool THEN safe.collateralAmount - fee ELSE 0)
  IN  /\ CanLiquidateSafe(s)
      /\ \/ LiquidateByPool(safe.borrowedAmount)
         \/ LiquidateByOtherSafes(safe.borrowedAmount, safe.collateralAmount - fee, over)
      /\ WriteTotals(over, UpdatedDebt(s) - safe.borrowedAmount, UpdatedDebt(s))
      /\ safesOrderedForLiquidation' = Removed(safesOrderedForLiquidation, s)
      /\ safesOrderedForRedemption' = Removed(safesOrderedForRedemption, s)
      /\ WriteSafe(s, NullSafe)
      /\ minted' = minted \ {s}
      /\ sent <= eth
      /\ eth' = eth - sent
      /\ roundings' = roundings + NewRoundings(s) + (IF byPool THEN 0 ELSE 1)
      /\ UNCHANGED <<sbrStakingPoolCanReceiveRewards, price, dfireStake, redemption, saved>>

\* The tail of the queue is the riskiest Safe.
Liquidate(gas) ==
  /\ safesOrderedForLiquidation.tail # 0
  /\ LiquidateSafe(safesOrderedForLiquidation.tail, gas)

-----------------------------------------------------------------------------
(* Redemption.  No redemption is nested in another one: a bound. *)

Storage ==
  [safes |-> safes, minted |-> minted, liquidationSnapshots |-> liquidationSnapshots,
   safesOrderedForLiquidation |-> safesOrderedForLiquidation,
   safesOrderedForRedemption |-> safesOrderedForRedemption,
   cumulativeCollateralPerUnitCollateral |-> cumulativeCollateralPerUnitCollateral,
   cumulativeDebtPerUnitCollateral |-> cumulativeDebtPerUnitCollateral,
   collateralLoss |-> collateralLoss, debtLoss |-> debtLoss,
   totalCollateral |-> totalCollateral, totalDebt |-> totalDebt, PROTOCOL_MODE |-> PROTOCOL_MODE,
   stabilityPoolCanReceiveRewards |-> stabilityPoolCanReceiveRewards,
   sbrStakingPoolCanReceiveRewards |-> sbrStakingPoolCanReceiveRewards,
   poolStake |-> poolStake, dfireStake |-> dfireStake, sbd |-> sbd, eth |-> eth,
   roundings |-> roundings, unclaimed |-> unclaimed, debtAlone |-> debtAlone]

CanRedeem(amount) ==
  /\ redemption.phase = "idle"
  /\ PROTOCOL_MODE = "NORMAL"
  /\ amount \in 1 .. sbd.public

Redeem(amount, hint) ==
  /\ CanRedeem(amount)
  /\ Credit(-amount, amount, 0, 0)
  /\ redemption' = [NoRedemption EXCEPT !.phase = "redeeming", !.requestedAmount = amount,
                                        !.price = price, !.hint = hint]
  /\ saved' = Storage
  /\ UNCHANGED <<safes, minted, liquidationSnapshots, queues, accumulators, totals, flags, price,
                 stakes, eth, roundings>>

Wanted == redemption.requestedAmount - redemption.redeemedAmount

\* What the owner gets back of the DFID, once the fee is taken off.
ToOwner(amounts) ==
  IF amounts.refunded > amounts.ownerFee THEN amounts.refunded - amounts.ownerFee ELSE 0

CanRedeemNode ==
  LET s        == safesOrderedForRedemption.head
      safe     == UpdatedSafe(s)
      amounts  == RedemptionAmounts(safe, Wanted, redemption.price)
      redeemed == RedeemedSafe(safe, amounts)
  IN  /\ redemption.phase = "redeeming"
      /\ redemption.redeemedAmount < redemption.requestedAmount
      /\ redemption.processedSpots < MaxSpots
      /\ s # 0
      /\ Redeemable(safe, redemption.price)
      /\ ToOwner(amounts) > 0 => s \in minted
      /\ ToOwner(amounts) <= sbd.cdp
      /\ amounts.collateral <= safe.collateralAmount
      /\ ~RedeemedEmpty(redeemed, BorrowMode(safe)) =>
           /\ redeemed.collateralAmount > 0
           /\ CanUpsert(safesOrderedForLiquidation, s,
                        Ratio(redeemed.borrowedAmount, redeemed.collateralAmount), redemption.hint)

\* One iteration of _redeemSafes: _redeemNode and redeemSafe on the head of the queue.
RedeemNode ==
  LET s        == safesOrderedForRedemption.head
      safe     == UpdatedSafe(s)
      amounts  == RedemptionAmounts(safe, Wanted, redemption.price)
      charged  == ChargedOwnerFee(amounts)
      redeemed == RedeemedSafe(safe, amounts)
      toOwner  == ToOwner(amounts)
      ratio    == Ratio(redeemed.borrowedAmount, redeemed.collateralAmount)
  IN  /\ CanRedeemNode
      /\ \/ /\ RedeemedEmpty(redeemed, BorrowMode(safe))
            /\ safesOrderedForLiquidation' = Removed(safesOrderedForLiquidation, s)
            /\ safesOrderedForRedemption' = Removed(safesOrderedForRedemption, s)
         \/ /\ ~RedeemedEmpty(redeemed, BorrowMode(safe))
            /\ safesOrderedForLiquidation' =
                 Upserted(safesOrderedForLiquidation, s, ratio, redemption.hint)
            /\ UNCHANGED safesOrderedForRedemption
      /\ WriteSafe(s, redeemed)
      /\ Credit(toOwner, -toOwner, 0, 0)
      /\ WriteTotals(UpdatedCollateral(s), UpdatedDebt(s), UpdatedDebt(s))
      /\ redemption' =
           [redemption EXCEPT !.redeemedAmount = @ + amounts.redeemed + amounts.refunded,
                              !.refundedAmount = @ + amounts.refunded,
                              !.processedSpots = @ + 1,
                              !.collateralAmount = @ + amounts.collateral - amounts.redeemerFee,
                              !.ownerFee = @ + charged,
                              !.redeemerFee = @ + amounts.redeemerFee]
      /\ roundings' = roundings + NewRoundings(s)
      /\ UNCHANGED <<minted, accumulators, flags, price, stakes, eth, saved>>

\* The fees of a redemption go to the pool if it is marked to receive rewards.
CanRedeemToUser ==
  /\ redemption.phase = "redeeming"
  /\ redemption.redeemedAmount >= redemption.requestedAmount
  /\ redemption.ownerFee <= sbd.cdp
  /\ (/\ stabilityPoolCanReceiveRewards
      /\ redemption.ownerFee > 0 \/ redemption.redeemerFee > 0) => poolStake > 0
  /\ redemption.collateralAmount + redemption.redeemerFee <= eth

RedeemToUser ==
  LET fee    == redemption.ownerFee
      paid   == redemption.collateralAmount + redemption.redeemerFee
      toPool == stabilityPoolCanReceiveRewards
  IN  /\ CanRedeemToUser
      /\ Credit(IF toPool THEN 0 ELSE fee, -fee, IF toPool THEN fee ELSE 0, 0)
      /\ eth' = eth - paid
      /\ redemption' = [redemption EXCEPT !.phase = "paid"]
      /\ UNCHANGED <<safes, minted, liquidationSnapshots, queues, accumulators, totals, flags,
                     price, stakes, saved, roundings>>

\* What of the requested DFID is burned.
ToBurn == redemption.redeemedAmount - redemption.refundedAmount

CanRedeemSettle ==
  /\ redemption.phase = "paid"
  /\ redemption.redeemedAmount = redemption.requestedAmount
  /\ ToBurn <= sbd.cdp

RedeemSettle ==
  /\ CanRedeemSettle
  /\ WriteTotals(totalCollateral - (redemption.collateralAmount + redemption.redeemerFee),
                 totalDebt - ToBurn, totalDebt - ToBurn)
  /\ Credit(0, -ToBurn, 0, 0)
  /\ redemption' = NoRedemption
  /\ saved' = NothingSaved
  /\ UNCHANGED <<safes, minted, liquidationSnapshots, queues, accumulators, flags, price, stakes,
                 eth, roundings>>

\* The redemption fails: a require, a division by zero, no gas, or the redeemer
\* refuses the ETH.  What it did, and what was called in the meantime, is undone.
RedeemRevert ==
  /\ redemption.phase # "idle"
  /\ safes' = saved.safes
  /\ minted' = saved.minted
  /\ liquidationSnapshots' = saved.liquidationSnapshots
  /\ safesOrderedForLiquidation' = saved.safesOrderedForLiquidation
  /\ safesOrderedForRedemption' = saved.safesOrderedForRedemption
  /\ cumulativeCollateralPerUnitCollateral' = saved.cumulativeCollateralPerUnitCollateral
  /\ cumulativeDebtPerUnitCollateral' = saved.cumulativeDebtPerUnitCollateral
  /\ collateralLoss' = saved.collateralLoss
  /\ debtLoss' = saved.debtLoss
  /\ totalCollateral' = saved.totalCollateral
  /\ totalDebt' = saved.totalDebt
  /\ PROTOCOL_MODE' = saved.PROTOCOL_MODE
  /\ stabilityPoolCanReceiveRewards' = saved.stabilityPoolCanReceiveRewards
  /\ sbrStakingPoolCanReceiveRewards' = saved.sbrStakingPoolCanReceiveRewards
  /\ poolStake' = saved.poolStake
  /\ dfireStake' = saved.dfireStake
  /\ sbd' = saved.sbd
  /\ eth' = saved.eth
  /\ roundings' = saved.roundings
  /\ unclaimed' = saved.unclaimed
  /\ debtAlone' = saved.debtAlone
  /\ redemption' = NoRedemption
  /\ saved' = NothingSaved
  /\ UNCHANGED price

-----------------------------------------------------------------------------
(* What the CDP sees of the oracle, the StabilityPool and DFIREStaking. *)

\* The oracle reports another price, between transactions.
SetPrice(p) ==
  /\ redemption.phase = "idle"
  /\ price' = p
  /\ UNCHANGED <<safes, minted, liquidationSnapshots, queues, accumulators, totals, flags, stakes,
                 sbd, eth, redemption, saved, roundings>>

UnchangedByStaking ==
  UNCHANGED <<safes, minted, liquidationSnapshots, queues, accumulators, totals, price, eth,
              redemption, saved, roundings>>

\* A stake is added to (n > 0) or taken from the pool, after a claim of rewards.
PoolStake(n, reward) ==
  /\ CanCall
  /\ reward \in 0 .. sbd.pool - poolStake
  /\ n <= sbd.public + reward
  /\ poolStake' = poolStake + n
  /\ stabilityPoolCanReceiveRewards' = (poolStake = 0 \/ stabilityPoolCanReceiveRewards)
  /\ Credit(reward - n, 0, n - reward, 0)
  /\ UNCHANGED <<dfireStake, sbrStakingPoolCanReceiveRewards>>
  /\ UnchangedByStaking

PoolUnstake(n, reward) ==
  /\ CanCall
  /\ reward \in 0 .. sbd.pool - poolStake
  /\ n <= poolStake
  /\ poolStake' = poolStake - n
  /\ stabilityPoolCanReceiveRewards' = (n < poolStake /\ stabilityPoolCanReceiveRewards)
  /\ Credit(reward + n, 0, -(reward + n), 0)
  /\ UNCHANGED <<dfireStake, sbrStakingPoolCanReceiveRewards>>
  /\ UnchangedByStaking

DfireStake(n, reward) ==
  /\ CanCall
  /\ reward \in 0 .. sbd.sbr
  /\ dfireStake + n <= DFIRESupply
  /\ dfireStake' = dfireStake + n
  /\ sbrStakingPoolCanReceiveRewards' = (dfireStake = 0 \/ sbrStakingPoolCanReceiveRewards)
  /\ Credit(reward, 0, 0, -reward)
  /\ UNCHANGED <<poolStake, stabilityPoolCanReceiveRewards>>
  /\ UnchangedByStaking

DfireUnstake(n, reward) ==
  /\ CanCall
  /\ reward \in 0 .. sbd.sbr
  /\ n <= dfireStake
  /\ dfireStake' = dfireStake - n
  /\ sbrStakingPoolCanReceiveRewards' = (n < dfireStake /\ sbrStakingPoolCanReceiveRewards)
  /\ Credit(reward, 0, 0, -reward)
  /\ UNCHANGED <<poolStake, stabilityPoolCanReceiveRewards>>
  /\ UnchangedByStaking

-----------------------------------------------------------------------------

OwnerCall ==
  \E s \in Safes :
    \/ \E amount \in Collaterals : OpenSafe(s, amount)
    \/ CloseSafe(s)
    \/ \E amount \in Debts, rate \in ShieldingRates, hintL, hintR \in Hints :
         Borrow(s, amount, rate, hintL, hintR)
    \/ \E amount \in Debts, hint \in Hints : Repay(s, amount, hint)
    \/ \E amount \in Collaterals, hint \in Hints : AddCollateral(s, amount, hint)
    \/ \E amount \in Collaterals, hint \in Hints : WithdrawCollateral(s, amount, hint)
    \/ \E hint \in Hints : AdjustPosition(s, hint)
    \/ \E rate \in ShieldingRates, hint \in Hints : FeeTopup(s, rate, hint)

LiquidationCall ==
  \E gas \in GasCosts : Liquidate(gas) \/ \E s \in Safes : LiquidateSafe(s, gas)

StakingCall ==
  \E n \in StakeAmounts :
    \/ \E reward \in 0 .. sbd.pool : PoolStake(n, reward) \/ PoolUnstake(n, reward)
    \/ \E reward \in 0 .. sbd.sbr : DfireStake(n, reward) \/ DfireUnstake(n, reward)

RedeemCall == \E amount \in RedeemAmounts, hint \in Hints : Redeem(amount, hint)

Call == OwnerCall \/ LiquidationCall \/ StakingCall \/ RedeemCall

\* What the EVM does next with a redemption that it runs.
RedemptionStep == RedeemNode \/ RedeemToUser \/ RedeemSettle \/ RedeemRevert

PriceChange == \E p \in Prices : SetPrice(p)

Next == Call \/ RedemptionStep \/ PriceChange

Spec == Init /\ [][Next]_vars

-----------------------------------------------------------------------------
(* Properties. *)

RedemptionType ==
  [phase : {"idle", "redeeming", "paid"}, requestedAmount : Nat, price : Nat, hint : Slots,
   redeemedAmount : Nat, refundedAmount : Nat, processedSpots : Nat, collateralAmount : Nat,
   ownerFee : Nat, redeemerFee : Nat]

\* Every variable has its type: no amount, total or balance is negative.
TypeOK ==
  /\ safes \in [Safes -> Safe]
  /\ minted \subseteq Safes
  /\ liquidationSnapshots \in [Safes -> Snapshot]
  /\ safesOrderedForLiquidation \in ListType
  /\ safesOrderedForRedemption \in ListType
  /\ cumulativeCollateralPerUnitCollateral \in Nat
  /\ cumulativeDebtPerUnitCollateral \in Nat
  /\ collateralLoss \in Nat /\ debtLoss \in Nat
  /\ totalCollateral \in Nat /\ totalDebt \in Nat
  /\ PROTOCOL_MODE \in {"BOOTSTRAP", "NORMAL"}
  /\ stabilityPoolCanReceiveRewards \in BOOLEAN
  /\ sbrStakingPoolCanReceiveRewards \in BOOLEAN
  /\ price \in Prices
  /\ poolStake \in Nat /\ dfireStake \in Nat
  /\ sbd \in [Accounts -> Nat]
  /\ eth \in Nat
  /\ redemption \in RedemptionType
  /\ redemption.phase = "idle" => redemption = NoRedemption /\ saved = NothingSaved
  /\ roundings \in Nat
  /\ unclaimed \in Snapshot /\ debtAlone \in BOOLEAN

RecordedCollateral == Sum([s \in Safes |-> safes[s].collateralAmount], MaxId)
RecordedDebt       == Sum([s \in Safes |-> safes[s].borrowedAmount], MaxId)

\* totalCollateral and totalDebt are the sums over the Safes, whatever the order
\* of updates, liquidations and redemptions, and also while the redeemer is
\* called back: redistribution divides by totalCollateral.
TotalsMatch ==
  /\ totalCollateral = RecordedCollateral + InFlightCollateral
  /\ totalDebt = RecordedDebt + ToBurn

\* What redistribution owes the Safes and they have not taken yet, times PRECISION.
PendingCollateral ==
  Sum([s \in Safes |-> safes[s].collateralAmount
                         * (cumulativeCollateralPerUnitCollateral
                              - liquidationSnapshots[s].collateral)], MaxId)
PendingDebt ==
  Sum([s \in Safes |-> safes[s].collateralAmount
                         * (cumulativeDebtPerUnitCollateral - liquidationSnapshots[s].debt)],
      MaxId)

Near(a, b) == a - b \in -(PRECISION * roundings) .. PRECISION * roundings

EthOfSafes == eth - (IF redemption.phase = "redeeming" THEN InFlightCollateral ELSE 0)
Supply     == sbd.public + sbd.cdp + sbd.pool + sbd.sbr

\* The ETH of the CDP is the collateral of the Safes, with what redistribution
\* still owes them, up to one wei for each amount that was rounded; but for the
\* share that nobody can claim, since a redeemer who was called back liquidated
\* while totalCollateral still counted what had been redeemed.
EthAccounted ==
  Near(PRECISION * EthOfSafes,
       PRECISION * (RecordedCollateral + collateralLoss) + PendingCollateral + unclaimed.collateral)

\* Every DFID in circulation is the debt of some Safe, and no debt is without
\* DFID that can repay it, up to one wei for each amount that was rounded, and
\* but for the same share.
DebtAccounted ==
  Near(PRECISION * (Supply - ToBurn),
       PRECISION * (RecordedDebt + debtLoss) + PendingDebt + unclaimed.debt)

\* Nothing is lost or counted twice, however late a Safe takes its share.  (When
\* only the accumulator of debt has moved, a Safe is taken for up to date, and
\* the debt of the collateral that it adds or withdraws then is nobody's.)
AmountsAccounted == EthAccounted /\ (~debtAlone => DebtAccounted)

\* The CDP knows whether each of the two staking contracts has a stake that
\* rewards can be divided by.
FlagsTellStakers ==
  /\ stabilityPoolCanReceiveRewards = (poolStake > 0)
  /\ sbrStakingPoolCanReceiveRewards = (dfireStake > 0)

\* A redeemer never gets more ETH than the DFID redeemed are worth at the price,
\* up to the rounding of each Safe's value.
RedeemerNotOverpaid ==
  InFlightCollateral * redemption.price
    <= redemption.redeemedAmount * PRECISION + redemption.processedSpots * (PRECISION - 1)

\* The DFID that a redeemer hands to the CDP all go somewhere: burned, refunded
\* to owners, or paid as fees.
NothingStuck == redemption.phase = "idle" => sbd.cdp = 0

\* The loop of _redeemSafes visits a Safe at most once.
EachSafeOnce == redemption.processedSpots <= MaxId

\* "No redemptions during bootstrap phase (Until 5 million DFID borrowed)": the
\* debt never exceeds the threshold in that mode.
ModeFollowsDebt == totalDebt > BOOTSTRAP_MODE_DEBT_THRESHOLD => PROTOCOL_MODE = "NORMAL"

\* A list is sorted, and its links agree in both directions.
InOrder(l) ==
  LET chain == Chain(l)
  IN  \A k \in 1 .. Cardinality(Members(l)) - 1 :
        /\ l.nodes[chain[k]].value <= l.nodes[chain[k + 1]].value
        /\ l.nodes[chain[k + 1]].prev = chain[k]

\* The redemption queue is sorted, and a Safe in it stands where its weight, and
\* so the fee its owner paid, puts it.  (A Safe that was closed in the queue, or
\* opened again with that id, has no weight until it borrows.)
RedemptionOrder ==
  /\ InOrder(safesOrderedForRedemption)
  /\ \A s \in Members(safesOrderedForRedemption) :
       safes[s].weight > 0 => safesOrderedForRedemption.nodes[s].value = safes[s].weight

\* Every Safe in the redemption queue has a place that was paid for: a value above 0,
\* since the code takes the only node, if its value is 0, for one that is not there.
PlacesPaid == safesOrderedForRedemption.head # 0 => MinimumWeight > 0

\* A debt that is repaid, or liquidated, takes the Safe out of the redemption
\* queue (StableBaseFlowTest.js, "Full Repay should work").
FullyRepaidLeavesQueue ==
  [][\A s \in Safes :
       (/\ redemption.phase = "idle"
        /\ safes[s].borrowedAmount > 0
        /\ safes'[s].borrowedAmount = 0)
         => s \notin Members(safesOrderedForRedemption')]_vars

\* "Redemptions are processed through a queue, where CDPs are ordered": a node of
\* the queue is a Safe that exists.
QueueHoldsSafes == Members(safesOrderedForRedemption) \subseteq minted

\* "ownerFee = (collateralValueRedeemed * REDEMPTION_BASE_FEE) / 10000 - feePaid":
\* an owner who has paid that much in fees pays nothing at the redemption.
OwnerFeeAsStated ==
  [][LET value == redemption'.redeemedAmount - redemption.redeemedAmount
         paid  == safes[safesOrderedForRedemption.head].feePaid
     IN  (redemption'.processedSpots > redemption.processedSpots /\ BaseFee(value) <= paid)
           => redemption'.ownerFee = redemption.ownerFee]_vars
=============================================================================
