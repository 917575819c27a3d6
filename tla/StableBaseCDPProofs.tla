------------------------- MODULE StableBaseCDPProofs -------------------------
(***************************************************************************)
(* Type correctness, exact totals, exact flags, the order of the           *)
(* redemption queue and the debts in the liquidation queue of              *)
(* StableBaseCDP, for any number of Safes, any prices, rates and amounts,  *)
(* and any nesting of calls in the payment of a redemption; then that its  *)
(* ETH and the DFID are accounted for.                                     *)
(***************************************************************************)
EXTENDS StableBaseCDPH, OrderedListProofs

(* The inductive invariant.  What TypeOK says of the totals is not in it: they *)
(* are natural numbers because they are sums of natural numbers.               *)

\* No Safe has a snapshot that is ahead of the accumulators.
SnapshotsBehind ==
  \A s \in Safes :
    /\ liquidationSnapshots[s].collateral <= cumulativeCollateralPerUnitCollateral
    /\ liquidationSnapshots[s].debt <= cumulativeDebtPerUnitCollateral

SafesSound ==
  /\ safes \in [Safes -> Safe]
  /\ liquidationSnapshots \in [Safes -> Snapshot]
  /\ cumulativeCollateralPerUnitCollateral \in Nat
  /\ cumulativeDebtPerUnitCollateral \in Nat
  /\ SnapshotsBehind

QueuesSound ==
  /\ safesOrderedForLiquidation \in ListType
  /\ safesOrderedForRedemption \in ListType

TotalsSound ==
  /\ TotalsMatch
  /\ PROTOCOL_MODE \in {"BOOTSTRAP", "NORMAL"}
  /\ ModeFollowsDebt

\* An id that is nobody's keeps no Safe: opening one hides no debt.
MintedSound ==
  /\ minted \subseteq Safes
  /\ \A s \in Safes \ minted : safes[s] = NullSafe

\* The pool holds the DFID that is staked in it: a liquidation can burn them.
MoneySound ==
  /\ sbd \in [Accounts -> Nat]
  /\ poolStake \in Nat /\ dfireStake \in Nat
  /\ poolStake <= sbd.pool
  /\ FlagsTellStakers

RestSound ==
  /\ collateralLoss \in Nat /\ debtLoss \in Nat
  /\ price \in Prices
  /\ eth \in Nat
  /\ roundings \in Nat
  /\ unclaimed \in Snapshot /\ debtAlone \in BOOLEAN

RedemptionSound ==
  /\ redemption \in RedemptionType
  /\ redemption.refundedAmount <= redemption.redeemedAmount
  /\ redemption.phase = "idle" => redemption = NoRedemption /\ saved = NothingSaved
  /\ redemption.phase # "idle" => redemption.price > 0
  /\ RedeemerNotOverpaid

\* A storage between transactions.
Sound(st) ==
  /\ st.safes \in [Safes -> Safe]
  /\ st.liquidationSnapshots \in [Safes -> Snapshot]
  /\ st.cumulativeCollateralPerUnitCollateral \in Nat
  /\ st.cumulativeDebtPerUnitCollateral \in Nat
  /\ \A s \in Safes :
       /\ st.liquidationSnapshots[s].collateral <= st.cumulativeCollateralPerUnitCollateral
       /\ st.liquidationSnapshots[s].debt <= st.cumulativeDebtPerUnitCollateral
  /\ st.safesOrderedForLiquidation \in ListType
  /\ st.safesOrderedForRedemption \in ListType
  /\ st.totalCollateral = Sum([s \in Safes |-> st.safes[s].collateralAmount], MaxId)
  /\ st.totalDebt = Sum([s \in Safes |-> st.safes[s].borrowedAmount], MaxId)
  /\ st.PROTOCOL_MODE \in {"BOOTSTRAP", "NORMAL"}
  /\ st.totalDebt > BOOTSTRAP_MODE_DEBT_THRESHOLD => st.PROTOCOL_MODE = "NORMAL"
  /\ st.minted \subseteq Safes
  /\ \A s \in Safes \ st.minted : st.safes[s] = NullSafe
  /\ st.sbd \in [Accounts -> Nat]
  /\ st.poolStake \in Nat /\ st.dfireStake \in Nat
  /\ st.poolStake <= st.sbd.pool
  /\ st.stabilityPoolCanReceiveRewards = (st.poolStake > 0)
  /\ st.sbrStakingPoolCanReceiveRewards = (st.dfireStake > 0)
  /\ st.collateralLoss \in Nat /\ st.debtLoss \in Nat
  /\ st.eth \in Nat
  /\ st.roundings \in Nat
  /\ st.unclaimed \in Snapshot /\ st.debtAlone \in BOOLEAN

\* What a redemption that fails goes back to.
SavedSound == redemption.phase # "idle" => Sound(saved)

Inv ==
  /\ SafesSound
  /\ QueuesSound
  /\ TotalsSound
  /\ MintedSound
  /\ MoneySound
  /\ RestSound
  /\ RedemptionSound
  /\ SavedSound

-----------------------------------------------------------------------------
(* Safes and the totals. *)

\* A Safe's share of what was redistributed is not negative: updating a Safe
\* leaves a well-typed Safe, which has grown by the increases.
LEMMA UpdatedType ==
  ASSUME SafesSound, NEW s \in Safes
  PROVE  /\ DebtIncrease(s) \in Nat /\ CollateralIncrease(s) \in Nat
         /\ UpdatedSafe(s) \in Safe /\ safes[s] \in Safe
         /\ UpdatedSafe(s).collateralAmount = safes[s].collateralAmount + CollateralIncrease(s)
         /\ UpdatedSafe(s).borrowedAmount = safes[s].borrowedAmount + DebtIncrease(s)
<1>1. safes[s] \in Safe /\ liquidationSnapshots[s] \in Snapshot
  BY DEF SafesSound
<1>2. /\ safes[s].collateralAmount \in Nat /\ safes[s].borrowedAmount \in Nat
      /\ safes[s].totalBorrowedAmount \in Nat
      /\ cumulativeDebtPerUnitCollateral - liquidationSnapshots[s].debt \in Nat
      /\ cumulativeCollateralPerUnitCollateral - liquidationSnapshots[s].collateral \in Nat
  BY <1>1 DEF SafesSound, SnapshotsBehind, Safe, Snapshot
<1>3. \A a, b \in Nat : (a * b) \div PRECISION \in Nat
  BY StableBaseAssumption
<1>4. DebtIncrease(s) \in Nat /\ CollateralIncrease(s) \in Nat
  BY <1>2, <1>3 DEF DebtIncrease, CollateralIncrease
<1> DEFINE d == safes[s].borrowedAmount + DebtIncrease(s)
           t == safes[s].totalBorrowedAmount + DebtIncrease(s)
           c == safes[s].collateralAmount + CollateralIncrease(s)
<1>5. d \in Nat /\ t \in Nat /\ c \in Nat
  BY <1>2, <1>4
<1>6. UpdatedSafe(s) =
        [safes[s] EXCEPT !.borrowedAmount = d, !.totalBorrowedAmount = t, !.collateralAmount = c]
  BY <1>1 DEF UpdatedSafe, Safe
<1>7. UpdatedSafe(s) \in Safe /\ UpdatedSafe(s).collateralAmount = c
      /\ UpdatedSafe(s).borrowedAmount = d
  <2> HIDE DEF d, t, c
  <2> QED BY <1>1, <1>5, <1>6 DEF Safe
<1>8. QED
  BY <1>1, <1>4, <1>7

\* The sums over the Safes are those of functions of natural numbers.
LEMMA RecordedType ==
  ASSUME safes \in [Safes -> Safe]
  PROVE  /\ [s \in Safes |-> safes[s].collateralAmount] \in [1 .. MaxId -> Nat]
         /\ [s \in Safes |-> safes[s].borrowedAmount] \in [1 .. MaxId -> Nat]
         /\ RecordedCollateral \in Nat /\ RecordedDebt \in Nat
<1>1. /\ [s \in Safes |-> safes[s].collateralAmount] \in [1 .. MaxId -> Nat]
      /\ [s \in Safes |-> safes[s].borrowedAmount] \in [1 .. MaxId -> Nat]
  BY DEF Safes, Ids, Safe
<1>2. MaxId \in Nat
  BY MaxIdAssumption
<1>3. QED
  BY <1>1, <1>2, SumBounds DEF RecordedCollateral, RecordedDebt

\* Writing one Safe changes the sums by what it changes in that Safe.
LEMMA RecordedUpdate ==
  ASSUME safes \in [Safes -> Safe], NEW s \in Safes, NEW safe \in Safe,
         safes' = [safes EXCEPT ![s] = safe]
  PROVE  /\ RecordedCollateral' =
              RecordedCollateral - safes[s].collateralAmount + safe.collateralAmount
         /\ RecordedDebt' = RecordedDebt - safes[s].borrowedAmount + safe.borrowedAmount
<1> DEFINE c == [t \in Safes |-> safes[t].collateralAmount]
           d == [t \in Safes |-> safes[t].borrowedAmount]
<1>1. /\ [t \in Safes |-> safes'[t].collateralAmount] = [c EXCEPT ![s] = safe.collateralAmount]
      /\ [t \in Safes |-> safes'[t].borrowedAmount] = [d EXCEPT ![s] = safe.borrowedAmount]
      /\ c[s] = safes[s].collateralAmount /\ d[s] = safes[s].borrowedAmount
  OBVIOUS
<1>2. c \in [1 .. MaxId -> Int] /\ d \in [1 .. MaxId -> Int]
  BY RecordedType
<1>3. safe.collateralAmount \in Int /\ safe.borrowedAmount \in Int
  BY DEF Safe
<1>4. MaxId \in Nat /\ s \in 1 .. MaxId
  BY MaxIdAssumption DEF Safes, Ids
<1> HIDE DEF c, d
<1>5. /\ Sum([c EXCEPT ![s] = safe.collateralAmount], MaxId)
           = Sum(c, MaxId) - c[s] + safe.collateralAmount
      /\ Sum([d EXCEPT ![s] = safe.borrowedAmount], MaxId)
           = Sum(d, MaxId) - d[s] + safe.borrowedAmount
  BY <1>2, <1>3, <1>4, SumUpdate
<1>6. /\ RecordedCollateral = Sum(c, MaxId) /\ RecordedDebt = Sum(d, MaxId)
      /\ RecordedCollateral' = Sum([t \in Safes |-> safes'[t].collateralAmount], MaxId)
      /\ RecordedDebt' = Sum([t \in Safes |-> safes'[t].borrowedAmount], MaxId)
  BY DEF RecordedCollateral, RecordedDebt, c, d
<1>7. QED
  BY <1>1, <1>5, <1>6

\* A Safe and a snapshot that is not ahead are written, whether or not the
\* accumulators grow in the same call.
LEMMA SnapshotWritten ==
  ASSUME SafesSound, NEW s \in Safes, NEW safe \in Safe, NEW snapshot \in Snapshot,
         safes' = [safes EXCEPT ![s] = safe],
         liquidationSnapshots' = [liquidationSnapshots EXCEPT ![s] = snapshot],
         snapshot.collateral <= cumulativeCollateralPerUnitCollateral,
         snapshot.debt <= cumulativeDebtPerUnitCollateral,
         cumulativeCollateralPerUnitCollateral' \in Nat,
         cumulativeDebtPerUnitCollateral' \in Nat,
         cumulativeCollateralPerUnitCollateral' >= cumulativeCollateralPerUnitCollateral,
         cumulativeDebtPerUnitCollateral' >= cumulativeDebtPerUnitCollateral
  PROVE  SafesSound'
<1>1. safes' \in [Safes -> Safe] /\ liquidationSnapshots' \in [Safes -> Snapshot]
  BY DEF SafesSound
<1>2. ASSUME NEW t \in Safes
      PROVE  /\ liquidationSnapshots'[t].collateral <= cumulativeCollateralPerUnitCollateral'
             /\ liquidationSnapshots'[t].debt <= cumulativeDebtPerUnitCollateral'
  <2>1. /\ liquidationSnapshots'[t] \in Snapshot
        /\ liquidationSnapshots'[t].collateral <= cumulativeCollateralPerUnitCollateral
        /\ liquidationSnapshots'[t].debt <= cumulativeDebtPerUnitCollateral
    BY <1>1 DEF SafesSound, SnapshotsBehind
  <2>2. liquidationSnapshots'[t].collateral \in Nat /\ liquidationSnapshots'[t].debt \in Nat
    BY <2>1 DEF Snapshot
  <2>3. QED
    BY <2>1, <2>2 DEF SafesSound
<1>3. QED
  BY <1>1, <1>2 DEF SafesSound, SnapshotsBehind

\* WriteSafe writes such a snapshot.
LEMMA SafeWritten ==
  ASSUME SafesSound, NEW s \in Safes, NEW safe \in Safe, WriteSafe(s, safe),
         cumulativeCollateralPerUnitCollateral' \in Nat,
         cumulativeDebtPerUnitCollateral' \in Nat,
         cumulativeCollateralPerUnitCollateral' >= cumulativeCollateralPerUnitCollateral,
         cumulativeDebtPerUnitCollateral' >= cumulativeDebtPerUnitCollateral
  PROVE  SafesSound'
<1> DEFINE snapshot == [collateral |-> cumulativeCollateralPerUnitCollateral,
                        debt |-> IF Outdated(s) THEN cumulativeDebtPerUnitCollateral
                                                ELSE liquidationSnapshots[s].debt]
<1>1. safes' = [safes EXCEPT ![s] = safe]
      /\ liquidationSnapshots' = [liquidationSnapshots EXCEPT ![s] = snapshot]
  BY DEF WriteSafe, SafesSound
<1>2. snapshot \in Snapshot /\ liquidationSnapshots[s] \in Snapshot
  BY DEF SafesSound, Snapshot
<1>3. /\ snapshot.collateral <= cumulativeCollateralPerUnitCollateral
      /\ snapshot.debt <= cumulativeDebtPerUnitCollateral
  BY <1>2 DEF SafesSound, SnapshotsBehind, Snapshot
<1> HIDE DEF snapshot
<1>4. QED
  BY <1>1, <1>2, <1>3, SnapshotWritten

\* A Safe is written and the totals with it: they stay the sums, because the
\* call changes them by what it changes in the Safe.
LEMMA TotalsWritten ==
  ASSUME SafesSound, TotalsSound, NEW s \in Safes, NEW safe \in Safe,
         safes' = [safes EXCEPT ![s] = safe],
         NEW collateral \in Int, NEW debt \in Int, NEW highestDebt \in Int,
         WriteTotals(collateral, debt, highestDebt), debt = totalDebt \/ debt <= highestDebt,
         redemption \in RedemptionType, redemption' \in RedemptionType,
         collateral - InFlightCollateral' =
           UpdatedCollateral(s) - InFlightCollateral
             + safe.collateralAmount - UpdatedSafe(s).collateralAmount,
         debt - ToBurn' =
           UpdatedDebt(s) - ToBurn + safe.borrowedAmount - UpdatedSafe(s).borrowedAmount
  PROVE  TotalsSound'
<1>1. /\ RecordedCollateral' =
            RecordedCollateral - safes[s].collateralAmount + safe.collateralAmount
      /\ RecordedDebt' = RecordedDebt - safes[s].borrowedAmount + safe.borrowedAmount
  BY RecordedUpdate DEF SafesSound
<1>2. /\ RecordedCollateral \in Nat /\ RecordedDebt \in Nat
      /\ safes[s].collateralAmount \in Nat /\ safes[s].borrowedAmount \in Nat
      /\ safe.collateralAmount \in Nat /\ safe.borrowedAmount \in Nat
      /\ CollateralIncrease(s) \in Nat /\ DebtIncrease(s) \in Nat
  BY RecordedType, UpdatedType DEF SafesSound, Safe
<1>3. /\ UpdatedSafe(s).collateralAmount = safes[s].collateralAmount + CollateralIncrease(s)
      /\ UpdatedSafe(s).borrowedAmount = safes[s].borrowedAmount + DebtIncrease(s)
  BY UpdatedType
<1>4. /\ InFlightCollateral \in Int /\ InFlightCollateral' \in Int
      /\ ToBurn \in Int /\ ToBurn' \in Int
  BY DEF InFlightCollateral, ToBurn, RedemptionType
<1>5. /\ totalCollateral = RecordedCollateral + InFlightCollateral
      /\ totalDebt = RecordedDebt + ToBurn
  BY DEF TotalsSound, TotalsMatch
<1>6. collateral = RecordedCollateral' + InFlightCollateral'
  BY <1>1, <1>2, <1>3, <1>4, <1>5 DEF UpdatedCollateral
<1>7. debt = RecordedDebt' + ToBurn'
  BY <1>1, <1>2, <1>3, <1>4, <1>5 DEF UpdatedDebt
<1>8. PROTOCOL_MODE' \in {"BOOTSTRAP", "NORMAL"} /\ ModeFollowsDebt'
  BY StableBaseAssumption DEF WriteTotals, TotalsSound, ModeFollowsDebt
<1>9. QED
  BY <1>6, <1>7, <1>8 DEF WriteTotals, TotalsSound, TotalsMatch

\* The totals and what a redemption has in flight are natural numbers.
LEMMA TotalsType ==
  ASSUME SafesSound, TotalsSound, RedemptionSound
  PROVE  /\ totalCollateral \in Nat /\ totalDebt \in Nat
         /\ InFlightCollateral \in Nat /\ ToBurn \in Nat
<1>1. RecordedCollateral \in Nat /\ RecordedDebt \in Nat
  BY RecordedType DEF SafesSound
<1>2. InFlightCollateral \in Nat /\ ToBurn \in Nat
  BY DEF InFlightCollateral, ToBurn, RedemptionSound, RedemptionType
<1>3. QED
  BY <1>1, <1>2 DEF TotalsSound, TotalsMatch

\* The invariant contains the type of every variable.
LEMMA InvType == Inv => TypeOK
<1> SUFFICES ASSUME Inv PROVE TypeOK
  OBVIOUS
<1>1. totalCollateral \in Nat /\ totalDebt \in Nat
  BY TotalsType DEF Inv
<1>2. stabilityPoolCanReceiveRewards \in BOOLEAN /\ sbrStakingPoolCanReceiveRewards \in BOOLEAN
  BY DEF Inv, MoneySound, FlagsTellStakers
<1>3. QED
  BY <1>1, <1>2 DEF TypeOK, Inv, SafesSound, QueuesSound, TotalsSound, MintedSound, MoneySound,
                    RestSound, RedemptionSound

-----------------------------------------------------------------------------
(* DFID that moves. *)

\* DFID are credited to and taken from accounts that have as many.
LEMMA CreditType ==
  ASSUME sbd \in [Accounts -> Nat],
         NEW public \in Int, NEW cdp \in Int, NEW pool \in Int, NEW sbr \in Int,
         sbd.public + public >= 0, sbd.cdp + cdp >= 0, sbd.pool + pool >= 0, sbd.sbr + sbr >= 0,
         Credit(public, cdp, pool, sbr)
  PROVE  /\ sbd' \in [Accounts -> Nat]
         /\ sbd'.pool = sbd.pool + pool
<1>1. /\ sbd.public \in Nat /\ sbd.cdp \in Nat /\ sbd.pool \in Nat /\ sbd.sbr \in Nat
  BY DEF Accounts
<1> DEFINE a == sbd.public + public
           b == sbd.cdp + cdp
           c == sbd.pool + pool
           d == sbd.sbr + sbr
<1>2. sbd' = [sbd EXCEPT !.public = a, !.cdp = b, !.pool = c, !.sbr = d]
  BY DEF Credit
<1>3. a \in Nat /\ b \in Nat /\ c \in Nat /\ d \in Nat
  BY <1>1
<1>4. sbd' \in [Accounts -> Nat] /\ sbd'.pool = c
  <2> HIDE DEF a, b, c, d
  <2> QED BY <1>2, <1>3 DEF Accounts
<1>5. QED
  BY <1>4

\* The parts of a fee are natural numbers that add up to the fee.
LEMMA FeeParts ==
  ASSUME NEW fee \in Nat
  PROVE  /\ FeeToSBR(fee) \in Nat /\ FeeToPool(fee) \in Nat /\ FeeRefunded(fee) \in Nat
         /\ fee = FeeToSBR(fee) + FeeToPool(fee) + FeeRefunded(fee)
<1>1. FeeToSBR(fee) \in 0 .. fee
  <2>1. fee * SBR_FEE_REWARD \in Nat /\ fee * SBR_FEE_REWARD <= fee * BASIS_POINTS_DIVISOR
    BY StableBaseAssumption
  <2>2. (fee * SBR_FEE_REWARD) \div BASIS_POINTS_DIVISOR \in 0 .. fee
    BY <2>1, StableBaseAssumption
  <2>3. QED
    BY <2>2 DEF FeeToSBR
<1>2. QED
  BY <1>1 DEF FeeToPool, FeeRefunded

-----------------------------------------------------------------------------
(* What the arithmetic of the operations yields. *)

\* A quotient is at most a bound whose product with the divisor is at least the dividend.
LEMMA QuotientBound ==
  ASSUME NEW x \in Nat, NEW y \in Nat, NEW d \in Nat \ {0}, x <= y * d
  PROVE  x \div d \in Nat /\ x \div d <= y
OBVIOUS

\* The key of the liquidation queue is a natural number.
LEMMA RatioType ==
  ASSUME NEW debt \in Nat, NEW collateral \in Nat \ {0}
  PROVE  Ratio(debt, collateral) \in Nat
<1>1. debt * PRECISION \in Nat
  BY StableBaseAssumption
<1>2. QED
  BY <1>1 DEF Ratio

\* A shielding fee is a natural number.
LEMMA ShieldingFeeType ==
  ASSUME NEW amount \in Nat, NEW rate \in Nat
  PROVE  ShieldingFee(amount, rate) \in Nat
<1>1. amount * rate \in Nat
  OBVIOUS
<1>2. QED
  BY <1>1, StableBaseAssumption DEF ShieldingFee

\* The weight of a borrower is a natural number if its Safe is not below the
\* lowest weight in the redemption queue, which handleBorrow requires.
LEMMA BorrowWeightType ==
  ASSUME QueuesSound, NEW safe \in Safe, NEW amount \in Nat \ {0}, NEW rate \in Nat,
         safe.borrowedAmount # 0 => safe.weight >= MinimumWeight
  PROVE  BorrowWeight(safe, amount, rate) \in Nat
<1>1. MinimumWeight \in Nat /\ safe.weight \in Nat /\ safe.borrowedAmount \in Nat
  BY NodeType DEF MinimumWeight, QueuesSound, ListType, Safe
<1>2. CASE safe.borrowedAmount = 0
  BY <1>1, <1>2 DEF BorrowWeight
<1>3. CASE safe.borrowedAmount # 0
  <2> DEFINE diff == ((safe.weight - MinimumWeight) * safe.borrowedAmount) \div BASIS_POINTS_DIVISOR
             sum  == (ShieldingFee(amount, rate) + diff) * BASIS_POINTS_DIVISOR
  <2>1. safe.weight - MinimumWeight \in Nat
    BY <1>1, <1>3
  <2>2. (safe.weight - MinimumWeight) * safe.borrowedAmount \in Nat
    BY <1>1, <2>1
  <2>3. diff \in Nat
    BY <2>2, StableBaseAssumption
  <2>4. ShieldingFee(amount, rate) \in Nat
    BY ShieldingFeeType
  <2> HIDE DEF diff
  <2>5. sum \in Nat
    BY <2>3, <2>4, StableBaseAssumption
  <2>6. safe.borrowedAmount + amount \in Nat \ {0}
    BY <1>1
  <2> HIDE DEF sum
  <2>7. sum \div (safe.borrowedAmount + amount) \in Nat
    BY <2>5, <2>6
  <2>8. BorrowWeight(safe, amount, rate) =
          (IF rate = 0 THEN safe.weight
                       ELSE MinimumWeight + sum \div (safe.borrowedAmount + amount))
    BY <1>3 DEF BorrowWeight, sum, diff
  <2>9. QED
    BY <1>1, <2>7, <2>8
<1>4. QED
  BY <1>2, <1>3

\* The fee rate of a redemption is at most the liquidation fee.
LEMMA FeeTierType ==
  ASSUME NEW safe \in Safe, safe.totalBorrowedAmount > 0
  PROVE  FeeTier(safe) \in 0 .. BASIS_POINTS_DIVISOR * PRECISION
<1>1. safe.feePaid \in Nat /\ safe.totalBorrowedAmount \in Nat \ {0}
  BY DEF Safe
<1>2. safe.feePaid * BASIS_POINTS_DIVISOR * PRECISION \in Nat
  BY <1>1, StableBaseAssumption
<1>3. FeePaidPercentage(safe) \in Nat
  BY <1>1, <1>2 DEF FeePaidPercentage
<1>4. /\ REDEMPTION_BASE_FEE * PRECISION \in Nat
      /\ REDEMPTION_LIQUIDATION_FEE * PRECISION \in Nat
      /\ REDEMPTION_LIQUIDATION_FEE * PRECISION <= BASIS_POINTS_DIVISOR * PRECISION
      /\ BASIS_POINTS_DIVISOR * PRECISION \in Nat
  BY StableBaseAssumption
<1>5. QED
  BY <1>3, <1>4 DEF FeeTier

\* What is redeemed of a Safe is at most its debt, is worth the collateral that
\* is taken for it, rounded down, and the redeemer's fee is part of that.
LEMMA RedemptionAmountsType ==
  ASSUME NEW safe \in Safe, NEW wanted \in Nat, NEW at \in Nat \ {0}, Redeemable(safe, at),
         NEW amounts, amounts = RedemptionAmounts(safe, wanted, at)
  PROVE  /\ amounts.redeemed \in 0 .. safe.borrowedAmount
         /\ amounts.refunded \in Nat /\ amounts.collateral \in Nat /\ amounts.ownerFee \in Nat
         /\ amounts.redeemerFee \in 0 .. amounts.collateral
         /\ amounts.collateral * at
              <= (amounts.redeemed + amounts.refunded) * PRECISION + (PRECISION - 1)
<1> DEFINE value == CollateralValue(safe, at)
           whole == ~BorrowMode(safe) /\ wanted >= value
           part  == ~BorrowMode(safe) /\ wanted < value /\ wanted >= safe.borrowedAmount
           redeemed == amounts.redeemed
           refunded == amounts.refunded
           collateral == amounts.collateral
<1>1. safe.borrowedAmount \in Nat /\ safe.collateralAmount \in Nat /\ safe.feePaid \in Nat
  BY DEF Safe
<1>2. /\ value \in Nat
      /\ PRECISION * value <= safe.collateralAmount * at
      /\ safe.collateralAmount * at <= PRECISION * value + (PRECISION - 1)
  <2>1. safe.collateralAmount * at \in Nat
    BY <1>1
  <2>2. QED
    BY <2>1, StableBaseAssumption DEF CollateralValue
<1>3. value >= safe.borrowedAmount
  <2>1. safe.borrowedAmount * BASIS_POINTS_DIVISOR <= safe.borrowedAmount * liquidationRatio
    BY <1>1, StableBaseAssumption
  <2>2. safe.borrowedAmount * liquidationRatio \in Nat
    BY <1>1, StableBaseAssumption
  <2>3. (safe.borrowedAmount * liquidationRatio) \div BASIS_POINTS_DIVISOR >= safe.borrowedAmount
    BY <1>1, <2>1, <2>2, StableBaseAssumption
  <2>4. (safe.borrowedAmount * liquidationRatio) \div BASIS_POINTS_DIVISOR \in Nat
    BY <2>2, StableBaseAssumption
  <2>5. QED
    BY <1>1, <1>2, <2>3, <2>4 DEF Redeemable
<1>4. /\ redeemed = (IF whole \/ wanted >= safe.borrowedAmount THEN safe.borrowedAmount ELSE wanted)
      /\ refunded = (IF whole THEN value - redeemed ELSE IF part THEN wanted - redeemed ELSE 0)
      /\ collateral = (IF whole THEN safe.collateralAmount ELSE CollateralFor(redeemed + refunded, at))
      /\ amounts.ownerFee = (IF whole THEN OwnerFeeOfWhole(value, safe)
                             ELSE IF part THEN OwnerFeeOfPart(redeemed + refunded, safe) ELSE 0)
      /\ amounts.redeemerFee = ((collateral * FeeTier(safe)) \div BASIS_POINTS_DIVISOR) \div PRECISION
  BY DEF RedemptionAmounts
<1> HIDE DEF value, redeemed, refunded, collateral
<1>5. redeemed \in 0 .. safe.borrowedAmount /\ refunded \in Nat
  BY <1>1, <1>2, <1>3, <1>4
<1>6. whole => redeemed + refunded = value
  BY <1>2, <1>4, <1>5
<1>7. /\ CollateralFor(redeemed + refunded, at) \in Nat
      /\ CollateralFor(redeemed + refunded, at) * at <= (redeemed + refunded) * PRECISION
  <2>1. (redeemed + refunded) * PRECISION \in Nat
    BY <1>5, StableBaseAssumption
  <2>2. QED
    BY <2>1 DEF CollateralFor
<1>8. collateral \in Nat
  BY <1>1, <1>4, <1>7
<1>9. collateral * at <= (redeemed + refunded) * PRECISION + (PRECISION - 1)
  <2>1. CASE whole
    BY <1>1, <1>2, <1>4, <1>6, <2>1, StableBaseAssumption
  <2>2. CASE ~whole
    BY <1>4, <1>5, <1>7, <2>2, StableBaseAssumption
  <2>3. QED
    BY <2>1, <2>2
<1>10. amounts.redeemerFee \in 0 .. collateral
  <2>1. PICK tier \in 0 .. BASIS_POINTS_DIVISOR * PRECISION : tier = FeeTier(safe)
    BY FeeTierType DEF Redeemable
  <2>2. /\ PRECISION \in Nat \ {0} /\ BASIS_POINTS_DIVISOR \in Nat \ {0} /\ tier \in Nat
        /\ tier <= PRECISION * BASIS_POINTS_DIVISOR
    BY <2>1, StableBaseAssumption
  <2>3. /\ collateral * tier \in Nat /\ collateral * PRECISION \in Nat
        /\ collateral * tier <= (collateral * PRECISION) * BASIS_POINTS_DIVISOR
    BY <1>8, <2>2
  <2>4. /\ (collateral * tier) \div BASIS_POINTS_DIVISOR \in Nat
        /\ (collateral * tier) \div BASIS_POINTS_DIVISOR <= collateral * PRECISION
    BY <2>2, <2>3, QuotientBound
  <2>5. /\ ((collateral * tier) \div BASIS_POINTS_DIVISOR) \div PRECISION \in Nat
        /\ ((collateral * tier) \div BASIS_POINTS_DIVISOR) \div PRECISION <= collateral
    BY <1>8, <2>2, <2>4, QuotientBound
  <2>6. QED
    BY <1>4, <1>8, <2>1, <2>5
<1>11. amounts.ownerFee \in Nat
  <2>1. \A x \in Nat : BaseFee(x) \in Nat
    <3>1. \A x \in Nat : x * REDEMPTION_BASE_FEE \in Nat
      BY StableBaseAssumption
    <3>2. QED
      BY <3>1, StableBaseAssumption DEF BaseFee
  <2>2. BaseFee(value) \in Nat /\ BaseFee(redeemed + refunded) \in Nat
    BY <1>2, <1>5, <2>1
  <2>3. QED
    BY <1>1, <1>4, <2>2 DEF OwnerFeeOfWhole, OwnerFeeOfPart
<1>12. QED
  BY <1>5, <1>8, <1>9, <1>10, <1>11 DEF redeemed, refunded, collateral

\* What a liquidation redistributes, and what rounding leaves of it, are natural numbers.
LEMMA DistributionType ==
  ASSUME NEW amount \in Nat, NEW over \in Nat \ {0}
  PROVE  PerUnitCollateral(amount, over) \in Nat /\ LossOf(amount, over) \in Nat
<1>1. amount * PRECISION \in Nat /\ PRECISION \in Nat \ {0}
  BY StableBaseAssumption
<1>2. PICK perUnit \in Nat : /\ perUnit = PerUnitCollateral(amount, over)
                             /\ perUnit * over <= amount * PRECISION
  <2>1. (amount * PRECISION) \div over \in Nat /\ ((amount * PRECISION) \div over) * over <= amount * PRECISION
    BY <1>1
  <2>2. QED
    BY <2>1 DEF PerUnitCollateral
<1>3. perUnit * over \in Nat
  OBVIOUS
<1>4. (perUnit * over) \div PRECISION \in Nat /\ (perUnit * over) \div PRECISION <= amount
  BY <1>1, <1>2, <1>3, QuotientBound
<1>5. QED
  BY <1>2, <1>4 DEF LossOf

-----------------------------------------------------------------------------
(* The parts of the invariant that most calls keep in the same way. *)

\* A call that leaves the redemption alone keeps what is known of it.
LEMMA RedemptionKept ==
  ASSUME RedemptionSound, SavedSound, UNCHANGED <<redemption, saved>>
  PROVE  RedemptionSound' /\ SavedSound' /\ InFlightCollateral' = InFlightCollateral
         /\ ToBurn' = ToBurn
BY DEF RedemptionSound, SavedSound, InFlightCollateral, ToBurn, RedeemerNotOverpaid

\* A call that updates one Safe, and the totals by what it changes in it.
LEMMA SafeCall ==
  ASSUME Inv, NEW s \in Safes, NEW safe \in Safe, WriteSafe(s, safe),
         NEW highestDebt \in Int,
         WriteTotals(UpdatedCollateral(s) + safe.collateralAmount - UpdatedSafe(s).collateralAmount,
                     UpdatedDebt(s) + safe.borrowedAmount - UpdatedSafe(s).borrowedAmount,
                     highestDebt),
         UpdatedDebt(s) + safe.borrowedAmount - UpdatedSafe(s).borrowedAmount <= highestDebt,
         cumulativeCollateralPerUnitCollateral' \in Nat,
         cumulativeDebtPerUnitCollateral' \in Nat,
         cumulativeCollateralPerUnitCollateral' >= cumulativeCollateralPerUnitCollateral,
         cumulativeDebtPerUnitCollateral' >= cumulativeDebtPerUnitCollateral,
         UNCHANGED <<redemption, saved>>
  PROVE  SafesSound' /\ TotalsSound' /\ RedemptionSound' /\ SavedSound'
<1>1. SafesSound'
  BY SafeWritten DEF Inv
<1>2. /\ RedemptionSound' /\ SavedSound'
      /\ InFlightCollateral' = InFlightCollateral /\ ToBurn' = ToBurn
  BY RedemptionKept DEF Inv
<1> DEFINE collateral ==
             UpdatedCollateral(s) + safe.collateralAmount - UpdatedSafe(s).collateralAmount
           debt == UpdatedDebt(s) + safe.borrowedAmount - UpdatedSafe(s).borrowedAmount
<1>3. /\ UpdatedCollateral(s) \in Nat /\ UpdatedDebt(s) \in Nat
      /\ UpdatedSafe(s).collateralAmount \in Nat /\ UpdatedSafe(s).borrowedAmount \in Nat
      /\ safe.collateralAmount \in Nat /\ safe.borrowedAmount \in Nat
      /\ InFlightCollateral \in Nat /\ ToBurn \in Nat
  BY UpdatedType, TotalsType DEF Inv, UpdatedCollateral, UpdatedDebt, Safe
<1>4. /\ collateral \in Int /\ debt \in Int
      /\ collateral - InFlightCollateral' =
           UpdatedCollateral(s) - InFlightCollateral
             + safe.collateralAmount - UpdatedSafe(s).collateralAmount
      /\ debt - ToBurn' =
           UpdatedDebt(s) - ToBurn + safe.borrowedAmount - UpdatedSafe(s).borrowedAmount
  BY <1>2, <1>3
<1>5. WriteTotals(collateral, debt, highestDebt) /\ debt <= highestDebt
  OBVIOUS
<1> HIDE DEF collateral, debt
<1>6. safes' = [safes EXCEPT ![s] = safe]
  BY DEF WriteSafe
<1>7. redemption \in RedemptionType /\ redemption' \in RedemptionType
  BY <1>2 DEF Inv, RedemptionSound
<1>8. TotalsSound'
  BY <1>4, <1>5, <1>6, <1>7, TotalsWritten DEF Inv
<1>9. QED
  BY <1>1, <1>2, <1>8

\* A Safe that stays, or that goes and is emptied, leaves no id without an owner
\* that has a Safe.
LEMMA MintedKept ==
  ASSUME MintedSound, NEW s \in minted, NEW safe, WriteSafe(s, safe),
         minted' = minted \/ (minted' = minted \ {s} /\ safe = NullSafe),
         safes \in [Safes -> Safe]
  PROVE  MintedSound'
<1>1. safes' = [safes EXCEPT ![s] = safe]
  BY DEF WriteSafe
<1>2. QED
  BY <1>1 DEF MintedSound

\* DFID that move leave the stakes backed, if the pool keeps at least what is staked.
LEMMA MoneyMoved ==
  ASSUME MoneySound, UNCHANGED <<flags, stakes>>,
         NEW public \in Int, NEW cdp \in Int, NEW pool \in Nat, NEW sbr \in Int,
         sbd.public + public >= 0, sbd.cdp + cdp >= 0, sbd.sbr + sbr >= 0,
         Credit(public, cdp, pool, sbr)
  PROVE  MoneySound'
<1>1. sbd.pool \in Nat
  BY DEF MoneySound, Accounts
<1>2. sbd' \in [Accounts -> Nat] /\ sbd'.pool = sbd.pool + pool
  BY <1>1, CreditType DEF MoneySound
<1>3. QED
  BY <1>1, <1>2 DEF MoneySound, flags, stakes, FlagsTellStakers

\* No DFID move and no stake changes.
LEMMA MoneyKept ==
  ASSUME MoneySound, UNCHANGED <<flags, stakes, sbd>>
  PROVE  MoneySound'
BY DEF MoneySound, flags, stakes, FlagsTellStakers

\* The balances are natural numbers.
LEMMA BalanceType ==
  ASSUME MoneySound
  PROVE  sbd.public \in Nat /\ sbd.cdp \in Nat /\ sbd.pool \in Nat /\ sbd.sbr \in Nat
BY DEF MoneySound, Accounts

\* What an update adds to the history of roundings.
LEMMA RoundingsType ==
  ASSUME roundings \in Nat, NEW s \in Safes
  PROVE  roundings + NewRoundings(s) \in Nat
BY DEF NewRoundings

\* The queues keep their type when a Safe is taken out of both.
LEMMA QueuesRemoved ==
  ASSUME QueuesSound, NEW s \in Safes,
         safesOrderedForLiquidation' = Removed(safesOrderedForLiquidation, s),
         safesOrderedForRedemption' = Removed(safesOrderedForRedemption, s)
  PROVE  QueuesSound'
BY RemovedType DEF QueuesSound, Safes

\* The queues keep their type when a Safe moves in the liquidation queue.
LEMMA QueuesMoved ==
  ASSUME QueuesSound, NEW s \in Safes, NEW debt \in Nat, NEW collateral \in Nat \ {0},
         NEW hint \in Slots,
         safesOrderedForLiquidation' =
           Upserted(safesOrderedForLiquidation, s, Ratio(debt, collateral), hint),
         safesOrderedForRedemption' = safesOrderedForRedemption
  PROVE  QueuesSound'
<1>1. Ratio(debt, collateral) \in Nat
  BY RatioType
<1>2. QED
  BY <1>1, UpsertedType DEF QueuesSound, Safes

-----------------------------------------------------------------------------
(* One lemma per operation. *)

\* openSafe writes a Safe where there was none.
LEMMA OpenSafeKeepsInv ==
  ASSUME Inv, NEW s \in Safes, NEW amount \in Collaterals, OpenSafe(s, amount)
  PROVE  Inv'
<1> DEFINE safe == [NullSafe EXCEPT !.collateralAmount = amount]
           snapshot == [collateral |-> cumulativeCollateralPerUnitCollateral,
                        debt |-> cumulativeDebtPerUnitCollateral]
<1>1. /\ safes' = [safes EXCEPT ![s] = safe]
      /\ liquidationSnapshots' = [liquidationSnapshots EXCEPT ![s] = snapshot]
      /\ minted' = minted \union {s} /\ s \notin minted
      /\ WriteTotals(totalCollateral + amount, totalDebt, 0)
      /\ eth' = eth + amount
      /\ UNCHANGED <<queues, accumulators, flags, price, stakes, sbd, redemption, saved, roundings>>
  BY DEF OpenSafe, CanOpenSafe
<1>2. amount \in Nat
  BY StableBaseCDPAssumption
<1>3. /\ safe \in Safe /\ safe.collateralAmount = amount /\ safe.borrowedAmount = 0
      /\ snapshot \in Snapshot
      /\ snapshot.collateral = cumulativeCollateralPerUnitCollateral
      /\ snapshot.debt = cumulativeDebtPerUnitCollateral
  BY <1>2 DEF Safe, NullSafe, Snapshot, Inv, SafesSound
<1> HIDE DEF safe, snapshot
<1>4. SafesSound'
  <2>1. /\ cumulativeCollateralPerUnitCollateral \in Nat /\ cumulativeDebtPerUnitCollateral \in Nat
        /\ cumulativeCollateralPerUnitCollateral' = cumulativeCollateralPerUnitCollateral
        /\ cumulativeDebtPerUnitCollateral' = cumulativeDebtPerUnitCollateral
    BY <1>1 DEF Inv, SafesSound, accumulators
  <2>2. /\ snapshot.collateral <= cumulativeCollateralPerUnitCollateral
        /\ snapshot.debt <= cumulativeDebtPerUnitCollateral
    BY <1>3, <2>1
  <2>3. QED
    BY <1>1, <1>3, <2>1, <2>2, SnapshotWritten DEF Inv
<1>5. /\ safes[s].collateralAmount = 0 /\ safes[s].borrowedAmount = 0
  BY <1>1 DEF Inv, MintedSound, NullSafe
<1>6. CollateralIncrease(s) = 0 /\ DebtIncrease(s) = 0
  <2>1. \A x \in Int : (0 * x) \div PRECISION = 0
    BY StableBaseAssumption
  <2>2. /\ liquidationSnapshots[s].collateral \in Nat /\ liquidationSnapshots[s].debt \in Nat
        /\ cumulativeCollateralPerUnitCollateral \in Nat /\ cumulativeDebtPerUnitCollateral \in Nat
    BY DEF Inv, SafesSound, Snapshot
  <2>3. QED
    BY <1>5, <2>1, <2>2 DEF CollateralIncrease, DebtIncrease
<1>7. /\ totalCollateral \in Nat /\ totalDebt \in Nat
      /\ InFlightCollateral \in Nat /\ ToBurn \in Nat
  BY TotalsType DEF Inv
<1>8. /\ UpdatedCollateral(s) = totalCollateral /\ UpdatedDebt(s) = totalDebt
      /\ UpdatedSafe(s).collateralAmount = 0 /\ UpdatedSafe(s).borrowedAmount = 0
  BY <1>5, <1>6, <1>7, UpdatedType DEF UpdatedCollateral, UpdatedDebt, Inv
<1>9. /\ RedemptionSound' /\ SavedSound'
      /\ InFlightCollateral' = InFlightCollateral /\ ToBurn' = ToBurn
  BY <1>1, RedemptionKept DEF Inv
<1>10. TotalsSound'
  <2>1. /\ totalCollateral + amount \in Int /\ 0 \in Int /\ totalDebt \in Int
        /\ (totalCollateral + amount) - InFlightCollateral' =
             UpdatedCollateral(s) - InFlightCollateral
               + safe.collateralAmount - UpdatedSafe(s).collateralAmount
        /\ totalDebt - ToBurn' =
             UpdatedDebt(s) - ToBurn + safe.borrowedAmount - UpdatedSafe(s).borrowedAmount
    BY <1>2, <1>3, <1>7, <1>8, <1>9
  <2>2. redemption \in RedemptionType /\ redemption' \in RedemptionType
    BY <1>9 DEF Inv, RedemptionSound
  <2>3. QED
    BY <1>1, <1>3, <2>1, <2>2, TotalsWritten DEF Inv
<1>11. MintedSound'
  BY <1>1 DEF Inv, MintedSound
<1>12. QueuesSound' /\ MoneySound'
  BY <1>1, MoneyKept DEF Inv, QueuesSound, queues
<1>13. RestSound'
  BY <1>1, <1>2 DEF Inv, RestSound, accumulators
<1>14. QED
  BY <1>4, <1>9, <1>10, <1>11, <1>12, <1>13 DEF Inv

\* closeSafe empties a Safe that has no debt.
LEMMA CloseSafeKeepsInv ==
  ASSUME Inv, NEW s \in Safes, CloseSafe(s)
  PROVE  Inv'
<1> DEFINE safe == UpdatedSafe(s)
<1>1. /\ s \in minted /\ safe.borrowedAmount = 0 /\ WriteSafe(s, NullSafe)
      /\ minted' = minted \ {s}
      /\ WriteTotals(UpdatedCollateral(s) - safe.collateralAmount, UpdatedDebt(s), UpdatedDebt(s))
      /\ safe.collateralAmount <= eth /\ eth' = eth - safe.collateralAmount
      /\ roundings' = roundings + NewRoundings(s)
      /\ UNCHANGED <<queues, accumulators, flags, price, stakes, sbd, redemption, saved>>
  BY DEF CloseSafe, CanCloseSafe
<1>2. /\ safe \in Safe /\ safe.collateralAmount \in Nat
      /\ NullSafe \in Safe /\ NullSafe.collateralAmount = 0 /\ NullSafe.borrowedAmount = 0
  BY UpdatedType DEF Inv, Safe, NullSafe
<1> HIDE DEF safe
<1>3. UpdatedCollateral(s) \in Nat /\ UpdatedDebt(s) \in Nat
  BY UpdatedType, TotalsType DEF Inv, UpdatedCollateral, UpdatedDebt
<1>4. /\ UpdatedCollateral(s) + NullSafe.collateralAmount - safe.collateralAmount
           = UpdatedCollateral(s) - safe.collateralAmount
      /\ UpdatedDebt(s) + NullSafe.borrowedAmount - safe.borrowedAmount = UpdatedDebt(s)
  BY <1>1, <1>2, <1>3
<1>5. SafesSound' /\ TotalsSound' /\ RedemptionSound' /\ SavedSound'
  BY <1>1, <1>2, <1>3, <1>4, SafeCall DEF safe, Inv, SafesSound, accumulators
<1>6. MintedSound'
  BY <1>1, MintedKept DEF Inv, SafesSound
<1>7. QueuesSound' /\ MoneySound'
  BY <1>1, MoneyKept DEF Inv, QueuesSound, queues
<1>8. RestSound'
  BY <1>1, <1>2, RoundingsType DEF Inv, RestSound, accumulators
<1>9. QED
  BY <1>5, <1>6, <1>7, <1>8 DEF Inv

\* borrow records the loan and its fee, and mints what the fee leaves.
LEMMA BorrowKeepsInv ==
  ASSUME Inv, NEW s \in Safes, NEW amount \in Debts, NEW rate \in ShieldingRates,
         NEW hintL \in Hints, NEW hintR \in Hints, Borrow(s, amount, rate, hintL, hintR)
  PROVE  Inv'
<1> DEFINE safe == UpdatedSafe(s)
           fee == ShieldingFee(amount, rate)
           weight == BorrowWeight(safe, amount, rate)
           debt == safe.borrowedAmount + amount
           total == safe.totalBorrowedAmount + amount
           feePaid == safe.feePaid + fee
           borrowed == [safe EXCEPT !.weight = weight, !.borrowedAmount = debt,
                                    !.totalBorrowedAmount = total, !.feePaid = feePaid]
           ratio == Ratio(borrowed.borrowedAmount, borrowed.collateralAmount)
<1>1. UpdatedSafe(s) \in Safe
  BY UpdatedType DEF Inv
<1>2. borrowed = [safe EXCEPT !.weight = weight, !.borrowedAmount = @ + amount,
                              !.totalBorrowedAmount = @ + amount, !.feePaid = @ + fee]
  BY <1>1 DEF Safe
<1>3. /\ s \in minted /\ safe.collateralAmount > 0
      /\ safe.borrowedAmount # 0 => safe.weight >= MinimumWeight
      /\ fee <= amount
      /\ safesOrderedForRedemption' = Upserted(safesOrderedForRedemption, s, weight, hintR)
      /\ safesOrderedForLiquidation' = Upserted(safesOrderedForLiquidation, s, ratio, hintL)
      /\ WriteSafe(s, borrowed)
      /\ Credit(amount - fee + FeeRefunded(fee), 0, FeeToPool(fee), FeeToSBR(fee))
      /\ WriteTotals(UpdatedCollateral(s), UpdatedDebt(s) + amount, UpdatedDebt(s) + amount)
      /\ roundings' = roundings + NewRoundings(s)
      /\ UNCHANGED <<minted, accumulators, flags, price, stakes, eth, redemption, saved>>
  BY <1>2, Zenon DEF Borrow, CanBorrow
<1>4. amount \in Nat \ {0} /\ rate \in Nat /\ hintL \in Slots /\ hintR \in Slots
  BY StableBaseCDPAssumption
<1>5. fee \in Nat /\ weight \in Nat
  BY <1>1, <1>3, <1>4, ShieldingFeeType, BorrowWeightType DEF Inv
<1>6. safe \in Safe /\ debt \in Nat /\ total \in Nat /\ feePaid \in Nat
      /\ safe.collateralAmount \in Nat \ {0} /\ safe.borrowedAmount \in Nat
  BY <1>1, <1>3, <1>4, <1>5 DEF Safe
<1>7. borrowed \in Safe /\ borrowed.collateralAmount = safe.collateralAmount
      /\ borrowed.borrowedAmount = debt
  <2> HIDE DEF safe, debt, total, feePaid, weight
  <2> QED BY <1>5, <1>6 DEF Safe
<1> HIDE DEF safe, fee, weight, total, feePaid, borrowed
<1>8. UpdatedCollateral(s) \in Nat /\ UpdatedDebt(s) \in Nat
  BY UpdatedType, TotalsType DEF Inv, UpdatedCollateral, UpdatedDebt
<1>9. /\ UpdatedCollateral(s) + borrowed.collateralAmount - safe.collateralAmount
           = UpdatedCollateral(s)
      /\ UpdatedDebt(s) + borrowed.borrowedAmount - safe.borrowedAmount = UpdatedDebt(s) + amount
      /\ UpdatedDebt(s) + amount \in Int
  BY <1>4, <1>6, <1>7, <1>8
<1>10. SafesSound' /\ TotalsSound' /\ RedemptionSound' /\ SavedSound'
  BY <1>3, <1>7, <1>8, <1>9, SafeCall DEF safe, Inv, SafesSound, accumulators
<1>11. MintedSound'
  BY <1>3, MintedKept DEF Inv, SafesSound
<1>12. QueuesSound'
  <2>1. ratio \in Nat
    BY <1>6, <1>7, RatioType
  <2> HIDE DEF ratio
  <2>2. QED
    BY <1>3, <1>4, <1>5, <2>1, UpsertedType DEF Inv, QueuesSound, Safes
<1>13. MoneySound'
  <2>1. FeeToSBR(fee) \in Nat /\ FeeToPool(fee) \in Nat /\ FeeRefunded(fee) \in Nat
    BY <1>5, FeeParts
  <2>2. amount - fee + FeeRefunded(fee) \in Nat
    BY <1>3, <1>4, <1>5, <2>1
  <2>3. MoneySound /\ sbd.public \in Nat /\ sbd.cdp \in Nat /\ sbd.sbr \in Nat
    BY BalanceType DEF Inv
  <2> DEFINE public == amount - fee + FeeRefunded(fee)
  <2>4. public \in Int /\ sbd.public + public >= 0 /\ sbd.cdp + 0 >= 0
        /\ sbd.sbr + FeeToSBR(fee) >= 0
    BY <2>1, <2>2, <2>3
  <2>5. Credit(public, 0, FeeToPool(fee), FeeToSBR(fee)) /\ UNCHANGED <<flags, stakes>>
    BY <1>3
  <2> HIDE DEF public
  <2>6. QED
    BY <2>1, <2>3, <2>4, <2>5, MoneyMoved
<1>14. RestSound'
  BY <1>3, RoundingsType DEF Inv, RestSound, accumulators
<1>15. QED
  BY <1>10, <1>11, <1>12, <1>13, <1>14 DEF Inv

\* repay lowers the debt by DFID that are burned.
LEMMA RepayKeepsInv ==
  ASSUME Inv, NEW s \in Safes, NEW amount \in Debts, NEW hint \in Hints, Repay(s, amount, hint)
  PROVE  Inv'
<1> DEFINE safe == UpdatedSafe(s)
           debt == safe.borrowedAmount - amount
           repaid == [safe EXCEPT !.borrowedAmount = debt]
           ratio == Ratio(repaid.borrowedAmount, repaid.collateralAmount)
<1>1. UpdatedSafe(s) \in Safe
  BY UpdatedType DEF Inv
<1>2. repaid = [safe EXCEPT !.borrowedAmount = @ - amount]
  BY <1>1 DEF Safe
<1>3. /\ s \in minted /\ amount \in 1 .. safe.borrowedAmount
      /\ amount <= sbd.public /\ safe.collateralAmount > 0
      /\ \/ /\ safesOrderedForLiquidation' = Upserted(safesOrderedForLiquidation, s, ratio, hint)
            /\ UNCHANGED safesOrderedForRedemption
         \/ /\ safesOrderedForLiquidation' = Removed(safesOrderedForLiquidation, s)
            /\ safesOrderedForRedemption' = Removed(safesOrderedForRedemption, s)
      /\ WriteSafe(s, repaid)
      /\ Credit(-amount, 0, 0, 0)
      /\ WriteTotals(UpdatedCollateral(s), UpdatedDebt(s) - amount, UpdatedDebt(s))
      /\ roundings' = roundings + NewRoundings(s)
      /\ UNCHANGED <<minted, accumulators, flags, price, stakes, eth, redemption, saved>>
  BY <1>2, Zenon DEF Repay, CanRepay
<1>4. amount \in Nat \ {0} /\ hint \in Slots
  BY StableBaseCDPAssumption
<1>5. safe \in Safe /\ debt \in Nat /\ safe.collateralAmount \in Nat /\ safe.borrowedAmount \in Nat
  BY <1>1, <1>3, <1>4 DEF Safe
<1>6. repaid \in Safe /\ repaid.collateralAmount = safe.collateralAmount
      /\ repaid.borrowedAmount = debt
  <2> HIDE DEF safe, debt
  <2> QED BY <1>5 DEF Safe
<1> HIDE DEF safe, repaid
<1>7. UpdatedCollateral(s) \in Nat /\ UpdatedDebt(s) \in Nat
  BY UpdatedType, TotalsType DEF Inv, UpdatedCollateral, UpdatedDebt
<1>8. /\ UpdatedCollateral(s) + repaid.collateralAmount - safe.collateralAmount
           = UpdatedCollateral(s)
      /\ UpdatedDebt(s) + repaid.borrowedAmount - safe.borrowedAmount = UpdatedDebt(s) - amount
      /\ UpdatedDebt(s) - amount <= UpdatedDebt(s)
  BY <1>4, <1>5, <1>6, <1>7
<1>9. SafesSound' /\ TotalsSound' /\ RedemptionSound' /\ SavedSound'
  BY <1>3, <1>6, <1>7, <1>8, SafeCall DEF safe, Inv, SafesSound, accumulators
<1>10. MintedSound'
  BY <1>3, MintedKept DEF Inv, SafesSound
<1>11. QueuesSound'
  <2>1. repaid.borrowedAmount \in Nat /\ repaid.collateralAmount \in Nat \ {0}
    BY <1>3, <1>5, <1>6
  <2>2. QED
    BY <1>3, <1>4, <2>1, QueuesMoved, QueuesRemoved DEF Inv
<1>12. MoneySound'
  <2>1. sbd.public + (-amount) >= 0 /\ -amount \in Int
    BY <1>3, <1>4, BalanceType DEF Inv
  <2>2. QED
    BY <1>3, <2>1, BalanceType, MoneyMoved DEF Inv
<1>13. RestSound'
  BY <1>3, RoundingsType DEF Inv, RestSound, accumulators
<1>14. QED
  BY <1>9, <1>10, <1>11, <1>12, <1>13 DEF Inv

\* Collateral that is added to a Safe or taken from it moves the ETH with it.
LEMMA MoveKeepsInv ==
  ASSUME Inv, NEW s \in minted, s \in Safes, NEW moved \in Int, Move(s, moved),
         UpdatedSafe(s).collateralAmount + moved >= 0, eth + moved >= 0,
         QueuesSound'
  PROVE  Inv'
<1> DEFINE safe == UpdatedSafe(s)
           collateral == safe.collateralAmount + moved
           new == [safe EXCEPT !.collateralAmount = collateral]
<1>1. safe \in Safe
  BY UpdatedType DEF Inv
<1>2. new = [safe EXCEPT !.collateralAmount = @ + moved]
  BY <1>1 DEF Safe
<1>3. /\ WriteSafe(s, new)
      /\ WriteTotals(UpdatedCollateral(s) + moved, UpdatedDebt(s), UpdatedDebt(s))
      /\ eth' = eth + moved
      /\ roundings' = roundings + NewRoundings(s)
      /\ UNCHANGED <<minted, accumulators, flags, price, stakes, sbd, redemption, saved>>
  BY <1>2, Zenon DEF Move
<1>4. safe.collateralAmount \in Nat /\ safe.borrowedAmount \in Nat /\ collateral \in Nat
  BY <1>1 DEF Safe
<1>5. new \in Safe /\ new.collateralAmount = collateral /\ new.borrowedAmount = safe.borrowedAmount
  <2> HIDE DEF safe, collateral
  <2> QED BY <1>1, <1>4 DEF Safe
<1> HIDE DEF safe, new
<1>6. UpdatedCollateral(s) \in Nat /\ UpdatedDebt(s) \in Nat
  BY UpdatedType, TotalsType DEF Inv, UpdatedCollateral, UpdatedDebt
<1>7. /\ UpdatedCollateral(s) + new.collateralAmount - safe.collateralAmount
           = UpdatedCollateral(s) + moved
      /\ UpdatedDebt(s) + new.borrowedAmount - safe.borrowedAmount = UpdatedDebt(s)
  BY <1>4, <1>5, <1>6
<1>8. SafesSound' /\ TotalsSound' /\ RedemptionSound' /\ SavedSound'
  BY <1>3, <1>5, <1>6, <1>7, SafeCall DEF safe, Inv, SafesSound, accumulators
<1>9. MintedSound'
  BY <1>3, MintedKept DEF Inv, SafesSound
<1>10. MoneySound'
  BY <1>3, MoneyKept DEF Inv
<1>11. RestSound'
  BY <1>3, RoundingsType DEF Inv, RestSound, accumulators
<1>12. QED
  BY <1>8, <1>9, <1>10, <1>11 DEF Inv

\* A Safe that is placed anew keeps the type of the queues.
LEMMA ReorderKeepsQueues ==
  ASSUME Inv, NEW s \in Safes, NEW collateral \in Int, NEW hint \in Hints,
         collateral > 0, Reorder(s, collateral, hint)
  PROVE  QueuesSound'
<1>1. UpdatedSafe(s).borrowedAmount \in Nat
  BY UpdatedType DEF Inv, Safe
<1>2. collateral \in Nat \ {0} /\ hint \in Slots
  BY StableBaseCDPAssumption
<1>3. QED
  BY <1>1, <1>2, QueuesMoved DEF Reorder, Inv

\* addCollateral, withdrawCollateral and adjustPosition move collateral that there is.
LEMMA CollateralCallKeepsInv ==
  ASSUME Inv, NEW s \in Safes, NEW hint \in Hints,
         \/ \E amount \in Collaterals : \/ AddCollateral(s, amount, hint)
                                        \/ WithdrawCollateral(s, amount, hint)
         \/ AdjustPosition(s, hint)
  PROVE  Inv'
<1> DEFINE safe == UpdatedSafe(s)
<1>1. safe.collateralAmount \in Nat /\ safe.borrowedAmount \in Nat /\ eth \in Nat
  BY UpdatedType DEF Inv, Safe, RestSound
<1>2. \A amount \in Collaterals : amount \in Nat
  BY StableBaseCDPAssumption
<1>3. ASSUME NEW amount \in Collaterals, AddCollateral(s, amount, hint)
      PROVE  Inv'
  <2>1. /\ s \in minted /\ Move(s, amount)
        /\ safe.collateralAmount + amount > 0
        /\ Reorder(s, safe.collateralAmount + amount, hint)
    BY <1>3 DEF AddCollateral, CanAddCollateral, CanReorder
  <2>2. amount \in Int /\ safe.collateralAmount + amount \in Nat /\ eth + amount \in Nat
    BY <1>1, <1>2
  <2>3. QueuesSound'
    BY <2>1, <2>2, ReorderKeepsQueues
  <2>4. QED
    BY <2>1, <2>2, <2>3, MoveKeepsInv
<1>4. ASSUME NEW amount \in Collaterals, WithdrawCollateral(s, amount, hint)
      PROVE  Inv'
  <2> DEFINE locked == (safe.borrowedAmount * liquidationRatio * PRECISION)
                         \div (price * BASIS_POINTS_DIVISOR)
  <2>1. /\ s \in minted /\ Move(s, -amount) /\ amount <= eth
        /\ \/ /\ amount <= safe.collateralAmount - locked
              /\ safe.collateralAmount - amount > 0
              /\ Reorder(s, safe.collateralAmount - amount, hint)
           \/ /\ amount <= safe.collateralAmount
              /\ safesOrderedForLiquidation' = Removed(safesOrderedForLiquidation, s)
              /\ safesOrderedForRedemption' = Removed(safesOrderedForRedemption, s)
    BY <1>4 DEF WithdrawCollateral, CanWithdrawCollateral, CanReorder
  <2>2. locked \in Nat
    <3>1. price \in Nat \ {0}
      BY StableBaseCDPAssumption DEF Inv, RestSound
    <3>2. safe.borrowedAmount * liquidationRatio * PRECISION \in Nat
          /\ price * BASIS_POINTS_DIVISOR \in Nat \ {0}
      BY <1>1, <3>1, StableBaseAssumption
    <3>3. QED
      BY <3>2
  <2> HIDE DEF locked
  <2>3. /\ -amount \in Int /\ safe.collateralAmount - amount \in Int
        /\ safe.collateralAmount + (-amount) >= 0 /\ eth + (-amount) >= 0
    BY <1>1, <1>2, <2>1, <2>2
  <2>4. QueuesSound'
    BY <2>1, <2>3, ReorderKeepsQueues, QueuesRemoved DEF Inv
  <2>5. QED
    BY <2>1, <2>3, <2>4, MoveKeepsInv
<1>5. ASSUME AdjustPosition(s, hint)
      PROVE  Inv'
  <2>1. /\ s \in minted /\ Move(s, 0)
        /\ safe.collateralAmount > 0
        /\ Reorder(s, safe.collateralAmount, hint)
    BY <1>5 DEF AdjustPosition, CanAdjustPosition, CanReorder
  <2>2. QueuesSound'
    BY <1>1, <2>1, ReorderKeepsQueues
  <2>3. 0 \in Int /\ safe.collateralAmount + 0 >= 0 /\ eth + 0 >= 0
    BY <1>1
  <2>4. QED
    BY <2>1, <2>2, <2>3, MoveKeepsInv
<1>6. QED
  BY <1>3, <1>4, <1>5

\* feeTopup takes a fee and raises the weight.
LEMMA FeeTopupKeepsInv ==
  ASSUME Inv, NEW s \in Safes, NEW rate \in ShieldingRates, NEW hint \in Hints,
         FeeTopup(s, rate, hint)
  PROVE  Inv'
<1> DEFINE safe == UpdatedSafe(s)
           fee == ShieldingFee(safe.borrowedAmount, rate)
           weight == safe.weight + rate
           feePaid == safe.feePaid + fee
           topped == [safe EXCEPT !.weight = weight, !.feePaid = feePaid]
<1>1. safe \in Safe
  BY UpdatedType DEF Inv
<1>2. topped = [safe EXCEPT !.weight = weight, !.feePaid = @ + fee]
  BY <1>1 DEF Safe
<1>3. /\ s \in minted /\ fee <= sbd.public
      /\ safesOrderedForRedemption' = Upserted(safesOrderedForRedemption, s, weight, hint)
      /\ WriteSafe(s, topped)
      /\ Credit(FeeRefunded(fee) - fee, 0, FeeToPool(fee), FeeToSBR(fee))
      /\ WriteTotals(UpdatedCollateral(s), UpdatedDebt(s), UpdatedDebt(s))
      /\ roundings' = roundings + NewRoundings(s)
      /\ UNCHANGED <<minted, safesOrderedForLiquidation, accumulators, flags, price, stakes, eth,
                     redemption, saved>>
  BY <1>2, Zenon DEF FeeTopup, CanTopupFee
<1>4. rate \in Nat /\ hint \in Slots
  BY StableBaseCDPAssumption
<1>5. safe.collateralAmount \in Nat /\ safe.borrowedAmount \in Nat /\ fee \in Nat
  BY <1>1, <1>4, ShieldingFeeType DEF Safe
<1>6. weight \in Nat /\ feePaid \in Nat
  BY <1>1, <1>4, <1>5 DEF Safe
<1>7. topped \in Safe /\ topped.collateralAmount = safe.collateralAmount
      /\ topped.borrowedAmount = safe.borrowedAmount
  <2> HIDE DEF safe, weight, feePaid
  <2> QED BY <1>1, <1>6 DEF Safe
<1> HIDE DEF safe, fee, weight, topped
<1>8. UpdatedCollateral(s) \in Nat /\ UpdatedDebt(s) \in Nat
  BY UpdatedType, TotalsType DEF Inv, UpdatedCollateral, UpdatedDebt
<1>9. /\ UpdatedCollateral(s) + topped.collateralAmount - safe.collateralAmount
           = UpdatedCollateral(s)
      /\ UpdatedDebt(s) + topped.borrowedAmount - safe.borrowedAmount = UpdatedDebt(s)
  BY <1>5, <1>7, <1>8
<1>10. SafesSound' /\ TotalsSound' /\ RedemptionSound' /\ SavedSound'
  BY <1>3, <1>7, <1>8, <1>9, SafeCall DEF safe, Inv, SafesSound, accumulators
<1>11. MintedSound'
  BY <1>3, MintedKept DEF Inv, SafesSound
<1>12. QueuesSound'
  BY <1>3, <1>4, <1>6, UpsertedType DEF Inv, QueuesSound, Safes
<1>13. MoneySound'
  <2>1. FeeToSBR(fee) \in Nat /\ FeeToPool(fee) \in Nat /\ FeeRefunded(fee) \in Nat
    BY <1>5, FeeParts
  <2>2. FeeRefunded(fee) - fee \in Int /\ sbd.public + (FeeRefunded(fee) - fee) >= 0
    BY <1>3, <1>5, <2>1, BalanceType DEF Inv
  <2> DEFINE public == FeeRefunded(fee) - fee
  <2>3. MoneySound /\ sbd.cdp + 0 >= 0 /\ sbd.sbr + FeeToSBR(fee) >= 0
    BY <2>1, BalanceType DEF Inv
  <2>4. Credit(public, 0, FeeToPool(fee), FeeToSBR(fee)) /\ UNCHANGED <<flags, stakes>>
    BY <1>3
  <2>5. public \in Int /\ sbd.public + public >= 0
    BY <2>2
  <2> HIDE DEF public
  <2>6. QED
    BY <2>1, <2>3, <2>4, <2>5, MoneyMoved
<1>14. RestSound'
  BY <1>3, RoundingsType DEF Inv, RestSound, accumulators
<1>15. QED
  BY <1>10, <1>11, <1>12, <1>13, <1>14 DEF Inv

\* A liquidation charges a fee that is part of the collateral.
LEMMA LiquidationFeeType ==
  ASSUME NEW safe \in Safe
  PROVE  LiquidationFee(safe) \in 0 .. safe.collateralAmount
<1>1. safe.collateralAmount \in Nat
  BY DEF Safe
<1>2. /\ safe.collateralAmount * REDEMPTION_LIQUIDATION_FEE \in Nat
      /\ safe.collateralAmount * REDEMPTION_LIQUIDATION_FEE
           <= safe.collateralAmount * BASIS_POINTS_DIVISOR
      /\ BASIS_POINTS_DIVISOR \in Nat \ {0}
  BY <1>1, StableBaseAssumption
<1>3. QED
  BY <1>1, <1>2, QuotientBound DEF LiquidationFee

\* liquidate and liquidateSafe empty the Safe; the pool burns the debt, or the
\* accumulators take debt and collateral for the other Safes.
LEMMA LiquidateSafeKeepsInv ==
  ASSUME Inv, NEW s \in Safes, NEW gas \in GasCosts, LiquidateSafe(s, gas)
  PROVE  Inv'
<1> DEFINE safe == UpdatedSafe(s)
           debt == safe.borrowedAmount
           fee == LiquidationFee(safe)
           over == UpdatedCollateral(s) - safe.collateralAmount
           refund == IF gas < fee THEN gas ELSE fee
           byPool == debt <= poolStake
           feeSent == LiquidationFeeSent(fee, refund, stabilityPoolCanReceiveRewards', poolStake')
           sent == feeSent + (IF byPool THEN safe.collateralAmount - fee ELSE 0)
<1>1. /\ s \in minted /\ Liquidatable(safe)
      /\ debt > poolStake => over > 0
      /\ \/ LiquidateByPool(debt)
         \/ LiquidateByOtherSafes(debt, safe.collateralAmount - fee, over)
      /\ WriteTotals(over, UpdatedDebt(s) - debt, UpdatedDebt(s))
      /\ safesOrderedForLiquidation' = Removed(safesOrderedForLiquidation, s)
      /\ safesOrderedForRedemption' = Removed(safesOrderedForRedemption, s)
      /\ WriteSafe(s, NullSafe)
      /\ minted' = minted \ {s}
      /\ sent <= eth /\ eth' = eth - sent
      /\ roundings' = roundings + NewRoundings(s) + (IF byPool THEN 0 ELSE 1)
      /\ UNCHANGED <<sbrStakingPoolCanReceiveRewards, price, dfireStake, redemption, saved>>
  BY Zenon DEF LiquidateSafe, CanLiquidateSafe
<1>2. safe \in Safe
  BY UpdatedType DEF Inv
<1>3. /\ safe.collateralAmount \in Nat \ {0} /\ debt \in Nat \ {0}
      /\ fee \in Nat /\ safe.collateralAmount - fee \in Nat
  BY <1>1, <1>2, LiquidationFeeType DEF Liquidatable, Safe
<1>4. /\ UpdatedCollateral(s) \in Nat /\ UpdatedDebt(s) \in Nat
  BY UpdatedType, TotalsType DEF Inv, UpdatedCollateral, UpdatedDebt
<1>5. NullSafe \in Safe /\ NullSafe.collateralAmount = 0 /\ NullSafe.borrowedAmount = 0
  BY DEF NullSafe, Safe
<1>6. gas \in Nat /\ eth \in Nat /\ roundings \in Nat /\ refund \in Nat
  BY <1>3, StableBaseCDPAssumption DEF Inv, RestSound
<1>7. feeSent \in Int
  BY <1>3, <1>6 DEF LiquidationFeeSent
<1> HIDE DEF safe, fee, feeSent
<1>8. sent \in Int
  BY <1>3, <1>7
<1>9. /\ cumulativeCollateralPerUnitCollateral' \in Nat
      /\ cumulativeDebtPerUnitCollateral' \in Nat
      /\ cumulativeCollateralPerUnitCollateral' >= cumulativeCollateralPerUnitCollateral
      /\ cumulativeDebtPerUnitCollateral' >= cumulativeDebtPerUnitCollateral
      /\ collateralLoss' \in Nat /\ debtLoss' \in Nat
  <2>1. /\ cumulativeCollateralPerUnitCollateral \in Nat
        /\ cumulativeDebtPerUnitCollateral \in Nat
        /\ collateralLoss \in Nat /\ debtLoss \in Nat
    BY DEF Inv, SafesSound, RestSound
  <2>2. CASE LiquidateByPool(debt)
    BY <2>1, <2>2 DEF LiquidateByPool, accumulators
  <2>3. CASE LiquidateByOtherSafes(debt, safe.collateralAmount - fee, over)
    <3> DEFINE c == safe.collateralAmount - fee + collateralLoss
               d == debt + debtLoss
    <3>1. c \in Nat /\ d \in Nat /\ over \in Nat \ {0}
      BY <1>1, <1>3, <1>4, <2>1, <2>3 DEF LiquidateByOtherSafes
    <3>2. /\ cumulativeCollateralPerUnitCollateral' =
               cumulativeCollateralPerUnitCollateral + PerUnitCollateral(c, over)
          /\ cumulativeDebtPerUnitCollateral' =
               cumulativeDebtPerUnitCollateral + PerUnitCollateral(d, over)
          /\ collateralLoss' = LossOf(c, over) /\ debtLoss' = LossOf(d, over)
      BY <2>3 DEF LiquidateByOtherSafes, DistributeDebtAndCollateral
    <3> HIDE DEF c, d, over
    <3>3. /\ PerUnitCollateral(c, over) \in Nat /\ PerUnitCollateral(d, over) \in Nat
          /\ LossOf(c, over) \in Nat /\ LossOf(d, over) \in Nat
      BY <3>1, DistributionType
    <3>4. QED
      BY <2>1, <3>2, <3>3
  <2>4. QED
    BY <1>1, <2>2, <2>3
<1>10. SafesSound' /\ TotalsSound' /\ RedemptionSound' /\ SavedSound'
  <2>1. /\ UpdatedCollateral(s) + NullSafe.collateralAmount - safe.collateralAmount = over
        /\ UpdatedDebt(s) + NullSafe.borrowedAmount - safe.borrowedAmount = UpdatedDebt(s) - debt
        /\ UpdatedDebt(s) - debt <= UpdatedDebt(s)
    BY <1>3, <1>4, <1>5
  <2>2. QED
    BY <1>1, <1>4, <1>5, <1>9, <2>1, SafeCall DEF safe
<1>11. MintedSound'
  BY <1>1, MintedKept DEF Inv, SafesSound
<1>12. QueuesSound'
  BY <1>1, QueuesRemoved DEF Inv
<1>13. MoneySound'
  <2>1. CASE LiquidateByPool(debt)
    <3>1. /\ debt <= poolStake /\ poolStake' = poolStake - debt
          /\ stabilityPoolCanReceiveRewards' = (stabilityPoolCanReceiveRewards /\ debt < poolStake)
          /\ Credit(0, 0, -debt, 0)
      BY <2>1 DEF LiquidateByPool
    <3>2. poolStake \in Nat /\ dfireStake \in Nat /\ poolStake <= sbd.pool /\ sbd \in [Accounts -> Nat]
      BY DEF Inv, MoneySound
    <3>3. /\ -debt \in Int /\ 0 \in Int /\ sbd.pool + (-debt) >= 0
          /\ sbd.public + 0 >= 0 /\ sbd.cdp + 0 >= 0 /\ sbd.sbr + 0 >= 0
      BY <1>3, <3>1, <3>2, BalanceType DEF Inv
    <3>4. sbd' \in [Accounts -> Nat] /\ sbd'.pool = sbd.pool + (-debt)
      BY <3>1, <3>2, <3>3, CreditType
    <3>5. poolStake' \in Nat /\ poolStake' <= sbd'.pool
      BY <1>3, <3>1, <3>2, <3>4, BalanceType DEF Inv
    <3>6. stabilityPoolCanReceiveRewards' = (poolStake' > 0)
      <4>1. stabilityPoolCanReceiveRewards = (poolStake > 0)
        BY DEF Inv, MoneySound, FlagsTellStakers
      <4>2. (poolStake > 0 /\ debt < poolStake) = (poolStake' > 0)
        BY <1>3, <3>1, <3>2
      <4>3. stabilityPoolCanReceiveRewards' = (poolStake > 0 /\ debt < poolStake)
        BY <3>1, <4>1, Zenon
      <4>4. QED
        BY <4>2, <4>3
    <3>7. dfireStake' \in Nat /\ sbrStakingPoolCanReceiveRewards' = (dfireStake' > 0)
      BY <1>1, <3>2 DEF Inv, MoneySound, FlagsTellStakers
    <3>8. QED
      BY <3>4, <3>5, <3>6, <3>7 DEF MoneySound, FlagsTellStakers
  <2>2. CASE LiquidateByOtherSafes(debt, safe.collateralAmount - fee, over)
    BY <1>1, <2>2, MoneyKept DEF LiquidateByOtherSafes, Inv, flags, stakes
  <2>3. QED
    BY <1>1, <2>1, <2>2
<1>14. RestSound'
  <2>1. price' \in Prices /\ eth' \in Nat
    BY <1>1, <1>6, <1>8 DEF Inv, RestSound
  <2>2. roundings' \in Nat
    BY <1>1, <1>6, RoundingsType
  <2>3. unclaimed' \in Snapshot /\ debtAlone' \in BOOLEAN
    <3>1. unclaimed \in Snapshot /\ debtAlone \in BOOLEAN
      BY DEF Inv, RestSound
    <3>2. CASE LiquidateByPool(debt)
      BY <3>1, <3>2 DEF LiquidateByPool, accumulators
    <3>3. CASE LiquidateByOtherSafes(debt, safe.collateralAmount - fee, over)
      <4>1. Redistributed
        BY <3>3 DEF LiquidateByOtherSafes
      <4>2. /\ cumulativeCollateralPerUnitCollateral \in Nat
            /\ cumulativeDebtPerUnitCollateral \in Nat
        BY DEF Inv, SafesSound
      <4>3. \A m, n \in Nat : m >= n => m - n \in Nat
        OBVIOUS
      <4>4. /\ cumulativeCollateralPerUnitCollateral'
                  - cumulativeCollateralPerUnitCollateral \in Nat
             /\ cumulativeDebtPerUnitCollateral' - cumulativeDebtPerUnitCollateral \in Nat
        BY <1>9, <4>2, <4>3
      <4>5. PICK c \in Nat : c = cumulativeCollateralPerUnitCollateral'
                                   - cumulativeCollateralPerUnitCollateral
        BY <4>4
      <4>6. PICK d \in Nat : d = cumulativeDebtPerUnitCollateral' - cumulativeDebtPerUnitCollateral
        BY <4>4
      <4>7. PICK f \in Nat : f = InFlightCollateral
        BY TotalsType DEF Inv
      <4>8. f * c \in Nat /\ f * d \in Nat
        OBVIOUS
      <4>9. PICK x \in Nat : x = InFlightCollateral * (cumulativeCollateralPerUnitCollateral'
                                                        - cumulativeCollateralPerUnitCollateral)
        BY <4>5, <4>7, <4>8, Zenon
      <4>10. PICK y \in Nat : y = InFlightCollateral * (cumulativeDebtPerUnitCollateral'
                                                        - cumulativeDebtPerUnitCollateral)
        BY <4>6, <4>7, <4>8, Zenon
      <4>11. unclaimed' = [collateral |-> unclaimed.collateral + x, debt |-> unclaimed.debt + y]
        BY <4>1, <4>9, <4>10, Zenon DEF Redistributed
      <4>12. debtAlone' \in BOOLEAN
        BY <4>1 DEF Redistributed
      <4>13. QED
        BY <3>1, <4>11, <4>12 DEF Snapshot
    <3>4. QED
      BY <1>1, <3>2, <3>3
  <2>4. QED
    BY <1>9, <2>1, <2>2, <2>3 DEF RestSound
<1>15. QED
  BY <1>10, <1>11, <1>12, <1>13, <1>14 DEF Inv

\* A redemption starts: the storage it may go back to is that of a contract
\* between transactions.
LEMMA RedeemKeepsInv ==
  ASSUME Inv, NEW amount \in RedeemAmounts, NEW hint \in Hints, Redeem(amount, hint)
  PROVE  Inv'
<1>1. /\ redemption.phase = "idle" /\ amount \in 1 .. sbd.public
      /\ Credit(-amount, amount, 0, 0)
      /\ redemption' = [NoRedemption EXCEPT !.phase = "redeeming", !.requestedAmount = amount,
                                            !.price = price, !.hint = hint]
      /\ saved' = Storage
      /\ UNCHANGED <<safes, minted, liquidationSnapshots, queues, accumulators, totals, flags,
                     price, stakes, eth, roundings>>
  BY DEF Redeem, CanRedeem
<1>2. amount \in Nat \ {0} /\ hint \in Slots /\ price \in Nat \ {0}
  BY StableBaseCDPAssumption DEF Inv, RestSound
<1>3. redemption = NoRedemption
  BY <1>1 DEF Inv, RedemptionSound
<1>4. /\ redemption' \in RedemptionType /\ redemption'.phase = "redeeming"
      /\ redemption'.price = price
      /\ redemption'.refundedAmount = 0 /\ redemption'.redeemedAmount = 0
      /\ redemption'.collateralAmount = 0 /\ redemption'.redeemerFee = 0
      /\ redemption'.processedSpots = 0
  BY <1>1, <1>2, MaxIdAssumption DEF NoRedemption, RedemptionType, Slots
<1>5. /\ InFlightCollateral = 0 /\ InFlightCollateral' = 0 /\ ToBurn = 0 /\ ToBurn' = 0
  BY <1>3, <1>4 DEF InFlightCollateral, ToBurn, NoRedemption
<1>6. RedemptionSound'
  <2>1. 0 * price <= 0 * PRECISION + 0 * (PRECISION - 1)
    BY <1>2, StableBaseAssumption
  <2>2. RedeemerNotOverpaid'
    BY <1>4, <1>5, <2>1 DEF RedeemerNotOverpaid
  <2>3. QED
    BY <1>2, <1>4, <2>2 DEF RedemptionSound
<1>7. SafesSound' /\ QueuesSound' /\ MintedSound' /\ RestSound'
  BY <1>1 DEF Inv, SafesSound, SnapshotsBehind, QueuesSound, queues, MintedSound, RestSound,
              accumulators
<1>8. TotalsSound'
  BY <1>1, <1>5 DEF Inv, TotalsSound, TotalsMatch, ModeFollowsDebt, totals, RecordedCollateral,
                    RecordedDebt
<1>9. MoneySound'
  <2>1. /\ -amount \in Int /\ amount \in Int /\ sbd.public + (-amount) >= 0
        /\ sbd.cdp + amount >= 0 /\ 0 \in Nat /\ sbd.sbr + 0 >= 0 /\ 0 \in Int
    BY <1>1, <1>2, BalanceType DEF Inv
  <2>2. QED
    BY <1>1, <2>1, MoneyMoved DEF Inv
<1>10. Sound(Storage)
  <2>1. /\ totalCollateral = RecordedCollateral /\ totalDebt = RecordedDebt
    BY <1>5, RecordedType DEF Inv, SafesSound, TotalsSound, TotalsMatch
  <2>2. QED
    BY <2>1 DEF Inv, SafesSound, SnapshotsBehind, QueuesSound, TotalsSound, ModeFollowsDebt,
                MintedSound, MoneySound, FlagsTellStakers, RestSound, RecordedCollateral,
                RecordedDebt, Sound, Storage
<1>11. SavedSound'
  BY <1>1, <1>10 DEF SavedSound
<1>12. QED
  BY <1>6, <1>7, <1>8, <1>9, <1>11 DEF Inv

\* A redemption that fails brings the saved storage back.
LEMMA RedeemRevertKeepsInv ==
  ASSUME Inv, RedeemRevert
  PROVE  Inv'
<1>1. Sound(saved)
  BY DEF RedeemRevert, Inv, SavedSound
<1>2. redemption' = NoRedemption /\ saved' = NothingSaved /\ price' = price
  BY DEF RedeemRevert
<1>3. InFlightCollateral' = 0 /\ ToBurn' = 0
  BY <1>2 DEF InFlightCollateral, ToBurn, NoRedemption
<1>4. NoRedemption \in RedemptionType /\ NoRedemption.phase = "idle"
      /\ NoRedemption.refundedAmount <= NoRedemption.redeemedAmount
  BY MaxIdAssumption DEF NoRedemption, RedemptionType, Slots
<1>5. RedeemerNotOverpaid'
  <2>1. 0 * 0 <= 0 * PRECISION + 0 * (PRECISION - 1)
    BY StableBaseAssumption
  <2>2. QED
    BY <1>2, <1>3, <2>1 DEF RedeemerNotOverpaid, NoRedemption
<1>6. RedemptionSound' /\ SavedSound'
  BY <1>2, <1>4, <1>5 DEF RedemptionSound, SavedSound
<1>7. SafesSound' /\ QueuesSound' /\ MintedSound'
  BY <1>1 DEF RedeemRevert, Sound, SafesSound, SnapshotsBehind, QueuesSound, MintedSound
<1>8. MoneySound'
  BY <1>1 DEF RedeemRevert, Sound, MoneySound, FlagsTellStakers
<1>9. RestSound'
  BY <1>1, <1>2 DEF RedeemRevert, Sound, RestSound, Inv
<1>10. TotalsSound'
  <2>1. totalCollateral' = RecordedCollateral' /\ totalDebt' = RecordedDebt'
    BY <1>1 DEF RedeemRevert, Sound, RecordedCollateral, RecordedDebt
  <2>2. RecordedCollateral' \in Nat /\ RecordedDebt' \in Nat
    <3>1. safes' \in [Safes -> Safe]
      BY <1>7 DEF SafesSound
    <3>2. /\ [s \in Safes |-> safes'[s].collateralAmount] \in [1 .. MaxId -> Nat]
          /\ [s \in Safes |-> safes'[s].borrowedAmount] \in [1 .. MaxId -> Nat]
      BY <3>1 DEF Safes, Ids, Safe
    <3>3. QED
      BY <3>2, MaxIdAssumption, SumBounds DEF RecordedCollateral, RecordedDebt
  <2>3. PROTOCOL_MODE' \in {"BOOTSTRAP", "NORMAL"} /\ ModeFollowsDebt'
    BY <1>1 DEF RedeemRevert, Sound, ModeFollowsDebt
  <2>4. \A x \in Nat : x = x + 0
    OBVIOUS
  <2>5. /\ totalCollateral' = RecordedCollateral' + InFlightCollateral'
        /\ totalDebt' = RecordedDebt' + ToBurn'
    BY <1>3, <2>1, <2>2, <2>4, Zenon
  <2>6. QED
    BY <2>3, <2>5 DEF TotalsSound, TotalsMatch
<1>11. QED
  BY <1>6, <1>7, <1>8, <1>9, <1>10 DEF Inv

\* One iteration of the redemption takes from a Safe what it adds to what is in flight.
LEMMA RedeemNodeKeepsInv ==
  ASSUME Inv, RedeemNode
  PROVE  Inv'
<1> DEFINE s == safesOrderedForRedemption.head
           safe == UpdatedSafe(s)
           wanted == redemption.requestedAmount - redemption.redeemedAmount
           amounts == RedemptionAmounts(safe, wanted, redemption.price)
           charged == ChargedOwnerFee(amounts)
           redeemed == RedeemedSafe(safe, amounts)
           toOwner == IF amounts.refunded > amounts.ownerFee
                        THEN amounts.refunded - amounts.ownerFee ELSE 0
           ratio == Ratio(redeemed.borrowedAmount, redeemed.collateralAmount)
<1>1. /\ redemption.phase = "redeeming" /\ redemption.redeemedAmount < redemption.requestedAmount
      /\ s # 0 /\ Redeemable(safe, redemption.price)
      /\ toOwner <= sbd.cdp /\ amounts.collateral <= safe.collateralAmount
      /\ \/ /\ safesOrderedForLiquidation' = Removed(safesOrderedForLiquidation, s)
            /\ safesOrderedForRedemption' = Removed(safesOrderedForRedemption, s)
         \/ /\ redeemed.collateralAmount > 0
            /\ safesOrderedForLiquidation' =
                 Upserted(safesOrderedForLiquidation, s, ratio, redemption.hint)
            /\ UNCHANGED safesOrderedForRedemption
      /\ WriteSafe(s, redeemed)
      /\ Credit(toOwner, -toOwner, 0, 0)
      /\ WriteTotals(UpdatedCollateral(s), UpdatedDebt(s), UpdatedDebt(s))
      /\ redemption' =
           [redemption EXCEPT !.redeemedAmount = @ + amounts.redeemed + amounts.refunded,
                              !.refundedAmount = @ + amounts.refunded,
                              !.processedSpots = @ + 1,
                              !.collateralAmount = @ + amounts.collateral - amounts.redeemerFee,
                              !.ownerFee = @ + charged,
                              !.redeemerFee = @ + amounts.redeemerFee]
      /\ roundings' = roundings + NewRoundings(s)
      /\ UNCHANGED <<minted, accumulators, flags, price, stakes, eth, saved>>
  BY Zenon DEF RedeemNode, CanRedeemNode, ToOwner, Wanted
<1>2. s \in Safes
  BY <1>1, NodeType, MaxIdAssumption DEF Inv, QueuesSound, ListType, Safes, Ids, Slots
<1> HIDE DEF s
<1>3. safe \in Safe
  BY <1>2, UpdatedType DEF Inv
<1>4. /\ safe.collateralAmount \in Nat /\ safe.borrowedAmount \in Nat
      /\ safe.feePaid \in Nat /\ safe.totalBorrowedAmount \in Nat /\ safe.weight \in Nat
  BY <1>3 DEF Safe
<1>5. /\ redemption \in RedemptionType /\ redemption.price \in Nat \ {0} /\ wanted \in Nat
      /\ redemption.redeemedAmount \in Nat /\ redemption.refundedAmount \in Nat
      /\ redemption.processedSpots \in Nat /\ redemption.collateralAmount \in Nat
      /\ redemption.ownerFee \in Nat /\ redemption.redeemerFee \in Nat
      /\ redemption.hint \in Slots
      /\ redemption.refundedAmount <= redemption.redeemedAmount
      /\ RedeemerNotOverpaid
  BY <1>1 DEF Inv, RedemptionSound, RedemptionType
<1> HIDE DEF safe, wanted
<1>6. /\ amounts.redeemed \in 0 .. safe.borrowedAmount
      /\ amounts.refunded \in Nat /\ amounts.collateral \in Nat /\ amounts.ownerFee \in Nat
      /\ amounts.redeemerFee \in 0 .. amounts.collateral
      /\ amounts.collateral * redemption.price
           <= (amounts.redeemed + amounts.refunded) * PRECISION + (PRECISION - 1)
  BY <1>1, <1>3, <1>5, RedemptionAmountsType
<1>7. charged \in Nat /\ toOwner \in Nat
  BY <1>6 DEF ChargedOwnerFee
<1> HIDE DEF amounts, toOwner
<1>8. /\ redeemed \in Safe
      /\ redeemed.collateralAmount = safe.collateralAmount - amounts.collateral
      /\ redeemed.borrowedAmount = safe.borrowedAmount - amounts.redeemed
  <2> DEFINE collateral == safe.collateralAmount - amounts.collateral
             debt == safe.borrowedAmount - amounts.redeemed
             feePaid == IF charged > 0 THEN 0 ELSE safe.feePaid
             total == IF charged > 0 THEN 1 ELSE safe.totalBorrowedAmount
  <2>1. collateral \in Nat /\ debt \in Nat /\ feePaid \in Nat /\ total \in Nat
    BY <1>1, <1>4, <1>6
  <2>2. redeemed = [safe EXCEPT !.collateralAmount = collateral, !.borrowedAmount = debt,
                                !.feePaid = feePaid, !.totalBorrowedAmount = total]
    BY <1>3 DEF RedeemedSafe, Safe
  <2> HIDE DEF collateral, debt, feePaid, total, redeemed
  <2>3. /\ redeemed \in Safe /\ redeemed.collateralAmount = collateral
        /\ redeemed.borrowedAmount = debt
    BY <1>3, <2>1, <2>2 DEF Safe
  <2>4. QED
    BY <2>3 DEF collateral, debt
<1> DEFINE redeemedAmount == redemption.redeemedAmount + amounts.redeemed + amounts.refunded
           refundedAmount == redemption.refundedAmount + amounts.refunded
           processedSpots == redemption.processedSpots + 1
           collateralAmount == redemption.collateralAmount + amounts.collateral - amounts.redeemerFee
           ownerFee == redemption.ownerFee + charged
           redeemerFee == redemption.redeemerFee + amounts.redeemerFee
<1>9. /\ redeemedAmount \in Nat /\ refundedAmount \in Nat /\ processedSpots \in Nat
      /\ collateralAmount \in Nat /\ ownerFee \in Nat /\ redeemerFee \in Nat
      /\ refundedAmount <= redeemedAmount
  BY <1>5, <1>6, <1>7
<1>10. redemption' = [redemption EXCEPT !.redeemedAmount = redeemedAmount,
                                        !.refundedAmount = refundedAmount,
                                        !.processedSpots = processedSpots,
                                        !.collateralAmount = collateralAmount,
                                        !.ownerFee = ownerFee, !.redeemerFee = redeemerFee]
  BY <1>1, <1>5 DEF RedemptionType
<1>11. /\ redemption' \in RedemptionType
       /\ redemption'.phase = "redeeming" /\ redemption'.price = redemption.price
       /\ redemption'.redeemedAmount = redeemedAmount
       /\ redemption'.refundedAmount = refundedAmount
       /\ redemption'.processedSpots = processedSpots
       /\ redemption'.collateralAmount = collateralAmount
       /\ redemption'.redeemerFee = redeemerFee
  <2> HIDE DEF redeemedAmount, refundedAmount, processedSpots, collateralAmount, ownerFee, redeemerFee
  <2>1. redemption' \in RedemptionType
    BY <1>1, <1>5, <1>9, <1>10, ZenonT(60) DEF RedemptionType
  <2>2. QED
    BY <1>1, <1>5, <1>10, <2>1 DEF RedemptionType
<1> HIDE DEF redeemed, charged
<1>12. /\ InFlightCollateral' = InFlightCollateral + amounts.collateral
       /\ ToBurn' = ToBurn + amounts.redeemed
       /\ InFlightCollateral \in Nat /\ ToBurn \in Nat
  BY <1>5, <1>6, <1>11 DEF InFlightCollateral, ToBurn
<1>13. RedemptionSound'
  <2>1. PICK p \in Nat \ {0} : p = redemption.price
    BY <1>5
  <2>2. InFlightCollateral' * p = InFlightCollateral * p + amounts.collateral * p
    BY <1>6, <1>12, <2>1
  <2>3. PICK q \in Nat : q = PRECISION - 1
    BY StableBaseAssumption
  <2>4. processedSpots * q = redemption.processedSpots * q + q
    BY <1>5, <2>3
  <2>5. redeemedAmount * PRECISION = redemption.redeemedAmount * PRECISION
          + (amounts.redeemed + amounts.refunded) * PRECISION
    BY <1>5, <1>6, StableBaseAssumption
  <2>6. /\ InFlightCollateral * p
             <= redemption.redeemedAmount * PRECISION + redemption.processedSpots * q
        /\ amounts.collateral * p <= (amounts.redeemed + amounts.refunded) * PRECISION + q
    BY <1>5, <1>6, <2>1, <2>3 DEF RedeemerNotOverpaid
  <2>7. /\ InFlightCollateral * p \in Nat /\ amounts.collateral * p \in Nat
        /\ redemption.redeemedAmount * PRECISION \in Nat /\ redemption.processedSpots * q \in Nat
        /\ (amounts.redeemed + amounts.refunded) * PRECISION \in Nat
    BY <1>5, <1>6, <1>12, <2>1, <2>3, StableBaseAssumption
  <2>8. InFlightCollateral' * p <= redeemedAmount * PRECISION + processedSpots * q
    BY <2>2, <2>3, <2>4, <2>5, <2>6, <2>7
  <2>9. RedeemerNotOverpaid'
    BY <1>11, <2>1, <2>3, <2>8 DEF RedeemerNotOverpaid
  <2>10. QED
    BY <1>5, <1>9, <1>11, <2>9 DEF RedemptionSound
<1>14. SavedSound'
  BY <1>1 DEF Inv, SavedSound
<1>15. SafesSound'
  BY <1>1, <1>2, <1>8, SafeWritten DEF Inv, SafesSound, accumulators
<1>16. TotalsSound'
  <2>1. UpdatedCollateral(s) \in Nat /\ UpdatedDebt(s) \in Nat
    BY <1>2, UpdatedType, TotalsType DEF Inv, UpdatedCollateral, UpdatedDebt
  <2>2. /\ UpdatedCollateral(s) - InFlightCollateral' =
             UpdatedCollateral(s) - InFlightCollateral
               + redeemed.collateralAmount - UpdatedSafe(s).collateralAmount
        /\ UpdatedDebt(s) - ToBurn' =
             UpdatedDebt(s) - ToBurn + redeemed.borrowedAmount - UpdatedSafe(s).borrowedAmount
    BY <1>4, <1>6, <1>8, <1>12, <2>1 DEF safe
  <2>3. safes' = [safes EXCEPT ![s] = redeemed]
    BY <1>1 DEF WriteSafe
  <2>4. UpdatedCollateral(s) \in Int /\ UpdatedDebt(s) \in Int /\ UpdatedDebt(s) <= UpdatedDebt(s)
    BY <2>1
  <2>5. WriteTotals(UpdatedCollateral(s), UpdatedDebt(s), UpdatedDebt(s))
    BY <1>1
  <2>6. SafesSound /\ TotalsSound
    BY DEF Inv
  <2>7. QED
    BY <1>2, <1>5, <1>8, <1>11, <2>2, <2>3, <2>4, <2>5, <2>6, TotalsWritten
<1>17. MintedSound'
  <2>1. s \in minted
    <3> SUFFICES ASSUME s \notin minted PROVE FALSE
      OBVIOUS
    <3>1. safes[s] = NullSafe
      BY <1>2 DEF Inv, MintedSound
    <3>2. DebtIncrease(s) = 0
      <4>1. \A x \in Int : (0 * x) \div PRECISION = 0
        BY StableBaseAssumption
      <4>2. /\ liquidationSnapshots[s].debt \in Nat /\ cumulativeDebtPerUnitCollateral \in Nat
        BY <1>2 DEF Inv, SafesSound, Snapshot
      <4>3. QED
        BY <3>1, <4>1, <4>2 DEF DebtIncrease, NullSafe
    <3>3. safe.totalBorrowedAmount = 0
      BY <3>1, <3>2 DEF safe, UpdatedSafe, NullSafe
    <3>4. QED
      BY <1>1, <3>3 DEF Redeemable
  <2>2. QED
    BY <1>1, <2>1, MintedKept DEF Inv, SafesSound
<1>18. QueuesSound'
  <2>1. redeemed.borrowedAmount \in Nat /\ redeemed.collateralAmount \in Nat
    BY <1>8 DEF Safe
  <2>2. QED
    BY <1>1, <1>2, <1>5, <2>1, QueuesMoved, QueuesRemoved DEF Inv
<1>19. MoneySound'
  <2>1. /\ toOwner \in Int /\ -toOwner \in Int /\ 0 \in Nat /\ 0 \in Int
        /\ sbd.public + toOwner >= 0 /\ sbd.cdp + (-toOwner) >= 0 /\ sbd.sbr + 0 >= 0
    BY <1>1, <1>7, BalanceType DEF Inv
  <2>2. QED
    BY <1>1, <2>1, MoneyMoved DEF Inv
<1>20. RestSound'
  BY <1>1, <1>2, RoundingsType DEF Inv, RestSound, accumulators
<1>21. QED
  BY <1>13, <1>14, <1>15, <1>16, <1>17, <1>18, <1>19, <1>20 DEF Inv

\* The redeemer and the stakers are paid: what is in flight still is.
LEMMA RedeemToUserKeepsInv ==
  ASSUME Inv, RedeemToUser
  PROVE  Inv'
<1> DEFINE fee == redemption.ownerFee
           paid == redemption.collateralAmount + redemption.redeemerFee
           toPool == stabilityPoolCanReceiveRewards
<1>1. /\ redemption.phase = "redeeming"
      /\ fee <= sbd.cdp
      /\ Credit(IF toPool THEN 0 ELSE fee, -fee, IF toPool THEN fee ELSE 0, 0)
      /\ paid <= eth /\ eth' = eth - paid
      /\ redemption' = [redemption EXCEPT !.phase = "paid"]
      /\ UNCHANGED <<safes, minted, liquidationSnapshots, queues, accumulators, totals, flags,
                     price, stakes, saved, roundings>>
  BY DEF RedeemToUser, CanRedeemToUser
<1>2. redemption \in RedemptionType /\ fee \in Nat /\ paid \in Nat
  BY DEF Inv, RedemptionSound, RedemptionType
<1>3. /\ redemption' \in RedemptionType /\ redemption'.phase = "paid"
      /\ redemption'.price = redemption.price
      /\ redemption'.redeemedAmount = redemption.redeemedAmount
      /\ redemption'.refundedAmount = redemption.refundedAmount
      /\ redemption'.processedSpots = redemption.processedSpots
      /\ redemption'.collateralAmount = redemption.collateralAmount
      /\ redemption'.redeemerFee = redemption.redeemerFee
  BY <1>1, <1>2 DEF RedemptionType
<1>4. InFlightCollateral' = InFlightCollateral /\ ToBurn' = ToBurn
  BY <1>3 DEF InFlightCollateral, ToBurn
<1>5. RedemptionSound'
  BY <1>1, <1>3, <1>4 DEF Inv, RedemptionSound, RedeemerNotOverpaid
<1>6. SavedSound'
  BY <1>1 DEF Inv, SavedSound
<1>7. SafesSound' /\ QueuesSound' /\ MintedSound'
  BY <1>1 DEF Inv, SafesSound, SnapshotsBehind, QueuesSound, queues, MintedSound, accumulators
<1>8. TotalsSound'
  BY <1>1, <1>4 DEF Inv, TotalsSound, TotalsMatch, ModeFollowsDebt, totals, RecordedCollateral,
                    RecordedDebt
<1>9. MoneySound'
  <2>1. \A public, pool \in Nat : Credit(public, -fee, pool, 0) => MoneySound'
    <3> SUFFICES ASSUME NEW public \in Nat, NEW pool \in Nat, Credit(public, -fee, pool, 0)
                 PROVE  MoneySound'
      OBVIOUS
    <3>1. /\ public \in Int /\ -fee \in Int /\ 0 \in Int /\ sbd.public + public >= 0
          /\ sbd.cdp + (-fee) >= 0 /\ sbd.sbr + 0 >= 0
      BY <1>1, <1>2, BalanceType DEF Inv
    <3>2. QED
      BY <1>1, <3>1, MoneyMoved DEF Inv
  <2>2. (IF toPool THEN 0 ELSE fee) \in Nat /\ (IF toPool THEN fee ELSE 0) \in Nat
    BY <1>2
  <2>3. QED
    BY <1>1, <2>1, <2>2
<1>10. RestSound'
  BY <1>1, <1>2 DEF Inv, RestSound, accumulators
<1>11. QED
  BY <1>5, <1>6, <1>7, <1>8, <1>9, <1>10 DEF Inv

\* redeem lowers the totals by what was in flight, whatever was called in the meantime.
LEMMA RedeemSettleKeepsInv ==
  ASSUME Inv, RedeemSettle
  PROVE  Inv'
<1>1. /\ redemption.phase = "paid" /\ ToBurn <= sbd.cdp
      /\ WriteTotals(totalCollateral - InFlightCollateral, totalDebt - ToBurn, totalDebt - ToBurn)
      /\ Credit(0, -ToBurn, 0, 0)
      /\ redemption' = NoRedemption /\ saved' = NothingSaved
      /\ UNCHANGED <<safes, minted, liquidationSnapshots, queues, accumulators, flags, price,
                     stakes, eth, roundings>>
  BY DEF RedeemSettle, CanRedeemSettle, InFlightCollateral
<1>2. /\ totalCollateral \in Nat /\ totalDebt \in Nat
      /\ InFlightCollateral \in Nat /\ ToBurn \in Nat
  BY TotalsType DEF Inv
<1>3. InFlightCollateral' = 0 /\ ToBurn' = 0
  BY <1>1 DEF InFlightCollateral, ToBurn, NoRedemption
<1>4. NoRedemption \in RedemptionType /\ NoRedemption.phase = "idle"
      /\ NoRedemption.refundedAmount <= NoRedemption.redeemedAmount
  BY MaxIdAssumption DEF NoRedemption, RedemptionType, Slots
<1>5. RedeemerNotOverpaid'
  <2>1. 0 * 0 <= 0 * PRECISION + 0 * (PRECISION - 1)
    BY StableBaseAssumption
  <2>2. QED
    BY <1>1, <1>3, <2>1 DEF RedeemerNotOverpaid, NoRedemption
<1>6. RedemptionSound' /\ SavedSound'
  BY <1>1, <1>4, <1>5 DEF RedemptionSound, SavedSound
<1>7. SafesSound' /\ QueuesSound' /\ MintedSound' /\ RestSound'
  BY <1>1 DEF Inv, SafesSound, SnapshotsBehind, QueuesSound, queues, MintedSound, RestSound,
              accumulators
<1>8. TotalsSound'
  <2>1. RecordedCollateral \in Nat /\ RecordedDebt \in Nat
    BY RecordedType DEF Inv, SafesSound
  <2>2. /\ totalCollateral - InFlightCollateral = RecordedCollateral + 0
        /\ totalDebt - ToBurn = RecordedDebt + 0
    BY <1>2, <2>1 DEF Inv, TotalsSound, TotalsMatch
  <2>3. RecordedCollateral' = RecordedCollateral /\ RecordedDebt' = RecordedDebt
    BY <1>1 DEF RecordedCollateral, RecordedDebt
  <2>4. TotalsMatch'
    BY <1>1, <1>3, <2>2, <2>3 DEF TotalsMatch, WriteTotals
  <2>5. PROTOCOL_MODE' \in {"BOOTSTRAP", "NORMAL"} /\ ModeFollowsDebt'
    BY <1>1 DEF WriteTotals, Inv, TotalsSound, ModeFollowsDebt
  <2>6. QED
    BY <2>4, <2>5 DEF TotalsSound
<1>9. MoneySound'
  <2>1. /\ 0 \in Int /\ 0 \in Nat /\ -ToBurn \in Int /\ sbd.public + 0 >= 0
        /\ sbd.cdp + (-ToBurn) >= 0 /\ sbd.sbr + 0 >= 0
    BY <1>1, <1>2, BalanceType DEF Inv
  <2>2. QED
    BY <1>1, <2>1, MoneyMoved DEF Inv
<1>10. QED
  BY <1>6, <1>7, <1>8, <1>9 DEF Inv

\* Another price, between transactions.
LEMMA SetPriceKeepsInv ==
  ASSUME Inv, NEW p \in Prices, SetPrice(p)
  PROVE  Inv'
<1>1. /\ redemption.phase = "idle" /\ price' = p
      /\ UNCHANGED <<safes, minted, liquidationSnapshots, queues, accumulators, totals, flags,
                     stakes, sbd, eth, redemption, saved, roundings>>
  BY DEF SetPrice
<1>2. RedemptionSound' /\ SavedSound' /\ InFlightCollateral' = InFlightCollateral /\ ToBurn' = ToBurn
  BY <1>1, RedemptionKept DEF Inv
<1>3. SafesSound' /\ QueuesSound' /\ MintedSound' /\ RestSound'
  BY <1>1 DEF Inv, SafesSound, SnapshotsBehind, QueuesSound, queues, MintedSound, RestSound,
              accumulators
<1>4. TotalsSound'
  BY <1>1, <1>2 DEF Inv, TotalsSound, TotalsMatch, ModeFollowsDebt, totals, RecordedCollateral,
                    RecordedDebt
<1>5. MoneySound'
  BY <1>1, MoneyKept DEF Inv
<1>6. QED
  BY <1>2, <1>3, <1>4, <1>5 DEF Inv

\* A call to a staking contract changes stakes, flags and DFID only.
LEMMA StakingKeepsInv ==
  ASSUME Inv, UnchangedByStaking, MoneySound'
  PROVE  Inv'
<1>1. UNCHANGED <<safes, minted, liquidationSnapshots, queues, accumulators, totals, price, eth,
                  redemption, saved, roundings>>
  BY DEF UnchangedByStaking
<1>2. RedemptionSound' /\ SavedSound' /\ InFlightCollateral' = InFlightCollateral /\ ToBurn' = ToBurn
  BY <1>1, RedemptionKept DEF Inv
<1>3. SafesSound' /\ QueuesSound' /\ MintedSound' /\ RestSound'
  BY <1>1 DEF Inv, SafesSound, SnapshotsBehind, QueuesSound, queues, MintedSound, RestSound,
              accumulators
<1>4. TotalsSound'
  BY <1>1, <1>2 DEF Inv, TotalsSound, TotalsMatch, ModeFollowsDebt, totals, RecordedCollateral,
                    RecordedDebt
<1>5. QED
  BY <1>2, <1>3, <1>4 DEF Inv

\* The pool's stake and its flag change together, and the stake stays backed.
LEMMA PoolCallKeepsInv ==
  ASSUME Inv, NEW n \in StakeAmounts, NEW reward \in Nat,
         PoolStake(n, reward) \/ PoolUnstake(n, reward)
  PROVE  Inv'
<1>1. n \in Nat \ {0}
  BY StableBaseCDPAssumption
<1>2. /\ sbd \in [Accounts -> Nat] /\ poolStake \in Nat /\ dfireStake \in Nat
      /\ poolStake <= sbd.pool
      /\ stabilityPoolCanReceiveRewards = (poolStake > 0)
      /\ sbrStakingPoolCanReceiveRewards = (dfireStake > 0)
      /\ sbd.public \in Nat /\ sbd.cdp \in Nat /\ sbd.pool \in Nat /\ sbd.sbr \in Nat
  BY BalanceType DEF Inv, MoneySound, FlagsTellStakers
<1>3. CASE PoolStake(n, reward)
  <2>1. /\ reward <= sbd.pool - poolStake /\ n <= sbd.public + reward
        /\ poolStake' = poolStake + n
        /\ stabilityPoolCanReceiveRewards' = (poolStake = 0 \/ stabilityPoolCanReceiveRewards)
        /\ Credit(reward - n, 0, n - reward, 0)
        /\ UNCHANGED <<dfireStake, sbrStakingPoolCanReceiveRewards>>
    BY <1>2, <1>3 DEF PoolStake
  <2>2. /\ reward - n \in Int /\ n - reward \in Int /\ 0 \in Int
        /\ sbd.public + (reward - n) >= 0 /\ sbd.cdp + 0 >= 0
        /\ sbd.pool + (n - reward) >= 0 /\ sbd.sbr + 0 >= 0
    BY <1>1, <1>2, <2>1
  <2>3. sbd' \in [Accounts -> Nat] /\ sbd'.pool = sbd.pool + (n - reward)
    BY <1>2, <2>1, <2>2, CreditType
  <2>4. poolStake' \in Nat /\ poolStake' > 0 /\ poolStake' <= sbd'.pool
    BY <1>1, <1>2, <2>1, <2>3
  <2>5. poolStake = 0 \/ poolStake > 0
    BY <1>2
  <2>6. stabilityPoolCanReceiveRewards' = TRUE
    BY <1>2, <2>1, <2>5
  <2>7. MoneySound'
    BY <1>2, <2>1, <2>3, <2>4, <2>6 DEF MoneySound, FlagsTellStakers
  <2>8. QED
    BY <1>3, <2>7, StakingKeepsInv DEF PoolStake
<1>4. CASE PoolUnstake(n, reward)
  <2>1. /\ reward <= sbd.pool - poolStake /\ n <= poolStake
        /\ poolStake' = poolStake - n
        /\ stabilityPoolCanReceiveRewards' = (n < poolStake /\ stabilityPoolCanReceiveRewards)
        /\ Credit(reward + n, 0, -(reward + n), 0)
        /\ UNCHANGED <<dfireStake, sbrStakingPoolCanReceiveRewards>>
    BY <1>2, <1>4 DEF PoolUnstake
  <2>2. /\ reward + n \in Int /\ -(reward + n) \in Int /\ 0 \in Int
        /\ sbd.public + (reward + n) >= 0 /\ sbd.cdp + 0 >= 0
        /\ sbd.pool + (-(reward + n)) >= 0 /\ sbd.sbr + 0 >= 0
    BY <1>1, <1>2, <2>1
  <2>3. sbd' \in [Accounts -> Nat] /\ sbd'.pool = sbd.pool + (-(reward + n))
    BY <1>2, <2>1, <2>2, CreditType
  <2>4. poolStake' \in Nat /\ poolStake' <= sbd'.pool
    BY <1>1, <1>2, <2>1, <2>3
  <2>5. (n < poolStake /\ poolStake > 0) = (poolStake' > 0)
    BY <1>1, <1>2, <2>1
  <2>6. stabilityPoolCanReceiveRewards' = (n < poolStake /\ poolStake > 0)
    BY <1>2, <2>1, Zenon
  <2>7. stabilityPoolCanReceiveRewards' = (poolStake' > 0)
    BY <2>5, <2>6
  <2>8. MoneySound'
    BY <1>2, <2>1, <2>3, <2>4, <2>7 DEF MoneySound, FlagsTellStakers
  <2>9. QED
    BY <1>4, <2>8, StakingKeepsInv DEF PoolUnstake
<1>5. QED
  BY <1>3, <1>4

\* So do the DFIRE stake and its flag.
LEMMA DfireCallKeepsInv ==
  ASSUME Inv, NEW n \in StakeAmounts, NEW reward \in Nat,
         DfireStake(n, reward) \/ DfireUnstake(n, reward)
  PROVE  Inv'
<1>1. n \in Nat \ {0}
  BY StableBaseCDPAssumption
<1>2. /\ sbd \in [Accounts -> Nat] /\ poolStake \in Nat /\ dfireStake \in Nat
      /\ poolStake <= sbd.pool
      /\ stabilityPoolCanReceiveRewards = (poolStake > 0)
      /\ sbrStakingPoolCanReceiveRewards = (dfireStake > 0)
      /\ sbd.public \in Nat /\ sbd.cdp \in Nat /\ sbd.pool \in Nat /\ sbd.sbr \in Nat
  BY BalanceType DEF Inv, MoneySound, FlagsTellStakers
<1>3. /\ reward <= sbd.sbr /\ Credit(reward, 0, 0, -reward)
      /\ UNCHANGED <<poolStake, stabilityPoolCanReceiveRewards>>
      /\ UnchangedByStaking
  BY <1>2 DEF DfireStake, DfireUnstake
<1>4. /\ reward \in Int /\ -reward \in Int /\ 0 \in Int
      /\ sbd.public + reward >= 0 /\ sbd.cdp + 0 >= 0
      /\ sbd.pool + 0 >= 0 /\ sbd.sbr + (-reward) >= 0
  BY <1>2, <1>3
<1>5. sbd' \in [Accounts -> Nat] /\ sbd'.pool = sbd.pool + 0
  BY <1>2, <1>3, <1>4, CreditType
<1>6. dfireStake' \in Nat /\ sbrStakingPoolCanReceiveRewards' = (dfireStake' > 0)
  <2>1. CASE DfireStake(n, reward)
    <3>1. /\ dfireStake' = dfireStake + n
          /\ sbrStakingPoolCanReceiveRewards' = (dfireStake = 0 \/ sbrStakingPoolCanReceiveRewards)
      BY <2>1 DEF DfireStake
    <3>2. dfireStake' \in Nat /\ dfireStake' > 0 /\ (dfireStake = 0 \/ dfireStake > 0)
      BY <1>1, <1>2, <3>1
    <3>3. QED
      BY <1>2, <3>1, <3>2
  <2>2. CASE DfireUnstake(n, reward)
    <3>1. /\ dfireStake' = dfireStake - n /\ n <= dfireStake
          /\ sbrStakingPoolCanReceiveRewards' = (n < dfireStake /\ sbrStakingPoolCanReceiveRewards)
      BY <2>2 DEF DfireUnstake
    <3>2. dfireStake' \in Nat /\ (n < dfireStake /\ dfireStake > 0) = (dfireStake' > 0)
      BY <1>1, <1>2, <3>1
    <3>3. sbrStakingPoolCanReceiveRewards' = (n < dfireStake /\ dfireStake > 0)
      BY <1>2, <3>1, Zenon
    <3>4. QED
      BY <3>2, <3>3
  <2>3. QED
    BY <2>1, <2>2
<1>7. MoneySound'
  BY <1>2, <1>3, <1>5, <1>6 DEF MoneySound, FlagsTellStakers
<1>8. QED
  BY <1>3, <1>7, StakingKeepsInv

-----------------------------------------------------------------------------
(* The theorems. *)

\* The deployed contracts satisfy the invariant.
LEMMA InvInit == Init => Inv
<1> SUFFICES ASSUME Init PROVE Inv
  OBVIOUS
<1>1. NullSafe \in Safe /\ NullSafe.collateralAmount = 0 /\ NullSafe.borrowedAmount = 0
  BY DEF NullSafe, Safe
<1>2. SafesSound /\ MintedSound
  BY <1>1 DEF Init, SafesSound, SnapshotsBehind, MintedSound, Snapshot
<1>3. QueuesSound
  BY EmptyListType DEF Init, QueuesSound
<1>4. /\ NoRedemption \in RedemptionType /\ NoRedemption.phase = "idle"
      /\ NoRedemption.refundedAmount <= NoRedemption.redeemedAmount
      /\ InFlightCollateral = 0 /\ ToBurn = 0
  BY MaxIdAssumption DEF Init, NoRedemption, RedemptionType, Slots, InFlightCollateral, ToBurn
<1>5. RedemptionSound /\ SavedSound
  <2>1. 0 * 0 <= 0 * PRECISION + 0 * (PRECISION - 1)
    BY StableBaseAssumption
  <2>2. RedeemerNotOverpaid
    BY <1>4, <2>1 DEF Init, RedeemerNotOverpaid, NoRedemption
  <2>3. QED
    BY <1>4, <2>2 DEF Init, RedemptionSound, SavedSound
<1>6. TotalsSound
  <2>1. \A s \in Safes : safes[s].collateralAmount = 0 /\ safes[s].borrowedAmount = 0
    BY <1>1 DEF Init
  <2>2. RecordedCollateral = 0 /\ RecordedDebt = 0
    <3>1. /\ [s \in Safes |-> safes[s].collateralAmount] \in [1 .. MaxId -> Int]
          /\ [s \in Safes |-> safes[s].borrowedAmount] \in [1 .. MaxId -> Int]
      BY <1>2, RecordedType DEF SafesSound
    <3>2. /\ \A i \in 1 .. MaxId : [s \in Safes |-> safes[s].collateralAmount][i] = 0
          /\ \A i \in 1 .. MaxId : [s \in Safes |-> safes[s].borrowedAmount][i] = 0
      BY <2>1 DEF Safes, Ids
    <3>3. QED
      BY <3>1, <3>2, SumZero, MaxIdAssumption DEF RecordedCollateral, RecordedDebt
  <2>3. QED
    BY <1>4, <2>2, StableBaseAssumption DEF Init, TotalsSound, TotalsMatch, ModeFollowsDebt
<1>7. MoneySound /\ RestSound
  <2>1. sbd \in [Accounts -> Nat] /\ sbd.pool = 0
    BY DEF Init, Accounts
  <2>2. FlagsTellStakers
    <3>1. FALSE = (0 > 0)
      OBVIOUS
    <3>2. QED
      BY <3>1 DEF Init, FlagsTellStakers
  <2>3. poolStake \in Nat /\ dfireStake \in Nat /\ poolStake <= sbd.pool
    BY <2>1 DEF Init
  <2>4. MoneySound
    BY <2>1, <2>2, <2>3 DEF MoneySound
  <2>5. RestSound
    BY DEF Init, RestSound, Snapshot
  <2>6. QED
    BY <2>4, <2>5
<1>8. QED
  BY <1>2, <1>3, <1>5, <1>6, <1>7 DEF Inv

\* A step that changes nothing keeps the invariant.
LEMMA StutterKeepsInv ==
  ASSUME Inv, UNCHANGED vars
  PROVE  Inv'
<1>1. /\ UNCHANGED <<safes, minted, liquidationSnapshots, queues, accumulators, totals, flags,
                     price, stakes, sbd, eth, redemption, saved, roundings>>
  BY DEF vars
<1>2. RedemptionSound' /\ SavedSound' /\ InFlightCollateral' = InFlightCollateral /\ ToBurn' = ToBurn
  BY <1>1, RedemptionKept DEF Inv
<1>3. SafesSound' /\ QueuesSound' /\ MintedSound' /\ RestSound'
  BY <1>1 DEF Inv, SafesSound, SnapshotsBehind, QueuesSound, queues, MintedSound, RestSound,
              accumulators
<1>4. TotalsSound'
  BY <1>1, <1>2 DEF Inv, TotalsSound, TotalsMatch, ModeFollowsDebt, totals, RecordedCollateral,
                    RecordedDebt
<1>5. MoneySound'
  BY <1>1, MoneyKept DEF Inv
<1>6. QED
  BY <1>2, <1>3, <1>4, <1>5 DEF Inv

\* Every operation, every step of a redemption and every price keeps the invariant.
LEMMA InvStep == Inv /\ [Next]_vars => Inv'
<1> SUFFICES ASSUME Inv, [Next]_vars PROVE Inv'
  OBVIOUS
<1>1. CASE OwnerCall
  BY <1>1, OpenSafeKeepsInv, CloseSafeKeepsInv, BorrowKeepsInv, RepayKeepsInv,
     CollateralCallKeepsInv, FeeTopupKeepsInv DEF OwnerCall
<1>2. CASE LiquidationCall
  <2>1. PICK gas \in GasCosts : Liquidate(gas) \/ \E s \in Safes : LiquidateSafe(s, gas)
    BY <1>2 DEF LiquidationCall
  <2>2. CASE Liquidate(gas)
    <3>1. safesOrderedForLiquidation.tail \in Safes
      <4>1. safesOrderedForLiquidation.tail \in Slots
        BY DEF Inv, QueuesSound, ListType
      <4>2. safesOrderedForLiquidation.tail # 0
        BY <2>2 DEF Liquidate
      <4>3. QED
        BY <4>1, <4>2, MaxIdAssumption DEF Slots, Safes, Ids
    <3>2. QED
      BY <2>2, <3>1, LiquidateSafeKeepsInv DEF Liquidate
  <2>3. QED
    BY <2>1, <2>2, LiquidateSafeKeepsInv
<1>3. CASE StakingCall
  <2>1. PICK n \in StakeAmounts :
          \/ \E reward \in 0 .. sbd.pool : PoolStake(n, reward) \/ PoolUnstake(n, reward)
          \/ \E reward \in 0 .. sbd.sbr : DfireStake(n, reward) \/ DfireUnstake(n, reward)
    BY <1>3 DEF StakingCall
  <2>2. QED
    BY <2>1, PoolCallKeepsInv, DfireCallKeepsInv
<1>4. CASE RedeemCall
  BY <1>4, RedeemKeepsInv DEF RedeemCall
<1>5. CASE RedemptionStep
  BY <1>5, RedeemNodeKeepsInv, RedeemToUserKeepsInv, RedeemSettleKeepsInv, RedeemRevertKeepsInv
     DEF RedemptionStep
<1>6. CASE PriceChange
  BY <1>6, SetPriceKeepsInv DEF PriceChange
<1>7. CASE UNCHANGED vars
  BY <1>7, StutterKeepsInv
<1>8. QED
  BY <1>1, <1>2, <1>3, <1>4, <1>5, <1>6, <1>7 DEF Next, Call

\* The invariant holds in every reachable state.
THEOREM Invariance == Spec => []Inv
<1>1. Init => Inv
  BY InvInit
<1>2. Inv /\ [Next]_vars => Inv'
  BY InvStep
<1>3. QED
  BY <1>1, <1>2, PTL DEF Spec

\* No amount, total or balance of the contracts is ever negative, whatever the
\* order of calls: Solidity's checked subtractions only fail where the code
\* means them to.
THEOREM TypeCorrect == Spec => []TypeOK
<1>1. Inv => TypeOK
  BY InvType
<1>2. QED
  BY <1>1, Invariance, PTL

\* totalCollateral and totalDebt are the sums over the Safes, also while a
\* redeemer is called back in the middle of redeem.
THEOREM TotalsCorrect == Spec => []TotalsMatch
<1>1. Inv => TotalsMatch
  BY DEF Inv, TotalsSound
<1>2. QED
  BY <1>1, Invariance, PTL

\* The CDP's flags say whether the pool and DFIREStaking have a stake to divide
\* rewards by, after stakes, unstakes and liquidations that burn the last stake.
THEOREM FlagsCorrect == Spec => []FlagsTellStakers
<1>1. Inv => FlagsTellStakers
  BY DEF Inv, MoneySound
<1>2. QED
  BY <1>1, Invariance, PTL

\* The bootstrap mode never outlasts a debt above its threshold.
THEOREM ModeCorrect == Spec => []ModeFollowsDebt
<1>1. Inv => ModeFollowsDebt
  BY DEF Inv, TotalsSound
<1>2. QED
  BY <1>1, Invariance, PTL

\* A redeemer is never paid more ETH than the DFID are worth, up to the rounding
\* of each Safe's value.
THEOREM RedeemerPaidAtMost == Spec => []RedeemerNotOverpaid
<1>1. Inv => RedeemerNotOverpaid
  BY DEF Inv, RedemptionSound
<1>2. QED
  BY <1>1, Invariance, PTL

-----------------------------------------------------------------------------
(* Where the DFID of a redemption are.                                         *)

\* What the CDP holds of the requested DFID is at most what it still has to burn
\* and to pay as fees: every refund was paid, or kept as a fee.
FundsSound ==
  /\ redemption.phase = "idle" => sbd.cdp = 0
  /\ redemption.phase = "redeeming" =>
       sbd.cdp + redemption.refundedAmount <= redemption.requestedAmount + redemption.ownerFee
  /\ redemption.phase = "paid" => sbd.cdp + redemption.refundedAmount <= redemption.requestedAmount
  /\ redemption.phase # "idle" => saved.sbd.cdp = 0

\* A call that credits the CDP with nothing leaves what it holds.
LEMMA CreditLeavesCdp ==
  ASSUME sbd \in [Accounts -> Nat], NEW public, NEW pool, NEW sbr, Credit(public, 0, pool, sbr)
  PROVE  sbd'.cdp = sbd.cdp
<1>1. sbd'.cdp = sbd.cdp + 0 /\ sbd.cdp \in Nat
  BY DEF Credit, Accounts
<1>2. QED
  BY <1>1

\* Only a redemption puts DFID into the CDP or takes them out.
LEMMA CallsLeaveCdp ==
  ASSUME Inv, OwnerCall \/ LiquidationCall \/ StakingCall \/ PriceChange \/ UNCHANGED vars
  PROVE  sbd'.cdp = sbd.cdp /\ redemption' = redemption /\ saved' = saved
<1>1. sbd \in [Accounts -> Nat]
  BY DEF Inv, MoneySound
<1>2. CASE OwnerCall
  <2>1. PICK s \in Safes :
          \/ \E amount \in Collaterals : OpenSafe(s, amount)
          \/ CloseSafe(s)
          \/ \E amount \in Debts, rate \in ShieldingRates, hintL, hintR \in Hints :
               Borrow(s, amount, rate, hintL, hintR)
          \/ \E amount \in Debts, hint \in Hints : Repay(s, amount, hint)
          \/ \E amount \in Collaterals, hint \in Hints : AddCollateral(s, amount, hint)
          \/ \E amount \in Collaterals, hint \in Hints : WithdrawCollateral(s, amount, hint)
          \/ \E hint \in Hints : AdjustPosition(s, hint)
          \/ \E rate \in ShieldingRates, hint \in Hints : FeeTopup(s, rate, hint)
    BY <1>2 DEF OwnerCall
  <2>2. ASSUME NEW amount, OpenSafe(s, amount)
        PROVE  sbd' = sbd /\ redemption' = redemption /\ saved' = saved
    BY <2>2 DEF OpenSafe, CanOpenSafe
  <2>3. ASSUME CloseSafe(s)
        PROVE  sbd' = sbd /\ redemption' = redemption /\ saved' = saved
    BY <2>3 DEF CloseSafe, CanCloseSafe
  <2>4. ASSUME NEW amount, NEW rate, NEW hintL, NEW hintR, Borrow(s, amount, rate, hintL, hintR)
        PROVE  sbd'.cdp = sbd.cdp /\ redemption' = redemption /\ saved' = saved
    <3>1. PICK fee : Credit(amount - fee + FeeRefunded(fee), 0, FeeToPool(fee), FeeToSBR(fee))
      BY <2>4, Zenon DEF Borrow, CanBorrow
    <3>2. QED
      BY <1>1, <2>4, <3>1, CreditLeavesCdp DEF Borrow, CanBorrow
  <2>5. ASSUME NEW amount, NEW hint, Repay(s, amount, hint)
        PROVE  sbd'.cdp = sbd.cdp /\ redemption' = redemption /\ saved' = saved
    BY <1>1, <2>5, CreditLeavesCdp DEF Repay, CanRepay
  <2>6. ASSUME NEW moved, Move(s, moved)
        PROVE  sbd' = sbd /\ redemption' = redemption /\ saved' = saved
    BY <2>6 DEF Move
  <2>7. ASSUME NEW rate, NEW hint, FeeTopup(s, rate, hint)
        PROVE  sbd'.cdp = sbd.cdp /\ redemption' = redemption /\ saved' = saved
    <3>1. PICK fee : Credit(FeeRefunded(fee) - fee, 0, FeeToPool(fee), FeeToSBR(fee))
      BY <2>7, Zenon DEF FeeTopup, CanTopupFee
    <3>2. QED
      BY <1>1, <2>7, <3>1, CreditLeavesCdp DEF FeeTopup, CanTopupFee
  <2>8. QED
    BY <2>1, <2>2, <2>3, <2>4, <2>5, <2>6, <2>7 DEF AddCollateral, CanAddCollateral, WithdrawCollateral, CanWithdrawCollateral, CanReorder, AdjustPosition, CanAdjustPosition
<1>3. CASE LiquidationCall
  <2>1. PICK s, gas : LiquidateSafe(s, gas)
    BY <1>3 DEF LiquidationCall, Liquidate
  <2>2. PICK debt, collateral, over :
          LiquidateByPool(debt) \/ LiquidateByOtherSafes(debt, collateral, over)
    BY <2>1, Zenon DEF LiquidateSafe, CanLiquidateSafe
  <2>3. sbd'.cdp = sbd.cdp
    BY <1>1, <2>2, CreditLeavesCdp DEF LiquidateByPool, LiquidateByOtherSafes
  <2>4. redemption' = redemption /\ saved' = saved
    BY <2>1 DEF LiquidateSafe, CanLiquidateSafe
  <2>5. QED
    BY <2>3, <2>4
<1>4. CASE StakingCall
  <2>1. PICK n, reward : \/ PoolStake(n, reward) \/ PoolUnstake(n, reward)
                         \/ DfireStake(n, reward) \/ DfireUnstake(n, reward)
    BY <1>4 DEF StakingCall
  <2>2. PICK public, pool, sbr : Credit(public, 0, pool, sbr)
    BY <2>1 DEF PoolStake, PoolUnstake, DfireStake, DfireUnstake
  <2>3. redemption' = redemption /\ saved' = saved
    BY <2>1 DEF PoolStake, PoolUnstake, DfireStake, DfireUnstake, UnchangedByStaking
  <2>4. QED
    BY <1>1, <2>2, <2>3, CreditLeavesCdp
<1>5. CASE PriceChange
  BY <1>5 DEF PriceChange, SetPrice
<1>6. CASE UNCHANGED vars
  BY <1>6 DEF vars
<1>7. QED
  BY <1>2, <1>3, <1>4, <1>5, <1>6

\* What an iteration pays to the owner and keeps as its fee is at least the refund.
LEMMA RefundsAreSpent ==
  ASSUME Inv, FundsSound, RedeemNode
  PROVE  FundsSound'
<1>1. PICK amounts, toOwner :
        /\ redemption.phase = "redeeming"
        /\ amounts.refunded \in Nat /\ amounts.ownerFee \in Nat
        /\ toOwner = (IF amounts.refunded > amounts.ownerFee
                        THEN amounts.refunded - amounts.ownerFee ELSE 0)
        /\ Credit(toOwner, -toOwner, 0, 0)
        /\ redemption'.phase = "redeeming"
        /\ redemption'.requestedAmount = redemption.requestedAmount
        /\ redemption'.refundedAmount = redemption.refundedAmount + amounts.refunded
        /\ redemption'.ownerFee = redemption.ownerFee + ChargedOwnerFee(amounts)
        /\ saved' = saved
  <2> DEFINE s == safesOrderedForRedemption.head
             safe == UpdatedSafe(s)
             wanted == redemption.requestedAmount - redemption.redeemedAmount
             amounts == RedemptionAmounts(safe, wanted, redemption.price)
             toOwner == IF amounts.refunded > amounts.ownerFee
                          THEN amounts.refunded - amounts.ownerFee ELSE 0
  <2>1. /\ redemption.phase = "redeeming" /\ s # 0
        /\ redemption.redeemedAmount < redemption.requestedAmount
        /\ Redeemable(safe, redemption.price)
        /\ Credit(toOwner, -toOwner, 0, 0)
        /\ redemption' =
             [redemption EXCEPT !.redeemedAmount = @ + amounts.redeemed + amounts.refunded,
                                !.refundedAmount = @ + amounts.refunded,
                                !.processedSpots = @ + 1,
                                !.collateralAmount = @ + amounts.collateral - amounts.redeemerFee,
                                !.ownerFee = @ + ChargedOwnerFee(amounts),
                                !.redeemerFee = @ + amounts.redeemerFee]
        /\ saved' = saved
    BY Zenon DEF RedeemNode, CanRedeemNode, ToOwner, Wanted
  <2>2. s \in Safes
    <3>1. s \in Slots
      BY DEF Inv, QueuesSound, ListType
    <3>2. QED
      BY <2>1, <3>1, MaxIdAssumption DEF Slots, Safes, Ids
  <2>3. safe \in Safe
    BY <2>2, UpdatedType DEF Inv
  <2>4. redemption \in RedemptionType /\ redemption.price \in Nat \ {0} /\ wanted \in Nat
    BY <2>1 DEF Inv, RedemptionSound, RedemptionType
  <2> HIDE DEF safe, wanted
  <2>5. amounts.refunded \in Nat /\ amounts.ownerFee \in Nat
    BY <2>1, <2>3, <2>4, RedemptionAmountsType
  <2> HIDE DEF amounts
  <2>6. /\ redemption'.phase = "redeeming"
        /\ redemption'.requestedAmount = redemption.requestedAmount
        /\ redemption'.refundedAmount = redemption.refundedAmount + amounts.refunded
        /\ redemption'.ownerFee = redemption.ownerFee + ChargedOwnerFee(amounts)
    BY <2>1, <2>4 DEF RedemptionType
  <2>7. QED
    BY <2>1, <2>5, <2>6
<1>2. /\ sbd \in [Accounts -> Nat] /\ sbd.cdp \in Nat
      /\ redemption.requestedAmount \in Nat /\ redemption.refundedAmount \in Nat
      /\ redemption.ownerFee \in Nat
  BY BalanceType DEF Inv, MoneySound, RedemptionSound, RedemptionType
<1>3. sbd'.cdp = sbd.cdp + (-toOwner)
  BY <1>1, <1>2 DEF Credit, Accounts
<1>4. ChargedOwnerFee(amounts) \in Nat /\ toOwner \in Nat
      /\ toOwner + ChargedOwnerFee(amounts) >= amounts.refunded
  BY <1>1 DEF ChargedOwnerFee
<1>5. sbd.cdp + redemption.refundedAmount <= redemption.requestedAmount + redemption.ownerFee
      /\ saved.sbd.cdp = 0
  BY <1>1 DEF FundsSound
<1>6. sbd'.cdp + redemption'.refundedAmount <= redemption'.requestedAmount + redemption'.ownerFee
  BY <1>1, <1>2, <1>3, <1>4, <1>5
<1>7. QED
  BY <1>1, <1>5, <1>6 DEF FundsSound

\* Every step keeps the bound on what the CDP holds; settling leaves nothing.
LEMMA FundsStep == Inv /\ FundsSound /\ [Next]_vars => FundsSound'
<1> SUFFICES ASSUME Inv, FundsSound, [Next]_vars PROVE FundsSound'
  OBVIOUS
<1>1. /\ sbd \in [Accounts -> Nat] /\ sbd.cdp \in Nat
      /\ redemption.requestedAmount \in Nat /\ redemption.refundedAmount \in Nat
      /\ redemption.ownerFee \in Nat /\ redemption.redeemedAmount \in Nat
  BY BalanceType DEF Inv, MoneySound, RedemptionSound, RedemptionType
<1>2. CASE OwnerCall \/ LiquidationCall \/ StakingCall \/ PriceChange \/ UNCHANGED vars
  BY <1>2, CallsLeaveCdp DEF FundsSound
<1>3. CASE RedeemCall
  <2>1. PICK amount \in RedeemAmounts, hint \in Hints : Redeem(amount, hint)
    BY <1>3 DEF RedeemCall
  <2>2. /\ redemption.phase = "idle" /\ Credit(-amount, amount, 0, 0)
        /\ redemption' = [NoRedemption EXCEPT !.phase = "redeeming", !.requestedAmount = amount,
                                              !.price = price, !.hint = hint]
        /\ saved' = Storage
    BY <2>1 DEF Redeem, CanRedeem
  <2>3. amount \in Nat /\ sbd.cdp = 0
    BY <2>2, StableBaseCDPAssumption DEF FundsSound
  <2>4. sbd'.cdp = sbd.cdp + amount
    BY <1>1, <2>2 DEF Credit, Accounts
  <2>5. /\ redemption'.phase = "redeeming" /\ redemption'.requestedAmount = amount
        /\ redemption'.refundedAmount = 0 /\ redemption'.ownerFee = 0
    BY <2>2 DEF NoRedemption
  <2>6. saved'.sbd = sbd
    BY <2>2 DEF Storage
  <2>7. sbd'.cdp + 0 <= amount + 0
    BY <2>3, <2>4
  <2>8. QED
    BY <2>3, <2>5, <2>6, <2>7 DEF FundsSound
<1>4. CASE RedeemNode
  BY <1>4, RefundsAreSpent
<1>5. CASE RedeemToUser
  <2>1. PICK public, pool : Credit(public, -redemption.ownerFee, pool, 0)
    BY <1>5 DEF RedeemToUser, CanRedeemToUser
  <2>2. /\ redemption.phase = "redeeming" /\ saved' = saved
        /\ redemption' = [redemption EXCEPT !.phase = "paid"]
    BY <1>5 DEF RedeemToUser, CanRedeemToUser
  <2>3. sbd'.cdp = sbd.cdp + (-redemption.ownerFee)
    BY <1>1, <2>1 DEF Credit, Accounts
  <2>4. /\ redemption'.phase = "paid"
        /\ redemption'.requestedAmount = redemption.requestedAmount
        /\ redemption'.refundedAmount = redemption.refundedAmount
    BY <2>2 DEF Inv, RedemptionSound, RedemptionType
  <2>5. sbd.cdp + redemption.refundedAmount <= redemption.requestedAmount + redemption.ownerFee
        /\ saved.sbd.cdp = 0
    BY <2>2 DEF FundsSound
  <2>6. sbd'.cdp + redemption.refundedAmount <= redemption.requestedAmount
    BY <1>1, <2>3, <2>5
  <2>7. QED
    BY <2>2, <2>4, <2>5, <2>6 DEF FundsSound
<1>6. CASE RedeemSettle
  <2>1. /\ redemption.phase = "paid" /\ redemption.redeemedAmount = redemption.requestedAmount
        /\ ToBurn <= sbd.cdp /\ Credit(0, -ToBurn, 0, 0) /\ redemption' = NoRedemption
    BY <1>6 DEF RedeemSettle, CanRedeemSettle
  <2>2. sbd'.cdp = sbd.cdp + (-ToBurn)
    BY <1>1, <2>1 DEF Credit, Accounts
  <2>3. sbd.cdp + redemption.refundedAmount <= redemption.requestedAmount
    BY <2>1 DEF FundsSound
  <2>4. sbd'.cdp = 0
    BY <1>1, <2>1, <2>2, <2>3 DEF ToBurn
  <2>5. QED
    BY <2>1, <2>4 DEF FundsSound, NoRedemption
<1>7. CASE RedeemRevert
  BY <1>7 DEF RedeemRevert, FundsSound, NoRedemption
<1>8. QED
  BY <1>2, <1>3, <1>4, <1>5, <1>6, <1>7 DEF Next, Call, RedemptionStep

\* Between redemptions the CDP holds no DFID: whatever a redeemer handed over was
\* burned, refunded or paid as a fee, although the owner's fee is computed in one
\* place and paid in another.
THEOREM RedemptionLeavesNothing == Spec => []NothingStuck
<1>1. Init => FundsSound
  BY DEF Init, FundsSound, NoRedemption, Accounts
<1>2. Inv /\ FundsSound /\ [Next]_vars => FundsSound'
  BY FundsStep
<1>3. FundsSound => NothingStuck
  BY DEF FundsSound, NothingStuck
<1>4. QED
  BY <1>1, <1>2, <1>3, Invariance, PTL DEF Spec

-----------------------------------------------------------------------------
(* The places of the Safes. *)

\* List l is linked, and a Safe of it that has a weight has that value.
PlacesIn(l, ss) ==
  \E n \in 0 .. MaxId : \E q \in [1 .. n -> Ids] :
    /\ LinkedAs(l, n, q)
    /\ \A k \in 1 .. n : ss[q[k]].weight > 0 => l.nodes[q[k]].value = ss[q[k]].weight

QueueInv ==
  /\ PlacesIn(safesOrderedForRedemption, safes)
  /\ redemption.phase # "idle" => PlacesIn(saved.safesOrderedForRedemption, saved.safes)
  /\ redemption.processedSpots <= MaxId
  /\ redemption.phase = "redeeming" /\ redemption.redeemedAmount < redemption.requestedAmount =>
       redemption.processedSpots + Cardinality(Members(safesOrderedForRedemption)) <= MaxId

\* A bounded description of the places, of any length and order.
LEMMA PlacesAre ==
  ASSUME NEW l, NEW ss, NEW n \in Nat, NEW q, LinkedAs(l, n, q),
         \A k \in 1 .. n : ss[q[k]].weight > 0 => l.nodes[q[k]].value = ss[q[k]].weight
  PROVE  PlacesIn(l, ss)
<1>1. q \in [1 .. n -> Ids] /\ \A i, j \in 1 .. n : q[i] = q[j] => i = j
  BY DEF LinkedAs, Linked
<1>2. n \in 0 .. MaxId
  BY <1>1, RoomForNodes
<1>3. QED
  BY <1>1, <1>2 DEF PlacesIn

\* A Safe that keeps its weight, or has none any more, keeps its place.
LEMMA PlacesLeft ==
  ASSUME NEW l, NEW ss, NEW tt, PlacesIn(l, ss),
         \A s \in Ids : tt[s].weight = ss[s].weight \/ tt[s].weight = 0
  PROVE  PlacesIn(l, tt)
<1>1. PICK n \in 0 .. MaxId : \E q \in [1 .. n -> Ids] :
        /\ LinkedAs(l, n, q)
        /\ \A k \in 1 .. n : ss[q[k]].weight > 0 => l.nodes[q[k]].value = ss[q[k]].weight
  BY DEF PlacesIn
<1>2. PICK q \in [1 .. n -> Ids] :
        /\ LinkedAs(l, n, q)
        /\ \A k \in 1 .. n : ss[q[k]].weight > 0 => l.nodes[q[k]].value = ss[q[k]].weight
  BY <1>1
<1>3. \A k \in 1 .. n : tt[q[k]].weight > 0 => l.nodes[q[k]].value = tt[q[k]].weight
  BY <1>2
<1>4. n \in Nat
  OBVIOUS
<1>5. QED
  BY <1>2, <1>3, <1>4, PlacesAre

\* A Safe that is taken out of the queue is not in it, and the others keep their places.
LEMMA PlacesRemoved ==
  ASSUME NEW l \in ListType, NEW ss, NEW tt, PlacesIn(l, ss), NEW id \in Ids,
         \A s \in Ids \ {id} : tt[s].weight = ss[s].weight
  PROVE  /\ PlacesIn(Removed(l, id), tt)
         /\ id \notin Members(Removed(l, id))
         /\ id \in Members(l) =>
              Cardinality(Members(Removed(l, id))) + 1 = Cardinality(Members(l))
<1>1. PICK n \in 0 .. MaxId : \E q \in [1 .. n -> Ids] :
        /\ LinkedAs(l, n, q)
        /\ \A k \in 1 .. n : ss[q[k]].weight > 0 => l.nodes[q[k]].value = ss[q[k]].weight
  BY DEF PlacesIn
<1>2. PICK q \in [1 .. n -> Ids] :
        /\ LinkedAs(l, n, q)
        /\ \A k \in 1 .. n : ss[q[k]].weight > 0 => l.nodes[q[k]].value = ss[q[k]].weight
  BY <1>1
<1>3. n \in Nat
  OBVIOUS
<1> DEFINE l1 == Removed(l, id)
<1>4. PICK m \in Nat : \E r :
           /\ Relinked(l, n, q, id, l1, m, r)
           /\ \A i \in 1 .. m : r[i] # id
           /\ (\E j \in 1 .. n : q[j] = id) => m = n - 1
           /\ Positive(l, n, q) => Positive(l1, m, r)
  <2>1. Linked(l, n, q)
    BY <1>2 DEF LinkedAs
  <2>2. HeadSeen(l)
    BY <1>2, <1>3, PositiveHeadSeen
  <2>3. QED
    BY <1>3, <2>1, <2>2, RemovedRelinks
<1>5. PICK r :
           /\ Relinked(l, n, q, id, l1, m, r)
           /\ \A i \in 1 .. m : r[i] # id
           /\ (\E j \in 1 .. n : q[j] = id) => m = n - 1
           /\ Positive(l, n, q) => Positive(l1, m, r)
  BY <1>4
<1>6. /\ LinkedAs(l1, m, r)
      /\ \A k \in 1 .. m : r[k] # id /\ \E j \in 1 .. n : r[k] = q[j]
      /\ \A s \in Ids \ {id} : l1.nodes[s].value = l.nodes[s].value
      /\ (\E j \in 1 .. n : q[j] = id) => m = n - 1
  BY <1>2, <1>5 DEF Relinked, LinkedAs
<1> HIDE DEF l1
<1>7. \A k \in 1 .. m : tt[r[k]].weight > 0 => l1.nodes[r[k]].value = tt[r[k]].weight
  <2>1. TAKE k \in 1 .. m
  <2>2. PICK j \in 1 .. n : r[k] = q[j]
    BY <1>6
  <2>3. r[k] \in Ids \ {id}
    BY <1>2, <1>6, <2>2
  <2>4. QED
    BY <1>2, <1>6, <2>2, <2>3
<1>8. PlacesIn(l1, tt)
  BY <1>6, <1>7, PlacesAre
<1>9. l1 \in ListType
  BY RemovedType DEF l1
<1>10. /\ Members(l) = {q[k] : k \in 1 .. n} /\ Cardinality(Members(l)) = n
      /\ Members(l1) = {r[k] : k \in 1 .. m} /\ Cardinality(Members(l1)) = m
  BY <1>3, <1>2, <1>6, <1>9, ChainOfLinked DEF LinkedAs
<1>11. id \notin Members(l1)
  BY <1>6, <1>10
<1>12. id \in Members(l) => m + 1 = n
  BY <1>6, <1>10
<1>13. QED
  BY <1>8, <1>10, <1>11, <1>12 DEF l1

\* A Safe that is put into the queue by its weight stands there, and the others
\* keep their places.
LEMMA PlacesUpserted ==
  ASSUME NEW l \in ListType, NEW ss, NEW tt, PlacesIn(l, ss), NEW id \in Ids,
         \A s \in Ids \ {id} : tt[s].weight = ss[s].weight,
         NEW v \in Nat, tt[id].weight = v, NEW hint \in Slots,
         NEW k, k = Upserted(l, id, v, hint), k.head # 0 => k.nodes[k.head].value > 0
  PROVE  PlacesIn(k, tt)
<1>1. PICK n \in Nat : \E q :
        /\ LinkedAs(l, n, q)
        /\ \A i \in 1 .. n : ss[q[i]].weight > 0 => l.nodes[q[i]].value = ss[q[i]].weight
  <2>1. \A n \in 0 .. MaxId : n \in Nat
    OBVIOUS
  <2>2. QED
    BY <2>1 DEF PlacesIn
<1>2. PICK q :
        /\ LinkedAs(l, n, q)
        /\ \A i \in 1 .. n : ss[q[i]].weight > 0 => l.nodes[q[i]].value = ss[q[i]].weight
  BY <1>1
<1>3. Linked(l, n, q)
  BY <1>2 DEF LinkedAs
<1>4. PICK m \in Nat : \E r : Relinked(l, n, q, id, k, m, r) /\ k.nodes[id].value = v
  <2>1. HeadSeen(l)
    BY <1>2, PositiveHeadSeen
  <2>2. \E m \in Nat : \E r : /\ Relinked(l, n, q, id, k, m, r)
                              /\ k.nodes[id].value = v
                              /\ \E i \in 1 .. m : r[i] = id
    BY <1>3, <2>1, UpsertedRelinks
  <2>3. QED
    BY <2>2
<1>5. PICK r : Relinked(l, n, q, id, k, m, r) /\ k.nodes[id].value = v
  BY <1>4
<1> k \in ListType
  BY UpsertedType
<1>6. /\ LinkedAs(k, m, r)
      /\ \A i \in 1 .. m : r[i] = id \/ \E j \in 1 .. n : r[i] = q[j]
      /\ k.nodes[id].value = v
      /\ \A s \in Ids \ {id} : k.nodes[s].value = l.nodes[s].value
  BY <1>5, FirstIsLeast DEF Relinked
<1>7. \A i \in 1 .. m : tt[r[i]].weight > 0 => k.nodes[r[i]].value = tt[r[i]].weight
  <2>1. TAKE i \in 1 .. m
  <2>2. CASE r[i] = id
    BY <1>6, <2>2
  <2>3. CASE r[i] # id
    <3>1. PICK j \in 1 .. n : r[i] = q[j]
      BY <1>6, <2>3
    <3>2. r[i] \in Ids \ {id}
      BY <1>3, <2>3, <3>1 DEF Linked
    <3>3. QED
      BY <1>2, <1>6, <3>1, <3>2
  <2>4. QED
    BY <2>2, <2>3
<1>8. QED
  BY <1>6, <1>7, PlacesAre

\* What the places say: the queue is sorted, and goes by the weights.
LEMMA PlacesAreInOrder ==
  ASSUME safesOrderedForRedemption \in ListType, PlacesIn(safesOrderedForRedemption, safes)
  PROVE  RedemptionOrder
<1> DEFINE l == safesOrderedForRedemption
<1>1. PICK n \in 0 .. MaxId : \E q \in [1 .. n -> Ids] :
        /\ LinkedAs(l, n, q)
        /\ \A k \in 1 .. n : safes[q[k]].weight > 0 => l.nodes[q[k]].value = safes[q[k]].weight
  BY DEF PlacesIn
<1>2. PICK q \in [1 .. n -> Ids] :
        /\ LinkedAs(l, n, q)
        /\ \A k \in 1 .. n : safes[q[k]].weight > 0 => l.nodes[q[k]].value = safes[q[k]].weight
  BY <1>1
<1>3. n \in Nat
  OBVIOUS
<1>4. /\ Chain(l) = q /\ Members(l) = {q[k] : k \in 1 .. n} /\ Cardinality(Members(l)) = n
  BY <1>3, <1>2, ChainOfLinked DEF LinkedAs
<1>5. ASSUME NEW k \in 1 .. n - 1
      PROVE  /\ l.nodes[q[k]].value <= l.nodes[q[k + 1]].value
             /\ l.nodes[q[k + 1]].prev = q[k]
  <2>1. k \in 1 .. n /\ k + 1 \in 1 .. n /\ k <= k + 1 /\ k + 1 # 1 /\ (k + 1) - 1 = k
    OBVIOUS
  <2>2. QED
    BY <1>2, <2>1 DEF LinkedAs, Linked
<1>6. InOrder(l)
  BY <1>4, <1>5 DEF InOrder
<1>7. QED
  BY <1>2, <1>4, <1>6 DEF RedemptionOrder

\* What a call on Safe s that leaves it as safe does to the redemption queue: the
\* Safe keeps its place and its weight, or loses the weight; it leaves the queue,
\* as it does when its debt is gone; or it takes the place of its weight.
Requeues(s, safe) ==
  /\ safes' = [safes EXCEPT ![s] = safe]
  /\ \/ /\ safesOrderedForRedemption' = safesOrderedForRedemption
        /\ safe.weight = safes[s].weight \/ safe.weight = 0
     \/ safesOrderedForRedemption' = Removed(safesOrderedForRedemption, s)
     \/ \E hint \in Slots :
          /\ safe.weight \in Nat
          /\ safesOrderedForRedemption' =
               Upserted(safesOrderedForRedemption, s, safe.weight, hint)
  /\ safes[s].borrowedAmount > 0 /\ safe.borrowedAmount = 0 =>
       safesOrderedForRedemption' = Removed(safesOrderedForRedemption, s)

\* A Safe's update changes no weight, and takes no debt away.
LEMMA UpdatedWeight ==
  ASSUME Inv, NEW s \in Safes
  PROVE  /\ UpdatedSafe(s) \in Safe /\ safes[s] \in Safe
         /\ UpdatedSafe(s).weight = safes[s].weight /\ safes[s].weight \in Nat
         /\ safes[s].borrowedAmount \in Nat
         /\ UpdatedSafe(s).borrowedAmount \in Nat
         /\ UpdatedSafe(s).borrowedAmount >= safes[s].borrowedAmount
<1>1. /\ DebtIncrease(s) \in Nat /\ UpdatedSafe(s) \in Safe /\ safes[s] \in Safe
      /\ UpdatedSafe(s).borrowedAmount = safes[s].borrowedAmount + DebtIncrease(s)
  BY UpdatedType DEF Inv
<1>2. UpdatedSafe(s).weight = safes[s].weight
  BY <1>1 DEF UpdatedSafe, Safe
<1>3. safes[s].weight \in Nat /\ safes[s].borrowedAmount \in Nat
  BY <1>1 DEF Safe
<1>4. QED
  BY <1>1, <1>2, <1>3

\* The calls of a Safe's owner.
LEMMA OwnerRequeues ==
  ASSUME Inv, NEW s \in Safes,
         \/ \E amount \in Collaterals : OpenSafe(s, amount)
         \/ CloseSafe(s)
         \/ \E amount \in Debts, rate \in ShieldingRates, hintL, hintR \in Hints :
              Borrow(s, amount, rate, hintL, hintR)
         \/ \E amount \in Debts, hint \in Hints : Repay(s, amount, hint)
         \/ \E amount \in Collaterals, hint \in Hints : AddCollateral(s, amount, hint)
         \/ \E amount \in Collaterals, hint \in Hints : WithdrawCollateral(s, amount, hint)
         \/ \E hint \in Hints : AdjustPosition(s, hint)
         \/ \E rate \in ShieldingRates, hint \in Hints : FeeTopup(s, rate, hint)
  PROVE  \E safe : Requeues(s, safe)
<1>1. /\ UpdatedSafe(s) \in Safe /\ safes[s] \in Safe
      /\ UpdatedSafe(s).weight = safes[s].weight /\ safes[s].weight \in Nat
      /\ safes[s].borrowedAmount \in Nat /\ UpdatedSafe(s).borrowedAmount \in Nat
      /\ UpdatedSafe(s).borrowedAmount >= safes[s].borrowedAmount
  BY UpdatedWeight
<1>2. ASSUME NEW amount \in Collaterals, OpenSafe(s, amount)
      PROVE  \E safe : Requeues(s, safe)
  <2>1. PICK safe : safe = [NullSafe EXCEPT !.collateralAmount = amount]
    OBVIOUS
  <2>2. /\ safes' = [safes EXCEPT ![s] = safe] /\ s \notin minted
        /\ safesOrderedForRedemption' = safesOrderedForRedemption
    BY <1>2, <2>1 DEF OpenSafe, CanOpenSafe, queues
  <2>3. safe.weight = 0 /\ safes[s].borrowedAmount = 0
    BY <2>1, <2>2 DEF Inv, MintedSound, NullSafe
  <2>4. Requeues(s, safe)
    BY <2>2, <2>3 DEF Requeues
  <2>5. QED
    BY <2>4
<1>3. ASSUME CloseSafe(s)
      PROVE  \E safe : Requeues(s, safe)
  <2>1. /\ safes' = [safes EXCEPT ![s] = NullSafe] /\ UpdatedSafe(s).borrowedAmount = 0
        /\ safesOrderedForRedemption' = safesOrderedForRedemption
    BY <1>3 DEF CloseSafe, CanCloseSafe, WriteSafe, queues
  <2>2. NullSafe.weight = 0 /\ safes[s].borrowedAmount = 0
    BY <1>1, <2>1 DEF NullSafe
  <2>3. Requeues(s, NullSafe)
    BY <2>1, <2>2 DEF Requeues
  <2>4. QED
    BY <2>3
<1>4. ASSUME NEW amount \in Debts, NEW rate \in ShieldingRates, NEW hintL \in Hints,
             NEW hintR \in Hints, Borrow(s, amount, rate, hintL, hintR)
      PROVE  \E safe : Requeues(s, safe)
  <2> DEFINE was == UpdatedSafe(s)
             weight == BorrowWeight(was, amount, rate)
             fee == ShieldingFee(amount, rate)
  <2>1. PICK safe : safe = [was EXCEPT !.weight = weight, !.borrowedAmount = @ + amount,
                                       !.totalBorrowedAmount = @ + amount, !.feePaid = @ + fee]
    OBVIOUS
  <2>2. /\ was.borrowedAmount # 0 => was.weight >= MinimumWeight
        /\ safesOrderedForRedemption' = Upserted(safesOrderedForRedemption, s, weight, hintR)
        /\ WriteSafe(s, safe)
    BY <1>4, <2>1, Zenon DEF Borrow, CanBorrow
  <2>3. amount \in Nat \ {0} /\ rate \in Nat /\ hintR \in Slots
    BY StableBaseCDPAssumption
  <2>4. weight \in Nat
    BY <1>1, <2>2, <2>3, BorrowWeightType DEF Inv
  <2> HIDE DEF weight, fee
  <2>5. safe.weight = weight /\ safe.borrowedAmount = was.borrowedAmount + amount
    BY <1>1, <2>1 DEF Safe
  <2>6. safe.borrowedAmount # 0
    BY <1>1, <2>3, <2>5
  <2>7. Requeues(s, safe)
    BY <2>2, <2>3, <2>4, <2>5, <2>6 DEF Requeues, WriteSafe
  <2>8. QED
    BY <2>7
<1>5. ASSUME NEW amount \in Debts, NEW hint \in Hints, Repay(s, amount, hint)
      PROVE  \E safe : Requeues(s, safe)
  <2> DEFINE was == UpdatedSafe(s)
  <2>1. PICK safe, ratio :
          /\ safe = [was EXCEPT !.borrowedAmount = @ - amount]
          /\ ratio = Ratio(safe.borrowedAmount, safe.collateralAmount)
    OBVIOUS
  <2>2. /\ was.collateralAmount > 0
        /\ WriteSafe(s, safe)
        /\ \/ ratio # 0 /\ safesOrderedForRedemption' = safesOrderedForRedemption
           \/ safesOrderedForRedemption' = Removed(safesOrderedForRedemption, s)
    BY <1>5, <2>1, Zenon DEF Repay, CanRepay
  <2>3. safe.weight = was.weight /\ safe.collateralAmount = was.collateralAmount
    BY <1>1, <2>1 DEF Safe
  <2>4. safe.borrowedAmount = 0 => ratio = 0
    <3>1. was.collateralAmount \in Nat
      BY <1>1 DEF Safe
    <3>2. \A c \in Nat \ {0} : (0 * PRECISION) \div c = 0
      BY StableBaseAssumption
    <3>3. QED
      BY <2>1, <2>2, <2>3, <3>1, <3>2 DEF Ratio
  <2>5. Requeues(s, safe)
    BY <1>1, <2>2, <2>3, <2>4 DEF Requeues, WriteSafe
  <2>6. QED
    BY <2>5
<1>6. ASSUME NEW moved, Move(s, moved),
             \/ safesOrderedForRedemption' = safesOrderedForRedemption
             \/ safesOrderedForRedemption' = Removed(safesOrderedForRedemption, s)
      PROVE  \E safe : Requeues(s, safe)
  <2>1. PICK safe : safe = [UpdatedSafe(s) EXCEPT !.collateralAmount = @ + moved]
    OBVIOUS
  <2>2. WriteSafe(s, safe)
    BY <1>6, <2>1 DEF Move
  <2>3. /\ safe.weight = safes[s].weight
        /\ safe.borrowedAmount = UpdatedSafe(s).borrowedAmount
    BY <1>1, <2>1 DEF Safe
  <2>4. safes[s].borrowedAmount > 0 => safe.borrowedAmount # 0
    BY <1>1, <2>3
  <2>5. Requeues(s, safe)
    BY <1>6, <2>2, <2>3, <2>4 DEF Requeues, WriteSafe
  <2>6. QED
    BY <2>5
<1>7. ASSUME NEW rate \in ShieldingRates, NEW hint \in Hints, FeeTopup(s, rate, hint)
      PROVE  \E safe : Requeues(s, safe)
  <2> DEFINE was == UpdatedSafe(s)
             fee == ShieldingFee(was.borrowedAmount, rate)
             weight == was.weight + rate
  <2>1. PICK safe : safe = [was EXCEPT !.weight = weight, !.feePaid = @ + fee]
    OBVIOUS
  <2>2. /\ safesOrderedForRedemption' = Upserted(safesOrderedForRedemption, s, weight, hint)
        /\ WriteSafe(s, safe)
    BY <1>7, <2>1, Zenon DEF FeeTopup, CanTopupFee
  <2>3. rate \in Nat /\ hint \in Slots
    BY StableBaseCDPAssumption
  <2>4. weight \in Nat
    BY <1>1, <2>3
  <2> HIDE DEF weight, fee
  <2>5. safe.weight = weight /\ safe.borrowedAmount = was.borrowedAmount
    BY <1>1, <2>1 DEF Safe
  <2>6. safes[s].borrowedAmount > 0 => safe.borrowedAmount # 0
    BY <1>1, <2>5
  <2>7. Requeues(s, safe)
    BY <2>2, <2>3, <2>4, <2>5, <2>6 DEF Requeues, WriteSafe
  <2>8. QED
    BY <2>7
<1>8. ASSUME NEW amount, NEW hint, AddCollateral(s, amount, hint)
      PROVE  \E safe : Requeues(s, safe)
  BY <1>6, <1>8 DEF AddCollateral, Reorder
<1>9. ASSUME NEW amount, NEW hint, WithdrawCollateral(s, amount, hint)
      PROVE  \E safe : Requeues(s, safe)
  BY <1>6, <1>9 DEF WithdrawCollateral, Reorder
<1>10. ASSUME NEW hint, AdjustPosition(s, hint)
       PROVE  \E safe : Requeues(s, safe)
  BY <1>6, <1>10 DEF AdjustPosition, Reorder
<1>11. QED
  BY <1>2, <1>3, <1>4, <1>5, <1>7, <1>8, <1>9, <1>10

\* A liquidation.
LEMMA LiquidationRequeues ==
  ASSUME Inv, LiquidationCall
  PROVE  \E s \in Safes : \E safe : Requeues(s, safe)
<1>1. PICK gas \in GasCosts : Liquidate(gas) \/ \E s \in Safes : LiquidateSafe(s, gas)
  BY DEF LiquidationCall
<1>2. \E s \in Safes : LiquidateSafe(s, gas)
  <2>1. CASE Liquidate(gas)
    <3>1. /\ safesOrderedForLiquidation.tail # 0
          /\ LiquidateSafe(safesOrderedForLiquidation.tail, gas)
      BY <2>1 DEF Liquidate
    <3>2. safesOrderedForLiquidation.tail \in Slots
      BY DEF Inv, QueuesSound, ListType
    <3>3. safesOrderedForLiquidation.tail \in Safes
      BY <3>1, <3>2, MaxIdAssumption DEF Safes, Ids, Slots
    <3>4. QED
      BY <3>1, <3>3
  <2>2. QED
    BY <1>1, <2>1
<1>3. PICK s \in Safes : LiquidateSafe(s, gas)
  BY <1>2
<1>4. /\ WriteSafe(s, NullSafe)
      /\ safesOrderedForRedemption' = Removed(safesOrderedForRedemption, s)
  BY <1>3, Zenon DEF LiquidateSafe
<1>5. Requeues(s, NullSafe)
  BY <1>4 DEF Requeues, WriteSafe
<1>6. QED
  BY <1>5

\* A call on one Safe keeps the places, if the place it gives is one of a value above 0.
LEMMA RequeuedPlaces ==
  ASSUME Inv, PlacesIn(safesOrderedForRedemption, safes), PlacesPaid',
         NEW s \in Safes, NEW safe, Requeues(s, safe)
  PROVE  /\ PlacesIn(safesOrderedForRedemption, safes)'
         /\ \A t \in Safes : safes[t].borrowedAmount > 0 /\ safes'[t].borrowedAmount = 0 =>
              t \notin Members(safesOrderedForRedemption')
<1> DEFINE l == safesOrderedForRedemption
<1>1. /\ safes' = [safes EXCEPT ![s] = safe]
      /\ \/ l' = l /\ (safe.weight = safes[s].weight \/ safe.weight = 0)
         \/ l' = Removed(l, s)
         \/ \E hint \in Slots : safe.weight \in Nat /\ l' = Upserted(l, s, safe.weight, hint)
      /\ safes[s].borrowedAmount > 0 /\ safe.borrowedAmount = 0 => l' = Removed(l, s)
  BY DEF Requeues
<1>2. l \in ListType /\ safes \in [Ids -> Safe] /\ s \in Ids
  BY DEF Inv, QueuesSound, SafesSound, Safes
<1>3. safes'[s] = safe /\ \A t \in Ids \ {s} : safes'[t] = safes[t]
  BY <1>1, <1>2
<1>4. l'.head # 0 => l'.nodes[l'.head].value > 0
  BY DEF PlacesPaid, MinimumWeight
<1>5. PlacesIn(l, safes)
  OBVIOUS
<1>6. ASSUME NEW k, NEW ss, k = l', ss = safes'
      PROVE  PlacesIn(k, ss) /\ (k = Removed(l, s) => s \notin Members(k))
  <2>1. ss[s] = safe /\ \A t \in Ids \ {s} : ss[t].weight = safes[t].weight
    BY <1>3, <1>6
  <2>2. k.head # 0 => k.nodes[k.head].value > 0
    BY <1>4, <1>6
  <2>3. \/ k = l /\ (safe.weight = safes[s].weight \/ safe.weight = 0)
        \/ k = Removed(l, s)
        \/ \E hint \in Slots : safe.weight \in Nat /\ k = Upserted(l, s, safe.weight, hint)
    BY <1>1, <1>6
  <2> HIDE DEF l
  <2>4. k = Removed(l, s) => s \notin Members(k) /\ PlacesIn(k, ss)
    BY <1>2, <1>5, <2>1, PlacesRemoved
  <2>5. CASE k = l /\ (safe.weight = safes[s].weight \/ safe.weight = 0)
    <3>1. \A t \in Ids : ss[t].weight = safes[t].weight \/ ss[t].weight = 0
      BY <2>1, <2>5
    <3>2. QED
      BY <1>5, <2>4, <2>5, <3>1, PlacesLeft
  <2>6. CASE \E hint \in Slots : safe.weight \in Nat /\ k = Upserted(l, s, safe.weight, hint)
    <3>1. PICK hint \in Slots : safe.weight \in Nat /\ k = Upserted(l, s, safe.weight, hint)
      BY <2>6
    <3>2. PICK v \in Nat : v = safe.weight
      BY <3>1
    <3>3. k = Upserted(l, s, v, hint) /\ ss[s].weight = v
      BY <2>1, <3>1, <3>2
    <3>4. PlacesIn(k, ss)
      BY ONLY <1>2, <1>5, <2>1, <2>2, <3>2, <3>3, hint \in Slots, PlacesUpserted
    <3>5. QED
      BY <2>4, <3>4
  <2>7. QED
    BY <2>3, <2>4, <2>5, <2>6
<1>7. PlacesIn(l', safes') /\ (l' = Removed(l, s) => s \notin Members(l'))
  BY <1>6
<1>8. ASSUME NEW t \in Safes, safes[t].borrowedAmount > 0 /\ safes'[t].borrowedAmount = 0
      PROVE  t \notin Members(l')
  <2>1. t = s
    <3>1. SUFFICES ASSUME t # s PROVE FALSE
      OBVIOUS
    <3>2. safes'[t] = safes[t]
      BY <1>3, <3>1 DEF Safes
    <3>3. QED
      BY <1>8, <3>2
  <2>2. QED
    BY <1>1, <1>3, <1>7, <1>8, <2>1
<1>9. QED
  BY <1>7, <1>8

\* Only a call of an owner and a liquidation touch the Safes or their places,
\* beside a redemption.
LEMMA OthersLeavePlaces ==
  ASSUME StakingCall \/ PriceChange \/ RedeemCall \/ RedeemToUser \/ RedeemSettle \/ UNCHANGED vars
  PROVE  safes' = safes /\ safesOrderedForRedemption' = safesOrderedForRedemption
<1>1. CASE StakingCall
  BY <1>1 DEF StakingCall, PoolStake, PoolUnstake, DfireStake, DfireUnstake, UnchangedByStaking,
              queues
<1>2. CASE PriceChange
  BY <1>2 DEF PriceChange, SetPrice, queues
<1>3. CASE RedeemCall
  BY <1>3 DEF RedeemCall, Redeem, queues
<1>4. CASE RedeemToUser
  BY <1>4 DEF RedeemToUser, queues
<1>5. CASE RedeemSettle
  BY <1>5 DEF RedeemSettle, queues
<1>6. CASE UNCHANGED vars
  BY <1>6 DEF vars, queues
<1>7. QED
  BY <1>1, <1>2, <1>3, <1>4, <1>5, <1>6

\* A Safe that an iteration leaves in the queue is one that covers what is wanted.
LEMMA StaysOnlyIfCovered ==
  ASSUME NEW safe \in Safe, NEW wanted \in Nat \ {0}, NEW at \in Nat \ {0}, Redeemable(safe, at),
         NEW amounts, amounts = RedemptionAmounts(safe, wanted, at),
         NEW redeemed, redeemed = RedeemedSafe(safe, amounts),
         ~RedeemedEmpty(redeemed, BorrowMode(safe)), redeemed.collateralAmount > 0
  PROVE  amounts.redeemed + amounts.refunded = wanted
<1> DEFINE value == CollateralValue(safe, at)
           mode == BorrowMode(safe)
           whole == ~mode /\ wanted >= value
           part == ~mode /\ wanted < value /\ wanted >= safe.borrowedAmount
           taken == IF whole \/ wanted >= safe.borrowedAmount THEN safe.borrowedAmount ELSE wanted
           back == IF whole THEN value - taken ELSE IF part THEN wanted - taken ELSE 0
<1>1. /\ amounts.redeemed = taken /\ amounts.refunded = back
      /\ whole => amounts.collateral = safe.collateralAmount
  BY DEF RedemptionAmounts
<1>2. /\ safe.borrowedAmount \in Nat /\ safe.collateralAmount \in Nat /\ value \in Int
      /\ mode \in BOOLEAN
  <2>1. \A c, p \in Nat : (c * p) \div PRECISION \in Int
    BY StableBaseAssumption
  <2>2. safe.borrowedAmount \in Nat /\ safe.collateralAmount \in Nat
    BY DEF Safe
  <2>3. QED
    BY <2>1, <2>2 DEF CollateralValue, BorrowMode
<1>3. /\ redeemed.collateralAmount = safe.collateralAmount - amounts.collateral
      /\ redeemed.borrowedAmount = safe.borrowedAmount - amounts.redeemed
  BY DEF RedeemedSafe, Safe
<1> HIDE DEF value, mode
<1>4. ~whole
  BY <1>1, <1>2, <1>3
<1>5. CASE part
  BY <1>1, <1>2, <1>4, <1>5
<1>6. CASE wanted < safe.borrowedAmount
  BY <1>1, <1>2, <1>4, <1>6
<1>7. CASE mode /\ wanted >= safe.borrowedAmount
  <2>1. redeemed.borrowedAmount = 0
    BY <1>1, <1>2, <1>3, <1>7
  <2>2. QED
    BY <1>7, <2>1 DEF RedeemedEmpty, mode
<1>8. QED
  BY <1>2, <1>4, <1>5, <1>6, <1>7

\* An iteration of a redemption takes the head out of the queue, or is the last one.
LEMMA RedeemNodeKeepsQueue ==
  ASSUME Inv, QueueInv, PlacesPaid', RedeemNode
  PROVE  QueueInv'
<1> DEFINE l == safesOrderedForRedemption
           s == l.head
           safe == UpdatedSafe(s)
           wanted == redemption.requestedAmount - redemption.redeemedAmount
           at == redemption.price
           amounts == RedemptionAmounts(safe, wanted, at)
           redeemed == RedeemedSafe(safe, amounts)
           total == redemption.redeemedAmount + amounts.redeemed + amounts.refunded
<1>1. /\ redemption.phase = "redeeming"
      /\ redemption.redeemedAmount < redemption.requestedAmount
      /\ s # 0 /\ Redeemable(safe, at)
      /\ ~RedeemedEmpty(redeemed, BorrowMode(safe)) => redeemed.collateralAmount > 0
      /\ \/ RedeemedEmpty(redeemed, BorrowMode(safe)) /\ l' = Removed(l, s)
         \/ ~RedeemedEmpty(redeemed, BorrowMode(safe)) /\ l' = l
      /\ WriteSafe(s, redeemed)
      /\ redemption' =
           [redemption EXCEPT !.redeemedAmount = @ + amounts.redeemed + amounts.refunded,
                              !.refundedAmount = @ + amounts.refunded,
                              !.processedSpots = @ + 1,
                              !.collateralAmount = @ + amounts.collateral - amounts.redeemerFee,
                              !.ownerFee = @ + ChargedOwnerFee(amounts),
                              !.redeemerFee = @ + amounts.redeemerFee]
      /\ saved' = saved
  BY Zenon DEF RedeemNode, CanRedeemNode, Wanted
<1>2. l \in ListType /\ s \in Ids /\ s \in Safes
  <2>1. l \in ListType /\ s \in Slots
    BY DEF Inv, QueuesSound, ListType
  <2>2. QED
    BY <1>1, <2>1, MaxIdAssumption DEF Slots, Safes, Ids
<1>3. safe \in Safe /\ safe.weight = safes[s].weight
  BY <1>2, UpdatedWeight
<1>4. /\ redemption \in RedemptionType /\ redemption.price \in Nat \ {0}
      /\ redemption.redeemedAmount \in Nat /\ redemption.requestedAmount \in Nat
      /\ redemption.processedSpots \in Nat /\ wanted \in Nat \ {0}
  BY <1>1 DEF Inv, RedemptionSound, RedemptionType
<1> HIDE DEF safe, wanted, at
<1>5. amounts.redeemed \in Nat /\ amounts.refunded \in Nat
  <2>1. at \in Nat \ {0} /\ safe.borrowedAmount \in Nat
    BY <1>3, <1>4 DEF at, Safe
  <2>2. amounts.redeemed \in 0 .. safe.borrowedAmount /\ amounts.refunded \in Nat
    BY <1>1, <1>3, <1>4, <2>1, RedemptionAmountsType
  <2> HIDE DEF amounts
  <2>3. QED
    BY <2>1, <2>2
<1>6. ~RedeemedEmpty(redeemed, BorrowMode(safe)) => amounts.redeemed + amounts.refunded = wanted
  <2>1. at \in Nat \ {0}
    BY <1>4 DEF at
  <2>2. QED
    BY <1>1, <1>3, <1>4, <2>1, StaysOnlyIfCovered
<1>7. redeemed.weight = safes[s].weight
  BY <1>3 DEF RedeemedSafe, Safe
<1> HIDE DEF redeemed, amounts, s
<1>8. \A t \in Ids : safes'[t].weight = safes[t].weight
  <2>1. safes \in [Ids -> Safe] /\ safes' = [safes EXCEPT ![s] = redeemed]
    BY <1>1 DEF WriteSafe, Inv, SafesSound, Safes
  <2>2. QED
    BY <1>2, <1>7, <2>1
<1>9. /\ redemption'.phase = "redeeming"
      /\ redemption'.requestedAmount = redemption.requestedAmount
      /\ redemption'.redeemedAmount = total
      /\ redemption'.processedSpots = redemption.processedSpots + 1
  <2>1. redemption.redeemedAmount + amounts.redeemed + amounts.refunded = total
    OBVIOUS
  <2> HIDE DEF total
  <2>2. QED
    BY <1>1, <1>4, <2>1 DEF RedemptionType
<1>10. /\ PlacesIn(l, safes)
       /\ PlacesIn(saved.safesOrderedForRedemption, saved.safes)
       /\ redemption.processedSpots + Cardinality(Members(l)) <= MaxId
  BY <1>1 DEF QueueInv
<1>11. s \in Members(l) /\ Cardinality(Members(l)) \in Nat /\ Cardinality(Members(l)) >= 1
  <2>1. PICK n \in 0 .. MaxId : \E q \in [1 .. n -> Ids] : LinkedAs(l, n, q)
    BY <1>10 DEF PlacesIn
  <2>2. PICK q \in [1 .. n -> Ids] : LinkedAs(l, n, q)
    BY <2>1
  <2>3. n \in Nat
    OBVIOUS
  <2>4. Members(l) = {q[k] : k \in 1 .. n} /\ Cardinality(Members(l)) = n
    BY <1>2, <2>2, <2>3, ChainOfLinked DEF LinkedAs
  <2>5. n > 0 /\ q[1] = s
    BY <1>1, <2>2, <2>3 DEF LinkedAs, Linked, s
  <2>6. QED
    BY <2>3, <2>4, <2>5
<1>12. MaxId \in Nat
  BY MaxIdAssumption
<1>13. CASE RedeemedEmpty(redeemed, BorrowMode(safe)) /\ l' = Removed(l, s)
  <2>1. ASSUME NEW k, NEW ss, k = l', ss = safes'
        PROVE  /\ PlacesIn(k, ss)
               /\ Cardinality(Members(k)) + 1 = Cardinality(Members(l))
    <3>1. k = Removed(l, s) /\ \A t \in Ids \ {s} : ss[t].weight = safes[t].weight
      BY <1>8, <1>13, <2>1
    <3> HIDE DEF l
    <3>2. QED
      BY <1>2, <1>10, <1>11, <3>1, PlacesRemoved
  <2>2. PlacesIn(l', safes') /\ Cardinality(Members(l')) + 1 = Cardinality(Members(l))
    BY <2>1
  <2>3. redemption'.processedSpots + Cardinality(Members(l')) <= MaxId
        /\ redemption'.processedSpots <= MaxId
    <3>1. PICK c \in Nat : c = Cardinality(Members(l))
      BY <1>11
    <3>2. PICK c1 : c1 = Cardinality(Members(l'))
      OBVIOUS
    <3>3. c1 \in Nat
      <4>1. PICK n \in 0 .. MaxId : \E q \in [1 .. n -> Ids] : LinkedAs(l', n, q)
        BY <2>2 DEF PlacesIn
      <4>2. PICK q : LinkedAs(l', n, q)
        BY <4>1
      <4>3. l' \in ListType
        BY <1>2, <1>13, RemovedType
      <4>4. PICK k : k = l'
        OBVIOUS
      <4>5. Cardinality(Members(k)) = n
        BY <4>2, <4>3, <4>4, ChainOfLinked DEF LinkedAs
      <4>6. QED
        BY <3>2, <4>4, <4>5
    <3>4. c1 + 1 = c
      BY <2>2, <3>1, <3>2
    <3>5. redemption.processedSpots + 1 + c1 <= MaxId /\ redemption.processedSpots + 1 <= MaxId
      BY <1>4, <1>10, <1>12, <3>1, <3>3, <3>4
    <3>6. QED
      BY <1>9, <3>2, <3>5
  <2>4. QED
    BY <1>1, <1>9, <1>10, <2>2, <2>3 DEF QueueInv
<1>14. CASE ~RedeemedEmpty(redeemed, BorrowMode(safe)) /\ l' = l
  <2>1. ASSUME NEW ss, ss = safes'
        PROVE  PlacesIn(l, ss)
    <3>1. \A t \in Ids : ss[t].weight = safes[t].weight
      BY <1>8, <2>1
    <3> HIDE DEF l
    <3>2. QED
      BY <1>10, <3>1, PlacesLeft
  <2>2. PlacesIn(l', safes')
    BY <1>14, <2>1
  <2>3. total = redemption.requestedAmount
    BY <1>4, <1>5, <1>6, <1>14 DEF wanted
  <2>4. ~(redemption'.redeemedAmount < redemption'.requestedAmount)
    BY <1>4, <1>9, <2>3
  <2>5. redemption'.processedSpots <= MaxId
    <3>1. redemption.processedSpots + 1 <= MaxId
      BY <1>4, <1>10, <1>11, <1>12
    <3>2. QED
      BY <1>9, <3>1
  <2>6. QED
    BY <1>1, <1>9, <1>10, <2>2, <2>4, <2>5 DEF QueueInv
<1>15. QED
  BY <1>1, <1>13, <1>14

\* While the loop of a redemption runs, nobody else is called.
LEMMA CallsWait ==
  ASSUME OwnerCall \/ LiquidationCall \/ StakingCall \/ PriceChange
  PROVE  redemption.phase # "redeeming"
<1>1. CASE OwnerCall
  <2>1. ASSUME NEW s, NEW amount, OpenSafe(s, amount) PROVE CanCall
    BY <2>1 DEF OpenSafe, CanOpenSafe
  <2>2. ASSUME NEW s, CloseSafe(s) PROVE CanCall
    BY <2>2 DEF CloseSafe, CanCloseSafe
  <2>3. ASSUME NEW s, NEW amount, NEW rate, NEW hintL, NEW hintR,
               Borrow(s, amount, rate, hintL, hintR)
        PROVE  CanCall
    BY <2>3, Zenon DEF Borrow, CanBorrow
  <2>4. ASSUME NEW s, NEW amount, NEW hint, Repay(s, amount, hint) PROVE CanCall
    BY <2>4, Zenon DEF Repay, CanRepay
  <2>5. ASSUME NEW s, NEW amount, NEW hint,
               AddCollateral(s, amount, hint) \/ WithdrawCollateral(s, amount, hint)
        PROVE  CanCall
    BY <2>5, Zenon DEF AddCollateral, CanAddCollateral, WithdrawCollateral, CanWithdrawCollateral
  <2>6. ASSUME NEW s, NEW hint, AdjustPosition(s, hint) PROVE CanCall
    BY <2>6, Zenon DEF AdjustPosition, CanAdjustPosition
  <2>7. ASSUME NEW s, NEW rate, NEW hint, FeeTopup(s, rate, hint) PROVE CanCall
    BY <2>7, Zenon DEF FeeTopup, CanTopupFee
  <2>8. CanCall
    BY <1>1, <2>1, <2>2, <2>3, <2>4, <2>5, <2>6, <2>7, Zenon DEF OwnerCall
  <2>9. QED
    BY <2>8 DEF CanCall
<1>2. CASE LiquidationCall
  BY <1>2 DEF LiquidationCall, Liquidate, LiquidateSafe, CanLiquidateSafe, CanCall
<1>3. CASE StakingCall
  BY <1>3 DEF StakingCall, PoolStake, PoolUnstake, DfireStake, DfireUnstake, CanCall
<1>4. CASE PriceChange
  BY <1>4 DEF PriceChange, SetPrice
<1>5. QED
  BY <1>1, <1>2, <1>3, <1>4

\* At first no Safe has a place.
LEMMA QueueInit == Init => QueueInv
<1> SUFFICES ASSUME Init PROVE QueueInv
  OBVIOUS
<1>1. safesOrderedForRedemption = EmptyList /\ redemption = NoRedemption
  BY DEF Init
<1>2. MaxId \in Nat
  BY MaxIdAssumption
<1> DEFINE q == [k \in 1 .. 0 |-> 1]
<1>3. LinkedAs(EmptyList, 0, q)
  <2>1. q \in [1 .. 0 -> Ids] /\ \A k \in 1 .. 0 : FALSE
    OBVIOUS
  <2>2. /\ EmptyList.head = 0 /\ EmptyList.tail = 0
        /\ \A id \in Ids : EmptyList.nodes[id] = NullNode
    BY DEF EmptyList, Ids, Slots
  <2> HIDE DEF q
  <2>3. QED
    BY <2>1, <2>2 DEF LinkedAs, Linked, Positive
<1>4. PlacesIn(EmptyList, safes)
  <2>1. 0 \in Nat /\ \A k \in 1 .. 0 : FALSE
    OBVIOUS
  <2> HIDE DEF q
  <2>2. QED
    BY <1>3, <2>1, PlacesAre
<1>5. redemption.phase = "idle" /\ redemption.processedSpots <= MaxId
  BY <1>1, <1>2 DEF NoRedemption
<1>6. QED
  BY <1>1, <1>4, <1>5 DEF QueueInv

\* There are no more places than Safes.
LEMMA PlacesFit ==
  ASSUME NEW l \in ListType, NEW ss, PlacesIn(l, ss)
  PROVE  Cardinality(Members(l)) <= MaxId
<1>1. PICK n \in 0 .. MaxId : \E q \in [1 .. n -> Ids] : LinkedAs(l, n, q)
  BY DEF PlacesIn
<1>2. PICK q : LinkedAs(l, n, q)
  BY <1>1
<1>3. n \in Nat
  OBVIOUS
<1>4. Cardinality(Members(l)) = n
  BY <1>2, <1>3, ChainOfLinked DEF LinkedAs
<1>5. QED
  BY <1>4, MaxIdAssumption

\* A call on one Safe, in and out of the payment of a redemption.
LEMMA RequeuesKeepsQueue ==
  ASSUME Inv, QueueInv, PlacesPaid', OwnerCall \/ LiquidationCall,
         NEW s \in Safes, NEW safe, Requeues(s, safe)
  PROVE  QueueInv'
<1>1. redemption.phase # "redeeming" /\ redemption' = redemption /\ saved' = saved
  BY CallsWait, CallsLeaveCdp
<1>2. PlacesIn(safesOrderedForRedemption', safes')
  BY RequeuedPlaces DEF QueueInv
<1>3. QED
  BY <1>1, <1>2 DEF QueueInv

\* Every step keeps the places.
LEMMA QueueStep ==
  Inv /\ QueueInv /\ PlacesPaid' /\ [Next]_vars => QueueInv'
<1> SUFFICES ASSUME Inv, QueueInv, PlacesPaid', [Next]_vars PROVE QueueInv'
  OBVIOUS
<1>1. CASE OwnerCall
  <2>1. \E s \in Safes : \E safe : Requeues(s, safe)
    BY <1>1, OwnerRequeues DEF OwnerCall
  <2>2. QED
    BY <1>1, <2>1, RequeuesKeepsQueue
<1>2. CASE LiquidationCall
  BY <1>2, LiquidationRequeues, RequeuesKeepsQueue
<1>3. CASE StakingCall \/ PriceChange \/ UNCHANGED vars
  <2>1. /\ safes' = safes /\ safesOrderedForRedemption' = safesOrderedForRedemption
        /\ redemption' = redemption /\ saved' = saved
    BY <1>3, OthersLeavePlaces, CallsLeaveCdp
  <2>2. QED
    BY <2>1 DEF QueueInv
<1>4. CASE RedeemCall
  <2>1. /\ safes' = safes /\ safesOrderedForRedemption' = safesOrderedForRedemption
    BY <1>4, OthersLeavePlaces
  <2>2. PICK amount \in RedeemAmounts, hint \in Hints : Redeem(amount, hint)
    BY <1>4 DEF RedeemCall
  <2>3. /\ redemption' = [NoRedemption EXCEPT !.phase = "redeeming", !.requestedAmount = amount,
                                              !.price = price, !.hint = hint]
        /\ saved' = Storage
    BY <2>2 DEF Redeem
  <2>4. redemption'.processedSpots = 0
    BY <2>3 DEF NoRedemption
  <2>5. saved'.safes = safes /\ saved'.safesOrderedForRedemption = safesOrderedForRedemption
    BY <2>3 DEF Storage
  <2>6. Cardinality(Members(safesOrderedForRedemption)) <= MaxId
    BY PlacesFit DEF QueueInv, Inv, QueuesSound
  <2>7. 0 + Cardinality(Members(safesOrderedForRedemption)) <= MaxId /\ 0 <= MaxId
    <3>1. PICK c : c = Cardinality(Members(safesOrderedForRedemption))
      OBVIOUS
    <3>2. c \in Nat
      <4>1. PICK n \in 0 .. MaxId : \E q \in [1 .. n -> Ids] : LinkedAs(safesOrderedForRedemption, n, q)
        BY DEF QueueInv, PlacesIn
      <4>2. PICK q : LinkedAs(safesOrderedForRedemption, n, q)
        BY <4>1
      <4>3. n \in Nat /\ safesOrderedForRedemption \in ListType
        BY DEF Inv, QueuesSound
      <4>4. QED
        BY <3>1, <4>2, <4>3, ChainOfLinked DEF LinkedAs
    <3>3. QED
      BY <2>6, <3>1, <3>2, MaxIdAssumption
  <2>8. PlacesIn(safesOrderedForRedemption, safes)
    BY DEF QueueInv
  <2>9. /\ PlacesIn(safesOrderedForRedemption', safes')
        /\ PlacesIn(saved'.safesOrderedForRedemption, saved'.safes)
        /\ redemption'.processedSpots <= MaxId
        /\ redemption'.processedSpots + Cardinality(Members(safesOrderedForRedemption')) <= MaxId
    BY <2>1, <2>4, <2>5, <2>7, <2>8
  <2>10. QED
    BY <2>9 DEF QueueInv
<1>5. CASE RedeemNode
  BY <1>5, RedeemNodeKeepsQueue
<1>6. CASE RedeemToUser
  <2>1. /\ safes' = safes /\ safesOrderedForRedemption' = safesOrderedForRedemption
    BY <1>6, OthersLeavePlaces
  <2>2. /\ redemption.phase = "redeeming" /\ saved' = saved
        /\ redemption' = [redemption EXCEPT !.phase = "paid"]
    BY <1>6 DEF RedeemToUser, CanRedeemToUser
  <2>3. redemption'.phase = "paid" /\ redemption'.processedSpots = redemption.processedSpots
    BY <2>2 DEF Inv, RedemptionSound, RedemptionType
  <2>4. QED
    BY <2>1, <2>2, <2>3 DEF QueueInv
<1>7. CASE RedeemSettle
  <2>1. /\ safes' = safes /\ safesOrderedForRedemption' = safesOrderedForRedemption
    BY <1>7, OthersLeavePlaces
  <2>2. redemption'.phase = "idle" /\ redemption'.processedSpots <= MaxId
    BY <1>7, MaxIdAssumption DEF RedeemSettle, NoRedemption
  <2>3. QED
    BY <2>1, <2>2 DEF QueueInv
<1>8. CASE RedeemRevert
  <2>1. /\ redemption.phase # "idle" /\ safes' = saved.safes
        /\ safesOrderedForRedemption' = saved.safesOrderedForRedemption
        /\ redemption' = NoRedemption
    BY <1>8 DEF RedeemRevert
  <2>2. redemption'.phase = "idle" /\ redemption'.processedSpots <= MaxId
    BY <2>1, MaxIdAssumption DEF NoRedemption
  <2>3. PlacesIn(saved.safesOrderedForRedemption, saved.safes)
    BY <2>1 DEF QueueInv
  <2>4. QED
    BY <2>1, <2>2, <2>3 DEF QueueInv
<1>9. QED
  BY <1>1, <1>2, <1>3, <1>4, <1>5, <1>6, <1>7, <1>8 DEF Next, Call, RedemptionStep

\* A call between transactions takes a Safe whose debt it ends out of the queue.
LEMMA DebtEndsOutOfQueue ==
  Inv /\ QueueInv /\ PlacesPaid' /\ [Next]_vars =>
    [\A s \in Safes :
       (/\ redemption.phase = "idle"
        /\ safes[s].borrowedAmount > 0
        /\ safes'[s].borrowedAmount = 0)
         => s \notin Members(safesOrderedForRedemption')]_vars
<1> SUFFICES ASSUME Inv, QueueInv, PlacesPaid', [Next]_vars, NEW t \in Safes,
                    redemption.phase = "idle", safes[t].borrowedAmount > 0,
                    safes'[t].borrowedAmount = 0
             PROVE  t \notin Members(safesOrderedForRedemption')
  OBVIOUS
<1>1. CASE OwnerCall \/ LiquidationCall
  <2>1. \E s \in Safes : \E safe : Requeues(s, safe)
    BY <1>1, OwnerRequeues, LiquidationRequeues DEF OwnerCall
  <2>2. PICK s \in Safes : \E safe : Requeues(s, safe)
    BY <2>1
  <2>3. PICK safe : Requeues(s, safe)
    BY <2>2
  <2>4. QED
    BY <2>3, RequeuedPlaces DEF QueueInv
<1>2. CASE StakingCall \/ PriceChange \/ RedeemCall \/ RedeemToUser \/ RedeemSettle \/ UNCHANGED vars
  BY <1>2, OthersLeavePlaces
<1>3. CASE RedeemNode \/ RedeemRevert
  BY <1>3 DEF RedeemNode, CanRedeemNode, RedeemRevert
<1>4. QED
  BY <1>1, <1>2, <1>3 DEF Next, Call, RedemptionStep

\* Redemptions go by the order of the fees that were paid, and visit a Safe at most
\* once, in the redemptions of any amount over any number of Safes; as long as every
\* place in the queue is one that was paid for.
THEOREM RedemptionsInOrder ==
  Spec /\ []PlacesPaid => [](RedemptionOrder /\ EachSafeOnce)
<1>1. Inv /\ QueueInv => RedemptionOrder /\ EachSafeOnce
  BY PlacesAreInOrder DEF Inv, QueuesSound, QueueInv, EachSafeOnce
<1>2. QED
  BY <1>1, QueueInit, QueueStep, Invariance, PTL DEF Spec

\* Whoever has repaid the debt cannot be redeemed any more, nor who was liquidated,
\* as long as every place in the queue is one that was paid for: a queue of one place
\* of value 0 is taken for an empty one.
THEOREM DebtlessLeaveQueue ==
  Spec /\ []PlacesPaid => FullyRepaidLeavesQueue
<1>1. QED
  BY QueueInit, QueueStep, DebtEndsOutOfQueue, Invariance, PTL DEF Spec, FullyRepaidLeavesQueue

-----------------------------------------------------------------------------
(* The debts in the liquidation queue. *)

\* List l is linked, the code sees its first node, and a Safe with a debt is in it.
DebtsIn(l, ss) ==
  \E n \in 0 .. MaxId : \E q \in [1 .. n -> Ids] :
    /\ Linked(l, n, q)
    /\ HeadSeen(l)
    /\ \A s \in Ids : ss[s].borrowedAmount > 0 => \E k \in 1 .. n : q[k] = s

DebtInv ==
  /\ DebtsIn(safesOrderedForLiquidation, safes)
  /\ redemption.phase # "idle" => DebtsIn(saved.safesOrderedForLiquidation, saved.safes)

\* A description of the queue, of any length and order.
LEMMA DebtsAre ==
  ASSUME NEW l, NEW ss, NEW n \in Nat, NEW q, Linked(l, n, q), HeadSeen(l),
         \A s \in Ids : ss[s].borrowedAmount > 0 => \E k \in 1 .. n : q[k] = s
  PROVE  DebtsIn(l, ss)
<1>1. q \in [1 .. n -> Ids] /\ \A i, j \in 1 .. n : q[i] = q[j] => i = j
  BY DEF Linked
<1>2. n \in 0 .. MaxId
  BY <1>1, RoomForNodes
<1>3. QED
  BY <1>1, <1>2 DEF DebtsIn

\* What the queue is, to take apart.
LEMMA DebtsTaken ==
  ASSUME NEW l, NEW ss, DebtsIn(l, ss)
  PROVE  /\ HeadSeen(l)
         /\ \E n \in Nat : \E q :
              /\ Linked(l, n, q)
              /\ \A s \in Ids : ss[s].borrowedAmount > 0 => \E k \in 1 .. n : q[k] = s
<1>1. \A n \in 0 .. MaxId : n \in Nat
  OBVIOUS
<1>2. QED
  BY <1>1 DEF DebtsIn

\* The queue does for other Safes too, if none has a debt that had none.
LEMMA DebtsLeft ==
  ASSUME NEW l, NEW ss, NEW tt, DebtsIn(l, ss),
         \A s \in Ids : tt[s].borrowedAmount > 0 => ss[s].borrowedAmount > 0
  PROVE  DebtsIn(l, tt)
<1>1. PICK n \in Nat : \E q :
        /\ Linked(l, n, q)
        /\ \A s \in Ids : ss[s].borrowedAmount > 0 => \E k \in 1 .. n : q[k] = s
  BY DebtsTaken
<1>2. PICK q :
        /\ Linked(l, n, q)
        /\ \A s \in Ids : ss[s].borrowedAmount > 0 => \E k \in 1 .. n : q[k] = s
  BY <1>1
<1>3. HeadSeen(l)
  BY DebtsTaken
<1>4. \A s \in Ids : tt[s].borrowedAmount > 0 => \E k \in 1 .. n : q[k] = s
  BY <1>2
<1>5. Linked(l, n, q)
  BY <1>2
<1>6. QED
  BY <1>3, <1>4, <1>5, DebtsAre

\* A Safe without debt may leave the queue, if the code still sees the first node then.
LEMMA DebtsRemoved ==
  ASSUME NEW l \in ListType, NEW ss, NEW tt, DebtsIn(l, ss), NEW id \in Ids,
         \A s \in Ids \ {id} : tt[s].borrowedAmount > 0 => ss[s].borrowedAmount > 0,
         ~(tt[id].borrowedAmount > 0),
         NEW k, k = Removed(l, id), HeadSeen(k)
  PROVE  DebtsIn(k, tt)
<1>1. PICK n \in Nat : \E q :
        /\ Linked(l, n, q)
        /\ \A s \in Ids : ss[s].borrowedAmount > 0 => \E i \in 1 .. n : q[i] = s
  BY DebtsTaken
<1>2. PICK q :
        /\ Linked(l, n, q)
        /\ \A s \in Ids : ss[s].borrowedAmount > 0 => \E i \in 1 .. n : q[i] = s
  BY <1>1
<1>3. Linked(l, n, q)
  BY <1>2
<1>4. HeadSeen(l)
  BY DebtsTaken
<1>5. PICK m \in Nat : \E r : Relinked(l, n, q, id, k, m, r)
  BY <1>3, <1>4, RemovedRelinks
<1>6. PICK r : Relinked(l, n, q, id, k, m, r)
  BY <1>5
<1>7. /\ Linked(k, m, r)
      /\ \A j \in 1 .. n : q[j] = id \/ \E i \in 1 .. m : r[i] = q[j]
  BY <1>6 DEF Relinked
<1>8. \A s \in Ids : tt[s].borrowedAmount > 0 => \E i \in 1 .. m : r[i] = s
  BY <1>2, <1>7
<1>9. Linked(k, m, r)
  BY <1>7
<1>10. QED
  BY <1>8, <1>9, DebtsAre

\* A Safe that is put into the queue is there, and the others stay.
LEMMA DebtsUpserted ==
  ASSUME NEW l \in ListType, NEW ss, NEW tt, DebtsIn(l, ss), NEW id \in Ids,
         \A s \in Ids \ {id} : tt[s].borrowedAmount > 0 => ss[s].borrowedAmount > 0,
         NEW v \in Nat, NEW hint \in Slots,
         NEW k, k = Upserted(l, id, v, hint), HeadSeen(k)
  PROVE  DebtsIn(k, tt)
<1>1. PICK n \in Nat : \E q :
        /\ Linked(l, n, q)
        /\ \A s \in Ids : ss[s].borrowedAmount > 0 => \E i \in 1 .. n : q[i] = s
  BY DebtsTaken
<1>2. PICK q :
        /\ Linked(l, n, q)
        /\ \A s \in Ids : ss[s].borrowedAmount > 0 => \E i \in 1 .. n : q[i] = s
  BY <1>1
<1>3. Linked(l, n, q)
  BY <1>2
<1>4. HeadSeen(l)
  BY DebtsTaken
<1>5. PICK m \in Nat : \E r : Relinked(l, n, q, id, k, m, r) /\ \E i \in 1 .. m : r[i] = id
  <2>1. \E m \in Nat : \E r : /\ Relinked(l, n, q, id, k, m, r)
                              /\ k.nodes[id].value = v
                              /\ \E i \in 1 .. m : r[i] = id
    BY <1>3, <1>4, UpsertedRelinks
  <2>2. QED
    BY <2>1
<1>6. PICK r : Relinked(l, n, q, id, k, m, r) /\ \E i \in 1 .. m : r[i] = id
  BY <1>5
<1>7. /\ Linked(k, m, r)
      /\ \A j \in 1 .. n : q[j] = id \/ \E i \in 1 .. m : r[i] = q[j]
      /\ \E i \in 1 .. m : r[i] = id
  BY <1>6 DEF Relinked
<1>8. \A s \in Ids : tt[s].borrowedAmount > 0 => \E i \in 1 .. m : r[i] = s
  BY <1>2, <1>7
<1>9. Linked(k, m, r)
  BY <1>7
<1>10. QED
  BY <1>8, <1>9, DebtsAre

\* What a call on Safe s that leaves it as safe does to the liquidation queue: the
\* Safe keeps its place and gets no debt; it leaves the queue without debt; or it
\* takes the place of some ratio.
RequeuesDebt(s, safe) ==
  /\ safes' = [safes EXCEPT ![s] = safe]
  /\ \/ /\ safesOrderedForLiquidation' = safesOrderedForLiquidation
        /\ safe.borrowedAmount > 0 => safes[s].borrowedAmount > 0
     \/ /\ safesOrderedForLiquidation' = Removed(safesOrderedForLiquidation, s)
        /\ ~(safe.borrowedAmount > 0)
     \/ \E ratio \in Nat, hint \in Slots :
          safesOrderedForLiquidation' = Upserted(safesOrderedForLiquidation, s, ratio, hint)

\* A step that does so keeps the debts in the queue.
LEMMA RequeuedDebts ==
  ASSUME Inv, DebtsIn(safesOrderedForLiquidation, safes), LoneSafeSeen',
         NEW s \in Safes, NEW safe, RequeuesDebt(s, safe)
  PROVE  DebtsIn(safesOrderedForLiquidation, safes)'
<1> DEFINE l == safesOrderedForLiquidation
<1>1. /\ safes' = [safes EXCEPT ![s] = safe]
      /\ \/ l' = l /\ (safe.borrowedAmount > 0 => safes[s].borrowedAmount > 0)
         \/ l' = Removed(l, s) /\ ~(safe.borrowedAmount > 0)
         \/ \E ratio \in Nat, hint \in Slots : l' = Upserted(l, s, ratio, hint)
  BY DEF RequeuesDebt
<1>2. l \in ListType /\ safes \in [Ids -> Safe] /\ s \in Ids
  BY DEF Inv, QueuesSound, SafesSound, Safes
<1>3. safes'[s] = safe /\ \A t \in Ids \ {s} : safes'[t] = safes[t]
  BY <1>1, <1>2
<1>4. DebtsIn(l, safes)
  OBVIOUS
<1>5. ASSUME NEW k, NEW ss, k = l', ss = safes'
      PROVE  DebtsIn(k, ss)
  <2>1. ss[s] = safe /\ \A t \in Ids \ {s} : ss[t].borrowedAmount > 0 => safes[t].borrowedAmount > 0
    BY <1>3, <1>5
  <2>2. HeadSeen(k)
    BY <1>5 DEF LoneSafeSeen, HeadSeen, LooksAbsent
  <2>3. \/ k = l /\ (safe.borrowedAmount > 0 => safes[s].borrowedAmount > 0)
        \/ k = Removed(l, s) /\ ~(safe.borrowedAmount > 0)
        \/ \E ratio \in Nat, hint \in Slots : k = Upserted(l, s, ratio, hint)
    BY <1>1, <1>5
  <2> HIDE DEF l
  <2>4. CASE k = l /\ (safe.borrowedAmount > 0 => safes[s].borrowedAmount > 0)
    <3>1. \A t \in Ids : ss[t].borrowedAmount > 0 => safes[t].borrowedAmount > 0
      BY <2>1, <2>4
    <3>2. QED
      BY <1>4, <2>4, <3>1, DebtsLeft
  <2>5. CASE k = Removed(l, s) /\ ~(safe.borrowedAmount > 0)
    BY <1>2, <1>4, <2>1, <2>2, <2>5, DebtsRemoved
  <2>6. CASE \E ratio \in Nat, hint \in Slots : k = Upserted(l, s, ratio, hint)
    <3>1. PICK ratio \in Nat, hint \in Slots : k = Upserted(l, s, ratio, hint)
      BY <2>6
    <3>2. QED
      BY ONLY <1>2, <1>4, <2>1, <2>2, <3>1, ratio \in Nat, hint \in Slots, DebtsUpserted
  <2>7. QED
    BY <2>3, <2>4, <2>5, <2>6
<1>6. QED
  BY <1>5

\* A ratio of 0 is that of a Safe without debt, as long as there is so much collateral
\* at most that the smallest debt counts.
LEMMA RatioTellsDebt ==
  ASSUME NEW debt \in Nat, NEW collateral \in Nat \ {0}, debt = 0 \/ debt >= MINIMUM_DEBT,
         collateral <= MINIMUM_DEBT * PRECISION, Ratio(debt, collateral) = 0
  PROVE  debt = 0
<1> SUFFICES ASSUME debt >= MINIMUM_DEBT PROVE FALSE
  <2>1. MINIMUM_DEBT = 0 => collateral <= 0
    BY StableBaseAssumption
  <2>2. QED
    OBVIOUS
<1>1. MINIMUM_DEBT * PRECISION <= debt * PRECISION
  BY StableBaseAssumption
<1>2. PICK a \in Nat : a = debt * PRECISION
  BY StableBaseAssumption
<1>3. PICK b \in Nat : b = MINIMUM_DEBT * PRECISION
  BY StableBaseAssumption
<1>4. a >= collateral
  BY <1>1, <1>2, <1>3
<1>5. \A x \in Nat, c \in Nat \ {0} : x >= c => x \div c # 0
  OBVIOUS
<1>6. QED
  BY <1>2, <1>4, <1>5 DEF Ratio

\* The calls of a Safe's owner.
LEMMA OwnerRequeuesDebt ==
  ASSUME Inv, Inv', RatiosCount', ~DebtlessTopup, NEW s \in Safes,
         \/ \E amount \in Collaterals : OpenSafe(s, amount)
         \/ CloseSafe(s)
         \/ \E amount \in Debts, rate \in ShieldingRates, hintL, hintR \in Hints :
              Borrow(s, amount, rate, hintL, hintR)
         \/ \E amount \in Debts, hint \in Hints : Repay(s, amount, hint)
         \/ \E amount \in Collaterals, hint \in Hints : AddCollateral(s, amount, hint)
         \/ \E amount \in Collaterals, hint \in Hints : WithdrawCollateral(s, amount, hint)
         \/ \E hint \in Hints : AdjustPosition(s, hint)
         \/ \E rate \in ShieldingRates, hint \in Hints : FeeTopup(s, rate, hint)
  PROVE  \E safe : RequeuesDebt(s, safe)
<1> DEFINE l == safesOrderedForLiquidation
           was == UpdatedSafe(s)
<1>1. /\ was \in Safe /\ safes[s] \in Safe
      /\ was.borrowedAmount \in Nat /\ safes[s].borrowedAmount \in Nat
      /\ was.borrowedAmount >= safes[s].borrowedAmount
      /\ was.collateralAmount \in Nat
  BY UpdatedWeight DEF Safe
<1>2. safes \in [Safes -> Safe] /\ safes' \in [Safes -> Safe]
  BY DEF Inv, SafesSound
<1> HIDE DEF was
<1>3. ASSUME NEW amount \in Collaterals, OpenSafe(s, amount)
      PROVE  \E safe : RequeuesDebt(s, safe)
  <2>1. PICK safe : safe = [NullSafe EXCEPT !.collateralAmount = amount]
    OBVIOUS
  <2>2. safes' = [safes EXCEPT ![s] = safe] /\ l' = l
    BY <1>3, <2>1 DEF OpenSafe, queues
  <2>3. safe.borrowedAmount = 0
    BY <2>1 DEF NullSafe
  <2>4. RequeuesDebt(s, safe)
    BY <2>2, <2>3 DEF RequeuesDebt
  <2>5. QED
    BY <2>4
<1>4. ASSUME CloseSafe(s)
      PROVE  \E safe : RequeuesDebt(s, safe)
  <2>1. safes' = [safes EXCEPT ![s] = NullSafe] /\ l' = l
    BY <1>4 DEF CloseSafe, WriteSafe, queues
  <2>2. NullSafe.borrowedAmount = 0
    BY DEF NullSafe
  <2>3. RequeuesDebt(s, NullSafe)
    BY <2>1, <2>2 DEF RequeuesDebt
  <2>4. QED
    BY <2>3
<1>5. ASSUME NEW amount \in Debts, NEW rate \in ShieldingRates, NEW hintL \in Hints,
             NEW hintR \in Hints, Borrow(s, amount, rate, hintL, hintR)
      PROVE  \E safe : RequeuesDebt(s, safe)
  <2> DEFINE weight == BorrowWeight(was, amount, rate)
             fee == ShieldingFee(amount, rate)
  <2>1. PICK safe : safe = [was EXCEPT !.weight = weight, !.borrowedAmount = @ + amount,
                                       !.totalBorrowedAmount = @ + amount, !.feePaid = @ + fee]
    OBVIOUS
  <2>2. PICK ratio : ratio = Ratio(safe.borrowedAmount, safe.collateralAmount)
    OBVIOUS
  <2>3. was.collateralAmount > 0 /\ l' = Upserted(l, s, ratio, hintL) /\ WriteSafe(s, safe)
    BY <1>5, <2>1, <2>2, Zenon DEF Borrow, CanBorrow, was
  <2>4. amount \in Nat /\ hintL \in Slots
    BY StableBaseCDPAssumption
  <2>5. /\ safe.borrowedAmount = was.borrowedAmount + amount
        /\ safe.collateralAmount = was.collateralAmount
    <3> HIDE DEF weight, fee
    <3>1. QED
      BY <1>1, <2>1 DEF Safe
  <2>6. ratio \in Nat
    BY <1>1, <2>2, <2>3, <2>4, <2>5, RatioType
  <2>7. RequeuesDebt(s, safe)
    BY <2>3, <2>4, <2>6 DEF RequeuesDebt, WriteSafe
  <2>8. QED
    BY <2>7
<1>6. ASSUME NEW amount \in Debts, NEW hint \in Hints, Repay(s, amount, hint)
      PROVE  \E safe : RequeuesDebt(s, safe)
  <2>1. PICK safe : safe = [was EXCEPT !.borrowedAmount = @ - amount]
    OBVIOUS
  <2>2. PICK ratio : ratio = Ratio(safe.borrowedAmount, safe.collateralAmount)
    OBVIOUS
  <2>3. /\ was.collateralAmount > 0
        /\ amount \in 1 .. was.borrowedAmount
        /\ was.borrowedAmount - amount = 0 \/ was.borrowedAmount - amount >= MINIMUM_DEBT
        /\ WriteSafe(s, safe)
        /\ \/ ratio # 0 /\ l' = Upserted(l, s, ratio, hint)
           \/ ratio = 0 /\ l' = Removed(l, s)
    BY <1>6, <2>1, <2>2, Zenon DEF Repay, CanRepay, was
  <2>4. /\ safe.borrowedAmount = was.borrowedAmount - amount
        /\ safe.collateralAmount = was.collateralAmount
    BY <1>1, <2>1 DEF Safe
  <2>5. /\ safe.borrowedAmount \in Nat /\ safe.collateralAmount \in Nat \ {0}
        /\ safe.borrowedAmount = 0 \/ safe.borrowedAmount >= MINIMUM_DEBT
    BY <1>1, <2>3, <2>4
  <2>6. ratio \in Nat /\ hint \in Slots
    BY <2>2, <2>5, RatioType, StableBaseCDPAssumption
  <2>7. safe.collateralAmount <= MINIMUM_DEBT * PRECISION
    <3>1. safes'[s] = safe
      BY <1>2, <2>3 DEF WriteSafe
    <3>2. safes'[s].collateralAmount <= MINIMUM_DEBT * PRECISION
      BY DEF RatiosCount
    <3>3. QED
      BY <3>1, <3>2
  <2>8. ratio = 0 => safe.borrowedAmount = 0
    BY <2>2, <2>5, <2>7, RatioTellsDebt
  <2>9. RequeuesDebt(s, safe)
    BY <2>3, <2>6, <2>8 DEF RequeuesDebt, WriteSafe
  <2>10. QED
    BY <2>9
<1>7. ASSUME NEW moved, Move(s, moved), NEW hint \in Slots,
             \/ \E ratio \in Nat : l' = Upserted(l, s, ratio, hint)
             \/ was.borrowedAmount = 0 /\ l' = Removed(l, s)
      PROVE  \E safe : RequeuesDebt(s, safe)
  <2>1. PICK safe : safe = [was EXCEPT !.collateralAmount = @ + moved]
    OBVIOUS
  <2>2. WriteSafe(s, safe)
    BY <1>7, <2>1 DEF Move, was
  <2>3. safe.borrowedAmount = was.borrowedAmount
    BY <1>1, <2>1 DEF Safe
  <2>4. RequeuesDebt(s, safe)
    BY <1>7, <2>2, <2>3 DEF RequeuesDebt, WriteSafe
  <2>5. QED
    BY <2>4
<1>8. ASSUME NEW collateral \in Int, NEW hint, CanReorder(s, collateral, hint),
             Reorder(s, collateral, hint)
      PROVE  \E ratio \in Nat : l' = Upserted(l, s, ratio, hint)
  <2>1. collateral \in Nat \ {0}
    BY <1>8 DEF CanReorder
  <2>2. Ratio(was.borrowedAmount, collateral) \in Nat
    BY <1>1, <2>1, RatioType
  <2>3. l' = Upserted(l, s, Ratio(was.borrowedAmount, collateral), hint)
    BY <1>8 DEF Reorder, was
  <2>4. QED
    BY <2>2, <2>3
<1>9. ASSUME NEW amount \in Collaterals, NEW hint \in Hints, AddCollateral(s, amount, hint)
      PROVE  \E safe : RequeuesDebt(s, safe)
  <2>1. /\ Move(s, amount)
        /\ CanReorder(s, was.collateralAmount + amount, hint)
        /\ Reorder(s, was.collateralAmount + amount, hint)
    BY <1>9 DEF AddCollateral, CanAddCollateral, was
  <2>2. was.collateralAmount + amount \in Int /\ hint \in Slots
    BY <1>1, StableBaseCDPAssumption
  <2>3. QED
    BY <1>7, <1>8, <2>1, <2>2
<1>10. ASSUME NEW amount \in Collaterals, NEW hint \in Hints, WithdrawCollateral(s, amount, hint)
       PROVE  \E safe : RequeuesDebt(s, safe)
  <2>1. was.collateralAmount - amount \in Int /\ hint \in Slots
    BY <1>1, StableBaseCDPAssumption
  <2>2. /\ Move(s, -amount)
        /\ \/ /\ CanReorder(s, was.collateralAmount - amount, hint)
              /\ Reorder(s, was.collateralAmount - amount, hint)
           \/ was.borrowedAmount = 0 /\ l' = Removed(l, s)
    BY <1>10 DEF WithdrawCollateral, CanWithdrawCollateral, was
  <2>3. QED
    BY <1>7, <1>8, <2>1, <2>2
<1>11. ASSUME NEW hint \in Hints, AdjustPosition(s, hint)
       PROVE  \E safe : RequeuesDebt(s, safe)
  <2>1. /\ Move(s, 0)
        /\ CanReorder(s, was.collateralAmount, hint)
        /\ Reorder(s, was.collateralAmount, hint)
    BY <1>11 DEF AdjustPosition, CanAdjustPosition, was
  <2>2. was.collateralAmount \in Int /\ hint \in Slots
    BY <1>1, StableBaseCDPAssumption
  <2>3. QED
    BY <1>7, <1>8, <2>1, <2>2
<1>12. ASSUME NEW rate \in ShieldingRates, NEW hint \in Hints, FeeTopup(s, rate, hint)
       PROVE  \E safe : RequeuesDebt(s, safe)
  <2>1. safes[s].borrowedAmount > 0
    BY <1>1, <1>12 DEF DebtlessTopup
  <2>2. PICK safe : WriteSafe(s, safe)
    BY <1>12, Zenon DEF FeeTopup
  <2>3. l' = l
    BY <1>12, Zenon DEF FeeTopup
  <2>4. RequeuesDebt(s, safe)
    BY <2>1, <2>2, <2>3 DEF RequeuesDebt, WriteSafe
  <2>5. QED
    BY <2>4
<1>13. QED
  BY <1>3, <1>4, <1>5, <1>6, <1>9, <1>10, <1>11, <1>12

\* A liquidation takes the Safe out of the queue.
LEMMA LiquidationRequeuesDebt ==
  ASSUME Inv, LiquidationCall
  PROVE  \E s \in Safes : \E safe : RequeuesDebt(s, safe)
<1>1. PICK gas \in GasCosts : Liquidate(gas) \/ \E s \in Safes : LiquidateSafe(s, gas)
  BY DEF LiquidationCall
<1>2. \E s \in Safes : LiquidateSafe(s, gas)
  <2>1. CASE Liquidate(gas)
    <3>1. /\ safesOrderedForLiquidation.tail # 0
          /\ LiquidateSafe(safesOrderedForLiquidation.tail, gas)
      BY <2>1 DEF Liquidate
    <3>2. safesOrderedForLiquidation.tail \in Slots
      BY DEF Inv, QueuesSound, ListType
    <3>3. safesOrderedForLiquidation.tail \in Safes
      BY <3>1, <3>2, MaxIdAssumption DEF Safes, Ids, Slots
    <3>4. QED
      BY <3>1, <3>3
  <2>2. QED
    BY <1>1, <2>1
<1>3. PICK s \in Safes : LiquidateSafe(s, gas)
  BY <1>2
<1>4. /\ WriteSafe(s, NullSafe)
      /\ safesOrderedForLiquidation' = Removed(safesOrderedForLiquidation, s)
  BY <1>3, Zenon DEF LiquidateSafe
<1>5. ~(NullSafe.borrowedAmount > 0)
  BY DEF NullSafe
<1>6. RequeuesDebt(s, NullSafe)
  BY <1>4, <1>5 DEF RequeuesDebt, WriteSafe
<1>7. QED
  BY <1>6

\* An iteration of a redemption takes the Safe out when nothing is left of its debt,
\* or gives it the place of what is left.
LEMMA RedeemNodeRequeuesDebt ==
  ASSUME Inv, RedeemNode
  PROVE  \E s \in Safes : \E safe : RequeuesDebt(s, safe)
<1> DEFINE l == safesOrderedForLiquidation
           s == safesOrderedForRedemption.head
           safe == UpdatedSafe(s)
           wanted == redemption.requestedAmount - redemption.redeemedAmount
           at == redemption.price
           amounts == RedemptionAmounts(safe, wanted, at)
           redeemed == RedeemedSafe(safe, amounts)
           empty == RedeemedEmpty(redeemed, BorrowMode(safe))
           ratio == Ratio(redeemed.borrowedAmount, redeemed.collateralAmount)
<1>1. /\ redemption.phase = "redeeming"
      /\ redemption.redeemedAmount < redemption.requestedAmount
      /\ s # 0 /\ Redeemable(safe, at)
      /\ ~empty => redeemed.collateralAmount > 0
      /\ amounts.collateral <= safe.collateralAmount
      /\ \/ empty /\ l' = Removed(l, s)
         \/ ~empty /\ l' = Upserted(l, s, ratio, redemption.hint)
      /\ WriteSafe(s, redeemed)
  BY Zenon DEF RedeemNode, CanRedeemNode, Wanted
<1>2. s \in Safes
  <2>1. s \in Slots
    BY DEF Inv, QueuesSound, ListType
  <2>2. QED
    BY <1>1, <2>1, MaxIdAssumption DEF Slots, Safes, Ids
<1>3. safe \in Safe
  BY <1>2, UpdatedWeight
<1>4. /\ redemption.price \in Nat \ {0} /\ wanted \in Nat /\ redemption.hint \in Slots
  BY <1>1 DEF Inv, RedemptionSound, RedemptionType
<1> HIDE DEF safe, wanted, at
<1>5. at \in Nat \ {0} /\ safe.borrowedAmount \in Nat /\ safe.collateralAmount \in Nat
  BY <1>3, <1>4 DEF at, Safe
<1>6. amounts.redeemed \in 0 .. safe.borrowedAmount /\ amounts.collateral \in Nat
  BY <1>1, <1>3, <1>4, <1>5, RedemptionAmountsType
<1>7. /\ redeemed.collateralAmount = safe.collateralAmount - amounts.collateral
      /\ redeemed.borrowedAmount = safe.borrowedAmount - amounts.redeemed
  BY <1>3 DEF RedeemedSafe, Safe
<1> HIDE DEF amounts
<1>8. redeemed.borrowedAmount \in Nat /\ redeemed.collateralAmount \in Int
  BY <1>5, <1>6, <1>7
<1> HIDE DEF redeemed
<1>9. CASE empty /\ l' = Removed(l, s)
  <2>1. redeemed.borrowedAmount = 0
    BY <1>9 DEF RedeemedEmpty
  <2>2. RequeuesDebt(s, redeemed)
    BY <1>1, <1>9, <2>1 DEF RequeuesDebt, WriteSafe
  <2>3. QED
    BY <1>2, <2>2
<1>10. CASE ~empty /\ l' = Upserted(l, s, ratio, redemption.hint)
  <2>1. ratio \in Nat
    BY <1>1, <1>8, <1>10, RatioType
  <2>2. RequeuesDebt(s, redeemed)
    BY <1>1, <1>4, <1>10, <2>1 DEF RequeuesDebt, WriteSafe
  <2>3. QED
    BY <1>2, <2>2
<1>11. QED
  BY <1>1, <1>9, <1>10

\* An iteration leaves the redemption running, and the copy of the storage.
LEMMA RedeemNodePhase ==
  ASSUME Inv, RedeemNode
  PROVE  /\ redemption.phase = "redeeming" /\ redemption'.phase = "redeeming"
         /\ saved' = saved
<1>1. /\ redemption.phase = "redeeming" /\ saved' = saved
      /\ \E a, b, c, d, e, f : redemption' =
           [redemption EXCEPT !.redeemedAmount = a, !.refundedAmount = b, !.processedSpots = c,
                              !.collateralAmount = d, !.ownerFee = e, !.redeemerFee = f]
  BY Zenon DEF RedeemNode, CanRedeemNode
<1>2. redemption \in RedemptionType
  BY DEF Inv, RedemptionSound
<1>3. QED
  BY <1>1, <1>2 DEF RedemptionType

\* Nothing else touches the Safes or this queue, but the undoing of a redemption.
LEMMA OthersLeaveDebts ==
  ASSUME StakingCall \/ PriceChange \/ RedeemCall \/ RedeemToUser \/ RedeemSettle \/ UNCHANGED vars
  PROVE  safes' = safes /\ safesOrderedForLiquidation' = safesOrderedForLiquidation
<1>1. CASE StakingCall
  BY <1>1 DEF StakingCall, PoolStake, PoolUnstake, DfireStake, DfireUnstake, UnchangedByStaking,
              queues
<1>2. CASE PriceChange
  BY <1>2 DEF PriceChange, SetPrice, queues
<1>3. CASE RedeemCall
  BY <1>3 DEF RedeemCall, Redeem, queues
<1>4. CASE RedeemToUser
  BY <1>4 DEF RedeemToUser, queues
<1>5. CASE RedeemSettle
  BY <1>5 DEF RedeemSettle, queues
<1>6. CASE UNCHANGED vars
  BY <1>6 DEF vars, queues
<1>7. QED
  BY <1>1, <1>2, <1>3, <1>4, <1>5, <1>6

\* At first nobody has a debt.
LEMMA DebtInit == Init => DebtInv
<1> SUFFICES ASSUME Init PROVE DebtInv
  OBVIOUS
<1>1. /\ safesOrderedForLiquidation = EmptyList /\ redemption = NoRedemption
      /\ safes = [s \in Safes |-> NullSafe]
  BY DEF Init
<1> DEFINE q == [k \in 1 .. 0 |-> 1]
<1>2. Linked(EmptyList, 0, q) /\ HeadSeen(EmptyList)
  <2>1. q \in [1 .. 0 -> Ids] /\ \A k \in 1 .. 0 : FALSE
    OBVIOUS
  <2>2. /\ EmptyList.head = 0 /\ EmptyList.tail = 0
        /\ \A id \in Ids : EmptyList.nodes[id] = NullNode
    BY DEF EmptyList, Ids, Slots
  <2> HIDE DEF q
  <2>3. QED
    BY <2>1, <2>2 DEF Linked, HeadSeen
<1>3. \A s \in Ids : ~(safes[s].borrowedAmount > 0)
  BY <1>1 DEF NullSafe, Safes
<1>4. DebtsIn(EmptyList, safes)
  <2>1. 0 \in Nat
    OBVIOUS
  <2> HIDE DEF q
  <2>2. Linked(EmptyList, 0, q)
    BY <1>2
  <2>3. HeadSeen(EmptyList)
    BY <1>2
  <2>4. QED
    BY <1>3, <2>1, <2>2, <2>3, DebtsAre
<1>5. redemption.phase = "idle"
  BY <1>1 DEF NoRedemption
<1>6. QED
  BY <1>1, <1>4, <1>5 DEF DebtInv

\* A step on one Safe that leaves the redemption's copy of the storage.
LEMMA RequeuesKeepsDebts ==
  ASSUME Inv, DebtInv, LoneSafeSeen', NEW s \in Safes, NEW safe, RequeuesDebt(s, safe),
         redemption'.phase = redemption.phase, saved' = saved
  PROVE  DebtInv'
<1>1. DebtsIn(safesOrderedForLiquidation', safes')
  BY RequeuedDebts DEF DebtInv
<1>2. QED
  BY <1>1 DEF DebtInv

\* Every step keeps the debts in the queue.
LEMMA DebtStep ==
  Inv /\ Inv' /\ DebtInv /\ LoneSafeSeen' /\ RatiosCount' /\ ~DebtlessTopup /\ [Next]_vars
    => DebtInv'
<1> SUFFICES ASSUME Inv, Inv', DebtInv, LoneSafeSeen', RatiosCount', ~DebtlessTopup, [Next]_vars
             PROVE  DebtInv'
  OBVIOUS
<1>1. CASE OwnerCall
  <2>1. \E s \in Safes : \E safe : RequeuesDebt(s, safe)
    BY <1>1, OwnerRequeuesDebt DEF OwnerCall
  <2>2. redemption' = redemption /\ saved' = saved
    BY <1>1, CallsLeaveCdp
  <2>3. QED
    BY <2>1, <2>2, RequeuesKeepsDebts
<1>2. CASE LiquidationCall
  <2>1. redemption' = redemption /\ saved' = saved
    BY <1>2, CallsLeaveCdp
  <2>2. QED
    BY <1>2, <2>1, LiquidationRequeuesDebt, RequeuesKeepsDebts
<1>3. CASE StakingCall \/ PriceChange \/ UNCHANGED vars
  <2>1. /\ safes' = safes /\ safesOrderedForLiquidation' = safesOrderedForLiquidation
        /\ redemption' = redemption /\ saved' = saved
    BY <1>3, OthersLeaveDebts, CallsLeaveCdp
  <2>2. QED
    BY <2>1 DEF DebtInv
<1>4. CASE RedeemCall
  <2>1. safes' = safes /\ safesOrderedForLiquidation' = safesOrderedForLiquidation
    BY <1>4, OthersLeaveDebts
  <2>2. saved' = Storage
    BY <1>4 DEF RedeemCall, Redeem
  <2>3. saved'.safes = safes /\ saved'.safesOrderedForLiquidation = safesOrderedForLiquidation
    BY <2>2 DEF Storage
  <2>4. QED
    BY <2>1, <2>3 DEF DebtInv
<1>5. CASE RedeemNode
  <2>1. redemption.phase = "redeeming" /\ redemption'.phase = "redeeming" /\ saved' = saved
    BY <1>5, RedeemNodePhase
  <2>2. QED
    BY <1>5, <2>1, RedeemNodeRequeuesDebt, RequeuesKeepsDebts
<1>6. CASE RedeemToUser
  <2>1. safes' = safes /\ safesOrderedForLiquidation' = safesOrderedForLiquidation
    BY <1>6, OthersLeaveDebts
  <2>2. redemption.phase = "redeeming" /\ saved' = saved
    BY <1>6 DEF RedeemToUser, CanRedeemToUser
  <2>3. QED
    BY <2>1, <2>2 DEF DebtInv
<1>7. CASE RedeemSettle
  <2>1. safes' = safes /\ safesOrderedForLiquidation' = safesOrderedForLiquidation
    BY <1>7, OthersLeaveDebts
  <2>2. redemption'.phase = "idle"
    BY <1>7 DEF RedeemSettle, NoRedemption
  <2>3. QED
    BY <2>1, <2>2 DEF DebtInv
<1>8. CASE RedeemRevert
  <2>1. /\ redemption.phase # "idle" /\ safes' = saved.safes
        /\ safesOrderedForLiquidation' = saved.safesOrderedForLiquidation
        /\ redemption' = NoRedemption
    BY <1>8 DEF RedeemRevert
  <2>2. QED
    BY <2>1 DEF DebtInv, NoRedemption
<1>9. QED
  BY <1>1, <1>2, <1>3, <1>4, <1>5, <1>6, <1>7, <1>8 DEF Next, Call, RedemptionStep

\* What the invariant says: the queue is sorted, and has every Safe with a debt.
LEMMA DebtsAreInQueue ==
  ASSUME safesOrderedForLiquidation \in ListType,
         DebtsIn(safesOrderedForLiquidation, safes)
  PROVE  DebtIsQueued
<1> DEFINE l == safesOrderedForLiquidation
<1>1. PICK n \in Nat : \E q :
        /\ Linked(l, n, q)
        /\ \A s \in Ids : safes[s].borrowedAmount > 0 => \E k \in 1 .. n : q[k] = s
  BY DebtsTaken
<1>2. PICK q :
        /\ Linked(l, n, q)
        /\ \A s \in Ids : safes[s].borrowedAmount > 0 => \E k \in 1 .. n : q[k] = s
  BY <1>1
<1>3. Linked(l, n, q)
  BY <1>2
<1>4. /\ Chain(l) = q /\ Members(l) = {q[k] : k \in 1 .. n} /\ Cardinality(Members(l)) = n
  BY <1>3, ChainOfLinked
<1>5. ASSUME NEW k \in 1 .. n - 1
      PROVE  /\ l.nodes[q[k]].value <= l.nodes[q[k + 1]].value
             /\ l.nodes[q[k + 1]].prev = q[k]
  <2>1. k \in 1 .. n /\ k + 1 \in 1 .. n /\ k <= k + 1 /\ k + 1 # 1 /\ (k + 1) - 1 = k
    OBVIOUS
  <2>2. QED
    BY <1>3, <2>1 DEF Linked
<1>6. InOrder(l)
  BY <1>4, <1>5 DEF InOrder
<1>7. \A s \in Safes : safes[s].borrowedAmount > 0 => s \in Members(l)
  BY <1>2, <1>4 DEF Safes
<1>8. QED
  BY <1>6, <1>7 DEF DebtIsQueued

\* So it is until something excuses the code.
DebtInvH == ~excused => DebtInv

LEMMA DebtStepH == Inv /\ Inv' /\ DebtInvH /\ [NextH]_varsH => DebtInvH'
<1> SUFFICES ASSUME Inv, Inv', ~excused => DebtInv, [NextH]_varsH, ~excused'
             PROVE  DebtInv'
  BY DEF DebtInvH
<1>1. CASE NextH
  <2>1. Next /\ excused' = (excused \/ ~LoneSafeSeen' \/ ~RatiosCount' \/ DebtlessTopup)
    BY <1>1 DEF NextH, Remember
  <2>2. ~excused /\ LoneSafeSeen' /\ RatiosCount' /\ ~DebtlessTopup
    BY <2>1, Zenon
  <2>3. QED
    BY <2>1, <2>2, DebtStep
<1>2. CASE UNCHANGED varsH
  <2>1. /\ safes' = safes /\ safesOrderedForLiquidation' = safesOrderedForLiquidation
        /\ redemption' = redemption /\ saved' = saved /\ excused' = excused
    BY <1>2 DEF varsH, vars, queues
  <2>2. QED
    BY <2>1 DEF DebtInv
<1>3. QED
  BY <1>1, <1>2

\* The history variable restricts nothing.
LEMMA RemembersOnly == SpecH => Spec
<1>1. InitH => Init
  BY DEF InitH
<1>2. [NextH]_varsH => [Next]_vars
  BY DEF NextH, varsH
<1>3. QED
  BY <1>1, <1>2, PTL DEF SpecH, Spec

LEMMA DebtInvarianceH == SpecH => []DebtInvH
<1>1. InitH => DebtInvH
  BY DebtInit DEF InitH, DebtInvH
<1>2. QED
  BY <1>1, DebtStepH, RemembersOnly, Invariance, PTL DEF SpecH

\* A Safe with a debt can be found by the keepers, who take the riskiest first, in any
\* history of calls, also those of a redeemer who is paid; until a Safe is alone in
\* the queue with a ratio of 0, or is so large that the smallest debt is none of its
\* collateral, or somebody tops up the fee of a Safe without recorded debt.
THEOREM DebtsAreQueued == SpecH => [](~excused => DebtIsQueued)
<1>1. Inv /\ DebtInvH => (~excused => DebtIsQueued)
  BY DebtsAreInQueue DEF Inv, QueuesSound, DebtInv, DebtInvH
<1>2. QED
  BY <1>1, RemembersOnly, DebtInvarianceH, Invariance, PTL

\* Both queues serve as they should, as long as every place in the redemption queue
\* is one that was paid for: redemptions go by the order of the fees, and every debt is
\* in the liquidation queue until something excuses the code.
THEOREM QueuesAlwaysServe == SpecH /\ []PlacesPaid => []QueuesServe
<1>1. PlacesPaid /\ RedemptionOrder /\ EachSafeOnce /\ (~excused => DebtIsQueued) => QueuesServe
  BY DEF QueuesServe
<1>2. QED
  BY <1>1, RemembersOnly, RedemptionsInOrder, DebtsAreQueued, PTL

-----------------------------------------------------------------------------
(***************************************************************************)
(* The amounts.  The ETH of the CDP and the DFID in circulation are        *)
(* accounted for: for any number of Safes, liquidations and updates in any *)
(* order, nothing is lost or counted twice, up to one unit for each amount *)
(* that was rounded.                                                       *)
(***************************************************************************)

\* A Safe that has taken its share of the collateral has taken that of the debt.
UpToDate ==
  \A s \in Safes : Outdated(s) \/ liquidationSnapshots[s].debt = cumulativeDebtPerUnitCollateral

Accounted == EthAccounted /\ (~debtAlone => UpToDate /\ DebtAccounted)

\* The same of a storage between transactions.
EthAccountedIn(st) ==
  LET recorded == Sum([s \in Safes |-> st.safes[s].collateralAmount], MaxId)
      pending  == Sum([s \in Safes |-> st.safes[s].collateralAmount
                         * (st.cumulativeCollateralPerUnitCollateral
                              - st.liquidationSnapshots[s].collateral)], MaxId)
      owed     == PRECISION * (recorded + st.collateralLoss) + pending + st.unclaimed.collateral
  IN  PRECISION * st.eth - owed \in -(PRECISION * st.roundings) .. PRECISION * st.roundings

DebtAccountedIn(st) ==
  LET recorded == Sum([s \in Safes |-> st.safes[s].borrowedAmount], MaxId)
      pending  == Sum([s \in Safes |-> st.safes[s].collateralAmount
                         * (st.cumulativeDebtPerUnitCollateral - st.liquidationSnapshots[s].debt)],
                      MaxId)
      owed     == PRECISION * (recorded + st.debtLoss) + pending + st.unclaimed.debt
      supply   == st.sbd.public + st.sbd.cdp + st.sbd.pool + st.sbd.sbr
  IN  PRECISION * supply - owed \in -(PRECISION * st.roundings) .. PRECISION * st.roundings

UpToDateIn(st) ==
  \A s \in Safes :
    \/ st.liquidationSnapshots[s].collateral # st.cumulativeCollateralPerUnitCollateral
    \/ st.liquidationSnapshots[s].debt = st.cumulativeDebtPerUnitCollateral

AccountedIn(st) ==
  EthAccountedIn(st) /\ (~st.debtAlone => UpToDateIn(st) /\ DebtAccountedIn(st))

AmountsInv == Accounted /\ (redemption.phase # "idle" => AccountedIn(saved))

-----------------------------------------------------------------------------
(* Arithmetic. *)

\* What a call does to one of the two currencies: what there is of it, what the
\* Safes have recorded, what rounding left, what is pending, what is nobody's;
\* the Safe's record before and after, its share of what was redistributed and
\* what the update rounds away of it; what the Safe gives up to be redistributed,
\* and how much the accumulator then adds to what is pending.
CallAmounts ==
  [held : Int, held2 : Int, recorded : Int, recorded2 : Int, loss : Int, loss2 : Int,
   pending : Int, pending2 : Int, unclaimed : Int, unclaimed2 : Int,
   old : Int, new : Int, increase : Int, rounded : Int, given : Int, distributed : Int,
   roundings : Nat, k : Nat, m : Nat]

Owed(recorded, loss, pending, nobodys) == PRECISION * (recorded + loss) + pending + nobodys

\* held and owed move apart by what the update rounds away and by what the
\* redistribution does, at most a unit for each rounding.
LEMMA GapStep ==
  ASSUME NEW g \in CallAmounts,
         PRECISION * g.held - Owed(g.recorded, g.loss, g.pending, g.unclaimed)
           \in -(PRECISION * g.roundings) .. PRECISION * g.roundings,
         g.held2 = g.held + g.new - (g.old + g.increase) + g.given,
         g.recorded2 = g.recorded - g.old + g.new,
         g.pending2 = g.pending - (PRECISION * g.increase + g.rounded) + g.distributed,
         g.rounded \in 0 .. PRECISION * g.k,
         PRECISION * (g.given - (g.loss2 - g.loss))
           - (g.distributed + (g.unclaimed2 - g.unclaimed)) \in -(PRECISION * g.m) .. 0
  PROVE  PRECISION * g.held2 - Owed(g.recorded2, g.loss2, g.pending2, g.unclaimed2)
           \in -(PRECISION * (g.roundings + g.k + g.m)) .. PRECISION * (g.roundings + g.k + g.m)
<1>1. PICK p \in Nat : p = PRECISION
  BY StableBaseAssumption
<1> DEFINE held == g.held          held2 == g.held2
           rec == g.recorded       rec2 == g.recorded2
           loss == g.loss          loss2 == g.loss2
           pend == g.pending       pend2 == g.pending2
           un == g.unclaimed       un2 == g.unclaimed2
           old == g.old            new == g.new
           inc == g.increase       e == g.rounded
           given == g.given        x == g.distributed
           r == g.roundings        k == g.k             m == g.m
<1>2. /\ held \in Int /\ held2 \in Int /\ rec \in Int /\ rec2 \in Int /\ loss \in Int
      /\ loss2 \in Int /\ pend \in Int /\ pend2 \in Int /\ un \in Int /\ un2 \in Int
      /\ old \in Int /\ new \in Int /\ inc \in Int /\ e \in Int /\ given \in Int /\ x \in Int
      /\ r \in Int /\ k \in Int /\ m \in Int
  BY DEF CallAmounts
<1>3. /\ p * held - (p * (rec + loss) + pend + un) \in -(p * r) .. p * r
      /\ held2 = held + new - (old + inc) + given
      /\ rec2 = rec - old + new
      /\ pend2 = pend - (p * inc + e) + x
      /\ e \in 0 .. p * k
      /\ p * (given - (loss2 - loss)) - (x + (un2 - un)) \in -(p * m) .. 0
  BY <1>1 DEF Owed
<1> HIDE DEF held, held2, rec, rec2, loss, loss2, pend, pend2, un, un2, old, new, inc, e, given,
             x, r, k, m
<1>4. PICK a, b, c, d, f, h, l, q, t, u, v \in Int :
        /\ a = p * held /\ b = p * new /\ c = p * old /\ d = p * inc /\ f = p * given
        /\ h = p * loss2 /\ l = p * loss /\ q = p * r /\ t = p * k /\ u = p * m /\ v = p * rec
  BY <1>2
<1>5. /\ p * (rec + loss) = v + l
      /\ p * (given - (loss2 - loss)) = f - (h - l)
      /\ p * held2 = a + b - c - d + f
      /\ p * (rec2 + loss2) = v - c + b + h
      /\ p * (r + k + m) = q + t + u
  BY <1>2, <1>3, <1>4
<1>6. /\ a - (v + l + pend + un) \in -q .. q
      /\ pend2 = pend - (d + e) + x
      /\ e \in 0 .. t
      /\ f - (h - l) - (x + (un2 - un)) \in -u .. 0
  BY <1>2, <1>3, <1>4, <1>5
<1>7. p * held2 - (p * (rec2 + loss2) + pend2 + un2) \in -(p * (r + k + m)) .. p * (r + k + m)
  <2>1. (a + b - c - d + f) - (v - c + b + h + pend2 + un2) \in -(q + t + u) .. q + t + u
    BY <1>2, <1>6
  <2>2. QED
    BY <1>5, <2>1
<1>8. QED
  BY <1>1, <1>7
     DEF Owed, held, held2, rec, rec2, loss, loss2, pend, pend2, un, un2, old, new, inc, e, given,
         x, r, k, m

\* What redistribution rounds away when it divides, it carries over, but for less
\* than a unit.
LEMMA CarriedOver ==
  ASSUME NEW amount \in Nat, NEW over \in Nat \ {0}
  PROVE  PRECISION * (amount - LossOf(amount, over)) - PerUnitCollateral(amount, over) * over
           \in -PRECISION .. 0
<1>1. PRECISION \in Nat \ {0}
  BY StableBaseAssumption
<1>2. PICK unit \in Nat : unit = PerUnitCollateral(amount, over)
  BY DistributionType
<1>3. PICK t \in Nat : t = unit * over
  OBVIOUS
<1>4. PICK q \in Nat : q = t \div PRECISION
  BY <1>1
<1>5. PRECISION * q <= t /\ t <= PRECISION * q + PRECISION
  BY <1>1, <1>4
<1>6. amount - LossOf(amount, over) = q
  BY <1>2, <1>3, <1>4 DEF LossOf
<1>7. PRECISION * q - t \in -PRECISION .. 0
  BY <1>1, <1>5
<1>8. QED
  BY <1>2, <1>3, <1>6, <1>7

\* A sum when one term is dropped and i times another function is added.
LEMMA SumShifted ==
  ASSUME NEW n \in Nat, NEW f \in [1 .. n -> Int], NEW k \in 1 .. n, NEW i \in Int,
         NEW amounts \in [1 .. n -> Int], NEW h \in [1 .. n -> Int],
         \A t \in 1 .. n : h[t] = (IF t = k THEN 0 ELSE f[t]) + i * amounts[t]
  PROVE  Sum(h, n) = Sum(f, n) - f[k] + i * Sum(amounts, n)
<1>1. PICK zero \in Int : zero = 0
  OBVIOUS
<1>2. PICK g \in [1 .. n -> Int] : g = [f EXCEPT ![k] = zero]
  OBVIOUS
<1>3. \A t \in 1 .. n : h[t] = g[t] + i * amounts[t]
  BY <1>1, <1>2
<1>4. Sum([f EXCEPT ![k] = zero], n) = Sum(f, n) - f[k] + zero
  BY SumUpdate
<1>5. Sum(h, n) = Sum(g, n) + i * Sum(amounts, n)
  BY <1>3, SumLinear, ZenonT(60)
<1>6. Sum(f, n) \in Int /\ Sum(amounts, n) \in Int /\ f[k] \in Int
  BY SumType
<1>7. i * Sum(amounts, n) \in Int
  BY <1>6
<1>8. QED
  BY <1>1, <1>2, <1>4, <1>5, <1>6, <1>7

\* A product of an amount and of what an accumulator is ahead of a snapshot, when
\* the accumulator grows by i.
LEMMA ShareGrows ==
  ASSUME NEW q \in Int, NEW a \in Int, NEW i \in Int, NEW y \in Int
  PROVE  q * ((a + i) - y) = q * (a - y) + i * q /\ (y = a => q * (a - y) = 0)
OBVIOUS

-----------------------------------------------------------------------------
(* What one call does to the two amounts. *)

\* What is pending for a Safe, in either currency, is an integer.
LEMMA SharesType ==
  ASSUME SafesSound, NEW s \in Safes
  PROVE  /\ safes[s].collateralAmount \in Nat /\ safes[s].borrowedAmount \in Nat
         /\ cumulativeCollateralPerUnitCollateral \in Nat
         /\ cumulativeDebtPerUnitCollateral \in Nat
         /\ liquidationSnapshots[s].collateral \in Nat /\ liquidationSnapshots[s].debt \in Nat
         /\ cumulativeCollateralPerUnitCollateral - liquidationSnapshots[s].collateral \in Nat
         /\ cumulativeDebtPerUnitCollateral - liquidationSnapshots[s].debt \in Nat
         /\ safes[s].collateralAmount
              * (cumulativeCollateralPerUnitCollateral - liquidationSnapshots[s].collateral) \in Nat
         /\ safes[s].collateralAmount
              * (cumulativeDebtPerUnitCollateral - liquidationSnapshots[s].debt) \in Nat
<1>1. /\ safes[s] \in Safe /\ liquidationSnapshots[s] \in Snapshot
      /\ cumulativeCollateralPerUnitCollateral \in Nat /\ cumulativeDebtPerUnitCollateral \in Nat
      /\ liquidationSnapshots[s].collateral <= cumulativeCollateralPerUnitCollateral
      /\ liquidationSnapshots[s].debt <= cumulativeDebtPerUnitCollateral
  BY DEF SafesSound, SnapshotsBehind
<1>2. /\ safes[s].collateralAmount \in Nat /\ safes[s].borrowedAmount \in Nat
      /\ liquidationSnapshots[s].collateral \in Nat /\ liquidationSnapshots[s].debt \in Nat
  BY <1>1 DEF Safe, Snapshot
<1>3. /\ cumulativeCollateralPerUnitCollateral - liquidationSnapshots[s].collateral \in Nat
      /\ cumulativeDebtPerUnitCollateral - liquidationSnapshots[s].debt \in Nat
  BY <1>1, <1>2
<1>4. \A m, n \in Nat : m * n \in Nat
  OBVIOUS
<1>5. QED
  BY <1>1, <1>2, <1>3, <1>4

\* So the sums are those of functions of integers.
LEMMA PendingType ==
  ASSUME SafesSound
  PROVE  /\ [s \in Safes |-> safes[s].collateralAmount
               * (cumulativeCollateralPerUnitCollateral - liquidationSnapshots[s].collateral)]
              \in [1 .. MaxId -> Int]
         /\ [s \in Safes |-> safes[s].collateralAmount
               * (cumulativeDebtPerUnitCollateral - liquidationSnapshots[s].debt)]
              \in [1 .. MaxId -> Int]
         /\ PendingCollateral \in Int /\ PendingDebt \in Int
<1> DEFINE f == [s \in Safes |-> safes[s].collateralAmount
                    * (cumulativeCollateralPerUnitCollateral - liquidationSnapshots[s].collateral)]
           g == [s \in Safes |-> safes[s].collateralAmount
                    * (cumulativeDebtPerUnitCollateral - liquidationSnapshots[s].debt)]
<1>1. f \in [Safes -> Nat] /\ g \in [Safes -> Nat]
  BY SharesType
<1>2. PendingCollateral = Sum(f, MaxId) /\ PendingDebt = Sum(g, MaxId)
  BY DEF PendingCollateral, PendingDebt
<1> HIDE DEF f, g
<1>3. f \in [1 .. MaxId -> Int] /\ g \in [1 .. MaxId -> Int]
  BY <1>1 DEF Safes, Ids
<1>4. PendingCollateral \in Int /\ PendingDebt \in Int
  BY <1>2, <1>3, SumType, MaxIdAssumption
<1>5. QED
  BY <1>3, <1>4 DEF f, g

\* A Safe and a snapshot are written, and the accumulators grow by i and j: when
\* the snapshot is up to date, nothing is pending for that Safe any more but its
\* part of i and j, which are for all collateral.
LEMMA PendingWritten ==
  ASSUME SafesSound, SafesSound', NEW s \in Safes, NEW safe \in Safe, NEW snapshot \in Snapshot,
         safes' = [safes EXCEPT ![s] = safe],
         liquidationSnapshots' = [liquidationSnapshots EXCEPT ![s] = snapshot],
         NEW i \in Nat, NEW j \in Nat,
         cumulativeCollateralPerUnitCollateral' = cumulativeCollateralPerUnitCollateral + i,
         cumulativeDebtPerUnitCollateral' = cumulativeDebtPerUnitCollateral + j
  PROVE  /\ snapshot.collateral = cumulativeCollateralPerUnitCollateral =>
              PendingCollateral' =
                PendingCollateral
                  - safes[s].collateralAmount
                      * (cumulativeCollateralPerUnitCollateral - liquidationSnapshots[s].collateral)
                  + i * RecordedCollateral'
         /\ snapshot.debt = cumulativeDebtPerUnitCollateral =>
              PendingDebt' =
                PendingDebt
                  - safes[s].collateralAmount
                      * (cumulativeDebtPerUnitCollateral - liquidationSnapshots[s].debt)
                  + j * RecordedCollateral'
<1>1. PICK a \in Int : a = cumulativeCollateralPerUnitCollateral
  BY DEF SafesSound
<1>2. PICK b \in Int : b = cumulativeDebtPerUnitCollateral
  BY DEF SafesSound
<1>3. MaxId \in Nat /\ s \in 1 .. MaxId /\ Safes = 1 .. MaxId
  BY MaxIdAssumption DEF Safes, Ids
<1>4. PICK f, g :
        /\ f \in [1 .. MaxId -> Int] /\ g \in [1 .. MaxId -> Int]
        /\ f = [t \in Safes |-> safes[t].collateralAmount
                  * (cumulativeCollateralPerUnitCollateral - liquidationSnapshots[t].collateral)]
        /\ g = [t \in Safes |-> safes[t].collateralAmount
                  * (cumulativeDebtPerUnitCollateral - liquidationSnapshots[t].debt)]
  BY PendingType
<1>5. \A t \in Safes :
        /\ safes'[t] \in Safe /\ liquidationSnapshots'[t] \in Snapshot
        /\ safes'[t] = (IF t = s THEN safe ELSE safes[t])
        /\ liquidationSnapshots'[t] = (IF t = s THEN snapshot ELSE liquidationSnapshots[t])
  BY DEF SafesSound
<1>6. PICK amounts, h, k :
        /\ amounts = [t \in Safes |-> safes'[t].collateralAmount]
        /\ h = [t \in Safes |-> safes'[t].collateralAmount
                  * (cumulativeCollateralPerUnitCollateral' - liquidationSnapshots'[t].collateral)]
        /\ k = [t \in Safes |-> safes'[t].collateralAmount
                  * (cumulativeDebtPerUnitCollateral' - liquidationSnapshots'[t].debt)]
  OBVIOUS
<1>7. PICK x, y : /\ x = [t \in Safes |-> liquidationSnapshots[t].collateral]
                  /\ y = [t \in Safes |-> liquidationSnapshots[t].debt]
  OBVIOUS
<1>8. /\ PendingCollateral = Sum(f, MaxId) /\ PendingDebt = Sum(g, MaxId)
      /\ PendingCollateral' = Sum(h, MaxId) /\ PendingDebt' = Sum(k, MaxId)
      /\ RecordedCollateral' = Sum(amounts, MaxId)
  BY <1>4, <1>6 DEF PendingCollateral, PendingDebt, RecordedCollateral
<1>9. ASSUME NEW t \in Safes
      PROVE  /\ amounts[t] \in Int /\ x[t] \in Int /\ y[t] \in Int
             /\ h[t] \in Int /\ k[t] \in Int
             /\ h[t] = amounts[t] * ((a + i) - (IF t = s THEN snapshot.collateral ELSE x[t]))
             /\ k[t] = amounts[t] * ((b + j) - (IF t = s THEN snapshot.debt ELSE y[t]))
             /\ t # s => f[t] = amounts[t] * (a - x[t]) /\ g[t] = amounts[t] * (b - y[t])
  <2>1. safes'[t] \in Safe /\ liquidationSnapshots'[t] \in Snapshot
        /\ liquidationSnapshots[t] \in Snapshot
    BY <1>5 DEF SafesSound
  <2>2. /\ amounts[t] = safes'[t].collateralAmount /\ amounts[t] \in Nat
        /\ x[t] = liquidationSnapshots[t].collateral /\ x[t] \in Nat
        /\ y[t] = liquidationSnapshots[t].debt /\ y[t] \in Nat
    BY <1>6, <1>7, <2>1 DEF Safe, Snapshot
  <2>3. /\ liquidationSnapshots'[t].collateral = (IF t = s THEN snapshot.collateral ELSE x[t])
        /\ liquidationSnapshots'[t].debt = (IF t = s THEN snapshot.debt ELSE y[t])
        /\ t # s => safes[t].collateralAmount = amounts[t]
    BY <1>5, <2>2
  <2>4. /\ h[t] = amounts[t] * ((a + i) - (IF t = s THEN snapshot.collateral ELSE x[t]))
        /\ k[t] = amounts[t] * ((b + j) - (IF t = s THEN snapshot.debt ELSE y[t]))
    BY <1>1, <1>2, <1>6, <2>2, <2>3
  <2>5. t # s => f[t] = amounts[t] * (a - x[t]) /\ g[t] = amounts[t] * (b - y[t])
    BY <1>1, <1>2, <1>4, <2>2, <2>3
  <2>6. snapshot.collateral \in Nat /\ snapshot.debt \in Nat
    BY DEF Snapshot
  <2>7. /\ (a + i) - (IF t = s THEN snapshot.collateral ELSE x[t]) \in Int
        /\ (b + j) - (IF t = s THEN snapshot.debt ELSE y[t]) \in Int
    BY <2>2, <2>6
  <2>8. \A m, n \in Int : m * n \in Int
    OBVIOUS
  <2>9. h[t] \in Int /\ k[t] \in Int
    BY <2>2, <2>4, <2>7, <2>8
  <2>10. QED
    BY <2>2, <2>4, <2>5, <2>9
<1>10. /\ h \in [1 .. MaxId -> Int] /\ k \in [1 .. MaxId -> Int]
       /\ amounts \in [1 .. MaxId -> Int]
  <2>1. h = [t \in Safes |-> h[t]] /\ k = [t \in Safes |-> k[t]]
        /\ amounts = [t \in Safes |-> amounts[t]]
    BY <1>6
  <2>2. QED
    BY <1>3, <1>9, <2>1
<1>11. /\ f[s] = safes[s].collateralAmount
                  * (cumulativeCollateralPerUnitCollateral - liquidationSnapshots[s].collateral)
       /\ g[s] = safes[s].collateralAmount
                  * (cumulativeDebtPerUnitCollateral - liquidationSnapshots[s].debt)
  BY <1>4
<1>12. ASSUME snapshot.collateral = a
       PROVE  Sum(h, MaxId) = Sum(f, MaxId) - f[s] + i * Sum(amounts, MaxId)
  <2>1. \A t \in 1 .. MaxId : h[t] = (IF t = s THEN 0 ELSE f[t]) + i * amounts[t]
    <3> TAKE t \in 1 .. MaxId
    <3>1. PICK y0 \in Int : y0 = IF t = s THEN a ELSE x[t]
      BY <1>3, <1>9
    <3>2. amounts[t] \in Int /\ h[t] = amounts[t] * ((a + i) - y0)
          /\ (t # s => f[t] = amounts[t] * (a - y0))
      BY <1>3, <1>9, <1>12, <3>1
    <3>3. h[t] = amounts[t] * (a - y0) + i * amounts[t]
          /\ (y0 = a => amounts[t] * (a - y0) = 0)
      BY <3>2, ShareGrows
    <3>4. QED
      BY <3>1, <3>2, <3>3
  <2>2. MaxId \in Nat
    BY <1>3
  <2>3. s \in 1 .. MaxId
    BY <1>3
  <2>4. i \in Int
    OBVIOUS
  <2>5. f \in [1 .. MaxId -> Int]
    BY <1>4
  <2>6. h \in [1 .. MaxId -> Int]
    BY <1>10
  <2>7. amounts \in [1 .. MaxId -> Int]
    BY <1>10
  <2>8. QED
    BY ONLY <2>1, <2>2, <2>3, <2>4, <2>5, <2>6, <2>7, SumShifted, ZenonT(60)
<1>13. ASSUME snapshot.debt = b
       PROVE  Sum(k, MaxId) = Sum(g, MaxId) - g[s] + j * Sum(amounts, MaxId)
  <2>1. \A t \in 1 .. MaxId : k[t] = (IF t = s THEN 0 ELSE g[t]) + j * amounts[t]
    <3> TAKE t \in 1 .. MaxId
    <3>1. PICK y0 \in Int : y0 = IF t = s THEN b ELSE y[t]
      BY <1>3, <1>9
    <3>2. amounts[t] \in Int /\ k[t] = amounts[t] * ((b + j) - y0)
          /\ (t # s => g[t] = amounts[t] * (b - y0))
      BY <1>3, <1>9, <1>13, <3>1
    <3>3. k[t] = amounts[t] * (b - y0) + j * amounts[t]
          /\ (y0 = b => amounts[t] * (b - y0) = 0)
      BY <3>2, ShareGrows
    <3>4. QED
      BY <3>1, <3>2, <3>3
  <2>2. MaxId \in Nat
    BY <1>3
  <2>3. s \in 1 .. MaxId
    BY <1>3
  <2>4. j \in Int
    OBVIOUS
  <2>5. g \in [1 .. MaxId -> Int]
    BY <1>4
  <2>6. k \in [1 .. MaxId -> Int]
    BY <1>10
  <2>7. amounts \in [1 .. MaxId -> Int]
    BY <1>10
  <2>8. QED
    BY ONLY <2>1, <2>2, <2>3, <2>4, <2>5, <2>6, <2>7, SumShifted, ZenonT(60)
<1>14. QED
  BY <1>1, <1>2, <1>8, <1>11, <1>12, <1>13

\* An update takes what is pending for the Safe, less what it rounds away.
LEMMA UpdateRounds ==
  ASSUME SafesSound, NEW s \in Safes
  PROVE  /\ safes[s].collateralAmount
              * (cumulativeCollateralPerUnitCollateral - liquidationSnapshots[s].collateral)
              - PRECISION * CollateralIncrease(s) \in 0 .. PRECISION * NewRoundings(s)
         /\ Outdated(s) \/ liquidationSnapshots[s].debt = cumulativeDebtPerUnitCollateral =>
              safes[s].collateralAmount
                * (cumulativeDebtPerUnitCollateral - liquidationSnapshots[s].debt)
                - PRECISION * DebtIncrease(s) \in 0 .. PRECISION * NewRoundings(s)
<1>1. PICK x, y \in Nat :
        /\ x = safes[s].collateralAmount
                 * (cumulativeCollateralPerUnitCollateral - liquidationSnapshots[s].collateral)
        /\ y = safes[s].collateralAmount
                 * (cumulativeDebtPerUnitCollateral - liquidationSnapshots[s].debt)
  BY SharesType
<1>2. PRECISION \in Nat \ {0}
  BY StableBaseAssumption
<1>3. \A z \in Nat : z - PRECISION * (z \div PRECISION) \in 0 .. PRECISION * 1
  BY <1>2
<1>4. 0 - PRECISION * 0 \in 0 .. PRECISION * 0
  BY <1>2
<1>5. CASE Outdated(s)
  BY <1>1, <1>3, <1>5 DEF CollateralIncrease, DebtIncrease, NewRoundings
<1>6. CASE ~Outdated(s)
  <2>1. /\ CollateralIncrease(s) = 0 /\ DebtIncrease(s) = 0 /\ NewRoundings(s) = 0
        /\ liquidationSnapshots[s].collateral = cumulativeCollateralPerUnitCollateral
    BY <1>6 DEF CollateralIncrease, DebtIncrease, NewRoundings, Outdated
  <2>2. /\ safes[s].collateralAmount \in Nat
        /\ cumulativeCollateralPerUnitCollateral \in Nat
        /\ cumulativeDebtPerUnitCollateral \in Nat
    BY SharesType
  <2>3. \A q, a \in Nat : q * (a - a) = 0
    OBVIOUS
  <2>4. x = 0
    BY <1>1, <2>1, <2>2, <2>3
  <2>5. liquidationSnapshots[s].debt = cumulativeDebtPerUnitCollateral => y = 0
    BY <1>1, <2>2, <2>3
  <2>6. QED
    BY <1>1, <1>4, <1>6, <2>1, <2>4, <2>5
<1>7. QED
  BY <1>5, <1>6

\* The integers that the two equations are about.
LEMMA AmountsType ==
  ASSUME Inv
  PROVE  /\ EthOfSafes \in Int /\ Supply - ToBurn \in Int
         /\ RecordedCollateral \in Int /\ RecordedDebt \in Int
         /\ PendingCollateral \in Int /\ PendingDebt \in Int
         /\ collateralLoss \in Nat /\ debtLoss \in Nat /\ roundings \in Nat
         /\ unclaimed.collateral \in Nat /\ unclaimed.debt \in Nat
<1>1. InFlightCollateral \in Nat /\ ToBurn \in Nat
  BY TotalsType DEF Inv
<1>2. sbd.public \in Nat /\ sbd.cdp \in Nat /\ sbd.pool \in Nat /\ sbd.sbr \in Nat
  BY DEF Inv, MoneySound, Accounts
<1>3. EthOfSafes \in Int /\ Supply - ToBurn \in Int
  BY <1>1, <1>2 DEF EthOfSafes, Supply, Inv, RestSound
<1>4. RecordedCollateral \in Int /\ RecordedDebt \in Int
  BY RecordedType DEF Inv, SafesSound
<1>5. PendingCollateral \in Int /\ PendingDebt \in Int
  BY PendingType DEF Inv
<1>6. QED
  BY <1>3, <1>4, <1>5 DEF Inv, RestSound, Snapshot

\* A call that writes one Safe, updated, and its snapshot, and may redistribute
\* c of ETH and d of debt: the amounts stay accounted for, if the call moves the
\* ETH and the DFID by what it changes in the Safe and by what it redistributes.
LEMMA AccountedWritten ==
  ASSUME Inv, Inv', Accounted,
         NEW s \in Safes, NEW safe \in Safe, NEW snapshot \in Snapshot,
         safes' = [safes EXCEPT ![s] = safe],
         liquidationSnapshots' = [liquidationSnapshots EXCEPT ![s] = snapshot],
         snapshot.collateral = cumulativeCollateralPerUnitCollateral,
         ~debtAlone => snapshot.debt = cumulativeDebtPerUnitCollateral,
         NEW i \in Nat, NEW j \in Nat,
         cumulativeCollateralPerUnitCollateral' = cumulativeCollateralPerUnitCollateral + i,
         cumulativeDebtPerUnitCollateral' = cumulativeDebtPerUnitCollateral + j,
         debtAlone \/ (i = 0 /\ j # 0) => debtAlone',
         NEW k \in Nat, NEW m \in Nat, roundings' = roundings + k + m,
         safes[s].collateralAmount
           * (cumulativeCollateralPerUnitCollateral - liquidationSnapshots[s].collateral)
           - PRECISION * CollateralIncrease(s) \in 0 .. PRECISION * k,
         ~debtAlone =>
           safes[s].collateralAmount
             * (cumulativeDebtPerUnitCollateral - liquidationSnapshots[s].debt)
             - PRECISION * DebtIncrease(s) \in 0 .. PRECISION * k,
         NEW c \in Int, NEW d \in Int,
         EthOfSafes' =
           EthOfSafes + safe.collateralAmount - UpdatedSafe(s).collateralAmount + c,
         Supply' - ToBurn' =
           Supply - ToBurn + safe.borrowedAmount - UpdatedSafe(s).borrowedAmount + d,
         PRECISION * (c - (collateralLoss' - collateralLoss))
           - (i * RecordedCollateral' + (unclaimed'.collateral - unclaimed.collateral))
           \in -(PRECISION * m) .. 0,
         PRECISION * (d - (debtLoss' - debtLoss))
           - (j * RecordedCollateral' + (unclaimed'.debt - unclaimed.debt))
           \in -(PRECISION * m) .. 0
  PROVE  Accounted'
<1>1. /\ safes \in [Safes -> Safe] /\ SafesSound /\ SafesSound'
      /\ collateralLoss' \in Nat /\ debtLoss' \in Nat
      /\ unclaimed'.collateral \in Nat /\ unclaimed'.debt \in Nat
  BY DEF Inv, SafesSound, RestSound, Snapshot
<1>2. /\ RecordedCollateral' = RecordedCollateral - safes[s].collateralAmount + safe.collateralAmount
      /\ RecordedDebt' = RecordedDebt - safes[s].borrowedAmount + safe.borrowedAmount
  BY <1>1, RecordedUpdate
<1>3. /\ CollateralIncrease(s) \in Nat /\ DebtIncrease(s) \in Nat
      /\ safes[s].collateralAmount \in Nat /\ safes[s].borrowedAmount \in Nat
      /\ safe.collateralAmount \in Nat /\ safe.borrowedAmount \in Nat
      /\ UpdatedSafe(s).collateralAmount = safes[s].collateralAmount + CollateralIncrease(s)
      /\ UpdatedSafe(s).borrowedAmount = safes[s].borrowedAmount + DebtIncrease(s)
  BY <1>1, UpdatedType DEF Safe
<1>4. PICK shareC, shareD \in Nat :
        /\ shareC = safes[s].collateralAmount
             * (cumulativeCollateralPerUnitCollateral - liquidationSnapshots[s].collateral)
        /\ shareD = safes[s].collateralAmount
             * (cumulativeDebtPerUnitCollateral - liquidationSnapshots[s].debt)
  BY <1>1, SharesType
<1>5. /\ PendingCollateral' = PendingCollateral - shareC + i * RecordedCollateral'
      /\ ~debtAlone => PendingDebt' = PendingDebt - shareD + j * RecordedCollateral'
  BY <1>1, <1>4, PendingWritten, ZenonT(60)
<1>6. PICK eC, eD \in Int : /\ eC = shareC - PRECISION * CollateralIncrease(s)
                            /\ eD = shareD - PRECISION * DebtIncrease(s)
  BY <1>3, <1>4, StableBaseAssumption
<1>7. PICK xC, xD \in Int : xC = i * RecordedCollateral' /\ xD = j * RecordedCollateral'
  <2>1. RecordedCollateral' \in Int
    BY <1>2, <1>3, AmountsType
  <2>2. \A a, b \in Int : a * b \in Int
    OBVIOUS
  <2>3. i * RecordedCollateral' \in Int /\ j * RecordedCollateral' \in Int
    BY <2>1, <2>2
  <2>4. QED
    BY <2>3
<1>8. EthAccounted'
  <2> DEFINE g == [held |-> EthOfSafes, held2 |-> EthOfSafes',
                   recorded |-> RecordedCollateral, recorded2 |-> RecordedCollateral',
                   loss |-> collateralLoss, loss2 |-> collateralLoss',
                   pending |-> PendingCollateral, pending2 |-> PendingCollateral',
                   unclaimed |-> unclaimed.collateral, unclaimed2 |-> unclaimed'.collateral,
                   old |-> safes[s].collateralAmount, new |-> safe.collateralAmount,
                   increase |-> CollateralIncrease(s), rounded |-> eC,
                   given |-> c, distributed |-> xC,
                   roundings |-> roundings, k |-> k, m |-> m]
  <2>1. RecordedCollateral' \in Int /\ PendingCollateral' \in Int
    <3>1. PendingCollateral' = PendingCollateral - shareC + xC /\ PendingCollateral \in Int
      BY <1>5, <1>7, AmountsType
    <3>2. RecordedCollateral' \in Int
      BY <1>2, <1>3, AmountsType
    <3>3. QED
      BY <3>1, <3>2
  <2>2. EthOfSafes' \in Int
    BY <1>1, <1>3, AmountsType
  <2>3. g \in CallAmounts
    BY <1>1, <1>3, <1>6, <1>7, <2>1, <2>2, AmountsType DEF CallAmounts
  <2>4. PRECISION * g.held - Owed(g.recorded, g.loss, g.pending, g.unclaimed)
          \in -(PRECISION * g.roundings) .. PRECISION * g.roundings
    BY Zenon DEF Accounted, EthAccounted, Near, Owed
  <2>5. /\ g.held2 = g.held + g.new - (g.old + g.increase) + g.given
        /\ g.recorded2 = g.recorded - g.old + g.new
    BY <1>2, <1>3, AmountsType
  <2>6. g.pending2 = g.pending - (PRECISION * g.increase + g.rounded) + g.distributed
    BY <1>3, <1>4, <1>5, <1>6, <1>7, AmountsType, StableBaseAssumption
  <2>7. /\ g.rounded \in 0 .. PRECISION * g.k
        /\ PRECISION * (g.given - (g.loss2 - g.loss))
             - (g.distributed + (g.unclaimed2 - g.unclaimed)) \in -(PRECISION * g.m) .. 0
    BY <1>4, <1>6, <1>7
  <2>8. roundings' = g.roundings + g.k + g.m
    OBVIOUS
  <2>9. /\ g.held2 = EthOfSafes'
        /\ Owed(g.recorded2, g.loss2, g.pending2, g.unclaimed2)
             = PRECISION * (RecordedCollateral' + collateralLoss') + PendingCollateral' + unclaimed'.collateral
    BY DEF Owed
  <2> HIDE DEF g
  <2>10. PRECISION * g.held2 - Owed(g.recorded2, g.loss2, g.pending2, g.unclaimed2)
           \in -(PRECISION * (g.roundings + g.k + g.m)) .. PRECISION * (g.roundings + g.k + g.m)
    BY <2>3, <2>4, <2>5, <2>6, <2>7, GapStep
  <2>11. QED
    BY <2>8, <2>9, <2>10 DEF EthAccounted, Near
<1>9. ASSUME ~debtAlone' PROVE UpToDate'
  <2> SUFFICES ASSUME NEW t \in Safes
               PROVE  \/ liquidationSnapshots'[t].collateral
                            # cumulativeCollateralPerUnitCollateral'
                      \/ liquidationSnapshots'[t].debt = cumulativeDebtPerUnitCollateral'
    BY DEF UpToDate, Outdated
  <2>1. ~debtAlone /\ (i = 0 => j = 0)
    BY <1>9
  <2>2. /\ liquidationSnapshots'[t] = (IF t = s THEN snapshot ELSE liquidationSnapshots[t])
        /\ cumulativeCollateralPerUnitCollateral \in Nat /\ cumulativeDebtPerUnitCollateral \in Nat
        /\ liquidationSnapshots[t].collateral \in Nat
        /\ liquidationSnapshots[t].collateral <= cumulativeCollateralPerUnitCollateral
    BY <1>1, SharesType DEF SafesSound, SnapshotsBehind
  <2>3. /\ liquidationSnapshots'[t].collateral \in Nat
        /\ liquidationSnapshots'[t].collateral <= cumulativeCollateralPerUnitCollateral
    BY <2>2
  <2>4. \/ liquidationSnapshots[t].collateral # cumulativeCollateralPerUnitCollateral
        \/ liquidationSnapshots[t].debt = cumulativeDebtPerUnitCollateral
    BY <2>1 DEF Accounted, UpToDate, Outdated
  <2>5. QED
    BY <2>1, <2>2, <2>3, <2>4
<1>10. ASSUME ~debtAlone' PROVE DebtAccounted'
  <2> DEFINE g == [held |-> Supply - ToBurn, held2 |-> Supply' - ToBurn',
                   recorded |-> RecordedDebt, recorded2 |-> RecordedDebt',
                   loss |-> debtLoss, loss2 |-> debtLoss',
                   pending |-> PendingDebt, pending2 |-> PendingDebt',
                   unclaimed |-> unclaimed.debt, unclaimed2 |-> unclaimed'.debt,
                   old |-> safes[s].borrowedAmount, new |-> safe.borrowedAmount,
                   increase |-> DebtIncrease(s), rounded |-> eD,
                   given |-> d, distributed |-> xD,
                   roundings |-> roundings, k |-> k, m |-> m]
  <2>1. RecordedDebt' \in Int /\ PendingDebt' \in Int
    BY <1>1, <1>2, <1>3, <1>4, <1>5, <1>7, <1>10, AmountsType
  <2>2. Supply' - ToBurn' \in Int
    BY <1>1, <1>3, AmountsType
  <2>3. g \in CallAmounts
    BY <1>1, <1>3, <1>6, <1>7, <2>1, <2>2, AmountsType DEF CallAmounts
  <2>4. PRECISION * g.held - Owed(g.recorded, g.loss, g.pending, g.unclaimed)
          \in -(PRECISION * g.roundings) .. PRECISION * g.roundings
    BY <1>10, Zenon DEF Accounted, DebtAccounted, Near, Owed
  <2>5. /\ g.held2 = g.held + g.new - (g.old + g.increase) + g.given
        /\ g.recorded2 = g.recorded - g.old + g.new
    BY <1>2, <1>3, AmountsType
  <2>6. g.pending2 = g.pending - (PRECISION * g.increase + g.rounded) + g.distributed
    BY <1>3, <1>4, <1>5, <1>6, <1>7, <1>10, AmountsType, StableBaseAssumption
  <2>7. /\ g.rounded \in 0 .. PRECISION * g.k
        /\ PRECISION * (g.given - (g.loss2 - g.loss))
             - (g.distributed + (g.unclaimed2 - g.unclaimed)) \in -(PRECISION * g.m) .. 0
    BY <1>4, <1>6, <1>7, <1>10
  <2>8. roundings' = g.roundings + g.k + g.m
    OBVIOUS
  <2>9. /\ g.held2 = Supply' - ToBurn'
        /\ Owed(g.recorded2, g.loss2, g.pending2, g.unclaimed2)
             = PRECISION * (RecordedDebt' + debtLoss') + PendingDebt' + unclaimed'.debt
    BY DEF Owed
  <2> HIDE DEF g
  <2>10. PRECISION * g.held2 - Owed(g.recorded2, g.loss2, g.pending2, g.unclaimed2)
           \in -(PRECISION * (g.roundings + g.k + g.m)) .. PRECISION * (g.roundings + g.k + g.m)
    BY <2>3, <2>4, <2>5, <2>6, <2>7, GapStep
  <2>11. QED
    BY <2>8, <2>9, <2>10 DEF DebtAccounted, Near
<1>11. QED
  BY <1>8, <1>9, <1>10 DEF Accounted

-----------------------------------------------------------------------------
(* The calls. *)

\* What moves, is minted or is burned of the DFID is the sum of what the accounts
\* are credited with.
LEMMA SupplyCredited ==
  ASSUME sbd \in [Accounts -> Nat],
         NEW public \in Int, NEW cdp \in Int, NEW pool \in Int, NEW sbr \in Int,
         Credit(public, cdp, pool, sbr)
  PROVE  Supply' = Supply + (public + cdp + pool + sbr)
<1>1. /\ sbd.public \in Nat /\ sbd.cdp \in Nat /\ sbd.pool \in Nat /\ sbd.sbr \in Nat
  BY DEF Accounts
<1>2. /\ sbd'.public = sbd.public + public /\ sbd'.cdp = sbd.cdp + cdp
      /\ sbd'.pool = sbd.pool + pool /\ sbd'.sbr = sbd.sbr + sbr
  BY DEF Credit, Accounts
<1>3. QED
  BY <1>1, <1>2 DEF Supply

\* A call that leaves the redemption alone moves the ETH of the Safes as it moves
\* that of the CDP.
LEMMA RedemptionApart ==
  ASSUME Inv, UNCHANGED redemption, NEW moved \in Int, eth' = eth + moved
  PROVE  EthOfSafes' = EthOfSafes + moved /\ ToBurn' = ToBurn
<1>1. eth \in Nat /\ InFlightCollateral \in Nat
  BY TotalsType DEF Inv, RestSound
<1>2. InFlightCollateral' = InFlightCollateral /\ ToBurn' = ToBurn
  BY DEF InFlightCollateral, ToBurn
<1>3. QED
  BY <1>1, <1>2 DEF EthOfSafes

\* A call that updates and writes one Safe and redistributes nothing.
LEMMA SafeAccounted ==
  ASSUME Inv, Inv', Accounted, NEW s \in Safes, NEW safe \in Safe, WriteSafe(s, safe),
         UNCHANGED accumulators, roundings' = roundings + NewRoundings(s),
         EthOfSafes' = EthOfSafes + safe.collateralAmount - UpdatedSafe(s).collateralAmount,
         Supply' - ToBurn' =
           Supply - ToBurn + safe.borrowedAmount - UpdatedSafe(s).borrowedAmount
  PROVE  Accounted'
<1> DEFINE snapshot == [collateral |-> cumulativeCollateralPerUnitCollateral,
                        debt |-> IF Outdated(s) THEN cumulativeDebtPerUnitCollateral
                                                ELSE liquidationSnapshots[s].debt]
<1>1. SafesSound /\ PRECISION \in Nat
  BY StableBaseAssumption DEF Inv
<1>2. safes' = [safes EXCEPT ![s] = safe]
      /\ liquidationSnapshots' = [liquidationSnapshots EXCEPT ![s] = snapshot]
  BY <1>1 DEF WriteSafe, SafesSound
<1>3. snapshot \in Snapshot /\ snapshot.collateral = cumulativeCollateralPerUnitCollateral
  BY <1>1, SharesType DEF Snapshot
<1>4. ~debtAlone => Outdated(s) \/ liquidationSnapshots[s].debt = cumulativeDebtPerUnitCollateral
  BY DEF Accounted, UpToDate
<1>5. ~debtAlone => snapshot.debt = cumulativeDebtPerUnitCollateral
  BY <1>4
<1> HIDE DEF snapshot
<1>6. PICK k \in Nat : k = NewRoundings(s)
  BY DEF NewRoundings
<1>7. PICK zero \in Nat : zero = 0
  OBVIOUS
<1>8. /\ cumulativeCollateralPerUnitCollateral' = cumulativeCollateralPerUnitCollateral + zero
      /\ cumulativeDebtPerUnitCollateral' = cumulativeDebtPerUnitCollateral + zero
      /\ debtAlone \/ (zero = 0 /\ zero # 0) => debtAlone'
      /\ roundings' = roundings + k + zero
  BY <1>6, <1>7 DEF accumulators, Inv, SafesSound, RestSound
<1>9. /\ safes[s].collateralAmount
           * (cumulativeCollateralPerUnitCollateral - liquidationSnapshots[s].collateral)
           - PRECISION * CollateralIncrease(s) \in 0 .. PRECISION * k
      /\ ~debtAlone =>
           safes[s].collateralAmount
             * (cumulativeDebtPerUnitCollateral - liquidationSnapshots[s].debt)
             - PRECISION * DebtIncrease(s) \in 0 .. PRECISION * k
  BY <1>1, <1>4, <1>6, UpdateRounds
<1>10. /\ EthOfSafes' =
            EthOfSafes + safe.collateralAmount - UpdatedSafe(s).collateralAmount + zero
       /\ Supply' - ToBurn' =
            Supply - ToBurn + safe.borrowedAmount - UpdatedSafe(s).borrowedAmount + zero
  <2>1. /\ EthOfSafes \in Int /\ Supply - ToBurn \in Int
        /\ safe.collateralAmount \in Nat /\ safe.borrowedAmount \in Nat
        /\ UpdatedSafe(s).collateralAmount \in Nat /\ UpdatedSafe(s).borrowedAmount \in Nat
    BY <1>1, AmountsType, UpdatedType DEF Safe
  <2>2. QED
    BY <1>7, <2>1
<1>11. /\ PRECISION * (zero - (collateralLoss' - collateralLoss))
            - (zero * RecordedCollateral' + (unclaimed'.collateral - unclaimed.collateral))
            \in -(PRECISION * zero) .. 0
       /\ PRECISION * (zero - (debtLoss' - debtLoss))
            - (zero * RecordedCollateral' + (unclaimed'.debt - unclaimed.debt))
            \in -(PRECISION * zero) .. 0
  <2>1. /\ collateralLoss' - collateralLoss = 0 /\ debtLoss' - debtLoss = 0
        /\ unclaimed'.collateral - unclaimed.collateral = 0
        /\ unclaimed'.debt - unclaimed.debt = 0
    BY AmountsType DEF accumulators
  <2>2. RecordedCollateral' \in Int
    <3>1. /\ RecordedCollateral \in Int
          /\ safe.collateralAmount \in Nat /\ safes[s].collateralAmount \in Nat
      BY <1>1, AmountsType, UpdatedType DEF Safe
    <3>2. RecordedCollateral' =
            RecordedCollateral - safes[s].collateralAmount + safe.collateralAmount
      BY <1>2, RecordedUpdate DEF Inv, SafesSound
    <3>3. QED
      BY <3>1, <3>2
  <2>3. \A x \in Int : 0 * x = 0 /\ PRECISION * (0 - 0) = 0 /\ PRECISION * 0 = 0
    BY <1>1
  <2>4. zero * RecordedCollateral' = 0 /\ PRECISION * (0 - 0) = 0 /\ PRECISION * zero = 0
    BY <1>7, <2>2, <2>3
  <2>5. QED
    BY <1>7, <2>1, <2>4
<1>12. QED
  BY ONLY Inv, Inv', Accounted, s \in Safes, safe \in Safe, zero \in Nat, zero \in Int, k \in Nat,
          <1>2, <1>3, <1>5, <1>8, <1>9, <1>10, <1>11, AccountedWritten, ZenonT(60)

\* A step that writes no Safe and moves neither amount.
LEMMA AccountedKept ==
  ASSUME Accounted, UNCHANGED <<safes, liquidationSnapshots, accumulators, roundings>>,
         EthOfSafes' = EthOfSafes, Supply' - ToBurn' = Supply - ToBurn
  PROVE  Accounted'
<1>1. /\ RecordedCollateral' = RecordedCollateral /\ RecordedDebt' = RecordedDebt
      /\ PendingCollateral' = PendingCollateral /\ PendingDebt' = PendingDebt
      /\ collateralLoss' = collateralLoss /\ debtLoss' = debtLoss /\ unclaimed' = unclaimed
      /\ debtAlone' = debtAlone /\ roundings' = roundings
  BY DEF RecordedCollateral, RecordedDebt, PendingCollateral, PendingDebt, accumulators
<1>2. UpToDate => UpToDate'
  BY DEF UpToDate, Outdated, accumulators
<1>3. EthAccounted => EthAccounted'
  BY <1>1 DEF EthAccounted, Near
<1>4. DebtAccounted => DebtAccounted'
  BY <1>1 DEF DebtAccounted, Near
<1>5. QED
  BY <1>1, <1>2, <1>3, <1>4 DEF Accounted

\* closeSafe pays out the collateral of a Safe without debt.
LEMMA CloseSafeAccounted ==
  ASSUME Inv, Inv', Accounted, NEW s \in Safes, CloseSafe(s)
  PROVE  Accounted'
<1>1. /\ UpdatedSafe(s).borrowedAmount = 0 /\ WriteSafe(s, NullSafe)
      /\ eth' = eth - UpdatedSafe(s).collateralAmount
      /\ roundings' = roundings + NewRoundings(s)
      /\ UNCHANGED <<accumulators, sbd, redemption>>
  BY Zenon DEF CloseSafe, CanCloseSafe
<1>2. /\ NullSafe \in Safe /\ NullSafe.collateralAmount = 0 /\ NullSafe.borrowedAmount = 0
      /\ UpdatedSafe(s).collateralAmount \in Nat
  BY UpdatedType DEF NullSafe, Safe, Inv
<1>3. eth \in Nat /\ EthOfSafes \in Int /\ Supply - ToBurn \in Int
  BY AmountsType DEF Inv, RestSound
<1>4. EthOfSafes' = EthOfSafes + (-UpdatedSafe(s).collateralAmount) /\ ToBurn' = ToBurn
  BY <1>1, <1>2, <1>3, RedemptionApart
<1>5. Supply' = Supply
  BY <1>1 DEF Supply
<1>6. /\ EthOfSafes' =
           EthOfSafes + NullSafe.collateralAmount - UpdatedSafe(s).collateralAmount
      /\ Supply' - ToBurn' =
           Supply - ToBurn + NullSafe.borrowedAmount - UpdatedSafe(s).borrowedAmount
  BY <1>1, <1>2, <1>3, <1>4, <1>5
<1>7. QED
  BY <1>1, <1>2, <1>6, SafeAccounted

\* borrow mints what it adds to the debt, the fee included.
LEMMA BorrowAccounted ==
  ASSUME Inv, Inv', Accounted, NEW s \in Safes, NEW amount \in Debts, NEW rate \in ShieldingRates,
         NEW hintL \in Hints, NEW hintR \in Hints, Borrow(s, amount, rate, hintL, hintR)
  PROVE  Accounted'
<1>1. PICK weight, fee, borrowed :
        /\ fee = ShieldingFee(amount, rate)
        /\ borrowed = [UpdatedSafe(s) EXCEPT !.weight = weight,
                                             !.borrowedAmount = @ + amount,
                                             !.totalBorrowedAmount = @ + amount,
                                             !.feePaid = @ + fee]
        /\ WriteSafe(s, borrowed)
        /\ Credit(amount - fee + FeeRefunded(fee), 0, FeeToPool(fee), FeeToSBR(fee))
        /\ roundings' = roundings + NewRoundings(s)
        /\ UNCHANGED <<accumulators, eth, redemption>>
  BY Zenon DEF Borrow, CanBorrow
<1>2. /\ UpdatedSafe(s) \in Safe /\ UpdatedSafe(s).collateralAmount \in Nat
      /\ UpdatedSafe(s).borrowedAmount \in Nat
  BY UpdatedType DEF Inv, Safe
<1>3. amount \in Nat /\ rate \in Nat /\ fee \in Nat
  BY <1>1, ShieldingFeeType, StableBaseCDPAssumption
<1>4. /\ borrowed.collateralAmount = UpdatedSafe(s).collateralAmount
      /\ borrowed.borrowedAmount = UpdatedSafe(s).borrowedAmount + amount
  BY <1>1, <1>2 DEF Safe
<1>5. borrowed \in Safe
  <2>1. safes' \in [Safes -> Safe] /\ safes' = [safes EXCEPT ![s] = borrowed]
        /\ safes \in [Safes -> Safe]
    BY <1>1 DEF Inv, SafesSound, WriteSafe
  <2>2. QED
    BY <2>1
<1>6. Supply' = Supply + amount
  <2>1. /\ FeeToSBR(fee) \in Nat /\ FeeToPool(fee) \in Nat /\ FeeRefunded(fee) \in Nat
        /\ fee = FeeToSBR(fee) + FeeToPool(fee) + FeeRefunded(fee)
    BY <1>3, FeeParts
  <2>2. PICK public \in Int : public = amount - fee + FeeRefunded(fee)
    BY <1>3, <2>1
  <2>3. PICK zero \in Int : zero = 0
    OBVIOUS
  <2>4. Credit(public, zero, FeeToPool(fee), FeeToSBR(fee))
    BY <1>1, <2>2, <2>3
  <2>5. Supply' = Supply + (public + zero + FeeToPool(fee) + FeeToSBR(fee))
    BY <2>1, <2>4, SupplyCredited DEF Inv, MoneySound
  <2>6. Supply \in Int
    BY BalanceType DEF Inv, Supply
  <2>7. PICK p, q, r \in Nat : p = FeeToPool(fee) /\ q = FeeToSBR(fee) /\ r = FeeRefunded(fee)
    BY <2>1
  <2>8. public = amount - fee + r /\ fee = q + p + r /\ Supply' = Supply + (public + zero + p + q)
    BY <2>1, <2>2, <2>5, <2>7
  <2>9. QED
    BY <1>3, <2>3, <2>6, <2>8
<1>7. EthOfSafes' = EthOfSafes + 0 /\ ToBurn' = ToBurn /\ EthOfSafes \in Int
      /\ Supply - ToBurn \in Int
  BY <1>1, RedemptionApart, AmountsType DEF Inv, RestSound
<1>8. Supply \in Int /\ ToBurn \in Int
  BY TotalsType, BalanceType DEF Inv, Supply
<1>9. /\ EthOfSafes' =
           EthOfSafes + borrowed.collateralAmount - UpdatedSafe(s).collateralAmount
      /\ Supply' - ToBurn' =
           Supply - ToBurn + borrowed.borrowedAmount - UpdatedSafe(s).borrowedAmount
  BY <1>2, <1>3, <1>4, <1>6, <1>7, <1>8
<1>10. QED
  BY <1>1, <1>5, <1>9, SafeAccounted

\* repay burns what it takes off the debt.
LEMMA RepayAccounted ==
  ASSUME Inv, Inv', Accounted, NEW s \in Safes, NEW amount \in Debts, NEW hint \in Hints,
         Repay(s, amount, hint)
  PROVE  Accounted'
<1>1. PICK repaid :
        /\ repaid = [UpdatedSafe(s) EXCEPT !.borrowedAmount = @ - amount]
        /\ WriteSafe(s, repaid)
        /\ Credit(-amount, 0, 0, 0)
        /\ roundings' = roundings + NewRoundings(s)
        /\ UNCHANGED <<accumulators, eth, redemption>>
  BY Zenon DEF Repay, CanRepay
<1>2. /\ UpdatedSafe(s) \in Safe /\ UpdatedSafe(s).collateralAmount \in Nat
      /\ UpdatedSafe(s).borrowedAmount \in Nat /\ amount \in Nat
  BY UpdatedType, StableBaseCDPAssumption DEF Inv, Safe
<1>3. /\ repaid.collateralAmount = UpdatedSafe(s).collateralAmount
      /\ repaid.borrowedAmount = UpdatedSafe(s).borrowedAmount - amount
  BY <1>1, <1>2 DEF Safe
<1>4. repaid \in Safe
  <2>1. safes' \in [Safes -> Safe] /\ safes' = [safes EXCEPT ![s] = repaid]
        /\ safes \in [Safes -> Safe]
    BY <1>1 DEF Inv, SafesSound, WriteSafe
  <2>2. QED
    BY <2>1
<1>5. PICK public, zero \in Int : public = -amount /\ zero = 0
  BY <1>2
<1>6. Supply' = Supply + (public + zero + zero + zero)
  <2>1. Credit(public, zero, zero, zero)
    BY <1>1, <1>5
  <2>2. QED
    BY <2>1, SupplyCredited DEF Inv, MoneySound
<1>7. EthOfSafes' = EthOfSafes + 0 /\ ToBurn' = ToBurn /\ EthOfSafes \in Int
  BY <1>1, RedemptionApart, AmountsType DEF Inv, RestSound
<1>8. Supply \in Int /\ ToBurn \in Int
  BY TotalsType, BalanceType DEF Inv, Supply
<1>9. /\ EthOfSafes' =
           EthOfSafes + repaid.collateralAmount - UpdatedSafe(s).collateralAmount
      /\ Supply' - ToBurn' =
           Supply - ToBurn + repaid.borrowedAmount - UpdatedSafe(s).borrowedAmount
  BY <1>2, <1>3, <1>5, <1>6, <1>7, <1>8
<1>10. QED
  BY <1>1, <1>4, <1>9, SafeAccounted

\* addCollateral, withdrawCollateral and adjustPosition move the ETH they record.
LEMMA MoveAccounted ==
  ASSUME Inv, Inv', Accounted, NEW s \in Safes, NEW moved \in Int, Move(s, moved)
  PROVE  Accounted'
<1>1. PICK new :
        /\ new = [UpdatedSafe(s) EXCEPT !.collateralAmount = @ + moved]
        /\ WriteSafe(s, new)
        /\ eth' = eth + moved
        /\ roundings' = roundings + NewRoundings(s)
        /\ UNCHANGED <<accumulators, sbd, redemption>>
  BY Zenon DEF Move
<1>2. /\ UpdatedSafe(s) \in Safe /\ UpdatedSafe(s).collateralAmount \in Nat
      /\ UpdatedSafe(s).borrowedAmount \in Nat
  BY UpdatedType DEF Inv, Safe
<1>3. /\ new.collateralAmount = UpdatedSafe(s).collateralAmount + moved
      /\ new.borrowedAmount = UpdatedSafe(s).borrowedAmount
  BY <1>1, <1>2 DEF Safe
<1>4. new \in Safe
  <2>1. safes' \in [Safes -> Safe] /\ safes' = [safes EXCEPT ![s] = new]
        /\ safes \in [Safes -> Safe]
    BY <1>1 DEF Inv, SafesSound, WriteSafe
  <2>2. QED
    BY <2>1
<1>5. EthOfSafes' = EthOfSafes + moved /\ ToBurn' = ToBurn /\ EthOfSafes \in Int
  BY <1>1, RedemptionApart, AmountsType
<1>6. Supply' = Supply /\ Supply - ToBurn \in Int
  BY <1>1, AmountsType DEF Supply
<1>7. /\ EthOfSafes' =
           EthOfSafes + new.collateralAmount - UpdatedSafe(s).collateralAmount
      /\ Supply' - ToBurn' =
           Supply - ToBurn + new.borrowedAmount - UpdatedSafe(s).borrowedAmount
  BY <1>2, <1>3, <1>5, <1>6
<1>8. QED
  BY <1>1, <1>4, <1>7, SafeAccounted

\* feeTopup moves DFID from the owner to those who earn fees.
LEMMA FeeTopupAccounted ==
  ASSUME Inv, Inv', Accounted, NEW s \in Safes, NEW rate \in ShieldingRates, NEW hint \in Hints,
         FeeTopup(s, rate, hint)
  PROVE  Accounted'
<1>1. PICK weight, fee, topped :
        /\ fee = ShieldingFee(UpdatedSafe(s).borrowedAmount, rate)
        /\ topped = [UpdatedSafe(s) EXCEPT !.weight = weight, !.feePaid = @ + fee]
        /\ WriteSafe(s, topped)
        /\ Credit(FeeRefunded(fee) - fee, 0, FeeToPool(fee), FeeToSBR(fee))
        /\ roundings' = roundings + NewRoundings(s)
        /\ UNCHANGED <<accumulators, eth, redemption>>
  BY Zenon DEF FeeTopup, CanTopupFee
<1>2. /\ UpdatedSafe(s) \in Safe /\ UpdatedSafe(s).collateralAmount \in Nat
      /\ UpdatedSafe(s).borrowedAmount \in Nat
  BY UpdatedType DEF Inv, Safe
<1>3. rate \in Nat /\ fee \in Nat
  BY <1>1, <1>2, ShieldingFeeType, StableBaseCDPAssumption
<1>4. /\ topped.collateralAmount = UpdatedSafe(s).collateralAmount
      /\ topped.borrowedAmount = UpdatedSafe(s).borrowedAmount
  BY <1>1, <1>2 DEF Safe
<1>5. topped \in Safe
  <2>1. safes' \in [Safes -> Safe] /\ safes' = [safes EXCEPT ![s] = topped]
        /\ safes \in [Safes -> Safe]
    BY <1>1 DEF Inv, SafesSound, WriteSafe
  <2>2. QED
    BY <2>1
<1>6. Supply' = Supply
  <2>1. /\ FeeToSBR(fee) \in Nat /\ FeeToPool(fee) \in Nat /\ FeeRefunded(fee) \in Nat
        /\ fee = FeeToSBR(fee) + FeeToPool(fee) + FeeRefunded(fee)
    BY <1>3, FeeParts
  <2>2. PICK public, zero \in Int : public = FeeRefunded(fee) - fee /\ zero = 0
    BY <1>3, <2>1
  <2>3. Credit(public, zero, FeeToPool(fee), FeeToSBR(fee))
    BY <1>1, <2>2
  <2>4. Supply' = Supply + (public + zero + FeeToPool(fee) + FeeToSBR(fee))
    BY <2>1, <2>3, SupplyCredited DEF Inv, MoneySound
  <2>5. Supply \in Int
    BY BalanceType DEF Inv, Supply
  <2>6. QED
    BY <1>3, <2>1, <2>2, <2>4, <2>5
<1>7. EthOfSafes' = EthOfSafes + 0 /\ ToBurn' = ToBurn /\ EthOfSafes \in Int
      /\ Supply - ToBurn \in Int
  BY <1>1, RedemptionApart, AmountsType DEF Inv, RestSound
<1>8. /\ EthOfSafes' =
           EthOfSafes + topped.collateralAmount - UpdatedSafe(s).collateralAmount
      /\ Supply' - ToBurn' =
           Supply - ToBurn + topped.borrowedAmount - UpdatedSafe(s).borrowedAmount
  BY <1>2, <1>4, <1>6, <1>7
<1>9. QED
  BY <1>1, <1>5, <1>8, SafeAccounted

\* openSafe writes a Safe where there was none.
LEMMA OpenSafeAccounted ==
  ASSUME Inv, Inv', Accounted, NEW s \in Safes, NEW amount \in Collaterals, OpenSafe(s, amount)
  PROVE  Accounted'
<1>1. PICK safe, snapshot :
        /\ safe = [NullSafe EXCEPT !.collateralAmount = amount]
        /\ snapshot = [collateral |-> cumulativeCollateralPerUnitCollateral,
                       debt |-> cumulativeDebtPerUnitCollateral]
        /\ safes' = [safes EXCEPT ![s] = safe]
        /\ liquidationSnapshots' = [liquidationSnapshots EXCEPT ![s] = snapshot]
        /\ s \notin minted
        /\ eth' = eth + amount
        /\ UNCHANGED <<accumulators, sbd, redemption, roundings>>
  BY Zenon DEF OpenSafe, CanOpenSafe
<1>2. /\ amount \in Nat /\ PRECISION \in Nat \ {0} /\ SafesSound
      /\ EthOfSafes \in Int /\ Supply - ToBurn \in Int
  BY AmountsType, StableBaseAssumption, StableBaseCDPAssumption DEF Inv
<1>3. /\ safe \in Safe /\ safe.collateralAmount = amount /\ safe.borrowedAmount = 0
      /\ snapshot \in Snapshot
      /\ snapshot.collateral = cumulativeCollateralPerUnitCollateral
      /\ snapshot.debt = cumulativeDebtPerUnitCollateral
  BY <1>1, <1>2, SharesType DEF Safe, NullSafe, Snapshot
<1>4. PICK zero \in Nat : zero = 0 /\ zero \in Int
  OBVIOUS
<1>5. safes[s].collateralAmount = 0 /\ safes[s].borrowedAmount = 0
  BY <1>1 DEF Inv, MintedSound, NullSafe
<1>6. PICK aheadC, aheadD \in Nat :
        /\ aheadC = cumulativeCollateralPerUnitCollateral - liquidationSnapshots[s].collateral
        /\ aheadD = cumulativeDebtPerUnitCollateral - liquidationSnapshots[s].debt
  BY <1>2, SharesType
<1>7. \A x \in Nat : 0 * x = 0 /\ 0 \div PRECISION = 0 /\ PRECISION * 0 = 0
  BY <1>2
<1>8. safes[s].collateralAmount * aheadC = 0 /\ safes[s].collateralAmount * aheadD = 0
  BY <1>5, <1>6, <1>7
<1>9. CollateralIncrease(s) = 0 /\ DebtIncrease(s) = 0
  BY <1>6, <1>7, <1>8 DEF CollateralIncrease, DebtIncrease
<1>10. /\ safes[s].collateralAmount
            * (cumulativeCollateralPerUnitCollateral - liquidationSnapshots[s].collateral)
            - PRECISION * CollateralIncrease(s) \in 0 .. PRECISION * zero
       /\ ~debtAlone =>
            safes[s].collateralAmount
              * (cumulativeDebtPerUnitCollateral - liquidationSnapshots[s].debt)
              - PRECISION * DebtIncrease(s) \in 0 .. PRECISION * zero
  BY <1>4, <1>6, <1>7, <1>8, <1>9
<1>11. UpdatedSafe(s).collateralAmount = 0 /\ UpdatedSafe(s).borrowedAmount = 0
  BY <1>2, <1>5, <1>9, UpdatedType
<1>12. EthOfSafes' = EthOfSafes + amount /\ ToBurn' = ToBurn /\ Supply' = Supply
  BY <1>1, <1>2, RedemptionApart DEF Supply
<1>13. /\ EthOfSafes' =
            EthOfSafes + safe.collateralAmount - UpdatedSafe(s).collateralAmount + zero
       /\ Supply' - ToBurn' =
            Supply - ToBurn + safe.borrowedAmount - UpdatedSafe(s).borrowedAmount + zero
  BY <1>2, <1>3, <1>4, <1>11, <1>12
<1>14. /\ cumulativeCollateralPerUnitCollateral' = cumulativeCollateralPerUnitCollateral + zero
       /\ cumulativeDebtPerUnitCollateral' = cumulativeDebtPerUnitCollateral + zero
       /\ debtAlone \/ (zero = 0 /\ zero # 0) => debtAlone'
       /\ roundings' = roundings + zero + zero
       /\ ~debtAlone => snapshot.debt = cumulativeDebtPerUnitCollateral
  BY <1>1, <1>3, <1>4 DEF accumulators, Inv, SafesSound, RestSound
<1>15. /\ PRECISION * (zero - (collateralLoss' - collateralLoss))
            - (zero * RecordedCollateral' + (unclaimed'.collateral - unclaimed.collateral))
            \in -(PRECISION * zero) .. 0
       /\ PRECISION * (zero - (debtLoss' - debtLoss))
            - (zero * RecordedCollateral' + (unclaimed'.debt - unclaimed.debt))
            \in -(PRECISION * zero) .. 0
  <2>1. /\ collateralLoss' - collateralLoss = 0 /\ debtLoss' - debtLoss = 0
        /\ unclaimed'.collateral - unclaimed.collateral = 0
        /\ unclaimed'.debt - unclaimed.debt = 0
    BY <1>1, AmountsType DEF accumulators
  <2>2. RecordedCollateral' \in Int
    <3>1. RecordedCollateral' =
            RecordedCollateral - safes[s].collateralAmount + safe.collateralAmount
      BY <1>1, <1>3, RecordedUpdate DEF Inv, SafesSound
    <3>2. QED
      BY <1>2, <1>3, <1>5, <3>1, AmountsType
  <2>3. \A x \in Int : 0 * x = 0 /\ PRECISION * (0 - 0) = 0
    BY <1>2
  <2>4. zero * RecordedCollateral' = 0 /\ PRECISION * (0 - 0) = 0 /\ PRECISION * zero = 0
    BY <1>4, <1>7, <2>2, <2>3
  <2>5. QED
    BY <1>4, <2>1, <2>4
<1>16. QED
  BY ONLY Inv, Inv', Accounted, s \in Safes, zero \in Nat, zero \in Int,
          <1>1, <1>3, <1>10, <1>13, <1>14, <1>15, AccountedWritten, ZenonT(60)

-----------------------------------------------------------------------------
(* Liquidation. *)

\* Whoever is paid it, the fee of a liquidation leaves the CDP as a whole.
LEMMA FeeSentWhole ==
  ASSUME FlagsTellStakers, FlagsTellStakers', poolStake' \in Nat, dfireStake \in Nat,
         NEW fee \in Nat, NEW refund \in 0 .. fee
  PROVE  LiquidationFeeSent(fee, refund, stabilityPoolCanReceiveRewards', poolStake') = fee
<1>1. /\ sbrStakingPoolCanReceiveRewards = (dfireStake > 0)
      /\ stabilityPoolCanReceiveRewards' = (poolStake' > 0)
  BY DEF FlagsTellStakers
<1>2. sbrStakingPoolCanReceiveRewards => dfireStake # 0
  <2>1. dfireStake > 0 => dfireStake # 0
    OBVIOUS
  <2>2. QED
    BY <1>1, <2>1, Zenon
<1>3. stabilityPoolCanReceiveRewards' => poolStake' # 0
  <2>1. poolStake' > 0 => poolStake' # 0
    OBVIOUS
  <2>2. QED
    BY <1>1, <2>1, Zenon
<1>4. CASE sbrStakingPoolCanReceiveRewards
  BY <1>2, <1>3, <1>4 DEF LiquidationFeeSent
<1>5. CASE ~sbrStakingPoolCanReceiveRewards /\ stabilityPoolCanReceiveRewards'
  BY <1>2, <1>3, <1>5 DEF LiquidationFeeSent
<1>6. CASE ~sbrStakingPoolCanReceiveRewards /\ ~stabilityPoolCanReceiveRewards'
  BY <1>2, <1>3, <1>6 DEF LiquidationFeeSent
<1>7. QED
  BY <1>4, <1>5, <1>6

\* What is redistributed is pending, is nobody's or is carried over, but for less
\* than a unit: over is all collateral, that of the Safes and what is in flight.
LEMMA SharedOut ==
  ASSUME NEW given \in Nat, NEW loss \in Nat, NEW recorded \in Int, NEW inFlight \in Int,
         NEW nobodys \in Nat, recorded + inFlight > 0, NEW i \in Nat,
         i = PerUnitCollateral(given + loss, recorded + inFlight)
  PROVE  PRECISION * (given - (LossOf(given + loss, recorded + inFlight) - loss))
           - (i * recorded + ((nobodys + inFlight * i) - nobodys)) \in -(PRECISION * 1) .. 0
<1>1. PICK amount \in Nat, over \in Nat \ {0} :
        amount = given + loss /\ over = recorded + inFlight
  OBVIOUS
<1>2. PRECISION * (amount - LossOf(amount, over)) - PerUnitCollateral(amount, over) * over
        \in -PRECISION .. 0
  BY CarriedOver
<1>3. PICK left \in Nat : left = LossOf(amount, over)
  BY DistributionType
<1>4. given - (left - loss) = amount - left
  BY <1>1
<1>5. i * over = i * recorded + inFlight * i
  BY <1>1
<1>6. PICK x, y \in Int : x = i * recorded /\ y = inFlight * i
  OBVIOUS
<1>7. i * recorded + ((nobodys + inFlight * i) - nobodys) = i * over
  BY <1>5, <1>6
<1>8. PRECISION * (given - (left - loss)) - i * over \in -PRECISION .. 0
  BY <1>1, <1>2, <1>3, <1>4
<1>9. PRECISION * 1 = PRECISION
  BY StableBaseAssumption
<1>10. QED
  BY <1>1, <1>3, <1>7, <1>8, <1>9

\* A liquidation redistributes what it takes out of the Safe, but for the fee, or
\* takes the debt from the pool and sends it the collateral.
LEMMA LiquidateAccounted ==
  ASSUME Inv, Inv', Accounted, NEW s \in Safes, NEW gas \in GasCosts, LiquidateSafe(s, gas)
  PROVE  Accounted'
<1>1. PICK collateral, debt, fee, over, refund, feeSent, sent :
        /\ collateral = UpdatedSafe(s).collateralAmount /\ debt = UpdatedSafe(s).borrowedAmount
        /\ fee = LiquidationFee(UpdatedSafe(s))
        /\ over = UpdatedCollateral(s) - collateral
        /\ refund = IF gas < fee THEN gas ELSE fee
        /\ feeSent = LiquidationFeeSent(fee, refund, stabilityPoolCanReceiveRewards', poolStake')
        /\ sent = feeSent + (IF debt <= poolStake THEN collateral - fee ELSE 0)
        /\ debt > poolStake => over > 0
        /\ LiquidateByPool(debt) \/ LiquidateByOtherSafes(debt, collateral - fee, over)
        /\ totalCollateral' = over
        /\ WriteSafe(s, NullSafe)
        /\ eth' = eth - sent
        /\ roundings' = roundings + NewRoundings(s) + (IF debt <= poolStake THEN 0 ELSE 1)
        /\ UNCHANGED <<sbrStakingPoolCanReceiveRewards, dfireStake, redemption>>
  BY Zenon DEF LiquidateSafe, CanLiquidateSafe, WriteTotals
<1>2. /\ UpdatedSafe(s) \in Safe /\ collateral \in Nat /\ debt \in Nat
      /\ fee \in Nat /\ collateral - fee \in Nat
  BY <1>1, UpdatedType, LiquidationFeeType DEF Inv, Safe
<1>3. NullSafe \in Safe /\ NullSafe.collateralAmount = 0 /\ NullSafe.borrowedAmount = 0
  BY DEF NullSafe, Safe
<1>4. /\ eth \in Nat /\ roundings \in Nat /\ poolStake \in Nat /\ poolStake' \in Nat
      /\ dfireStake \in Nat /\ FlagsTellStakers /\ FlagsTellStakers'
      /\ collateralLoss \in Nat /\ debtLoss \in Nat /\ unclaimed \in Snapshot
      /\ SafesSound /\ SafesSound' /\ sbd \in [Accounts -> Nat]
  BY DEF Inv, RestSound, MoneySound
<1>5. feeSent = fee
  <2>1. refund \in 0 .. fee
    BY <1>1, <1>2, StableBaseCDPAssumption
  <2>2. QED
    BY <1>1, <1>2, <1>4, <2>1, FeeSentWhole
<1>6. /\ EthOfSafes \in Int /\ Supply \in Int /\ ToBurn \in Int
  BY AmountsType, TotalsType, BalanceType DEF Inv, Supply
<1>7. CASE LiquidateByPool(debt)
  <2>1. debt <= poolStake /\ Credit(0, 0, -debt, 0) /\ UNCHANGED accumulators
    BY <1>7 DEF LiquidateByPool
  <2>2. PICK paid, burnt, zero \in Int : paid = -collateral /\ burnt = -debt /\ zero = 0
    BY <1>2
  <2>3. eth' = eth + paid /\ roundings' = roundings + NewRoundings(s)
    BY <1>1, <1>2, <1>4, <1>5, <2>1, <2>2 DEF NewRoundings
  <2>4. EthOfSafes' = EthOfSafes + paid /\ ToBurn' = ToBurn
    BY <1>1, <2>3, RedemptionApart
  <2>5. Supply' = Supply + (zero + zero + burnt + zero)
    <3>1. Credit(zero, zero, burnt, zero)
      BY <2>1, <2>2
    <3>2. QED
      BY <1>4, <3>1, SupplyCredited
  <2>6. /\ EthOfSafes' =
             EthOfSafes + NullSafe.collateralAmount - UpdatedSafe(s).collateralAmount
        /\ Supply' - ToBurn' =
             Supply - ToBurn + NullSafe.borrowedAmount - UpdatedSafe(s).borrowedAmount
    BY <1>1, <1>2, <1>3, <1>6, <2>2, <2>4, <2>5
  <2>7. QED
    BY <1>1, <1>3, <2>1, <2>3, <2>6, SafeAccounted
<1>8. CASE LiquidateByOtherSafes(debt, collateral - fee, over)
  <2>1. PICK given \in Nat : given = collateral - fee
    BY <1>2
  <2>2. /\ debt > poolStake /\ DistributeDebtAndCollateral(debt, given, over) /\ Redistributed
        /\ UNCHANGED sbd
    BY <1>8, <2>1 DEF LiquidateByOtherSafes
  <2>3. PICK snapshot :
          /\ snapshot = [collateral |-> cumulativeCollateralPerUnitCollateral,
                         debt |-> IF Outdated(s) THEN cumulativeDebtPerUnitCollateral
                                                 ELSE liquidationSnapshots[s].debt]
          /\ safes' = [safes EXCEPT ![s] = NullSafe]
          /\ liquidationSnapshots' = [liquidationSnapshots EXCEPT ![s] = snapshot]
    BY <1>1, <1>4 DEF WriteSafe, SafesSound
  <2>4. /\ snapshot \in Snapshot /\ snapshot.collateral = cumulativeCollateralPerUnitCollateral
        /\ cumulativeCollateralPerUnitCollateral \in Nat
        /\ cumulativeDebtPerUnitCollateral \in Nat
    BY <1>4, <2>3, SharesType DEF Snapshot
  <2>5. ~debtAlone => /\ snapshot.debt = cumulativeDebtPerUnitCollateral
                      /\ \/ Outdated(s)
                         \/ liquidationSnapshots[s].debt = cumulativeDebtPerUnitCollateral
    BY <2>3 DEF Accounted, UpToDate
  <2>6. PICK inFlight \in Int : inFlight = InFlightCollateral
    BY TotalsType DEF Inv
  <2>7. PICK recorded \in Int : recorded = RecordedCollateral'
    <3>1. RecordedCollateral' =
            RecordedCollateral - safes[s].collateralAmount + NullSafe.collateralAmount
      BY <1>3, <1>4, <2>3, RecordedUpdate DEF SafesSound
    <3>2. RecordedCollateral \in Int /\ safes[s].collateralAmount \in Int
      BY <1>4, AmountsType, SharesType
    <3>3. QED
      BY <1>3, <3>1, <3>2
  <2>8. over = recorded + inFlight /\ over > 0
    BY <1>1, <2>2, <2>6, <2>7 DEF Inv, TotalsSound, TotalsMatch, InFlightCollateral
  <2>9. PICK i, j \in Nat : /\ i = PerUnitCollateral(given + collateralLoss, over)
                            /\ j = PerUnitCollateral(debt + debtLoss, over)
    <3>1. given + collateralLoss \in Nat /\ debt + debtLoss \in Nat /\ over \in Nat \ {0}
      BY <1>2, <1>4, <2>1, <2>8
    <3>2. /\ PerUnitCollateral(given + collateralLoss, over) \in Nat
          /\ PerUnitCollateral(debt + debtLoss, over) \in Nat
      BY <3>1, DistributionType
    <3>3. QED
      BY <3>2
  <2>10. /\ cumulativeCollateralPerUnitCollateral' = cumulativeCollateralPerUnitCollateral + i
         /\ cumulativeDebtPerUnitCollateral' = cumulativeDebtPerUnitCollateral + j
         /\ collateralLoss' = LossOf(given + collateralLoss, over)
         /\ debtLoss' = LossOf(debt + debtLoss, over)
    BY <2>2, <2>9 DEF DistributeDebtAndCollateral
  <2>11. /\ cumulativeCollateralPerUnitCollateral' - cumulativeCollateralPerUnitCollateral = i
         /\ cumulativeDebtPerUnitCollateral' - cumulativeDebtPerUnitCollateral = j
    BY <2>4, <2>10
  <2>12. /\ unclaimed' = [collateral |-> unclaimed.collateral + inFlight * i,
                          debt |-> unclaimed.debt + inFlight * j]
         /\ debtAlone' = (debtAlone \/ (i = 0 /\ j # 0))
    BY <2>2, <2>6, <2>11, Zenon DEF Redistributed
  <2>13. /\ PRECISION * (given - (collateralLoss' - collateralLoss))
              - (i * RecordedCollateral' + (unclaimed'.collateral - unclaimed.collateral))
              \in -(PRECISION * 1) .. 0
         /\ PRECISION * (debt - (debtLoss' - debtLoss))
              - (j * RecordedCollateral' + (unclaimed'.debt - unclaimed.debt))
              \in -(PRECISION * 1) .. 0
    <3>1. PICK nobodysC, nobodysD \in Nat :
            nobodysC = unclaimed.collateral /\ nobodysD = unclaimed.debt
      BY <1>4 DEF Snapshot
    <3>2. PICK lossC, lossD \in Nat : lossC = collateralLoss /\ lossD = debtLoss
      BY <1>4
    <3>3. /\ PRECISION * (given - (LossOf(given + lossC, recorded + inFlight) - lossC))
               - (i * recorded + ((nobodysC + inFlight * i) - nobodysC)) \in -(PRECISION * 1) .. 0
          /\ PRECISION * (debt - (LossOf(debt + lossD, recorded + inFlight) - lossD))
               - (j * recorded + ((nobodysD + inFlight * j) - nobodysD)) \in -(PRECISION * 1) .. 0
      BY <1>2, <2>8, <2>9, <3>2, SharedOut
    <3>4. unclaimed'.collateral = nobodysC + inFlight * i
          /\ unclaimed'.debt = nobodysD + inFlight * j
      BY <2>12, <3>1
    <3>5. QED
      BY <2>7, <2>8, <2>10, <3>1, <3>2, <3>3, <3>4, Zenon
  <2>14. PICK k, one \in Nat : k = NewRoundings(s) /\ one = 1
    BY DEF NewRoundings
  <2>15. roundings' = roundings + k + one /\ (debtAlone \/ (i = 0 /\ j # 0) => debtAlone')
    <3>1. ~(debt <= poolStake)
      BY <1>2, <1>4, <2>2
    <3>2. roundings' = roundings + k + one
      BY <1>1, <2>14, <3>1
    <3>3. debtAlone \/ (i = 0 /\ j # 0) => debtAlone'
      BY <2>12, Zenon
    <3>4. QED
      BY <3>2, <3>3
  <2>16. /\ safes[s].collateralAmount
              * (cumulativeCollateralPerUnitCollateral - liquidationSnapshots[s].collateral)
              - PRECISION * CollateralIncrease(s) \in 0 .. PRECISION * k
         /\ ~debtAlone =>
              safes[s].collateralAmount
                * (cumulativeDebtPerUnitCollateral - liquidationSnapshots[s].debt)
                - PRECISION * DebtIncrease(s) \in 0 .. PRECISION * k
    BY <1>4, <2>5, <2>14, UpdateRounds
  <2>17. /\ EthOfSafes' =
              EthOfSafes + NullSafe.collateralAmount - UpdatedSafe(s).collateralAmount + given
         /\ Supply' - ToBurn' =
              Supply - ToBurn + NullSafe.borrowedAmount - UpdatedSafe(s).borrowedAmount + debt
    <3>1. PICK paid \in Int : paid = -fee
      BY <1>2
    <3>2. eth' = eth + paid
      BY <1>1, <1>2, <1>4, <1>5, <2>2, <3>1
    <3>3. EthOfSafes' = EthOfSafes + paid /\ ToBurn' = ToBurn
      BY <1>1, <3>2, RedemptionApart
    <3>4. Supply' = Supply
      BY <2>2 DEF Supply
    <3>5. QED
      BY <1>1, <1>2, <1>3, <1>6, <2>1, <3>1, <3>3, <3>4
  <2>18. /\ PRECISION * (given - (collateralLoss' - collateralLoss))
              - (i * RecordedCollateral' + (unclaimed'.collateral - unclaimed.collateral))
              \in -(PRECISION * one) .. 0
         /\ PRECISION * (debt - (debtLoss' - debtLoss))
              - (j * RecordedCollateral' + (unclaimed'.debt - unclaimed.debt))
              \in -(PRECISION * one) .. 0
    BY <2>13, <2>14, Zenon
  <2>19. given \in Int /\ debt \in Int
    BY <1>2
  <2>20. QED
    BY ONLY Inv, Inv', Accounted, s \in Safes, i \in Nat, j \in Nat, k \in Nat, one \in Nat,
            <1>3, <2>3, <2>4, <2>5, <2>10, <2>15, <2>16, <2>17, <2>18, <2>19,
            AccountedWritten, ZenonT(60)
<1>9. QED
  BY <1>1, <1>7, <1>8

-----------------------------------------------------------------------------
(* Redemption. *)

\* An iteration takes out of the Safe what it adds to what is in flight and to
\* what is to be burned.
LEMMA RedeemNodeAccounted ==
  ASSUME Inv, Inv', Accounted, RedeemNode
  PROVE  Accounted'
<1>1. PICK s, safe, amounts, toOwner, charged :
        /\ s = safesOrderedForRedemption.head /\ s # 0
        /\ safe = UpdatedSafe(s)
        /\ amounts = RedemptionAmounts(safe, Wanted, redemption.price)
        /\ toOwner = ToOwner(amounts)
        /\ redemption.phase = "redeeming" /\ redemption.redeemedAmount < redemption.requestedAmount
        /\ Redeemable(safe, redemption.price)
        /\ WriteSafe(s, RedeemedSafe(safe, amounts))
        /\ Credit(toOwner, -toOwner, 0, 0)
        /\ redemption' =
             [redemption EXCEPT !.redeemedAmount = @ + amounts.redeemed + amounts.refunded,
                                !.refundedAmount = @ + amounts.refunded,
                                !.processedSpots = @ + 1,
                                !.collateralAmount = @ + amounts.collateral - amounts.redeemerFee,
                                !.ownerFee = @ + charged,
                                !.redeemerFee = @ + amounts.redeemerFee]
        /\ roundings' = roundings + NewRoundings(s)
        /\ UNCHANGED <<accumulators, eth>>
  BY Zenon DEF RedeemNode, CanRedeemNode
<1>2. s \in Safes
  <2>1. s \in Slots
    BY <1>1 DEF Inv, QueuesSound, ListType
  <2>2. QED
    BY <1>1, <2>1, MaxIdAssumption DEF Slots, Safes, Ids
<1>3. safe \in Safe /\ safe.collateralAmount \in Nat /\ safe.borrowedAmount \in Nat
  BY <1>1, <1>2, UpdatedType DEF Inv, Safe
<1>4. /\ redemption \in RedemptionType /\ redemption.price \in Nat \ {0} /\ Wanted \in Nat
      /\ redemption.redeemedAmount \in Nat /\ redemption.refundedAmount \in Nat
      /\ redemption.collateralAmount \in Nat /\ redemption.redeemerFee \in Nat
  BY <1>1 DEF Inv, RedemptionSound, RedemptionType, Wanted
<1>5. /\ amounts.redeemed \in Nat /\ amounts.refunded \in Nat /\ amounts.collateral \in Nat
      /\ amounts.ownerFee \in Nat /\ amounts.redeemerFee \in Nat
  <2>1. PICK wanted \in Nat : wanted = Wanted
    BY <1>4
  <2>2. amounts = RedemptionAmounts(safe, wanted, redemption.price)
    BY <1>1, <2>1
  <2>3. /\ amounts.redeemed \in 0 .. safe.borrowedAmount
        /\ amounts.refunded \in Nat /\ amounts.collateral \in Nat /\ amounts.ownerFee \in Nat
        /\ amounts.redeemerFee \in 0 .. amounts.collateral
    BY <1>1, <1>3, <1>4, <2>2, RedemptionAmountsType
  <2>4. QED
    BY <1>3, <2>3
<1>6. PICK redeemed : redeemed = RedeemedSafe(safe, amounts) /\ WriteSafe(s, redeemed)
  BY <1>1
<1>7. /\ redeemed.collateralAmount = safe.collateralAmount - amounts.collateral
       /\ redeemed.borrowedAmount = safe.borrowedAmount - amounts.redeemed
  <2>1. PICK collateral, debt :
          /\ collateral = safe.collateralAmount - amounts.collateral
          /\ debt = safe.borrowedAmount - amounts.redeemed
    OBVIOUS
  <2>2. PICK feePaid, total :
          redeemed = [safe EXCEPT !.collateralAmount = collateral, !.borrowedAmount = debt,
                                  !.feePaid = feePaid, !.totalBorrowedAmount = total]
    <3>1. PICK feePaid, total :
            /\ feePaid = IF ChargedOwnerFee(amounts) > 0 THEN 0 ELSE safe.feePaid
            /\ total = IF ChargedOwnerFee(amounts) > 0 THEN 1 ELSE safe.totalBorrowedAmount
      OBVIOUS
    <3>2. QED
      BY <1>3, <1>6, <2>1, <3>1 DEF RedeemedSafe, Safe
  <2>3. QED
    BY <1>3, <2>1, <2>2 DEF Safe
<1>8. redeemed \in Safe
  <2>1. safes' \in [Safes -> Safe] /\ safes' = [safes EXCEPT ![s] = redeemed]
        /\ safes \in [Safes -> Safe]
    BY <1>6 DEF Inv, SafesSound, WriteSafe
  <2>2. QED
    BY <1>2, <2>1
<1>9. /\ redemption'.phase = "redeeming"
      /\ InFlightCollateral' = InFlightCollateral + amounts.collateral
      /\ ToBurn' = ToBurn + amounts.redeemed
  <2>1. PICK taken, refunded, spots, collateral, ownerFee, redeemerFee :
          /\ taken = redemption.redeemedAmount + amounts.redeemed + amounts.refunded
          /\ refunded = redemption.refundedAmount + amounts.refunded
          /\ spots = redemption.processedSpots + 1
          /\ collateral =
               redemption.collateralAmount + amounts.collateral - amounts.redeemerFee
          /\ ownerFee = redemption.ownerFee + charged
          /\ redeemerFee = redemption.redeemerFee + amounts.redeemerFee
    OBVIOUS
  <2>2. redemption' =
          [redemption EXCEPT !.redeemedAmount = taken, !.refundedAmount = refunded,
                             !.processedSpots = spots, !.collateralAmount = collateral,
                             !.ownerFee = ownerFee, !.redeemerFee = redeemerFee]
    BY <1>1, <1>4, <2>1 DEF RedemptionType
  <2>3. /\ redemption'.phase = "redeeming" /\ redemption'.redeemedAmount = taken
        /\ redemption'.refundedAmount = refunded /\ redemption'.collateralAmount = collateral
        /\ redemption'.redeemerFee = redeemerFee
    BY <1>1, <1>4, <2>2 DEF RedemptionType
  <2>4. InFlightCollateral' = collateral + redeemerFee /\ ToBurn' = taken - refunded
    BY <2>3 DEF InFlightCollateral, ToBurn
  <2>5. /\ InFlightCollateral = redemption.collateralAmount + redemption.redeemerFee
        /\ ToBurn = redemption.redeemedAmount - redemption.refundedAmount
    BY DEF InFlightCollateral, ToBurn
  <2>6. PICK c, f, r, e \in Nat :
          /\ c = redemption.collateralAmount /\ f = redemption.redeemerFee
          /\ r = redemption.redeemedAmount /\ e = redemption.refundedAmount
    BY <1>4
  <2>7. PICK x, y, z, w \in Nat :
          /\ x = amounts.collateral /\ y = amounts.redeemerFee
          /\ z = amounts.redeemed /\ w = amounts.refunded
    BY <1>5
  <2>8. /\ InFlightCollateral' = (c + x - y) + (f + y) /\ InFlightCollateral = c + f
        /\ ToBurn' = (r + z + w) - (e + w) /\ ToBurn = r - e
    BY <2>1, <2>4, <2>5, <2>6, <2>7
  <2>9. (c + x - y) + (f + y) = (c + f) + x /\ (r + z + w) - (e + w) = (r - e) + z
    OBVIOUS
  <2>10. InFlightCollateral' = InFlightCollateral + x /\ ToBurn' = ToBurn + z
    BY <2>8, <2>9, Zenon
  <2>11. QED
    BY <2>3, <2>7, <2>10, Zenon
<1>10. /\ eth \in Nat /\ InFlightCollateral \in Nat /\ ToBurn \in Nat /\ Supply \in Int
  BY TotalsType, BalanceType DEF Inv, RestSound, Supply
<1>11. Supply' = Supply
  <2>1. PICK in, out, zero \in Int : in = toOwner /\ out = -toOwner /\ zero = 0
    <3>1. PICK refunded, fee \in Nat : refunded = amounts.refunded /\ fee = amounts.ownerFee
      BY <1>5
    <3>2. toOwner = IF refunded > fee THEN refunded - fee ELSE 0
      BY <1>1, <3>1 DEF ToOwner
    <3>3. toOwner \in Int
      BY <3>1, <3>2
    <3>4. QED
      BY <3>3
  <2>2. Supply' = Supply + (in + out + zero + zero)
    <3>1. Credit(in, out, zero, zero)
      BY <1>1, <2>1
    <3>2. QED
      BY <3>1, SupplyCredited DEF Inv, MoneySound
  <2>3. QED
    BY <1>5, <1>10, <2>1, <2>2
<1>12. EthOfSafes = eth - InFlightCollateral /\ EthOfSafes' = eth - InFlightCollateral'
  BY <1>1, <1>9 DEF EthOfSafes
<1>13. /\ EthOfSafes' =
            EthOfSafes + redeemed.collateralAmount - UpdatedSafe(s).collateralAmount
       /\ Supply' - ToBurn' =
            Supply - ToBurn + redeemed.borrowedAmount - UpdatedSafe(s).borrowedAmount
  BY <1>1, <1>3, <1>5, <1>7, <1>9, <1>10, <1>11, <1>12
<1>14. QED
  BY <1>1, <1>2, <1>6, <1>8, <1>13, SafeAccounted

\* redeem takes the redeemer's DFID and saves a storage that is accounted for.
LEMMA RedeemAccounted ==
  ASSUME Inv, Inv', Accounted, NEW amount \in RedeemAmounts, NEW hint \in Hints,
         Redeem(amount, hint)
  PROVE  Accounted' /\ AccountedIn(saved')
<1>1. /\ redemption.phase = "idle" /\ Credit(-amount, amount, 0, 0)
      /\ redemption' = [NoRedemption EXCEPT !.phase = "redeeming", !.requestedAmount = amount,
                                            !.price = price, !.hint = hint]
      /\ saved' = Storage
      /\ UNCHANGED <<safes, liquidationSnapshots, accumulators, eth, roundings>>
  BY DEF Redeem, CanRedeem
<1>2. redemption = NoRedemption /\ amount \in Nat /\ eth \in Nat
  BY <1>1, StableBaseCDPAssumption DEF Inv, RedemptionSound, RestSound
<1>3. /\ InFlightCollateral = 0 /\ InFlightCollateral' = 0 /\ ToBurn = 0 /\ ToBurn' = 0
      /\ EthOfSafes = eth /\ EthOfSafes' = eth
  BY <1>1, <1>2 DEF InFlightCollateral, ToBurn, EthOfSafes, NoRedemption
<1>4. Supply \in Int /\ Supply' = Supply
  <2>1. PICK out, zero \in Int : out = -amount /\ zero = 0
    BY <1>2
  <2>2. Supply' = Supply + (out + amount + zero + zero)
    <3>1. Credit(out, amount, zero, zero)
      BY <1>1, <2>1
    <3>2. QED
      BY <1>2, <3>1, SupplyCredited DEF Inv, MoneySound
  <2>3. Supply \in Int
    BY BalanceType DEF Inv, Supply
  <2>4. QED
    BY <1>2, <2>1, <2>2, <2>3
<1>5. Accounted'
  BY <1>1, <1>3, <1>4, AccountedKept
<1>6. AccountedIn(saved')
  <2>1. EthAccountedIn(saved')
    BY <1>1, <1>3 DEF Accounted, EthAccounted, EthAccountedIn, Near, RecordedCollateral,
                      PendingCollateral, Storage
  <2>2. ASSUME ~debtAlone PROVE UpToDateIn(saved') /\ DebtAccountedIn(saved')
    <3>1. UpToDateIn(saved')
      BY <1>1, <2>2 DEF Accounted, UpToDate, UpToDateIn, Outdated, Storage
    <3>2. Supply - ToBurn = Supply
      BY <1>3, <1>4
    <3>3. DebtAccountedIn(saved')
      BY <1>1, <2>2, <3>2 DEF Accounted, DebtAccounted, DebtAccountedIn, Near, RecordedDebt,
                              PendingDebt, Storage, Supply
    <3>4. QED
      BY <3>1, <3>3
  <2>3. QED
    BY <1>1, <2>1, <2>2 DEF AccountedIn, Storage
<1>7. QED
  BY <1>5, <1>6

\* The redeemer and the stakers are paid: what was in flight is no longer among
\* the ETH, and nothing is burned yet.
LEMMA RedeemToUserAccounted ==
  ASSUME Inv, Accounted, RedeemToUser
  PROVE  Accounted'
<1>1. PICK public, pool :
        /\ redemption.phase = "redeeming"
        /\ public = (IF stabilityPoolCanReceiveRewards THEN 0 ELSE redemption.ownerFee)
        /\ pool = (IF stabilityPoolCanReceiveRewards THEN redemption.ownerFee ELSE 0)
        /\ Credit(public, -redemption.ownerFee, pool, 0)
        /\ eth' = eth - InFlightCollateral
        /\ redemption' = [redemption EXCEPT !.phase = "paid"]
        /\ UNCHANGED <<safes, liquidationSnapshots, accumulators, roundings>>
  BY Zenon DEF RedeemToUser, CanRedeemToUser, InFlightCollateral
<1>2. redemption \in RedemptionType /\ redemption.ownerFee \in Nat /\ eth \in Nat
  BY DEF Inv, RedemptionSound, RedemptionType, RestSound
<1>3. /\ redemption'.phase = "paid"
      /\ redemption'.redeemedAmount = redemption.redeemedAmount
      /\ redemption'.refundedAmount = redemption.refundedAmount
  BY <1>1, <1>2 DEF RedemptionType
<1>4. ToBurn' = ToBurn /\ ToBurn \in Int /\ InFlightCollateral \in Nat
  BY <1>3, TotalsType DEF ToBurn, Inv
<1>5. EthOfSafes' = EthOfSafes
  <2>1. EthOfSafes = eth - InFlightCollateral
    BY <1>1 DEF EthOfSafes
  <2>2. EthOfSafes' = eth' - 0
    BY <1>3 DEF EthOfSafes
  <2>3. QED
    BY <1>1, <1>2, <1>4, <2>1, <2>2
<1>6. Supply' = Supply
  <2>1. PICK fee, out, zero \in Int :
          fee = redemption.ownerFee /\ out = -redemption.ownerFee /\ zero = 0
    BY <1>2
  <2>2. public \in Int /\ pool \in Int /\ public + out + pool + zero = 0
    BY <1>1, <2>1
  <2>3. Credit(public, out, pool, zero)
    BY <1>1, <2>1
  <2>4. Supply' = Supply + (public + out + pool + zero)
    BY <2>1, <2>2, <2>3, SupplyCredited DEF Inv, MoneySound
  <2>5. Supply \in Int
    BY BalanceType DEF Inv, Supply
  <2>6. QED
    BY <2>2, <2>4, <2>5
<1>7. QED
  BY <1>1, <1>4, <1>5, <1>6, AccountedKept

\* The end of a redemption burns what it redeemed.
LEMMA RedeemSettleAccounted ==
  ASSUME Inv, Accounted, RedeemSettle
  PROVE  Accounted'
<1>1. /\ redemption.phase = "paid" /\ Credit(0, -ToBurn, 0, 0) /\ redemption' = NoRedemption
      /\ UNCHANGED <<safes, liquidationSnapshots, accumulators, eth, roundings>>
  BY DEF RedeemSettle, CanRedeemSettle
<1>2. ToBurn \in Nat /\ eth \in Nat /\ Supply \in Int
  BY TotalsType, BalanceType DEF Inv, RestSound, Supply
<1>3. ToBurn' = 0 /\ EthOfSafes' = EthOfSafes
  BY <1>1, <1>2 DEF ToBurn, EthOfSafes, NoRedemption
<1>4. PICK burned, zero \in Int : burned = -ToBurn /\ zero = 0
  BY <1>2
<1>5. Supply' = Supply + (zero + burned + zero + zero)
  <2>1. Credit(zero, burned, zero, zero)
    BY <1>1, <1>4
  <2>2. QED
    BY <2>1, SupplyCredited DEF Inv, MoneySound
<1>6. Supply' - ToBurn' = Supply - ToBurn
  BY <1>2, <1>3, <1>4, <1>5
<1>7. QED
  BY <1>1, <1>3, <1>6, AccountedKept

\* A redemption that fails goes back to what was accounted for.
LEMMA RedeemRevertAccounted ==
  ASSUME Inv', AccountedIn(saved), RedeemRevert
  PROVE  Accounted'
<1>1. /\ safes' = saved.safes /\ liquidationSnapshots' = saved.liquidationSnapshots
      /\ cumulativeCollateralPerUnitCollateral' = saved.cumulativeCollateralPerUnitCollateral
      /\ cumulativeDebtPerUnitCollateral' = saved.cumulativeDebtPerUnitCollateral
      /\ collateralLoss' = saved.collateralLoss /\ debtLoss' = saved.debtLoss
      /\ sbd' = saved.sbd /\ eth' = saved.eth /\ roundings' = saved.roundings
      /\ unclaimed' = saved.unclaimed /\ debtAlone' = saved.debtAlone
      /\ redemption' = NoRedemption
  BY DEF RedeemRevert
<1>2. ToBurn' = 0 /\ EthOfSafes' = eth' - 0
  BY <1>1 DEF ToBurn, EthOfSafes, NoRedemption
<1>3. EthOfSafes' = eth' /\ Supply' - ToBurn' = Supply'
  <2>1. eth' \in Int /\ Supply' \in Int
    <3>1. /\ eth' \in Nat /\ sbd'.public \in Nat /\ sbd'.cdp \in Nat /\ sbd'.pool \in Nat
          /\ sbd'.sbr \in Nat
      BY DEF Inv, RestSound, MoneySound, Accounts
    <3>2. QED
      BY <3>1 DEF Supply
  <2>2. PICK held, supply \in Int : held = eth' /\ supply = Supply'
    BY <2>1
  <2>3. EthOfSafes' = held - 0 /\ Supply' - ToBurn' = supply - 0
    BY <1>2, <2>2
  <2>4. \A n \in Int : n - 0 = n
    OBVIOUS
  <2>5. QED
    BY <2>2, <2>3, <2>4, Zenon
<1>4. EthAccounted'
  BY <1>1, <1>3 DEF AccountedIn, EthAccountedIn, EthAccounted, Near, RecordedCollateral,
                    PendingCollateral
<1>5. ASSUME ~debtAlone' PROVE UpToDate' /\ DebtAccounted'
  <2>1. UpToDateIn(saved) /\ DebtAccountedIn(saved)
    BY <1>1, <1>5 DEF AccountedIn
  <2>2. UpToDate'
    BY <1>1, <2>1 DEF UpToDate, UpToDateIn, Outdated
  <2>3. Supply' = saved.sbd.public + saved.sbd.cdp + saved.sbd.pool + saved.sbd.sbr
    BY <1>1 DEF Supply
  <2>4. DebtAccounted'
    BY <1>1, <1>3, <2>1, <2>3 DEF DebtAccountedIn, DebtAccounted, Near, RecordedDebt, PendingDebt
  <2>5. QED
    BY <2>2, <2>4
<1>6. QED
  BY <1>4, <1>5 DEF Accounted

\* A call to a staking contract moves DFID between accounts.
LEMMA StakingAccounted ==
  ASSUME Inv, Accounted, NEW n \in StakeAmounts, NEW reward \in Nat,
         \/ PoolStake(n, reward) \/ PoolUnstake(n, reward)
         \/ DfireStake(n, reward) \/ DfireUnstake(n, reward)
  PROVE  Accounted'
<1>1. /\ UNCHANGED <<safes, liquidationSnapshots, accumulators, roundings, eth, redemption>>
      /\ \/ Credit(reward - n, 0, n - reward, 0)
         \/ Credit(reward + n, 0, -(reward + n), 0)
         \/ Credit(reward, 0, 0, -reward)
  BY DEF PoolStake, PoolUnstake, DfireStake, DfireUnstake, UnchangedByStaking
<1>2. n \in Nat /\ eth \in Nat /\ Supply \in Int
  BY StableBaseCDPAssumption, BalanceType DEF Inv, RestSound, Supply
<1>3. PICK zero, in, out, back \in Int :
        zero = 0 /\ in = n - reward /\ out = reward - n /\ back = -(reward + n)
  BY <1>2
<1>4. PICK all, less \in Int : all = reward + n /\ less = -reward
  BY <1>2
<1>5. \/ Credit(out, zero, in, zero)
      \/ Credit(all, zero, back, zero)
      \/ Credit(reward, zero, zero, less)
  BY <1>1, <1>3, <1>4
<1>6. \/ Supply' = Supply + (out + zero + in + zero)
      \/ Supply' = Supply + (all + zero + back + zero)
      \/ Supply' = Supply + (reward + zero + zero + less)
  BY <1>5, SupplyCredited DEF Inv, MoneySound
<1>7. Supply' = Supply
  BY <1>2, <1>3, <1>4, <1>6
<1>8. EthOfSafes' = EthOfSafes /\ ToBurn' = ToBurn
  BY <1>1 DEF EthOfSafes, ToBurn, InFlightCollateral
<1>9. QED
  BY <1>1, <1>7, <1>8, AccountedKept

-----------------------------------------------------------------------------
(* The theorem. *)

\* Nothing is owed and nothing is held when the contracts are deployed.
LEMMA AmountsInit == Init => AmountsInv
<1> SUFFICES ASSUME Init PROVE AmountsInv
  OBVIOUS
<1>1. Inv
  BY InvInit
<1>2. \A s \in Safes :
        /\ safes[s].collateralAmount = 0 /\ safes[s].borrowedAmount = 0
        /\ liquidationSnapshots[s].collateral = 0 /\ liquidationSnapshots[s].debt = 0
  BY DEF Init, NullSafe
<1>3. /\ cumulativeCollateralPerUnitCollateral = 0 /\ cumulativeDebtPerUnitCollateral = 0
      /\ collateralLoss = 0 /\ debtLoss = 0 /\ eth = 0 /\ redemption = NoRedemption
      /\ roundings = 0 /\ unclaimed.collateral = 0 /\ unclaimed.debt = 0
      /\ sbd.public = 0 /\ sbd.cdp = 0 /\ sbd.pool = 0 /\ sbd.sbr = 0
  BY DEF Init, Accounts
<1>4. RecordedCollateral = 0 /\ RecordedDebt = 0
  <2>1. /\ [s \in Safes |-> safes[s].collateralAmount] \in [1 .. MaxId -> Int]
        /\ [s \in Safes |-> safes[s].borrowedAmount] \in [1 .. MaxId -> Int]
    BY <1>1, RecordedType DEF Inv, SafesSound
  <2>2. /\ \A i \in 1 .. MaxId : [s \in Safes |-> safes[s].collateralAmount][i] = 0
        /\ \A i \in 1 .. MaxId : [s \in Safes |-> safes[s].borrowedAmount][i] = 0
    BY <1>2 DEF Safes, Ids
  <2>3. QED
    BY <2>1, <2>2, SumZero, MaxIdAssumption DEF RecordedCollateral, RecordedDebt
<1>5. PendingCollateral = 0 /\ PendingDebt = 0
  <2>1. PICK f, g :
          /\ f = [s \in Safes |-> safes[s].collateralAmount
                    * (cumulativeCollateralPerUnitCollateral - liquidationSnapshots[s].collateral)]
          /\ g = [s \in Safes |-> safes[s].collateralAmount
                    * (cumulativeDebtPerUnitCollateral - liquidationSnapshots[s].debt)]
          /\ f \in [1 .. MaxId -> Int] /\ g \in [1 .. MaxId -> Int]
    BY <1>1, PendingType DEF Inv
  <2>2. \A i \in 1 .. MaxId : f[i] = 0 /\ g[i] = 0
    <3>1. 0 * (0 - 0) = 0
      OBVIOUS
    <3>2. QED
      BY <1>2, <1>3, <2>1, <3>1 DEF Safes, Ids
  <2>3. Sum(f, MaxId) = 0 /\ Sum(g, MaxId) = 0
    BY <2>1, <2>2, SumZero, MaxIdAssumption
  <2>4. QED
    BY <2>1, <2>3 DEF PendingCollateral, PendingDebt
<1>6. EthOfSafes = 0 /\ Supply - ToBurn = 0 /\ redemption.phase = "idle"
  BY <1>3 DEF EthOfSafes, InFlightCollateral, Supply, ToBurn, NoRedemption
<1>7. PRECISION * 0 - (PRECISION * (0 + 0) + 0 + 0) \in -(PRECISION * 0) .. PRECISION * 0
  BY StableBaseAssumption
<1>8. EthAccounted /\ DebtAccounted
  BY <1>3, <1>4, <1>5, <1>6, <1>7 DEF EthAccounted, DebtAccounted, Near
<1>9. UpToDate
  BY <1>2, <1>3 DEF UpToDate
<1>10. QED
  BY <1>6, <1>8, <1>9 DEF AmountsInv, Accounted

\* Every step keeps the amounts accounted for.
LEMMA AmountsStep == Inv /\ AmountsInv /\ [Next]_vars => AmountsInv'
<1> SUFFICES ASSUME Inv, AmountsInv, [Next]_vars PROVE AmountsInv'
  OBVIOUS
<1>1. Inv' /\ Accounted
  BY InvStep DEF AmountsInv
<1>2. CASE OwnerCall
  <2>1. PICK s \in Safes :
          \/ \E amount \in Collaterals : OpenSafe(s, amount)
          \/ CloseSafe(s)
          \/ \E amount \in Debts, rate \in ShieldingRates, hintL, hintR \in Hints :
               Borrow(s, amount, rate, hintL, hintR)
          \/ \E amount \in Debts, hint \in Hints : Repay(s, amount, hint)
          \/ \E amount \in Collaterals, hint \in Hints : AddCollateral(s, amount, hint)
          \/ \E amount \in Collaterals, hint \in Hints : WithdrawCollateral(s, amount, hint)
          \/ \E hint \in Hints : AdjustPosition(s, hint)
          \/ \E rate \in ShieldingRates, hint \in Hints : FeeTopup(s, rate, hint)
    BY <1>2 DEF OwnerCall
  <2>2. ASSUME NEW moved \in Int, Move(s, moved) PROVE Accounted'
    BY <1>1, <2>2, MoveAccounted
  <2>3. ASSUME NEW amount \in Collaterals, NEW hint \in Hints,
               AddCollateral(s, amount, hint) \/ WithdrawCollateral(s, amount, hint)
        PROVE  Accounted'
    <3>1. amount \in Int /\ -amount \in Int
      BY StableBaseCDPAssumption
    <3>2. Move(s, amount) \/ Move(s, -amount)
      BY <2>3 DEF AddCollateral, WithdrawCollateral
    <3>3. QED
      BY <2>2, <3>1, <3>2
  <2>4. ASSUME NEW hint \in Hints, AdjustPosition(s, hint) PROVE Accounted'
    <3>1. PICK zero \in Int : zero = 0
      OBVIOUS
    <3>2. Move(s, zero)
      BY <2>4, <3>1 DEF AdjustPosition
    <3>3. QED
      BY <2>2, <3>2
  <2>5. Accounted'
    BY <1>1, <2>1, <2>3, <2>4, OpenSafeAccounted, CloseSafeAccounted, BorrowAccounted,
       RepayAccounted, FeeTopupAccounted
  <2>6. redemption' = redemption /\ saved' = saved
    BY <1>2, CallsLeaveCdp
  <2>7. QED
    BY <2>5, <2>6 DEF AmountsInv
<1>3. CASE LiquidationCall
  <2>1. PICK gas \in GasCosts : Liquidate(gas) \/ \E s \in Safes : LiquidateSafe(s, gas)
    BY <1>3 DEF LiquidationCall
  <2>2. PICK s \in Safes : LiquidateSafe(s, gas)
    <3>1. CASE Liquidate(gas)
      <4>1. safesOrderedForLiquidation.tail \in Slots
        BY DEF Inv, QueuesSound, ListType
      <4>2. safesOrderedForLiquidation.tail # 0
        BY <3>1 DEF Liquidate
      <4>3. safesOrderedForLiquidation.tail \in Safes
        BY <4>1, <4>2, MaxIdAssumption DEF Slots, Safes, Ids
      <4>4. QED
        BY <3>1, <4>3 DEF Liquidate
    <3>2. QED
      BY <2>1, <3>1
  <2>3. Accounted'
    BY <1>1, <2>2, LiquidateAccounted
  <2>4. redemption' = redemption /\ saved' = saved
    BY <1>3, CallsLeaveCdp
  <2>5. QED
    BY <2>3, <2>4 DEF AmountsInv
<1>4. CASE StakingCall
  <2>1. PICK n \in StakeAmounts, reward \in Nat :
          \/ PoolStake(n, reward) \/ PoolUnstake(n, reward)
          \/ DfireStake(n, reward) \/ DfireUnstake(n, reward)
    BY <1>4 DEF StakingCall
  <2>2. Accounted'
    BY <1>1, <2>1, StakingAccounted
  <2>3. redemption' = redemption /\ saved' = saved
    BY <1>4, CallsLeaveCdp
  <2>4. QED
    BY <2>2, <2>3 DEF AmountsInv
<1>5. CASE RedeemCall
  <2>1. PICK amount \in RedeemAmounts, hint \in Hints : Redeem(amount, hint)
    BY <1>5 DEF RedeemCall
  <2>2. Accounted' /\ AccountedIn(saved')
    BY <1>1, <2>1, RedeemAccounted
  <2>3. QED
    BY <2>2 DEF AmountsInv
<1>6. CASE RedemptionStep
  <2>1. CASE RedeemNode
    <3>1. Accounted'
      BY <1>1, <2>1, RedeemNodeAccounted
    <3>2. redemption.phase # "idle" /\ saved' = saved
      BY <2>1, Zenon DEF RedeemNode, CanRedeemNode
    <3>3. QED
      BY <3>1, <3>2 DEF AmountsInv
  <2>2. CASE RedeemToUser
    <3>1. Accounted'
      BY <1>1, <2>2, RedeemToUserAccounted
    <3>2. redemption.phase # "idle" /\ saved' = saved
      BY <2>2 DEF RedeemToUser, CanRedeemToUser
    <3>3. QED
      BY <3>1, <3>2 DEF AmountsInv
  <2>3. CASE RedeemSettle
    <3>1. Accounted'
      BY <1>1, <2>3, RedeemSettleAccounted
    <3>2. redemption'.phase = "idle"
      BY <2>3 DEF RedeemSettle, NoRedemption
    <3>3. QED
      BY <3>1, <3>2 DEF AmountsInv
  <2>4. CASE RedeemRevert
    <3>1. AccountedIn(saved)
      BY <2>4 DEF RedeemRevert, AmountsInv
    <3>2. Accounted'
      BY <1>1, <2>4, <3>1, RedeemRevertAccounted
    <3>3. redemption'.phase = "idle"
      BY <2>4 DEF RedeemRevert, NoRedemption
    <3>4. QED
      BY <3>2, <3>3 DEF AmountsInv
  <2>5. QED
    BY <1>6, <2>1, <2>2, <2>3, <2>4 DEF RedemptionStep
<1>7. CASE PriceChange \/ UNCHANGED vars
  <2>1. UNCHANGED <<safes, liquidationSnapshots, accumulators, roundings, eth, sbd, redemption,
                    saved>>
    BY <1>7 DEF PriceChange, SetPrice, vars
  <2>2. EthOfSafes' = EthOfSafes /\ Supply' - ToBurn' = Supply - ToBurn
    BY <2>1 DEF EthOfSafes, Supply, ToBurn, InFlightCollateral
  <2>3. Accounted'
    BY <1>1, <2>1, <2>2, AccountedKept
  <2>4. QED
    BY <2>1, <2>3 DEF AmountsInv
<1>8. QED
  BY <1>2, <1>3, <1>4, <1>5, <1>6, <1>7 DEF Next, Call

\* Nothing is lost or counted twice by redistribution, whatever the order of
\* calls, also when a redeemer calls back or a redemption is undone: the ETH of
\* the CDP is what the Safes have and are owed, and every DFID in circulation is
\* a debt that is recorded or pending, up to the roundings that happened.
THEOREM AmountsCorrect == Spec => []AmountsAccounted
<1>1. Init => AmountsInv
  BY AmountsInit
<1>2. Inv /\ AmountsInv /\ [Next]_vars => AmountsInv'
  BY AmountsStep
<1>3. AmountsInv => AmountsAccounted
  BY DEF AmountsInv, Accounted, AmountsAccounted
<1>4. QED
  BY <1>1, <1>2, <1>3, Invariance, PTL DEF Spec
=============================================================================
