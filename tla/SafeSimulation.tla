---------------------------- MODULE SafeSimulation ----------------------------
(***************************************************************************)
(* The part of scripts/simulate.js that exercises StableBaseCDP: borrowers *)
(* run their Safes, bots liquidate and redeem, the market moves the price, *)
(* and the OfflineProtocolTracker keeps, beside the contract, what every   *)
(* Safe should hold and compares the two at the end of each round.         *)
(*                                                                         *)
(* The script awaits every transaction, so a transaction and the writing   *)
(* of the books that follows it are one step.  Where the script looks at   *)
(* the books, decides that a transaction must fail, and ignores that it    *)
(* did not (its catch also takes its own assert.fail), the step is called  *)
(* InVain.  A turn that does nothing is no step: a round may end at any    *)
(* time.  The actors' DFID are the public's, as in StableBase; what each   *)
(* of them holds, and its stakes, are the matter of PoolSimulation.        *)
(***************************************************************************)
EXTENDS StableBaseCDP, Sequences

CONSTANTS
  Bots, Holders,        \* the agents besides the borrowers, who are their Safes
  shieldingRate,        \* of every borrower, in basis points
  totalPrecision,       \* what the expects tolerate
  aggregatePrecision,
  negligibleDebt,       \* that validateSafes does not look for in the queues; 100 wei in the code
  numSimulations        \* rounds of the main loop

ASSUME SafeSimulationAssumption ==
  /\ shieldingRate \in Nat \ {0}
  /\ totalPrecision \in Nat /\ aggregatePrecision \in 0 .. totalPrecision
  /\ negligibleDebt \in Nat
  /\ numSimulations \in Nat

VARIABLES
  book,      \* [Safe -> the object safe of its Borrower]
  listed,    \* the Safes of tracker.borrowers, and of its safeMapping
  midway,    \* the turn that is under way, if it takes several transactions
  toAct,     \* the agents whose turn is still to come in this round
  round,
  phase,     \* "running", then "teardown" and "done", or why the run has stopped
  astray,    \* history: why the books may differ from the contract by now
  kept       \* DFID that a borrower got at the end and could not use

books   == <<book, listed, midway, toAct, round, phase, astray, kept>>
simVars == <<vars, books>>

Agents == Safes \union Bots \union Holders

Book == [collateral : Nat, debt : Nat, totalBorrowedAmount : Nat,
         pendingCollateral : Nat, pendingDebt : Nat]
NewBook == [collateral |-> 0, debt |-> 0, totalBorrowedAmount |-> 0,
            pendingCollateral |-> 0, pendingDebt |-> 0]

NoItems == <<>>
Nobody  == [kind |-> "none", safe |-> 0, amount |-> 0, left |-> 0, items |-> NoItems]

SimInit ==
  /\ Init
  /\ book = [s \in Safes |-> NewBook]
  /\ listed = {}
  /\ midway = Nobody
  /\ toAct = Agents
  /\ round = 0
  /\ phase = "running"
  /\ astray = {}
  /\ kept = 0

CloseTo(a, b, tolerance) == a - b \in -tolerance .. tolerance

\* What an expect does to the run.
Expecting(holds) == phase' = IF holds THEN phase ELSE "mismatch"

Turn(a) == phase = "running" /\ midway = Nobody /\ a \in toAct /\ toAct' = toAct \ {a}

\* A transaction that the contract refuses, where the script does not expect it.
Refused ==
  /\ phase' = "reverted"
  /\ UNCHANGED <<vars, book, listed, midway, round, astray, kept>>

\* amount is a part of the whole that getRandomInRange(low, high) may pick, in thousandths.
PartOf(amount, whole, low, high) == amount * 1000 \in low * whole .. high * whole

-----------------------------------------------------------------------------
(* activatePendingCollateralAndDebt: the book of s takes what the contract     *)
(* says is pending for the Safe, if the tracker's own estimate is close to it. *)

InactiveDebt(s) ==
  (safes[s].collateralAmount * (cumulativeDebtPerUnitCollateral - liquidationSnapshots[s].debt))
    \div PRECISION
InactiveCollateral(s) ==
  (safes[s].collateralAmount
     * (cumulativeCollateralPerUnitCollateral - liquidationSnapshots[s].collateral))
    \div PRECISION

Inactive(s) == InactiveDebt(s) > 0 \/ InactiveCollateral(s) > 0

EstimateFits(s) ==
  Inactive(s) => /\ CloseTo(book[s].pendingDebt, InactiveDebt(s), aggregatePrecision)
                 /\ CloseTo(book[s].pendingCollateral, InactiveCollateral(s), aggregatePrecision)

\* (With a mistake, to see that a property notices it: the collateral is left out.)
ActivatedDebtOnly(s) ==
  IF Inactive(s)
    THEN [book[s] EXCEPT !.debt = safes[s].borrowedAmount + InactiveDebt(s),
                         !.totalBorrowedAmount = safes[s].totalBorrowedAmount + InactiveDebt(s),
                         !.pendingCollateral = 0, !.pendingDebt = 0]
    ELSE book[s]

Activated(s) ==
  IF Inactive(s)
    THEN [collateral |-> safes[s].collateralAmount + InactiveCollateral(s),
          debt |-> safes[s].borrowedAmount + InactiveDebt(s),
          totalBorrowedAmount |-> safes[s].totalBorrowedAmount + InactiveDebt(s),
          pendingCollateral |-> 0, pendingDebt |-> 0]
    ELSE book[s]

\* What the books say of a Safe, with what is pending.
BookedCollateral(s) == book[s].collateral + book[s].pendingCollateral
BookedDebt(s)       == book[s].debt + book[s].pendingDebt

\* The script's test, without rounding, of a debt against 110% of a collateral.
Covers(collateral, debt) ==
  collateral * price * BASIS_POINTS_DIVISOR >= debt * liquidationRatio * PRECISION

-----------------------------------------------------------------------------
(* The borrowers' turns: a transaction of s that the script expects to pass... *)

\* (1) ends the run if an estimate is off or the contract refuses, (2) else leaves newBook.
Transaction(s, can, Transacts, newBook) ==
  /\ \/ /\ EstimateFits(s)
        /\ Transacts
        /\ book' = [book EXCEPT ![s] = newBook]
        /\ UNCHANGED <<listed, round, astray, kept, phase>>
     \/ /\ EstimateFits(s)
        /\ ~can
        /\ phase' = "reverted"
        /\ UNCHANGED <<vars, book, listed, round, astray, kept>>
     \/ /\ ~EstimateFits(s)
        /\ phase' = "mismatch"
        /\ UNCHANGED <<vars, book, listed, round, astray, kept>>
  /\ midway' = Nobody

\* ... and one that it expects to fail, and does not look at again.
InVain(can, Transacts, what) ==
  /\ \/ Transacts /\ astray' = astray \union {what}
     \/ ~can /\ UNCHANGED <<vars, astray>>
  /\ midway' = Nobody
  /\ UNCHANGED <<book, listed, round, phase, kept>>

\* Half of the time, a borrower without a Safe opens one and goes on to borrow.
ActorOpenSafe(s, amount) ==
  /\ Turn(s)
  /\ book[s].collateral = 0
  /\ s \notin minted
  /\ \/ /\ OpenSafe(s, amount)
        /\ book' = [book EXCEPT ![s].collateral = amount]
        /\ listed' = listed \union {s}
        /\ midway' = [Nobody EXCEPT !.kind = "opened", !.safe = s]
        /\ astray' = IF book[s].totalBorrowedAmount = 0 THEN astray ELSE astray \union {"reopened"}
        /\ UNCHANGED <<round, phase, kept>>
     \/ /\ ~CanOpenSafe(s)
        /\ Refused

\* An amount is a part of the value of the collateral, without what is pending.
BorrowTurn(s, amount) ==
  /\ \/ Turn(s)
     \/ midway.kind = "opened" /\ midway.safe = s /\ UNCHANGED toAct
  /\ book[s].collateral > 0
  /\ PartOf(amount, (book[s].collateral * price) \div PRECISION, 100, 799)

MayBorrow(s, amount) ==
  /\ Covers(BookedCollateral(s), BookedDebt(s) + amount)
  /\ BookedDebt(s) + amount >= MINIMUM_DEBT

ActorBorrow(s, amount, spotL, spotR) ==
  /\ BorrowTurn(s, amount)
  /\ MayBorrow(s, amount)
  /\ Transaction(s, CanBorrow(s, amount, shieldingRate, spotL, spotR),
                 Borrow(s, amount, shieldingRate, spotL, spotR),
                 [Activated(s) EXCEPT !.debt = @ + amount, !.totalBorrowedAmount = @ + amount])

ActorBorrowInVain(s, amount) ==
  /\ BorrowTurn(s, amount)
  /\ ~MayBorrow(s, amount)
  /\ InVain(CanBorrow(s, amount, shieldingRate, 0, 0),
            Borrow(s, amount, shieldingRate, 0, 0), "borrow")

RepayTurn(s, amount) ==
  /\ Turn(s)
  /\ book[s].debt > 0
  /\ PartOf(amount, book[s].debt, 100, 999)

\* (With a mistake, to see that a property notices it: what is pending is not counted.)
MayRepayOfRecorded(s, amount) ==
  amount <= sbd.public /\ book[s].debt - amount >= MINIMUM_DEBT

MayRepay(s, amount) == amount <= sbd.public /\ BookedDebt(s) - amount >= MINIMUM_DEBT

ActorRepay(s, amount, spot) ==
  /\ RepayTurn(s, amount)
  /\ MayRepay(s, amount)
  /\ Transaction(s, CanRepay(s, amount, spot), Repay(s, amount, spot),
                 [Activated(s) EXCEPT !.debt = @ - amount])

ActorRepayInVain(s, amount, spot) ==
  /\ RepayTurn(s, amount)
  /\ ~MayRepay(s, amount)
  /\ InVain(CanRepay(s, amount, spot), Repay(s, amount, spot), "repay")

WithdrawTurn(s, amount) ==
  /\ Turn(s)
  /\ book[s].collateral > 0
  /\ PartOf(amount, book[s].collateral, 100, 999)

MayWithdraw(s, amount) == Covers(BookedCollateral(s) - amount, BookedDebt(s))

\* Once the book is updated, the script looks again and may leave it at that.
ActorWithdrawCollateral(s, amount, spot) ==
  LET updated == Activated(s)
      still   == Covers(updated.collateral - amount, updated.debt)
  IN  /\ WithdrawTurn(s, amount)
      /\ MayWithdraw(s, amount)
      /\ \/ /\ EstimateFits(s) => still
            /\ Transaction(s, CanWithdrawCollateral(s, amount, spot),
                           WithdrawCollateral(s, amount, spot),
                           [updated EXCEPT !.collateral = @ - amount])
         \/ /\ EstimateFits(s) /\ ~still
            /\ book' = [book EXCEPT ![s] = updated]
            /\ astray' = astray \union {"withdraw"}
            /\ UNCHANGED <<vars, listed, midway, round, phase, kept>>

ActorWithdrawInVain(s, amount, spot) ==
  /\ WithdrawTurn(s, amount)
  /\ ~MayWithdraw(s, amount)
  /\ InVain(CanWithdrawCollateral(s, amount, spot), WithdrawCollateral(s, amount, spot),
            "withdraw")

ActorAddCollateral(s, amount, spot) ==
  /\ Turn(s)
  /\ book[s].collateral > 0
  /\ Transaction(s, CanAddCollateral(s, amount, spot), AddCollateral(s, amount, spot),
                 [Activated(s) EXCEPT !.collateral = @ + amount])

ActorAddCollateralInVain(s, amount, spot) ==
  /\ Turn(s)
  /\ book[s].collateral = 0
  /\ InVain(CanAddCollateral(s, amount, spot), AddCollateral(s, amount, spot), "collateral")

\* The first attempt, without an allowance, always fails.  The fee is then that
\* of the updated debt, and a borrower who no longer has it adjusts the Safe.
ActorTopupFee(s, spot) ==
  LET updated == Activated(s)
      grown   == ShieldingFee(updated.debt, shieldingRate) > ShieldingFee(book[s].debt, shieldingRate)
  IN  /\ Turn(s)
      /\ book[s].collateral > 0
      /\ ShieldingFee(book[s].debt, shieldingRate) \in 1 .. sbd.public
      /\ \/ /\ ShieldingFee(updated.debt, shieldingRate) <= sbd.public
            /\ Transaction(s, CanTopupFee(s, shieldingRate, spot),
                           FeeTopup(s, shieldingRate, spot), updated)
         \/ /\ grown
            /\ Transaction(s, CanAdjustPosition(s, spot), AdjustPosition(s, spot), updated)

\* What is approved is the fee of the debt in the book, also when nothing is due.
ActorTopupFeeInVain(s, spot) ==
  LET approved == ShieldingFee(book[s].debt, shieldingRate)
      allowed  == ShieldingFee(UpdatedSafe(s).borrowedAmount, shieldingRate) <= approved
  IN  /\ Turn(s)
      /\ book[s].collateral = 0 \/ approved = 0 \/ approved > sbd.public
      /\ InVain(allowed /\ CanTopupFee(s, shieldingRate, spot),
                allowed /\ FeeTopup(s, shieldingRate, spot), "topup")

-----------------------------------------------------------------------------
(* A bot's liquidation. *)

Riskiest == safesOrderedForLiquidation.tail
CanLiquidateRiskiest == Riskiest # 0 /\ CanLiquidateSafe(Riskiest)
Recorded(s) == IF s = 0 THEN NullSafe ELSE safes[s]

\* The bot's test, on what is recorded of the riskiest Safe.
LooksRisky(safe) ==
  CollateralValue(safe, price) < (safe.borrowedAmount * liquidationRatio) \div BASIS_POINTS_DIVISOR

BookShare(s, amount) == (amount * book[s].collateral * PRECISION) \div totalCollateral'

\* (With a mistake, to see that a property notices it: the debt is not distributed.)
InheritedCollateralOnly(s, debt, collateral) ==
  [book[s] EXCEPT !.pendingCollateral = @ + BookShare(s, collateral) \div PRECISION]

\* distributeDebtAndCollateralToExistingBorrowers, for one of them.
Inherited(s, debt, collateral) ==
  [book[s] EXCEPT
     !.pendingCollateral = @ + BookShare(s, collateral) \div PRECISION,
     !.pendingDebt = @ + ((debt * BookShare(s, collateral)) \div collateral) \div PRECISION]

SumOver(S, amounts) == Sum([s \in Safes |-> IF s \in S THEN amounts[s] ELSE 0], MaxId)

\* OfflineProtocolTracker.liquidate, after the contract has liquidated s.
EnterLiquidation(s, updated) ==
  LET collateral == updated.collateral - LiquidationFee([NullSafe EXCEPT
                                                           !.collateralAmount = updated.collateral])
      heirs      == listed \ {s}
      shared     == [b \in Safes |-> IF b \in heirs THEN Inherited(b, updated.debt, collateral)
                                                    ELSE book[b]]
      closed(bs) == [bs EXCEPT ![s] = [updated EXCEPT !.collateral = 0, !.debt = 0]]
      held       == [b \in Safes |-> book[b].collateral]
      moreDebt   == [b \in Safes |-> shared[b].pendingDebt - book[b].pendingDebt]
      moreCollateral ==
        [b \in Safes |-> shared[b].pendingCollateral - book[b].pendingCollateral]
  IN  /\ listed' = heirs
      /\ IF updated.debt <= poolStake
           THEN /\ book' = closed(book)
                /\ UNCHANGED phase
           ELSE /\ book' = closed(shared)
                /\ Expecting(
                     /\ CloseTo(SumOver(heirs, held), totalCollateral', totalPrecision)
                     /\ \A b \in heirs :
                          /\ CloseTo(InactiveDebt(b)', shared[b].pendingDebt, totalPrecision)
                          /\ CloseTo(InactiveCollateral(b)', shared[b].pendingCollateral,
                                     totalPrecision)
                     /\ CloseTo(SumOver(heirs, moreDebt), updated.debt, totalPrecision)
                     /\ CloseTo(SumOver(heirs, moreCollateral), collateral, totalPrecision))

BotLiquidate(b, gas) ==
  /\ Turn(b)
  /\ Riskiest # 0
  /\ LooksRisky(Recorded(Riskiest))
  /\ \/ /\ Riskiest \in listed /\ EstimateFits(Riskiest)
        /\ Liquidate(gas)
        /\ EnterLiquidation(Riskiest, Activated(Riskiest))
        /\ UNCHANGED <<midway, round, astray, kept>>
     \/ /\ Riskiest \in listed /\ EstimateFits(Riskiest)
        /\ ~CanLiquidateRiskiest
        /\ Refused
     \/ /\ ~(Riskiest \in listed /\ EstimateFits(Riskiest))
        /\ phase' = "mismatch"
        /\ UNCHANGED <<vars, book, listed, midway, round, astray, kept>>

\* Now and then a bot tries where it sees no risk.
BotLiquidateInVain(b, gas) ==
  /\ Turn(b)
  /\ ~LooksRisky(Recorded(Riskiest))
  /\ InVain(CanLiquidateRiskiest, Liquidate(gas), "liquidation")

-----------------------------------------------------------------------------
(* A bot's redemption: it goes through the queue to foresee the amounts, and   *)
(* updates the books on its way; the contract redeems; the books are entered.  *)

BotRedeem(b, amount) ==
  /\ Turn(b)
  /\ PROTOCOL_MODE = "NORMAL"
  /\ 2 * amount <= sbd.public
  /\ midway' = [kind |-> "looking", safe |-> safesOrderedForRedemption.head, amount |-> amount,
                left |-> amount, items |-> NoItems]
  /\ UNCHANGED <<vars, book, listed, round, phase, astray, kept>>

\* The Safe s as calculateRedemptionAmountsAndFee is asked about it.
Foreseen(s) ==
  [safes[s] EXCEPT !.collateralAmount = Activated(s).collateral,
                   !.borrowedAmount = Activated(s).debt,
                   !.totalBorrowedAmount = Activated(s).totalBorrowedAmount]

Looking == phase = "running" /\ midway.kind = "looking"

\* One iteration of getRedeemedSafes.
BotLook ==
  LET s       == midway.safe
      amounts == RedemptionAmounts(Foreseen(s), midway.left, price)
      left    == midway.left - (amounts.redeemed + amounts.refunded)
  IN  /\ Looking
      /\ s \in listed /\ EstimateFits(s)
      /\ Redeemable(Foreseen(s), price)
      /\ book' = [book EXCEPT ![s] = Activated(s)]
      /\ midway' = [midway EXCEPT !.kind = IF left > 0 THEN "looking" ELSE "foreseen",
                                  !.safe = safesOrderedForRedemption.nodes[s].next,
                                  !.left = left,
                                  !.items = Append(@, [safe |-> s, amounts |-> amounts])]
      /\ UNCHANGED <<vars, listed, toAct, round, phase, astray, kept>>

\* "Unable to redeem because of insufficient collateral requirements": the bot
\* gives up, and the books stay updated as far as it came.
BotGivesUp ==
  LET s     == midway.safe
      found == s \in listed /\ EstimateFits(s)
      ahead == found /\ Activated(s) # book[s]
  IN  /\ Looking
      /\ ~(found /\ Redeemable(Foreseen(s), price))
      /\ book' = IF found THEN [book EXCEPT ![s] = Activated(s)] ELSE book
      /\ astray' = IF ahead \/ \E k \in 1 .. Len(midway.items) : Inactive(midway.items[k].safe)
                     THEN astray \union {"redemption"} ELSE astray
      /\ midway' = Nobody
      /\ UNCHANGED <<vars, listed, toAct, round, phase, kept>>

\* The transaction of the bot, as the EVM runs it.
BotRedeemTransaction ==
  /\ phase = "running" /\ midway.kind = "foreseen"
  /\ \/ /\ Redeem(midway.amount, 0)
        /\ midway' = [midway EXCEPT !.kind = "redeeming"]
        /\ UNCHANGED <<book, listed, toAct, round, phase, astray, kept>>
     \/ /\ ~CanRedeem(midway.amount)
        /\ UNCHANGED toAct
        /\ Refused

RedemptionRuns ==
  /\ midway.kind = "redeeming"
  /\ RedeemNode \/ RedeemToUser
  /\ UNCHANGED books

RedemptionRefused ==
  /\ midway.kind = "redeeming"
  /\ ~(CanRedeemNode \/ CanRedeemToUser \/ CanRedeemSettle)
  /\ RedeemRevert
  /\ phase' = "reverted"
  /\ UNCHANGED <<book, listed, midway, toAct, round, astray, kept>>

\* updateRedeemedSafes, for one Safe; the fees are shared in PoolSimulation.
Entered(s, items) ==
  LET of(amount(_)) == Sum([k \in 1 .. MaxId |->
                              IF k \in DOMAIN items /\ items[k].safe = s
                                THEN amount(items[k].amounts) ELSE 0], MaxId)
      collateral(a) == a.collateral
      debt(a)       == a.redeemed
  IN  [book[s] EXCEPT !.collateral = @ - of(collateral), !.debt = @ - of(debt)]

RedemptionSettles ==
  /\ midway.kind = "redeeming"
  /\ RedeemSettle
  /\ book' = [s \in Safes |-> Entered(s, midway.items)]
  /\ midway' = Nobody
  /\ UNCHANGED <<listed, toAct, round, phase, astray, kept>>

-----------------------------------------------------------------------------
(* The stakes, as the CDP sees them, and the end of a round. *)

\* Whoever leaves the pool last takes all the rewards that are left there.
ActorStakeSBD(a, n) ==
  /\ Turn(a) /\ a \notin Bots
  /\ PoolStake(n, 0)
  /\ UNCHANGED <<book, listed, midway, round, phase, astray, kept>>

ActorUnstakeSBD(a, n) ==
  /\ Turn(a) /\ a \notin Bots
  /\ PoolUnstake(n, IF n = poolStake THEN sbd.pool - poolStake ELSE 0)
  /\ UNCHANGED <<book, listed, midway, round, phase, astray, kept>>

ValidateDebtAndCollateral ==
  /\ CloseTo(SumOver(listed, [s \in Safes |-> safes[s].collateralAmount]), totalCollateral,
             totalPrecision)
  /\ CloseTo(SumOver(listed, [s \in Safes |-> safes[s].borrowedAmount]), totalDebt,
             totalPrecision)

\* A listed Safe with a debt, by the books, is in both queues, which are sorted,
\* and every book is close to what the contract records.
ValidateSafes ==
  /\ InOrder(safesOrderedForRedemption) /\ InOrder(safesOrderedForLiquidation)
  /\ \A s \in listed :
       /\ book[s].debt > negligibleDebt =>
            /\ s \in Members(safesOrderedForRedemption)
            /\ s \in Members(safesOrderedForLiquidation)
       /\ CloseTo(safes[s].collateralAmount, book[s].collateral, aggregatePrecision)
       /\ CloseTo(safes[s].borrowedAmount, book[s].debt, aggregatePrecision)

\* The tracker's step, which is the last one of a round, and the market's, which
\* is the first one of the next.
EndRound(newPrice) ==
  /\ phase = "running" /\ midway = Nobody
  /\ round < numSimulations
  /\ SetPrice(newPrice)
  /\ round' = round + 1
  /\ toAct' = Agents
  /\ Expecting(ValidateDebtAndCollateral /\ ValidateSafes)
  /\ UNCHANGED <<book, listed, midway, astray, kept>>

-----------------------------------------------------------------------------
(* The end: every stake is withdrawn and all DFID goes to the market, from     *)
(* which one borrower after another gets what its Safe owes.                   *)

TearDownStep1 ==
  /\ phase = "running" /\ midway = Nobody
  /\ round = numSimulations
  /\ phase' = "teardown"
  /\ toAct' = Safes
  /\ \/ poolStake > 0 /\ PoolUnstake(poolStake, sbd.pool - poolStake)
     \/ poolStake = 0 /\ UNCHANGED vars
  /\ UNCHANGED <<book, listed, midway, round, astray, kept>>

TearingDown(s, kind) ==
  /\ phase = "teardown"
  /\ midway.kind = kind
  /\ midway.safe = s

\* A transaction of tearDownStep2, or what the script makes of its failure.
TearDownCall(s, can, Transacts, next, keeps) ==
  /\ \/ Transacts /\ midway' = next /\ UNCHANGED kept
     \/ /\ ~can
        /\ midway' = Nobody
        /\ kept' = kept + keeps
        /\ UNCHANGED vars
  /\ UNCHANGED <<book, listed, toAct, round, phase, astray>>

TearDownAdjust(s) ==
  /\ phase = "teardown" /\ midway = Nobody
  /\ s \in toAct /\ \A t \in toAct : s <= t
  /\ toAct' = toAct \ {s}
  /\ \/ /\ safes[s].collateralAmount > 0
        /\ AdjustPosition(s, 0)
        /\ midway' = IF safes'[s].borrowedAmount > 0 THEN [Nobody EXCEPT !.kind = "adjusted", !.safe = s]
                                                     ELSE Nobody
        /\ UNCHANGED phase
     \/ /\ safes[s].collateralAmount > 0
        /\ ~CanAdjustPosition(s, 0)
        /\ phase' = "reverted"
        /\ UNCHANGED <<vars, midway>>
     \/ /\ safes[s].collateralAmount = 0
        /\ UNCHANGED <<vars, midway, phase>>
  /\ UNCHANGED <<book, listed, round, astray, kept>>

InMarket == sbd.public - kept

\* (With a mistake, to see that a property notices it: the debt is that of the book.)
GotForBook(s) == IF InMarket > book[s].debt THEN book[s].debt ELSE InMarket

\* Market.getSBD: as much of the debt as the market has.
Got(s) == IF InMarket > safes[s].borrowedAmount THEN safes[s].borrowedAmount ELSE InMarket

TearDownRepay(s, spot) ==
  /\ TearingDown(s, "adjusted")
  /\ TearDownCall(s, CanRepay(s, Got(s), spot), Repay(s, Got(s), spot),
                  [Nobody EXCEPT !.kind = "repaid", !.safe = s, !.amount = Got(s)],
                  Got(s))

TearDownWithdraw(s, spot) ==
  /\ TearingDown(s, "repaid")
  /\ TearDownCall(s, CanWithdrawCollateral(s, CollateralFor(midway.amount, price), spot),
                  WithdrawCollateral(s, CollateralFor(midway.amount, price), spot),
                  [midway EXCEPT !.kind = "withdrawn"], 0)

TearDownClose(s) ==
  /\ TearingDown(s, "withdrawn")
  /\ TearDownCall(s, CanCloseSafe(s), CloseSafe(s), Nobody, 0)

TearDownEnds ==
  /\ phase = "teardown" /\ midway = Nobody /\ toAct = {}
  /\ phase' = "done"
  /\ UNCHANGED <<vars, book, listed, midway, toAct, round, astray, kept>>

-----------------------------------------------------------------------------

BorrowerTurn(s) ==
  \/ \E amount \in Collaterals : ActorOpenSafe(s, amount)
  \/ \E amount \in Debts, spotL, spotR \in Hints : ActorBorrow(s, amount, spotL, spotR)
  \/ \E amount \in Debts : ActorBorrowInVain(s, amount)
  \/ \E amount \in Debts, spot \in Hints :
       ActorRepay(s, amount, spot) \/ ActorRepayInVain(s, amount, spot)
  \/ \E amount \in Collaterals, spot \in Hints :
       \/ ActorWithdrawCollateral(s, amount, spot) \/ ActorWithdrawInVain(s, amount, spot)
       \/ ActorAddCollateral(s, amount, spot) \/ ActorAddCollateralInVain(s, amount, spot)
  \/ \E spot \in Hints : ActorTopupFee(s, spot) \/ ActorTopupFeeInVain(s, spot)

BotTurn(b) ==
  \/ \E gas \in GasCosts : BotLiquidate(b, gas) \/ BotLiquidateInVain(b, gas)
  \/ \E amount \in RedeemAmounts : BotRedeem(b, amount)

StakingTurn(a) == \E n \in StakeAmounts : ActorStakeSBD(a, n) \/ ActorUnstakeSBD(a, n)

\* What goes on with a turn that has begun.
RedemptionGoesOn ==
  \/ BotLook \/ BotGivesUp \/ BotRedeemTransaction
  \/ RedemptionRuns \/ RedemptionRefused \/ RedemptionSettles

TearDown ==
  \/ TearDownStep1 \/ TearDownEnds
  \/ \E s \in Safes : \/ TearDownAdjust(s) \/ TearDownClose(s)
                      \/ \E spot \in Hints : TearDownRepay(s, spot) \/ TearDownWithdraw(s, spot)

SimNext ==
  \/ \E s \in Safes : BorrowerTurn(s)
  \/ \E b \in Bots : BotTurn(b)
  \/ \E a \in Agents : StakingTurn(a)
  \/ RedemptionGoesOn
  \/ \E p \in Prices : EndRound(p)
  \/ TearDown

SimSpec == SimInit /\ [][SimNext]_simVars

-----------------------------------------------------------------------------
(* Properties. *)

\* A check of the tracker fails only where the script, and not the contract, has
\* gone wrong: a transaction that it expected to fail and that went through, a
\* redemption that it gave up with half its books written, or a Safe that it
\* opened anew with the old book.  (validateSafes, activatePendingCollateralAndDebt,
\* the expects of OfflineProtocolTracker.liquidate.)
MismatchExplained == phase = "mismatch" => astray # {}

\* Whenever the books, with the debt and collateral that are still pending, say
\* that a call of a Safe's owner must fail, it does ("Borrow should have failed",
\* "Repay should have failed", "Withdraw should have failed", "Add collateral
\* should have failed", "Topup fee should have failed"): what the contract adds to
\* a Safe before it looks at it is what the tracker foresaw.
OwnersFailAsExpected == astray \cap {"borrow", "repay", "withdraw", "collateral", "topup"} = {}

\* From one liquidation to the next, while Safes grow, shrink and inherit, the
\* tracker's estimate of what each inherits stays close to the contract's.
PendingFollows ==
  (midway = Nobody /\ astray = {}) => \A s \in listed : EstimateFits(s)

\* At the end no Safe is left with a debt, inherited or its own, while the market
\* still has DFID that could repay it.
DebtLeftForWantOfDFID ==
  (phase = "done" /\ \E s \in Safes : safes[s].borrowedAmount + InactiveDebt(s) > 0)
    => InMarket = 0
=============================================================================
