---------------------------- MODULE StableBaseCDPH ----------------------------
(***************************************************************************)
(* StableBaseCDP with a history variable.  Every Safe with a debt is in    *)
(* the liquidation queue as long as none of three things has happened,     *)
(* which the code lets happen:  excused  records them.                     *)
(***************************************************************************)
EXTENDS StableBaseCDP

VARIABLE excused

varsH == <<vars, excused>>

\* The code sees that the first Safe of the liquidation queue is in it: it takes a
\* Safe that is alone there, at the value 0, for one that is not.
LoneSafeSeen ==
  safesOrderedForLiquidation.head # 0 =>
    ~LooksAbsent(safesOrderedForLiquidation, safesOrderedForLiquidation.head)

\* No Safe has so much collateral that its smallest debt is a ratio of 0, which repay
\* takes for no debt: MINIMUM_DEBT tokens, in wei, times 10^18 wei is more ETH than
\* there is.
RatiosCount == \A s \in Safes : safes[s].collateralAmount <= MINIMUM_DEBT * PRECISION

\* A top-up that is the first to record a debt of its Safe, which redistribution gave
\* it: feeTopup does not queue the Safe for liquidation.
DebtlessTopup ==
  \E s \in Safes, rate \in ShieldingRates, hint \in Hints :
    safes[s].borrowedAmount = 0 /\ FeeTopup(s, rate, hint)

Remember == excused' = (excused \/ ~LoneSafeSeen' \/ ~RatiosCount' \/ DebtlessTopup)

InitH == Init /\ excused = FALSE
NextH == Next /\ Remember
SpecH == InitH /\ [][NextH]_varsH

-----------------------------------------------------------------------------
(* Properties of which a part does not hold in every history. *)

\* Every Safe with a recorded debt is in the liquidation queue, where the keepers
\* look for it, and that queue is sorted.
DebtIsQueued ==
  /\ InOrder(safesOrderedForLiquidation)
  /\ \A s \in Safes :
       safes[s].borrowedAmount > 0 => s \in Members(safesOrderedForLiquidation)

\* Both queues serve as they should: every place in the redemption queue has been
\* paid for, and so redemptions go by the order of the weights and visit a Safe once;
\* and with any hints every debt is in the liquidation queue, until something has
\* happened that excuses the code.
QueuesServe ==
  /\ PlacesPaid
  /\ RedemptionOrder
  /\ EachSafeOnce
  /\ ~excused => DebtIsQueued
=============================================================================
