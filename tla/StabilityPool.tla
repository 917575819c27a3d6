---------------------------- MODULE StabilityPool ----------------------------
(***************************************************************************)
(* The contract StabilityPool.sol.  Users stake DFID; the pool pays the    *)
(* debt of liquidated Safes out of all the stakes at once and shares the   *)
(* fees in DFID, the collateral in ETH and, for a year, an issuance of     *)
(* DFIRE among them.  Nothing is done per user until the user calls: a     *)
(* cumulative amount per staked token of each currency and a cumulative    *)
(* scaling factor of the stakes stand for it.  When the factor gets small  *)
(* all of them start anew, and what they were is kept as a snapshot.       *)
(*                                                                         *)
(* stake, unstake and claim pay the user's ETH in the middle of the call,  *)
(* and the recipient may call the pool again before the call goes on: the  *)
(* stack  calls  holds such calls.  The fee argument of these functions    *)
(* divides what is paid between the user and a front end, both outside the *)
(* pool: the model pays the two together.  A transaction that reverts      *)
(* changes nothing and is not a step.                                      *)
(***************************************************************************)
EXTENDS Sums, Sequences

CONSTANTS
  MaxUser,               \* the stakers are 1 .. MaxUser
  PRECISION,             \* the fixed point of factors and cumulative amounts (10^18)
  minimumScalingFactor,  \* a smaller factor is reset (10^9)
  rewardSenderActive,    \* the constructor's argument: tell StableBaseCDP about stakers
  sbrDistributionRate,   \* DFIRE issued per unit of time
  sbrDistributionTime,   \* for how long (365 days)
  StakeAmounts,          \* amounts of stake and unstake
  RewardAmounts,         \* amounts of addReward
  CollateralAmounts,     \* amounts of addCollateralReward, and of ETH in a liquidation
  LiquidationAmounts,    \* debts of performLiquidation
  Supply,                \* bound: the DFID that users can stake
  MaxTime,               \* bound on the clock
  MaxResets,             \* bound on the resets of the scaling factor
  MaxRewards,            \* bound on the amounts distributed
  MaxCalls               \* bound on the depth of nested calls

ASSUME StabilityPoolAssumption ==
  /\ MaxUser \in Nat
  /\ PRECISION \in Nat \ {0}
  /\ minimumScalingFactor \in 1 .. PRECISION
  /\ rewardSenderActive \in BOOLEAN
  /\ sbrDistributionRate \in Nat
  /\ sbrDistributionTime \in Nat
  /\ MaxResets \in Nat
  /\ StakeAmounts \subseteq Nat \ {0}
  /\ RewardAmounts \subseteq Nat \ {0}
  /\ CollateralAmounts \subseteq Nat \ {0}
  /\ LiquidationAmounts \subseteq Nat \ {0}

Users == 1 .. MaxUser

VARIABLES
  users,                  \* [user -> UserInfo, with its part of sbrRewardSnapshots]
  totalStakedRaw,
  perToken,               \* totalRewardPerToken, totalCollateralPerToken, totalSbrRewardPerToken
  loss,                   \* rewardLoss, collateralLoss, sbrRewardLoss
  stakeScalingFactor,
  stakeResetSnapshots,    \* as a sequence: its length is stakeResetCount
  issuance,               \* the status, last and end time of the DFIRE issuance
  now,                    \* block.timestamp
  dfid,                   \* DFID held by the pool
  eth,                    \* ETH held by the pool
  minted,                 \* DFIRE minted for stakers
  canReceive,             \* StableBase.stabilityPoolCanReceiveRewards
  calls,                  \* the calls that await the recipient of their ETH
  roundings               \* history: how many amounts of each currency were distributed

poolVars == <<users, totalStakedRaw, perToken, loss, stakeScalingFactor, stakeResetSnapshots,
              issuance, now, dfid, eth, minted, canReceive, calls, roundings>>

Currencies == {"sbd", "eth", "sbr"}
Amounts    == [Currencies -> Nat]
Nothing    == [c \in Currencies |-> 0]
UserInfo == [stake : Nat, snapshot : Amounts, sbrClaimed : BOOLEAN,
             cumulativeProductScalingFactor : Nat, stakeResetCount : Nat]
NewUser  == [stake |-> 0, snapshot |-> Nothing, sbrClaimed |-> FALSE,
             cumulativeProductScalingFactor |-> 0, stakeResetCount |-> 0]
Snapshot == [scalingFactor : Nat, perToken : Amounts]
Issuance == [status : {"NOT_STARTED", "STARTED", "ENDED"}, last : Nat, end : Nat]
Call == [user : Users, op : {"stake", "unstake", "claim"}, amount : Nat, sbr : Nat]

Init ==
  /\ users = [u \in Users |-> NewUser]
  /\ totalStakedRaw = 0
  /\ perToken = Nothing
  /\ loss = Nothing
  /\ stakeScalingFactor = PRECISION
  /\ stakeResetSnapshots = <<>>
  /\ issuance = [status |-> "NOT_STARTED", last |-> 0, end |-> 0]
  /\ now = 0
  /\ dfid = 0
  /\ eth = 0
  /\ minted = 0
  /\ canReceive = FALSE
  /\ calls = <<>>
  /\ roundings = Nothing

-----------------------------------------------------------------------------
(* Distributing an amount: addReward, addCollateralReward, performLiquidation *)
(* and _addSBRRewards compute it alike, with what the last one left over.      *)

PerToken(c, amount) == ((amount + loss[c]) * stakeScalingFactor) \div totalStakedRaw

\* (With a mistake, to see that a property notices it: what was left over is paid out, not carried.)
LossForgotten(c, amount) == amount - (PerToken(c, amount) * totalStakedRaw) \div stakeScalingFactor

LossAfter(c, amount) ==
  amount + loss[c] - (PerToken(c, amount) * totalStakedRaw) \div stakeScalingFactor

-----------------------------------------------------------------------------
(* _addSBRRewards. *)

Over   == issuance.status = "STARTED" /\ now > issuance.end

\* (With a mistake, to see that a property notices it: the end is not looked at.)
IssuedPastEnd == now - issuance.last

Issued == (IF Over THEN issuance.end ELSE now) - issuance.last

\* Time that passes while nobody has a stake is dropped.
Issuing == issuance.status = "STARTED" /\ totalStakedRaw > 0

IssuedPerToken == IF Issuing THEN PerToken("sbr", Issued * sbrDistributionRate) ELSE 0

IssuanceStatus(status) ==
  CASE status = "NOT_STARTED"        -> "STARTED"
    [] status = "STARTED" /\ ~Over   -> "STARTED"
    [] OTHER                         -> "ENDED"

\* What the cumulative amounts of the other two currencies grow by is in more.
AddSBRRewards(more) ==
  /\ issuance' = [status |-> IssuanceStatus(issuance.status),
                  last |-> IF issuance.status = "ENDED" THEN issuance.last ELSE now,
                  end |-> IF issuance.status = "NOT_STARTED" THEN now + sbrDistributionTime
                                                             ELSE issuance.end]
  /\ perToken' = [c \in Currencies |-> perToken[c] + (IF c = "sbr" THEN IssuedPerToken ELSE more[c])]

LossWithSBR == IF Issuing THEN LossAfter("sbr", Issued * sbrDistributionRate) ELSE loss["sbr"]

-----------------------------------------------------------------------------
(* userPendingRewardAndCollateral and _getUserEffectiveStake.  A user's stake  *)
(* dates from an epoch, the time between two resets; the code looks at that    *)
(* epoch and at the next one.                                                  *)

stakeResetCount == Len(stakeResetSnapshots)

FactorOf(epoch) ==
  IF epoch = stakeResetCount THEN stakeScalingFactor
                             ELSE stakeResetSnapshots[epoch + 1].scalingFactor

PerTokenOf(epoch, c, current) ==
  IF epoch = stakeResetCount THEN current[c] ELSE stakeResetSnapshots[epoch + 1].perToken[c]

\* The stake at the end of the user's epoch.
Scaled(user) ==
  (user.stake * FactorOf(user.stakeResetCount)) \div user.cumulativeProductScalingFactor

\* (With a mistake, to see that a property notices it: the next epoch is forgotten.)
EffectiveStakeOfEpoch(user) ==
  IF user.cumulativeProductScalingFactor = 0 THEN user.stake ELSE Scaled(user)

EffectiveStake(user) ==
  IF user.cumulativeProductScalingFactor = 0 THEN user.stake
  ELSE IF user.stakeResetCount = stakeResetCount THEN Scaled(user)
  ELSE (Scaled(user) * FactorOf(user.stakeResetCount + 1)) \div PRECISION

\* What c has gained since the user's snapshot, in the user's epoch ...
Gain(user, c, current) == PerTokenOf(user.stakeResetCount, c, current) - user.snapshot[c]

\* ... and what that and the next epoch come to.
Pending(user, c, current) ==
  IF user.cumulativeProductScalingFactor = 0 \/ (c = "sbr" /\ user.sbrClaimed) THEN 0
  ELSE (Gain(user, c, current) * user.stake) \div user.cumulativeProductScalingFactor
         + (IF user.stakeResetCount = stakeResetCount THEN 0
            ELSE (PerTokenOf(user.stakeResetCount + 1, c, current) * Scaled(user)) \div PRECISION)

PendingNow(u, c) == Pending(users[u], c, perToken)

\* A checked subtraction that would be negative reverts the call.
Computable(user, current) ==
  \A c \in Currencies :
    \/ user.cumulativeProductScalingFactor = 0
    \/ c = "sbr" /\ user.sbrClaimed
    \/ Gain(user, c, current) >= 0

-----------------------------------------------------------------------------
(* stake, unstake and claim. *)

\* (With a mistake, to see that a property notices it: the ETH snapshot is not taken.)
SnapshotsTakenLate(user, status, current) ==
  [user EXCEPT !.snapshot = [c \in Currencies |-> IF c = "sbd" THEN current[c] ELSE @[c]],
               !.sbrClaimed = @ \/ status = "ENDED"]

SnapshotsTaken(user, status, current) ==
  [user EXCEPT !.snapshot = [c \in Currencies |->
                               IF c = "sbr" /\ status = "ENDED" THEN @[c] ELSE current[c]],
               !.sbrClaimed = @ \/ status = "ENDED"]

\* _claim up to the payment of the ETH.
PayRewards(u) ==
  LET current == [perToken EXCEPT !["sbr"] = @ + IssuedPerToken]
  IN  /\ AddSBRRewards(Nothing)
      /\ loss' = [loss EXCEPT !["sbr"] = LossWithSBR]
      /\ roundings' = [roundings EXCEPT !["sbr"] = @ + (IF Issuing THEN 1 ELSE 0)]
      /\ Computable(users[u], current)
      /\ PendingNow(u, "sbd") <= dfid
      /\ PendingNow(u, "eth") <= eth
      /\ eth' = eth - PendingNow(u, "eth")

PaidUser(u) ==
  SnapshotsTaken(users[u], IssuanceStatus(issuance.status),
                 [perToken EXCEPT !["sbr"] = @ + IssuedPerToken])

SBRToMint(u) == Pending(users[u], "sbr", [perToken EXCEPT !["sbr"] = @ + IssuedPerToken])

\* _updateUserStake, and the change that stake and unstake make after it.
Settled(user, change) ==
  [user EXCEPT !.stake = EffectiveStake(user) + change,
               !.cumulativeProductScalingFactor = stakeScalingFactor,
               !.stakeResetCount = stakeResetCount]

\* (With a mistake, to see that a property notices it: the CDP is not told of the last unstake.)
FlagAfterStakeOnly(op, amount) ==
  (op = "stake" /\ totalStakedRaw = 0 /\ rewardSenderActive) \/ canReceive

FlagAfter(op, amount) ==
  CASE op = "stake" /\ totalStakedRaw = 0 /\ rewardSenderActive        -> TRUE
    [] op = "unstake" /\ totalStakedRaw = amount /\ rewardSenderActive -> FALSE
    [] OTHER                                                           -> canReceive

\* The rest of a call, for the user as _claim has left it and the DFID then held.
Complete(u, user, op, amount, sbr, held) ==
  LET change == CASE op = "stake" -> amount [] op = "unstake" -> -amount [] OTHER -> 0
  IN  /\ op = "stake" => held + amount <= Supply
      /\ op = "unstake" => /\ amount <= EffectiveStake(user)
                           /\ amount <= totalStakedRaw
                           /\ amount <= held
      /\ users' = [users EXCEPT ![u] = Settled(user, change)]
      /\ totalStakedRaw' = totalStakedRaw + change
      /\ dfid' = held + change
      /\ minted' = minted + sbr
      /\ canReceive' = FlagAfter(op, amount)
      /\ UNCHANGED <<stakeScalingFactor, stakeResetSnapshots, now>>

\* claim does nothing for a user without a stake.
Asked(u, op, amount) == IF op = "claim" THEN users[u].stake > 0 /\ amount = 0 ELSE amount > 0

\* A call of a user who, paid or not, does not call back.
Transact(u, op, amount) ==
  /\ Asked(u, op, amount)
  /\ PayRewards(u)
  /\ Complete(u, PaidUser(u), op, amount, SBRToMint(u), dfid - PendingNow(u, "sbd"))
  /\ UNCHANGED calls

\* A call up to the point where its user is paid and may call the pool again.
BeginCall(u, op, amount) ==
  /\ Asked(u, op, amount)
  /\ Len(calls) < MaxCalls
  /\ PendingNow(u, "eth") > 0
  /\ PayRewards(u)
  /\ users' = [users EXCEPT ![u] = PaidUser(u)]
  /\ dfid' = dfid - PendingNow(u, "sbd")
  /\ calls' = Append(calls, [user |-> u, op |-> op, amount |-> amount, sbr |-> SBRToMint(u)])
  /\ UNCHANGED <<totalStakedRaw, stakeScalingFactor, stakeResetSnapshots, now, minted, canReceive>>

FinishCall(op) ==
  /\ calls # <<>>
  /\ LET call == calls[Len(calls)]
     IN  /\ call.op = op
         /\ Complete(call.user, users[call.user], op, call.amount, call.sbr, dfid)
  /\ calls' = SubSeq(calls, 1, Len(calls) - 1)
  /\ UNCHANGED <<perToken, loss, issuance, eth, roundings>>

-----------------------------------------------------------------------------
(* What StableBaseCDP calls: fees, liquidation fees, and liquidations. *)

\* Without stakers addReward answers false and takes no tokens.
AddReward(amount) ==
  /\ totalStakedRaw > 0
  /\ AddSBRRewards([Nothing EXCEPT !["sbd"] = PerToken("sbd", amount)])
  /\ loss' = [loss EXCEPT !["sbd"] = LossAfter("sbd", amount), !["sbr"] = LossWithSBR]
  /\ roundings' = [roundings EXCEPT !["sbd"] = @ + 1, !["sbr"] = @ + (IF Issuing THEN 1 ELSE 0)]
  /\ dfid' = dfid + amount
  /\ UNCHANGED <<users, totalStakedRaw, stakeScalingFactor, stakeResetSnapshots, now, eth, minted,
                 canReceive, calls>>

\* Without stakers addCollateralReward answers false and keeps the ETH it was sent.
AddCollateralReward(amount) ==
  /\ IF totalStakedRaw > 0
       THEN /\ perToken' = [perToken EXCEPT !["eth"] = @ + PerToken("eth", amount)]
            /\ loss' = [loss EXCEPT !["eth"] = LossAfter("eth", amount)]
            /\ roundings' = [roundings EXCEPT !["eth"] = @ + 1]
       ELSE UNCHANGED <<perToken, loss, roundings>>
  /\ eth' = eth + amount
  /\ UNCHANGED <<users, totalStakedRaw, stakeScalingFactor, stakeResetSnapshots, issuance, now,
                 dfid, minted, canReceive, calls>>

\* (With a mistake, to see that a property notices it: the stakes shrink by the debt alone.)
ScaledByDebt(amount) == (stakeScalingFactor * amount) \div totalStakedRaw

\* The factor by which the stakes shrink, times what it was.
ScaledDown(amount) ==
  (stakeScalingFactor * (((totalStakedRaw - amount) * PRECISION) \div totalStakedRaw))
    \div PRECISION

\* The pool pays a debt, which the CDP burns, and gets the collateral.
PerformLiquidation(amount, collateral) ==
  LET factor  == ScaledDown(amount)
      credited == [perToken EXCEPT !["eth"] = @ + PerToken("eth", collateral)]
  IN  /\ amount <= totalStakedRaw
      /\ amount <= dfid
      /\ loss' = [loss EXCEPT !["eth"] = LossAfter("eth", collateral)]
      /\ roundings' = [roundings EXCEPT !["eth"] = @ + 1]
      /\ totalStakedRaw' = totalStakedRaw - amount
      /\ canReceive' = (canReceive /\ ~(totalStakedRaw = amount /\ rewardSenderActive))
      /\ dfid' = dfid - amount
      /\ eth' = eth + collateral
      /\ \/ /\ factor >= minimumScalingFactor
            /\ stakeScalingFactor' = factor
            /\ perToken' = credited
            /\ UNCHANGED stakeResetSnapshots
         \/ /\ factor < minimumScalingFactor
            /\ stakeResetCount < MaxResets
            /\ stakeResetSnapshots' =
                 Append(stakeResetSnapshots, [scalingFactor |-> factor, perToken |-> credited])
            /\ stakeScalingFactor' = PRECISION
            /\ perToken' = Nothing
      /\ UNCHANGED <<users, issuance, now, minted, calls>>

Tick ==
  /\ now < MaxTime
  /\ calls = <<>>
  /\ now' = now + 1
  /\ UNCHANGED <<users, totalStakedRaw, perToken, loss, stakeScalingFactor, stakeResetSnapshots,
                 issuance, dfid, eth, minted, canReceive, calls, roundings>>

Distribution ==
  /\ roundings["sbd"] + roundings["eth"] < MaxRewards
  /\ \/ \E amount \in RewardAmounts : AddReward(amount)
     \/ \E amount \in CollateralAmounts : AddCollateralReward(amount)
     \/ \E amount \in LiquidationAmounts, collateral \in CollateralAmounts :
          PerformLiquidation(amount, collateral)

UserCall ==
  \E u \in Users :
    \/ \E op \in {"stake", "unstake"}, amount \in StakeAmounts :
         Transact(u, op, amount) \/ BeginCall(u, op, amount)
    \/ Transact(u, "claim", 0)
    \/ BeginCall(u, "claim", 0)

Next == UserCall \/ Distribution \/ Tick \/ \E op \in {"stake", "unstake", "claim"} : FinishCall(op)

Spec == Init /\ [][Next]_poolVars

-----------------------------------------------------------------------------
(* Properties. *)

\* Every variable has its type: no amount, total or balance is negative.
TypeOK ==
  /\ users \in [Users -> UserInfo]
  /\ totalStakedRaw \in Nat
  /\ perToken \in Amounts
  /\ loss \in Amounts
  /\ stakeScalingFactor \in minimumScalingFactor .. PRECISION
  /\ stakeResetSnapshots \in Seq(Snapshot)
  /\ issuance \in Issuance
  /\ now \in Nat
  /\ dfid \in Nat
  /\ eth \in Nat
  /\ minted \in Nat
  /\ canReceive \in BOOLEAN
  /\ calls \in Seq(Call)
  /\ roundings \in Amounts

PendingTotal(c) == Sum([u \in Users |-> PendingNow(u, c)], MaxUser)
EffectiveTotal  == Sum([u \in Users |-> EffectiveStake(users[u])], MaxUser)

\* What the users can withdraw together is no more than totalStakedRaw, which is
\* what the pool promises to pay debts with, through liquidations, resets and
\* nested calls (but for the stakes that StabilityPool.sol:550 overlooks).
StakesWithinTotal == EffectiveTotal <= totalStakedRaw

\* The pool holds the DFID of the stakes and of the rewards that the users are
\* shown, and the ETH that they are shown, up to one unit for each amount that
\* was distributed: what is left over is rounded up.
Solvent ==
  /\ totalStakedRaw + PendingTotal("sbd") <= dfid + roundings["sbd"]
  /\ PendingTotal("eth") <= eth + roundings["eth"]

\* StableBaseCDP believes that there is a stake to reward exactly when there is:
\* staking, unstaking and liquidations all tell it.
FlagTellsStakers == rewardSenderActive => (canReceive <=> totalStakedRaw > 0)

\* No more DFIRE than one per unit of time until the end of the issuance is
\* minted, promised to users, or about to be minted by calls under way, however
\* long after the end, and after how many resets, they call.
IssuedTime ==
  IF issuance.status = "NOT_STARTED" THEN 0
  ELSE (IF now > issuance.end THEN issuance.end ELSE now) - (issuance.end - sbrDistributionTime)
ToMint == Sum([k \in DOMAIN calls |-> calls[k].sbr], Len(calls))
IssuanceBounded ==
  minted + ToMint + PendingTotal("sbr") <= sbrDistributionRate * IssuedTime + roundings["sbr"]

\* A stake is its amount times the current factor by the factor of its base,
\* rounded: it was made at that factor or, in an earlier epoch, was left at the
\* beginning of this one.
Base(user) ==
  IF user.cumulativeProductScalingFactor = 0 THEN [amount |-> 0, factor |-> 1]
  ELSE IF user.stakeResetCount = stakeResetCount
    THEN [amount |-> user.stake, factor |-> user.cumulativeProductScalingFactor]
    ELSE [amount |-> Scaled(user), factor |-> PRECISION]

\* What a liquidation takes from a stake that it reaches, and what it gives to it
\* of the collateral.
InProportion(u) ==
  LET base   == Base(users[u])
      stake  == EffectiveStake(users[u])
      stake1 == EffectiveStake(users[u])'
      gain   == PendingNow(u, "eth")' - PendingNow(u, "eth")
      total  == eth' - eth + loss["eth"]
  IN  /\ stake1 * totalStakedRaw <= (stake + 1) * totalStakedRaw'
      /\ (stake * totalStakedRaw') * base.factor
           <= ((stake1 + 1) * base.factor + 2 * base.amount) * totalStakedRaw
      /\ (gain - 1) * totalStakedRaw <= (stake + 1) * total
      /\ (stake * total) * base.factor
           <= ((gain + 1) * base.factor + base.amount) * totalStakedRaw

\* "S[i][n] = S[i][n-1] * (1 - A[n] / T[n-1])": a liquidation takes from every
\* stake, and gives to it of the collateral, in proportion, also when it resets
\* the scaling factor; up to one unit, and what two units of the factor, or one
\* of the collateral per token, are worth to the stake.  (A stake from before the
\* last two resets is left as it is.)
Liquidated == totalStakedRaw' < totalStakedRaw /\ users' = users
LiquidationShared ==
  [][Liquidated =>
       \A u \in {v \in Users : users[v].stakeResetCount + 1 >= stakeResetCount} :
         InProportion(u)]_poolVars
=============================================================================
