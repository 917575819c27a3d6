---------------------------- MODULE DFIREStaking ----------------------------
(***************************************************************************)
(* The contract DFIREStaking.sol: users stake DFIRE and share the DFID fees*)
(* and the ETH liquidation fees that StableBaseCDP adds, by a cumulative   *)
(* reward per token and a snapshot of it per user.                         *)
(*                                                                         *)
(* stake and unstake pay the user's ETH in the middle of the call, and the *)
(* recipient may call the contract again before the call goes on: such a   *)
(* call is two steps, and the calls under way form the stack  calls.       *)
(* Everything else a transaction does is one step.  A transaction that     *)
(* reverts changes nothing and is not a step.                              *)
(***************************************************************************)
EXTENDS Sums, Sequences

CONSTANTS
  MaxUser,              \* the stakers are 1 .. MaxUser
  PRECISION,            \* the fixed point of the cumulative rewards (10^18)
  rewardSenderActive,   \* the constructor's argument: tell StableBaseCDP about stakers
  StakeAmounts,         \* amounts of stake and unstake
  RewardAmounts,        \* amounts of addReward
  CollateralAmounts,    \* amounts of addCollateralReward
  DFIRESupply,          \* bound: the DFIRE that exists
  MaxPerToken,          \* bound on the two cumulative rewards
  MaxBalance,           \* bound on the rewards held
  MaxCalls              \* bound on the depth of nested calls

ASSUME DFIREStakingAssumption ==
  /\ MaxUser \in Nat
  /\ PRECISION \in Nat \ {0}
  /\ rewardSenderActive \in BOOLEAN
  /\ StakeAmounts \subseteq Nat
  /\ RewardAmounts \subseteq Nat
  /\ CollateralAmounts \subseteq Nat

Users == 1 .. MaxUser

VARIABLES
  stakes,                   \* [user -> its Stake]
  totalStake,
  totalRewardPerToken,
  totalCollateralPerToken,
  stakingBalance,           \* DFIRE held by the contract
  rewardBalance,            \* DFID held by the contract
  ethBalance,               \* ETH held by the contract
  canReceive,               \* StableBase.sbrStakingPoolCanReceiveRewards
  calls                     \* the stake and unstake calls that await their recipient

vars == <<stakes, totalStake, totalRewardPerToken, totalCollateralPerToken,
          stakingBalance, rewardBalance, ethBalance, canReceive, calls>>
cumulative == <<totalRewardPerToken, totalCollateralPerToken>>

Stake == [stake : Nat, rewardSnapshot : Nat, collateralSnapshot : Nat]
Call  == [user : Users, op : {"stake", "unstake"}, amount : Nat \ {0}, callback : BOOLEAN]

Init ==
  /\ stakes = [u \in Users |-> [stake |-> 0, rewardSnapshot |-> 0, collateralSnapshot |-> 0]]
  /\ totalStake = 0
  /\ totalRewardPerToken = 0
  /\ totalCollateralPerToken = 0
  /\ stakingBalance = 0
  /\ rewardBalance = 0
  /\ ethBalance = 0
  /\ canReceive = FALSE
  /\ calls = <<>>

-----------------------------------------------------------------------------

\* Nobody is in the middle of a call, or the one on top is paying its user.
InControl == \A k \in DOMAIN calls : k = Len(calls) => calls[k].callback

Reward(u) ==
  ((totalRewardPerToken - stakes[u].rewardSnapshot) * stakes[u].stake) \div PRECISION

CollateralReward(u) ==
  ((totalCollateralPerToken - stakes[u].collateralSnapshot) * stakes[u].stake) \div PRECISION

\* (With a mistake, to see that a property notices it: the ETH snapshot is not taken.)
PayRewardsAgain(u) ==
  /\ Reward(u) <= rewardBalance
  /\ CollateralReward(u) <= ethBalance
  /\ stakes' = [stakes EXCEPT ![u].rewardSnapshot = totalRewardPerToken]
  /\ rewardBalance' = rewardBalance - Reward(u)
  /\ ethBalance' = ethBalance - CollateralReward(u)

\* _claim: both transfers succeed or the call reverts.
PayRewards(u) ==
  /\ Reward(u) <= rewardBalance
  /\ CollateralReward(u) <= ethBalance
  /\ stakes' = [stakes EXCEPT ![u].rewardSnapshot = totalRewardPerToken,
                              ![u].collateralSnapshot = totalCollateralPerToken]
  /\ rewardBalance' = rewardBalance - Reward(u)
  /\ ethBalance' = ethBalance - CollateralReward(u)

\* Nothing follows the payment in claim, so a call made in it is as one made after it.
Claim(u) ==
  /\ InControl
  /\ PayRewards(u)
  /\ UNCHANGED <<totalStake, cumulative, stakingBalance, canReceive, calls>>

\* (With a mistake, to see that a property notices it: the stake is not looked at.)
PossibleUnchecked(u, op, amount) ==
  op = "stake" => stakingBalance + amount <= DFIRESupply

\* What stake and unstake require once the rewards are paid.
Possible(u, op, amount) ==
  \/ op = "stake" /\ stakingBalance + amount <= DFIRESupply
  \/ op = "unstake" /\ amount <= stakes[u].stake

\* stake and unstake up to the end of _claim.  Without ETH to pay there is no
\* callback, and what is required after it is known now.
BeginCall(u, op, amount) ==
  /\ InControl
  /\ Len(calls) < MaxCalls
  /\ amount > 0
  /\ PayRewards(u)
  /\ CollateralReward(u) > 0 \/ Possible(u, op, amount)
  /\ calls' = Append(calls, [user |-> u, op |-> op, amount |-> amount,
                             callback |-> CollateralReward(u) > 0])
  /\ UNCHANGED <<totalStake, cumulative, stakingBalance, canReceive>>

Returns(op) == calls # <<>> /\ calls[Len(calls)].op = op

\* (With a mistake, to see that a property notices it: totalStake is forgotten.)
FinishStakeUncounted ==
  /\ Returns("stake")
  /\ LET call == calls[Len(calls)]
     IN  /\ Possible(call.user, "stake", call.amount)
         /\ stakingBalance' = stakingBalance + call.amount
         /\ stakes' = [stakes EXCEPT ![call.user].stake = @ + call.amount]
         /\ canReceive' = (canReceive \/ (rewardSenderActive /\ totalStake = 0))
         /\ calls' = SubSeq(calls, 1, Len(calls) - 1)
  /\ UNCHANGED <<totalStake, cumulative, rewardBalance, ethBalance>>

\* The rest of stake, after _claim.
FinishStake ==
  /\ Returns("stake")
  /\ LET call == calls[Len(calls)]
     IN  /\ Possible(call.user, "stake", call.amount)
         /\ stakingBalance' = stakingBalance + call.amount
         /\ stakes' = [stakes EXCEPT ![call.user].stake = @ + call.amount]
         /\ totalStake' = totalStake + call.amount
         /\ canReceive' = (canReceive \/ (rewardSenderActive /\ totalStake = 0))
         /\ calls' = SubSeq(calls, 1, Len(calls) - 1)
  /\ UNCHANGED <<cumulative, rewardBalance, ethBalance>>

\* The rest of unstake, after _claim.
FinishUnstake ==
  /\ Returns("unstake")
  /\ LET call == calls[Len(calls)]
     IN  /\ Possible(call.user, "unstake", call.amount)
         /\ call.amount <= stakingBalance
         /\ stakingBalance' = stakingBalance - call.amount
         /\ stakes' = [stakes EXCEPT ![call.user].stake = @ - call.amount]
         /\ totalStake' = totalStake - call.amount
         /\ canReceive' = (canReceive /\ ~(rewardSenderActive /\ totalStake' = 0))
         /\ calls' = SubSeq(calls, 1, Len(calls) - 1)
  /\ UNCHANGED <<cumulative, rewardBalance, ethBalance>>

\* Anybody may add a reward: StableBaseCDP with a fee or a liquidation, and a
\* recipient of ETH too, before it returns.  Without stakers addReward
\* returns false and takes no tokens.
AddReward(amount) ==
  /\ InControl
  /\ totalStake > 0
  /\ totalRewardPerToken + (amount * PRECISION) \div totalStake <= MaxPerToken
  /\ rewardBalance + amount <= MaxBalance
  /\ totalRewardPerToken' = totalRewardPerToken + (amount * PRECISION) \div totalStake
  /\ rewardBalance' = rewardBalance + amount
  /\ UNCHANGED <<stakes, totalStake, totalCollateralPerToken, stakingBalance,
                 ethBalance, canReceive, calls>>

AddCollateralReward(amount) ==
  /\ InControl
  /\ totalStake > 0
  /\ totalCollateralPerToken + (amount * PRECISION) \div totalStake <= MaxPerToken
  /\ ethBalance + amount <= MaxBalance
  /\ totalCollateralPerToken' = totalCollateralPerToken + (amount * PRECISION) \div totalStake
  /\ ethBalance' = ethBalance + amount
  /\ UNCHANGED <<stakes, totalStake, totalRewardPerToken, stakingBalance,
                 rewardBalance, canReceive, calls>>

\* Without stakers addCollateralReward returns false, and keeps the ETH it was sent.
KeepCollateral(amount) ==
  /\ InControl
  /\ totalStake = 0
  /\ ethBalance + amount <= MaxBalance
  /\ ethBalance' = ethBalance + amount
  /\ UNCHANGED <<stakes, totalStake, cumulative, stakingBalance, rewardBalance,
                 canReceive, calls>>

Next ==
  \/ \E u \in Users : Claim(u)
  \/ \E u \in Users, amount \in StakeAmounts : BeginCall(u, "stake", amount)
  \/ \E u \in Users, amount \in StakeAmounts : BeginCall(u, "unstake", amount)
  \/ FinishStake
  \/ FinishUnstake
  \/ \E amount \in RewardAmounts : AddReward(amount)
  \/ \E amount \in CollateralAmounts : AddCollateralReward(amount)
  \/ \E amount \in CollateralAmounts : KeepCollateral(amount)

Spec == Init /\ [][Next]_vars

-----------------------------------------------------------------------------

TypeOK ==
  /\ stakes \in [Users -> Stake]
  /\ totalStake \in Nat
  /\ totalRewardPerToken \in Nat
  /\ totalCollateralPerToken \in Nat
  /\ stakingBalance \in Nat
  /\ rewardBalance \in Nat
  /\ ethBalance \in Nat
  /\ canReceive \in BOOLEAN
  /\ calls \in Seq(Call)

\* What the users have staked is what totalStake says, and the contract holds
\* exactly that many DFIRE, whatever calls are nested in one another.
StakeOf      == [u \in Users |-> stakes[u].stake]
StakesBacked == totalStake = Sum(StakeOf, MaxUser) /\ stakingBalance = totalStake

\* StableBaseCDP believes that there is somebody to reward exactly when there is:
\* it relies on that in distributing a liquidation fee, because of KeepCollateral.
FlagTellsStakers == rewardSenderActive => (canReceive <=> totalStake > 0)
=============================================================================
