---------------------------- MODULE DFIREStakingH ----------------------------
(***************************************************************************)
(* DFIREStaking with history variables: what each user should have been    *)
(* paid for the stake that it had when each reward came, beside what the   *)
(* contract computes from one snapshot per user.                           *)
(*                                                                         *)
(* The two differ where the code lets a call be interrupted: a reward that *)
(* is added between the payment of a stake (or unstake) and the change of  *)
(* the stake is computed for the stake after the change.  misjudged  is    *)
(* what this comes to, and nothing else.                                   *)
(***************************************************************************)
EXTENDS DFIREStaking

VARIABLES
  due,        \* [user -> what it has earned less what it has been paid, times PRECISION]
  misjudged,  \* [user -> what the change of stake of interrupted calls adds to that]
  roundings   \* [user -> how often it was paid a rounded amount]

history == <<due, misjudged, roundings>>
varsH   == <<vars, history>>

InitH ==
  /\ Init
  /\ due = [u \in Users |-> [sbd |-> 0, eth |-> 0]]
  /\ misjudged = [u \in Users |-> [sbd |-> 0, eth |-> 0]]
  /\ roundings = [u \in Users |-> 0]

-----------------------------------------------------------------------------

\* The rewards per token since the user's snapshots.
Since(u) == [sbd |-> totalRewardPerToken - stakes[u].rewardSnapshot,
             eth |-> totalCollateralPerToken - stakes[u].collateralSnapshot]

Pays(u) ==
  /\ due' = [due EXCEPT ![u] = [sbd |-> @.sbd - PRECISION * Reward(u),
                                eth |-> @.eth - PRECISION * CollateralReward(u)]]
  /\ roundings' = [roundings EXCEPT ![u] = IF Since(u) = [sbd |-> 0, eth |-> 0] THEN @ ELSE @ + 1]
  /\ UNCHANGED misjudged

\* The stake of u changes by n, and u has not been paid since some reward.
Misjudge(u, n) ==
  /\ misjudged' = [misjudged EXCEPT ![u] = [sbd |-> @.sbd + Since(u).sbd * n,
                                            eth |-> @.eth + Since(u).eth * n]]
  /\ UNCHANGED <<due, roundings>>

\* A reward is earned by the stakes that there are.
Earned ==
  /\ due' = [u \in Users |->
       [sbd |-> due[u].sbd + (totalRewardPerToken' - totalRewardPerToken) * stakes[u].stake,
        eth |-> due[u].eth + (totalCollateralPerToken' - totalCollateralPerToken) * stakes[u].stake]]
  /\ UNCHANGED <<misjudged, roundings>>

ClaimH(u)                 == Claim(u) /\ Pays(u)
BeginCallH(u, op, amount) == BeginCall(u, op, amount) /\ Pays(u)

FinishStakeH ==
  LET call == calls[Len(calls)] IN FinishStake /\ Misjudge(call.user, call.amount)
FinishUnstakeH ==
  LET call == calls[Len(calls)] IN FinishUnstake /\ Misjudge(call.user, -call.amount)

AddRewardH(amount)           == AddReward(amount) /\ Earned
AddCollateralRewardH(amount) == AddCollateralReward(amount) /\ Earned
KeepCollateralH(amount)      == KeepCollateral(amount) /\ UNCHANGED history

NextH ==
  \/ \E u \in Users : ClaimH(u)
  \/ \E u \in Users, amount \in StakeAmounts : BeginCallH(u, "stake", amount)
  \/ \E u \in Users, amount \in StakeAmounts : BeginCallH(u, "unstake", amount)
  \/ FinishStakeH
  \/ FinishUnstakeH
  \/ \E amount \in RewardAmounts : AddRewardH(amount)
  \/ \E amount \in CollateralAmounts : AddCollateralRewardH(amount)
  \/ \E amount \in CollateralAmounts : KeepCollateralH(amount)

SpecH == InitH /\ [][NextH]_varsH

-----------------------------------------------------------------------------

\* All users together can claim what they are shown as pending, in any order, but
\* for what interrupted calls have misjudged: if no reward came during the
\* payment of a stake or unstake, that is all of it.
PendingReward       == [u \in Users |-> Reward(u)]
PendingCollateral   == [u \in Users |-> CollateralReward(u)]
MisjudgedReward     == [u \in Users |-> misjudged[u].sbd]
MisjudgedCollateral == [u \in Users |-> misjudged[u].eth]
ClaimsCovered ==
  /\ PRECISION * Sum(PendingReward, MaxUser)
       <= PRECISION * rewardBalance + Sum(MisjudgedReward, MaxUser)
  /\ PRECISION * Sum(PendingCollateral, MaxUser)
       <= PRECISION * ethBalance + Sum(MisjudgedCollateral, MaxUser)

\* What a user can still claim is what it has earned and not been paid, up to one
\* unit for each payment, and what interrupted calls of its own have misjudged.
\* So a call from a payment is paid nothing twice, no reward is lost with a change
\* of the stake, and what one user does in a payment changes no other's claim.
PaidAsEarned ==
  \A u \in Users :
    /\ due[u].sbd + misjudged[u].sbd - PRECISION * Reward(u)
         \in 0 .. PRECISION * (roundings[u] + 1)
    /\ due[u].eth + misjudged[u].eth - PRECISION * CollateralReward(u)
         \in 0 .. PRECISION * (roundings[u] + 1)
==============================================================================
