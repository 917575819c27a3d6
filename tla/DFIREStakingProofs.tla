------------------------- MODULE DFIREStakingProofs -------------------------
(***************************************************************************)
(* Safety of DFIREStaking for every number of stakers, every precision and *)
(* every set of amounts.                                                   *)
(***************************************************************************)
EXTENDS DFIREStakingH, SumsProofs

\* Rewards owed to a user, before they are divided by PRECISION.
Owed(perToken, snapshot, stake) == (perToken - snapshot) * stake

OwedReward == [u \in Users |->
  Owed(totalRewardPerToken, stakes[u].rewardSnapshot, stakes[u].stake)]
OwedCollateral == [u \in Users |->
  Owed(totalCollateralPerToken, stakes[u].collateralSnapshot, stakes[u].stake)]

SnapshotsBehind ==
  \A u \in Users : /\ stakes[u].rewardSnapshot <= totalRewardPerToken
                   /\ stakes[u].collateralSnapshot <= totalCollateralPerToken

\* Without the divisions: what is owed is in the contract but for what was misjudged.
Solvent ==
  /\ Sum(OwedReward, MaxUser) <= PRECISION * rewardBalance + Sum(MisjudgedReward, MaxUser)
  /\ Sum(OwedCollateral, MaxUser) <= PRECISION * ethBalance + Sum(MisjudgedCollateral, MaxUser)

\* What the roundings of its payments have cost a user so far, times PRECISION.
LostReward(u)     == due[u].sbd + misjudged[u].sbd - OwedReward[u]
LostCollateral(u) == due[u].eth + misjudged[u].eth - OwedCollateral[u]

LittleLost ==
  \A u \in Users : /\ LostReward(u) \in 0 .. PRECISION * roundings[u]
                   /\ LostCollateral(u) \in 0 .. PRECISION * roundings[u]

HistoryOK ==
  /\ due \in [Users -> [sbd : Int, eth : Int]]
  /\ misjudged \in [Users -> [sbd : Int, eth : Int]]
  /\ roundings \in [Users -> Nat]

-----------------------------------------------------------------------------
(* Type correctness. *)

TypeInv == TypeOK /\ SnapshotsBehind /\ StakesBacked

\* What is owed, and what of it is paid, are natural numbers.
LEMMA RewardType ==
  ASSUME TypeOK, SnapshotsBehind, NEW u \in Users
  PROVE  /\ OwedReward[u] \in Nat /\ OwedCollateral[u] \in Nat
         /\ Reward(u) \in Nat /\ CollateralReward(u) \in Nat
         /\ PRECISION * Reward(u) <= OwedReward[u]
         /\ PRECISION * CollateralReward(u) <= OwedCollateral[u]
<1>1. /\ totalRewardPerToken - stakes[u].rewardSnapshot \in Nat
      /\ totalCollateralPerToken - stakes[u].collateralSnapshot \in Nat
      /\ stakes[u].stake \in Nat
  BY DEF TypeOK, SnapshotsBehind, Stake
<1>2. OwedReward[u] \in Nat /\ OwedCollateral[u] \in Nat
  BY <1>1 DEF OwedReward, OwedCollateral, Owed
<1>3. /\ Reward(u) = OwedReward[u] \div PRECISION
      /\ CollateralReward(u) = OwedCollateral[u] \div PRECISION
  BY DEF Reward, CollateralReward, OwedReward, OwedCollateral, Owed
<1>4. QED
  BY <1>2, <1>3, DivisionRoundsDown, DFIREStakingAssumption

\* The state after the rewards of a user are paid.
LEMMA PaidState ==
  ASSUME TypeInv, NEW u \in Users, PayRewards(u)
  PROVE  /\ stakes' \in [Users -> Stake]
         /\ rewardBalance' \in Nat /\ ethBalance' \in Nat
         /\ \A v \in Users :
              /\ stakes'[v].stake = stakes[v].stake
              /\ v # u => stakes'[v] = stakes[v]
         /\ stakes'[u].rewardSnapshot = totalRewardPerToken
         /\ stakes'[u].collateralSnapshot = totalCollateralPerToken
<1>1. Reward(u) \in Nat /\ CollateralReward(u) \in Nat
  BY RewardType DEF TypeInv
<1>2. rewardBalance' \in Nat /\ ethBalance' \in Nat
  BY <1>1 DEF PayRewards, TypeInv, TypeOK
<1>3. QED
  BY <1>2 DEF PayRewards, TypeInv, TypeOK, Stake

(* The total stake is an integer: the sum of the recorded stakes, the totalStake of the contract, *)
(* can be computed with. *)
LEMMA StakeSum ==
  ASSUME TypeOK
  PROVE  /\ StakeOf \in [1 .. MaxUser -> Nat]
         /\ Sum(StakeOf, MaxUser) \in Nat
         /\ \A u \in Users : stakes[u].stake <= Sum(StakeOf, MaxUser)
<1>1. StakeOf \in [1 .. MaxUser -> Nat] /\ \A u \in Users : StakeOf[u] = stakes[u].stake
  BY DEF StakeOf, TypeOK, Stake, Users
<1>2. MaxUser \in Nat
  BY DFIREStakingAssumption
<1>3. QED
  BY <1>1, <1>2, SumBounds DEF Users

\* Changing the stake of one user changes the total by the same amount.
LEMMA StakeSumUpdate ==
  ASSUME TypeOK, NEW u \in Users, NEW s \in Nat,
         stakes' = [stakes EXCEPT ![u].stake = s]
  PROVE  Sum(StakeOf, MaxUser)' = Sum(StakeOf, MaxUser) - stakes[u].stake + s
<1>1. StakeOf' = [StakeOf EXCEPT ![u] = s] /\ StakeOf[u] = stakes[u].stake
  BY DEF StakeOf, TypeOK, Stake
<1>2. MaxUser \in Nat /\ u \in 1 .. MaxUser /\ StakeOf \in [1 .. MaxUser -> Int] /\ s \in Int
  BY StakeSum, DFIREStakingAssumption DEF Users
<1>3. Sum(StakeOf', MaxUser) = Sum(StakeOf, MaxUser) - StakeOf[u] + s
  BY <1>1, <1>2, SumUpdate
<1>4. QED
  BY <1>1, <1>3

\* A stake that changes leaves the snapshots of all stakers.
LEMMA StakeChanged ==
  ASSUME TypeInv, NEW u \in Users, NEW n \in Nat,
         stakes' = [stakes EXCEPT ![u].stake = n], UNCHANGED cumulative
  PROVE  stakes' \in [Users -> Stake] /\ SnapshotsBehind'
<1> DEFINE changed == [stakes[u] EXCEPT !.stake = n]
<1>1. stakes \in [Users -> Stake] /\ SnapshotsBehind
  BY DEF TypeInv, TypeOK
<1>2. /\ changed \in Stake
      /\ changed.rewardSnapshot = stakes[u].rewardSnapshot
      /\ changed.collateralSnapshot = stakes[u].collateralSnapshot
  BY <1>1 DEF Stake
<1>3. stakes' = [stakes EXCEPT ![u] = changed]
  BY <1>1
<1> HIDE DEF changed
<1>4. stakes' \in [Users -> Stake]
  BY <1>1, <1>2, <1>3
<1>5. \A v \in Users : /\ stakes'[v].rewardSnapshot = stakes[v].rewardSnapshot
                       /\ stakes'[v].collateralSnapshot = stakes[v].collateralSnapshot
  BY <1>1, <1>2, <1>3
<1>6. SnapshotsBehind'
  BY <1>1, <1>5 DEF SnapshotsBehind, cumulative
<1>7. QED
  BY <1>4, <1>6

(* The deployed contract starts with every amount zero, hence well typed. *)
LEMMA TypeInvInit == Init => TypeInv
<1> SUFFICES ASSUME Init PROVE TypeInv
  OBVIOUS
<1>1. TypeOK
  <2>1. stakes \in [Users -> Stake]
    BY DEF Init, Stake
  <2>2. calls \in Seq(Call)
    BY DEF Init
  <2>3. QED
    BY <2>1, <2>2 DEF Init, TypeOK
<1>5. SnapshotsBehind
  BY DEF Init, SnapshotsBehind
<1>2. StakeOf \in [1 .. MaxUser -> Int] /\ \A u \in 1 .. MaxUser : StakeOf[u] = 0
  BY DEF Init, StakeOf, Users
<1>3. Sum(StakeOf, MaxUser) = 0
  BY <1>2, SumZero, DFIREStakingAssumption
<1>4. QED
  BY <1>1, <1>3, <1>5 DEF TypeInv, StakesBacked, Init

(* No call, and no step of a claim, leaves an amount negative or of another type. *)
LEMMA TypeInvStep == TypeInv /\ [Next]_vars => TypeInv'
<1> SUFFICES ASSUME TypeInv, [Next]_vars PROVE TypeInv'
  OBVIOUS
<1> USE DFIREStakingAssumption
<1>1. ASSUME NEW u \in Users, Claim(u)
      PROVE  TypeInv'
  <2>1. PayRewards(u) /\ UNCHANGED <<totalStake, cumulative, stakingBalance, canReceive, calls>>
    BY <1>1 DEF Claim
  <2>2. TypeOK'
    BY <2>1, PaidState DEF TypeInv, TypeOK, cumulative
  <2>3. SnapshotsBehind'
    BY <2>1, PaidState DEF TypeInv, TypeOK, SnapshotsBehind, cumulative
  <2>4. StakeOf' = StakeOf
    BY <2>1, PaidState DEF StakeOf
  <2>5. QED
    BY <2>1, <2>2, <2>3, <2>4 DEF TypeInv, StakesBacked
<1>2. ASSUME NEW u \in Users, NEW op \in {"stake", "unstake"}, NEW amount \in StakeAmounts,
             BeginCall(u, op, amount)
      PROVE  TypeInv'
  <2>1. /\ PayRewards(u)
        /\ calls' = Append(calls, [user |-> u, op |-> op, amount |-> amount,
                                   callback |-> CollateralReward(u) > 0])
        /\ UNCHANGED <<totalStake, cumulative, stakingBalance, canReceive>>
    BY <1>2 DEF BeginCall
  <2>2. [user |-> u, op |-> op, amount |-> amount, callback |-> CollateralReward(u) > 0] \in Call
    BY <1>2, DFIREStakingAssumption DEF Call, BeginCall
  <2>3. calls' \in Seq(Call)
    BY <2>1, <2>2 DEF TypeInv, TypeOK
  <2>4. TypeOK'
    BY <2>1, <2>3, PaidState DEF TypeInv, TypeOK, cumulative
  <2>5. SnapshotsBehind'
    BY <2>1, PaidState DEF TypeInv, TypeOK, SnapshotsBehind, cumulative
  <2>6. StakeOf' = StakeOf
    BY <2>1, PaidState DEF StakeOf
  <2>7. QED
    BY <2>1, <2>4, <2>5, <2>6 DEF TypeInv, StakesBacked
<1> DEFINE call == calls[Len(calls)]
<1>3. ASSUME calls # <<>>, calls' = SubSeq(calls, 1, Len(calls) - 1)
      PROVE  call \in Call /\ calls' \in Seq(Call)
  BY <1>3 DEF TypeInv, TypeOK
<1>4. CASE FinishStake
  <2>1. /\ calls # <<>> /\ calls' = SubSeq(calls, 1, Len(calls) - 1)
        /\ stakingBalance' = stakingBalance + call.amount
        /\ stakes' = [stakes EXCEPT ![call.user].stake = @ + call.amount]
        /\ totalStake' = totalStake + call.amount
        /\ canReceive' = (canReceive \/ (rewardSenderActive /\ totalStake = 0))
        /\ UNCHANGED <<cumulative, rewardBalance, ethBalance>>
    BY <1>4 DEF FinishStake, Returns
  <2>2. call.user \in Users /\ call.amount \in Nat \ {0} /\ calls' \in Seq(Call)
    BY <2>1, <1>3 DEF Call
  <2> HIDE DEF call
  <2>5. stakes[call.user].stake \in Nat /\ stakes[call.user].stake + call.amount \in Nat
    BY <2>2 DEF TypeInv, TypeOK, Stake
  <2>4. stakes' = [stakes EXCEPT ![call.user].stake = stakes[call.user].stake + call.amount]
    BY <2>1, <2>2 DEF TypeInv, TypeOK, Stake
  <2>9. stakes' \in [Users -> Stake] /\ SnapshotsBehind'
    BY <2>1, <2>2, <2>4, <2>5, StakeChanged
  <2>10. stakingBalance' \in Nat /\ totalStake' \in Nat /\ canReceive' \in BOOLEAN
    BY <2>1, <2>2 DEF TypeInv, TypeOK
  <2>3. TypeOK' /\ SnapshotsBehind'
    BY <2>1, <2>2, <2>9, <2>10 DEF TypeInv, TypeOK, cumulative
  <2>6. Sum(StakeOf, MaxUser)' = Sum(StakeOf, MaxUser) - stakes[call.user].stake
                                 + (stakes[call.user].stake + call.amount)
    BY <2>2, <2>4, <2>5, StakeSumUpdate DEF TypeInv
  <2>7. /\ Sum(StakeOf, MaxUser) = totalStake /\ totalStake = stakingBalance
        /\ totalStake \in Nat
    BY DEF TypeInv, TypeOK, StakesBacked
  <2>11. Sum(StakeOf, MaxUser)' = totalStake + call.amount
    BY <2>2, <2>5, <2>6, <2>7
  <2>12. StakesBacked'
    BY <2>1, <2>7, <2>11 DEF StakesBacked
  <2>8. QED
    BY <2>3, <2>12 DEF TypeInv
<1>5. CASE FinishUnstake
  <2>1. /\ calls # <<>> /\ calls' = SubSeq(calls, 1, Len(calls) - 1)
        /\ call.amount <= stakes[call.user].stake
        /\ call.amount <= stakingBalance
        /\ stakingBalance' = stakingBalance - call.amount
        /\ stakes' = [stakes EXCEPT ![call.user].stake = @ - call.amount]
        /\ totalStake' = totalStake - call.amount
        /\ canReceive' = (canReceive /\ ~(rewardSenderActive /\ totalStake' = 0))
        /\ UNCHANGED <<cumulative, rewardBalance, ethBalance>>
    BY <1>5 DEF FinishUnstake, Returns, Possible
  <2>2. call.user \in Users /\ call.amount \in Nat \ {0} /\ calls' \in Seq(Call)
    BY <2>1, <1>3 DEF Call
  <2> HIDE DEF call
  <2>3. stakes[call.user].stake \in Nat
    BY <2>2 DEF TypeInv, TypeOK, Stake
  <2>4. totalStake' \in Nat /\ stakingBalance' \in Nat
    BY <2>1, <2>2, <2>3 DEF TypeInv, TypeOK, StakesBacked
  <2>6. /\ stakes' = [stakes EXCEPT ![call.user].stake = stakes[call.user].stake - call.amount]
        /\ stakes[call.user].stake - call.amount \in Nat
    BY <2>1, <2>2, <2>3 DEF TypeInv, TypeOK, Stake
  <2>10. stakes' \in [Users -> Stake] /\ SnapshotsBehind'
    BY <2>1, <2>2, <2>6, StakeChanged
  <2>5. TypeOK' /\ SnapshotsBehind'
    BY <2>1, <2>2, <2>4, <2>10 DEF TypeInv, TypeOK, cumulative
  <2>7. Sum(StakeOf, MaxUser)' = Sum(StakeOf, MaxUser) - stakes[call.user].stake
                                 + (stakes[call.user].stake - call.amount)
    BY <2>2, <2>6, StakeSumUpdate DEF TypeInv
  <2>8. StakesBacked'
    BY <2>1, <2>2, <2>3, <2>7, StakeSum DEF TypeInv, TypeOK, StakesBacked
  <2>9. QED
    BY <2>5, <2>8 DEF TypeInv
<1>6. ASSUME NEW amount \in RewardAmounts, AddReward(amount)
      PROVE  TypeInv'
  <2>1. (amount * PRECISION) \div totalStake \in Nat /\ amount \in Nat
    BY <1>6, DivisionRoundsDown DEF AddReward, TypeInv, TypeOK
  <2>2. TypeOK' /\ SnapshotsBehind'
    BY <1>6, <2>1 DEF AddReward, TypeInv, TypeOK, SnapshotsBehind, Stake
  <2>3. QED
    BY <1>6, <2>2 DEF AddReward, TypeInv, StakesBacked, StakeOf
<1>7. ASSUME NEW amount \in CollateralAmounts, AddCollateralReward(amount)
      PROVE  TypeInv'
  <2>1. (amount * PRECISION) \div totalStake \in Nat /\ amount \in Nat
    BY <1>7, DivisionRoundsDown DEF AddCollateralReward, TypeInv, TypeOK
  <2>2. TypeOK' /\ SnapshotsBehind'
    BY <1>7, <2>1 DEF AddCollateralReward, TypeInv, TypeOK, SnapshotsBehind, Stake
  <2>3. QED
    BY <1>7, <2>2 DEF AddCollateralReward, TypeInv, StakesBacked, StakeOf
<1>8. ASSUME NEW amount \in CollateralAmounts, KeepCollateral(amount)
      PROVE  TypeInv'
  <2>1. amount \in Nat /\ ethBalance' = ethBalance + amount
    BY <1>8 DEF KeepCollateral
  <2>2. UNCHANGED <<stakes, totalStake, cumulative, stakingBalance, rewardBalance, canReceive, calls>>
    BY <1>8 DEF KeepCollateral
  <2>3. TypeOK' /\ SnapshotsBehind'
    BY <2>1, <2>2 DEF TypeInv, TypeOK, SnapshotsBehind, cumulative
  <2>4. QED
    BY <2>2, <2>3 DEF TypeInv, StakesBacked, StakeOf
<1>9. CASE UNCHANGED vars
  BY <1>9 DEF vars, cumulative, TypeInv, TypeOK, SnapshotsBehind, StakesBacked, StakeOf
<1>10. QED
  BY <1>1, <1>2, <1>4, <1>5, <1>6, <1>7, <1>8, <1>9 DEF Next

\* Every variable keeps its type: in particular no balance and no total goes below 0.
THEOREM TypeCorrect == Spec => []TypeOK
<1>1. TypeInv => TypeOK
  BY DEF TypeInv
<1>2. QED
  BY <1>1, TypeInvInit, TypeInvStep, PTL DEF Spec

\* totalStake is the sum of the stakes and is held in DFIRE, also between the
\* two halves of nested calls.
THEOREM StakesAreBacked == Spec => []StakesBacked
<1>1. TypeInv => StakesBacked
  BY DEF TypeInv
<1>2. QED
  BY <1>1, TypeInvInit, TypeInvStep, PTL DEF Spec

-----------------------------------------------------------------------------
(* The flag that StableBaseCDP keeps for this contract. *)

(* Every write of a stake is followed, in the same call, by the write of the user's flag. *)
LEMMA FlagStep == TypeInv /\ FlagTellsStakers /\ [Next]_vars => FlagTellsStakers'
<1> SUFFICES ASSUME TypeInv, FlagTellsStakers, [Next]_vars, rewardSenderActive
             PROVE  canReceive' <=> totalStake' > 0
  BY DEF FlagTellsStakers
<1>1. canReceive <=> totalStake > 0
  BY DEF FlagTellsStakers
<1>2. totalStake \in Nat
  BY DEF TypeInv, TypeOK
<1>3. CASE UNCHANGED <<canReceive, totalStake>>
  BY <1>1, <1>3
<1> DEFINE call == calls[Len(calls)]
<1>4. (calls # <<>>) => call \in Call
  BY DEF TypeInv, TypeOK
<1>5. CASE FinishStake
  <2>1. /\ call.amount \in Nat \ {0}
        /\ totalStake' = totalStake + call.amount
        /\ canReceive' = (canReceive \/ (rewardSenderActive /\ totalStake = 0))
    BY <1>4, <1>5 DEF FinishStake, Returns, Call
  <2> HIDE DEF call
  <2>2. totalStake' > 0
    BY <1>2, <2>1
  <2>3. totalStake > 0 \/ totalStake = 0
    BY <1>2
  <2>4. canReceive'
    BY <1>1, <2>1, <2>3
  <2>5. QED
    BY <2>2, <2>4
<1>6. CASE FinishUnstake
  <2>1. /\ totalStake' = totalStake - call.amount
        /\ canReceive' = (canReceive /\ ~(rewardSenderActive /\ totalStake' = 0))
    BY <1>6 DEF FinishUnstake
  <2>2. call.amount \in Nat \ {0}
    BY <1>4, <1>6 DEF FinishUnstake, Returns, Call
  <2> HIDE DEF call
  <2>3. totalStake' \in Nat
    BY TypeInvStep DEF TypeInv, TypeOK
  <2>4. totalStake' > 0 => totalStake > 0
    BY <1>2, <2>1, <2>2
  <2>5. totalStake' > 0 \/ totalStake' = 0
    BY <2>3
  <2>6. ~ (totalStake' > 0 /\ totalStake' = 0)
    BY <2>3
  <2>7. QED
    BY <1>1, <2>1, <2>4, <2>5, <2>6
<1>7. UNCHANGED <<canReceive, totalStake>> \/ FinishStake \/ FinishUnstake
  BY DEF Next, vars, Claim, BeginCall, AddReward, AddCollateralReward, KeepCollateral
<1>8. QED
  BY <1>3, <1>5, <1>6, <1>7

\* If the contract was told to report to StableBaseCDP, the flag there is up
\* exactly while somebody has a stake.
THEOREM FlagIsExact == Spec => []FlagTellsStakers
<1>1. Init => FlagTellsStakers
  BY DEF Init, FlagTellsStakers
<1>2. QED
  BY <1>1, TypeInvInit, TypeInvStep, FlagStep, PTL DEF Spec

-----------------------------------------------------------------------------
(* Solvency, and what each user is paid, with the history. *)

HistoryInv == TypeInv /\ HistoryOK /\ Solvent /\ LittleLost

(* The history only watches: its steps are steps of the contract. *)
LEMMA HistoryOnlyWatches == [NextH]_varsH => [Next]_vars
<1> SUFFICES ASSUME [NextH]_varsH PROVE [Next]_vars
  OBVIOUS
<1>1. CASE NextH
  BY <1>1 DEF NextH, Next, ClaimH, BeginCallH, FinishStakeH, FinishUnstakeH, AddRewardH,
              AddCollateralRewardH, KeepCollateralH
<1>2. CASE UNCHANGED varsH
  BY <1>2 DEF varsH
<1>3. QED
  BY <1>1, <1>2

(* Every call under way is a record with a user, an operation and an amount above 0. *)
LEMMA CallOnStack ==
  ASSUME TypeInv, NEW k \in DOMAIN calls
  PROVE  calls[k] \in Call /\ calls[k].user \in Users /\ calls[k].amount \in Nat \ {0}
<1>1. calls \in Seq(Call)
  BY DEF TypeInv, TypeOK
<1>2. calls[k] \in Call
  BY <1>1
<1>3. QED
  BY <1>2 DEF Call

(* What a user is owed, the product of a stake and the growth of the index, is an integer. *)
LEMMA OwedType ==
  ASSUME TypeInv
  PROVE  /\ OwedReward \in [1 .. MaxUser -> Nat] /\ OwedReward \in [1 .. MaxUser -> Int]
         /\ OwedCollateral \in [1 .. MaxUser -> Nat] /\ OwedCollateral \in [1 .. MaxUser -> Int]
<1>1. \A u \in Users : OwedReward[u] \in Nat /\ OwedCollateral[u] \in Nat
  BY RewardType DEF TypeInv
<1>2. OwedReward = [u \in Users |-> OwedReward[u]] /\ OwedCollateral = [u \in Users |-> OwedCollateral[u]]
  BY DEF OwedReward, OwedCollateral
<1>3. QED
  BY <1>1, <1>2 DEF Users

(* What was misjudged is an integer, for each user and for all. *)
LEMMA MisjudgedType ==
  ASSUME HistoryOK
  PROVE  /\ MisjudgedReward \in [1 .. MaxUser -> Int] /\ MisjudgedCollateral \in [1 .. MaxUser -> Int]
         /\ Sum(MisjudgedReward, MaxUser) \in Int /\ Sum(MisjudgedCollateral, MaxUser) \in Int
<1>1. \A u \in Users : misjudged[u].sbd \in Int /\ misjudged[u].eth \in Int
  BY DEF HistoryOK
<1>2. MisjudgedReward \in [1 .. MaxUser -> Int] /\ MisjudgedCollateral \in [1 .. MaxUser -> Int]
  BY <1>1 DEF MisjudgedReward, MisjudgedCollateral, Users
<1>3. QED
  BY <1>2, SumType, DFIREStakingAssumption

-----------------------------------------------------------------------------
(* What is owed after each kind of step. *)

(* A user that is paid is owed nothing more; the others are owed what they were. *)
LEMMA OwedPaid ==
  ASSUME TypeInv, NEW u \in Users, PayRewards(u), UNCHANGED cumulative
  PROVE  /\ OwedReward' = [OwedReward EXCEPT ![u] = 0]
         /\ OwedCollateral' = [OwedCollateral EXCEPT ![u] = 0]
<1>1. \A v \in Users : /\ OwedReward'[v] = (IF v = u THEN 0 ELSE OwedReward[v])
                       /\ OwedCollateral'[v] = (IF v = u THEN 0 ELSE OwedCollateral[v])
  <2> SUFFICES ASSUME NEW v \in Users
               PROVE  /\ OwedReward'[v] = (IF v = u THEN 0 ELSE OwedReward[v])
                      /\ OwedCollateral'[v] = (IF v = u THEN 0 ELSE OwedCollateral[v])
    OBVIOUS
  <2>1. CASE v # u
    BY <2>1, PaidState DEF OwedReward, OwedCollateral, Owed, cumulative
  <2>2. CASE v = u
    <3>1. /\ stakes'[u].rewardSnapshot = totalRewardPerToken'
          /\ stakes'[u].collateralSnapshot = totalCollateralPerToken'
          /\ totalRewardPerToken' \in Nat /\ totalCollateralPerToken' \in Nat
          /\ stakes'[u].stake \in Nat
      BY PaidState DEF TypeInv, TypeOK, cumulative, Stake
    <3>2. QED
      BY <2>2, <3>1 DEF OwedReward, OwedCollateral, Owed
  <2>3. QED
    BY <2>1, <2>2
<1>2. QED
  BY <1>1 DEF OwedReward, OwedCollateral

(* A user whose stake changes by n is owed the rewards since its snapshot for n more. *)
LEMMA OwedRestaked ==
  ASSUME TypeInv, NEW u \in Users, NEW n \in Int, stakes[u].stake + n \in Nat,
         stakes' = [stakes EXCEPT ![u].stake = stakes[u].stake + n], UNCHANGED cumulative
  PROVE  /\ OwedReward' = [OwedReward EXCEPT ![u] = OwedReward[u] + Since(u).sbd * n]
         /\ OwedCollateral' = [OwedCollateral EXCEPT ![u] = OwedCollateral[u] + Since(u).eth * n]
         /\ Since(u).sbd * n \in Int /\ Since(u).eth * n \in Int
<1>1. /\ stakes[u].stake \in Nat /\ stakes[u].rewardSnapshot \in Nat
      /\ stakes[u].collateralSnapshot \in Nat
      /\ totalRewardPerToken \in Nat /\ totalCollateralPerToken \in Nat
  BY DEF TypeInv, TypeOK, Stake
<1>2. /\ Since(u).sbd = totalRewardPerToken - stakes[u].rewardSnapshot
      /\ Since(u).eth = totalCollateralPerToken - stakes[u].collateralSnapshot
  BY DEF Since
<1>3. Since(u).sbd \in Int /\ Since(u).eth \in Int
  <2>1. totalRewardPerToken - stakes[u].rewardSnapshot \in Int
        /\ totalCollateralPerToken - stakes[u].collateralSnapshot \in Int
    BY <1>1
  <2>2. QED
    BY <1>2, <2>1
<1> DEFINE a == Since(u).sbd
           b == Since(u).eth
<1>4. a * n \in Int /\ b * n \in Int
  BY <1>3
<1>5. /\ stakes'[u].stake = stakes[u].stake + n
      /\ stakes'[u].rewardSnapshot = stakes[u].rewardSnapshot
      /\ stakes'[u].collateralSnapshot = stakes[u].collateralSnapshot
      /\ \A v \in Users : v # u => stakes'[v] = stakes[v]
  BY DEF TypeInv, TypeOK, Stake
<1>6. totalRewardPerToken' = totalRewardPerToken /\ totalCollateralPerToken' = totalCollateralPerToken
  BY DEF cumulative
<1>7. /\ OwedReward[u] = a * stakes[u].stake
      /\ OwedCollateral[u] = b * stakes[u].stake
      /\ OwedReward'[u] = a * (stakes[u].stake + n)
      /\ OwedCollateral'[u] = b * (stakes[u].stake + n)
  BY <1>2, <1>5, <1>6 DEF OwedReward, OwedCollateral, Owed
<1>8. /\ OwedReward'[u] = OwedReward[u] + a * n
      /\ OwedCollateral'[u] = OwedCollateral[u] + b * n
  BY <1>1, <1>3, <1>7, MultiplyOut
<1>9. \A v \in Users : v # u => OwedReward'[v] = OwedReward[v] /\ OwedCollateral'[v] = OwedCollateral[v]
  BY <1>5, <1>6 DEF OwedReward, OwedCollateral, Owed
<1>10. /\ OwedReward' = [OwedReward EXCEPT ![u] = OwedReward[u] + a * n]
       /\ OwedCollateral' = [OwedCollateral EXCEPT ![u] = OwedCollateral[u] + b * n]
  BY <1>8, <1>9 DEF OwedReward, OwedCollateral
<1>11. QED
  BY <1>4, <1>10

(* With d and e more per token everyone is owed as many more for each unit of its stake. *)
LEMMA OwedRewarded ==
  ASSUME TypeInv, NEW d \in Nat, NEW e \in Nat, UNCHANGED stakes,
         totalRewardPerToken' = totalRewardPerToken + d,
         totalCollateralPerToken' = totalCollateralPerToken + e,
         NEW u \in Users
  PROVE  /\ OwedReward'[u] = OwedReward[u] + d * stakes[u].stake
         /\ OwedCollateral'[u] = OwedCollateral[u] + e * stakes[u].stake
<1>1. /\ stakes[u].stake \in Nat /\ stakes[u].rewardSnapshot \in Nat
      /\ stakes[u].collateralSnapshot \in Nat
      /\ totalRewardPerToken \in Nat /\ totalCollateralPerToken \in Nat
  BY DEF TypeInv, TypeOK, Stake
<1>2. PICK a \in Int, b \in Int : /\ a = totalRewardPerToken - stakes[u].rewardSnapshot
                                  /\ b = totalCollateralPerToken - stakes[u].collateralSnapshot
  BY <1>1
<1>3. /\ totalRewardPerToken' - stakes'[u].rewardSnapshot = a + d
      /\ totalCollateralPerToken' - stakes'[u].collateralSnapshot = b + e
  BY <1>1, <1>2
<1>4. /\ OwedReward[u] = a * stakes[u].stake
      /\ OwedCollateral[u] = b * stakes[u].stake
      /\ OwedReward'[u] = (a + d) * stakes[u].stake
      /\ OwedCollateral'[u] = (b + e) * stakes[u].stake
  BY <1>2, <1>3 DEF OwedReward, OwedCollateral, Owed
<1>5. /\ (a + d) * stakes[u].stake = a * stakes[u].stake + d * stakes[u].stake
      /\ (b + e) * stakes[u].stake = b * stakes[u].stake + e * stakes[u].stake
  BY <1>1
<1>6. QED
  BY <1>4, <1>5

-----------------------------------------------------------------------------
(* Solvency. *)

\* Paying a user takes what it is owed out of the sum, and no more out of the balance.
LEMMA PayingKeepsSolvent ==
  ASSUME TypeInv, HistoryOK, Solvent, NEW u \in Users, PayRewards(u),
         UNCHANGED <<cumulative, misjudged>>
  PROVE  Solvent'
<1>1. /\ OwedReward' = [OwedReward EXCEPT ![u] = 0]
      /\ OwedCollateral' = [OwedCollateral EXCEPT ![u] = 0]
  BY OwedPaid
<1>2. MaxUser \in Nat /\ u \in 1 .. MaxUser /\ 0 \in Int
  BY DFIREStakingAssumption DEF Users
<1>3. /\ Sum(OwedReward', MaxUser) = Sum(OwedReward, MaxUser) - OwedReward[u] + 0
      /\ Sum(OwedCollateral', MaxUser) = Sum(OwedCollateral, MaxUser) - OwedCollateral[u] + 0
  BY <1>1, <1>2, OwedType, SumUpdate
<1>4. /\ Sum(OwedReward, MaxUser) \in Int /\ Sum(OwedCollateral, MaxUser) \in Int
      /\ OwedReward[u] \in Nat /\ OwedCollateral[u] \in Nat
  BY <1>2, OwedType, SumType
<1>5. /\ Reward(u) \in Nat /\ PRECISION * Reward(u) <= OwedReward[u]
      /\ CollateralReward(u) \in Nat /\ PRECISION * CollateralReward(u) <= OwedCollateral[u]
      /\ PRECISION \in Nat /\ rewardBalance \in Nat /\ ethBalance \in Nat
  BY RewardType, DFIREStakingAssumption DEF TypeInv, TypeOK
<1>6. /\ PRECISION * (rewardBalance - Reward(u)) = PRECISION * rewardBalance - PRECISION * Reward(u)
      /\ PRECISION * (ethBalance - CollateralReward(u)) = PRECISION * ethBalance - PRECISION * CollateralReward(u)
      /\ PRECISION * Reward(u) \in Nat /\ PRECISION * CollateralReward(u) \in Nat
      /\ PRECISION * rewardBalance \in Nat /\ PRECISION * ethBalance \in Nat
  BY <1>5
<1>7. /\ rewardBalance' = rewardBalance - Reward(u)
      /\ ethBalance' = ethBalance - CollateralReward(u)
  BY DEF PayRewards
<1>8. /\ MisjudgedReward' = MisjudgedReward /\ MisjudgedCollateral' = MisjudgedCollateral
      /\ Sum(MisjudgedReward, MaxUser) \in Int /\ Sum(MisjudgedCollateral, MaxUser) \in Int
  BY MisjudgedType DEF MisjudgedReward, MisjudgedCollateral
<1>9. /\ Sum(OwedReward', MaxUser) <= PRECISION * rewardBalance' + Sum(MisjudgedReward, MaxUser)
      /\ Sum(OwedCollateral', MaxUser) <= PRECISION * ethBalance' + Sum(MisjudgedCollateral, MaxUser)
  BY <1>3, <1>4, <1>5, <1>6, <1>7, <1>8 DEF Solvent
<1>10. QED
  BY <1>8, <1>9, DFIREStakingAssumption DEF Solvent

\* The rest of stake or unstake owes its user as much more as it misjudges.
LEMMA RestakingKeepsSolvent ==
  ASSUME TypeInv, HistoryOK, Solvent, NEW u \in Users, NEW n \in Int, stakes[u].stake + n \in Nat,
         stakes' = [stakes EXCEPT ![u].stake = stakes[u].stake + n],
         UNCHANGED <<cumulative, rewardBalance, ethBalance>>, Misjudge(u, n)
  PROVE  Solvent'
<1>1. /\ OwedReward' = [OwedReward EXCEPT ![u] = OwedReward[u] + Since(u).sbd * n]
      /\ OwedCollateral' = [OwedCollateral EXCEPT ![u] = OwedCollateral[u] + Since(u).eth * n]
      /\ Since(u).sbd * n \in Int /\ Since(u).eth * n \in Int
  BY OwedRestaked
<1>2. PICK a \in Int, b \in Int : a = Since(u).sbd * n /\ b = Since(u).eth * n
  BY <1>1
<1>3. misjudged' = [misjudged EXCEPT ![u] = [sbd |-> misjudged[u].sbd + a, eth |-> misjudged[u].eth + b]]
  BY <1>2 DEF Misjudge, HistoryOK
<1>4. /\ MisjudgedReward' = [MisjudgedReward EXCEPT ![u] = MisjudgedReward[u] + a]
      /\ MisjudgedCollateral' = [MisjudgedCollateral EXCEPT ![u] = MisjudgedCollateral[u] + b]
  BY <1>3 DEF MisjudgedReward, MisjudgedCollateral, HistoryOK
<1>5. /\ MaxUser \in Nat /\ u \in 1 .. MaxUser
      /\ OwedReward[u] \in Int /\ OwedCollateral[u] \in Int
      /\ MisjudgedReward[u] \in Int /\ MisjudgedCollateral[u] \in Int
  BY OwedType, MisjudgedType, DFIREStakingAssumption DEF Users
<1>6. /\ OwedReward[u] + a \in Int /\ OwedCollateral[u] + b \in Int
      /\ MisjudgedReward[u] + a \in Int /\ MisjudgedCollateral[u] + b \in Int
  BY <1>5
<1>7. /\ Sum(OwedReward', MaxUser) = Sum(OwedReward, MaxUser) - OwedReward[u] + (OwedReward[u] + a)
      /\ Sum(OwedCollateral', MaxUser)
           = Sum(OwedCollateral, MaxUser) - OwedCollateral[u] + (OwedCollateral[u] + b)
  BY <1>1, <1>2, <1>5, <1>6, OwedType, SumUpdate
<1>8. /\ Sum(MisjudgedReward', MaxUser)
           = Sum(MisjudgedReward, MaxUser) - MisjudgedReward[u] + (MisjudgedReward[u] + a)
      /\ Sum(MisjudgedCollateral', MaxUser)
           = Sum(MisjudgedCollateral, MaxUser) - MisjudgedCollateral[u] + (MisjudgedCollateral[u] + b)
  BY <1>4, <1>5, <1>6, MisjudgedType, SumUpdate
<1>9. /\ Sum(OwedReward, MaxUser) \in Int /\ Sum(OwedCollateral, MaxUser) \in Int
      /\ Sum(MisjudgedReward, MaxUser) \in Int /\ Sum(MisjudgedCollateral, MaxUser) \in Int
  BY <1>5, OwedType, MisjudgedType, SumType
<1>10. PICK x \in Int, y \in Int : x = PRECISION * rewardBalance /\ y = PRECISION * ethBalance
  BY DFIREStakingAssumption DEF TypeInv, TypeOK
<1>11. /\ Sum(OwedReward', MaxUser) <= x + Sum(MisjudgedReward', MaxUser)
       /\ Sum(OwedCollateral', MaxUser) <= y + Sum(MisjudgedCollateral', MaxUser)
  BY <1>5, <1>7, <1>8, <1>9, <1>10 DEF Solvent
<1>12. QED
  BY <1>10, <1>11 DEF Solvent

\* A reward of which each unit of stake gets d adds to the sum at most what it
\* adds, times PRECISION, to the balance.
LEMMA RewardKeepsCovered ==
  ASSUME TypeInv, NEW f \in [1 .. MaxUser -> Int], NEW g \in [1 .. MaxUser -> Int],
         NEW balance \in Nat, NEW apart \in Int, NEW amount \in Nat, totalStake > 0,
         Sum(f, MaxUser) <= PRECISION * balance + apart,
         \A u \in Users : g[u] = f[u] + ((amount * PRECISION) \div totalStake) * stakes[u].stake
  PROVE  Sum(g, MaxUser) <= PRECISION * (balance + amount) + apart
<1>1. totalStake \in Nat \ {0} /\ totalStake = Sum(StakeOf, MaxUser)
  BY DEF TypeInv, TypeOK, StakesBacked
<1>2. amount * PRECISION \in Nat /\ PRECISION \in Nat
  BY DFIREStakingAssumption
<1>3. PICK d \in Nat : d = (amount * PRECISION) \div totalStake
  BY <1>1, <1>2, DivisionRoundsDown
<1>4. totalStake * d <= amount * PRECISION
  BY <1>1, <1>2, <1>3, DivisionRoundsDown
<1>5. StakeOf \in [1 .. MaxUser -> Int] /\ \A u \in 1 .. MaxUser : g[u] = f[u] + d * StakeOf[u]
  BY <1>3, StakeSum DEF StakeOf, Users, TypeInv
<1>6. d \in Int /\ MaxUser \in Nat
  BY DFIREStakingAssumption
<1>7. Sum(g, MaxUser) = Sum(f, MaxUser) + d * Sum(StakeOf, MaxUser)
  BY <1>5, <1>6, SumLinear
<1>8. d * totalStake <= amount * PRECISION
  BY <1>1, <1>4
<1>9. Sum(f, MaxUser) \in Int /\ d * totalStake \in Int
  BY <1>1, <1>6, SumType
<1>10. PRECISION * (balance + amount) = PRECISION * balance + amount * PRECISION
  BY <1>2
<1>11. PRECISION * balance \in Nat /\ amount * PRECISION \in Nat
  BY <1>2
<1>12. QED
  BY <1>1, <1>7, <1>8, <1>9, <1>10, <1>11

-----------------------------------------------------------------------------
(* What each user is paid. *)

\* A rounded quotient is less than one unit short.
LEMMA DivisionLosesLittle ==
  ASSUME NEW x \in Nat, NEW p \in Nat \ {0}
  PROVE  x < p * (x \div p) + p
OBVIOUS

\* What is paid is less than one unit short of what is owed, and is all of it if
\* nothing came since the snapshots.
LEMMA PaidAlmostAll ==
  ASSUME TypeInv, NEW u \in Users
  PROVE  /\ OwedReward[u] - PRECISION * Reward(u) \in 0 .. PRECISION
         /\ OwedCollateral[u] - PRECISION * CollateralReward(u) \in 0 .. PRECISION
         /\ PRECISION * Reward(u) \in Nat /\ PRECISION * CollateralReward(u) \in Nat
         /\ Since(u) = [sbd |-> 0, eth |-> 0] =>
              /\ OwedReward[u] = 0 /\ OwedCollateral[u] = 0
              /\ PRECISION * Reward(u) = 0 /\ PRECISION * CollateralReward(u) = 0
<1>1. /\ OwedReward[u] \in Nat /\ OwedCollateral[u] \in Nat
      /\ Reward(u) \in Nat /\ CollateralReward(u) \in Nat
      /\ PRECISION * Reward(u) <= OwedReward[u]
      /\ PRECISION * CollateralReward(u) <= OwedCollateral[u]
  BY RewardType DEF TypeInv
<1>2. /\ Reward(u) = OwedReward[u] \div PRECISION
      /\ CollateralReward(u) = OwedCollateral[u] \div PRECISION
  BY DEF Reward, CollateralReward, OwedReward, OwedCollateral, Owed
<1>3. PRECISION \in Nat \ {0}
  BY DFIREStakingAssumption
<1>4. /\ OwedReward[u] < PRECISION * Reward(u) + PRECISION
      /\ OwedCollateral[u] < PRECISION * CollateralReward(u) + PRECISION
  BY <1>1, <1>2, <1>3, DivisionLosesLittle
<1>5. PICK r \in Nat, c \in Nat : r = PRECISION * Reward(u) /\ c = PRECISION * CollateralReward(u)
  BY <1>1, <1>3
<1>6. /\ OwedReward[u] - r \in 0 .. PRECISION
      /\ OwedCollateral[u] - c \in 0 .. PRECISION
  BY <1>1, <1>3, <1>4, <1>5
<1>7. ASSUME Since(u) = [sbd |-> 0, eth |-> 0]
      PROVE  OwedReward[u] = 0 /\ OwedCollateral[u] = 0
  <2>1. /\ totalRewardPerToken - stakes[u].rewardSnapshot = 0
        /\ totalCollateralPerToken - stakes[u].collateralSnapshot = 0
    BY <1>7 DEF Since
  <2>2. stakes[u].stake \in Nat
    BY DEF TypeInv, TypeOK, Stake
  <2>3. QED
    BY <2>1, <2>2 DEF OwedReward, OwedCollateral, Owed
<1>8. OwedReward[u] = 0 /\ OwedCollateral[u] = 0 => r = 0 /\ c = 0
  BY <1>1, <1>5
<1>9. QED
  BY <1>5, <1>6, <1>7, <1>8

\* A payment takes out of what is due all that was owed, but for one rounding.
LEMMA PayingLosesLittle ==
  ASSUME TypeInv, HistoryOK, LittleLost, NEW u \in Users, PayRewards(u), Pays(u),
         UNCHANGED cumulative
  PROVE  HistoryOK' /\ LittleLost'
<1>1. PICK r \in Nat, c \in Nat : r = PRECISION * Reward(u) /\ c = PRECISION * CollateralReward(u)
  BY PaidAlmostAll
<1>2. /\ due' = [due EXCEPT ![u] = [sbd |-> due[u].sbd - r, eth |-> due[u].eth - c]]
      /\ misjudged' = misjudged
      /\ roundings' = [roundings EXCEPT ![u] =
           IF Since(u) = [sbd |-> 0, eth |-> 0] THEN roundings[u] ELSE roundings[u] + 1]
  BY <1>1 DEF Pays, HistoryOK
<1>3. /\ due[u].sbd - r \in Int /\ due[u].eth - c \in Int
      /\ roundings[u] \in Nat /\ roundings[u] + 1 \in Nat
  BY DEF HistoryOK
<1>4. HistoryOK'
  BY <1>2, <1>3 DEF HistoryOK
<1>5. ASSUME NEW v \in Users, v # u
      PROVE  /\ LostReward(v)' \in 0 .. PRECISION * roundings'[v]
             /\ LostCollateral(v)' \in 0 .. PRECISION * roundings'[v]
  <2>1. OwedReward'[v] = OwedReward[v] /\ OwedCollateral'[v] = OwedCollateral[v]
    BY <1>5, OwedPaid, OwedType DEF Users
  <2>2. due'[v] = due[v] /\ roundings'[v] = roundings[v]
    BY <1>2, <1>5 DEF HistoryOK
  <2>3. QED
    BY <1>2, <2>1, <2>2 DEF LostReward, LostCollateral, LittleLost
<1>6. /\ LostReward(u)' \in 0 .. PRECISION * roundings'[u]
      /\ LostCollateral(u)' \in 0 .. PRECISION * roundings'[u]
  <2>1. OwedReward'[u] = 0 /\ OwedCollateral'[u] = 0
    BY OwedPaid, OwedType DEF Users
  <2>2. /\ due'[u].sbd = due[u].sbd - r /\ due'[u].eth = due[u].eth - c
        /\ misjudged'[u] = misjudged[u]
    BY <1>2 DEF HistoryOK
  <2>3. /\ due[u].sbd \in Int /\ due[u].eth \in Int
        /\ misjudged[u].sbd \in Int /\ misjudged[u].eth \in Int
        /\ OwedReward[u] \in Int /\ OwedCollateral[u] \in Int
    BY OwedType DEF HistoryOK, Users
  <2>4. /\ LostReward(u)' = LostReward(u) + (OwedReward[u] - r)
        /\ LostCollateral(u)' = LostCollateral(u) + (OwedCollateral[u] - c)
    BY <2>1, <2>2, <2>3 DEF LostReward, LostCollateral
  <2>5. /\ LostReward(u) \in 0 .. PRECISION * roundings[u]
        /\ LostCollateral(u) \in 0 .. PRECISION * roundings[u]
    BY DEF LittleLost
  <2>6. /\ OwedReward[u] - r \in 0 .. PRECISION
        /\ OwedCollateral[u] - c \in 0 .. PRECISION
    BY <1>1, PaidAlmostAll
  <2>7. CASE Since(u) = [sbd |-> 0, eth |-> 0]
    <3>1. OwedReward[u] - r = 0 /\ OwedCollateral[u] - c = 0
      BY <1>1, <2>7, PaidAlmostAll
    <3>2. roundings'[u] = roundings[u]
      BY <1>2, <2>7 DEF HistoryOK
    <3>3. LostReward(u) \in Int /\ LostCollateral(u) \in Int
      BY <2>3 DEF LostReward, LostCollateral
    <3>4. LostReward(u)' = LostReward(u) /\ LostCollateral(u)' = LostCollateral(u)
      BY <2>4, <3>1, <3>3
    <3>5. QED
      BY <2>5, <3>2, <3>4
  <2>8. CASE Since(u) # [sbd |-> 0, eth |-> 0]
    <3>1. roundings'[u] = roundings[u] + 1
      BY <1>2, <2>8 DEF HistoryOK
    <3>2. PRECISION \in Nat /\ PRECISION * (roundings[u] + 1) = PRECISION * roundings[u] + PRECISION
      BY <1>3, DFIREStakingAssumption
    <3>3. PICK k \in Nat : k = PRECISION * roundings[u]
      BY <1>3, <3>2
    <3>4. /\ LostReward(u)' \in 0 .. k + PRECISION
          /\ LostCollateral(u)' \in 0 .. k + PRECISION
      BY <2>4, <2>5, <2>6, <3>2, <3>3
    <3>5. QED
      BY <3>1, <3>2, <3>3, <3>4
  <2>9. QED
    BY <2>7, <2>8
<1>7. QED
  BY <1>4, <1>5, <1>6 DEF LittleLost

\* A change of stake adds to what is owed what it misjudges.
LEMMA RestakingLosesNothing ==
  ASSUME TypeInv, HistoryOK, LittleLost, NEW u \in Users, NEW n \in Int, stakes[u].stake + n \in Nat,
         stakes' = [stakes EXCEPT ![u].stake = stakes[u].stake + n],
         UNCHANGED cumulative, Misjudge(u, n)
  PROVE  HistoryOK' /\ LittleLost'
<1>1. /\ OwedReward' = [OwedReward EXCEPT ![u] = OwedReward[u] + Since(u).sbd * n]
      /\ OwedCollateral' = [OwedCollateral EXCEPT ![u] = OwedCollateral[u] + Since(u).eth * n]
      /\ Since(u).sbd * n \in Int /\ Since(u).eth * n \in Int
  BY OwedRestaked
<1>2. PICK a \in Int, b \in Int : a = Since(u).sbd * n /\ b = Since(u).eth * n
  BY <1>1
<1>3. /\ misjudged' = [misjudged EXCEPT ![u] = [sbd |-> misjudged[u].sbd + a,
                                                eth |-> misjudged[u].eth + b]]
      /\ due' = due /\ roundings' = roundings
  BY <1>2 DEF Misjudge, HistoryOK
<1>4. misjudged[u].sbd + a \in Int /\ misjudged[u].eth + b \in Int
  BY DEF HistoryOK
<1>5. HistoryOK'
  BY <1>3, <1>4 DEF HistoryOK
<1>6. ASSUME NEW v \in Users
      PROVE  LostReward(v)' = LostReward(v) /\ LostCollateral(v)' = LostCollateral(v)
  <2>1. CASE v # u
    <3>1. OwedReward'[v] = OwedReward[v] /\ OwedCollateral'[v] = OwedCollateral[v]
      BY <1>1, <2>1, OwedType DEF Users
    <3>2. misjudged'[v] = misjudged[v]
      BY <1>3, <2>1 DEF HistoryOK
    <3>3. QED
      BY <1>3, <3>1, <3>2 DEF LostReward, LostCollateral
  <2>2. CASE v = u
    <3>1. OwedReward'[u] = OwedReward[u] + a /\ OwedCollateral'[u] = OwedCollateral[u] + b
      BY <1>1, <1>2, OwedType DEF Users
    <3>2. misjudged'[u].sbd = misjudged[u].sbd + a /\ misjudged'[u].eth = misjudged[u].eth + b
      BY <1>3 DEF HistoryOK
    <3>3. /\ due[u].sbd \in Int /\ due[u].eth \in Int
          /\ misjudged[u].sbd \in Int /\ misjudged[u].eth \in Int
          /\ OwedReward[u] \in Int /\ OwedCollateral[u] \in Int
      BY OwedType DEF HistoryOK, Users
    <3>4. QED
      BY <1>3, <2>2, <3>1, <3>2, <3>3 DEF LostReward, LostCollateral
  <2>3. QED
    BY <2>1, <2>2
<1>7. LittleLost'
  BY <1>3, <1>6 DEF LittleLost
<1>8. QED
  BY <1>5, <1>7

\* A reward is due to whom it will be paid.
LEMMA RewardingLosesNothing ==
  ASSUME TypeInv, HistoryOK, LittleLost, NEW d \in Nat, NEW e \in Nat, UNCHANGED stakes,
         totalRewardPerToken' = totalRewardPerToken + d,
         totalCollateralPerToken' = totalCollateralPerToken + e, Earned
  PROVE  HistoryOK' /\ LittleLost'
<1>1. /\ totalRewardPerToken' - totalRewardPerToken = d
      /\ totalCollateralPerToken' - totalCollateralPerToken = e
  BY DEF TypeInv, TypeOK
<1>2. /\ due' = [v \in Users |-> [sbd |-> due[v].sbd + d * stakes[v].stake,
                                  eth |-> due[v].eth + e * stakes[v].stake]]
      /\ misjudged' = misjudged /\ roundings' = roundings
  BY <1>1 DEF Earned
<1>3. ASSUME NEW v \in Users
      PROVE  /\ due'[v] \in [sbd : Int, eth : Int]
             /\ LostReward(v)' = LostReward(v) /\ LostCollateral(v)' = LostCollateral(v)
  <2>1. PICK x \in Nat, y \in Nat : x = d * stakes[v].stake /\ y = e * stakes[v].stake
    BY DEF TypeInv, TypeOK, Stake
  <2>2. due'[v] = [sbd |-> due[v].sbd + x, eth |-> due[v].eth + y]
    BY <1>2, <2>1
  <2>3. OwedReward'[v] = OwedReward[v] + x /\ OwedCollateral'[v] = OwedCollateral[v] + y
    BY <2>1, OwedRewarded
  <2>4. /\ due[v].sbd \in Int /\ due[v].eth \in Int
        /\ misjudged[v].sbd \in Int /\ misjudged[v].eth \in Int
        /\ OwedReward[v] \in Int /\ OwedCollateral[v] \in Int
    BY OwedType DEF HistoryOK, Users
  <2>5. due[v].sbd + x \in Int /\ due[v].eth + y \in Int
    BY <2>4
  <2>6. LostReward(v)' = LostReward(v) /\ LostCollateral(v)' = LostCollateral(v)
    BY <1>2, <2>2, <2>3, <2>4 DEF LostReward, LostCollateral
  <2>7. QED
    BY <2>2, <2>5, <2>6
<1>4. HistoryOK'
  BY <1>2, <1>3 DEF HistoryOK
<1>5. LittleLost'
  BY <1>2, <1>3 DEF LittleLost
<1>6. QED
  BY <1>4, <1>5

-----------------------------------------------------------------------------
(* The invariant. *)

(* A contract nobody staked in owes nobody anything. *)
LEMMA HistoryInit == InitH => HistoryInv
<1> SUFFICES ASSUME InitH PROVE HistoryInv
  OBVIOUS
<1>1. TypeInv
  BY TypeInvInit DEF InitH
<1>2. HistoryOK
  BY DEF InitH, HistoryOK
<1>3. \A u \in 1 .. MaxUser : /\ OwedReward[u] = 0 /\ OwedCollateral[u] = 0
                              /\ MisjudgedReward[u] = 0 /\ MisjudgedCollateral[u] = 0
  BY DEF InitH, Init, OwedReward, OwedCollateral, MisjudgedReward, MisjudgedCollateral, Owed, Users
<1>4. /\ Sum(OwedReward, MaxUser) = 0 /\ Sum(OwedCollateral, MaxUser) = 0
      /\ Sum(MisjudgedReward, MaxUser) = 0 /\ Sum(MisjudgedCollateral, MaxUser) = 0
  BY <1>1, <1>2, <1>3, OwedType, MisjudgedType, SumZero, DFIREStakingAssumption
<1>5. Solvent
  BY <1>4, DFIREStakingAssumption DEF Solvent, InitH, Init
<1>6. LittleLost
  <2>1. \A u \in Users : LostReward(u) = 0 /\ LostCollateral(u) = 0
    BY <1>3 DEF LostReward, LostCollateral, InitH, Users
  <2>2. \A u \in Users : PRECISION * roundings[u] = 0
    BY DFIREStakingAssumption DEF InitH
  <2>3. QED
    BY <2>1, <2>2 DEF LittleLost
<1>7. QED
  BY <1>1, <1>2, <1>5, <1>6 DEF HistoryInv

(* Staking, unstaking, claiming and each reward keep what is owed within what was received, *)
(* and what each user loses within its roundings. *)
LEMMA HistoryStep == HistoryInv /\ [NextH]_varsH => HistoryInv'
<1> SUFFICES ASSUME HistoryInv, [NextH]_varsH PROVE HistoryInv'
  OBVIOUS
<1> DEFINE Kept == HistoryOK' /\ Solvent' /\ LittleLost'
<1>0. TypeInv /\ TypeInv' /\ HistoryOK /\ Solvent /\ LittleLost
  BY TypeInvStep, HistoryOnlyWatches DEF HistoryInv
<1>t. calls \in Seq(Call) /\ stakes \in [Users -> Stake]
  BY <1>0 DEF TypeInv, TypeOK
<1>1. ASSUME NEW u \in Users, PayRewards(u), Pays(u), UNCHANGED cumulative
      PROVE  Kept
  <2>1. misjudged' = misjudged
    BY <1>1 DEF Pays
  <2>2. Solvent'
    BY <1>0, <1>1, <2>1, PayingKeepsSolvent
  <2>3. QED
    BY <1>0, <1>1, <2>2, PayingLosesLittle
<1>2. ASSUME NEW u \in Users, ClaimH(u)
      PROVE  Kept
  <2>1. PayRewards(u) /\ UNCHANGED cumulative /\ Pays(u)
    BY <1>2 DEF ClaimH, Claim
  <2>2. QED
    BY <1>1, <2>1
<1>3. ASSUME NEW u \in Users, NEW op, NEW amount, BeginCallH(u, op, amount)
      PROVE  Kept
  <2>1. PayRewards(u) /\ UNCHANGED cumulative /\ Pays(u)
    BY <1>3 DEF BeginCallH, BeginCall
  <2>2. QED
    BY <1>1, <2>1
<1> DEFINE call == calls[Len(calls)]
<1>4. ASSUME calls # <<>>
      PROVE  call.user \in Users /\ call.amount \in Nat
  <2>1. Len(calls) \in DOMAIN calls
    BY <1>t, <1>4
  <2>2. QED
    BY <1>0, <2>1, CallOnStack
<1>5. ASSUME FinishStakeH PROVE Kept
  <2>1. /\ calls # <<>>
        /\ stakes' = [stakes EXCEPT ![call.user].stake = @ + call.amount]
        /\ UNCHANGED <<cumulative, rewardBalance, ethBalance>>
        /\ Misjudge(call.user, call.amount)
    BY <1>5 DEF FinishStakeH, FinishStake, Returns
  <2>2. call.user \in Users /\ call.amount \in Nat
    BY <1>4, <2>1
  <2> HIDE DEF call
  <2>3. /\ stakes' = [stakes EXCEPT ![call.user].stake = stakes[call.user].stake + call.amount]
        /\ stakes[call.user].stake + call.amount \in Nat /\ call.amount \in Int
    BY <1>t, <2>1, <2>2 DEF Stake
  <2>4. Solvent'
    BY <1>0, <2>1, <2>2, <2>3, RestakingKeepsSolvent
  <2>5. HistoryOK' /\ LittleLost'
    BY <1>0, <2>1, <2>2, <2>3, RestakingLosesNothing
  <2>6. QED
    BY <2>4, <2>5
<1>6. ASSUME FinishUnstakeH PROVE Kept
  <2>1. /\ calls # <<>> /\ call.amount <= stakes[call.user].stake
        /\ stakes' = [stakes EXCEPT ![call.user].stake = @ - call.amount]
        /\ UNCHANGED <<cumulative, rewardBalance, ethBalance>>
        /\ Misjudge(call.user, -call.amount)
    BY <1>6 DEF FinishUnstakeH, FinishUnstake, Returns, Possible
  <2>2. call.user \in Users /\ call.amount \in Nat
    BY <1>4, <2>1
  <2> HIDE DEF call
  <2>3. stakes[call.user].stake \in Nat
    BY <1>t, <2>2 DEF Stake
  <2>4. /\ -call.amount \in Int
        /\ stakes[call.user].stake + (-call.amount) = stakes[call.user].stake - call.amount
        /\ stakes[call.user].stake - call.amount \in Nat
    BY <2>1, <2>2, <2>3
  <2>5. stakes' = [stakes EXCEPT ![call.user].stake = stakes[call.user].stake - call.amount]
    BY <1>t, <2>1, <2>2 DEF Stake
  <2>6. /\ stakes' = [stakes EXCEPT ![call.user].stake = stakes[call.user].stake + (-call.amount)]
        /\ stakes[call.user].stake + (-call.amount) \in Nat
    BY <2>4, <2>5
  <2>7. Solvent'
    BY <1>0, <2>1, <2>2, <2>4, <2>6, RestakingKeepsSolvent
  <2>8. HistoryOK' /\ LittleLost'
    BY <1>0, <2>1, <2>2, <2>4, <2>6, RestakingLosesNothing
  <2>9. QED
    BY <2>7, <2>8
<1>7. /\ OwedReward \in [1 .. MaxUser -> Int] /\ OwedReward' \in [1 .. MaxUser -> Int]
      /\ OwedCollateral \in [1 .. MaxUser -> Int] /\ OwedCollateral' \in [1 .. MaxUser -> Int]
  <2>1. /\ OwedReward \in [1 .. MaxUser -> Int] /\ OwedCollateral \in [1 .. MaxUser -> Int]
    BY <1>0, OwedType
  <2>2. (/\ OwedReward \in [1 .. MaxUser -> Int] /\ OwedCollateral \in [1 .. MaxUser -> Int])'
    BY <1>0, OwedType, PTL
  <2>3. QED
    BY <2>1, <2>2
<1>8. /\ Sum(MisjudgedReward, MaxUser) \in Int /\ Sum(MisjudgedCollateral, MaxUser) \in Int
      /\ totalStake \in Nat /\ totalRewardPerToken \in Nat /\ totalCollateralPerToken \in Nat
      /\ rewardBalance \in Nat /\ ethBalance \in Nat
  BY <1>0, MisjudgedType DEF TypeInv, TypeOK
<1>9. ASSUME NEW amount \in RewardAmounts, AddRewardH(amount)
      PROVE  Kept
  <2> DEFINE d == (amount * PRECISION) \div totalStake
  <2>1. /\ totalStake > 0 /\ stakes' = stakes
        /\ totalRewardPerToken' = totalRewardPerToken + d
        /\ totalCollateralPerToken' = totalCollateralPerToken
        /\ rewardBalance' = rewardBalance + amount /\ ethBalance' = ethBalance
        /\ Earned
    BY <1>9 DEF AddRewardH, AddReward
  <2>2. amount \in Nat /\ d \in Nat
    BY <1>8, <2>1, DivisionRoundsDown, DFIREStakingAssumption
  <2> HIDE DEF d
  <2>3. totalCollateralPerToken' = totalCollateralPerToken + 0
    BY <1>8, <2>1
  <2>4. \A u \in Users : /\ OwedReward'[u] = OwedReward[u] + d * stakes[u].stake
                         /\ OwedCollateral'[u] = OwedCollateral[u] + 0 * stakes[u].stake
    BY <1>0, <2>1, <2>2, <2>3, OwedRewarded
  <2>5. /\ MisjudgedReward' = MisjudgedReward /\ MisjudgedCollateral' = MisjudgedCollateral
    BY <2>1 DEF Earned, MisjudgedReward, MisjudgedCollateral
  <2>6. Sum(OwedReward, MaxUser) <= PRECISION * rewardBalance + Sum(MisjudgedReward, MaxUser)
    BY <1>0 DEF Solvent
  <2>7. Sum(OwedReward', MaxUser) <= PRECISION * (rewardBalance + amount) + Sum(MisjudgedReward, MaxUser)
    BY <1>0, <1>7, <1>8, <2>1, <2>2, <2>4, <2>6, RewardKeepsCovered DEF d
  <2>8. OwedCollateral' = OwedCollateral
    BY <2>1 DEF OwedCollateral, Owed
  <2>9. Solvent'
    BY <1>0, <2>1, <2>5, <2>7, <2>8 DEF Solvent
  <2>10. HistoryOK' /\ LittleLost'
    BY <1>0, <2>1, <2>2, <2>3, RewardingLosesNothing
  <2>11. QED
    BY <2>9, <2>10
<1>10. ASSUME NEW amount \in CollateralAmounts, AddCollateralRewardH(amount)
       PROVE  Kept
  <2> DEFINE d == (amount * PRECISION) \div totalStake
  <2>1. /\ totalStake > 0 /\ stakes' = stakes
        /\ totalCollateralPerToken' = totalCollateralPerToken + d
        /\ totalRewardPerToken' = totalRewardPerToken
        /\ ethBalance' = ethBalance + amount /\ rewardBalance' = rewardBalance
        /\ Earned
    BY <1>10 DEF AddCollateralRewardH, AddCollateralReward
  <2>2. amount \in Nat /\ d \in Nat
    BY <1>8, <2>1, DivisionRoundsDown, DFIREStakingAssumption
  <2> HIDE DEF d
  <2>3. totalRewardPerToken' = totalRewardPerToken + 0
    BY <1>8, <2>1
  <2>4. \A u \in Users : /\ OwedReward'[u] = OwedReward[u] + 0 * stakes[u].stake
                         /\ OwedCollateral'[u] = OwedCollateral[u] + d * stakes[u].stake
    BY <1>0, <2>1, <2>2, <2>3, OwedRewarded
  <2>5. /\ MisjudgedReward' = MisjudgedReward /\ MisjudgedCollateral' = MisjudgedCollateral
    BY <2>1 DEF Earned, MisjudgedReward, MisjudgedCollateral
  <2>6. Sum(OwedCollateral, MaxUser) <= PRECISION * ethBalance + Sum(MisjudgedCollateral, MaxUser)
    BY <1>0 DEF Solvent
  <2>7. Sum(OwedCollateral', MaxUser) <= PRECISION * (ethBalance + amount) + Sum(MisjudgedCollateral, MaxUser)
    BY <1>0, <1>7, <1>8, <2>1, <2>2, <2>4, <2>6, RewardKeepsCovered DEF d
  <2>8. OwedReward' = OwedReward
    BY <2>1 DEF OwedReward, Owed
  <2>9. Solvent'
    BY <1>0, <2>1, <2>5, <2>7, <2>8 DEF Solvent
  <2>10. HistoryOK' /\ LittleLost'
    BY <1>0, <2>1, <2>2, <2>3, RewardingLosesNothing
  <2>11. QED
    BY <2>9, <2>10
<1>11. ASSUME UNCHANGED <<stakes, cumulative, rewardBalance, history>>,
              NEW amount \in Nat, ethBalance' = ethBalance + amount
       PROVE  Kept
  <2>1. /\ OwedReward' = OwedReward /\ OwedCollateral' = OwedCollateral
        /\ MisjudgedReward' = MisjudgedReward /\ MisjudgedCollateral' = MisjudgedCollateral
    BY <1>11 DEF OwedReward, OwedCollateral, Owed, MisjudgedReward, MisjudgedCollateral,
                 cumulative, history
  <2>2. HistoryOK' /\ LittleLost'
    BY <1>0, <1>11, <2>1 DEF HistoryOK, LittleLost, LostReward, LostCollateral, history
  <2>3. /\ PRECISION * (ethBalance + amount) = PRECISION * ethBalance + PRECISION * amount
        /\ PRECISION * ethBalance \in Nat /\ PRECISION * amount \in Nat
    BY <1>8, <1>11, DFIREStakingAssumption
  <2>4. MaxUser \in Nat
    BY DFIREStakingAssumption
  <2>5. Sum(OwedCollateral, MaxUser) \in Int
    BY <1>7, <2>4, SumType
  <2>6. Sum(OwedCollateral, MaxUser) <= PRECISION * ethBalance' + Sum(MisjudgedCollateral, MaxUser)
    BY <1>0, <1>8, <1>11, <2>3, <2>5 DEF Solvent
  <2>7. Solvent'
    BY <1>0, <1>11, <2>1, <2>6 DEF Solvent
  <2>8. QED
    BY <2>2, <2>7
<1>12. ASSUME NEW amount \in CollateralAmounts, KeepCollateralH(amount)
       PROVE  Kept
  <2>1. amount \in Nat /\ ethBalance' = ethBalance + amount
        /\ UNCHANGED <<stakes, cumulative, rewardBalance, history>>
    BY <1>12, DFIREStakingAssumption DEF KeepCollateralH, KeepCollateral
  <2>2. QED
    BY <1>11, <2>1
<1>13. ASSUME UNCHANGED varsH PROVE Kept
  <2>1. /\ UNCHANGED <<stakes, cumulative, rewardBalance, history>>
        /\ ethBalance' = ethBalance + 0
    BY <1>8, <1>13 DEF varsH, vars, cumulative
  <2>2. QED
    BY <1>11, <2>1
<1>14. Kept
  BY <1>2, <1>3, <1>5, <1>6, <1>9, <1>10, <1>12, <1>13 DEF NextH
<1>15. QED
  BY <1>0, <1>14 DEF HistoryInv

\* The pending rewards, each rounded down, add up to no more than is owed.
LEMMA SolvencyCovers == HistoryInv => ClaimsCovered
<1> SUFFICES ASSUME HistoryInv PROVE ClaimsCovered
  OBVIOUS
<1>0. TypeInv /\ HistoryOK /\ Solvent
  BY DEF HistoryInv
<1>1. PRECISION \in Nat \ {0} /\ MaxUser \in Nat
  BY DFIREStakingAssumption
<1>2. ASSUME NEW f \in [1 .. MaxUser -> Nat], NEW owed \in [1 .. MaxUser -> Int], NEW limit \in Int,
             \A u \in 1 .. MaxUser : PRECISION * f[u] <= owed[u],
             Sum(owed, MaxUser) <= limit
      PROVE  PRECISION * Sum(f, MaxUser) <= limit
  <2> DEFINE scaled == [u \in 1 .. MaxUser |-> PRECISION * f[u]]
  <2>1. /\ scaled \in [1 .. MaxUser -> Int]
        /\ f \in [1 .. MaxUser -> Int] /\ PRECISION \in Int
        /\ \A u \in 1 .. MaxUser : scaled[u] = PRECISION * f[u]
        /\ \A u \in 1 .. MaxUser : scaled[u] <= owed[u]
    BY <1>1, <1>2
  <2> HIDE DEF scaled
  <2>2. Sum(scaled, MaxUser) = PRECISION * Sum(f, MaxUser)
    BY <1>1, <2>1, SumScale
  <2>3. Sum(scaled, MaxUser) <= Sum(owed, MaxUser)
    BY <1>1, <1>2, <2>1, SumMonotone
  <2>4. Sum(scaled, MaxUser) \in Int /\ Sum(owed, MaxUser) \in Int
    BY <1>1, <1>2, <2>1, SumType
  <2>5. Sum(scaled, MaxUser) <= limit
    BY <1>2, <2>3, <2>4
  <2>6. QED
    BY <2>2, <2>5
<1>3. /\ PendingReward \in [1 .. MaxUser -> Nat] /\ PendingCollateral \in [1 .. MaxUser -> Nat]
      /\ \A u \in 1 .. MaxUser : PRECISION * PendingReward[u] <= OwedReward[u]
      /\ \A u \in 1 .. MaxUser : PRECISION * PendingCollateral[u] <= OwedCollateral[u]
  BY <1>0, RewardType DEF TypeInv, PendingReward, PendingCollateral, Users
<1>4. /\ PRECISION * rewardBalance + Sum(MisjudgedReward, MaxUser) \in Int
      /\ PRECISION * ethBalance + Sum(MisjudgedCollateral, MaxUser) \in Int
  BY <1>0, <1>1, MisjudgedType DEF TypeInv, TypeOK
<1>5. OwedReward \in [1 .. MaxUser -> Int] /\ OwedCollateral \in [1 .. MaxUser -> Int]
  BY <1>0, OwedType
<1>6. /\ PRECISION * Sum(PendingReward, MaxUser)
           <= PRECISION * rewardBalance + Sum(MisjudgedReward, MaxUser)
      /\ PRECISION * Sum(PendingCollateral, MaxUser)
           <= PRECISION * ethBalance + Sum(MisjudgedCollateral, MaxUser)
  BY <1>0, <1>2, <1>3, <1>4, <1>5 DEF Solvent
<1>7. QED
  BY <1>6 DEF ClaimsCovered

(* What is pending falls one rounding short of what is owed. *)
LEMMA LittleLostPays == HistoryInv => PaidAsEarned
<1> SUFFICES ASSUME HistoryInv, NEW u \in Users
             PROVE  /\ due[u].sbd + misjudged[u].sbd - PRECISION * Reward(u)
                         \in 0 .. PRECISION * (roundings[u] + 1)
                    /\ due[u].eth + misjudged[u].eth - PRECISION * CollateralReward(u)
                         \in 0 .. PRECISION * (roundings[u] + 1)
  BY DEF PaidAsEarned
<1>0. TypeInv /\ HistoryOK /\ LittleLost
  BY DEF HistoryInv
<1>1. PICK r \in Nat, c \in Nat : r = PRECISION * Reward(u) /\ c = PRECISION * CollateralReward(u)
  BY <1>0, PaidAlmostAll
<1>2. OwedReward[u] - r \in 0 .. PRECISION /\ OwedCollateral[u] - c \in 0 .. PRECISION
  BY <1>0, <1>1, PaidAlmostAll
<1>3. /\ LostReward(u) \in 0 .. PRECISION * roundings[u]
      /\ LostCollateral(u) \in 0 .. PRECISION * roundings[u]
  BY <1>0 DEF LittleLost
<1>4. /\ due[u].sbd \in Int /\ due[u].eth \in Int
      /\ misjudged[u].sbd \in Int /\ misjudged[u].eth \in Int
      /\ OwedReward[u] \in Int /\ OwedCollateral[u] \in Int
      /\ roundings[u] \in Nat /\ PRECISION \in Nat
  BY <1>0, OwedType, DFIREStakingAssumption DEF HistoryOK, Users
<1>5. PICK k \in Nat : k = PRECISION * roundings[u]
  BY <1>4
<1>6. PRECISION * (roundings[u] + 1) = k + PRECISION
  BY <1>4, <1>5
<1>7. /\ due[u].sbd + misjudged[u].sbd - r = LostReward(u) + (OwedReward[u] - r)
      /\ due[u].eth + misjudged[u].eth - c = LostCollateral(u) + (OwedCollateral[u] - c)
  BY <1>4 DEF LostReward, LostCollateral
<1>8. /\ LostReward(u) + (OwedReward[u] - r) \in 0 .. k + PRECISION
      /\ LostCollateral(u) + (OwedCollateral[u] - c) \in 0 .. k + PRECISION
  BY <1>2, <1>3, <1>4, <1>5
<1>9. QED
  BY <1>1, <1>6, <1>7, <1>8

\* Whatever the order of stakes, unstakes, claims and rewards, and however calls
\* are nested, the contract can pay every user all that is pending for it, but for
\* what calls that were interrupted by a reward have misjudged.
THEOREM Solvency == SpecH => []ClaimsCovered
<1>1. QED
  BY HistoryInit, HistoryStep, SolvencyCovers, PTL DEF SpecH

\* A user is paid what its stake has earned, no reward twice and none to another,
\* up to a unit for each payment and what it has misjudged in its own calls.
THEOREM EveryonePaidAsEarned == SpecH => []PaidAsEarned
<1>1. QED
  BY HistoryInit, HistoryStep, LittleLostPays, PTL DEF SpecH
=============================================================================
