------------------------- MODULE StabilityPoolProofs -------------------------
(***************************************************************************)
(* Safety of StabilityPool for every number of stakers, every precision,   *)
(* threshold of the reset, issuance and set of amounts, and every depth of *)
(* nested calls.                                                           *)
(***************************************************************************)
EXTENDS StabilityPoolH, SumsProofs

\* No stake dates from an epoch that is still to come.
EpochsPast == \A u \in Users : users[u].stakeResetCount <= stakeResetCount

\* The calls under way ask for a positive amount, but for claims.
AmountsAsked == \A k \in DOMAIN calls : calls[k].op # "claim" => calls[k].amount > 0

\* DFIRE was issued last in the past and, while the issuance runs, before its end.
IssuedInTime ==
  /\ issuance.last <= now
  /\ issuance.status = "STARTED" => issuance.last <= issuance.end

Inv == TypeOK /\ EpochsPast /\ AmountsAsked /\ IssuedInTime /\ FlagTellsStakers

-----------------------------------------------------------------------------
(* Arithmetic of the shares. *)

\* A quotient of natural numbers is one.
LEMMA QuotientType ==
  \A x \in Nat, y \in Nat \ {0} : x \div y \in Nat
OBVIOUS

\* The product of natural numbers is one.
LEMMA ProductType ==
  \A x, y \in Nat : x * y \in Nat
OBVIOUS

\* What is distributed does not exceed what there is: the rest that is carried
\* to the next distribution is not negative (LossAfter).
LEMMA RestType ==
  ASSUME NEW x \in Nat, NEW s \in Nat \ {0}, NEW t \in Nat \ {0}
  PROVE  x - (((x * s) \div t) * t) \div s \in Nat
<1> DEFINE q == (x * s) \div t
<1>1. x * s \in Nat
  BY ProductType
<1>2. q \in Nat /\ t * q <= x * s
  BY <1>1, DivisionRoundsDown
<1> HIDE DEF q
<1>3. q * t \in Nat /\ q * t <= x * s
  BY <1>2, ProductType
<1> DEFINE y == q * t
           r == y \div s
<1>4. y \in Nat /\ y <= x * s
  BY <1>3
<1> HIDE DEF y
<1>5. r \in Nat /\ s * r <= y
  BY <1>4, DivisionRoundsDown
<1> HIDE DEF r
<1>6. s * r <= s * x
  BY <1>1, <1>4, <1>5
<1>7. r <= x
  BY <1>5, <1>6, CancelFactor
<1>8. x - r \in Nat
  BY <1>5, <1>7
<1>9. QED
  BY <1>8 DEF r, y, q

\* A part of a whole, in units of p, is at most p, and scales s down.
LEMMA ScaledDownType ==
  ASSUME NEW s \in Nat, NEW a \in Nat, NEW t \in Nat \ {0}, NEW p \in Nat \ {0}, a <= t
  PROVE  (s * (((t - a) * p) \div t)) \div p \in 0 .. s
<1> DEFINE q == ((t - a) * p) \div t
<1>1. t - a \in Nat /\ (t - a) * p \in Nat /\ (t - a) * p <= t * p
  OBVIOUS
<1>2. q \in Nat /\ t * q <= (t - a) * p
  BY <1>1, DivisionRoundsDown
<1> HIDE DEF q
<1>3. t * q <= t * p
  BY <1>1, <1>2
<1>4. q <= p
  BY <1>2, <1>3, CancelFactor
<1>5. s * q \in Nat /\ s * q <= s * p
  BY <1>2, <1>4
<1> DEFINE y == s * q
           r == y \div p
<1>6. y \in Nat /\ y <= p * s
  BY <1>5
<1> HIDE DEF y
<1>7. r \in Nat /\ p * r <= y
  BY <1>6, DivisionRoundsDown
<1> HIDE DEF r
<1>8. p * r <= p * s
  BY <1>6, <1>7
<1>9. r <= s
  BY <1>7, <1>8, CancelFactor
<1>10. QED
  BY <1>7, <1>9 DEF r, y, q

\* The fixed point and the threshold are positive, and so is every factor.
LEMMA FactorPositive ==
  ASSUME TypeOK
  PROVE  /\ PRECISION \in Nat \ {0}
         /\ stakeScalingFactor \in Nat \ {0} /\ stakeScalingFactor <= PRECISION
BY StabilityPoolAssumption DEF TypeOK

-----------------------------------------------------------------------------
(* Distributions. *)

\* addReward, addCollateralReward and performLiquidation share out a natural
\* number and carry a natural number.
LEMMA DistributionType ==
  ASSUME TypeOK, totalStakedRaw > 0, NEW c \in Currencies, NEW amount \in Nat
  PROVE  PerToken(c, amount) \in Nat /\ LossAfter(c, amount) \in Nat
<1>1. loss[c] \in Nat /\ totalStakedRaw \in Nat \ {0}
  BY DEF TypeOK, Amounts
<1>2. stakeScalingFactor \in Nat \ {0}
  BY FactorPositive
<1> DEFINE x     == amount + loss[c]
           token == PerToken(c, amount)
           given == (token * totalStakedRaw) \div stakeScalingFactor
<1>3. x \in Nat /\ x * stakeScalingFactor \in Nat
  BY <1>1, <1>2, ProductType
<1>4. token = (x * stakeScalingFactor) \div totalStakedRaw
  BY DEF PerToken
<1>5. LossAfter(c, amount) = amount + (loss[c] - given)
  BY DEF LossAfter
<1> HIDE DEF x, token
<1>6. token \in Nat
  BY <1>1, <1>3, <1>4, QuotientType
<1>7. given \in Nat
  BY <1>1, <1>2, <1>6, ProductType, QuotientType
<1>8. x - given \in Nat
  BY <1>1, <1>2, <1>3, <1>4, RestType
<1> HIDE DEF given
<1>9. LossAfter(c, amount) = x - given
  BY <1>1, <1>5, <1>7 DEF x
<1>10. QED
  BY <1>6, <1>8, <1>9 DEF token

\* _addSBRRewards issues a natural number of DFIRE.
LEMMA IssuedType ==
  ASSUME TypeOK, IssuedInTime
  PROVE  IssuedPerToken \in Nat /\ LossWithSBR \in Nat
<1>1. CASE ~Issuing
  BY <1>1 DEF IssuedPerToken, LossWithSBR, TypeOK, Amounts, Currencies
<1>2. CASE Issuing
  <2>1. Issued \in Nat
    BY <1>2 DEF Issuing, Issued, Over, IssuedInTime, TypeOK, Issuance
  <2>2. Issued * sbrDistributionRate \in Nat
    BY <2>1, StabilityPoolAssumption, ProductType
  <2>3. totalStakedRaw > 0 /\ "sbr" \in Currencies
    BY <1>2 DEF Issuing, Currencies
  <2>4. QED
    BY <1>2, <2>2, <2>3, DistributionType DEF IssuedPerToken, LossWithSBR
<1>3. QED
  BY <1>1, <1>2

\* _addSBRRewards leaves the clock of the issuance in order.
LEMMA IssuanceStep ==
  ASSUME TypeOK, IssuedInTime, NEW more \in Amounts, AddSBRRewards(more), UNCHANGED now
  PROVE  issuance' \in Issuance /\ perToken' \in Amounts /\ IssuedInTime'
<1>1. perToken' \in Amounts
  <2>1. \A c \in Currencies :
          perToken[c] + (IF c = "sbr" THEN IssuedPerToken ELSE more[c]) \in Nat
    BY IssuedType DEF TypeOK, Amounts
  <2>2. QED
    BY <2>1 DEF AddSBRRewards, Amounts
<1> DEFINE status == IssuanceStatus(issuance.status)
           last   == IF issuance.status = "ENDED" THEN issuance.last ELSE now
           end    == IF issuance.status = "NOT_STARTED" THEN now + sbrDistributionTime
                                                         ELSE issuance.end
<1>2. issuance' = [status |-> status, last |-> last, end |-> end]
  BY DEF AddSBRRewards
<1>3. /\ issuance.status \in {"NOT_STARTED", "STARTED", "ENDED"}
      /\ issuance.last \in Nat /\ issuance.end \in Nat /\ now \in Nat
  BY DEF TypeOK, Issuance
<1>4. status \in {"NOT_STARTED", "STARTED", "ENDED"}
  BY DEF IssuanceStatus
<1>5. last \in Nat /\ last <= now /\ end \in Nat
  BY <1>3, StabilityPoolAssumption DEF IssuedInTime
<1>6. status = "STARTED" => last <= end
  BY <1>3, StabilityPoolAssumption DEF IssuanceStatus, Over
<1> HIDE DEF status, last, end
<1>7. issuance' \in Issuance
  BY <1>2, <1>4, <1>5 DEF Issuance
<1>8. IssuedInTime'
  BY <1>2, <1>5, <1>6 DEF IssuedInTime
<1>9. QED
  BY <1>1, <1>7, <1>8

-----------------------------------------------------------------------------
(* A user. *)

\* The factor and the cumulative amounts at the end of an epoch.
LEMMA EpochType ==
  ASSUME TypeOK, NEW epoch \in 0 .. stakeResetCount, NEW current \in Amounts,
         NEW c \in Currencies
  PROVE  FactorOf(epoch) \in Nat /\ PerTokenOf(epoch, c, current) \in Nat
<1>1. CASE epoch = stakeResetCount
  BY <1>1, FactorPositive DEF FactorOf, PerTokenOf, Amounts
<1>2. CASE epoch # stakeResetCount
  <2>1. stakeResetCount \in Nat /\ epoch + 1 \in 1 .. Len(stakeResetSnapshots)
    BY <1>2 DEF stakeResetCount, TypeOK
  <2>2. stakeResetSnapshots[epoch + 1] \in Snapshot
    BY <2>1 DEF TypeOK
  <2>3. QED
    BY <1>2, <2>2 DEF FactorOf, PerTokenOf, Snapshot, Amounts
<1>3. QED
  BY <1>1, <1>2

\* What liquidations have left of a stake is a natural number.
LEMMA EffectiveStakeType ==
  ASSUME TypeOK, NEW user \in UserInfo, user.stakeResetCount <= stakeResetCount
  PROVE  /\ EffectiveStake(user) \in Nat
         /\ user.cumulativeProductScalingFactor # 0 => Scaled(user) \in Nat
<1>1. /\ user.stake \in Nat /\ user.stakeResetCount \in Nat
      /\ user.cumulativeProductScalingFactor \in Nat
  BY DEF UserInfo
<1>2. stakeResetCount \in Nat
  BY DEF stakeResetCount, TypeOK
<1>3. Nothing \in Amounts /\ "eth" \in Currencies
  BY DEF Nothing, Amounts, Currencies
<1>4. user.cumulativeProductScalingFactor # 0 => Scaled(user) \in Nat
  <2> SUFFICES ASSUME user.cumulativeProductScalingFactor # 0 PROVE Scaled(user) \in Nat
    OBVIOUS
  <2>1. FactorOf(user.stakeResetCount) \in Nat
    BY <1>1, <1>2, <1>3, EpochType
  <2>2. user.stake * FactorOf(user.stakeResetCount) \in Nat
    BY <1>1, <2>1, ProductType
  <2>3. QED
    BY <1>1, <2>2, QuotientType DEF Scaled
<1>5. ASSUME user.cumulativeProductScalingFactor # 0, user.stakeResetCount # stakeResetCount
      PROVE  (Scaled(user) * FactorOf(user.stakeResetCount + 1)) \div PRECISION \in Nat
  <2>1. FactorOf(user.stakeResetCount + 1) \in Nat
    BY <1>1, <1>2, <1>3, <1>5, EpochType
  <2>2. Scaled(user) * FactorOf(user.stakeResetCount + 1) \in Nat
    BY <1>4, <1>5, <2>1, ProductType
  <2>3. QED
    BY <2>2, FactorPositive, QuotientType
<1>6. QED
  BY <1>1, <1>4, <1>5 DEF EffectiveStake

\* What a user has pending is a natural number, unless the code reverts.
LEMMA PendingType ==
  ASSUME TypeOK, NEW user \in UserInfo, user.stakeResetCount <= stakeResetCount,
         NEW current \in Amounts, NEW c \in Currencies,
         \/ user.cumulativeProductScalingFactor = 0
         \/ c = "sbr" /\ user.sbrClaimed
         \/ Gain(user, c, current) >= 0
  PROVE  Pending(user, c, current) \in Nat
<1> SUFFICES ASSUME user.cumulativeProductScalingFactor # 0, ~(c = "sbr" /\ user.sbrClaimed)
             PROVE  Pending(user, c, current) \in Nat
  BY DEF Pending
<1>1. /\ user.stake \in Nat /\ user.stakeResetCount \in Nat /\ user.snapshot[c] \in Nat
      /\ user.cumulativeProductScalingFactor \in Nat \ {0}
  BY DEF UserInfo, Amounts
<1>2. stakeResetCount \in Nat
  BY DEF stakeResetCount, TypeOK
<1> DEFINE epoch == user.stakeResetCount
           first  == (Gain(user, c, current) * user.stake) \div user.cumulativeProductScalingFactor
           second == (PerTokenOf(epoch + 1, c, current) * Scaled(user)) \div PRECISION
<1>3. first \in Nat
  <2>1. PerTokenOf(epoch, c, current) \in Nat
    BY <1>1, <1>2, EpochType
  <2>2. Gain(user, c, current) \in Nat
    BY <1>1, <2>1 DEF Gain
  <2>3. Gain(user, c, current) * user.stake \in Nat
    BY <1>1, <2>2, ProductType
  <2>4. QED
    BY <1>1, <2>3, QuotientType
<1>4. epoch # stakeResetCount => second \in Nat
  <2> SUFFICES ASSUME epoch # stakeResetCount PROVE second \in Nat
    OBVIOUS
  <2>1. PerTokenOf(epoch + 1, c, current) \in Nat
    BY <1>1, <1>2, EpochType
  <2>2. Scaled(user) \in Nat
    BY EffectiveStakeType
  <2>3. PerTokenOf(epoch + 1, c, current) * Scaled(user) \in Nat
    BY <2>1, <2>2, ProductType
  <2>4. QED
    BY <2>3, FactorPositive, QuotientType
<1>5. Pending(user, c, current) = first + (IF epoch = stakeResetCount THEN 0 ELSE second)
  BY DEF Pending
<1> HIDE DEF first, second
<1>6. QED
  BY <1>3, <1>4, <1>5

-----------------------------------------------------------------------------
(* stake, unstake and claim. *)

\* _claim up to the payment: what it pays, mints and records.
LEMMA PayRewardsStep ==
  ASSUME Inv, NEW u \in Users, PayRewards(u), UNCHANGED now
  PROVE  /\ issuance' \in Issuance /\ perToken' \in Amounts /\ IssuedInTime'
         /\ loss' \in Amounts /\ roundings' \in Amounts /\ eth' \in Nat
         /\ dfid - PendingNow(u, "sbd") \in Nat
         /\ PaidUser(u) \in UserInfo
         /\ PaidUser(u).stakeResetCount = users[u].stakeResetCount
         /\ SBRToMint(u) \in Nat
<1> DEFINE current == [perToken EXCEPT !["sbr"] = @ + IssuedPerToken]
<1>1. TypeOK /\ IssuedInTime /\ users[u] \in UserInfo
      /\ users[u].stakeResetCount <= stakeResetCount
  BY DEF Inv, TypeOK, EpochsPast
<1>2. IssuedPerToken \in Nat /\ LossWithSBR \in Nat
  BY <1>1, IssuedType
<1>3. perToken \in Amounts /\ loss \in Amounts /\ roundings \in Amounts /\ eth \in Nat /\ dfid \in Nat
  BY <1>1 DEF TypeOK
<1>4. current \in Amounts /\ current["sbd"] = perToken["sbd"] /\ current["eth"] = perToken["eth"]
  BY <1>2, <1>3 DEF Amounts, Currencies
<1>5. Nothing \in Amounts
  BY DEF Nothing, Amounts
<1>6. /\ AddSBRRewards(Nothing)
      /\ loss' = [loss EXCEPT !["sbr"] = LossWithSBR]
      /\ roundings' = [roundings EXCEPT !["sbr"] = @ + (IF Issuing THEN 1 ELSE 0)]
      /\ Computable(users[u], current)
      /\ PendingNow(u, "sbd") <= dfid
      /\ PendingNow(u, "eth") <= eth
      /\ eth' = eth - PendingNow(u, "eth")
  BY ZenonT(30) DEF PayRewards
<1> HIDE DEF current
<1>7. issuance' \in Issuance /\ perToken' \in Amounts /\ IssuedInTime'
  BY <1>1, <1>5, <1>6, IssuanceStep
<1>8. loss' \in Amounts /\ roundings' \in Amounts
  BY <1>2, <1>3, <1>6 DEF Amounts, Currencies
<1>9. \A c \in {"sbd", "eth"} : PendingNow(u, c) \in Nat
  <2> TAKE c \in {"sbd", "eth"}
  <2>1. Gain(users[u], c, perToken) = Gain(users[u], c, current)
    BY <1>4 DEF Gain, PerTokenOf
  <2>2. \/ users[u].cumulativeProductScalingFactor = 0
        \/ Gain(users[u], c, perToken) >= 0
    BY <1>6, <2>1 DEF Computable, Currencies
  <2>3. c \in Currencies
    BY DEF Currencies
  <2>4. QED
    BY <1>1, <1>3, <2>2, <2>3, PendingType DEF PendingNow
<1>10. eth' \in Nat /\ dfid - PendingNow(u, "sbd") \in Nat
  BY <1>3, <1>6, <1>9
<1>11. SBRToMint(u) \in Nat
  <2>1. "sbr" \in Currencies
    BY DEF Currencies
  <2>2. SBRToMint(u) = Pending(users[u], "sbr", current)
    BY DEF SBRToMint, current
  <2>3. \/ users[u].cumulativeProductScalingFactor = 0
        \/ users[u].sbrClaimed
        \/ Gain(users[u], "sbr", current) >= 0
    BY <1>6, <2>1 DEF Computable
  <2>4. QED
    BY <1>1, <1>4, <2>1, <2>2, <2>3, PendingType
<1>12. PaidUser(u) \in UserInfo /\ PaidUser(u).stakeResetCount = users[u].stakeResetCount
  <2> DEFINE status  == IssuanceStatus(issuance.status)
             snap    == [c \in Currencies |->
                           IF c = "sbr" /\ status = "ENDED" THEN users[u].snapshot[c]
                                                            ELSE current[c]]
             claimed == users[u].sbrClaimed \/ status = "ENDED"
  <2>1. PaidUser(u) = [users[u] EXCEPT !.snapshot = snap, !.sbrClaimed = claimed]
    BY DEF PaidUser, SnapshotsTaken, current
  <2>2. snap \in Amounts
    BY <1>1, <1>4 DEF Amounts, UserInfo
  <2>3. claimed \in BOOLEAN
    BY <1>1 DEF UserInfo
  <2> HIDE DEF snap, claimed
  <2>4. QED
    BY <1>1, <2>1, <2>2, <2>3 DEF UserInfo
<1>13. QED
  BY <1>7, <1>8, <1>10, <1>11, <1>12

\* The rest of a call: the stake and the total change by the same amount, and
\* the flag follows the total.
LEMMA CompleteStep ==
  ASSUME Inv, NEW u \in Users, NEW user \in UserInfo, user.stakeResetCount <= stakeResetCount,
         NEW op \in {"stake", "unstake", "claim"}, NEW amount \in Nat, op # "claim" => amount > 0,
         NEW sbr \in Nat, NEW held \in Nat, Complete(u, user, op, amount, sbr, held)
  PROVE  /\ users' \in [Users -> UserInfo] /\ EpochsPast'
         /\ totalStakedRaw' \in Nat /\ dfid' \in Nat /\ minted' \in Nat
         /\ canReceive' \in BOOLEAN /\ FlagTellsStakers'
<1> DEFINE change == CASE op = "stake" -> amount [] op = "unstake" -> -amount [] OTHER -> 0
<1>1. /\ op = "unstake" => /\ amount <= EffectiveStake(user)
                           /\ amount <= totalStakedRaw
                           /\ amount <= held
      /\ users' = [users EXCEPT ![u] = Settled(user, change)]
      /\ totalStakedRaw' = totalStakedRaw + change
      /\ dfid' = held + change
      /\ minted' = minted + sbr
      /\ canReceive' = FlagAfter(op, amount)
      /\ UNCHANGED <<stakeScalingFactor, stakeResetSnapshots, now>>
  BY ZenonT(30) DEF Complete
<1>2. /\ TypeOK /\ users \in [Users -> UserInfo] /\ totalStakedRaw \in Nat /\ minted \in Nat
      /\ canReceive \in BOOLEAN /\ stakeResetCount \in Nat
  BY DEF Inv, TypeOK, stakeResetCount
<1>3. EffectiveStake(user) \in Nat
  BY <1>2, EffectiveStakeType
<1>4. /\ op = "stake" => change = amount
      /\ op = "unstake" => change = -amount
      /\ op = "claim" => change = 0
  OBVIOUS
<1> HIDE DEF change
<1>5. totalStakedRaw' \in Nat /\ dfid' \in Nat /\ minted' \in Nat
  BY <1>1, <1>2, <1>4
<1>6. Settled(user, change) \in UserInfo /\ Settled(user, change).stakeResetCount = stakeResetCount
  <2> DEFINE stake == EffectiveStake(user) + change
  <2>1. stake \in Nat
    BY <1>1, <1>3, <1>4
  <2>2. Settled(user, change) =
          [user EXCEPT !.stake = stake, !.cumulativeProductScalingFactor = stakeScalingFactor,
                       !.stakeResetCount = stakeResetCount]
    BY DEF Settled
  <2>3. stakeScalingFactor \in Nat
    BY <1>2, FactorPositive
  <2> HIDE DEF stake
  <2>4. QED
    BY <1>2, <2>1, <2>2, <2>3 DEF UserInfo
<1>7. users' \in [Users -> UserInfo]
  BY <1>1, <1>2, <1>6
<1>8. EpochsPast'
  <2>1. stakeResetCount' = stakeResetCount
    BY <1>1 DEF stakeResetCount
  <2>2. \A v \in Users : users[v].stakeResetCount <= stakeResetCount
    BY DEF Inv, EpochsPast
  <2>3. \A v \in Users : users'[v].stakeResetCount <= stakeResetCount
    BY <1>1, <1>2, <1>6, <2>2
  <2>4. QED
    BY <2>1, <2>3 DEF EpochsPast
<1>9. canReceive' \in BOOLEAN
  BY <1>1, <1>2 DEF FlagAfter
<1>10. FlagTellsStakers'
  <2> SUFFICES ASSUME rewardSenderActive PROVE canReceive' <=> totalStakedRaw' > 0
    BY DEF FlagTellsStakers
  <2>1. canReceive <=> totalStakedRaw > 0
    BY DEF Inv, FlagTellsStakers
  <2>2. CASE op = "stake"
    <3>1. totalStakedRaw' > 0
      BY <1>1, <1>2, <1>4, <2>2
    <3>2. totalStakedRaw = 0 => canReceive'
      BY <1>1, <2>2 DEF FlagAfter
    <3>3. totalStakedRaw # 0 => canReceive' = canReceive
      BY <1>1, <2>2 DEF FlagAfter
    <3>4. QED
      BY <1>2, <2>1, <3>1, <3>2, <3>3
  <2>3. CASE op = "unstake"
    <3>1. totalStakedRaw = amount => ~canReceive' /\ totalStakedRaw' = 0
      BY <1>1, <1>2, <1>4, <2>3 DEF FlagAfter
    <3>2. totalStakedRaw # amount => canReceive' = canReceive
      BY <1>1, <2>3 DEF FlagAfter
    <3>3. totalStakedRaw # amount => totalStakedRaw > 0 /\ totalStakedRaw' > 0
      BY <1>1, <1>2, <1>4, <2>3
    <3>4. totalStakedRaw' = 0 => ~(totalStakedRaw' > 0)
      OBVIOUS
    <3>5. QED
      BY <2>1, <3>1, <3>2, <3>3, <3>4
  <2>4. CASE op = "claim"
    <3>1. canReceive' = canReceive
      BY <1>1, <2>4 DEF FlagAfter
    <3>2. totalStakedRaw' = totalStakedRaw
      BY <1>1, <1>2, <1>4, <2>4
    <3>3. QED
      BY <2>1, <3>1, <3>2
  <2>5. QED
    BY <2>2, <2>3, <2>4
<1>11. QED
  BY <1>5, <1>7, <1>8, <1>9, <1>10

-----------------------------------------------------------------------------
(* The invariant. *)

LEMMA InvInit == Init => Inv
<1> SUFFICES ASSUME Init PROVE Inv
  OBVIOUS
<1>1. Nothing \in Amounts
  BY DEF Nothing, Amounts
<1>2. NewUser \in UserInfo /\ NewUser.stakeResetCount = 0
  BY <1>1 DEF NewUser, UserInfo
<1>3. users \in [Users -> UserInfo] /\ \A u \in Users : users[u].stakeResetCount = 0
  BY <1>2 DEF Init
<1>4. stakeResetSnapshots \in Seq(Snapshot) /\ stakeResetCount = 0 /\ calls \in Seq(Call)
  BY DEF Init, stakeResetCount
<1>5. issuance \in Issuance /\ IssuedInTime
  BY DEF Init, Issuance, IssuedInTime
<1>6. stakeScalingFactor \in minimumScalingFactor .. PRECISION
  BY StabilityPoolAssumption DEF Init
<1>7. TypeOK
  BY <1>1, <1>3, <1>4, <1>5, <1>6 DEF Init, TypeOK
<1>8. EpochsPast
  BY <1>3, <1>4 DEF EpochsPast
<1>9. AmountsAsked /\ FlagTellsStakers
  BY DEF Init, AmountsAsked, FlagTellsStakers
<1>10. QED
  BY <1>5, <1>7, <1>8, <1>9 DEF Inv

\* A call that is not interrupted.
LEMMA TransactStep ==
  ASSUME Inv, NEW u \in Users, NEW op \in {"stake", "unstake", "claim"}, NEW amount \in Nat,
         Transact(u, op, amount)
  PROVE  Inv'
<1> DEFINE held == dfid - PendingNow(u, "sbd")
           user == PaidUser(u)
           sbr  == SBRToMint(u)
<1>1. /\ Asked(u, op, amount) /\ PayRewards(u)
      /\ Complete(u, user, op, amount, sbr, held)
      /\ UNCHANGED calls
  BY DEF Transact
<1>2. UNCHANGED <<stakeScalingFactor, stakeResetSnapshots, now>>
  BY <1>1 DEF Complete
<1>3. op # "claim" => amount > 0
  BY <1>1 DEF Asked
<1>4. /\ issuance' \in Issuance /\ perToken' \in Amounts /\ IssuedInTime'
      /\ loss' \in Amounts /\ roundings' \in Amounts /\ eth' \in Nat
      /\ held \in Nat /\ user \in UserInfo /\ sbr \in Nat
      /\ user.stakeResetCount = users[u].stakeResetCount
  BY <1>1, <1>2, PayRewardsStep
<1>5. user.stakeResetCount <= stakeResetCount
  BY <1>4 DEF Inv, EpochsPast
<1> HIDE DEF held, user, sbr
<1>6. /\ users' \in [Users -> UserInfo] /\ EpochsPast'
      /\ totalStakedRaw' \in Nat /\ dfid' \in Nat /\ minted' \in Nat
      /\ canReceive' \in BOOLEAN /\ FlagTellsStakers'
  BY <1>1, <1>3, <1>4, <1>5, CompleteStep
<1>7. TypeOK'
  BY <1>1, <1>2, <1>4, <1>6 DEF Inv, TypeOK
<1>8. AmountsAsked'
  BY <1>1 DEF Inv, AmountsAsked
<1>9. QED
  BY <1>4, <1>6, <1>7, <1>8 DEF Inv

\* A call up to its payment: it is pushed, and the total stays.
LEMMA BeginCallStep ==
  ASSUME Inv, NEW u \in Users, NEW op \in {"stake", "unstake", "claim"}, NEW amount \in Nat,
         BeginCall(u, op, amount)
  PROVE  Inv'
<1> DEFINE call == [user |-> u, op |-> op, amount |-> amount, sbr |-> SBRToMint(u)]
<1>1. /\ Asked(u, op, amount) /\ PayRewards(u)
      /\ users' = [users EXCEPT ![u] = PaidUser(u)]
      /\ dfid' = dfid - PendingNow(u, "sbd")
      /\ calls' = Append(calls, call)
      /\ UNCHANGED <<totalStakedRaw, stakeScalingFactor, stakeResetSnapshots, now, minted, canReceive>>
  BY DEF BeginCall
<1>2. /\ issuance' \in Issuance /\ perToken' \in Amounts /\ IssuedInTime'
      /\ loss' \in Amounts /\ roundings' \in Amounts /\ eth' \in Nat
      /\ dfid' \in Nat /\ PaidUser(u) \in UserInfo /\ SBRToMint(u) \in Nat
      /\ PaidUser(u).stakeResetCount = users[u].stakeResetCount
  BY <1>1, PayRewardsStep
<1>3. call \in Call /\ (call.op # "claim" => call.amount > 0)
  BY <1>1, <1>2 DEF Call, Asked
<1> HIDE DEF call
<1>4. calls \in Seq(Call)
  BY DEF Inv, TypeOK
<1>5. calls' \in Seq(Call)
  BY <1>1, <1>3, <1>4
<1>6. AmountsAsked'
  <2>1. \A k \in 1 .. Len(calls) : calls[k].op # "claim" => calls[k].amount > 0
    BY <1>4 DEF Inv, AmountsAsked
  <2>2. DOMAIN calls' = 1 .. Len(calls) + 1
    BY <1>1, <1>3, <1>4
  <2>3. \A k \in 1 .. Len(calls) + 1 : calls'[k] = IF k = Len(calls) + 1 THEN call ELSE calls[k]
    BY <1>1, <1>3, <1>4
  <2>4. \A k \in 1 .. Len(calls) + 1 : k # Len(calls) + 1 => k \in 1 .. Len(calls)
    BY <1>4
  <2>5. QED
    BY <1>3, <2>1, <2>2, <2>3, <2>4 DEF AmountsAsked
<1>7. users \in [Users -> UserInfo] /\ users' \in [Users -> UserInfo]
  BY <1>1, <1>2 DEF Inv, TypeOK
<1>8. EpochsPast'
  BY <1>1, <1>2, <1>7 DEF Inv, EpochsPast, stakeResetCount
<1>9. TypeOK'
  BY <1>1, <1>2, <1>5, <1>7 DEF Inv, TypeOK
<1>10. FlagTellsStakers'
  BY <1>1 DEF Inv, FlagTellsStakers
<1>11. QED
  BY <1>2, <1>6, <1>8, <1>9, <1>10 DEF Inv

\* The rest of the innermost call.
LEMMA FinishCallStep ==
  ASSUME Inv, NEW op \in {"stake", "unstake", "claim"}, FinishCall(op)
  PROVE  Inv'
<1> DEFINE call == calls[Len(calls)]
<1>1. /\ calls # <<>> /\ call.op = op
      /\ Complete(call.user, users[call.user], op, call.amount, call.sbr, dfid)
      /\ calls' = SubSeq(calls, 1, Len(calls) - 1)
      /\ UNCHANGED <<perToken, loss, issuance, eth, roundings>>
  BY DEF FinishCall
<1>2. calls \in Seq(Call) /\ Len(calls) \in Nat \ {0}
  BY <1>1 DEF Inv, TypeOK
<1>3. call \in Call /\ (op # "claim" => call.amount > 0)
  BY <1>1, <1>2 DEF Inv, AmountsAsked
<1> HIDE DEF call
<1>4. call.user \in Users /\ call.amount \in Nat /\ call.sbr \in Nat /\ dfid \in Nat
  BY <1>3 DEF Call, Inv, TypeOK
<1>5. users[call.user] \in UserInfo /\ users[call.user].stakeResetCount <= stakeResetCount
  BY <1>4 DEF Inv, TypeOK, EpochsPast
<1>6. /\ users' \in [Users -> UserInfo] /\ EpochsPast'
      /\ totalStakedRaw' \in Nat /\ dfid' \in Nat /\ minted' \in Nat
      /\ canReceive' \in BOOLEAN /\ FlagTellsStakers'
  BY <1>1, <1>3, <1>4, <1>5, CompleteStep
<1>7. UNCHANGED <<stakeScalingFactor, stakeResetSnapshots, now>>
  BY <1>1 DEF Complete
<1>8. calls' \in Seq(Call)
  BY <1>1, <1>2
<1>9. AmountsAsked'
  <2>1. DOMAIN calls' = 1 .. Len(calls) - 1 /\ \A k \in 1 .. Len(calls) - 1 : calls'[k] = calls[k]
    BY <1>1, <1>2
  <2>2. \A k \in 1 .. Len(calls) - 1 : k \in DOMAIN calls
    BY <1>2
  <2>3. QED
    BY <2>1, <2>2 DEF Inv, AmountsAsked
<1>10. TypeOK'
  BY <1>1, <1>6, <1>7, <1>8 DEF Inv, TypeOK
<1>11. IssuedInTime'
  BY <1>1, <1>7 DEF Inv, IssuedInTime
<1>12. QED
  BY <1>6, <1>9, <1>10, <1>11 DEF Inv

-----------------------------------------------------------------------------
(* Distributions. *)

LEMMA AddRewardStep ==
  ASSUME Inv, NEW amount \in Nat, AddReward(amount)
  PROVE  Inv'
<1> DEFINE share == PerToken("sbd", amount)
           rest  == LossAfter("sbd", amount)
           more  == [Nothing EXCEPT !["sbd"] = share]
<1>1. /\ totalStakedRaw > 0
      /\ AddSBRRewards(more)
      /\ loss' = [loss EXCEPT !["sbd"] = rest, !["sbr"] = LossWithSBR]
      /\ roundings' = [roundings EXCEPT !["sbd"] = @ + 1, !["sbr"] = @ + (IF Issuing THEN 1 ELSE 0)]
      /\ dfid' = dfid + amount
      /\ UNCHANGED <<users, totalStakedRaw, stakeScalingFactor, stakeResetSnapshots, now, eth, minted,
                     canReceive, calls>>
  BY ZenonT(30) DEF AddReward
<1>2. TypeOK /\ IssuedInTime
  BY DEF Inv
<1>3. share \in Nat /\ rest \in Nat
  BY <1>1, <1>2, DistributionType DEF Currencies
<1>4. more \in Amounts
  BY <1>3 DEF Nothing, Amounts
<1> HIDE DEF share, rest, more
<1>5. issuance' \in Issuance /\ perToken' \in Amounts /\ IssuedInTime'
  BY <1>1, <1>2, <1>4, IssuanceStep
<1>6. LossWithSBR \in Nat
  BY <1>2, IssuedType
<1>7. loss' \in Amounts
  BY <1>1, <1>2, <1>3, <1>6 DEF TypeOK, Amounts
<1>8. roundings' \in Amounts
  BY <1>1, <1>2 DEF TypeOK, Amounts, Currencies
<1>9. TypeOK'
  BY <1>1, <1>2, <1>5, <1>7, <1>8 DEF TypeOK
<1>10. EpochsPast' /\ AmountsAsked' /\ FlagTellsStakers'
  BY <1>1 DEF Inv, EpochsPast, AmountsAsked, FlagTellsStakers, stakeResetCount
<1>11. QED
  BY <1>5, <1>9, <1>10 DEF Inv

\* The amount of one currency grows.
LEMMA AmountGrows ==
  ASSUME NEW f \in Amounts, NEW c \in Currencies, NEW n \in Nat
  PROVE  [f EXCEPT ![c] = @ + n] \in Amounts /\ [f EXCEPT ![c] = n] \in Amounts
<1>1. f[c] + n \in Nat
  BY DEF Amounts
<1>2. QED
  BY <1>1 DEF Amounts

LEMMA AddCollateralRewardStep ==
  ASSUME Inv, NEW amount \in Nat, AddCollateralReward(amount)
  PROVE  Inv'
<1>1. /\ eth' = eth + amount
      /\ UNCHANGED <<users, totalStakedRaw, stakeScalingFactor, stakeResetSnapshots, issuance, now,
                     dfid, minted, canReceive, calls>>
  BY DEF AddCollateralReward
<1>2. TypeOK
  BY DEF Inv
<1>3. perToken' \in Amounts /\ loss' \in Amounts /\ roundings' \in Amounts
  <2>1. CASE totalStakedRaw > 0
    <3> DEFINE share == PerToken("eth", amount)
               rest  == LossAfter("eth", amount)
    <3>1. share \in Nat /\ rest \in Nat
      BY <1>2, <2>1, DistributionType DEF Currencies
    <3>2. /\ perToken' = [perToken EXCEPT !["eth"] = @ + share]
          /\ loss' = [loss EXCEPT !["eth"] = rest]
          /\ roundings' = [roundings EXCEPT !["eth"] = @ + 1]
      BY <2>1 DEF AddCollateralReward
    <3> HIDE DEF share, rest
    <3>3. /\ perToken \in Amounts /\ loss \in Amounts /\ roundings \in Amounts
          /\ "eth" \in Currencies
      BY <1>2 DEF TypeOK, Currencies
    <3>4. QED
      BY <3>1, <3>2, <3>3, AmountGrows
  <2>2. CASE ~(totalStakedRaw > 0)
    BY <1>2, <2>2 DEF AddCollateralReward, TypeOK
  <2>3. QED
    BY <2>1, <2>2
<1>4. TypeOK'
  BY <1>1, <1>2, <1>3 DEF TypeOK
<1>5. EpochsPast' /\ AmountsAsked' /\ IssuedInTime' /\ FlagTellsStakers'
  BY <1>1 DEF Inv, EpochsPast, AmountsAsked, IssuedInTime, FlagTellsStakers, stakeResetCount
<1>6. QED
  BY <1>4, <1>5 DEF Inv

\* A liquidation shrinks the factor, or starts an epoch, in which no stake can
\* be yet; the flag falls with the last stake.
LEMMA PerformLiquidationStep ==
  ASSUME Inv, NEW amount \in Nat \ {0}, NEW collateral \in Nat,
         PerformLiquidation(amount, collateral)
  PROVE  Inv'
<1> DEFINE factor   == ScaledDown(amount)
           share    == PerToken("eth", collateral)
           rest     == LossAfter("eth", collateral)
           credited == [perToken EXCEPT !["eth"] = @ + share]
           reset    == [scalingFactor |-> factor, perToken |-> credited]
<1>1. /\ amount <= totalStakedRaw /\ amount <= dfid
      /\ loss' = [loss EXCEPT !["eth"] = rest]
      /\ roundings' = [roundings EXCEPT !["eth"] = @ + 1]
      /\ totalStakedRaw' = totalStakedRaw - amount
      /\ canReceive' = (canReceive /\ ~(totalStakedRaw = amount /\ rewardSenderActive))
      /\ dfid' = dfid - amount
      /\ eth' = eth + collateral
      /\ UNCHANGED <<users, issuance, now, minted, calls>>
  BY ZenonT(30) DEF PerformLiquidation
<1>2. \/ /\ factor >= minimumScalingFactor
         /\ stakeScalingFactor' = factor
         /\ perToken' = credited
         /\ UNCHANGED stakeResetSnapshots
      \/ /\ factor < minimumScalingFactor
         /\ stakeResetSnapshots' = Append(stakeResetSnapshots, reset)
         /\ stakeScalingFactor' = PRECISION
         /\ perToken' = Nothing
  BY ZenonT(30) DEF PerformLiquidation
<1>3. TypeOK /\ totalStakedRaw \in Nat \ {0} /\ dfid \in Nat /\ eth \in Nat /\ canReceive \in BOOLEAN
  BY <1>1 DEF Inv, TypeOK
<1>4. share \in Nat /\ rest \in Nat
  BY <1>3, DistributionType DEF Currencies
<1>5. factor \in 0 .. stakeScalingFactor
  BY <1>1, <1>3, FactorPositive, ScaledDownType DEF ScaledDown
<1> HIDE DEF share, rest, factor
<1>6. credited \in Amounts /\ loss' \in Amounts /\ roundings' \in Amounts /\ Nothing \in Amounts
  <2>1. /\ perToken \in Amounts /\ loss \in Amounts /\ roundings \in Amounts
        /\ "eth" \in Currencies
    BY <1>3 DEF TypeOK, Currencies
  <2>2. Nothing \in Amounts
    BY DEF Nothing, Amounts
  <2>3. QED
    BY <1>1, <1>4, <2>1, <2>2, AmountGrows
<1> HIDE DEF credited
<1>7. factor \in Nat /\ factor <= PRECISION
  BY <1>3, <1>5, FactorPositive
<1>8. reset \in Snapshot
  BY <1>6, <1>7 DEF Snapshot
<1> HIDE DEF reset
<1>9. stakeResetSnapshots \in Seq(Snapshot) /\ minimumScalingFactor \in 1 .. PRECISION
  BY <1>3, StabilityPoolAssumption DEF TypeOK
<1>10. /\ stakeScalingFactor' \in minimumScalingFactor .. PRECISION
       /\ perToken' \in Amounts
       /\ stakeResetSnapshots' \in Seq(Snapshot)
       /\ stakeResetCount' >= stakeResetCount /\ stakeResetCount \in Nat /\ stakeResetCount' \in Nat
  <2>1. CASE UNCHANGED stakeResetSnapshots /\ factor >= minimumScalingFactor
              /\ stakeScalingFactor' = factor /\ perToken' = credited
    BY <1>6, <1>7, <1>9, <2>1, FactorPositive, <1>3 DEF stakeResetCount
  <2>2. CASE /\ stakeResetSnapshots' = Append(stakeResetSnapshots, reset)
             /\ stakeScalingFactor' = PRECISION /\ perToken' = Nothing
    BY <1>6, <1>8, <1>9, <2>2, FactorPositive, <1>3 DEF stakeResetCount
  <2>3. QED
    BY <1>2, <2>1, <2>2
<1>11. totalStakedRaw' \in Nat /\ dfid' \in Nat /\ eth' \in Nat /\ canReceive' \in BOOLEAN
  BY <1>1, <1>3
<1>12. TypeOK'
  BY <1>1, <1>6, <1>10, <1>11 DEF Inv, TypeOK
<1>13. EpochsPast'
  <2>1. \A u \in Users : users[u].stakeResetCount \in Nat /\ users[u].stakeResetCount <= stakeResetCount
    BY <1>3 DEF Inv, EpochsPast, TypeOK, UserInfo
  <2>2. QED
    BY <1>1, <1>10, <2>1 DEF EpochsPast
<1>14. AmountsAsked' /\ IssuedInTime'
  BY <1>1 DEF Inv, AmountsAsked, IssuedInTime
<1>15. FlagTellsStakers'
  <2> SUFFICES ASSUME rewardSenderActive PROVE canReceive' <=> totalStakedRaw' > 0
    BY DEF FlagTellsStakers
  <2>1. canReceive <=> totalStakedRaw > 0
    BY DEF Inv, FlagTellsStakers
  <2>2. totalStakedRaw > 0
    BY <1>3
  <2>3. totalStakedRaw = amount <=> ~(totalStakedRaw' > 0)
    BY <1>1, <1>3
  <2>4. QED
    BY <1>1, <2>1, <2>2, <2>3
<1>16. QED
  BY <1>12, <1>13, <1>14, <1>15 DEF Inv

LEMMA TickStep ==
  ASSUME Inv, Tick
  PROVE  Inv'
<1>1. now \in Nat /\ now' = now + 1
  BY DEF Tick, Inv, TypeOK
<1>2. UNCHANGED <<users, totalStakedRaw, perToken, loss, stakeScalingFactor, stakeResetSnapshots,
                  issuance, dfid, eth, minted, canReceive, calls, roundings>>
  BY DEF Tick
<1>3. TypeOK'
  BY <1>1, <1>2 DEF Inv, TypeOK
<1>4. issuance.last \in Nat
  BY DEF Inv, TypeOK, Issuance
<1>5. IssuedInTime'
  BY <1>1, <1>2, <1>4 DEF Inv, IssuedInTime
<1>6. EpochsPast' /\ AmountsAsked' /\ FlagTellsStakers'
  BY <1>2 DEF Inv, EpochsPast, AmountsAsked, FlagTellsStakers, stakeResetCount
<1>7. QED
  BY <1>3, <1>5, <1>6 DEF Inv

LEMMA InvStep == Inv /\ [Next]_poolVars => Inv'
<1> SUFFICES ASSUME Inv, [Next]_poolVars PROVE Inv'
  OBVIOUS
<1> USE StabilityPoolAssumption
<1>1. CASE UserCall
  <2>1. \A n \in StakeAmounts : n \in Nat
    OBVIOUS
  <2>2. QED
    BY <1>1, <2>1, TransactStep, BeginCallStep DEF UserCall
<1>2. CASE Distribution
  <2>1. /\ \A n \in RewardAmounts : n \in Nat
        /\ \A n \in CollateralAmounts : n \in Nat
        /\ \A n \in LiquidationAmounts : n \in Nat \ {0}
    OBVIOUS
  <2>2. QED
    BY <1>2, <2>1, AddRewardStep, AddCollateralRewardStep, PerformLiquidationStep DEF Distribution
<1>3. CASE Tick
  BY <1>3, TickStep
<1>4. CASE \E op \in {"stake", "unstake", "claim"} : FinishCall(op)
  BY <1>4, FinishCallStep
<1>5. CASE UNCHANGED poolVars
  BY <1>5 DEF poolVars, Inv, TypeOK, EpochsPast, AmountsAsked, IssuedInTime, FlagTellsStakers,
              stakeResetCount
<1>6. QED
  BY <1>1, <1>2, <1>3, <1>4, <1>5 DEF Next

LEMMA Invariance == Spec => []Inv
BY InvInit, InvStep, PTL DEF Spec

-----------------------------------------------------------------------------
(* The theorems. *)

\* No stake, share, total or balance of StabilityPool is ever negative: every
\* checked subtraction that the contract relies on has room.
THEOREM TypeCorrect == Spec => []TypeOK
<1>1. Inv => TypeOK
  BY DEF Inv
<1>2. QED
  BY <1>1, Invariance, PTL

\* StableBaseCDP's flag (stabilityPoolCanReceiveRewards) tells whether the pool
\* has a stake, after stakes, unstakes, liquidations that burn all of it and any
\* nesting of these in the payments of a stake or an unstake.
THEOREM FlagIsExact == Spec => []FlagTellsStakers
<1>1. Inv => FlagTellsStakers
  BY DEF Inv
<1>2. QED
  BY <1>1, Invariance, PTL
-----------------------------------------------------------------------------
(***************************************************************************)
(* What the pool owes its stakers is covered, until a lapse.               *)
(*                                                                         *)
(* In real numbers the shares add up exactly; in integers every quotient   *)
(* is rounded down, in another place each time.  The invariant therefore   *)
(* says that there are numbers q[u] / d and p[u] / d, of a common          *)
(* denominator d, that bound user u's stake and pending reward from above  *)
(* and whose sums fit into what the pool has.  A distribution multiplies d *)
(* by the scaling factor and a liquidation by the total, so that the new   *)
(* numbers are integers again.                                             *)
(***************************************************************************)

\* The code looks at a user's own epoch and the next one.
Live(user) == user.stakeResetCount + 1 >= stakeResetCount

\* A live user's stake is  Weight * stakeScalingFactor / Unit,  before rounding,
\* and what a currency has gained for it  Gained / Unit.
Unit(user) == user.cumulativeProductScalingFactor * PRECISION

Weight(user) ==
  user.stake * (IF user.stakeResetCount = stakeResetCount THEN PRECISION
                                                          ELSE FactorOf(user.stakeResetCount))

Gained(user, c, current) ==
  Gain(user, c, current) * (user.stake * PRECISION)
    + (IF user.stakeResetCount = stakeResetCount THEN 0 ELSE current[c] * Weight(user))

StakeCovered(user, d, x) ==
  user.cumulativeProductScalingFactor # 0 =>
    IF Live(user) THEN (Weight(user) * stakeScalingFactor) * d <= x * Unit(user)
                  ELSE EffectiveStake(user) * d <= x

GainCovered(user, c, current, d, x) ==
  user.cumulativeProductScalingFactor # 0 /\ ~(c = "sbr" /\ user.sbrClaimed) =>
    IF Live(user) THEN Gained(user, c, current) * d <= x * Unit(user)
                  ELSE Pending(user, c, current) * d <= x

Shares == [Users -> Nat]

\* q bounds the stakes, and its sum is at most the total.
CoversStakes(d, q) ==
  /\ d \in Nat \ {0} /\ q \in Shares
  /\ Sum(q, MaxUser) <= totalStakedRaw * d
  /\ \A u \in Users : StakeCovered(users[u], d, q[u])

\* p bounds what is pending in c, and its sum and the rest are at most funds.
CoversGains(c, current, rest, funds, d, p) ==
  /\ d \in Nat \ {0} /\ p \in Shares
  /\ Sum(p, MaxUser) + rest * d <= funds * d
  /\ \A u \in Users : GainCovered(users[u], c, current, d, p[u])

-----------------------------------------------------------------------------
(* Arithmetic. *)

\* The quotient rounds down also if the dividend is negative.
LEMMA QuotientRoundsDown ==
  ASSUME NEW x \in Int, NEW p \in Nat \ {0}
  PROVE  x \div p \in Int /\ p * (x \div p) <= x
OBVIOUS

\* An inequality can be multiplied.
LEMMA MultiplyBy ==
  ASSUME NEW a \in Int, NEW b \in Int, NEW n \in Nat, a <= b
  PROVE  a * n <= b * n /\ n * a <= n * b /\ a * n \in Int /\ b * n \in Int
OBVIOUS

\* A product may be rearranged.
LEMMA Rearranged ==
  ASSUME NEW a \in Int, NEW b \in Int, NEW n \in Int
  PROVE  /\ (a * b) * n = (a * n) * b /\ (a * b) * n = a * (b * n) /\ a * b = b * a
         /\ a * b \in Int /\ (a * b) * n \in Int
OBVIOUS

\* Multiplication distributes over subtraction.
LEMMA MultiplyDifference ==
  ASSUME NEW a \in Int, NEW b \in Int, NEW n \in Int
  PROVE  (a - b) * n = a * n - b * n
OBVIOUS

\* From a bound in units to a bound.
LEMMA BoundInUnits ==
  ASSUME NEW a \in Int, NEW b \in Int, NEW u \in Nat \ {0}, NEW d \in Nat, NEW x \in Int,
         a * u <= b, b * d <= x * u
  PROVE  a * d <= x
<1>1. (a * u) * d <= b * d
  BY MultiplyBy, Rearranged
<1>2. (a * d) * u <= x * u
  BY <1>1, Rearranged
<1>3. u * (a * d) <= u * x
  BY <1>2, Rearranged
<1>4. QED
  BY <1>3, CancelFactor, Rearranged

-----------------------------------------------------------------------------
(* The bounds hold for what the code computes. *)

\* The parts of a user's record.
LEMMA UserParts ==
  ASSUME TypeOK, NEW user \in UserInfo, user.stakeResetCount <= stakeResetCount
  PROVE  /\ user.stake \in Nat /\ user.stakeResetCount \in Nat /\ stakeResetCount \in Nat
         /\ user.cumulativeProductScalingFactor \in Nat
         /\ FactorOf(user.stakeResetCount) \in Nat
         /\ Weight(user) \in Nat /\ Unit(user) \in Nat
         /\ user.cumulativeProductScalingFactor # 0 => Unit(user) \in Nat \ {0}
<1>1. /\ user.stake \in Nat /\ user.stakeResetCount \in Nat /\ stakeResetCount \in Nat
      /\ user.cumulativeProductScalingFactor \in Nat
  BY DEF UserInfo, stakeResetCount, TypeOK
<1>2. Nothing \in Amounts /\ "eth" \in Currencies
  BY DEF Nothing, Amounts, Currencies
<1>3. FactorOf(user.stakeResetCount) \in Nat
  BY <1>1, <1>2, EpochType
<1>4. PRECISION \in Nat \ {0}
  BY FactorPositive
<1>5. Weight(user) \in Nat
  BY <1>1, <1>3, <1>4, ProductType DEF Weight
<1>6. Unit(user) \in Nat
  BY <1>1, <1>4, ProductType DEF Unit
<1>7. user.cumulativeProductScalingFactor # 0 => Unit(user) # 0
  BY <1>1, <1>4 DEF Unit
<1>8. QED
  BY <1>1, <1>3, <1>5, <1>6, <1>7

\* A stake over two epochs, rounded twice, is at most what it is before rounding.
LEMMA TwoEpochs ==
  ASSUME NEW s \in Nat, NEW F \in Nat, NEW f \in Nat \ {0}, NEW S \in Nat, NEW P \in Nat \ {0}
  PROVE  LET e == (((s * F) \div f) * S) \div P
         IN  e \in Nat /\ e * (f * P) <= (s * F) * S
<1> DEFINE y == (s * F) \div f
           e == (y * S) \div P
<1>1. y \in Nat /\ f * y <= s * F
  BY DivisionRoundsDown, ProductType
<1> HIDE DEF y
<1>2. e \in Nat /\ P * e <= y * S
  BY <1>1, DivisionRoundsDown, ProductType
<1> HIDE DEF e
<1>3. (P * e) * f <= (y * S) * f
  BY <1>1, <1>2, MultiplyBy, ProductType
<1>4. (f * y) * S <= (s * F) * S
  BY <1>1, MultiplyBy, ProductType
<1>5. (y * S) * f = (f * y) * S /\ (P * e) * f = e * (f * P)
  BY <1>1, <1>2
<1>6. e * (f * P) <= (s * F) * S
  BY <1>1, <1>2, <1>3, <1>4, <1>5
<1>7. QED
  BY <1>2, <1>6 DEF e, y

\* A live user's stake, in units, is at most its weight times the scaling factor.
LEMMA StakeInUnits ==
  ASSUME TypeOK, NEW user \in UserInfo, user.stakeResetCount <= stakeResetCount,
         user.cumulativeProductScalingFactor # 0, Live(user)
  PROVE  EffectiveStake(user) * Unit(user) <= Weight(user) * stakeScalingFactor
<1> DEFINE s == user.stake
           f == user.cumulativeProductScalingFactor
           n == user.stakeResetCount
           F == FactorOf(n)
           S == stakeScalingFactor
           P == PRECISION
           E == EffectiveStake(user)
<1>1. s \in Nat /\ f \in Nat \ {0} /\ F \in Nat /\ S \in Nat \ {0} /\ P \in Nat \ {0}
      /\ n \in Nat /\ stakeResetCount \in Nat
  BY UserParts, FactorPositive
<1>2. CASE n = stakeResetCount
  <2>1. E = (s * S) \div f
    BY <1>2 DEF EffectiveStake, Scaled, FactorOf
  <2>2. s * S \in Nat
    BY <1>1, ProductType
  <2>3. E \in Nat /\ f * E <= s * S
    BY <1>1, <2>1, <2>2, DivisionRoundsDown
  <2>4. Unit(user) = f * P /\ Weight(user) = s * P
    BY <1>2 DEF Unit, Weight
  <2> HIDE DEF s, f, F, S, P, E, n
  <2>5. (f * E) * P <= (s * S) * P
    BY <1>1, <2>2, <2>3, MultiplyBy, ProductType
  <2>6. E * (f * P) <= (s * P) * S
    BY <1>1, <2>3, <2>5, Rearranged
  <2>7. QED
    BY <2>4, <2>6 DEF E, S
<1>3. CASE n # stakeResetCount
  <2> DEFINE y == Scaled(user)
  <2>1. n + 1 = stakeResetCount
    BY <1>1, <1>3 DEF Live
  <2>2. FactorOf(n + 1) = S
    BY <2>1 DEF FactorOf
  <2>3. E = (y * S) \div P /\ y = (s * F) \div f
    BY <1>3, <2>2 DEF EffectiveStake, Scaled
  <2>4. Unit(user) = f * P /\ Weight(user) = s * F
    BY <1>3 DEF Unit, Weight
  <2>5. E = (((s * F) \div f) * S) \div P
    BY <2>3
  <2> HIDE DEF s, f, F, S, P, E, n, y
  <2>6. E * (f * P) <= (s * F) * S
    BY <1>1, <2>5, TwoEpochs
  <2>7. QED
    BY <2>4, <2>6 DEF E, S
<1>4. QED
  BY <1>2, <1>3

\* What a live user has pending, in units, is at most what was gained for it.
LEMMA PendingInUnits ==
  ASSUME TypeOK, NEW user \in UserInfo, user.stakeResetCount <= stakeResetCount,
         NEW current \in Amounts, NEW c \in Currencies,
         user.cumulativeProductScalingFactor # 0, ~(c = "sbr" /\ user.sbrClaimed), Live(user)
  PROVE  /\ Pending(user, c, current) \in Int /\ Gained(user, c, current) \in Int
         /\ Pending(user, c, current) * Unit(user) <= Gained(user, c, current)
<1> DEFINE s == user.stake
           f == user.cumulativeProductScalingFactor
           n == user.stakeResetCount
           F == FactorOf(n)
           P == PRECISION
           G == Gain(user, c, current)
           first == (G * s) \div f
<1>1. s \in Nat /\ f \in Nat \ {0} /\ F \in Nat /\ P \in Nat \ {0}
      /\ n \in Nat /\ stakeResetCount \in Nat
  BY UserParts, FactorPositive
<1>2. G \in Int
  <2>1. PerTokenOf(n, c, current) \in Nat /\ user.snapshot[c] \in Nat
    BY <1>1, EpochType DEF UserInfo, Amounts
  <2>2. QED
    BY <2>1 DEF Gain
<1>3. first \in Int /\ f * first <= G * s /\ G * s \in Int
  <2> HIDE DEF s, f, G
  <2>1. G * s \in Int
    BY <1>1, <1>2
  <2>2. QED
    BY <1>1, <2>1, QuotientRoundsDown
<1>4. first * (f * P) <= G * (s * P) /\ G * (s * P) \in Int
  <2> HIDE DEF s, f, G, P, first
  <2>1. (f * first) * P <= (G * s) * P
    BY <1>1, <1>3, MultiplyBy
  <2>2. QED
    BY <1>1, <1>2, <1>3, <2>1, Rearranged
<1>5. CASE n = stakeResetCount
  <2>1. Pending(user, c, current) = first + 0
    BY <1>5 DEF Pending
  <2>2. Gained(user, c, current) = G * (s * P) + 0 /\ Unit(user) = f * P
    BY <1>5 DEF Gained, Unit
  <2> HIDE DEF s, f, G, P, first
  <2>3. Pending(user, c, current) = first /\ Gained(user, c, current) = G * (s * P)
    BY <1>3, <1>4, <2>1, <2>2
  <2>4. QED
    BY <1>3, <1>4, <2>2, <2>3
<1>6. CASE n # stakeResetCount
  <2> DEFINE y == Scaled(user)
             a == current[c]
             second == (a * y) \div P
             more == a * Weight(user)
  <2>1. n + 1 = stakeResetCount
    BY <1>1, <1>6 DEF Live
  <2>2. PerTokenOf(n + 1, c, current) = a
    BY <2>1 DEF PerTokenOf
  <2>3. Pending(user, c, current) = first + second
    BY <1>6, <2>2 DEF Pending
  <2>4. Gained(user, c, current) = G * (s * P) + more /\ Unit(user) = f * P
    BY <1>6 DEF Gained, Unit
  <2>5. Weight(user) = s * F
    BY <1>6 DEF Weight
  <2>6. y = (s * F) \div f /\ a \in Nat
    BY DEF Scaled, Amounts
  <2> HIDE DEF s, f, F, G, P, n, y, a, first
  <2>7. y \in Nat /\ f * y <= s * F
    BY <1>1, <2>6, DivisionRoundsDown, ProductType
  <2>8. second \in Nat /\ P * second <= a * y
    BY <1>1, <2>6, <2>7, DivisionRoundsDown, ProductType
  <2> HIDE DEF second
  <2>9. (P * second) * f <= (a * y) * f
    BY <1>1, <2>6, <2>7, <2>8, MultiplyBy, ProductType
  <2>10. (f * y) * a <= (s * F) * a
    BY <1>1, <2>6, <2>7, MultiplyBy, ProductType
  <2>11. (a * y) * f = (f * y) * a /\ (P * second) * f = second * (f * P)
    BY <1>1, <2>6, <2>7, <2>8
  <2>12. second * (f * P) <= more /\ more \in Nat /\ second * (f * P) \in Nat
    <3>1. more = (s * F) * a
      BY <1>1, <2>5, <2>6
    <3>2. s * F \in Nat /\ f * P \in Nat
      BY <1>1, ProductType
    <3>3. (s * F) * a \in Nat /\ second * (f * P) \in Nat
      BY <2>6, <2>8, <3>2, ProductType
    <3>4. (a * y) * f \in Nat
      BY <1>1, <2>6, <2>7, ProductType
    <3> HIDE DEF more
    <3>5. QED
      BY <2>9, <2>10, <2>11, <3>1, <3>3, <3>4
  <2> HIDE DEF more
  <2>13. (first + second) * (f * P) = first * (f * P) + second * (f * P)
    BY <1>1, <1>3, <2>8
  <2>14. first * (f * P) \in Int
    BY <1>1, <1>3
  <2>15. first + second \in Int /\ G * (s * P) + more \in Int
    BY <1>3, <1>4, <2>8, <2>12
  <2>16. (first + second) * (f * P) <= G * (s * P) + more
    BY <1>4, <2>12, <2>13, <2>14
  <2>17. QED
    BY <2>3, <2>4, <2>15, <2>16
<1>7. QED
  BY <1>5, <1>6

\* What any user has pending is an integer.
LEMMA PendingIsInt ==
  ASSUME TypeOK, NEW user \in UserInfo, user.stakeResetCount <= stakeResetCount,
         NEW current \in Amounts, NEW c \in Currencies
  PROVE  Pending(user, c, current) \in Int
<1> SUFFICES ASSUME user.cumulativeProductScalingFactor # 0, ~(c = "sbr" /\ user.sbrClaimed)
             PROVE  Pending(user, c, current) \in Int
  BY DEF Pending
<1> DEFINE n == user.stakeResetCount
           f == user.cumulativeProductScalingFactor
           G == Gain(user, c, current)
           first == (G * user.stake) \div f
           second == (PerTokenOf(n + 1, c, current) * Scaled(user)) \div PRECISION
<1>1. /\ user.stake \in Nat /\ f \in Nat \ {0} /\ n \in Nat /\ stakeResetCount \in Nat
      /\ PRECISION \in Nat \ {0}
  BY UserParts, FactorPositive
<1>2. first \in Int
  <2>1. PerTokenOf(n, c, current) \in Nat /\ user.snapshot[c] \in Nat
    BY <1>1, EpochType DEF UserInfo, Amounts
  <2>2. G \in Int
    BY <2>1 DEF Gain
  <2> HIDE DEF G, f
  <2>3. G * user.stake \in Int
    BY <1>1, <2>2
  <2>4. QED
    BY <1>1, <2>3, QuotientRoundsDown
<1>3. n # stakeResetCount => second \in Int
  <2> SUFFICES ASSUME n # stakeResetCount PROVE second \in Int
    OBVIOUS
  <2>1. PerTokenOf(n + 1, c, current) \in Nat /\ Scaled(user) \in Nat
    BY <1>1, EpochType, EffectiveStakeType
  <2>2. PerTokenOf(n + 1, c, current) * Scaled(user) \in Nat
    BY <2>1, ProductType
  <2>3. QED
    BY <1>1, <2>2, QuotientType
<1>4. Pending(user, c, current) = first + (IF n = stakeResetCount THEN 0 ELSE second)
  BY DEF Pending
<1> HIDE DEF first, second
<1>5. QED
  BY <1>2, <1>3, <1>4

\* A number that covers a stake bounds it.
LEMMA StakeBound ==
  ASSUME TypeOK, NEW user \in UserInfo, user.stakeResetCount <= stakeResetCount,
         user.cumulativeProductScalingFactor = 0 => user.stake = 0,
         NEW d \in Nat, NEW x \in Nat, StakeCovered(user, d, x)
  PROVE  EffectiveStake(user) \in Nat /\ EffectiveStake(user) * d <= x
<1>1. EffectiveStake(user) \in Nat
  BY EffectiveStakeType
<1>2. CASE user.cumulativeProductScalingFactor = 0
  <2>1. EffectiveStake(user) = 0
    BY <1>2 DEF EffectiveStake
  <2>2. QED
    BY <2>1
<1>3. CASE user.cumulativeProductScalingFactor # 0 /\ Live(user)
  <2> DEFINE b == Weight(user) * stakeScalingFactor
  <2>1. Unit(user) \in Nat \ {0} /\ Weight(user) \in Nat /\ stakeScalingFactor \in Nat
    BY <1>3, UserParts, FactorPositive
  <2>2. b \in Int
    BY <2>1
  <2>3. EffectiveStake(user) * Unit(user) <= b
    BY <1>3, StakeInUnits
  <2>4. b * d <= x * Unit(user)
    BY <1>3 DEF StakeCovered
  <2> HIDE DEF b
  <2>5. QED
    BY <1>1, <2>1, <2>2, <2>3, <2>4, BoundInUnits
<1>4. CASE user.cumulativeProductScalingFactor # 0 /\ ~Live(user)
  BY <1>1, <1>4 DEF StakeCovered
<1>5. QED
  BY <1>2, <1>3, <1>4, <1>1

\* A number that covers what a user has gained bounds what is pending.
LEMMA PendingBound ==
  ASSUME TypeOK, NEW user \in UserInfo, user.stakeResetCount <= stakeResetCount,
         NEW current \in Amounts, NEW c \in Currencies,
         NEW d \in Nat, NEW x \in Nat, GainCovered(user, c, current, d, x)
  PROVE  Pending(user, c, current) \in Int /\ Pending(user, c, current) * d <= x
<1>1. Pending(user, c, current) \in Int
  BY PendingIsInt
<1>2. CASE user.cumulativeProductScalingFactor = 0 \/ (c = "sbr" /\ user.sbrClaimed)
  <2>1. Pending(user, c, current) = 0
    BY <1>2 DEF Pending
  <2>2. QED
    BY <2>1
<1> DEFINE counts == user.cumulativeProductScalingFactor # 0 /\ ~(c = "sbr" /\ user.sbrClaimed)
<1>3. CASE counts /\ Live(user)
  <2>1. Unit(user) \in Nat \ {0}
    BY <1>3, UserParts
  <2>2. /\ Gained(user, c, current) \in Int
        /\ Pending(user, c, current) * Unit(user) <= Gained(user, c, current)
    BY <1>3, PendingInUnits
  <2>3. Gained(user, c, current) * d <= x * Unit(user)
    BY <1>3 DEF GainCovered
  <2>4. QED
    BY <1>1, <2>1, <2>2, <2>3, BoundInUnits
<1>4. CASE counts /\ ~Live(user)
  BY <1>1, <1>4 DEF GainCovered
<1>5. QED
  BY <1>1, <1>2, <1>3, <1>4

\* A stake that was never made is nothing.
NewUsersEmpty ==
  \A u \in Users : users[u].cumulativeProductScalingFactor = 0 => users[u].stake = 0

\* If something covers the stakes, they fit.
LEMMA StakesFit ==
  ASSUME TypeOK, EpochsPast, NewUsersEmpty, NEW d, NEW q, CoversStakes(d, q)
  PROVE  StakesWithinTotal
<1> DEFINE e == [u \in Users |-> EffectiveStake(users[u])]
<1>1. /\ d \in Nat \ {0} /\ q \in [1 .. MaxUser -> Int] /\ MaxUser \in Nat
      /\ Sum(q, MaxUser) <= totalStakedRaw * d /\ totalStakedRaw \in Int
  BY StabilityPoolAssumption DEF CoversStakes, Shares, Users, TypeOK
<1>2. \A u \in Users : EffectiveStake(users[u]) \in Nat /\ EffectiveStake(users[u]) * d <= q[u]
  <2> TAKE u \in Users
  <2>1. /\ users[u] \in UserInfo /\ users[u].stakeResetCount <= stakeResetCount
        /\ users[u].cumulativeProductScalingFactor = 0 => users[u].stake = 0
        /\ q[u] \in Nat /\ StakeCovered(users[u], d, q[u])
    BY DEF TypeOK, EpochsPast, NewUsersEmpty, CoversStakes, Shares
  <2>2. QED
    BY <1>1, <2>1, StakeBound
<1>3. /\ e \in [1 .. MaxUser -> Int] /\ EffectiveTotal = Sum(e, MaxUser)
      /\ \A u \in 1 .. MaxUser : e[u] * d <= q[u]
  BY <1>2 DEF EffectiveTotal, Users
<1> HIDE DEF e
<1>4. Sum(e, MaxUser) <= totalStakedRaw
  BY <1>1, <1>3, SumOfQuotients
<1>5. QED
  BY <1>3, <1>4 DEF StakesWithinTotal

\* If something covers what the users have gained, what is pending fits.
LEMMA GainsFit ==
  ASSUME TypeOK, EpochsPast, NEW c \in Currencies, NEW rest \in Nat, NEW funds \in Int,
         NEW d, NEW p, CoversGains(c, perToken, rest, funds, d, p)
  PROVE  PendingTotal(c) \in Int /\ PendingTotal(c) <= funds
<1> DEFINE e == [u \in Users |-> PendingNow(u, c)]
<1>1. /\ d \in Nat \ {0} /\ p \in [1 .. MaxUser -> Int] /\ MaxUser \in Nat
      /\ Sum(p, MaxUser) + rest * d <= funds * d
  BY StabilityPoolAssumption DEF CoversGains, Shares, Users
<1>2. \A u \in Users : PendingNow(u, c) \in Int /\ PendingNow(u, c) * d <= p[u]
  <2> TAKE u \in Users
  <2>1. /\ users[u] \in UserInfo /\ users[u].stakeResetCount <= stakeResetCount
        /\ p[u] \in Nat /\ GainCovered(users[u], c, perToken, d, p[u]) /\ perToken \in Amounts
    BY DEF TypeOK, EpochsPast, CoversGains, Shares
  <2>2. QED
    BY <1>1, <2>1, PendingBound DEF PendingNow
<1>3. /\ e \in [1 .. MaxUser -> Int] /\ PendingTotal(c) = Sum(e, MaxUser)
      /\ \A u \in 1 .. MaxUser : e[u] * d <= p[u]
  BY <1>2 DEF PendingTotal, Users
<1> HIDE DEF e
<1>4. Sum(p, MaxUser) \in Int /\ Sum(e, MaxUser) \in Int
  BY <1>1, <1>3, SumType
<1>5. rest * d \in Nat /\ funds * d \in Int
  BY <1>1
<1>6. Sum(p, MaxUser) <= funds * d
  BY <1>1, <1>4, <1>5
<1>7. Sum(e, MaxUser) <= funds
  BY <1>1, <1>3, <1>6, SumOfQuotients
<1>8. QED
  BY <1>3, <1>4, <1>7

-----------------------------------------------------------------------------
(* Distributing an amount. *)

\* A remainder is less than the divisor.
LEMMA DivisionRest ==
  ASSUME NEW x \in Nat, NEW p \in Nat \ {0}
  PROVE  x \div p \in Nat /\ x <= p * (x \div p) + p
OBVIOUS

\* A common denominator can be multiplied.
LEMMA StakeScaled ==
  ASSUME TypeOK, NEW user \in UserInfo, user.stakeResetCount <= stakeResetCount,
         NEW d \in Nat, NEW x \in Nat, NEW n \in Nat, StakeCovered(user, d, x)
  PROVE  StakeCovered(user, d * n, n * x)
<1> SUFFICES ASSUME user.cumulativeProductScalingFactor # 0
             PROVE  StakeCovered(user, d * n, n * x)
  BY DEF StakeCovered
<1> DEFINE a == IF Live(user) THEN Weight(user) * stakeScalingFactor ELSE EffectiveStake(user)
           b == IF Live(user) THEN x * Unit(user) ELSE x
<1>1. Weight(user) \in Nat /\ stakeScalingFactor \in Nat /\ Unit(user) \in Nat
  BY UserParts, FactorPositive
<1>2. a \in Nat
  <2>1. Weight(user) * stakeScalingFactor \in Nat
    BY <1>1, ProductType
  <2>2. EffectiveStake(user) \in Nat
    BY EffectiveStakeType
  <2>3. QED
    BY <2>1, <2>2
<1>3. b \in Nat
  BY <1>1, ProductType
<1>4. a * d <= b
  BY DEF StakeCovered
<1>5. (n * x) * Unit(user) = n * (x * Unit(user))
  BY <1>1, Rearranged
<1>6. n * b = IF Live(user) THEN (n * x) * Unit(user) ELSE n * x
  BY <1>5
<1>7. StakeCovered(user, d * n, n * x) <=> a * (d * n) <= n * b
  BY <1>6 DEF StakeCovered
<1> HIDE DEF a, b
<1>8. a * d \in Int /\ a * (d * n) = (a * d) * n
  BY <1>2, Rearranged
<1>9. (a * d) * n <= n * b
  BY <1>3, <1>4, <1>8, MultiplyBy, Rearranged
<1>10. QED
  BY <1>7, <1>8, <1>9

\* A currency gains n per token: a live user, its weight times n; another, nothing.
LEMMA GainGrows ==
  ASSUME TypeOK, NEW user \in UserInfo, user.stakeResetCount <= stakeResetCount,
         NEW c \in Currencies, NEW current \in Amounts, NEW after \in Amounts, NEW n \in Nat,
         after[c] = current[c] + n
  PROVE  /\ Live(user) /\ user.cumulativeProductScalingFactor # 0 /\ ~(c = "sbr" /\ user.sbrClaimed)
              => Gained(user, c, after) = Gained(user, c, current) + n * Weight(user)
         /\ ~Live(user) => Pending(user, c, after) = Pending(user, c, current)
<1>1. /\ user.stake \in Nat /\ user.stakeResetCount \in Nat /\ stakeResetCount \in Nat
      /\ PRECISION \in Nat /\ Weight(user) \in Nat
  BY UserParts, FactorPositive
<1>2. current[c] \in Nat /\ after[c] \in Nat /\ user.snapshot[c] \in Nat
  BY DEF Amounts, UserInfo
<1>3. CASE user.stakeResetCount = stakeResetCount
  <2>1. Weight(user) = user.stake * PRECISION
    BY <1>3 DEF Weight
  <2>2. /\ Gained(user, c, after) = (after[c] - user.snapshot[c]) * Weight(user) + 0
        /\ Gained(user, c, current) = (current[c] - user.snapshot[c]) * Weight(user) + 0
    BY <1>3, <2>1 DEF Gained, Gain, PerTokenOf
  <2> DEFINE w == Weight(user)
             g == current[c] - user.snapshot[c]
  <2>3. g \in Int /\ w \in Nat /\ after[c] - user.snapshot[c] = g + n
    BY <1>1, <1>2
  <2>4. /\ Gained(user, c, after) = (g + n) * w + 0
        /\ Gained(user, c, current) = g * w + 0
    BY <2>2, <2>3
  <2> HIDE DEF g, w
  <2>5. Gained(user, c, after) = Gained(user, c, current) + n * w
    BY <2>3, <2>4
  <2>6. Live(user)
    BY <1>1, <1>3 DEF Live
  <2>7. QED
    BY <2>5, <2>6 DEF w
<1>4. CASE user.stakeResetCount # stakeResetCount
  <2>1. Gain(user, c, after) = Gain(user, c, current)
    BY <1>4 DEF Gain, PerTokenOf
  <2>2. ~Live(user) => Pending(user, c, after) = Pending(user, c, current)
    <3> SUFFICES ASSUME ~Live(user) PROVE Pending(user, c, after) = Pending(user, c, current)
      OBVIOUS
    <3>1. user.stakeResetCount + 1 # stakeResetCount
      BY <1>1 DEF Live
    <3>2. PerTokenOf(user.stakeResetCount + 1, c, after) = PerTokenOf(user.stakeResetCount + 1, c, current)
      BY <3>1 DEF PerTokenOf
    <3>3. QED
      BY <2>1, <3>2 DEF Pending
  <2> DEFINE w == Weight(user)
             g == Gain(user, c, current) * (user.stake * PRECISION)
  <2>3. Gained(user, c, after) = g + after[c] * w /\ Gained(user, c, current) = g + current[c] * w
    BY <1>4, <2>1 DEF Gained
  <2>4. g \in Int
    <3>1. PerTokenOf(user.stakeResetCount, c, current) \in Nat
      BY <1>1, EpochType
    <3>2. Gain(user, c, current) \in Int /\ user.stake * PRECISION \in Nat
      BY <1>1, <1>2, <3>1 DEF Gain
    <3> HIDE DEF g
    <3>3. QED
      BY <3>2, Rearranged DEF g
  <2> HIDE DEF g
  <2>5. (current[c] + n) * w = current[c] * w + n * w /\ current[c] * w \in Int /\ n * w \in Int
    BY <1>1, <1>2
  <2> HIDE DEF w
  <2>6. Gained(user, c, after) = Gained(user, c, current) + n * w
    BY <2>3, <2>4, <2>5
  <2>7. QED
    BY <2>2, <2>6 DEF w
<1>5. QED
  BY <1>3, <1>4

\* ... so what covers the gains and the stakes covers the gains after it.
LEMMA GainCredited ==
  ASSUME TypeOK, NEW user \in UserInfo, user.stakeResetCount <= stakeResetCount,
         NEW c \in Currencies, NEW current \in Amounts, NEW after \in Amounts, NEW n \in Nat,
         after[c] = current[c] + n,
         NEW d \in Nat, NEW x \in Nat, NEW y \in Nat,
         GainCovered(user, c, current, d, x), StakeCovered(user, d, y)
  PROVE  GainCovered(user, c, after, d * stakeScalingFactor, stakeScalingFactor * x + n * y)
<1> SUFFICES ASSUME user.cumulativeProductScalingFactor # 0, ~(c = "sbr" /\ user.sbrClaimed)
             PROVE  GainCovered(user, c, after, d * stakeScalingFactor,
                                stakeScalingFactor * x + n * y)
  BY DEF GainCovered
<1> DEFINE S == stakeScalingFactor
           w == Weight(user)
           t == Unit(user)
<1>1. S \in Nat /\ w \in Nat /\ t \in Nat
  BY FactorPositive, UserParts
<1>2. CASE Live(user)
  <2> DEFINE g == Gained(user, c, current)
             h == Gained(user, c, after)
  <2>1. g \in Int /\ h = g + n * w
    BY <1>2, PendingInUnits, GainGrows
  <2>2. g * d <= x * t /\ (w * S) * d <= y * t
    BY <1>2 DEF GainCovered, StakeCovered
  <2>3. GainCovered(user, c, after, d * S, S * x + n * y) <=> h * (d * S) <= (S * x + n * y) * t
    BY <1>2 DEF GainCovered
  <2> HIDE DEF S, w, t, g, h
  <2>4. (g * d) * S <= (x * t) * S
    BY <1>1, <2>1, <2>2, MultiplyBy, Rearranged
  <2>5. ((w * S) * d) * n <= (y * t) * n
    BY <1>1, <2>2, MultiplyBy, Rearranged
  <2>6. h * (d * S) = (g * d) * S + ((w * S) * d) * n
    BY <1>1, <2>1
  <2>7. (S * x + n * y) * t = (x * t) * S + (y * t) * n
    BY <1>1
  <2>8. (g * d) * S \in Int /\ ((w * S) * d) * n \in Int /\ (x * t) * S \in Int /\ (y * t) * n \in Int
    BY <1>1, <2>1
  <2>9. h * (d * S) <= (S * x + n * y) * t
    BY <2>4, <2>5, <2>6, <2>7, <2>8
  <2>10. QED
    BY <2>3, <2>9 DEF S
<1>3. CASE ~Live(user)
  <2> DEFINE g == Pending(user, c, current)
  <2>1. Pending(user, c, after) = g /\ g \in Int
    BY <1>3, GainGrows, PendingIsInt
  <2>2. g * d <= x
    BY <1>3 DEF GainCovered
  <2>3. GainCovered(user, c, after, d * S, S * x + n * y) <=> g * (d * S) <= S * x + n * y
    BY <1>3, <2>1 DEF GainCovered
  <2> HIDE DEF S, g
  <2>4. (g * d) * S <= x * S
    BY <1>1, <2>1, <2>2, MultiplyBy, Rearranged
  <2>5. g * (d * S) = (g * d) * S /\ (g * d) * S \in Int /\ S * x = x * S
    BY <1>1, <2>1, Rearranged
  <2>6. S * x \in Nat /\ n * y \in Nat
    BY <1>1, ProductType
  <2>7. g * (d * S) <= S * x + n * y
    BY <2>4, <2>5, <2>6
  <2>8. QED
    BY <2>3, <2>7 DEF S
<1>4. QED
  BY <1>2, <1>3

\* The arithmetic of a distribution of m = amount + what was left over: to a
\* total of b / d per token ... the rounding costs less than one unit.
LEMMA CreditArithmetic ==
  ASSUME NEW s \in Nat \ {0}, NEW t \in Nat \ {0}, NEW d \in Nat \ {0},
         NEW a \in Nat, NEW b \in Nat, NEW left \in Nat, NEW amount \in Nat, NEW funds \in Int,
         a + left * d <= funds * d, b <= t * d
  PROVE  LET n == ((amount + left) * s) \div t
             r == amount + left - (n * t) \div s
         IN  (s * a + n * b) + r * (d * s) <= (funds + (amount + 1)) * (d * s)
<1> DEFINE m == amount + left
           n == (m * s) \div t
           y == n * t
           z == y \div s
           r == m - z
<1>1. m \in Nat /\ m * s \in Nat
  BY ProductType
<1>2. n \in Nat
  BY <1>1, QuotientType
<1>3. y \in Nat
  BY <1>2, ProductType
<1> HIDE DEF n
<1>4. z \in Nat /\ y <= s * z + s
  <2> HIDE DEF y
  <2>1. QED
    BY <1>3, DivisionRest
<1> HIDE DEF m, y, z
<1>5. r \in Int
  BY <1>1, <1>4
<1>6. amount + left - z = r
  BY <1>4 DEF m
<1>7. r * s + y <= m * s + s
  <2>1. r * s = m * s - s * z
    BY <1>1, <1>4
  <2>2. m * s \in Nat /\ s * z \in Nat
    BY <1>1, <1>4, ProductType
  <2>3. QED
    BY <1>3, <1>4, <2>1, <2>2
<1> HIDE DEF r
<1>8. (r * s + y) * d <= (m * s + s) * d
  <2>1. r * s + y \in Int /\ m * s + s \in Int
    BY <1>1, <1>3, <1>5
  <2>2. QED
    BY <1>7, <2>1, MultiplyBy
<1>9. (r * s + y) * d = r * (d * s) + y * d
  BY <1>3, <1>5
<1>10. n * b <= y * d
  <2>1. n * b <= n * (t * d)
    BY <1>2, MultiplyBy
  <2>2. n * (t * d) = y * d
    BY <1>2 DEF y
  <2>3. QED
    BY <2>1, <2>2
<1>11. (m * s + s) * d = (amount + 1) * (d * s) + (left * d) * s
  BY DEF m
<1>12. (a + left * d) * s <= (funds * d) * s
  <2>1. a + left * d \in Int /\ funds * d \in Int
    OBVIOUS
  <2>2. QED
    BY <2>1, MultiplyBy
<1>13. (a + left * d) * s = s * a + (left * d) * s /\ (funds * d) * s = funds * (d * s)
  OBVIOUS
<1>14. (funds + (amount + 1)) * (d * s) = funds * (d * s) + (amount + 1) * (d * s)
  OBVIOUS
<1>15. /\ s * a \in Nat /\ (left * d) * s \in Nat /\ funds * (d * s) \in Int
       /\ (amount + 1) * (d * s) \in Nat /\ n * b \in Nat /\ y * d \in Nat /\ r * (d * s) \in Int
  BY <1>2, <1>3, <1>5
<1>16. (s * a + n * b) + r * (d * s) <= (funds + (amount + 1)) * (d * s)
  BY <1>8, <1>9, <1>10, <1>11, <1>12, <1>13, <1>14, <1>15
<1>17. QED
  BY <1>6, <1>16 DEF m, n, y, z

\* A distribution of amount, whose rounding costs less than one unit, is covered.
LEMMA Credit ==
  ASSUME TypeOK, EpochsPast, totalStakedRaw > 0, NEW c \in Currencies,
         NEW current \in Amounts, NEW after \in Amounts, NEW amount \in Nat, NEW funds \in Int,
         after[c] = current[c] + PerToken(c, amount),
         NEW d, NEW q, NEW p, CoversStakes(d, q), CoversGains(c, current, loss[c], funds, d, p)
  PROVE  \E d2, q2, p2 :
           /\ CoversStakes(d2, q2)
           /\ CoversGains(c, after, LossAfter(c, amount), funds + (amount + 1), d2, p2)
<1> DEFINE S  == stakeScalingFactor
           n  == PerToken(c, amount)
           r  == LossAfter(c, amount)
           d2 == d * S
           zero == [u \in Users |-> 0]
           sp == [u \in Users |-> S * p[u]]
           q2 == [u \in Users |-> S * q[u]]
           p2 == [u \in Users |-> S * p[u] + n * q[u]]
<1>1. /\ S \in Nat \ {0} /\ totalStakedRaw \in Nat \ {0} /\ loss[c] \in Nat
      /\ n \in Nat /\ r \in Nat /\ d \in Nat \ {0}
  <2>1. S \in Nat \ {0} /\ totalStakedRaw \in Nat \ {0} /\ loss[c] \in Nat
    BY FactorPositive DEF TypeOK, Amounts
  <2>2. n \in Nat /\ r \in Nat
    BY DistributionType
  <2>3. QED
    BY <2>1, <2>2 DEF CoversStakes
<1>2. /\ q \in [Users -> Nat] /\ p \in [Users -> Nat] /\ MaxUser \in Nat /\ Users = 1 .. MaxUser
      /\ Sum(q, MaxUser) <= totalStakedRaw * d
      /\ Sum(p, MaxUser) + loss[c] * d <= funds * d
  BY StabilityPoolAssumption DEF CoversStakes, CoversGains, Shares, Users
<1>3. Sum(q, MaxUser) \in Nat /\ Sum(p, MaxUser) \in Nat
  BY <1>2, SumBounds
<1>4. (S * Sum(p, MaxUser) + n * Sum(q, MaxUser)) + r * d2 <= (funds + (amount + 1)) * d2
  <2>1. n = ((amount + loss[c]) * S) \div totalStakedRaw
    BY DEF PerToken
  <2>2. r = amount + loss[c] - (n * totalStakedRaw) \div S
    BY DEF LossAfter
  <2> HIDE DEF S, n, r
  <2>3. QED
    BY <1>1, <1>2, <1>3, <2>1, <2>2, CreditArithmetic
<1> HIDE DEF S, n, r
<1>5. d2 \in Nat \ {0}
  BY <1>1
<1>6. /\ q2 \in [Users -> Nat] /\ \A u \in Users : q2[u] = S * q[u]
      /\ sp \in [Users -> Nat] /\ \A u \in Users : sp[u] = S * p[u]
  <2>1. \A u \in Users : S * q[u] \in Nat /\ S * p[u] \in Nat
    BY <1>1, <1>2, ProductType
  <2>2. QED
    BY <2>1
<1>7. /\ p2 \in [Users -> Nat] /\ \A u \in Users : p2[u] = S * p[u] + n * q[u]
      /\ \A u \in Users : p2[u] = sp[u] + n * q[u]
  <2>1. \A u \in Users : S * p[u] \in Nat /\ n * q[u] \in Nat
    BY <1>1, <1>2, ProductType
  <2>2. QED
    BY <2>1
<1> HIDE DEF q2, p2, sp
<1>8. /\ Sum(q2, MaxUser) = S * Sum(q, MaxUser) /\ Sum(sp, MaxUser) = S * Sum(p, MaxUser)
      /\ Sum(p2, MaxUser) = Sum(sp, MaxUser) + n * Sum(q, MaxUser)
  <2>1. /\ q \in [1 .. MaxUser -> Int] /\ q2 \in [1 .. MaxUser -> Int]
        /\ p \in [1 .. MaxUser -> Int] /\ sp \in [1 .. MaxUser -> Int]
        /\ p2 \in [1 .. MaxUser -> Int]
        /\ S \in Int /\ n \in Int
    BY <1>1, <1>2, <1>6, <1>7
  <2>2. /\ \A u \in 1 .. MaxUser : q2[u] = S * q[u]
        /\ \A u \in 1 .. MaxUser : sp[u] = S * p[u]
        /\ \A u \in 1 .. MaxUser : p2[u] = sp[u] + n * q[u]
    BY <1>2, <1>6, <1>7
  <2>3. Sum(q2, MaxUser) = S * Sum(q, MaxUser)
    BY ONLY <1>2, <2>1, <2>2, SumScale
  <2>4. Sum(sp, MaxUser) = S * Sum(p, MaxUser)
    BY ONLY <1>2, <2>1, <2>2, SumScale
  <2>5. Sum(p2, MaxUser) = Sum(sp, MaxUser) + n * Sum(q, MaxUser)
    <3>1. /\ MaxUser \in Nat /\ n \in Int
          /\ sp \in [1 .. MaxUser -> Int] /\ q \in [1 .. MaxUser -> Int]
          /\ p2 \in [1 .. MaxUser -> Int] /\ \A u \in 1 .. MaxUser : p2[u] = sp[u] + n * q[u]
      BY <1>2, <2>1, <2>2
    <3>2. QED
      BY ONLY <3>1, SumLinear
  <2>6. QED
    BY <2>3, <2>4, <2>5
<1>10. Sum(q2, MaxUser) <= totalStakedRaw * d2
  <2>0. totalStakedRaw * d \in Int /\ Sum(q, MaxUser) \in Int /\ S \in Nat
    BY <1>1, <1>3
  <2>1. S * Sum(q, MaxUser) <= S * (totalStakedRaw * d)
    BY <1>2, <2>0, MultiplyBy
  <2>2. S * (totalStakedRaw * d) = totalStakedRaw * d2
    BY <1>1
  <2>3. QED
    BY <1>8, <2>1, <2>2
<1> HIDE DEF d2
<1>11. \A u \in Users : /\ StakeCovered(users[u], d2, q2[u])
                        /\ GainCovered(users[u], c, after, d2, p2[u])
  <2> TAKE u \in Users
  <2>1. /\ users[u] \in UserInfo /\ users[u].stakeResetCount <= stakeResetCount
        /\ q[u] \in Nat /\ p[u] \in Nat
        /\ StakeCovered(users[u], d, q[u]) /\ GainCovered(users[u], c, current, d, p[u])
    BY <1>2 DEF TypeOK, EpochsPast, CoversStakes, CoversGains
  <2>2. StakeCovered(users[u], d2, q2[u])
    BY <1>1, <1>6, <2>1, StakeScaled DEF d2
  <2>3. GainCovered(users[u], c, after, d * stakeScalingFactor, stakeScalingFactor * p[u] + n * q[u])
    BY <1>1, <2>1, GainCredited DEF n
  <2>4. QED
    BY <1>7, <2>2, <2>3 DEF d2, S
<1>12. CoversStakes(d2, q2)
  BY <1>5, <1>6, <1>10, <1>11 DEF CoversStakes, Shares
<1>13. CoversGains(c, after, r, funds + (amount + 1), d2, p2)
  BY <1>4, <1>5, <1>7, <1>8, <1>11 DEF CoversGains, Shares
<1>14. QED
  BY <1>12, <1>13 DEF r

-----------------------------------------------------------------------------
(* Liquidations. *)

\* The scaling factor shrinks at least as much as the total does.
LEMMA FactorShrinks ==
  ASSUME NEW s \in Nat, NEW a \in Nat, NEW t \in Nat \ {0}, NEW p \in Nat \ {0}, a <= t
  PROVE  LET f == (s * (((t - a) * p) \div t)) \div p
         IN  f \in Nat /\ f * t <= s * (t - a)
<1> DEFINE k == ((t - a) * p) \div t
           f == (s * k) \div p
<1>1. t - a \in Nat
  OBVIOUS
<1>2. k \in Nat /\ t * k <= (t - a) * p
  BY <1>1, DivisionRoundsDown, ProductType
<1> HIDE DEF k
<1>3. f \in Nat /\ p * f <= s * k
  BY <1>2, DivisionRoundsDown, ProductType
<1> HIDE DEF f
<1>4. (p * f) * t <= (s * k) * t
  BY <1>2, <1>3, MultiplyBy, ProductType
<1>5. s * (t * k) <= s * ((t - a) * p)
  <2>1. t * k \in Int /\ (t - a) * p \in Int
    BY <1>1, <1>2
  <2>2. QED
    BY <1>2, <2>1, MultiplyBy
<1>6. (p * f) * t = p * (f * t) /\ (s * k) * t = s * (t * k)
  BY <1>2, <1>3
<1>7. s * ((t - a) * p) = p * (s * (t - a))
  BY <1>1
<1>8. f * t \in Int /\ s * (t - a) \in Int /\ s * (t * k) \in Int
  BY <1>1, <1>2, <1>3
<1>9. p * (f * t) <= p * (s * (t - a))
  BY <1>4, <1>5, <1>6, <1>7, <1>8
<1>10. f * t <= s * (t - a)
  BY <1>8, <1>9, CancelFactor
<1>11. QED
  BY <1>3, <1>10 DEF f, k

\* What a liquidation does to the stakes, when the cumulative amounts are current.
Shrinks(amount, current) ==
  /\ amount \in Nat /\ amount <= totalStakedRaw /\ totalStakedRaw \in Nat \ {0}
  /\ current \in Amounts
  /\ UNCHANGED users
  /\ totalStakedRaw' = totalStakedRaw - amount
  /\ \/ /\ stakeScalingFactor' = ScaledDown(amount)
        /\ perToken' = current
        /\ UNCHANGED stakeResetSnapshots
     \/ /\ stakeResetSnapshots' =
             Append(stakeResetSnapshots, [scalingFactor |-> ScaledDown(amount), perToken |-> current])
        /\ stakeScalingFactor' = PRECISION
        /\ perToken' = Nothing

\* The epochs before the current one stay as they are.
LEMMA EpochsKept ==
  ASSUME TypeOK, NEW amount, NEW current, Shrinks(amount, current),
         NEW epoch \in 0 .. stakeResetCount - 1
  PROVE  /\ FactorOf(epoch)' = FactorOf(epoch)
         /\ \A c \in Currencies : PerTokenOf(epoch, c, perToken)' = PerTokenOf(epoch, c, current)
<1>1. stakeResetSnapshots \in Seq(Snapshot) /\ stakeResetCount = Len(stakeResetSnapshots)
      /\ stakeResetCount \in Nat
  BY DEF TypeOK, stakeResetCount
<1>2. epoch + 1 \in 1 .. Len(stakeResetSnapshots) /\ epoch # stakeResetCount
  BY <1>1
<1>3. stakeResetSnapshots'[epoch + 1] = stakeResetSnapshots[epoch + 1]
  BY <1>1, <1>2 DEF Shrinks
<1>4. stakeResetCount' = stakeResetCount \/ stakeResetCount' = stakeResetCount + 1
  BY <1>1 DEF Shrinks, stakeResetCount
<1>5. epoch # stakeResetCount'
  BY <1>1, <1>4
<1>6. QED
  BY <1>2, <1>3, <1>5 DEF FactorOf, PerTokenOf

\* A liquidation without a reset.
LEMMA EpochGoesOn ==
  ASSUME TypeOK, NEW amount, NEW current, Shrinks(amount, current),
         UNCHANGED stakeResetSnapshots
  PROVE  /\ stakeResetCount' = stakeResetCount /\ stakeResetCount \in Nat
         /\ stakeScalingFactor' = ScaledDown(amount) /\ perToken' = current
<1>1. stakeResetSnapshots \in Seq(Snapshot) /\ stakeResetCount \in Nat
  BY DEF TypeOK, stakeResetCount
<1>2. \A x : Append(stakeResetSnapshots, x) # stakeResetSnapshots
  BY <1>1
<1>3. QED
  BY <1>1, <1>2 DEF Shrinks, stakeResetCount

\* A reset ends the current epoch: it is remembered as it was.
LEMMA EpochEnds ==
  ASSUME TypeOK, NEW amount, NEW current, Shrinks(amount, current),
         stakeResetSnapshots' # stakeResetSnapshots
  PROVE  /\ stakeResetCount' = stakeResetCount + 1 /\ stakeResetCount \in Nat
         /\ stakeScalingFactor' = PRECISION /\ perToken' = Nothing
         /\ \A epoch : epoch = stakeResetCount =>
              /\ FactorOf(epoch)' = ScaledDown(amount)
              /\ \A c \in Currencies : PerTokenOf(epoch, c, perToken)' = current[c]
<1>1. stakeResetSnapshots \in Seq(Snapshot) /\ stakeResetCount = Len(stakeResetSnapshots)
      /\ stakeResetCount \in Nat
  BY DEF TypeOK, stakeResetCount
<1> DEFINE reset == [scalingFactor |-> ScaledDown(amount), perToken |-> current]
<1>2. /\ stakeResetSnapshots' = Append(stakeResetSnapshots, reset)
      /\ stakeScalingFactor' = PRECISION /\ perToken' = Nothing
  BY DEF Shrinks
<1>3. reset.scalingFactor = ScaledDown(amount) /\ reset.perToken = current
  OBVIOUS
<1> HIDE DEF reset
<1>4. /\ stakeResetCount' = stakeResetCount + 1
      /\ stakeResetSnapshots'[stakeResetCount + 1] = reset
  BY <1>1, <1>2 DEF stakeResetCount
<1>5. stakeResetCount # stakeResetCount'
  BY <1>1, <1>4
<1>6. QED
  BY <1>1, <1>2, <1>3, <1>4, <1>5 DEF FactorOf, PerTokenOf

\* The arithmetic of a liquidation, for a stake of weight w.
LEMMA ShrinkArithmetic ==
  ASSUME NEW w \in Nat, NEW f \in Nat, NEW s \in Nat, NEW t \in Nat, NEW rest \in Nat,
         NEW d \in Nat, NEW x \in Nat, NEW unit \in Nat,
         f * t <= s * rest, (w * s) * d <= x * unit
  PROVE  (w * f) * (d * t) <= (rest * x) * unit
<1>1. w * d \in Nat /\ f * t \in Nat /\ s * rest \in Nat
  BY ProductType
<1>2. (w * d) * (f * t) <= (w * d) * (s * rest)
  <2> DEFINE a == w * d
             b == f * t
             e == s * rest
  <2> HIDE DEF a, b, e
  <2>1. a * b <= a * e
    BY <1>1, MultiplyBy DEF a, b, e
  <2>2. QED
    BY <2>1 DEF a, b, e
<1>3. ((w * s) * d) * rest <= (x * unit) * rest
  <2>1. (w * s) * d \in Nat /\ x * unit \in Nat
    BY ProductType
  <2>2. QED
    BY <2>1, MultiplyBy
<1>4. (w * f) * (d * t) = (w * d) * (f * t) /\ ((w * s) * d) * rest = (w * d) * (s * rest)
      /\ (rest * x) * unit = (x * unit) * rest
  OBVIOUS
<1>5. (w * d) * (f * t) \in Nat /\ (w * d) * (s * rest) \in Nat /\ (x * unit) * rest \in Nat
  <2>1. x * unit \in Nat
    BY ProductType
  <2>2. QED
    BY <1>1, <2>1, ProductType
<1>6. QED
  BY <1>2, <1>3, <1>4, <1>5

\* What covers a stake covers, times what is left of the total, what is left of
\* it: a stake that is passed over must be nothing.
LEMMA StakeShrinks ==
  ASSUME TypeOK, NEW amount, NEW current, Shrinks(amount, current),
         NEW t \in Nat, t = totalStakedRaw, NEW rest \in Nat, rest = totalStakedRaw - amount,
         NEW user \in UserInfo, user.stakeResetCount <= stakeResetCount,
         ~Live(user) => EffectiveStake(user) = 0,
         NEW d \in Nat, NEW x \in Nat, StakeCovered(user, d, x)
  PROVE  StakeCovered(user, d * t, rest * x)'
<1> DEFINE f == ScaledDown(amount)
           S == stakeScalingFactor
           W == Weight(user)
           U == Unit(user)
           n == user.stakeResetCount
           c == user.cumulativeProductScalingFactor
<1>1. /\ t \in Nat \ {0} /\ amount \in Nat /\ amount <= t /\ rest \in Nat
      /\ rest = t - amount /\ totalStakedRaw' = rest
  BY DEF Shrinks
<1>2. S \in Nat /\ PRECISION \in Nat \ {0}
  BY FactorPositive
<1>3. f \in Nat /\ f * t <= S * rest
  <2>1. f = (S * ((rest * PRECISION) \div t)) \div PRECISION
    BY <1>1 DEF ScaledDown
  <2>2. QED
    BY <1>1, <1>2, <2>1, FactorShrinks
<1>4. /\ W \in Nat /\ U \in Nat /\ n \in Nat /\ stakeResetCount \in Nat /\ c \in Nat
      /\ user.stake \in Nat /\ (c # 0 => U \in Nat \ {0}) /\ FactorOf(n) \in Nat
  BY UserParts
<1>5. Unit(user)' = U
  BY DEF Unit
<1> SUFFICES ASSUME c # 0
             PROVE  IF Live(user)'
                      THEN (Weight(user)' * stakeScalingFactor') * (d * t) <= (rest * x) * U
                      ELSE EffectiveStake(user)' * (d * t) <= rest * x
  BY <1>5 DEF StakeCovered
<1>6. CASE Live(user)
  <2>1. (W * S) * d <= x * U
    BY <1>6 DEF StakeCovered
  <2>2. (W * f) * (d * t) <= (rest * x) * U
    <3> HIDE DEF W, f, S, U
    <3>1. QED
      BY <1>1, <1>2, <1>3, <1>4, <2>1, ShrinkArithmetic
  <2>3. CASE UNCHANGED stakeResetSnapshots
    <3>1. stakeResetCount' = stakeResetCount /\ stakeScalingFactor' = f
      BY <2>3, EpochGoesOn
    <3>2. Live(user)'
      BY <1>6, <3>1 DEF Live
    <3>3. Weight(user)' = W
      <4>1. CASE n = stakeResetCount
        BY <3>1, <4>1 DEF Weight
      <4>2. CASE n # stakeResetCount
        <5>1. n \in 0 .. stakeResetCount - 1
          BY <1>4, <4>2
        <5>2. FactorOf(n)' = FactorOf(n)
          BY <5>1, EpochsKept
        <5>3. QED
          BY <3>1, <4>2, <5>2 DEF Weight
      <4>3. QED
        BY <4>1, <4>2
    <3>4. QED
      BY <2>2, <3>1, <3>2, <3>3
  <2>4. CASE stakeResetSnapshots' # stakeResetSnapshots
    <3>1. stakeResetCount' = stakeResetCount + 1 /\ stakeScalingFactor' = PRECISION
      BY <2>4, EpochEnds
    <3>2. CASE n = stakeResetCount
      <4>1. Live(user)' /\ n # stakeResetCount'
        BY <1>4, <3>1, <3>2 DEF Live
      <4>2. FactorOf(n)' = f
        BY <2>4, <3>2, EpochEnds
      <4>3. Weight(user)' = user.stake * f
        BY <4>1, <4>2 DEF Weight
      <4>4. W = user.stake * PRECISION
        BY <3>2 DEF Weight
      <4> DEFINE s == user.stake
      <4> HIDE DEF W, f, S, U, s
      <4>5. (s * f) * PRECISION = (s * PRECISION) * f
        BY <1>2, <1>3, <1>4, Rearranged DEF s
      <4>6. Weight(user)' * stakeScalingFactor' = W * f
        BY <3>1, <4>3, <4>4, <4>5 DEF s
      <4>7. QED
        BY <2>2, <4>1, <4>6
    <3>3. CASE n # stakeResetCount
      <4>1. n + 1 = stakeResetCount /\ n \in 0 .. stakeResetCount - 1
        BY <1>4, <1>6, <3>3 DEF Live
      <4>2. ~Live(user)' /\ n # stakeResetCount'
        BY <1>4, <3>1, <4>1 DEF Live
      <4>3. FactorOf(n)' = FactorOf(n) /\ FactorOf(n + 1)' = f
        BY <2>4, <4>1, EpochsKept, EpochEnds
      <4> DEFINE E == EffectiveStake(user)'
      <4>4. E = (((user.stake * FactorOf(n)) \div c) * f) \div PRECISION
        BY <4>2, <4>3 DEF EffectiveStake, Scaled
      <4>5. W = user.stake * FactorOf(n) /\ U = c * PRECISION
        BY <3>3 DEF Weight, Unit
      <4> HIDE DEF W, f, S, U, E, n, c
      <4>6. c \in Nat \ {0} /\ user.stake \in Nat
        BY <1>4
      <4>7. E \in Nat /\ E * U <= W * f
        BY <1>2, <1>3, <1>4, <4>4, <4>5, <4>6, TwoEpochs
      <4>8. W * f \in Int /\ d * t \in Nat /\ rest * x \in Int /\ U \in Nat \ {0}
        BY <1>1, <1>3, <1>4, <4>6, ProductType
      <4>9. E * (d * t) <= rest * x
        <5> DEFINE b == W * f
                   e == d * t
                   y == rest * x
        <5>1. b \in Int /\ e \in Nat /\ y \in Int /\ E \in Int /\ E * U <= b /\ b * e <= y * U
          BY <2>2, <4>7, <4>8
        <5> HIDE DEF b, e, y
        <5>2. E * e <= y
          BY <4>8, <5>1, BoundInUnits
        <5>3. QED
          BY <5>2 DEF e, y
      <4>10. QED
        BY <4>2, <4>9 DEF E
    <3>4. QED
      BY <3>2, <3>3
  <2>5. QED
    BY <2>3, <2>4
<1>7. CASE ~Live(user)
  <2>1. n + 1 < stakeResetCount /\ n \in 0 .. stakeResetCount - 1 /\ n + 1 \in 0 .. stakeResetCount - 1
        /\ n # stakeResetCount
    BY <1>4, <1>7 DEF Live
  <2>2. stakeResetCount' = stakeResetCount \/ stakeResetCount' = stakeResetCount + 1
    BY EpochGoesOn, EpochEnds
  <2>3. ~Live(user)' /\ n # stakeResetCount'
    BY <1>4, <2>1, <2>2 DEF Live
  <2>4. FactorOf(n)' = FactorOf(n) /\ FactorOf(n + 1)' = FactorOf(n + 1)
    BY <2>1, EpochsKept
  <2>5. EffectiveStake(user)' = EffectiveStake(user)
    BY <2>1, <2>3, <2>4 DEF EffectiveStake, Scaled
  <2>6. EffectiveStake(user)' = 0
    BY <1>7, <2>5
  <2>7. 0 * (d * t) <= rest * x
    BY <1>1
  <2>8. QED
    BY <2>3, <2>6, <2>7
<1>8. QED
  BY <1>6, <1>7

\* A common denominator can be multiplied.
LEMMA GainScaled ==
  ASSUME TypeOK, NEW user \in UserInfo, user.stakeResetCount <= stakeResetCount,
         NEW c \in Currencies, NEW current \in Amounts,
         NEW d \in Nat, NEW x \in Nat, NEW n \in Nat, GainCovered(user, c, current, d, x)
  PROVE  GainCovered(user, c, current, d * n, n * x)
<1> SUFFICES ASSUME user.cumulativeProductScalingFactor # 0, ~(c = "sbr" /\ user.sbrClaimed)
             PROVE  GainCovered(user, c, current, d * n, n * x)
  BY DEF GainCovered
<1> DEFINE a == IF Live(user) THEN Gained(user, c, current) ELSE Pending(user, c, current)
           b == IF Live(user) THEN x * Unit(user) ELSE x
<1>1. Unit(user) \in Nat
  BY UserParts
<1>2. a \in Int
  BY PendingInUnits, PendingIsInt
<1>3. b \in Nat
  BY <1>1, ProductType
<1>4. a * d <= b
  BY DEF GainCovered
<1>5. (n * x) * Unit(user) = n * (x * Unit(user))
  BY <1>1, Rearranged
<1>6. n * b = IF Live(user) THEN (n * x) * Unit(user) ELSE n * x
  BY <1>5
<1>7. GainCovered(user, c, current, d * n, n * x) <=> a * (d * n) <= n * b
  BY <1>6 DEF GainCovered
<1> HIDE DEF a, b
<1>8. a * d \in Int /\ a * (d * n) = (a * d) * n
  BY <1>2, Rearranged
<1>9. (a * d) * n <= n * b
  BY <1>3, <1>4, <1>8, MultiplyBy, Rearranged
<1>10. QED
  BY <1>7, <1>8, <1>9

\* A liquidation leaves what a user has gained: also when it ends the epoch.
LEMMA GainShrinks ==
  ASSUME TypeOK, NEW amount, NEW current, Shrinks(amount, current),
         NEW user \in UserInfo, user.stakeResetCount <= stakeResetCount, NEW c \in Currencies,
         NEW d \in Nat, NEW x \in Nat, GainCovered(user, c, current, d, x)
  PROVE  GainCovered(user, c, perToken, d, x)'
<1> DEFINE n == user.stakeResetCount
           before == Gained(user, c, current)
           after  == Gained(user, c, perToken)'
<1>1. /\ user.stake \in Nat /\ n \in Nat /\ stakeResetCount \in Nat
      /\ PRECISION \in Nat /\ Weight(user) \in Nat /\ Unit(user)' = Unit(user)
  BY UserParts, FactorPositive DEF Unit
<1>2. current \in Amounts
  BY DEF Shrinks
<1> SUFFICES ASSUME user.cumulativeProductScalingFactor # 0, ~(c = "sbr" /\ user.sbrClaimed)
             PROVE  IF Live(user)' THEN after * d <= x * Unit(user)
                                   ELSE Pending(user, c, perToken)' * d <= x
  BY <1>1 DEF GainCovered
<1>3. CASE n = stakeResetCount /\ UNCHANGED stakeResetSnapshots
  <2>1. n = stakeResetCount' /\ perToken' = current
    BY <1>3, EpochGoesOn
  <2>2. Live(user) /\ Live(user)'
    BY <1>1, <1>3, <2>1 DEF Live
  <2>3. after = before
    BY <1>3, <2>1 DEF Gained, Gain, PerTokenOf
  <2>4. QED
    BY <2>2, <2>3 DEF GainCovered
<1>4. CASE n = stakeResetCount /\ stakeResetSnapshots' # stakeResetSnapshots
  <2>1. stakeResetCount' = stakeResetCount + 1 /\ perToken' = Nothing
        /\ PerTokenOf(n, c, perToken)' = current[c] /\ FactorOf(n)' = ScaledDown(amount)
    BY <1>4, EpochEnds
  <2>2. Live(user) /\ Live(user)' /\ n # stakeResetCount'
    BY <1>1, <1>4, <2>1 DEF Live
  <2>3. Gain(user, c, perToken)' = Gain(user, c, current)
    BY <1>4, <2>1 DEF Gain, PerTokenOf
  <2> DEFINE g == Gain(user, c, current) * (user.stake * PRECISION)
             w == Weight(user)'
  <2>4. before = g + 0 /\ after = g + perToken'[c] * w
    BY <1>4, <2>2, <2>3 DEF Gained
  <2>5. g \in Int
    <3>1. user.snapshot[c] \in Nat /\ current[c] \in Nat
      BY <1>2 DEF UserInfo, Amounts
    <3>2. Gain(user, c, current) \in Int /\ user.stake * PRECISION \in Nat
      BY <1>1, <1>4, <3>1 DEF Gain, PerTokenOf
    <3> HIDE DEF g
    <3>3. QED
      BY <3>2, Rearranged DEF g
  <2>6. w \in Nat
    <3>1. totalStakedRaw \in Nat \ {0} /\ amount \in Nat /\ amount <= totalStakedRaw
      BY DEF Shrinks
    <3>2. ScaledDown(amount) \in Nat
      BY <3>1, FactorPositive, ScaledDownType DEF ScaledDown
    <3>3. QED
      BY <1>1, <2>1, <2>2, <3>2, ProductType DEF Weight
  <2>7. perToken'[c] = 0
    BY <2>1 DEF Nothing
  <2> HIDE DEF g, w
  <2>8. after = before
    BY <2>4, <2>5, <2>6, <2>7
  <2>9. QED
    BY <2>2, <2>8 DEF GainCovered
<1>5. CASE n + 1 = stakeResetCount
  <2>1. n \in 0 .. stakeResetCount - 1 /\ n # stakeResetCount /\ Live(user)
    BY <1>1, <1>5 DEF Live
  <2>2. FactorOf(n)' = FactorOf(n) /\ PerTokenOf(n, c, perToken)' = PerTokenOf(n, c, current)
    BY <2>1, EpochsKept
  <2>3. Gain(user, c, perToken)' = Gain(user, c, current)
    BY <2>2 DEF Gain
  <2>4. CASE UNCHANGED stakeResetSnapshots
    <3>1. stakeResetCount' = stakeResetCount /\ perToken' = current
      BY <2>4, EpochGoesOn
    <3>2. Live(user)' /\ after = before
      BY <2>1, <2>2, <2>3, <3>1 DEF Live, Gained, Weight
    <3>3. QED
      BY <2>1, <3>2 DEF GainCovered
  <2>5. CASE stakeResetSnapshots' # stakeResetSnapshots
    <3>1. stakeResetCount' = stakeResetCount + 1
          /\ PerTokenOf(n + 1, c, perToken)' = current[c]
      BY <1>5, <2>5, EpochEnds
    <3>2. PerTokenOf(n + 1, c, current) = current[c]
      BY <1>5 DEF PerTokenOf
    <3>3. n # stakeResetCount' /\ ~Live(user)'
      BY <1>1, <1>5, <3>1 DEF Live
    <3>4. Scaled(user)' = Scaled(user)
      BY <2>2 DEF Scaled
    <3>5. Pending(user, c, perToken)' = Pending(user, c, current)
      BY <2>1, <2>3, <3>1, <3>2, <3>3, <3>4 DEF Pending
    <3>6. Pending(user, c, current) * d <= x
      BY <1>2, PendingBound
    <3>7. QED
      BY <3>3, <3>5, <3>6
  <2>6. QED
    BY <2>4, <2>5
<1>6. CASE n + 1 < stakeResetCount
  <2>1. n \in 0 .. stakeResetCount - 1 /\ n + 1 \in 0 .. stakeResetCount - 1
        /\ n # stakeResetCount /\ ~Live(user)
    BY <1>1, <1>6 DEF Live
  <2>2. stakeResetCount' = stakeResetCount \/ stakeResetCount' = stakeResetCount + 1
    BY EpochGoesOn, EpochEnds
  <2>3. ~Live(user)' /\ n # stakeResetCount'
    BY <1>1, <1>6, <2>1, <2>2 DEF Live
  <2>4. /\ FactorOf(n)' = FactorOf(n) /\ PerTokenOf(n, c, perToken)' = PerTokenOf(n, c, current)
        /\ PerTokenOf(n + 1, c, perToken)' = PerTokenOf(n + 1, c, current)
    BY <2>1, EpochsKept
  <2>5. Pending(user, c, perToken)' = Pending(user, c, current)
    BY <2>1, <2>3, <2>4 DEF Pending, Gain, Scaled
  <2>6. Pending(user, c, current) * d <= x
    BY <1>2, PendingBound
  <2>7. QED
    BY <2>3, <2>5, <2>6
<1>7. n = stakeResetCount \/ n + 1 = stakeResetCount \/ n + 1 < stakeResetCount
  BY <1>1
<1>8. QED
  BY <1>3, <1>4, <1>5, <1>6, <1>7

\* Every number n times as large, and so their sum.
LEMMA SharesScaled ==
  ASSUME NEW q \in Shares, NEW n \in Nat, NEW d \in Nat, NEW total \in Int,
         Sum(q, MaxUser) <= total
  PROVE  LET q2 == [u \in Users |-> n * q[u]]
         IN  /\ q2 \in Shares
             /\ Sum(q, MaxUser) \in Nat /\ Sum(q2, MaxUser) = n * Sum(q, MaxUser)
             /\ Sum(q2, MaxUser) <= n * total
<1> DEFINE q2 == [u \in Users |-> n * q[u]]
<1>1. q \in [1 .. MaxUser -> Nat] /\ MaxUser \in Nat
  BY StabilityPoolAssumption DEF Shares, Users
<1>2. \A u \in Users : n * q[u] \in Nat
  BY ProductType DEF Shares
<1>3. q2 \in Shares /\ q2 \in [1 .. MaxUser -> Int] /\ \A u \in 1 .. MaxUser : q2[u] = n * q[u]
  BY <1>2 DEF Shares, Users
<1> HIDE DEF q2
<1>4. Sum(q, MaxUser) \in Nat
  BY <1>1, SumBounds
<1>5. Sum(q2, MaxUser) = n * Sum(q, MaxUser)
  <2>1. q \in [1 .. MaxUser -> Int] /\ n \in Int
    BY <1>1
  <2>2. QED
    BY <1>1, <1>3, <2>1, SumScale
<1>6. n * Sum(q, MaxUser) <= n * total
  BY <1>4, MultiplyBy
<1>7. QED
  BY <1>3, <1>4, <1>5, <1>6 DEF q2

\* A liquidation that passes over no stake keeps the stakes covered ...
LEMMA StakesShrink ==
  ASSUME TypeOK, EpochsPast, NEW amount, NEW current, Shrinks(amount, current),
         \A u \in Users : ~Live(users[u]) => EffectiveStake(users[u]) = 0,
         NEW t \in Nat, t = totalStakedRaw, NEW d, NEW q, CoversStakes(d, q)
  PROVE  \E q2 : CoversStakes(d * t, q2)'
<1>1. PICK rest \in Nat : rest = totalStakedRaw - amount
  BY DEF Shrinks
<1> DEFINE q2 == [u \in Users |-> rest * q[u]]
<1>2. /\ d \in Nat \ {0} /\ t \in Nat \ {0} /\ q \in Shares /\ Sum(q, MaxUser) <= t * d
      /\ totalStakedRaw' = rest /\ UNCHANGED users
  BY <1>1 DEF CoversStakes, Shrinks
<1>3. q2 \in Shares /\ Sum(q2, MaxUser) <= rest * (t * d)
  <2>1. d \in Nat /\ t * d \in Int
    BY <1>2
  <2>2. QED
    BY <1>2, <2>1, SharesScaled
<1>4. rest * (t * d) = rest * (d * t) /\ d * t \in Nat \ {0}
  BY <1>2
<1>5. ASSUME NEW u \in Users PROVE StakeCovered(users[u], d * t, q2[u])'
  <2>1. /\ users[u] \in UserInfo /\ users[u].stakeResetCount <= stakeResetCount
        /\ q[u] \in Nat /\ StakeCovered(users[u], d, q[u]) /\ q2[u] = rest * q[u]
    BY <1>2 DEF TypeOK, EpochsPast, CoversStakes, Shares
  <2>2. PICK user \in UserInfo : user = users[u]
    BY <2>1
  <2>3. StakeCovered(user, d * t, rest * q[u])'
    BY <1>1, <1>2, <2>1, <2>2, StakeShrinks
  <2>4. users'[u] = user
    BY <1>2, <2>2
  <2>5. QED
    BY <2>1, <2>3, <2>4
<1> HIDE DEF q2
<1>6. CoversStakes(d * t, q2)'
  BY <1>2, <1>3, <1>4, <1>5 DEF CoversStakes
<1>7. QED
  BY <1>6

\* ... and what the users have gained.
LEMMA GainsShrink ==
  ASSUME TypeOK, EpochsPast, NEW amount, NEW current, Shrinks(amount, current),
         NEW t \in Nat \ {0}, NEW c \in Currencies, NEW rest \in Nat, NEW funds \in Int,
         NEW d, NEW p, CoversGains(c, current, rest, funds, d, p)
  PROVE  \E p2 : CoversGains(c, perToken, rest, funds, d * t, p2)'
<1> DEFINE p2 == [u \in Users |-> t * p[u]]
<1>1. /\ d \in Nat \ {0} /\ p \in Shares /\ Sum(p, MaxUser) + rest * d <= funds * d
      /\ UNCHANGED users /\ current \in Amounts
  BY DEF CoversGains, Shrinks
<1>2. Sum(p, MaxUser) \in Nat
  BY <1>1, StabilityPoolAssumption, SumBounds DEF Shares, Users
<1>3. p2 \in Shares /\ Sum(p2, MaxUser) = t * Sum(p, MaxUser)
  BY <1>1, <1>2, SharesScaled
<1>4. Sum(p2, MaxUser) + rest * (d * t) <= funds * (d * t)
  <2> DEFINE s == Sum(p, MaxUser)
  <2>1. s + rest * d \in Int /\ funds * d \in Int /\ t \in Nat
    BY <1>1, <1>2
  <2>2. (s + rest * d) * t <= (funds * d) * t
    BY <1>1, <2>1, MultiplyBy
  <2> HIDE DEF s
  <2>3. (s + rest * d) * t = t * s + rest * (d * t) /\ (funds * d) * t = funds * (d * t)
    BY <1>1, <1>2 DEF s
  <2>4. QED
    BY <1>3, <2>2, <2>3 DEF s
<1>5. d * t \in Nat \ {0}
  BY <1>1
<1>6. ASSUME NEW u \in Users PROVE GainCovered(users[u], c, perToken, d * t, p2[u])'
  <2>1. /\ users[u] \in UserInfo /\ users[u].stakeResetCount <= stakeResetCount
        /\ p[u] \in Nat /\ GainCovered(users[u], c, current, d, p[u]) /\ p2[u] = t * p[u]
    BY <1>1 DEF TypeOK, EpochsPast, CoversGains, Shares
  <2>2. PICK user \in UserInfo : user = users[u]
    BY <2>1
  <2>3. d * t \in Nat /\ t * p[u] \in Nat /\ d \in Nat
    BY <1>1, <2>1, ProductType
  <2>4. GainCovered(user, c, current, d * t, t * p[u])
    BY <1>1, <2>1, <2>2, <2>3, GainScaled
  <2>5. GainCovered(user, c, perToken, d * t, t * p[u])'
    BY <2>1, <2>2, <2>3, <2>4, GainShrinks
  <2>6. users'[u] = user
    BY <1>1, <2>2
  <2>7. QED
    BY <2>1, <2>5, <2>6
<1> HIDE DEF p2
<1>7. CoversGains(c, perToken, rest, funds, d * t, p2)'
  BY <1>3, <1>4, <1>5, <1>6 DEF CoversGains
<1>8. QED
  BY <1>7

-----------------------------------------------------------------------------
(* Steps of the users, and steps that change no stake. *)

\* Only the current amount of c counts.
LEMMA SameGains ==
  ASSUME NEW c \in Currencies, NEW current, NEW after, after[c] = current[c],
         NEW rest, NEW funds, NEW d, NEW p, CoversGains(c, current, rest, funds, d, p)
  PROVE  CoversGains(c, after, rest, funds, d, p)
<1>1. \A epoch : PerTokenOf(epoch, c, after) = PerTokenOf(epoch, c, current)
  BY DEF PerTokenOf
<1>2. \A user : Gain(user, c, after) = Gain(user, c, current)
  BY <1>1 DEF Gain
<1>3. \A user : /\ Pending(user, c, after) = Pending(user, c, current)
                /\ Gained(user, c, after) = Gained(user, c, current)
  BY <1>1, <1>2 DEF Pending, Gained
<1>4. \A user : \A x : GainCovered(user, c, current, d, x) => GainCovered(user, c, after, d, x)
  BY <1>3 DEF GainCovered
<1>5. QED
  BY <1>4 DEF CoversGains

\* More funds, or less to carry, also cover.
LEMMA MoreFunds ==
  ASSUME NEW c \in Currencies, NEW current, NEW rest \in Nat, NEW funds \in Int, NEW d, NEW p,
         NEW more \in Int, funds <= more, CoversGains(c, current, rest, funds, d, p)
  PROVE  CoversGains(c, current, rest, more, d, p)
<1>1. d \in Nat \ {0} /\ p \in Shares /\ Sum(p, MaxUser) + rest * d <= funds * d
  BY DEF CoversGains
<1>2. Sum(p, MaxUser) \in Nat
  BY <1>1, StabilityPoolAssumption, SumBounds DEF Shares, Users
<1>3. funds * d <= more * d /\ funds * d \in Int /\ more * d \in Int /\ rest * d \in Nat
  BY <1>1, MultiplyBy, ProductType
<1>4. Sum(p, MaxUser) + rest * d <= more * d
  BY <1>1, <1>2, <1>3
<1>5. QED
  BY <1>4 DEF CoversGains

\* What a user's bounds look at.
Scale == <<stakeScalingFactor, stakeResetSnapshots>>

\* A user's bounds look at nothing else.
LEMMA SameScale ==
  ASSUME UNCHANGED Scale, NEW user
  PROVE  /\ \A d, x : StakeCovered(user, d, x)' <=> StakeCovered(user, d, x)
         /\ \A c, current, d, x :
              GainCovered(user, c, current, d, x)' <=> GainCovered(user, c, current, d, x)
BY DEF Scale, StakeCovered, GainCovered, Live, Weight, Unit, EffectiveStake, Scaled, FactorOf,
       stakeResetCount, Gained, Gain, Pending, PerTokenOf

\* A step that changes no stake keeps the stakes covered.
LEMMA StakesStay ==
  ASSUME UNCHANGED <<users, totalStakedRaw, Scale>>, NEW d, NEW q, CoversStakes(d, q)
  PROVE  CoversStakes(d, q)'
<1>1. \A u \in Users : StakeCovered(users[u], d, q[u])'
  <2> TAKE u \in Users
  <2>1. PICK user : user = users[u]
    OBVIOUS
  <2>2. StakeCovered(user, d, q[u])'
    BY <2>1, SameScale DEF CoversStakes
  <2>3. users'[u] = user
    BY <2>1
  <2>4. QED
    BY <2>2, <2>3
<1>2. QED
  BY <1>1 DEF CoversStakes

\* ... and what was gained.
LEMMA GainsStay ==
  ASSUME UNCHANGED <<users, Scale>>, NEW c, NEW current, perToken' = current,
         NEW rest, NEW funds, NEW d, NEW p, CoversGains(c, current, rest, funds, d, p)
  PROVE  CoversGains(c, perToken, rest, funds, d, p)'
<1>1. \A u \in Users : GainCovered(users[u], c, perToken, d, p[u])'
  <2> TAKE u \in Users
  <2>1. PICK user : user = users[u]
    OBVIOUS
  <2>2. GainCovered(user, c, current, d, p[u])'
    BY <2>1, SameScale DEF CoversGains
  <2>3. users'[u] = user
    BY <2>1
  <2>4. QED
    BY <2>2, <2>3
<1>2. QED
  BY <1>1 DEF CoversGains

\* Two records of one stake: what has changed is only what was paid for it.
SameStake(user, old) ==
  /\ user.stake = old.stake
  /\ user.cumulativeProductScalingFactor = old.cumulativeProductScalingFactor
  /\ user.stakeResetCount = old.stakeResetCount

LEMMA SameStakeCovered ==
  ASSUME NEW user, NEW old, SameStake(user, old)
  PROVE  /\ EffectiveStake(user) = EffectiveStake(old)
         /\ \A d, x : StakeCovered(user, d, x) <=> StakeCovered(old, d, x)
BY DEF SameStake, StakeCovered, Live, Weight, Unit, EffectiveStake, Scaled

\* A stake that has just been brought up to date is covered by itself.
LEMMA SettledCovered ==
  ASSUME TypeOK, NEW user \in UserInfo, user.stakeResetCount = stakeResetCount,
         user.cumulativeProductScalingFactor = stakeScalingFactor, NEW d \in Nat
  PROVE  StakeCovered(user, d, user.stake * d)
<1> DEFINE s == user.stake
           S == stakeScalingFactor
           P == PRECISION
<1>1. s \in Nat /\ S \in Nat /\ P \in Nat /\ stakeResetCount \in Nat
  BY UserParts, FactorPositive DEF UserInfo, stakeResetCount, TypeOK
<1>2. Live(user) /\ Weight(user) = s * P /\ Unit(user) = S * P
  BY <1>1 DEF Live, Weight, Unit
<1> HIDE DEF s, S, P
<1>3. ((s * P) * S) * d = (s * d) * (S * P) /\ (s * d) * (S * P) \in Nat
  <2>1. (s * d) \in Nat /\ S * P \in Nat
    BY <1>1, ProductType
  <2>2. (s * d) * (S * P) \in Nat
    BY <2>1, ProductType
  <2>3. QED
    BY <1>1, <2>2
<1>4. ((s * P) * S) * d <= (s * d) * (S * P)
  BY <1>3
<1>5. QED
  BY <1>2, <1>4 DEF StakeCovered, s, S

\* A call brings the user's stake up to date and changes it by as much as the total.
LEMMA StakesSettle ==
  ASSUME TypeOK, EpochsPast, NewUsersEmpty, NEW u \in Users, NEW user \in UserInfo,
         SameStake(user, users[u]), NEW change \in Int, EffectiveStake(user) + change \in Nat,
         users' = [users EXCEPT ![u] = Settled(user, change)],
         totalStakedRaw' = totalStakedRaw + change, UNCHANGED Scale,
         NEW d, NEW q, CoversStakes(d, q)
  PROVE  \E q2 : CoversStakes(d, q2)'
<1>1. PICK E : E = EffectiveStake(user)
  OBVIOUS
<1> DEFINE v  == (E + change) * d
           q2 == [q EXCEPT ![u] = v]
<1>2. /\ d \in Nat \ {0} /\ q \in Shares /\ Sum(q, MaxUser) <= totalStakedRaw * d
      /\ MaxUser \in Nat /\ Users = 1 .. MaxUser /\ totalStakedRaw \in Nat
      /\ users[u] \in UserInfo /\ users \in [Users -> UserInfo]
      /\ users[u].stakeResetCount <= stakeResetCount /\ q[u] \in Nat
      /\ users[u].cumulativeProductScalingFactor = 0 => users[u].stake = 0
  BY StabilityPoolAssumption
     DEF CoversStakes, Shares, Users, TypeOK, EpochsPast, NewUsersEmpty
<1>3. E \in Nat /\ E * d <= q[u]
  <2>1. StakeCovered(users[u], d, q[u]) /\ d \in Nat
    BY <1>2 DEF CoversStakes
  <2>2. E = EffectiveStake(users[u])
    BY <1>1, SameStakeCovered
  <2>3. QED
    BY <1>2, <2>1, <2>2, StakeBound
<1>4. E + change \in Nat /\ v \in Nat
  BY <1>1, <1>2, ProductType
<1>5. q2 \in Shares
  BY <1>2, <1>4 DEF Shares
<1>6. Sum(q2, MaxUser) <= totalStakedRaw' * d
  <2>1. q \in [1 .. MaxUser -> Int] /\ u \in 1 .. MaxUser /\ v \in Int
    BY <1>2, <1>4 DEF Shares
  <2>2. Sum(q2, MaxUser) = Sum(q, MaxUser) - q[u] + v /\ Sum(q, MaxUser) \in Int
    BY <1>2, <2>1, SumUpdate, SumType
  <2>3. v = E * d + change * d
    BY <1>2, <1>3
  <2>4. totalStakedRaw' * d = totalStakedRaw * d + change * d
    BY <1>2
  <2>5. E * d \in Int /\ change * d \in Int /\ totalStakedRaw * d \in Int
    BY <1>2, <1>3
  <2> HIDE DEF v, q2
  <2>6. Sum(q2, MaxUser) = (Sum(q, MaxUser) - q[u]) + v
    BY <1>2, <1>4, <2>2
  <2>7. QED
    BY <1>2, <1>3, <2>2, <2>3, <2>4, <2>5, <2>6
<1> DEFINE new == Settled(user, change)
<1>7. /\ new \in UserInfo /\ new.stake = E + change
      /\ new.stakeResetCount = stakeResetCount
      /\ new.cumulativeProductScalingFactor = stakeScalingFactor
  <2>1. new = [user EXCEPT !.stake = E + change,
                           !.cumulativeProductScalingFactor = stakeScalingFactor,
                           !.stakeResetCount = stakeResetCount]
    BY <1>1 DEF Settled
  <2>2. stakeScalingFactor \in Nat /\ stakeResetCount \in Nat
    BY FactorPositive DEF stakeResetCount, TypeOK
  <2>3. QED
    BY <1>4, <2>1, <2>2 DEF UserInfo
<1> HIDE DEF new
<1>8. StakeCovered(new, d, v)
  BY <1>2, <1>7, SettledCovered
<1> HIDE DEF v
<1>9. ASSUME NEW w \in Users PROVE StakeCovered(users[w], d, q2[w])'
  <2>1. PICK record : record = users'[w]
    OBVIOUS
  <2>2. StakeCovered(record, d, q2[w])
    <3>1. CASE w = u
      BY <1>2, <1>8, <2>1, <3>1 DEF new, Shares
    <3>2. CASE w # u
      BY <1>2, <2>1, <3>2 DEF CoversStakes, Shares
    <3>3. QED
      BY <3>1, <3>2
  <2>3. StakeCovered(record, d, q2[w])'
    BY <2>2, SameScale
  <2>4. QED
    BY <2>1, <2>3
<1> HIDE DEF q2
<1>10. CoversStakes(d, q2)'
  BY <1>2, <1>5, <1>6, <1>9 DEF CoversStakes
<1>11. QED
  BY <1>10

\* The record of a user who was just paid, in the current epoch: nothing of c is
\* pending.
UpToDate(user, c, current) ==
  /\ user.stakeResetCount = stakeResetCount
  /\ user.snapshot[c] = current[c] \/ (c = "sbr" /\ user.sbrClaimed)

LEMMA UpToDateCovered ==
  ASSUME TypeOK, NEW user \in UserInfo, NEW c \in Currencies, NEW current \in Amounts,
         UpToDate(user, c, current), NEW d \in Nat
  PROVE  GainCovered(user, c, current, d, 0)
<1> SUFFICES ASSUME ~(c = "sbr" /\ user.sbrClaimed), user.cumulativeProductScalingFactor # 0
             PROVE  GainCovered(user, c, current, d, 0)
  BY DEF GainCovered
<1>1. /\ user.stake \in Nat /\ stakeResetCount \in Nat /\ PRECISION \in Nat /\ Unit(user) \in Nat
      /\ user.stakeResetCount = stakeResetCount
  BY UserParts, FactorPositive DEF UpToDate, UserInfo, stakeResetCount, TypeOK
<1>2. current[c] \in Nat /\ user.snapshot[c] = current[c]
  BY DEF Amounts, UpToDate
<1>3. Gain(user, c, current) = 0
  BY <1>1, <1>2 DEF Gain, PerTokenOf
<1>4. Gained(user, c, current) = 0 * (user.stake * PRECISION) + 0
  BY <1>1, <1>3 DEF Gained
<1>5. Gained(user, c, current) = 0 /\ Live(user)
  BY <1>1, <1>4 DEF Live
<1>6. 0 * d <= 0 * Unit(user)
  BY <1>1
<1>7. QED
  BY <1>5, <1>6 DEF GainCovered

\* A user is paid at most what covers it, and its record brought up to date.
LEMMA GainsPaid ==
  ASSUME TypeOK, EpochsPast, NEW u \in Users, NEW new \in UserInfo, NEW c \in Currencies,
         NEW current \in Amounts, UpToDate(new, c, current),
         users' = [users EXCEPT ![u] = new], perToken' = current, UNCHANGED Scale,
         NEW rest \in Nat, NEW funds \in Int, NEW d, NEW p, CoversGains(c, current, rest, funds, d, p),
         NEW paid \in Int, paid = 0 \/ paid = Pending(users[u], c, current)
  PROVE  \E p2 : CoversGains(c, perToken, rest, funds - paid, d, p2)'
<1> DEFINE p2 == [p EXCEPT ![u] = 0]
<1>1. /\ d \in Nat \ {0} /\ p \in Shares /\ Sum(p, MaxUser) + rest * d <= funds * d
      /\ MaxUser \in Nat /\ Users = 1 .. MaxUser
      /\ users[u] \in UserInfo /\ users \in [Users -> UserInfo]
      /\ users[u].stakeResetCount <= stakeResetCount /\ p[u] \in Nat
  BY StabilityPoolAssumption DEF CoversGains, Shares, Users, TypeOK, EpochsPast
<1>2. paid * d <= p[u]
  <2>1. GainCovered(users[u], c, current, d, p[u]) /\ d \in Nat
    BY <1>1 DEF CoversGains
  <2>2. Pending(users[u], c, current) * d <= p[u]
    BY <1>1, <2>1, PendingBound
  <2>3. 0 * d <= p[u]
    BY <1>1
  <2>4. QED
    BY <2>2, <2>3
<1>3. p2 \in Shares
  BY <1>1 DEF Shares
<1>4. Sum(p2, MaxUser) + rest * d <= (funds - paid) * d
  <2>1. p \in [1 .. MaxUser -> Int] /\ u \in 1 .. MaxUser
    BY <1>1 DEF Shares
  <2>2. Sum(p2, MaxUser) = Sum(p, MaxUser) - p[u] + 0 /\ Sum(p, MaxUser) \in Int
    <3>1. PICK v \in Int : v = 0
      OBVIOUS
    <3>2. Sum([p EXCEPT ![u] = v], MaxUser) = Sum(p, MaxUser) - p[u] + v
      BY <1>1, <2>1, SumUpdate
    <3>3. QED
      BY <1>1, <2>1, <3>1, <3>2, SumType
  <2>3. (funds - paid) * d = funds * d - paid * d /\ funds * d \in Int /\ paid * d \in Int
        /\ rest * d \in Int
    <3>1. d \in Int
      BY <1>1
    <3>2. QED
      BY <3>1, MultiplyDifference, Rearranged
  <2> HIDE DEF p2
  <2>4. Sum(p2, MaxUser) = Sum(p, MaxUser) - p[u]
    BY <1>1, <2>2
  <2> DEFINE x == rest * d
             y == funds * d
             z == paid * d
             k == Sum(p, MaxUser)
  <2>5. x \in Int /\ y \in Int /\ z \in Int /\ k \in Int /\ k + x <= y /\ z <= p[u]
    BY <1>1, <1>2, <2>2, <2>3
  <2> HIDE DEF x, y, z, k
  <2>6. (k - p[u]) + x <= y - z
    BY <1>1, <2>5
  <2>7. QED
    BY <2>3, <2>4, <2>6 DEF x, y, z, k
<1>5. GainCovered(new, c, current, d, 0)
  BY <1>1, UpToDateCovered
<1>6. ASSUME NEW w \in Users PROVE GainCovered(users[w], c, perToken, d, p2[w])'
  <2>1. PICK record : record = users'[w]
    OBVIOUS
  <2>2. GainCovered(record, c, current, d, p2[w])
    <3>1. CASE w = u
      BY <1>1, <1>5, <2>1, <3>1 DEF Shares
    <3>2. CASE w # u
      BY <1>1, <2>1, <3>2 DEF CoversGains, Shares
    <3>3. QED
      BY <3>1, <3>2
  <2>3. GainCovered(record, c, current, d, p2[w])'
    BY <2>2, SameScale
  <2>4. QED
    BY <2>1, <2>3
<1> HIDE DEF p2
<1>7. CoversGains(c, perToken, rest, funds - paid, d, p2)'
  BY <1>1, <1>3, <1>4, <1>6 DEF CoversGains
<1>8. QED
  BY <1>7

-----------------------------------------------------------------------------
(* The invariant. *)

\* How much of the issuance has been shared out.
IssuedUpTo ==
  CASE issuance.status = "NOT_STARTED" -> 0
    [] issuance.status = "STARTED"     -> issuance.last - (issuance.end - sbrDistributionTime)
    [] OTHER                           -> sbrDistributionTime

\* What the pool has of a currency for its stakers' rewards.
Funds(c) ==
  CASE c = "sbd" -> dfid - totalStakedRaw
    [] c = "eth" -> eth
    [] OTHER     -> sbrDistributionRate * IssuedUpTo - minted - ToMint

\* The issuance began sbrDistributionTime before its end, and is over after it.
IssuanceBegun ==
  issuance.status # "NOT_STARTED" =>
    /\ sbrDistributionTime <= issuance.end
    /\ issuance.end - sbrDistributionTime <= issuance.last
    /\ issuance.status = "ENDED" => issuance.end < now

\* Nothing is pending for a user whose call is under way.
CallersPaid ==
  "interrupted" \notin lapses =>
    \A k \in DOMAIN calls : \A c \in Currencies :
      UpToDate(users[calls[k].user], c, perToken)

StakesAreCovered == "overlooked" \notin lapses => \E d, q : CoversStakes(d, q)

Covered(c) ==
  \E d, q, p : /\ CoversStakes(d, q)
               /\ CoversGains(c, perToken, loss[c], Funds(c) + roundings[c], d, p)

GainsAreCovered == lapses = {} => \A c \in Currencies : Covered(c)

InvH ==
  /\ Inv /\ NewUsersEmpty /\ IssuanceBegun
  /\ CallersPaid /\ StakesAreCovered /\ GainsAreCovered

-----------------------------------------------------------------------------
(* DFIRE to be minted when calls go on. *)

\* What calls under way will mint is a natural number.
LEMMA ToMintType ==
  ASSUME NEW s \in Seq(Call)
  PROVE  Sum([k \in DOMAIN s |-> s[k].sbr], Len(s)) \in Nat
<1> DEFINE f == [k \in DOMAIN s |-> s[k].sbr]
<1>1. Len(s) \in Nat /\ DOMAIN s = 1 .. Len(s)
  OBVIOUS
<1>2. \A k \in 1 .. Len(s) : s[k].sbr \in Nat
  <2> TAKE k \in 1 .. Len(s)
  <2>1. s[k] \in Call
    BY <1>1
  <2>2. QED
    BY <2>1 DEF Call
<1>3. f \in [1 .. Len(s) -> Nat]
  BY <1>1, <1>2
<1> HIDE DEF f
<1>4. Sum(f, Len(s)) \in Nat
  BY <1>1, <1>3, SumBounds
<1>5. QED
  BY <1>4 DEF f

\* One sequence of calls is another and a last call.
LEMMA ToMintLast ==
  ASSUME NEW long \in Seq(Call), NEW short \in Seq(Call), Len(long) = Len(short) + 1,
         \A k \in 1 .. Len(short) : short[k] = long[k]
  PROVE  Sum([k \in DOMAIN long |-> long[k].sbr], Len(long))
           = Sum([k \in DOMAIN short |-> short[k].sbr], Len(short)) + long[Len(long)].sbr
<1> DEFINE n == Len(long)
           f == [k \in DOMAIN long |-> long[k].sbr]
           g == [k \in DOMAIN short |-> short[k].sbr]
<1>1. n \in Nat \ {0} /\ Len(short) = n - 1 /\ DOMAIN long = 1 .. n /\ DOMAIN short = 1 .. n - 1
  OBVIOUS
<1>2. \A k \in 1 .. n : long[k].sbr \in Nat
  <2> TAKE k \in 1 .. n
  <2>1. long[k] \in Call
    OBVIOUS
  <2>2. QED
    BY <2>1 DEF Call
<1>3. \A k \in 1 .. n - 1 : short[k] = long[k] /\ k \in 1 .. n
  BY <1>1
<1>4. f \in [1 .. n -> Int] /\ g \in [1 .. n - 1 -> Int] /\ \A k \in 1 .. n - 1 : g[k] = f[k]
      /\ f[n] = long[n].sbr
  BY <1>1, <1>2, <1>3
<1> HIDE DEF f, g, n
<1>5. Sum(f, n) = Sum(g, n - 1) + f[n]
  BY <1>1, <1>4, SumLast
<1>6. QED
  BY <1>1, <1>4, <1>5 DEF f, g, n

-----------------------------------------------------------------------------
(* The issuance. *)

\* What is shared out of the issuance is what its clock advances by.
LEMMA IssuanceAdvances ==
  ASSUME TypeOK, IssuedInTime, IssuanceBegun, NEW more, AddSBRRewards(more), UNCHANGED now
  PROVE  /\ IssuanceBegun' /\ IssuedUpTo \in Nat /\ IssuedUpTo' \in Nat
         /\ Issuing => Issued \in Nat
         /\ IssuedUpTo' >= IssuedUpTo + (IF Issuing THEN Issued ELSE 0)
<1>1. /\ issuance.status \in {"NOT_STARTED", "STARTED", "ENDED"}
      /\ issuance.last \in Nat /\ issuance.end \in Nat /\ now \in Nat /\ sbrDistributionTime \in Nat
  BY StabilityPoolAssumption DEF TypeOK, Issuance
<1>2. /\ issuance'.status = IssuanceStatus(issuance.status)
      /\ issuance'.last = IF issuance.status = "ENDED" THEN issuance.last ELSE now
      /\ issuance'.end = IF issuance.status = "NOT_STARTED" THEN now + sbrDistributionTime
                                                            ELSE issuance.end
      /\ now' = now
  BY DEF AddSBRRewards
<1>3. CASE issuance.status = "NOT_STARTED"
  BY <1>1, <1>2, <1>3 DEF IssuanceStatus, IssuanceBegun, IssuedUpTo, Issuing
<1>4. CASE issuance.status = "STARTED"
  BY <1>1, <1>2, <1>4 DEF IssuanceStatus, IssuanceBegun, IssuedUpTo, Issuing, Issued, Over, IssuedInTime
<1>5. CASE issuance.status = "ENDED"
  BY <1>1, <1>2, <1>5 DEF IssuanceStatus, IssuanceBegun, IssuedUpTo, Issuing
<1>6. QED
  BY <1>1, <1>3, <1>4, <1>5

\* There is as much DFIRE more as is shared out.
LEMMA IssuanceFunds ==
  ASSUME TypeOK, IssuedInTime, IssuanceBegun, NEW more, AddSBRRewards(more), UNCHANGED now
  PROVE  LET rate   == sbrDistributionRate
             shared == IF Issuing THEN Issued * rate + 1 ELSE 0
         IN  /\ rate * IssuedUpTo \in Nat /\ rate * IssuedUpTo' \in Nat /\ shared \in Nat
             /\ rate * IssuedUpTo + shared <= rate * IssuedUpTo' + (IF Issuing THEN 1 ELSE 0)
<1> DEFINE rate   == sbrDistributionRate
           shared == IF Issuing THEN Issued * rate + 1 ELSE 0
           x      == IF Issuing THEN Issued ELSE 0
<1>1. /\ IssuedUpTo \in Nat /\ IssuedUpTo' \in Nat /\ rate \in Nat
      /\ Issuing => Issued \in Nat
      /\ IssuedUpTo' >= IssuedUpTo + x
  BY IssuanceAdvances, StabilityPoolAssumption
<1>2. x \in Nat
  BY <1>1
<1>3. shared = rate * x + (IF Issuing THEN 1 ELSE 0)
  <2>1. CASE Issuing
    BY <1>1, <2>1, Rearranged
  <2>2. CASE ~Issuing
    BY <1>1, <2>2
  <2>3. QED
    BY <2>1, <2>2
<1> HIDE DEF x, shared, rate
<1>4. \A m, n, k \in Nat : m >= n + k => rate * n + rate * k <= rate * m
  BY <1>1
<1>5. rate * IssuedUpTo + rate * x <= rate * IssuedUpTo'
  BY <1>1, <1>2, <1>4
<1>6. rate * IssuedUpTo \in Nat /\ rate * IssuedUpTo' \in Nat /\ rate * x \in Nat
  BY <1>1, <1>2, ProductType
<1>7. /\ rate * IssuedUpTo \in Nat /\ rate * IssuedUpTo' \in Nat /\ shared \in Nat
      /\ rate * IssuedUpTo + shared <= rate * IssuedUpTo' + (IF Issuing THEN 1 ELSE 0)
  BY <1>3, <1>5, <1>6
<1>8. QED
  BY <1>7 DEF rate, shared

\* The issuance is shared out like any amount.
LEMMA IssueCovered ==
  ASSUME TypeOK, EpochsPast, IssuedInTime, NEW after \in Amounts,
         after["sbr"] = perToken["sbr"] + IssuedPerToken,
         NEW funds \in Int, NEW d, NEW q, NEW p,
         CoversStakes(d, q), CoversGains("sbr", perToken, loss["sbr"], funds, d, p)
  PROVE  \E d2, q2, p2 :
           /\ CoversStakes(d2, q2)
           /\ CoversGains("sbr", after, LossWithSBR,
                          funds + (IF Issuing THEN Issued * sbrDistributionRate + 1 ELSE 0), d2, p2)
<1>1. "sbr" \in Currencies /\ perToken \in Amounts
  BY DEF Currencies, TypeOK
<1>2. CASE Issuing
  <2>1. Issued \in Nat /\ totalStakedRaw > 0
    BY <1>2 DEF Issuing, Issued, Over, IssuedInTime, TypeOK, Issuance
  <2>2. PICK amount \in Nat : amount = Issued * sbrDistributionRate
    BY <2>1, StabilityPoolAssumption, ProductType
  <2>3. after["sbr"] = perToken["sbr"] + PerToken("sbr", amount)
        /\ LossWithSBR = LossAfter("sbr", amount)
    BY <1>2, <2>2 DEF IssuedPerToken, LossWithSBR
  <2>4. \E d2, q2, p2 :
          /\ CoversStakes(d2, q2)
          /\ CoversGains("sbr", after, LossAfter("sbr", amount), funds + (amount + 1), d2, p2)
    BY <1>1, <2>1, <2>3, Credit
  <2>5. QED
    BY <1>2, <2>2, <2>3, <2>4
<1>3. CASE ~Issuing
  <2>1. /\ IssuedPerToken = 0 /\ LossWithSBR = loss["sbr"] /\ funds + 0 = funds
        /\ perToken["sbr"] + 0 = perToken["sbr"]
    BY <1>1, <1>3 DEF IssuedPerToken, LossWithSBR, Amounts
  <2>2. CoversGains("sbr", after, loss["sbr"], funds, d, p)
    BY <1>1, <2>1, SameGains
  <2>3. QED
    BY <1>3, <2>1, <2>2
<1>4. QED
  BY <1>2, <1>3

-----------------------------------------------------------------------------
(* stake, unstake and claim. *)

\* What _claim pays with, and the snapshots it takes.
LEMMA PaidUserUpToDate ==
  ASSUME Inv, NEW u \in Users, PayRewards(u), UNCHANGED <<now, Scale>>,
         NEW current, current = [perToken EXCEPT !["sbr"] = @ + IssuedPerToken]
  PROVE  /\ current \in Amounts /\ perToken' = current
         /\ current["sbd"] = perToken["sbd"] /\ current["eth"] = perToken["eth"]
         /\ current["sbr"] = perToken["sbr"] + IssuedPerToken
         /\ SameStake(PaidUser(u), users[u])
         /\ \A c \in Currencies : \/ PaidUser(u).snapshot[c] = current[c]
                                  \/ c = "sbr" /\ PaidUser(u).sbrClaimed
<1>1. TypeOK /\ IssuedInTime /\ users[u] \in UserInfo
  BY DEF Inv, TypeOK
<1>2. perToken \in Amounts /\ IssuedPerToken \in Nat
  BY <1>1, IssuedType DEF TypeOK
<1>3. /\ current["sbd"] = perToken["sbd"] /\ current["eth"] = perToken["eth"]
      /\ current["sbr"] = perToken["sbr"] + IssuedPerToken
      /\ current \in Amounts
  BY <1>2 DEF Amounts, Currencies
<1>4. perToken' = current
  <2>1. AddSBRRewards(Nothing)
    BY DEF PayRewards
  <2>2. perToken' = [c \in Currencies |-> perToken[c] + (IF c = "sbr" THEN IssuedPerToken ELSE 0)]
    BY <2>1 DEF AddSBRRewards, Nothing
  <2>3. \A c \in Currencies : perToken[c] \in Nat
    BY <1>2 DEF Amounts
  <2>4. \A c \in Currencies : perToken'[c] = current[c]
    BY <1>2, <1>3, <2>2, <2>3 DEF Currencies
  <2>5. current = [c \in Currencies |-> current[c]] /\ perToken' = [c \in Currencies |-> perToken'[c]]
    BY <1>3, <2>2 DEF Amounts
  <2>6. QED
    BY <2>4, <2>5
<1> DEFINE status  == IssuanceStatus(issuance.status)
           snap    == [c \in Currencies |->
                         IF c = "sbr" /\ status = "ENDED" THEN users[u].snapshot[c] ELSE current[c]]
           claimed == users[u].sbrClaimed \/ status = "ENDED"
<1>5. PaidUser(u) = [users[u] EXCEPT !.snapshot = snap, !.sbrClaimed = claimed]
  BY DEF PaidUser, SnapshotsTaken
<1>6. \A c \in Currencies : snap[c] = current[c] \/ (c = "sbr" /\ claimed)
  OBVIOUS
<1> HIDE DEF snap, claimed
<1>7. PaidUser(u).snapshot = snap /\ PaidUser(u).sbrClaimed = claimed
      /\ SameStake(PaidUser(u), users[u])
  BY <1>1, <1>5 DEF UserInfo, SameStake
<1>8. QED
  BY <1>3, <1>4, <1>6, <1>7

\* A call of u, which changes that user, leaves a currency covered, if there is
\* as much of it as before but for what u is paid.
LEMMA UserCovered ==
  ASSUME TypeOK, EpochsPast, NEW u \in Users, NEW new \in UserInfo, users' = [users EXCEPT ![u] = new],
         NEW c \in Currencies, NEW current \in Amounts, perToken' = current,
         UpToDate(new, c, current), UNCHANGED Scale,
         \A d, q : CoversStakes(d, q) => \E q2 : CoversStakes(d, q2)',
         NEW rest \in Nat, rest = loss'[c],
         NEW paid \in Int, paid = 0 \/ paid = Pending(users[u], c, current),
         NEW funds \in Int, funds = (Funds(c) + roundings[c])',
         NEW before \in Int, before <= funds + paid,
         NEW d, NEW q, NEW p, CoversStakes(d, q), CoversGains(c, current, rest, before, d, p)
  PROVE  Covered(c)'
<1>1. CoversGains(c, current, rest, funds + paid, d, p)
  BY MoreFunds
<1>2. PICK p2 : CoversGains(c, perToken, rest, (funds + paid) - paid, d, p2)'
  <2>1. funds + paid \in Int
    OBVIOUS
  <2>2. QED
    BY <1>1, <2>1, GainsPaid
<1>3. (funds + paid) - paid = funds
  OBVIOUS
<1>4. PICK q2 : CoversStakes(d, q2)'
  OBVIOUS
<1>5. CoversGains(c, perToken, rest, funds, d, p2)'
  BY <1>2, <1>3
<1>6. CoversGains(c, perToken, loss[c], Funds(c) + roundings[c], d, p2)'
  BY <1>5
<1>7. QED
  BY <1>4, <1>6 DEF Covered

\* A step that changes no stake leaves a currency covered.
LEMMA SharedCovered ==
  ASSUME UNCHANGED <<users, totalStakedRaw, Scale>>,
         NEW c \in Currencies, NEW current, perToken' = current, NEW rest \in Nat, rest = loss'[c],
         NEW funds \in Int, funds = (Funds(c) + roundings[c])',
         NEW before \in Int, before <= funds,
         NEW d, NEW q, NEW p, CoversStakes(d, q), CoversGains(c, current, rest, before, d, p)
  PROVE  Covered(c)'
<1>1. CoversGains(c, current, rest, funds, d, p)
  BY MoreFunds
<1>2. CoversGains(c, perToken, rest, funds, d, p)'
  BY <1>1, GainsStay
<1>3. CoversGains(c, perToken, loss[c], Funds(c) + roundings[c], d, p)'
  BY <1>2
<1>4. CoversStakes(d, q)'
  BY StakesStay
<1>5. QED
  BY <1>3, <1>4 DEF Covered

\* What a call pays leaves the others' rewards covered.
LEMMA PayCovered ==
  ASSUME Inv, IssuanceBegun, NEW u \in Users, PayRewards(u), UNCHANGED <<now, Scale>>,
         NEW new \in UserInfo, users' = [users EXCEPT ![u] = new],
         NEW current, current = [perToken EXCEPT !["sbr"] = @ + IssuedPerToken],
         \A c \in Currencies : UpToDate(new, c, current),
         \A d, q : CoversStakes(d, q) => \E q2 : CoversStakes(d, q2)',
         dfid' \in Nat, totalStakedRaw' \in Nat, minted' \in Nat, ToMint \in Nat, ToMint' \in Nat,
         dfid' - totalStakedRaw' = (dfid - PendingNow(u, "sbd")) - totalStakedRaw,
         minted' + ToMint' = minted + ToMint + SBRToMint(u),
         NEW c \in Currencies, Covered(c)
  PROVE  Covered(c)'
<1>1. /\ current \in Amounts /\ perToken' = current
      /\ current["sbd"] = perToken["sbd"] /\ current["eth"] = perToken["eth"]
      /\ current["sbr"] = perToken["sbr"] + IssuedPerToken
  BY PaidUserUpToDate
<1>2. /\ TypeOK /\ EpochsPast /\ IssuedInTime
      /\ users[u] \in UserInfo /\ users[u].stakeResetCount <= stakeResetCount
      /\ dfid \in Nat /\ eth \in Nat /\ minted \in Nat /\ totalStakedRaw \in Nat
      /\ loss \in Amounts /\ roundings \in Amounts
  BY DEF Inv, TypeOK, EpochsPast
<1>3. /\ AddSBRRewards(Nothing)
      /\ loss' = [loss EXCEPT !["sbr"] = LossWithSBR]
      /\ roundings' = [roundings EXCEPT !["sbr"] = @ + (IF Issuing THEN 1 ELSE 0)]
      /\ eth' = eth - PendingNow(u, "eth")
  BY ZenonT(30) DEF PayRewards
<1>4. loss' \in Amounts /\ roundings' \in Amounts /\ eth' \in Nat
      /\ dfid - PendingNow(u, "sbd") \in Nat /\ SBRToMint(u) \in Nat
  BY PayRewardsStep
<1>5. PICK rest \in Nat : rest = loss'[c]
  BY <1>4 DEF Amounts
<1>6. PICK paid \in Int : paid = Pending(users[u], c, current)
  BY <1>1, <1>2, PendingIsInt
<1>7. /\ loss["sbd"] \in Nat /\ loss["eth"] \in Nat /\ loss["sbr"] \in Nat
      /\ roundings["sbd"] \in Nat /\ roundings["eth"] \in Nat /\ roundings["sbr"] \in Nat
      /\ PendingNow(u, "sbd") \in Int /\ PendingNow(u, "eth") \in Int
  <2>1. perToken \in Amounts /\ "sbd" \in Currencies /\ "eth" \in Currencies /\ "sbr" \in Currencies
    BY <1>2 DEF TypeOK, Currencies
  <2>2. PendingNow(u, "sbd") \in Int /\ PendingNow(u, "eth") \in Int
    BY <1>2, <2>1, PendingIsInt DEF PendingNow
  <2>3. QED
    BY <1>2, <2>1, <2>2 DEF Amounts
\* What there is for the currency before and after, and what is paid of it.
<1>8. ASSUME NEW funds \in Int, NEW before \in Int, NEW d, NEW q, NEW p, CoversStakes(d, q),
             CoversGains(c, current, rest, before, d, p), before <= funds + paid,
             funds = (Funds(c) + roundings[c])'
      PROVE  Covered(c)'
  BY <1>1, <1>2, <1>5, <1>6, <1>8, UserCovered
<1>9. CASE c = "sbd"
  <2>1. /\ Funds(c) = dfid - totalStakedRaw /\ Funds(c)' = dfid' - totalStakedRaw'
        /\ roundings'[c] = roundings[c] /\ rest = loss[c]
        /\ paid = PendingNow(u, "sbd") /\ current[c] = perToken[c]
    <3>1. roundings'[c] = roundings[c] /\ loss'[c] = loss[c]
      BY <1>2, <1>3, <1>9 DEF Amounts
    <3>2. paid = PendingNow(u, "sbd")
      <4>1. Pending(users[u], "sbd", current) = Pending(users[u], "sbd", perToken)
        BY <1>1 DEF Pending, Gain, PerTokenOf
      <4>2. QED
        BY <1>6, <1>9, <4>1 DEF PendingNow
    <3>3. QED
      BY <1>1, <1>5, <1>9, <3>1, <3>2 DEF Funds
  <2>2. PICK before \in Int : before = Funds(c) + roundings[c]
    BY <1>2, <1>7, <1>9, <2>1
  <2>3. PICK funds \in Int : funds = (Funds(c) + roundings[c])'
    BY <1>2, <1>7, <1>9, <2>1
  <2>4. before <= funds + paid
    BY <1>2, <1>7, <1>9, <2>1, <2>2, <2>3
  <2>5. PICK d, q, p : CoversStakes(d, q) /\ CoversGains(c, perToken, rest, before, d, p)
    BY <2>1, <2>2 DEF Covered
  <2>6. CoversGains(c, current, rest, before, d, p)
    BY <2>1, <2>5, SameGains
  <2>7. QED
    BY <1>8, <2>3, <2>4, <2>5, <2>6
<1>10. CASE c = "eth"
  <2>1. /\ Funds(c) = eth /\ Funds(c)' = eth'
        /\ roundings'[c] = roundings[c] /\ rest = loss[c]
        /\ paid = PendingNow(u, "eth") /\ current[c] = perToken[c]
    <3>1. roundings'[c] = roundings[c] /\ loss'[c] = loss[c]
      BY <1>2, <1>3, <1>10 DEF Amounts
    <3>2. paid = PendingNow(u, "eth")
      <4>1. Pending(users[u], "eth", current) = Pending(users[u], "eth", perToken)
        BY <1>1 DEF Pending, Gain, PerTokenOf
      <4>2. QED
        BY <1>6, <1>10, <4>1 DEF PendingNow
    <3>3. QED
      BY <1>1, <1>5, <1>10, <3>1, <3>2 DEF Funds
  <2>2. PICK before \in Int : before = Funds(c) + roundings[c]
    BY <1>2, <1>7, <1>10, <2>1
  <2>3. PICK funds \in Int : funds = (Funds(c) + roundings[c])'
    BY <1>2, <1>4, <1>7, <1>10, <2>1
  <2>4. before <= funds + paid
    BY <1>2, <1>3, <1>7, <1>10, <2>1, <2>2, <2>3
  <2>5. PICK d, q, p : CoversStakes(d, q) /\ CoversGains(c, perToken, rest, before, d, p)
    BY <2>1, <2>2 DEF Covered
  <2>6. CoversGains(c, current, rest, before, d, p)
    BY <2>1, <2>5, SameGains
  <2>7. QED
    BY <1>8, <2>3, <2>4, <2>5, <2>6
<1>11. CASE c = "sbr"
  <2> DEFINE more == IF Issuing THEN Issued * sbrDistributionRate + 1 ELSE 0
             rate == sbrDistributionRate
  <2>1. /\ rate * IssuedUpTo \in Nat /\ rate * IssuedUpTo' \in Nat /\ more \in Nat
        /\ rate * IssuedUpTo + more <= rate * IssuedUpTo' + (IF Issuing THEN 1 ELSE 0)
    BY <1>2, <1>3, IssuanceFunds
  <2>2. /\ Funds(c) = rate * IssuedUpTo - minted - ToMint
        /\ Funds(c)' = rate * IssuedUpTo' - minted' - ToMint'
        /\ roundings'[c] = roundings[c] + (IF Issuing THEN 1 ELSE 0) /\ rest = LossWithSBR
        /\ paid = SBRToMint(u)
    <3>1. roundings'[c] = roundings[c] + (IF Issuing THEN 1 ELSE 0) /\ loss'[c] = LossWithSBR
      BY <1>2, <1>3, <1>11 DEF Amounts
    <3>2. paid = SBRToMint(u)
      BY <1>6, <1>11 DEF SBRToMint
    <3>3. QED
      BY <1>5, <1>11, <3>1, <3>2 DEF Funds
  <2> HIDE DEF more, rate
  <2>3. PICK first \in Int : first = Funds(c) + roundings[c]
    BY <1>2, <1>7, <1>11, <2>1, <2>2
  <2>4. PICK funds \in Int : funds = (Funds(c) + roundings[c])'
    BY <1>2, <1>7, <1>11, <2>1, <2>2
  <2>5. first + more <= funds + paid /\ first + more \in Int
    BY <1>2, <1>4, <1>7, <1>11, <2>1, <2>2, <2>3, <2>4
  <2>6. PICK d, q, p : CoversStakes(d, q) /\ CoversGains("sbr", perToken, loss["sbr"], first, d, p)
    BY <1>11, <2>3 DEF Covered
  <2>7. PICK d2, q2, p2 : CoversStakes(d2, q2)
                          /\ CoversGains("sbr", current, LossWithSBR, first + more, d2, p2)
    BY <1>1, <1>2, <2>6, IssueCovered DEF more
  <2>8. QED
    BY <1>8, <1>11, <2>2, <2>4, <2>5, <2>7
<1>12. QED
  BY <1>9, <1>10, <1>11 DEF Currencies

\* The rest of a call settles the user's stake.
LEMMA CompleteCovers ==
  ASSUME Inv, NewUsersEmpty, NEW u \in Users, NEW user \in UserInfo, SameStake(user, users[u]),
         NEW op \in {"stake", "unstake", "claim"}, NEW amount \in Nat, NEW sbr, NEW held,
         Complete(u, user, op, amount, sbr, held)
  PROVE  /\ NewUsersEmpty' /\ UNCHANGED <<now, Scale>>
         /\ \A d, q : CoversStakes(d, q) => \E q2 : CoversStakes(d, q2)'
         /\ \E new \in UserInfo :
              /\ users' = [users EXCEPT ![u] = new] /\ new.stakeResetCount = stakeResetCount
              /\ new.snapshot = user.snapshot /\ new.sbrClaimed = user.sbrClaimed
         /\ \E change \in Int :
              totalStakedRaw' = totalStakedRaw + change /\ dfid' = held + change
         /\ minted' = minted + sbr
<1> DEFINE change == CASE op = "stake" -> amount [] op = "unstake" -> -amount [] OTHER -> 0
<1>1. /\ op = "unstake" => amount <= EffectiveStake(user)
      /\ users' = [users EXCEPT ![u] = Settled(user, change)]
      /\ totalStakedRaw' = totalStakedRaw + change
      /\ dfid' = held + change
      /\ minted' = minted + sbr
      /\ UNCHANGED <<stakeScalingFactor, stakeResetSnapshots, now>>
  BY ZenonT(30) DEF Complete
<1>2. /\ TypeOK /\ EpochsPast /\ stakeResetCount \in Nat /\ stakeScalingFactor \in Nat \ {0}
      /\ users \in [Users -> UserInfo] /\ users[u].stakeResetCount <= stakeResetCount
  BY FactorPositive DEF Inv, TypeOK, EpochsPast, stakeResetCount
<1>3. EffectiveStake(user) \in Nat
  BY <1>2, EffectiveStakeType DEF SameStake
<1>4. change \in Int /\ EffectiveStake(user) + change \in Nat
  BY <1>1, <1>3
<1> HIDE DEF change
<1>5. UNCHANGED <<now, Scale>>
  BY <1>1 DEF Scale
<1>6. \A d, q : CoversStakes(d, q) => \E q2 : CoversStakes(d, q2)'
  BY <1>1, <1>2, <1>4, <1>5, StakesSettle
<1> DEFINE stake == EffectiveStake(user) + change
           new   == Settled(user, change)
<1>7. new = [user EXCEPT !.stake = stake, !.cumulativeProductScalingFactor = stakeScalingFactor,
                         !.stakeResetCount = stakeResetCount]
  BY DEF Settled
<1>8. stake \in Nat /\ stakeScalingFactor \in Nat
  BY <1>2, <1>4
<1> HIDE DEF stake, new
<1>9. /\ new \in UserInfo /\ new.stakeResetCount = stakeResetCount
      /\ new.snapshot = user.snapshot /\ new.sbrClaimed = user.sbrClaimed
      /\ new.cumulativeProductScalingFactor = stakeScalingFactor
  BY <1>2, <1>7, <1>8 DEF UserInfo
<1>10. users' = [users EXCEPT ![u] = new]
  BY <1>1 DEF new
<1>11. NewUsersEmpty'
  BY <1>2, <1>9, <1>10 DEF NewUsersEmpty
<1>12. QED
  BY <1>1, <1>4, <1>5, <1>6, <1>9, <1>10, <1>11

-----------------------------------------------------------------------------
(* The steps. *)

\* What has not lapsed after a step has not lapsed in it or before it.
LEMMA Remembered ==
  ASSUME Remember
  PROVE  /\ "overlooked" \notin lapses' => "overlooked" \notin lapses /\ ~Overlooks
         /\ "interrupted" \notin lapses' => "interrupted" \notin lapses /\ ~Interrupts
         /\ lapses' = {} => lapses = {} /\ ~Overlooks /\ ~Interrupts
<1> DEFINE x == IF Overlooks THEN {"overlooked"} ELSE {}
           y == IF Interrupts THEN {"interrupted"} ELSE {}
<1>1. lapses' = lapses \union x \union y
  BY DEF Remember
<1>2. (Overlooks => "overlooked" \in x) /\ (Interrupts => "interrupted" \in y)
  OBVIOUS
<1> HIDE DEF x, y
<1>3. QED
  BY <1>1, <1>2

\* The calls under way have paid what was pending, unless they are interrupted.
LEMMA CallersStay ==
  ASSUME TypeOK, CallersPaid, UNCHANGED stakeResetSnapshots, "interrupted" \notin lapses, ~Interrupts,
         NEW u \in Users, NEW new \in UserInfo, users' = [users EXCEPT ![u] = new],
         NEW current, perToken' = current, \A c \in Currencies : UpToDate(new, c, current)
  PROVE  \A k \in DOMAIN calls : \A c \in Currencies : UpToDate(users'[calls[k].user], c, current)
<1>1. CASE calls = <<>>
  BY <1>1
<1>2. CASE calls # <<>>
  <2>1. perToken = current
    BY <1>2 DEF Interrupts
  <2>2. users \in [Users -> UserInfo] /\ calls \in Seq(Call)
    BY DEF TypeOK
  <2> TAKE k \in DOMAIN calls
  <2> TAKE c \in Currencies
  <2>3. calls[k] \in Call
    BY <2>2
  <2>4. PICK v \in Users : v = calls[k].user
    BY <2>3 DEF Call
  <2>5. UpToDate(users'[v], c, current)
    <3>1. CASE v = u
      BY <2>2, <3>1
    <3>2. CASE v # u
      BY <2>1, <2>2, <2>4, <3>2 DEF CallersPaid
    <3>3. QED
      BY <3>1, <3>2
  <2>6. QED
    BY <2>4, <2>5
<1>3. QED
  BY <1>1, <1>2

\* If the stakes do not change, the calls go on as they were.
LEMMA CallersGoOn ==
  ASSUME CallersPaid, UNCHANGED <<users, calls>>, Remember
  PROVE  CallersPaid'
<1> SUFFICES ASSUME "interrupted" \notin lapses', calls # <<>> PROVE CallersPaid'
  BY DEF CallersPaid
<1>1. "interrupted" \notin lapses /\ UNCHANGED <<perToken, stakeResetSnapshots>>
  BY Remembered DEF Interrupts
<1>2. QED
  BY <1>1 DEF CallersPaid, UpToDate, stakeResetCount

\* A transaction settles a stake and pays for it.
LEMMA TransactCovers ==
  ASSUME InvH, Inv', Remember, NEW u \in Users, NEW op \in {"stake", "unstake", "claim"},
         NEW amount \in Nat, Transact(u, op, amount)
  PROVE  InvH'
<1> DEFINE held == dfid - PendingNow(u, "sbd")
           user == PaidUser(u)
           sbr  == SBRToMint(u)
<1>1. /\ PayRewards(u) /\ Complete(u, user, op, amount, sbr, held) /\ UNCHANGED calls
      /\ Inv /\ TypeOK /\ EpochsPast /\ IssuedInTime /\ IssuanceBegun /\ NewUsersEmpty
      /\ users \in [Users -> UserInfo] /\ stakeResetCount \in Nat
  BY DEF Transact, InvH, Inv, TypeOK, stakeResetCount
<1>2. UNCHANGED <<now, Scale>>
  BY <1>1 DEF Complete, Scale
<1>3. PICK current : current = [perToken EXCEPT !["sbr"] = @ + IssuedPerToken]
  OBVIOUS
<1>4. /\ current \in Amounts /\ perToken' = current
      /\ SameStake(user, users[u])
      /\ \A c \in Currencies : user.snapshot[c] = current[c] \/ (c = "sbr" /\ user.sbrClaimed)
  BY <1>1, <1>2, <1>3, PaidUserUpToDate
<1>5. user \in UserInfo /\ sbr \in Nat /\ held \in Nat
  BY <1>1, <1>2, PayRewardsStep
<1> HIDE DEF held, user, sbr
<1>6. /\ NewUsersEmpty'
      /\ \A d, q : CoversStakes(d, q) => \E q2 : CoversStakes(d, q2)'
      /\ \E new \in UserInfo :
           /\ users' = [users EXCEPT ![u] = new] /\ new.stakeResetCount = stakeResetCount
           /\ new.snapshot = user.snapshot /\ new.sbrClaimed = user.sbrClaimed
      /\ \E change \in Int :
           totalStakedRaw' = totalStakedRaw + change /\ dfid' = held + change
      /\ minted' = minted + sbr
  BY <1>1, <1>4, <1>5, CompleteCovers
<1>7. PICK new \in UserInfo :
           /\ users' = [users EXCEPT ![u] = new] /\ new.stakeResetCount = stakeResetCount
           /\ new.snapshot = user.snapshot /\ new.sbrClaimed = user.sbrClaimed
  BY <1>6
<1>8. PICK change \in Int : totalStakedRaw' = totalStakedRaw + change /\ dfid' = held + change
  BY <1>6
<1>9. \A c \in Currencies : UpToDate(new, c, current)
  BY <1>4, <1>7 DEF UpToDate
<1>10. IssuanceBegun'
  BY <1>1, <1>2, IssuanceAdvances DEF PayRewards
<1>11. CallersPaid'
  <2> SUFFICES ASSUME "interrupted" \notin lapses' PROVE CallersPaid'
    BY DEF CallersPaid
  <2>1. "interrupted" \notin lapses /\ ~Interrupts /\ CallersPaid
    BY Remembered DEF InvH
  <2>2. UNCHANGED stakeResetSnapshots
    BY <1>2 DEF Scale
  <2>3. \A k \in DOMAIN calls : \A c \in Currencies : UpToDate(users'[calls[k].user], c, current)
    BY <1>1, <1>4, <1>7, <1>9, <2>1, <2>2, CallersStay
  <2>4. stakeResetCount' = stakeResetCount
    BY <2>2 DEF stakeResetCount
  <2>5. QED
    BY <1>1, <1>4, <2>3, <2>4 DEF CallersPaid, UpToDate
<1>12. StakesAreCovered'
  BY <1>6, Remembered DEF InvH, StakesAreCovered
<1>13. GainsAreCovered'
  <2> SUFFICES ASSUME lapses' = {}, NEW c \in Currencies PROVE Covered(c)'
    BY DEF GainsAreCovered
  <2>1. Covered(c)
    BY Remembered DEF InvH, GainsAreCovered
  <2>2. /\ dfid' \in Nat /\ totalStakedRaw' \in Nat /\ minted' \in Nat /\ calls \in Seq(Call)
        /\ dfid \in Nat /\ totalStakedRaw \in Nat /\ minted \in Nat
    BY <1>1 DEF Inv, TypeOK
  <2>3. ToMint \in Nat /\ ToMint' = ToMint
    BY <1>1, <2>2, ToMintType DEF ToMint
  <2>4. dfid' - totalStakedRaw' = (dfid - PendingNow(u, "sbd")) - totalStakedRaw
    <3>1. dfid' - totalStakedRaw' = held - totalStakedRaw
      BY <1>5, <1>8, <2>2
    <3>2. QED
      BY <3>1 DEF held
  <2>5. minted' + ToMint' = minted + ToMint + SBRToMint(u)
    <3>1. minted' + ToMint' = minted + ToMint + sbr
      BY <1>5, <1>6, <2>2, <2>3
    <3>2. QED
      BY <3>1 DEF sbr
  <2>6. QED
    BY <1>1, <1>2, <1>3, <1>6, <1>7, <1>9, <2>1, <2>2, <2>3, <2>4, <2>5, PayCovered
<1>14. QED
  BY <1>6, <1>10, <1>11, <1>12, <1>13 DEF InvH

\* What the calls under way will mint grows by what a new call will.
LEMMA NewCallMints ==
  ASSUME calls \in Seq(Call), NEW call \in Call, calls' = Append(calls, call)
  PROVE  ToMint \in Nat /\ ToMint' \in Nat /\ ToMint' = ToMint + call.sbr
<1>1. /\ calls' \in Seq(Call) /\ Len(calls') = Len(calls) + 1 /\ calls'[Len(calls')] = call
      /\ \A k \in 1 .. Len(calls) : calls[k] = calls'[k]
  OBVIOUS
<1>2. PICK long \in Seq(Call) : long = calls'
  BY <1>1
<1>3. Sum([k \in DOMAIN long |-> long[k].sbr], Len(long))
        = Sum([k \in DOMAIN calls |-> calls[k].sbr], Len(calls)) + long[Len(long)].sbr
  BY <1>1, <1>2, ToMintLast
<1>4. Sum([k \in DOMAIN long |-> long[k].sbr], Len(long)) \in Nat
  BY ToMintType
<1>5. Sum([k \in DOMAIN calls |-> calls[k].sbr], Len(calls)) \in Nat
  BY ToMintType
<1>6. QED
  BY <1>1, <1>2, <1>3, <1>4, <1>5 DEF ToMint

\* A call up to its payment pays, and leaves the stake for later.
LEMMA BeginCallCovers ==
  ASSUME InvH, Inv', Remember, NEW u \in Users, NEW op \in {"stake", "unstake", "claim"},
         NEW amount \in Nat, BeginCall(u, op, amount)
  PROVE  InvH'
<1> DEFINE call == [user |-> u, op |-> op, amount |-> amount, sbr |-> SBRToMint(u)]
           new  == PaidUser(u)
<1>1. /\ PayRewards(u)
      /\ users' = [users EXCEPT ![u] = new]
      /\ dfid' = dfid - PendingNow(u, "sbd")
      /\ calls' = Append(calls, call)
      /\ UNCHANGED <<totalStakedRaw, stakeScalingFactor, stakeResetSnapshots, now, minted, canReceive>>
      /\ Inv /\ TypeOK /\ EpochsPast /\ IssuedInTime /\ IssuanceBegun /\ NewUsersEmpty
      /\ users \in [Users -> UserInfo] /\ stakeResetCount \in Nat /\ calls \in Seq(Call)
  BY DEF BeginCall, InvH, Inv, TypeOK, stakeResetCount
<1>2. UNCHANGED <<now, Scale>>
  BY <1>1 DEF Scale
<1>3. PICK current : current = [perToken EXCEPT !["sbr"] = @ + IssuedPerToken]
  OBVIOUS
<1>4. /\ current \in Amounts /\ perToken' = current
      /\ SameStake(new, users[u])
      /\ \A c \in Currencies : new.snapshot[c] = current[c] \/ (c = "sbr" /\ new.sbrClaimed)
  BY <1>1, <1>2, <1>3, PaidUserUpToDate
<1>5. new \in UserInfo /\ SBRToMint(u) \in Nat
  BY <1>1, <1>2, PayRewardsStep
<1>6. call \in Call /\ call.user = u /\ call.sbr = SBRToMint(u)
  BY <1>5 DEF Call
<1> HIDE DEF call, new
<1>7. /\ Len(calls) \in Nat /\ Len(calls') = Len(calls) + 1 /\ calls'[Len(calls')] = call
      /\ DOMAIN calls = 1 .. Len(calls) /\ DOMAIN calls' = 1 .. Len(calls) + 1
      /\ \A k \in 1 .. Len(calls) : calls'[k] = calls[k]
  BY <1>1, <1>6
<1>8. NewUsersEmpty'
  BY <1>1, <1>4, <1>5 DEF NewUsersEmpty, SameStake
<1>9. \A d, q : CoversStakes(d, q) => CoversStakes(d, q)'
  <2> SUFFICES ASSUME NEW d, NEW q, CoversStakes(d, q) PROVE CoversStakes(d, q)'
    OBVIOUS
  <2>1. ASSUME NEW v \in Users PROVE StakeCovered(users[v], d, q[v])'
    <3>1. PICK user : user = users'[v]
      OBVIOUS
    <3>2. StakeCovered(user, d, q[v])
      <4>1. CASE v = u
        <5>1. user = new /\ StakeCovered(users[u], d, q[u])
          BY <1>1, <3>1, <4>1 DEF CoversStakes
        <5>2. QED
          BY <1>4, <4>1, <5>1, SameStakeCovered
      <4>2. CASE v # u
        BY <1>1, <3>1, <4>2 DEF CoversStakes
      <4>3. QED
        BY <4>1, <4>2
    <3>3. StakeCovered(user, d, q[v])'
      BY <1>2, <3>2, SameScale
    <3>4. QED
      BY <3>1, <3>3
  <2>2. QED
    BY <1>1, <2>1 DEF CoversStakes
<1>10. IssuanceBegun'
  BY <1>1, <1>2, IssuanceAdvances DEF PayRewards
<1>11. "interrupted" \notin lapses' => \A c \in Currencies : UpToDate(new, c, current)
  <2> SUFFICES ASSUME "interrupted" \notin lapses' PROVE new.stakeResetCount = stakeResetCount
    BY <1>4 DEF UpToDate
  <2>1. ~Interrupts
    BY Remembered
  <2>2. users[u].stakeResetCount = stakeResetCount
    BY <1>6, <1>7, <2>1 DEF Interrupts
  <2>3. QED
    BY <1>4, <2>2 DEF SameStake
<1>12. CallersPaid'
  <2> SUFFICES ASSUME "interrupted" \notin lapses' PROVE CallersPaid'
    BY DEF CallersPaid
  <2>1. "interrupted" \notin lapses /\ ~Interrupts /\ CallersPaid
    BY Remembered DEF InvH
  <2>2. UNCHANGED stakeResetSnapshots /\ stakeResetCount' = stakeResetCount
    BY <1>1 DEF stakeResetCount
  <2>3. \A k \in DOMAIN calls : \A c \in Currencies : UpToDate(users'[calls[k].user], c, current)
    BY <1>1, <1>4, <1>5, <1>11, <2>1, <2>2, CallersStay
  <2>4. \A c \in Currencies : UpToDate(users'[call.user], c, current)
    BY <1>1, <1>6, <1>11
  <2>5. \A k \in DOMAIN calls' : \A c \in Currencies : UpToDate(users'[calls'[k].user], c, current)
    <3> TAKE k \in DOMAIN calls'
    <3>1. CASE k = Len(calls) + 1
      BY <1>7, <2>4, <3>1
    <3>2. CASE k # Len(calls) + 1
      BY <1>7, <2>3, <3>2
    <3>3. QED
      BY <3>1, <3>2
  <2>6. QED
    BY <1>4, <2>2, <2>5 DEF CallersPaid, UpToDate
<1>13. StakesAreCovered'
  BY <1>9, Remembered DEF InvH, StakesAreCovered
<1>14. GainsAreCovered'
  <2> SUFFICES ASSUME lapses' = {}, NEW c \in Currencies PROVE Covered(c)'
    BY DEF GainsAreCovered
  <2>1. Covered(c)
    BY Remembered DEF InvH, GainsAreCovered
  <2>2. /\ dfid' \in Nat /\ totalStakedRaw' \in Nat /\ minted' \in Nat
        /\ dfid \in Nat /\ totalStakedRaw \in Nat /\ minted \in Nat
    BY <1>1 DEF Inv, TypeOK
  <2>3. ToMint \in Nat /\ ToMint' \in Nat /\ ToMint' = ToMint + SBRToMint(u)
    BY <1>1, <1>6, NewCallMints
  <2>4. dfid' - totalStakedRaw' = (dfid - PendingNow(u, "sbd")) - totalStakedRaw
    BY <1>1
  <2>5. minted' + ToMint' = minted + ToMint + SBRToMint(u)
    BY <1>1, <1>5, <2>2, <2>3
  <2>6. \A k \in Currencies : UpToDate(new, k, current)
    BY <1>11
  <2>7. QED
    BY <1>1, <1>2, <1>3, <1>5, <1>9, <2>1, <2>2, <2>3, <2>4, <2>5, <2>6, PayCovered
<1>15. QED
  BY <1>8, <1>10, <1>12, <1>13, <1>14 DEF InvH

\* The rest of the innermost call settles a stake for which nothing is pending.
LEMMA FinishCallCovers ==
  ASSUME InvH, Inv', Remember, NEW op \in {"stake", "unstake", "claim"}, FinishCall(op)
  PROVE  InvH'
<1>1. PICK call : call = calls[Len(calls)]
  OBVIOUS
<1>2. /\ calls # <<>> /\ call.op = op
      /\ Complete(call.user, users[call.user], op, call.amount, call.sbr, dfid)
      /\ calls' = SubSeq(calls, 1, Len(calls) - 1)
      /\ UNCHANGED <<perToken, loss, issuance, eth, roundings>>
      /\ Inv /\ TypeOK /\ EpochsPast /\ IssuedInTime /\ IssuanceBegun /\ NewUsersEmpty
      /\ users \in [Users -> UserInfo] /\ stakeResetCount \in Nat /\ calls \in Seq(Call)
      /\ dfid \in Nat /\ perToken \in Amounts /\ loss \in Amounts /\ roundings \in Amounts
  BY <1>1 DEF FinishCall, InvH, Inv, TypeOK, stakeResetCount
<1>3. Len(calls) \in Nat \ {0} /\ call \in Call
  BY <1>1, <1>2
<1>4. PICK u \in Users : u = call.user
  BY <1>3 DEF Call
<1>5. PICK sbr \in Nat : sbr = call.sbr
  BY <1>3 DEF Call
<1>6. PICK amount \in Nat : amount = call.amount
  BY <1>3 DEF Call
<1>7. PICK user \in UserInfo : user = users[u]
  BY <1>2
<1>8. SameStake(user, users[u]) /\ Complete(u, user, op, amount, sbr, dfid)
  BY <1>2, <1>4, <1>5, <1>6, <1>7 DEF SameStake
<1>9. /\ NewUsersEmpty' /\ UNCHANGED <<now, Scale>>
      /\ \A d, q : CoversStakes(d, q) => \E q2 : CoversStakes(d, q2)'
      /\ \E new \in UserInfo :
           /\ users' = [users EXCEPT ![u] = new] /\ new.stakeResetCount = stakeResetCount
           /\ new.snapshot = user.snapshot /\ new.sbrClaimed = user.sbrClaimed
      /\ \E change \in Int :
           totalStakedRaw' = totalStakedRaw + change /\ dfid' = dfid + change
      /\ minted' = minted + sbr
  BY <1>2, <1>8, CompleteCovers
<1>10. PICK new \in UserInfo :
         /\ users' = [users EXCEPT ![u] = new] /\ new.stakeResetCount = stakeResetCount
         /\ new.snapshot = user.snapshot /\ new.sbrClaimed = user.sbrClaimed
  BY <1>9
<1>11. PICK change \in Int : totalStakedRaw' = totalStakedRaw + change /\ dfid' = dfid + change
  BY <1>9
<1>12. IssuanceBegun'
  BY <1>2, <1>9 DEF IssuanceBegun
<1>13. "interrupted" \notin lapses => \A c \in Currencies : UpToDate(new, c, perToken)
  <2> SUFFICES ASSUME "interrupted" \notin lapses, NEW c \in Currencies
               PROVE  UpToDate(new, c, perToken)
    OBVIOUS
  <2>1. UpToDate(users[calls[Len(calls)].user], c, perToken)
    BY <1>2, <1>3 DEF InvH, CallersPaid
  <2>2. QED
    BY <1>1, <1>4, <1>7, <1>10, <2>1 DEF UpToDate
<1>14. CallersPaid'
  <2> SUFFICES ASSUME "interrupted" \notin lapses' PROVE CallersPaid'
    BY DEF CallersPaid
  <2>1. "interrupted" \notin lapses /\ ~Interrupts /\ CallersPaid
    BY Remembered DEF InvH
  <2>2. UNCHANGED stakeResetSnapshots /\ stakeResetCount' = stakeResetCount
    BY <1>9 DEF Scale, stakeResetCount
  <2>3. \A k \in DOMAIN calls : \A c \in Currencies : UpToDate(users'[calls[k].user], c, perToken)
    <3>1. PICK current : current = perToken
      OBVIOUS
    <3>2. \A c \in Currencies : UpToDate(new, c, current)
      BY <1>13, <2>1, <3>1
    <3>3. perToken' = current
      BY <1>2, <3>1
    <3>4. \A k \in DOMAIN calls : \A c \in Currencies : UpToDate(users'[calls[k].user], c, current)
      BY <1>2, <1>10, <2>1, <2>2, <3>2, <3>3, CallersStay
    <3>5. QED
      BY <3>1, <3>4
  <2>4. \A k \in DOMAIN calls' : k \in DOMAIN calls /\ calls'[k] = calls[k]
    BY <1>2, <1>3
  <2>5. QED
    BY <1>2, <2>2, <2>3, <2>4 DEF CallersPaid, UpToDate
<1>15. StakesAreCovered'
  BY <1>9, Remembered DEF InvH, StakesAreCovered
<1>16. ToMint \in Nat /\ ToMint' \in Nat /\ ToMint = ToMint' + sbr
  <2>1. PICK short \in Seq(Call) : short = calls'
    BY <1>2, <1>3
  <2>2. Len(calls) = Len(short) + 1 /\ \A k \in 1 .. Len(short) : short[k] = calls[k]
    <3>1. calls \in Seq(Call) /\ Len(calls) \in Nat \ {0} /\ short = SubSeq(calls, 1, Len(calls) - 1)
      BY <1>2, <1>3, <2>1
    <3>2. DOMAIN short = 1 .. Len(calls) - 1 /\ \A k \in 1 .. Len(calls) - 1 : short[k] = calls[k]
      BY <3>1
    <3>3. Len(short) = Len(calls) - 1
      <4>1. PICK n \in Nat : n = Len(short)
        BY <2>1
      <4>2. PICK m \in Nat : m = Len(calls) - 1
        BY <3>1
      <4>3. \A k \in Int : k \in 1 .. n <=> k \in 1 .. m
        BY <2>1, <3>2, <4>1, <4>2
      <4>4. n \in 1 .. n <=> n \in 1 .. m
        BY <4>3
      <4>5. m \in 1 .. n <=> m \in 1 .. m
        BY <4>3
      <4>6. n = m
        BY <4>4, <4>5
      <4>7. QED
        BY <4>1, <4>2, <4>6
    <3>4. QED
      BY <3>1, <3>2, <3>3
  <2>3. Sum([k \in DOMAIN calls |-> calls[k].sbr], Len(calls))
          = Sum([k \in DOMAIN short |-> short[k].sbr], Len(short)) + calls[Len(calls)].sbr
    BY <1>2, <2>2, ToMintLast
  <2>4. Sum([k \in DOMAIN short |-> short[k].sbr], Len(short)) \in Nat
    BY ToMintType
  <2>5. Sum([k \in DOMAIN calls |-> calls[k].sbr], Len(calls)) \in Nat
    BY <1>2, ToMintType
  <2>6. QED
    BY <1>1, <1>5, <2>1, <2>3, <2>4, <2>5 DEF ToMint
<1>17. GainsAreCovered'
  <2> SUFFICES ASSUME lapses' = {}, NEW c \in Currencies PROVE Covered(c)'
    BY DEF GainsAreCovered
  <2>1. Covered(c) /\ lapses = {}
    BY Remembered DEF InvH, GainsAreCovered
  <2>2. PICK current : current = perToken
    OBVIOUS
  <2>3. current \in Amounts /\ perToken' = current /\ UpToDate(new, c, current)
    BY <1>2, <1>13, <2>1, <2>2
  <2>4. PICK rest \in Nat : rest = loss[c]
    BY <1>2 DEF Amounts
  <2>5. rest = loss'[c]
    BY <1>2, <2>4
  <2>6. Funds(c) \in Int /\ (Funds(c))' = Funds(c) /\ roundings[c] \in Nat
    <3>1. /\ dfid' \in Nat /\ totalStakedRaw' \in Nat /\ minted' \in Nat /\ eth \in Nat
          /\ dfid \in Nat /\ totalStakedRaw \in Nat /\ minted \in Nat
      BY <1>2 DEF Inv, TypeOK
    <3>2. IssuedUpTo' = IssuedUpTo /\ IssuedUpTo \in Int
      <4>1. issuance.last \in Nat /\ issuance.end \in Nat /\ issuance' = issuance
        BY <1>2 DEF TypeOK, Issuance
      <4>2. QED
        BY <4>1, StabilityPoolAssumption DEF IssuedUpTo
    <3>3. PICK k \in Int : k = sbrDistributionRate * IssuedUpTo
      BY <3>2, StabilityPoolAssumption
    <3>4. k - minted - ToMint \in Int /\ k - minted' - ToMint' = k - minted - ToMint
      BY <1>9, <1>16, <3>1, <3>3
    <3>5. dfid' - totalStakedRaw' = dfid - totalStakedRaw
      BY <1>11, <3>1
    <3>6. dfid - totalStakedRaw \in Int /\ eth' = eth
      BY <1>2, <3>1
    <3>7. k = sbrDistributionRate * IssuedUpTo'
      BY <3>2, <3>3
    <3>8. roundings[c] \in Nat
      BY <1>2 DEF Amounts
    <3>9. QED
      BY <3>1, <3>3, <3>4, <3>5, <3>6, <3>7, <3>8 DEF Funds
  <2>7. PICK funds \in Int : funds = Funds(c) + roundings[c]
    BY <2>6
  <2>8. funds = (Funds(c) + roundings[c])'
    BY <1>2, <2>6, <2>7
  <2>9. PICK d, q, p : CoversStakes(d, q) /\ CoversGains(c, perToken, rest, funds, d, p)
    BY <2>1, <2>4, <2>7 DEF Covered
  <2>10. CoversGains(c, current, rest, funds, d, p)
    BY <2>2, <2>9
  <2>11. PICK paid \in Int : paid = 0
    OBVIOUS
  <2>12. funds <= funds + paid
    BY <2>11
  <2>13. QED
    BY <1>2, <1>9, <1>10, <2>3, <2>5, <2>8, <2>9, <2>10, <2>11, <2>12, UserCovered
<1>18. QED
  BY <1>9, <1>12, <1>14, <1>15, <1>17 DEF InvH

\* The invariant gives the funds of a currency a type.
LEMMA FundsType ==
  ASSUME Inv, IssuanceBegun, NEW c \in Currencies
  PROVE  /\ Funds(c) \in Int /\ roundings[c] \in Nat /\ loss[c] \in Nat /\ perToken[c] \in Nat
         /\ Funds(c) + roundings[c] \in Int
<1>1. /\ dfid \in Nat /\ totalStakedRaw \in Nat /\ eth \in Nat /\ minted \in Nat /\ calls \in Seq(Call)
      /\ roundings[c] \in Nat /\ loss[c] \in Nat /\ perToken[c] \in Nat
  BY DEF Inv, TypeOK, Amounts
<1>2. ToMint \in Nat
  BY <1>1, ToMintType DEF ToMint
<1>3. IssuedUpTo \in Int
  <2>1. issuance.last \in Nat /\ issuance.end \in Nat
    BY DEF Inv, TypeOK, Issuance
  <2>2. QED
    BY <2>1, StabilityPoolAssumption DEF IssuedUpTo
<1>4. PICK k \in Int : k = sbrDistributionRate * IssuedUpTo
  BY <1>3, StabilityPoolAssumption
<1>5. dfid - totalStakedRaw \in Int /\ eth \in Int /\ k - minted - ToMint \in Int
  BY <1>1, <1>2, <1>4
<1>6. Funds(c) \in Int
  BY <1>4, <1>5 DEF Funds
<1>7. QED
  BY <1>1, <1>6

\* A step that changes nothing that counts for a currency leaves it covered.
LEMMA UntouchedCovered ==
  ASSUME Inv, IssuanceBegun, UNCHANGED <<users, totalStakedRaw, Scale, loss>>,
         NEW c \in Currencies, NEW current, perToken' = current, current[c] = perToken[c],
         NEW funds \in Int, funds = (Funds(c) + roundings[c])', Funds(c) + roundings[c] <= funds,
         Covered(c)
  PROVE  Covered(c)'
<1>1. PICK rest \in Nat : rest = loss[c]
  BY FundsType
<1>2. PICK before \in Int : before = Funds(c) + roundings[c]
  BY FundsType
<1>3. PICK d, q, p : CoversStakes(d, q) /\ CoversGains(c, perToken, rest, before, d, p)
  BY <1>1, <1>2 DEF Covered
<1>4. CoversGains(c, current, rest, before, d, p)
  BY <1>3, SameGains
<1>5. rest = loss'[c] /\ before <= funds
  BY <1>1, <1>2
<1>6. QED
  BY <1>1, <1>2, <1>3, <1>4, <1>5, SharedCovered

\* Time passes while no call is under way.
LEMMA TickCovers ==
  ASSUME InvH, Inv', Remember, Tick
  PROVE  InvH'
<1>1. /\ now \in Nat /\ now' = now + 1 /\ issuance.end \in Nat /\ Inv /\ IssuanceBegun
      /\ UNCHANGED <<users, totalStakedRaw, perToken, loss, stakeScalingFactor, stakeResetSnapshots,
                     issuance, dfid, eth, minted, canReceive, calls, roundings>>
  BY DEF Tick, InvH, Inv, TypeOK, Issuance
<1>2. NewUsersEmpty' /\ CallersPaid'
  BY <1>1, CallersGoOn DEF InvH, NewUsersEmpty
<1>3. IssuanceBegun'
  BY <1>1 DEF IssuanceBegun
<1>4. UNCHANGED <<users, totalStakedRaw, Scale, loss>>
  BY <1>1 DEF Scale
<1>5. StakesAreCovered'
  BY <1>4, Remembered, StakesStay DEF InvH, StakesAreCovered
<1>6. GainsAreCovered'
  <2> SUFFICES ASSUME lapses' = {}, NEW c \in Currencies PROVE Covered(c)'
    BY DEF GainsAreCovered
  <2>1. Covered(c)
    BY Remembered DEF InvH, GainsAreCovered
  <2>2. PICK current : current = perToken
    OBVIOUS
  <2>3. PICK funds \in Int : funds = Funds(c) + roundings[c]
    BY <1>1, FundsType
  <2>4. funds = (Funds(c) + roundings[c])'
    BY <1>1, <2>3 DEF Funds, IssuedUpTo, ToMint
  <2>5. perToken' = current /\ current[c] = perToken[c] /\ Funds(c) + roundings[c] <= funds
    BY <1>1, <2>2, <2>3
  <2>6. QED
    BY <1>1, <1>4, <2>1, <2>4, <2>5, UntouchedCovered
<1>7. QED
  BY <1>2, <1>3, <1>5, <1>6 DEF InvH

\* Nothing happens to the pool.
LEMMA StutterCovers ==
  ASSUME InvH, UNCHANGED varsH
  PROVE  InvH'
<1>1. UNCHANGED <<users, totalStakedRaw, Scale, loss>> /\ UNCHANGED poolVars /\ UNCHANGED lapses
  BY DEF varsH, poolVars, Scale
<1>2. Inv'
  BY <1>1, InvStep DEF InvH
<1>3. NewUsersEmpty' /\ IssuanceBegun' /\ CallersPaid'
  BY <1>1 DEF InvH, poolVars, NewUsersEmpty, IssuanceBegun, CallersPaid, UpToDate, stakeResetCount
<1>4. StakesAreCovered'
  BY <1>1, StakesStay DEF InvH, StakesAreCovered
<1>5. GainsAreCovered'
  <2> SUFFICES ASSUME lapses = {}, NEW c \in Currencies PROVE Covered(c)'
    BY <1>1 DEF GainsAreCovered
  <2>1. Covered(c)
    BY DEF InvH, GainsAreCovered
  <2>2. PICK current : current = perToken
    OBVIOUS
  <2>3. PICK funds \in Int : funds = Funds(c) + roundings[c]
    BY FundsType DEF InvH
  <2>4. funds = (Funds(c) + roundings[c])'
    BY <1>1, <2>3 DEF poolVars, Funds, IssuedUpTo, ToMint
  <2>5. perToken' = current /\ current[c] = perToken[c] /\ Funds(c) + roundings[c] <= funds
    BY <1>1, <2>2, <2>3 DEF poolVars
  <2>6. QED
    BY <1>1, <2>1, <2>4, <2>5, UntouchedCovered DEF InvH
<1>6. QED
  BY <1>2, <1>3, <1>4, <1>5 DEF InvH

\* A reward in DFID is shared out, and with it the DFIRE that is due.
LEMMA AddRewardCovers ==
  ASSUME InvH, Inv', Remember, NEW amount \in Nat, AddReward(amount)
  PROVE  InvH'
<1> DEFINE share == PerToken("sbd", amount)
           left  == LossAfter("sbd", amount)
           more  == [Nothing EXCEPT !["sbd"] = share]
           one   == IF Issuing THEN 1 ELSE 0
<1>1. /\ totalStakedRaw > 0
      /\ AddSBRRewards(more)
      /\ loss' = [loss EXCEPT !["sbd"] = left, !["sbr"] = LossWithSBR]
      /\ roundings' = [roundings EXCEPT !["sbd"] = @ + 1, !["sbr"] = @ + one]
      /\ dfid' = dfid + amount
      /\ UNCHANGED <<users, totalStakedRaw, stakeScalingFactor, stakeResetSnapshots, now, eth, minted,
                     canReceive, calls>>
  BY ZenonT(30) DEF AddReward
<1>2. /\ Inv /\ TypeOK /\ EpochsPast /\ IssuedInTime /\ IssuanceBegun
      /\ perToken \in Amounts /\ loss \in Amounts /\ roundings \in Amounts /\ Inv'
      /\ dfid \in Nat /\ totalStakedRaw \in Nat /\ loss' \in Amounts /\ perToken' \in Amounts
  BY DEF InvH, Inv, TypeOK
<1>3. UNCHANGED <<users, totalStakedRaw, Scale>>
  BY <1>1 DEF Scale
<1>4. NewUsersEmpty' /\ CallersPaid'
  BY <1>1, CallersGoOn DEF InvH, NewUsersEmpty
<1>5. IssuanceBegun'
  BY <1>1, <1>2, IssuanceAdvances
<1>6. StakesAreCovered'
  BY <1>3, Remembered, StakesStay DEF InvH, StakesAreCovered
<1>7. share \in Nat /\ more["sbd"] = share /\ more["eth"] = 0
  BY <1>1, <1>2, DistributionType DEF Currencies, Nothing
<1>8. PICK current : current = perToken'
  OBVIOUS
<1>9. /\ current \in Amounts /\ perToken' = current
      /\ current["sbd"] = perToken["sbd"] + PerToken("sbd", amount)
      /\ current["eth"] = perToken["eth"]
      /\ current["sbr"] = perToken["sbr"] + IssuedPerToken
  <2> HIDE DEF more
  <2>1. perToken["sbd"] \in Nat /\ perToken["eth"] \in Nat
    BY <1>2 DEF Amounts, Currencies
  <2>2. QED
    BY <1>1, <1>2, <1>7, <1>8, <2>1 DEF AddSBRRewards, Currencies
<1> HIDE DEF share, left, more
<1>10. GainsAreCovered'
  <2> SUFFICES ASSUME lapses' = {}, NEW c \in Currencies PROVE Covered(c)'
    BY DEF GainsAreCovered
  <2>1. Covered(c)
    BY Remembered DEF InvH, GainsAreCovered
  <2>2. /\ Funds(c) \in Int /\ roundings[c] \in Nat /\ loss[c] \in Nat
        /\ Funds(c) + roundings[c] \in Int
    BY <1>2, FundsType
  <2>3. PICK before \in Int : before = Funds(c) + roundings[c]
    BY <2>2
  <2>4. PICK rest \in Nat : rest = loss'[c]
    BY <1>2 DEF Amounts
  <2>5. PICK d, q, p : CoversStakes(d, q) /\ CoversGains(c, perToken, loss[c], before, d, p)
    BY <2>1, <2>3 DEF Covered
  <2>6. CASE c = "sbd"
    <3>1. /\ Funds(c) = dfid - totalStakedRaw /\ Funds(c)' = (dfid + amount) - totalStakedRaw
          /\ roundings'[c] = roundings[c] + 1 /\ rest = LossAfter("sbd", amount)
      BY <1>1, <1>2, <2>4, <2>6 DEF Funds, Amounts, Currencies, left
    <3>2. PICK funds \in Int : funds = before + (amount + 1)
      OBVIOUS
    <3>3. funds = (Funds(c) + roundings[c])'
      BY <1>2, <2>2, <2>3, <3>1, <3>2
    <3>4. PICK d2, q2, p2 : /\ CoversStakes(d2, q2)
                            /\ CoversGains(c, current, rest, funds, d2, p2)
      BY <1>1, <1>2, <1>9, <2>5, <2>6, <3>1, <3>2, Credit
    <3>5. funds <= funds
      OBVIOUS
    <3>6. QED
      BY <1>3, <1>9, <2>4, <3>3, <3>4, <3>5, SharedCovered
  <2>7. CASE c = "eth"
    <3>1. Funds(c)' = Funds(c) /\ roundings'[c] = roundings[c] /\ rest = loss[c]
      BY <1>1, <1>2, <2>4, <2>7 DEF Funds, Amounts
    <3>2. before = (Funds(c) + roundings[c])' /\ before <= before
      BY <2>3, <3>1
    <3>3. CoversGains(c, current, rest, before, d, p)
      BY <1>9, <2>5, <2>7, <3>1, SameGains
    <3>4. QED
      BY <1>3, <1>9, <2>4, <2>5, <3>2, <3>3, SharedCovered
  <2>8. CASE c = "sbr"
    <3> DEFINE rate   == sbrDistributionRate
               shared == IF Issuing THEN Issued * sbrDistributionRate + 1 ELSE 0
    <3>1. /\ rate * IssuedUpTo \in Nat /\ rate * IssuedUpTo' \in Nat /\ shared \in Nat
          /\ rate * IssuedUpTo + shared <= rate * IssuedUpTo' + one
      BY <1>1, <1>2, IssuanceFunds
    <3>2. ToMint \in Nat /\ ToMint' = ToMint /\ minted \in Nat /\ minted' = minted
      BY <1>1, <1>2, ToMintType DEF ToMint, TypeOK
    <3>3. /\ Funds(c) = rate * IssuedUpTo - minted - ToMint
          /\ Funds(c)' = rate * IssuedUpTo' - minted - ToMint
          /\ roundings'[c] = roundings[c] + one /\ rest = LossWithSBR
      <4>1. roundings'[c] = roundings[c] + one /\ loss'[c] = LossWithSBR
        BY <1>1, <1>2, <2>8 DEF Amounts
      <4>2. QED
        BY <2>4, <2>8, <3>2, <4>1 DEF Funds
    <3>4. one \in Nat
      OBVIOUS
    <3> HIDE DEF rate, shared, one
    <3>5. PICK funds \in Int : funds = (Funds(c) + roundings[c])'
      BY <2>2, <3>1, <3>2, <3>3, <3>4
    <3>6. before + shared <= funds /\ before + shared \in Int
      BY <2>2, <2>3, <3>1, <3>2, <3>3, <3>4, <3>5
    <3>7. CoversGains("sbr", perToken, loss["sbr"], before, d, p)
      BY <2>5, <2>8
    <3>8. PICK d2, q2, p2 : CoversStakes(d2, q2)
                            /\ CoversGains("sbr", current, LossWithSBR, before + shared, d2, p2)
      BY <1>2, <1>9, <2>5, <3>7, IssueCovered DEF shared
    <3>9. QED
      BY <1>3, <1>9, <2>4, <2>8, <3>3, <3>5, <3>6, <3>8, SharedCovered
  <2>9. QED
    BY <2>6, <2>7, <2>8 DEF Currencies
<1>11. QED
  BY <1>4, <1>5, <1>6, <1>10 DEF InvH

\* A reward in ETH is shared out among the stakers, or kept if there are none.
LEMMA AddCollateralRewardCovers ==
  ASSUME InvH, Inv', Remember, NEW amount \in Nat, AddCollateralReward(amount)
  PROVE  InvH'
<1>1. /\ eth' = eth + amount
      /\ UNCHANGED <<users, totalStakedRaw, stakeScalingFactor, stakeResetSnapshots, issuance, now,
                     dfid, minted, canReceive, calls>>
  BY DEF AddCollateralReward
<1>2. /\ Inv /\ TypeOK /\ EpochsPast /\ IssuedInTime /\ IssuanceBegun
      /\ perToken \in Amounts /\ loss \in Amounts /\ roundings \in Amounts /\ Inv'
      /\ eth \in Nat /\ totalStakedRaw \in Nat /\ loss' \in Amounts /\ perToken' \in Amounts
  BY DEF InvH, Inv, TypeOK
<1>3. UNCHANGED <<users, totalStakedRaw, Scale>>
  BY <1>1 DEF Scale
<1>4. NewUsersEmpty' /\ CallersPaid'
  BY <1>1, CallersGoOn DEF InvH, NewUsersEmpty
<1>5. IssuanceBegun'
  BY <1>1, <1>2 DEF IssuanceBegun
<1>6. StakesAreCovered'
  BY <1>3, Remembered, StakesStay DEF InvH, StakesAreCovered
<1>7. PICK current : current = perToken'
  OBVIOUS
<1>8. "eth" \in Currencies /\ perToken["eth"] \in Nat
  BY <1>2 DEF Currencies, Amounts
<1>9. \A c \in Currencies : c # "eth" => Funds(c)' = Funds(c)
  BY <1>1 DEF Funds, IssuedUpTo, ToMint
<1>10. GainsAreCovered'
  <2> SUFFICES ASSUME lapses' = {}, NEW c \in Currencies PROVE Covered(c)'
    BY DEF GainsAreCovered
  <2>1. Covered(c)
    BY Remembered DEF InvH, GainsAreCovered
  <2>2. /\ Funds(c) \in Int /\ roundings[c] \in Nat /\ loss[c] \in Nat
        /\ Funds(c) + roundings[c] \in Int
    BY <1>2, FundsType
  <2>3. PICK before \in Int : before = Funds(c) + roundings[c]
    BY <2>2
  <2>4. PICK rest \in Nat : rest = loss'[c]
    BY <1>2 DEF Amounts
  <2>5. PICK d, q, p : CoversStakes(d, q) /\ CoversGains(c, perToken, loss[c], before, d, p)
    BY <2>1, <2>3 DEF Covered
  <2>6. CASE totalStakedRaw > 0 /\ c = "eth"
    <3>1. /\ perToken' = [perToken EXCEPT !["eth"] = @ + PerToken("eth", amount)]
          /\ loss' = [loss EXCEPT !["eth"] = LossAfter("eth", amount)]
          /\ roundings' = [roundings EXCEPT !["eth"] = @ + 1]
      BY <2>6 DEF AddCollateralReward
    <3>2. current[c] = perToken[c] + PerToken(c, amount) /\ rest = LossAfter(c, amount)
          /\ roundings'[c] = roundings[c] + 1
      BY <1>2, <1>7, <1>8, <2>4, <2>6, <3>1 DEF Amounts
    <3>3. Funds(c) = eth /\ Funds(c)' = eth + amount
      BY <1>1, <2>6 DEF Funds
    <3>4. PICK funds \in Int : funds = before + (amount + 1)
      OBVIOUS
    <3>5. funds = (Funds(c) + roundings[c])' /\ funds <= funds
      BY <1>2, <2>2, <2>3, <3>2, <3>3, <3>4
    <3>6. PICK d2, q2, p2 : /\ CoversStakes(d2, q2)
                            /\ CoversGains(c, current, rest, funds, d2, p2)
      BY <1>2, <1>7, <2>5, <2>6, <3>2, <3>4, Credit
    <3>7. QED
      BY <1>3, <1>7, <2>4, <3>5, <3>6, SharedCovered
  <2>7. CASE totalStakedRaw > 0 /\ c # "eth"
    <3>1. /\ perToken' = [perToken EXCEPT !["eth"] = @ + PerToken("eth", amount)]
          /\ loss' = [loss EXCEPT !["eth"] = LossAfter("eth", amount)]
          /\ roundings' = [roundings EXCEPT !["eth"] = @ + 1]
      BY <2>7 DEF AddCollateralReward
    <3>2. current[c] = perToken[c] /\ rest = loss[c] /\ roundings'[c] = roundings[c]
      BY <1>2, <1>7, <2>4, <2>7, <3>1 DEF Amounts
    <3>3. before = (Funds(c) + roundings[c])' /\ before <= before
      BY <1>9, <2>3, <2>7, <3>2
    <3>4. CoversGains(c, current, rest, before, d, p)
      BY <2>5, <3>2, SameGains
    <3>5. QED
      BY <1>3, <1>7, <2>4, <2>5, <3>3, <3>4, SharedCovered
  <2>8. CASE ~(totalStakedRaw > 0)
    <3>1. UNCHANGED <<perToken, loss, roundings>>
      BY <2>8 DEF AddCollateralReward
    <3>2. (Funds(c))' \in Int /\ Funds(c) <= (Funds(c))'
      <4>1. CASE c = "eth"
        BY <1>1, <1>2, <4>1 DEF Funds
      <4>2. CASE c # "eth"
        BY <1>9, <2>2, <4>2
      <4>3. QED
        BY <4>1, <4>2
    <3>3. PICK funds \in Int : funds = (Funds(c) + roundings[c])'
      BY <2>2, <3>1, <3>2
    <3>4. Funds(c) + roundings[c] <= funds
      BY <2>2, <3>1, <3>2, <3>3
    <3>5. QED
      BY <1>2, <1>3, <1>7, <2>1, <3>1, <3>3, <3>4, UntouchedCovered
  <2>9. QED
    BY <2>6, <2>7, <2>8
<1>11. QED
  BY <1>4, <1>5, <1>6, <1>10 DEF InvH

\* A liquidation pays with the stakes, in proportion, unless it overlooks one.
LEMMA PerformLiquidationCovers ==
  ASSUME InvH, Inv', Remember, NEW amount \in Nat \ {0}, NEW collateral \in Nat,
         PerformLiquidation(amount, collateral)
  PROVE  InvH'
<1>1. /\ amount <= totalStakedRaw /\ amount <= dfid
      /\ loss' = [loss EXCEPT !["eth"] = LossAfter("eth", collateral)]
      /\ roundings' = [roundings EXCEPT !["eth"] = @ + 1]
      /\ totalStakedRaw' = totalStakedRaw - amount
      /\ dfid' = dfid - amount
      /\ eth' = eth + collateral
      /\ UNCHANGED <<users, issuance, now, minted, calls>>
  BY ZenonT(30) DEF PerformLiquidation
<1>2. /\ Inv /\ TypeOK /\ EpochsPast /\ IssuedInTime /\ IssuanceBegun
      /\ perToken \in Amounts /\ loss \in Amounts /\ roundings \in Amounts /\ Inv'
      /\ eth \in Nat /\ dfid \in Nat /\ totalStakedRaw \in Nat \ {0} /\ loss' \in Amounts
  BY <1>1 DEF InvH, Inv, TypeOK
<1>3. PICK current : current = [perToken EXCEPT !["eth"] = @ + PerToken("eth", collateral)]
  OBVIOUS
<1>4. /\ current \in Amounts /\ "eth" \in Currencies
      /\ current["eth"] = perToken["eth"] + PerToken("eth", collateral)
      /\ \A c \in Currencies : c # "eth" => current[c] = perToken[c]
  <2>1. "eth" \in Currencies /\ PerToken("eth", collateral) \in Nat
    BY <1>2, DistributionType DEF Currencies
  <2>2. current \in Amounts
    BY <1>2, <1>3, <2>1, AmountGrows
  <2>3. QED
    BY <1>2, <1>3, <2>1, <2>2 DEF Amounts
<1>5. Shrinks(amount, current)
  <2>1. \/ /\ stakeScalingFactor' = ScaledDown(amount)
           /\ perToken' = current
           /\ UNCHANGED stakeResetSnapshots
        \/ /\ stakeResetSnapshots' =
                Append(stakeResetSnapshots, [scalingFactor |-> ScaledDown(amount), perToken |-> current])
           /\ stakeScalingFactor' = PRECISION
           /\ perToken' = Nothing
    BY <1>3, ZenonT(30) DEF PerformLiquidation
  <2>2. QED
    BY <1>1, <1>2, <1>4, <2>1 DEF Shrinks
<1>6. NewUsersEmpty' /\ CallersPaid'
  BY <1>1, CallersGoOn DEF InvH, NewUsersEmpty
<1>7. IssuanceBegun'
  BY <1>1, <1>2 DEF IssuanceBegun
<1>8. PICK t \in Nat \ {0} : t = totalStakedRaw
  BY <1>2
<1>9. ~Overlooks => \A u \in Users : ~Live(users[u]) => EffectiveStake(users[u]) = 0
  <2> SUFFICES ASSUME ~Overlooks, NEW u \in Users, ~Live(users[u])
               PROVE  EffectiveStake(users[u]) = 0
    OBVIOUS
  <2>1. totalStakedRaw' < totalStakedRaw /\ users' = users
    BY <1>1, <1>2
  <2>2. /\ users[u] \in UserInfo /\ users[u].stakeResetCount \in Nat /\ stakeResetCount \in Nat
        /\ users[u].stakeResetCount <= stakeResetCount
    BY <1>2 DEF TypeOK, UserInfo, stakeResetCount, EpochsPast
  <2>3. EffectiveStake(users[u]) \in Nat
    BY <1>2, <2>2, EffectiveStakeType
  <2>4. users[u].stakeResetCount + 1 < stakeResetCount
    BY <2>2 DEF Live
  <2>5. QED
    BY <2>1, <2>3, <2>4 DEF Overlooks
<1>10. ASSUME ~Overlooks, NEW d, NEW q, CoversStakes(d, q)
       PROVE  \E q2 : CoversStakes(d * t, q2)'
  BY <1>2, <1>5, <1>8, <1>9, <1>10, StakesShrink
<1>11. StakesAreCovered'
  <2> SUFFICES ASSUME "overlooked" \notin lapses' PROVE \E d2, q2 : CoversStakes(d2, q2)'
    BY DEF StakesAreCovered
  <2>1. "overlooked" \notin lapses /\ ~Overlooks
    BY Remembered
  <2>2. PICK d, q : CoversStakes(d, q)
    BY <2>1 DEF InvH, StakesAreCovered
  <2>3. QED
    BY <1>10, <2>1, <2>2
<1>12. GainsAreCovered'
  <2> SUFFICES ASSUME lapses' = {}, NEW c \in Currencies PROVE Covered(c)'
    BY DEF GainsAreCovered
  <2>1. Covered(c) /\ ~Overlooks
    BY Remembered DEF InvH, GainsAreCovered
  <2>2. /\ Funds(c) \in Int /\ roundings[c] \in Nat /\ loss[c] \in Nat
        /\ Funds(c) + roundings[c] \in Int
    BY <1>2, FundsType
  <2>3. PICK before \in Int : before = Funds(c) + roundings[c]
    BY <2>2
  <2>4. PICK rest \in Nat : rest = loss'[c]
    BY <1>2 DEF Amounts
  <2>5. PICK d, q, p : CoversStakes(d, q) /\ CoversGains(c, perToken, loss[c], before, d, p)
    BY <2>1, <2>3 DEF Covered
\* What there is of the currency after the collateral is shared out.
  <2>6. ASSUME NEW funds \in Int, funds = (Funds(c) + roundings[c])',
               NEW d2, NEW q2, NEW p2, CoversStakes(d2, q2), CoversGains(c, current, rest, funds, d2, p2)
        PROVE  Covered(c)'
    <3>1. PICK q3 : CoversStakes(d2 * t, q3)'
      BY <1>10, <2>1, <2>6
    <3>2. PICK p3 : CoversGains(c, perToken, rest, funds, d2 * t, p3)'
      BY <1>2, <1>5, <2>6, GainsShrink
    <3>3. CoversGains(c, perToken, loss[c], Funds(c) + roundings[c], d2 * t, p3)'
      BY <2>4, <2>6, <3>2
    <3>4. QED
      BY <3>1, <3>3 DEF Covered
  <2>7. CASE c = "eth"
    <3>1. Funds(c) = eth /\ Funds(c)' = eth + collateral /\ roundings'[c] = roundings[c] + 1
          /\ rest = LossAfter(c, collateral)
      BY <1>1, <1>2, <1>4, <2>4, <2>7 DEF Funds, Amounts
    <3>2. PICK funds \in Int : funds = before + (collateral + 1)
      OBVIOUS
    <3>3. funds = (Funds(c) + roundings[c])'
      BY <1>2, <2>2, <2>3, <3>1, <3>2
    <3>4. PICK d2, q2, p2 : /\ CoversStakes(d2, q2)
                            /\ CoversGains(c, current, rest, funds, d2, p2)
      BY <1>2, <1>4, <2>5, <2>7, <3>1, <3>2, Credit
    <3>5. QED
      BY <2>6, <3>3, <3>4
  <2>8. CASE c # "eth"
    <3>1. Funds(c)' = Funds(c)
      <4>1. dfid' - totalStakedRaw' = dfid - totalStakedRaw
        BY <1>1, <1>2
      <4>2. QED
        BY <1>1, <2>8, <4>1 DEF Funds, IssuedUpTo, ToMint
    <3>2. roundings'[c] = roundings[c] /\ rest = loss[c] /\ current[c] = perToken[c]
      BY <1>1, <1>2, <1>4, <2>4, <2>8 DEF Amounts
    <3>3. before = (Funds(c) + roundings[c])'
      BY <2>3, <3>1, <3>2
    <3>4. CoversGains(c, current, rest, before, d, p)
      BY <2>5, <3>2, SameGains
    <3>5. QED
      BY <2>5, <2>6, <3>3, <3>4
  <2>9. QED
    BY <2>7, <2>8
<1>13. QED
  BY <1>6, <1>7, <1>11, <1>12 DEF InvH

-----------------------------------------------------------------------------
(* The invariant holds. *)

LEMMA InvHInit == InitH => InvH
<1> SUFFICES ASSUME InitH PROVE InvH
  OBVIOUS
<1>1. Inv /\ TypeOK /\ EpochsPast
  BY InvInit DEF InitH, Inv
<1>2. /\ users = [u \in Users |-> NewUser] /\ NewUser.stake = 0
      /\ NewUser.cumulativeProductScalingFactor = 0
      /\ perToken = Nothing /\ loss = Nothing /\ roundings = Nothing /\ calls = <<>>
      /\ totalStakedRaw = 0 /\ dfid = 0 /\ eth = 0 /\ minted = 0
      /\ issuance.status = "NOT_STARTED"
  BY DEF InitH, Init, NewUser
<1>3. NewUsersEmpty /\ IssuanceBegun /\ CallersPaid
  BY <1>2 DEF NewUsersEmpty, IssuanceBegun, CallersPaid
<1> DEFINE zero == [u \in Users |-> 0]
<1>4. zero \in Shares /\ Sum(zero, MaxUser) = 0
  <2>1. Users = 1 .. MaxUser /\ MaxUser \in Nat
    BY StabilityPoolAssumption DEF Users
  <2>2. zero \in [1 .. MaxUser -> Int] /\ \A u \in 1 .. MaxUser : zero[u] = 0
    BY <2>1
  <2>3. zero \in Shares
    BY DEF Shares
  <2> HIDE DEF zero
  <2>4. QED
    BY <2>1, <2>2, <2>3, SumZero
<1> HIDE DEF zero
<1>5. CoversStakes(1, zero)
  <2>1. \A u \in Users : StakeCovered(users[u], 1, zero[u])
    BY <1>2 DEF StakeCovered
  <2>2. 0 <= totalStakedRaw * 1
    BY <1>2
  <2>3. QED
    BY <1>4, <2>1, <2>2 DEF CoversStakes
<1>6. ASSUME NEW c \in Currencies PROVE Covered(c)
  <2>1. loss[c] = 0 /\ roundings[c] = 0
    BY <1>2 DEF Nothing
  <2>2. ToMint = 0
    <3> DEFINE f == [k \in DOMAIN calls |-> calls[k].sbr]
    <3>1. Len(calls) = 0 /\ DOMAIN calls = 1 .. 0
      BY <1>2
    <3>2. f \in [1 .. 0 -> Int] /\ \A i \in 1 .. 0 : f[i] = 0
      BY <3>1
    <3> HIDE DEF f
    <3>3. Sum(f, 0) = 0
      BY <3>2, SumZero
    <3>4. QED
      BY <3>1, <3>3 DEF ToMint, f
  <2>3. IssuedUpTo = 0
    BY <1>2 DEF IssuedUpTo
  <2>4. sbrDistributionRate * 0 = 0
    BY StabilityPoolAssumption
  <2>5. Funds(c) = 0
    BY <1>2, <2>2, <2>3, <2>4 DEF Funds
  <2>6. \A u \in Users : GainCovered(users[u], c, perToken, 1, zero[u])
    BY <1>2 DEF GainCovered
  <2>7. CoversGains(c, perToken, loss[c], Funds(c) + roundings[c], 1, zero)
    <3>1. 0 + 0 * 1 <= (0 + 0) * 1
      OBVIOUS
    <3>2. QED
      BY <1>4, <2>1, <2>5, <2>6, <3>1 DEF CoversGains
  <2>8. QED
    BY <1>5, <2>7 DEF Covered
<1>7. QED
  BY <1>1, <1>3, <1>5, <1>6 DEF InvH, StakesAreCovered, GainsAreCovered

LEMMA InvHStep == InvH /\ [NextH]_varsH => InvH'
<1> SUFFICES ASSUME InvH, [NextH]_varsH PROVE InvH'
  OBVIOUS
<1>1. CASE UNCHANGED varsH
  BY <1>1, StutterCovers
<1>2. CASE NextH
  <2>1. Next /\ Remember /\ Inv /\ Inv'
    BY <1>2, InvStep DEF NextH, InvH
  <2>2. CASE UserCall
    <3>1. \A n \in StakeAmounts : n \in Nat
      BY StabilityPoolAssumption
    <3>2. QED
      BY <2>1, <2>2, <3>1, TransactCovers, BeginCallCovers DEF UserCall
  <2>3. CASE Distribution
    <3>1. /\ \A n \in RewardAmounts : n \in Nat
          /\ \A n \in CollateralAmounts : n \in Nat
          /\ \A n \in LiquidationAmounts : n \in Nat \ {0}
      BY StabilityPoolAssumption
    <3>2. QED
      BY <2>1, <2>3, <3>1, AddRewardCovers, AddCollateralRewardCovers, PerformLiquidationCovers
         DEF Distribution
  <2>4. CASE Tick
    BY <2>1, <2>4, TickCovers
  <2>5. CASE \E op \in {"stake", "unstake", "claim"} : FinishCall(op)
    BY <2>1, <2>5, FinishCallCovers
  <2>6. QED
    BY <2>1, <2>2, <2>3, <2>4, <2>5 DEF Next
<1>3. QED
  BY <1>1, <1>2

LEMMA InvarianceH == SpecH => []InvH
BY InvHInit, InvHStep, PTL DEF SpecH

-----------------------------------------------------------------------------
(* The theorems. *)

\* What the users can withdraw together fits into totalStakedRaw, through any
\* stakes, liquidations, resets and nested calls, as long as no liquidation
\* passes over a stake that dates from before the last two resets.
THEOREM WithdrawalsFit == SpecH => []StakesFitTotal
<1>1. InvH => StakesFitTotal
  BY StakesFit DEF InvH, Inv, StakesAreCovered, StakesFitTotal
<1>2. QED
  BY <1>1, InvarianceH, PTL

\* The pool holds the DFID of the stakes and rewards and the ETH that it shows
\* its users, up to a unit for each amount it shared out, until a stake is
\* overlooked or a payment is interrupted by a distribution.
THEOREM PoolSolvent == SpecH => []SolventWithoutLapses
<1>1. ASSUME InvH, lapses = {}, NEW c \in Currencies
      PROVE  PendingTotal(c) \in Int /\ PendingTotal(c) <= Funds(c) + roundings[c]
  <2>1. Covered(c) /\ TypeOK /\ EpochsPast /\ loss[c] \in Nat /\ Funds(c) + roundings[c] \in Int
    BY <1>1, FundsType DEF InvH, Inv, GainsAreCovered
  <2>2. PICK d, p : CoversGains(c, perToken, loss[c], Funds(c) + roundings[c], d, p)
    BY <2>1 DEF Covered
  <2>3. QED
    BY <2>1, <2>2, GainsFit
<1>2. InvH => SolventWithoutLapses
  <2> SUFFICES ASSUME InvH, lapses = {} PROVE Solvent
    BY DEF SolventWithoutLapses
  <2>1. /\ totalStakedRaw \in Nat /\ dfid \in Nat /\ eth \in Nat
        /\ roundings["sbd"] \in Nat /\ roundings["eth"] \in Nat
    BY DEF InvH, Inv, TypeOK, Amounts, Currencies
  <2>2. PendingTotal("sbd") \in Int /\ PendingTotal("sbd") <= (dfid - totalStakedRaw) + roundings["sbd"]
    BY <1>1 DEF Funds, Currencies
  <2>3. PendingTotal("eth") \in Int /\ PendingTotal("eth") <= eth + roundings["eth"]
    BY <1>1 DEF Funds, Currencies
  <2>4. totalStakedRaw + PendingTotal("sbd") <= dfid + roundings["sbd"]
    BY <2>1, <2>2
  <2>5. QED
    BY <2>3, <2>4 DEF Solvent
<1>3. QED
  BY <1>2, InvarianceH, PTL

\* The DFIRE minted, about to be minted and promised is within the issuance up
\* to now or its end, whenever and however often users call, until a lapse.
THEOREM IssuanceKept == SpecH => []IssuanceWithoutLapses
<1>1. InvH => IssuanceWithoutLapses
  <2> SUFFICES ASSUME InvH, lapses = {} PROVE IssuanceBounded
    BY DEF IssuanceWithoutLapses
  <2>1. Inv /\ IssuanceBegun /\ TypeOK /\ EpochsPast /\ "sbr" \in Currencies
    BY DEF InvH, Inv, Currencies
  <2>2. Covered("sbr") /\ loss["sbr"] \in Nat /\ roundings["sbr"] \in Nat
        /\ Funds("sbr") + roundings["sbr"] \in Int
    BY <2>1, FundsType DEF InvH, GainsAreCovered
  <2>3. PICK d, p : CoversGains("sbr", perToken, loss["sbr"], Funds("sbr") + roundings["sbr"], d, p)
    BY <2>2 DEF Covered
  <2>4. PendingTotal("sbr") \in Int /\ PendingTotal("sbr") <= Funds("sbr") + roundings["sbr"]
    BY <2>1, <2>2, <2>3, GainsFit
  <2>5. minted \in Nat /\ ToMint \in Nat
    BY <2>1, ToMintType DEF TypeOK, ToMint
  <2>6. IssuedUpTo \in Int /\ IssuedTime \in Int /\ IssuedUpTo <= IssuedTime
    <3>1. /\ issuance.status \in {"NOT_STARTED", "STARTED", "ENDED"}
          /\ issuance.last \in Nat /\ issuance.end \in Nat /\ now \in Nat
      BY <2>1 DEF TypeOK, Issuance
    <3>2. IssuedInTime
      BY <2>1 DEF Inv
    <3>3. QED
      BY <2>1, <3>1, <3>2, StabilityPoolAssumption
         DEF IssuedUpTo, IssuedTime, IssuedInTime, IssuanceBegun
  <2>7. /\ sbrDistributionRate * IssuedUpTo \in Int /\ sbrDistributionRate * IssuedTime \in Int
        /\ sbrDistributionRate * IssuedUpTo <= sbrDistributionRate * IssuedTime
    BY <2>6, StabilityPoolAssumption, MultiplyBy, Rearranged
  <2>8. Funds("sbr") = sbrDistributionRate * IssuedUpTo - minted - ToMint
    BY DEF Funds
  <2>9. minted + ToMint + PendingTotal("sbr") <= sbrDistributionRate * IssuedTime + roundings["sbr"]
    BY <2>2, <2>4, <2>5, <2>7, <2>8
  <2>10. QED
    BY <2>9 DEF IssuanceBounded
<1>2. QED
  BY <1>1, InvarianceH, PTL
-----------------------------------------------------------------------------
(* A liquidation is shared in proportion, for any stakes, factors and resets. *)

\* A quotient in units of its divisor.
LEMMA QuotientBounds ==
  ASSUME NEW x \in Int, NEW p \in Nat \ {0}
  PROVE  /\ x \div p \in Int
         /\ p * (x \div p) <= x
         /\ x <= p * (x \div p) + (p - 1)
OBVIOUS

\* The factor is rounded down twice, to less than two units below what it should be.
LEMMA FactorShrinksInProportion ==
  ASSUME NEW s \in Nat, NEW a \in Nat, NEW t \in Nat \ {0}, NEW p \in Nat \ {0}, a <= t, s <= p
  PROVE  LET f == (s * (((t - a) * p) \div t)) \div p
         IN  /\ f \in Nat
             /\ f * t <= s * (t - a)
             /\ s * (t - a) <= f * t + 2 * t
<1> DEFINE k == ((t - a) * p) \div t
           f == (s * k) \div p
<1>1. f \in Nat /\ f * t <= s * (t - a)
  BY FactorShrinks
<1>2. PICK r \in Nat : r = t - a
  OBVIOUS
<1>3. k \in Nat /\ r * p <= t * k + t
  <2>1. r * p \in Nat
    BY <1>2, ProductType
  <2>2. k \in Nat /\ r * p <= t * k + (t - 1)
    <3>1. k = (r * p) \div t
      BY <1>2
    <3> HIDE DEF k
    <3>2. PICK x \in Nat : x = r * p
      BY <2>1
    <3>3. k = x \div t
      BY <3>1, <3>2
    <3>4. x \div t \in Nat
      BY QuotientType
    <3>5. x <= t * (x \div t) + (t - 1)
      BY QuotientBounds
    <3>6. QED
      BY <3>2, <3>3, <3>4, <3>5
  <2>3. t * k \in Nat
    BY <2>2, ProductType
  <2>4. QED
    BY <2>1, <2>2, <2>3
<1> HIDE DEF k
<1>4. s * k \in Nat /\ s * k <= p * f + p
  <2>1. s * k \in Nat
    BY <1>3, ProductType
  <2>2. s * k <= p * f + (p - 1)
    <3>1. PICK x \in Nat : x = s * k
      BY <2>1
    <3>2. x <= p * (x \div p) + (p - 1)
      BY QuotientBounds
    <3>3. QED
      BY <3>1, <3>2
  <2>3. p * f \in Nat
    BY <1>1, ProductType
  <2>4. QED
    BY <2>1, <2>2, <2>3
<1> HIDE DEF f
<1>5. p * (s * r) <= p * (f * t + 2 * t)
  <2>1. s * (r * p) <= s * (t * k + t)
    <3>1. r * p \in Int /\ t * k + t \in Int
      BY <1>2, <1>3, ProductType
    <3>2. QED
      BY <1>3, <3>1, MultiplyBy
  <2>2. s * (r * p) = p * (s * r) /\ s * (t * k + t) = t * (s * k) + s * t
    BY <1>2, <1>3
  <2>3. t * (s * k) <= t * (p * f + p)
    <3>1. p * f + p \in Int
      BY <1>1, ProductType
    <3>2. QED
      BY <1>4, <3>1, MultiplyBy
  <2>4. t * (p * f + p) = p * (f * t + t)
    BY <1>1
  <2>5. s * t <= p * t
    BY MultiplyBy
  <2>6. p * (f * t + t) + p * t = p * (f * t + 2 * t)
    BY <1>1
  <2> DEFINE b == t * (s * k)
             c == t * (p * f + p)
             d == s * t
             e == p * t
  <2>7. b \in Int /\ c \in Int /\ d \in Int /\ e \in Int
    BY <1>1, <1>4, ProductType
  <2>8. b + d <= c + e
    <3>1. b <= c /\ d <= e
      BY <2>3, <2>5
    <3> HIDE DEF b, c, d, e
    <3>2. QED
      BY <2>7, <3>1
  <2>9. p * (s * r) <= b + d /\ c + e = p * (f * t + 2 * t)
    BY <2>1, <2>2, <2>4, <2>6
  <2>10. p * (s * r) \in Int
    BY <1>2, ProductType
  <2> HIDE DEF b, c, d, e
  <2>11. QED
    BY <2>7, <2>8, <2>9, <2>10
<1>6. s * r \in Int /\ f * t + 2 * t \in Int
  BY <1>1, <1>2, ProductType
<1>7. s * r <= f * t + 2 * t
  BY <1>5, <1>6, CancelFactor
<1>8. QED
  BY <1>1, <1>2, <1>7 DEF f, k

\* The arithmetic of what a stake loses: w units per d at the factor s before, f after.
LEMMA StakeInProportion ==
  ASSUME NEW w \in Nat, NEW d \in Nat \ {0}, NEW s \in Nat, NEW f \in Nat,
         NEW t \in Nat, NEW r \in Nat, f * t <= s * r, s * r <= f * t + 2 * t,
         NEW e \in Nat, NEW e1 \in Nat, e = (w * s) \div d, e1 = (w * f) \div d
  PROVE  /\ e1 * t <= (e + 1) * r
         /\ (e * r) * d <= ((e1 + 1) * d + 2 * w) * t
<1>1. w * s \in Nat /\ w * f \in Nat /\ f * t \in Nat /\ s * r \in Nat
      /\ (w * s) * r \in Nat /\ (w * f) * t \in Nat
  BY ProductType
<1>2. d * e <= w * s /\ w * s <= d * e + d
  <2>1. d * e <= w * s /\ w * s <= d * e + (d - 1)
    BY <1>1, QuotientBounds
  <2>2. d * e \in Nat
    BY ProductType
  <2>3. QED
    BY <1>1, <2>1, <2>2
<1>3. d * e1 <= w * f /\ w * f <= d * e1 + d
  <2>1. d * e1 <= w * f /\ w * f <= d * e1 + (d - 1)
    BY <1>1, QuotientBounds
  <2>2. d * e1 \in Nat
    BY ProductType
  <2>3. QED
    BY <1>1, <2>1, <2>2
<1>4. (w * f) * t <= (w * s) * r
  <2>1. w * (f * t) <= w * (s * r)
    BY <1>1, MultiplyBy
  <2>2. w * (f * t) = (w * f) * t /\ w * (s * r) = (w * s) * r
    OBVIOUS
  <2>3. QED
    BY <2>1, <2>2
<1>5. (w * s) * r <= (w * f) * t + (2 * w) * t
  <2>1. w * (s * r) <= w * (f * t + 2 * t)
    <3>1. f * t + 2 * t \in Int
      BY <1>1
    <3>2. QED
      BY <1>1, <3>1, MultiplyBy
  <2>2. w * (s * r) = (w * s) * r /\ w * (f * t + 2 * t) = (w * f) * t + (2 * w) * t
    OBVIOUS
  <2>3. QED
    BY <2>1, <2>2
<1>6. e1 * t <= (e + 1) * r
  <2>1. (d * e1) * t <= (w * f) * t
    <3>1. d * e1 \in Int
      OBVIOUS
    <3>2. QED
      BY <1>1, <1>3, <3>1, MultiplyBy
  <2>2. (w * s) * r <= (d * e + d) * r
    <3>1. d * e + d \in Int
      OBVIOUS
    <3>2. QED
      BY <1>1, <1>2, <3>1, MultiplyBy
  <2>3. (d * e1) * t = d * (e1 * t) /\ (d * e + d) * r = d * ((e + 1) * r)
    OBVIOUS
  <2>4. e1 * t \in Int /\ (e + 1) * r \in Int
    BY ProductType
  <2> DEFINE x == e1 * t
             y == (e + 1) * r
  <2>5. d * x <= (w * f) * t /\ (w * s) * r <= d * y
    BY <2>1, <2>2, <2>3
  <2>6. x \in Int /\ y \in Int
    BY <2>4
  <2> HIDE DEF x, y
  <2>7. d * x \in Int /\ d * y \in Int
    BY <2>6
  <2>8. d * x <= d * y
    BY <1>1, <1>4, <2>5, <2>7
  <2>9. x <= y
    BY <2>6, <2>8, CancelFactor
  <2>10. QED
    BY <2>9 DEF x, y
<1>7. (e * r) * d <= ((e1 + 1) * d + 2 * w) * t
  <2>1. (d * e) * r <= (w * s) * r
    <3>1. d * e \in Int
      OBVIOUS
    <3>2. QED
      BY <1>1, <1>2, <3>1, MultiplyBy
  <2>2. (w * f) * t <= (d * e1 + d) * t
    <3>1. d * e1 + d \in Int
      OBVIOUS
    <3>2. QED
      BY <1>1, <1>3, <3>1, MultiplyBy
  <2>3. (d * e) * r = (e * r) * d
        /\ (d * e1 + d) * t + (2 * w) * t = ((e1 + 1) * d + 2 * w) * t
    OBVIOUS
  <2> DEFINE x == (e * r) * d
             y == (d * e1 + d) * t
             z == (2 * w) * t
             b == (w * s) * r
             c == (w * f) * t
  <2>4. x <= b /\ b <= c + z /\ c <= y
    BY <1>5, <2>1, <2>2, <2>3
  <2>5. x \in Int /\ y \in Int /\ z \in Int /\ b \in Int /\ c \in Int
    BY <1>1
  <2>6. x <= y + z
    <3> HIDE DEF x, y, z, b, c
    <3>1. QED
      BY <2>4, <2>5
  <2>7. QED
    BY <2>3, <2>6
<1>8. QED
  BY <1>6, <1>7
\* The arithmetic of what a stake gains: w units per d at the factor s of an amount
\* x that is G per token, in addition to g.
LEMMA GainInProportion ==
  ASSUME NEW w \in Nat, NEW d \in Nat \ {0}, NEW s \in Nat, NEW t \in Nat, NEW x \in Nat,
         NEW g \in Int, NEW G \in Nat, t * G <= x * s, x * s <= t * G + t,
         NEW e \in Nat, e = (w * s) \div d,
         NEW p \in Int, NEW p1 \in Int, p = (g * w) \div d, p1 = ((g + G) * w) \div d
  PROVE  /\ (p1 - p - 1) * t <= (e + 1) * x
         /\ (e * x) * d <= ((p1 - p + 1) * d + w) * t
<1>1. w * s \in Nat /\ d * e \in Int /\ d * e <= w * s /\ w * s <= d * e + d
  <2>1. w * s \in Nat
    BY ProductType
  <2>2. d * e <= w * s /\ w * s <= d * e + (d - 1)
    BY <2>1, QuotientBounds
  <2>3. d * e \in Nat
    BY ProductType
  <2>4. QED
    BY <2>1, <2>2, <2>3
<1>2. PICK a \in Int, b \in Int : a = g * w /\ b = G * w
  BY Rearranged
<1>3. (g + G) * w = a + b
  BY <1>2
<1>4. /\ d * p \in Int /\ d * p <= a /\ a <= d * p + (d - 1)
      /\ d * p1 \in Int /\ d * p1 <= a + b /\ a + b <= d * p1 + (d - 1)
  <2>1. a + b \in Int /\ p = a \div d /\ p1 = (a + b) \div d
    BY <1>2, <1>3
  <2>2. d * p \in Int /\ d * p1 \in Int
    BY Rearranged
  <2>3. d * p <= a /\ a <= d * p + (d - 1)
    BY <2>1, QuotientBounds
  <2>4. d * p1 <= a + b /\ a + b <= d * p1 + (d - 1)
    <3>1. PICK y \in Int : y = a + b
      BY <2>1
    <3>2. p1 = y \div d
      BY <2>1, <3>1
    <3>3. d * p1 <= y /\ y <= d * p1 + (d - 1)
      BY <3>2, QuotientBounds
    <3>4. QED
      BY <3>1, <3>3
  <2>5. QED
    BY <2>2, <2>3, <2>4
<1>5. PICK n \in Int : n = p1 - p
  <2>1. \A y, z \in Int : \E n \in Int : n = y - z
    OBVIOUS
  <2>2. QED
    BY <2>1, Zenon
<1>6. d * n \in Int /\ d * (n - 1) <= b /\ b <= d * (n + 1)
  <2>1. d * n = d * p1 - d * p /\ d * (n - 1) = d * n - d /\ d * (n + 1) = d * n + d
    BY <1>5
  <2>2. d * n \in Int
    BY Rearranged
  <2>3. QED
    BY <1>4, <2>1, <2>2
<1>7. (t * G) * w <= (x * s) * w /\ (x * s) * w <= (t * G) * w + t * w
  <2>1. t * G \in Int /\ x * s \in Int /\ t * G + t \in Int
    OBVIOUS
  <2>2. (t * G) * w <= (x * s) * w /\ (x * s) * w <= (t * G + t) * w
    BY <2>1, MultiplyBy
  <2>3. (t * G + t) * w = (t * G) * w + t * w
    OBVIOUS
  <2>4. QED
    BY <2>2, <2>3
<1>8. (t * G) * w = b * t /\ (x * s) * w = (w * s) * x
  BY <1>2
<1>9. (n - 1) * t <= (e + 1) * x
  <2>1. (d * (n - 1)) * t <= b * t
    <3>1. d * (n - 1) \in Int
      OBVIOUS
    <3>2. QED
      BY <1>6, <3>1, MultiplyBy
  <2>2. (w * s) * x <= (d * e + d) * x
    <3>1. d * e + d \in Int
      OBVIOUS
    <3>2. QED
      BY <1>1, <3>1, MultiplyBy
  <2>3. (d * (n - 1)) * t = d * ((n - 1) * t) /\ (d * e + d) * x = d * ((e + 1) * x)
    OBVIOUS
  <2> DEFINE y == (n - 1) * t
             z == (e + 1) * x
  <2>4. y \in Int /\ z \in Int /\ b * t \in Int /\ (w * s) * x \in Int
    OBVIOUS
  <2>5. d * y <= b * t /\ b * t <= (w * s) * x /\ (w * s) * x <= d * z
    BY <1>7, <1>8, <2>1, <2>2, <2>3
  <2> HIDE DEF y, z
  <2>6. d * y \in Int /\ d * z \in Int
    BY <2>4
  <2>7. d * y <= d * z
    BY <2>4, <2>5, <2>6
  <2>8. y <= z
    BY <2>4, <2>7, CancelFactor
  <2>9. QED
    BY <2>8 DEF y, z
<1>10. (e * x) * d <= ((n + 1) * d + w) * t
  <2>1. (d * e) * x <= (w * s) * x
    BY <1>1, MultiplyBy
  <2>2. b * t <= (d * (n + 1)) * t
    <3>1. d * (n + 1) \in Int
      OBVIOUS
    <3>2. QED
      BY <1>6, <3>1, MultiplyBy
  <2>3. (d * e) * x = (e * x) * d /\ (d * (n + 1)) * t + t * w = ((n + 1) * d + w) * t
    OBVIOUS
  <2> DEFINE y == (e * x) * d
             z == (d * (n + 1)) * t
             c == t * w
             f == (w * s) * x
             h == b * t
  <2>4. y <= f /\ f <= h + c /\ h <= z
    BY <1>7, <1>8, <2>1, <2>2, <2>3
  <2>5. y \in Int /\ z \in Int /\ c \in Int /\ f \in Int /\ h \in Int
    OBVIOUS
  <2>6. y <= z + c
    <3> HIDE DEF y, z, c, f, h
    <3>1. QED
      BY <2>4, <2>5
  <2>7. QED
    BY <2>3, <2>6
<1>11. QED
  BY <1>5, <1>9, <1>10

\* A stake that liquidations reach is worth its base at the current factor, and
\* what it has gained lately is what its base has gained.
LEMMA BaseOf ==
  ASSUME TypeOK, NEW user \in UserInfo, user.stakeResetCount <= stakeResetCount, Live(user),
         user.cumulativeProductScalingFactor # 0
  PROVE  /\ Base(user).amount \in Nat /\ Base(user).factor \in Nat \ {0}
         /\ EffectiveStake(user) = (Base(user).amount * stakeScalingFactor) \div Base(user).factor
<1>1. /\ user.stake \in Nat /\ user.stakeResetCount \in Nat /\ stakeResetCount \in Nat
      /\ user.cumulativeProductScalingFactor \in Nat \ {0} /\ PRECISION \in Nat \ {0}
  BY UserParts, FactorPositive
<1>2. CASE user.stakeResetCount = stakeResetCount
  <2>1. Base(user) = [amount |-> user.stake, factor |-> user.cumulativeProductScalingFactor]
    BY <1>1, <1>2 DEF Base
  <2>2. QED
    BY <1>1, <1>2, <2>1 DEF EffectiveStake, Scaled, FactorOf
<1>3. CASE user.stakeResetCount # stakeResetCount
  <2>1. user.stakeResetCount + 1 = stakeResetCount
    BY <1>1, <1>3 DEF Live
  <2>2. Base(user) = [amount |-> Scaled(user), factor |-> PRECISION]
    BY <1>1, <1>3 DEF Base
  <2>3. Scaled(user) \in Nat
    BY <1>1, EffectiveStakeType
  <2>4. QED
    BY <1>1, <1>3, <2>1, <2>2, <2>3 DEF EffectiveStake, FactorOf
<1>4. QED
  BY <1>2, <1>3

\* A liquidation leaves its base, and scales it by the new factor.
LEMMA BaseShrinks ==
  ASSUME TypeOK, NEW amount, NEW current, Shrinks(amount, current),
         NEW user \in UserInfo, user.stakeResetCount <= stakeResetCount, Live(user),
         user.cumulativeProductScalingFactor # 0
  PROVE  EffectiveStake(user)' = (Base(user).amount * ScaledDown(amount)) \div Base(user).factor
<1> DEFINE n == user.stakeResetCount
           f == ScaledDown(amount)
<1>1. /\ user.stake \in Nat /\ n \in Nat /\ stakeResetCount \in Nat
      /\ user.cumulativeProductScalingFactor \in Nat \ {0} /\ PRECISION \in Nat \ {0}
  BY UserParts, FactorPositive
<1>2. f \in Nat
  <2>1. totalStakedRaw \in Nat \ {0} /\ amount \in Nat /\ amount <= totalStakedRaw
    BY DEF Shrinks
  <2>2. QED
    BY <1>1, <2>1, FactorPositive, ScaledDownType DEF ScaledDown
<1> HIDE DEF f
<1>3. CASE n = stakeResetCount
  <2>1. Base(user) = [amount |-> user.stake, factor |-> user.cumulativeProductScalingFactor]
    BY <1>1, <1>3 DEF Base
  <2>2. PICK y : y = (user.stake * f) \div user.cumulativeProductScalingFactor
    OBVIOUS
  <2>3. y \in Nat
    BY <1>1, <1>2, <2>2, ProductType, QuotientType
  <2>4. CASE UNCHANGED stakeResetSnapshots
    <3>1. stakeResetCount' = stakeResetCount /\ stakeScalingFactor' = f
      BY <2>4, EpochGoesOn DEF f
    <3>2. EffectiveStake(user)' = y
      BY <1>1, <1>3, <2>2, <3>1 DEF EffectiveStake, Scaled, FactorOf
    <3>3. QED
      BY <2>1, <2>2, <3>2 DEF f
  <2>5. CASE stakeResetSnapshots' # stakeResetSnapshots
    <3>1. stakeResetCount' = stakeResetCount + 1 /\ stakeScalingFactor' = PRECISION
          /\ FactorOf(n)' = f
      BY <1>3, <2>5, EpochEnds DEF f
    <3>2. Scaled(user)' = y
      BY <2>2, <3>1 DEF Scaled
    <3>3. n # stakeResetCount' /\ n + 1 = stakeResetCount' /\ FactorOf(n + 1)' = PRECISION
      BY <1>1, <1>3, <3>1 DEF FactorOf
    <3>4. EffectiveStake(user)' = (y * PRECISION) \div PRECISION
      BY <1>1, <3>2, <3>3 DEF EffectiveStake
    <3>5. (y * PRECISION) \div PRECISION = y
      BY <1>1, <2>3
    <3>6. QED
      BY <2>1, <2>2, <3>4, <3>5 DEF f
  <2>6. QED
    BY <2>4, <2>5
<1>4. CASE n # stakeResetCount
  <2>1. n + 1 = stakeResetCount /\ n \in 0 .. stakeResetCount - 1
    BY <1>1, <1>4 DEF Live
  <2>2. Base(user) = [amount |-> Scaled(user), factor |-> PRECISION]
    BY <1>1, <1>4 DEF Base
  <2>3. FactorOf(n)' = FactorOf(n) /\ Scaled(user)' = Scaled(user)
    BY <2>1, EpochsKept DEF Scaled
  <2>4. n # stakeResetCount' /\ FactorOf(n + 1)' = f
    <3>1. CASE UNCHANGED stakeResetSnapshots
      <4>1. stakeResetCount' = stakeResetCount /\ stakeScalingFactor' = f
        BY <3>1, EpochGoesOn DEF f
      <4>2. QED
        BY <1>4, <2>1, <4>1 DEF FactorOf
    <3>2. CASE stakeResetSnapshots' # stakeResetSnapshots
      <4>1. stakeResetCount' = stakeResetCount + 1 /\ FactorOf(n + 1)' = f
        BY <2>1, <3>2, EpochEnds DEF f
      <4>2. QED
        BY <1>1, <2>1, <4>1
    <3>3. QED
      BY <3>1, <3>2
  <2>5. EffectiveStake(user)' = (Scaled(user) * f) \div PRECISION
    BY <1>1, <2>3, <2>4 DEF EffectiveStake
  <2>6. QED
    BY <2>2, <2>5 DEF f
<1>5. QED
  BY <1>3, <1>4
\* What a stake has pending is something that stays and what its base has gained,
\* to which a liquidation adds.
LEMMA BaseGains ==
  ASSUME TypeOK, NEW amount, NEW current, Shrinks(amount, current),
         NEW G \in Nat, current["eth"] = perToken["eth"] + G,
         NEW user \in UserInfo, user.stakeResetCount <= stakeResetCount, Live(user),
         user.cumulativeProductScalingFactor # 0
  PROVE  \E kept, g \in Int :
           /\ Pending(user, "eth", perToken) = kept + (g * Base(user).amount) \div Base(user).factor
           /\ Pending(user, "eth", perToken)'
                = kept + ((g + G) * Base(user).amount) \div Base(user).factor
<1> DEFINE n == user.stakeResetCount
           c == user.cumulativeProductScalingFactor
           w == user.stake
           P == PRECISION
           before == Pending(user, "eth", perToken)
           after  == Pending(user, "eth", perToken)'
<1>1. /\ w \in Nat /\ n \in Nat /\ stakeResetCount \in Nat /\ c \in Nat \ {0} /\ P \in Nat \ {0}
  BY UserParts, FactorPositive
<1>2. "eth" \in Currencies /\ perToken \in Amounts /\ current \in Amounts
  BY DEF Currencies, TypeOK, Shrinks
<1>3. user.snapshot["eth"] \in Nat /\ perToken["eth"] \in Nat /\ current["eth"] \in Nat
  BY <1>2 DEF UserInfo, Amounts
<1>4. CASE n = stakeResetCount
  <2>1. Base(user) = [amount |-> w, factor |-> c]
    BY <1>1, <1>4 DEF Base
  <2>2. PICK g \in Int : g = perToken["eth"] - user.snapshot["eth"]
    BY <1>3
  <2>3. current["eth"] - user.snapshot["eth"] = g + G
    BY <1>3, <2>2
  <2>4. Gain(user, "eth", perToken) = g
    BY <1>4, <2>2 DEF Gain, PerTokenOf
  <2>5. before = (g * w) \div c + 0
    BY <1>1, <1>4, <2>4 DEF Pending
  <2>6. PICK y \in Int, y1 \in Int : y = (g * w) \div c /\ y1 = ((g + G) * w) \div c
    <3>1. \A x \in Int : x \div c \in Int
      BY <1>1, QuotientBounds
    <3>2. g * w \in Int /\ (g + G) * w \in Int
      BY <1>1, Rearranged
    <3>3. QED
      BY <3>1, <3>2
  <2>7. after = y1
    <3>1. CASE UNCHANGED stakeResetSnapshots
      <4>1. stakeResetCount' = stakeResetCount /\ perToken' = current
        BY <3>1, EpochGoesOn
      <4>2. Gain(user, "eth", perToken)' = g + G
        BY <1>4, <2>3, <4>1 DEF Gain, PerTokenOf
      <4>3. after = y1 + 0
        BY <1>1, <1>4, <2>6, <4>1, <4>2 DEF Pending
      <4>4. QED
        BY <2>6, <4>3
    <3>2. CASE stakeResetSnapshots' # stakeResetSnapshots
      <4>1. /\ stakeResetCount' = stakeResetCount + 1 /\ stakeScalingFactor' = P
            /\ perToken' = Nothing /\ FactorOf(n)' = ScaledDown(amount)
            /\ PerTokenOf(n, "eth", perToken)' = current["eth"]
        BY <1>2, <1>4, <3>2, EpochEnds
      <4>2. n # stakeResetCount' /\ n + 1 = stakeResetCount'
        BY <1>1, <1>4, <4>1
      <4>3. Gain(user, "eth", perToken)' = g + G
        BY <2>3, <4>1 DEF Gain
      <4>4. PerTokenOf(n + 1, "eth", perToken)' = 0
        BY <1>2, <4>1, <4>2 DEF PerTokenOf, Nothing
      <4>5. PICK z \in Nat : z = Scaled(user)'
        <5>1. totalStakedRaw \in Nat \ {0} /\ amount \in Nat /\ amount <= totalStakedRaw
          BY DEF Shrinks
        <5>2. ScaledDown(amount) \in Nat
          BY <1>1, <5>1, FactorPositive, ScaledDownType DEF ScaledDown
        <5>3. w * ScaledDown(amount) \in Nat
          BY <1>1, <5>2, ProductType
        <5>4. Scaled(user)' = (w * ScaledDown(amount)) \div c
          BY <4>1 DEF Scaled
        <5>5. QED
          BY <1>1, <5>3, <5>4, QuotientType
      <4>6. after = y1 + (0 * z) \div P
        BY <1>1, <2>6, <4>2, <4>3, <4>4, <4>5 DEF Pending
      <4>7. (0 * z) \div P = 0
        BY <1>1
      <4>8. QED
        BY <2>6, <4>6, <4>7
    <3>3. QED
      BY <3>1, <3>2
  <2>8. before = 0 + y /\ after = 0 + y1
    BY <2>5, <2>6, <2>7
  <2>9. QED
    BY <2>1, <2>6, <2>8
<1>5. CASE n # stakeResetCount
  <2>1. n + 1 = stakeResetCount /\ n \in 0 .. stakeResetCount - 1
    BY <1>1, <1>5 DEF Live
  <2>2. Base(user) = [amount |-> Scaled(user), factor |-> P]
    BY <1>1, <1>5 DEF Base
  <2>3. PICK S \in Nat : S = Scaled(user)
    BY <1>1, EffectiveStakeType
  <2>4. PICK kept : kept = (Gain(user, "eth", perToken) * w) \div c
    OBVIOUS
  <2>5. kept \in Int
    <3>1. PerTokenOf(n, "eth", perToken) \in Nat
      BY <1>1, <1>2, EpochType
    <3>2. PICK g \in Int : g = Gain(user, "eth", perToken)
      BY <1>3, <3>1 DEF Gain
    <3>3. g * w \in Int
      BY <1>1, <3>2, Rearranged
    <3>4. (g * w) \div c \in Int
      BY <1>1, <3>3, QuotientBounds
    <3>5. QED
      BY <2>4, <3>2, <3>4
  <2>6. PICK g \in Int : g = perToken["eth"]
    BY <1>3
  <2>7. before = kept + (g * S) \div P
    <3>1. PerTokenOf(n + 1, "eth", perToken) = g
      BY <2>1, <2>6 DEF PerTokenOf
    <3>2. QED
      BY <1>1, <1>5, <2>3, <2>4, <3>1 DEF Pending
  <2>8. after = kept + ((g + G) * S) \div P
    <3>1. /\ FactorOf(n)' = FactorOf(n)
          /\ PerTokenOf(n, "eth", perToken)' = PerTokenOf(n, "eth", current)
      BY <1>2, <2>1, EpochsKept
    <3>2. PerTokenOf(n, "eth", current) = PerTokenOf(n, "eth", perToken)
      BY <1>5 DEF PerTokenOf
    <3>3. Scaled(user)' = S /\ Gain(user, "eth", perToken)' = Gain(user, "eth", perToken)
      BY <2>3, <3>1, <3>2 DEF Scaled, Gain
    <3>4. n # stakeResetCount' /\ PerTokenOf(n + 1, "eth", perToken)' = g + G
      <4>1. CASE UNCHANGED stakeResetSnapshots
        <5>1. stakeResetCount' = stakeResetCount /\ perToken' = current
          BY <4>1, EpochGoesOn
        <5>2. QED
          BY <1>5, <2>1, <2>6, <5>1 DEF PerTokenOf
      <4>2. CASE stakeResetSnapshots' # stakeResetSnapshots
        <5>1. stakeResetCount' = stakeResetCount + 1
              /\ PerTokenOf(n + 1, "eth", perToken)' = current["eth"]
          BY <1>2, <2>1, <4>2, EpochEnds
        <5>2. QED
          BY <1>1, <2>1, <2>6, <5>1
      <4>3. QED
        BY <4>1, <4>2
    <3>5. QED
      BY <1>1, <2>4, <3>3, <3>4 DEF Pending
  <2>9. QED
    BY <2>2, <2>3, <2>5, <2>6, <2>7, <2>8
<1>6. QED
  BY <1>4, <1>5

\* In numbers.
LEMMA NothingOfAnything ==
  \A t, r, x \in Nat :
    /\ 0 * t <= (0 + 1) * r
    /\ (0 * r) * 1 <= ((0 + 1) * 1 + 2 * 0) * t
    /\ ((0 - 0) - 1) * t <= (0 + 1) * x
    /\ (0 * x) * 1 <= (((0 - 0) + 1) * 1 + 0) * t
<1> TAKE t, r, x \in Nat
<1>1. 0 * t = 0 /\ 0 * r = 0 /\ 0 * x = 0
  OBVIOUS
<1>2. (0 + 1) * r = r /\ (0 + 1) * x = x /\ ((0 + 1) * 1 + 2 * 0) * t = t
      /\ ((0 - 0) - 1) * t = -t /\ (((0 - 0) + 1) * 1 + 0) * t = t
  OBVIOUS
<1>3. QED
  BY <1>1, <1>2

\* Who has never staked has nothing to lose and gains nothing.
LEMMA NothingToShare ==
  ASSUME TypeOK, NEW u \in Users, users[u] \in UserInfo, UNCHANGED users,
         users[u].cumulativeProductScalingFactor = 0, users[u].stake = 0,
         NEW t \in Nat, t = totalStakedRaw, NEW r \in Nat, r = totalStakedRaw',
         NEW x \in Nat, x = eth' - eth + loss["eth"]
  PROVE  InProportion(u)
<1>1. EffectiveStake(users[u]) = 0 /\ EffectiveStake(users[u])' = 0
  BY DEF EffectiveStake
<1>2. PendingNow(u, "eth") = 0 /\ PendingNow(u, "eth")' = 0
  BY DEF PendingNow, Pending
<1>3. Base(users[u]).amount = 0 /\ Base(users[u]).factor = 1
  BY DEF Base
<1>4. /\ 0 * t <= (0 + 1) * r
      /\ (0 * r) * 1 <= ((0 + 1) * 1 + 2 * 0) * t
      /\ ((0 - 0) - 1) * t <= (0 + 1) * x
      /\ (0 * x) * 1 <= (((0 - 0) + 1) * 1 + 0) * t
  BY NothingOfAnything, Zenon
<1>5. /\ EffectiveStake(users[u])' * totalStakedRaw
           <= (EffectiveStake(users[u]) + 1) * totalStakedRaw'
      /\ (EffectiveStake(users[u]) * totalStakedRaw') * Base(users[u]).factor
           <= ((EffectiveStake(users[u])' + 1) * Base(users[u]).factor
                + 2 * Base(users[u]).amount) * totalStakedRaw
  <2>1. /\ 0 * totalStakedRaw <= (0 + 1) * totalStakedRaw'
        /\ (0 * totalStakedRaw') * 1 <= ((0 + 1) * 1 + 2 * 0) * totalStakedRaw
    BY <1>4
  <2>2. QED
    BY <1>1, <1>3, <2>1, Zenon
<1>6. /\ ((PendingNow(u, "eth")' - PendingNow(u, "eth")) - 1) * totalStakedRaw
           <= (EffectiveStake(users[u]) + 1) * (eth' - eth + loss["eth"])
      /\ (EffectiveStake(users[u]) * (eth' - eth + loss["eth"])) * Base(users[u]).factor
           <= (((PendingNow(u, "eth")' - PendingNow(u, "eth")) + 1) * Base(users[u]).factor
                + Base(users[u]).amount) * totalStakedRaw
  <2>1. /\ ((0 - 0) - 1) * t <= (0 + 1) * (eth' - eth + loss["eth"])
        /\ (0 * (eth' - eth + loss["eth"])) * 1 <= (((0 - 0) + 1) * 1 + 0) * t
    BY <1>4, Zenon
  <2>2. QED
    BY <1>1, <1>2, <1>3, <2>1, Zenon
<1>7. QED
  BY <1>5, <1>6, Zenon DEF InProportion

\* A liquidation shares its debt and its collateral.
LEMMA LiquidationInProportion ==
  ASSUME Inv, NewUsersEmpty, NEW amount \in Nat \ {0}, NEW collateral \in Nat,
         PerformLiquidation(amount, collateral),
         NEW u \in Users, users[u].stakeResetCount + 1 >= stakeResetCount
  PROVE  InProportion(u)
<1> DEFINE G == PerToken("eth", collateral)
           f == ScaledDown(amount)
<1>1. /\ amount <= totalStakedRaw
      /\ totalStakedRaw' = totalStakedRaw - amount
      /\ eth' = eth + collateral
      /\ UNCHANGED users
  BY ZenonT(30) DEF PerformLiquidation
<1>2. /\ TypeOK /\ perToken \in Amounts /\ loss \in Amounts /\ "eth" \in Currencies
      /\ eth \in Nat /\ totalStakedRaw \in Nat \ {0} /\ users[u] \in UserInfo
      /\ users[u].stakeResetCount <= stakeResetCount
      /\ users[u].cumulativeProductScalingFactor = 0 => users[u].stake = 0
  BY <1>1 DEF Inv, TypeOK, EpochsPast, NewUsersEmpty, Currencies
<1>3. PICK t \in Nat \ {0}, r \in Nat : t = totalStakedRaw /\ r = totalStakedRaw' /\ r = t - amount
                                        /\ amount <= t
  BY <1>1, <1>2
<1>4. PICK x \in Nat : x = collateral + loss["eth"] /\ x = eth' - eth + loss["eth"]
  BY <1>1, <1>2 DEF Amounts
<1>5. CASE users[u].cumulativeProductScalingFactor = 0
  BY <1>1, <1>2, <1>3, <1>4, <1>5, NothingToShare
<1>6. CASE users[u].cumulativeProductScalingFactor # 0
  <2>1. PICK current : current = [perToken EXCEPT !["eth"] = @ + G]
    OBVIOUS
  <2>2. G \in Nat
    BY <1>2, DistributionType
  <2>3. current \in Amounts /\ current["eth"] = perToken["eth"] + G
    <3> HIDE DEF G
    <3>1. current \in Amounts
      BY <1>2, <2>1, <2>2, AmountGrows
    <3>2. QED
      BY <1>2, <2>1, <3>1 DEF Amounts
  <2>4. Shrinks(amount, current)
    <3>1. \/ /\ stakeScalingFactor' = f
             /\ perToken' = current
             /\ UNCHANGED stakeResetSnapshots
          \/ /\ stakeResetSnapshots' =
                  Append(stakeResetSnapshots, [scalingFactor |-> f, perToken |-> current])
             /\ stakeScalingFactor' = PRECISION
             /\ perToken' = Nothing
      BY <2>1, ZenonT(30) DEF PerformLiquidation
    <3>2. QED
      BY <1>1, <1>2, <2>3, <3>1 DEF Shrinks
  <2>5. Live(users[u])
    BY DEF Live
  <2>6. PICK s \in Nat : s = stakeScalingFactor /\ s <= PRECISION
    BY <1>2, FactorPositive
  <2>7. f \in Nat /\ f * t <= s * r /\ s * r <= f * t + 2 * t
    <3>1. f = (s * (((t - amount) * PRECISION) \div t)) \div PRECISION
      BY <1>3, <2>6 DEF ScaledDown
    <3>2. PRECISION \in Nat \ {0}
      BY <1>2, FactorPositive
    <3>3. QED
      BY <1>3, <2>6, <3>1, <3>2, FactorShrinksInProportion
  <2>8. PICK w \in Nat, d \in Nat \ {0} : w = Base(users[u]).amount /\ d = Base(users[u]).factor
    BY <1>2, <1>6, <2>5, BaseOf
  <2>9. PICK e \in Nat, e1 \in Nat :
          /\ e = EffectiveStake(users[u]) /\ e = (w * s) \div d
          /\ e1 = EffectiveStake(users[u])' /\ e1 = (w * f) \div d
    <3>1. EffectiveStake(users[u]) = (w * s) \div d
      BY <1>2, <1>6, <2>5, <2>6, <2>8, BaseOf
    <3>2. EffectiveStake(users[u])' = (w * f) \div d
      <4>1. \A user \in UserInfo :
              (/\ user.stakeResetCount <= stakeResetCount /\ Live(user)
               /\ user.cumulativeProductScalingFactor # 0)
                => EffectiveStake(user)' = (Base(user).amount * f) \div Base(user).factor
        BY <1>2, <2>4, BaseShrinks
      <4>2. PICK user \in UserInfo : user = users[u]
        BY <1>2
      <4>3. EffectiveStake(user)' = (w * f) \div d
        BY <1>2, <1>6, <2>5, <2>8, <4>1, <4>2
      <4>4. EffectiveStake(users[u])' = EffectiveStake(user)'
        BY <1>1, <4>2 DEF EffectiveStake, Scaled
      <4>5. QED
        BY <4>3, <4>4
    <3>3. (w * s) \div d \in Nat /\ (w * f) \div d \in Nat
      BY <2>6, <2>7, <2>8, ProductType, QuotientType
    <3>4. QED
      BY <3>1, <3>2, <3>3
  <2>10. e1 * t <= (e + 1) * r /\ (e * r) * d <= ((e1 + 1) * d + 2 * w) * t
    <3> HIDE DEF f
    <3>1. QED
      BY <2>7, <2>9, StakeInProportion
  <2>11. t * G <= x * s /\ x * s <= t * G + t
    <3>1. G = (x * s) \div t
      BY <1>2, <1>3, <1>4, <2>6 DEF PerToken
    <3> HIDE DEF G
    <3>2. PICK y \in Nat : y = x * s
      BY <1>4, <2>6, ProductType
    <3>3. G = y \div t /\ y \in Int
      BY <3>1, <3>2
    <3>4. t * (y \div t) <= y /\ y <= t * (y \div t) + (t - 1)
      BY <1>3, <3>3, QuotientBounds, Zenon
    <3>5. t * G <= y /\ y <= t * G + (t - 1)
      BY <3>3, <3>4
    <3>6. t * G \in Nat
      BY <1>3, <2>2, ProductType
    <3>7. QED
      BY <1>3, <3>2, <3>5, <3>6
  <2>12. PICK kept \in Int, g \in Int :
           /\ PendingNow(u, "eth") = kept + (g * w) \div d
           /\ PendingNow(u, "eth")' = kept + ((g + G) * w) \div d
    <3>1. PICK user \in UserInfo : user = users[u]
      BY <1>2
    <3> HIDE DEF G
    <3>2. \E kept, g \in Int :
            /\ Pending(user, "eth", perToken) = kept + (g * w) \div d
            /\ Pending(user, "eth", perToken)' = kept + ((g + G) * w) \div d
      <4>1. user.stakeResetCount <= stakeResetCount /\ Live(user)
            /\ user.cumulativeProductScalingFactor # 0
        BY <1>2, <1>6, <2>5, <3>1
      <4>2. QED
        BY <1>2, <2>2, <2>3, <2>4, <2>8, <3>1, <4>1, BaseGains
    <3>3. PendingNow(u, "eth") = Pending(user, "eth", perToken)
      BY <3>1 DEF PendingNow
    <3>4. PendingNow(u, "eth")' = Pending(user, "eth", perToken)'
      BY <1>1, <3>1 DEF PendingNow, Pending, Gain, Scaled
    <3>5. QED
      BY <3>2, <3>3, <3>4
  <2>13. PICK p \in Int, p1 \in Int : p = (g * w) \div d /\ p1 = ((g + G) * w) \div d
    <3> HIDE DEF G
    <3>1. g * w \in Int /\ (g + G) * w \in Int
      BY <2>2, <2>8, <2>12, Rearranged
    <3>2. QED
      BY <2>8, <3>1, QuotientBounds
  <2>14. (p1 - p - 1) * t <= (e + 1) * x /\ (e * x) * d <= ((p1 - p + 1) * d + w) * t
    <3> HIDE DEF G
    <3>1. QED
      <4>1. /\ w \in Nat /\ d \in Nat \ {0} /\ s \in Nat /\ t \in Nat /\ x \in Nat
            /\ g \in Int /\ G \in Nat /\ e \in Nat /\ p \in Int /\ p1 \in Int
        BY <1>3, <1>4, <2>2, <2>6, <2>8, <2>9, <2>12, <2>13
      <4>2. e = (w * s) \div d /\ p = (g * w) \div d /\ p1 = ((g + G) * w) \div d
        BY <2>9, <2>13
      <4>3. QED
        BY <2>11, <4>1, <4>2, GainInProportion, Zenon
  <2>15. PendingNow(u, "eth")' - PendingNow(u, "eth") = p1 - p
    <3>1. PendingNow(u, "eth") = kept + p /\ PendingNow(u, "eth")' = kept + p1
      BY <2>12, <2>13
    <3>2. QED
      BY <2>12, <2>13, <3>1
  <2>16. QED
    BY <1>3, <1>4, <2>8, <2>9, <2>10, <2>14, <2>15 DEF InProportion
<1>7. QED
  BY <1>5, <1>6

\* A multiple divided.
LEMMA MultipleDivided ==
  ASSUME NEW w \in Nat, NEW s \in Nat \ {0}
  PROVE  (w * s) \div s = w
<1> DEFINE q == (w * s) \div s
<1>1. q \in Nat /\ s * q <= w * s /\ w * s <= s * q + (s - 1)
  BY ProductType, QuotientType, QuotientBounds
<1> HIDE DEF q
<1>2. s * (w - q) >= 0 /\ s * (w - q) < s
  BY <1>1
<1>3. PICK z \in Int : z = w - q
  BY <1>1
<1>4. z = 0
  <2>1. s * z >= 0 /\ s * z < s
    BY <1>2, <1>3
  <2>2. ~ z >= 1 /\ ~ z <= -1
    BY <2>1
  <2>3. QED
    BY <2>2
<1>5. q = w
  BY <1>1, <1>3, <1>4
<1>6. QED
  BY <1>5 DEF q

\* A call that changes a stake by an amount leaves another record of the user: a
\* stake that is up to date is what it was.
LEMMA CompleteChanges ==
  ASSUME TypeOK, NEW u \in Users, NEW user \in UserInfo, user.stake = users[u].stake,
         user.cumulativeProductScalingFactor = users[u].cumulativeProductScalingFactor,
         user.stakeResetCount = users[u].stakeResetCount,
         NEW op \in {"stake", "unstake"}, NEW amount \in Nat \ {0},
         NEW sbr, NEW held, Complete(u, user, op, amount, sbr, held)
  PROVE  users' # users
<1> SUFFICES ASSUME users' = users PROVE FALSE
  OBVIOUS
<1> DEFINE change == CASE op = "stake" -> amount [] op = "unstake" -> -amount [] OTHER -> 0
<1>1. users' = [users EXCEPT ![u] = Settled(user, change)]
  BY ZenonT(30) DEF Complete
<1>2. change \in Int /\ change # 0
  OBVIOUS
<1> HIDE DEF change
<1>3. users \in [Users -> UserInfo] /\ stakeScalingFactor \in Nat \ {0}
  BY FactorPositive DEF TypeOK
<1>4. users[u] = Settled(user, change)
  BY <1>1, <1>3
<1>5. /\ users[u].stake = EffectiveStake(user) + change
      /\ users[u].cumulativeProductScalingFactor = stakeScalingFactor
      /\ users[u].stakeResetCount = stakeResetCount
  BY <1>4 DEF Settled, UserInfo
<1>6. PICK s \in Nat \ {0}, w \in Nat : s = stakeScalingFactor /\ w = user.stake
  BY <1>3 DEF UserInfo
<1>7. EffectiveStake(user) = (w * s) \div s
  BY <1>3, <1>5, <1>6 DEF EffectiveStake, Scaled, FactorOf
<1>8. (w * s) \div s = w
  BY <1>6, MultipleDivided
<1>9. QED
  BY <1>2, <1>5, <1>6, <1>7, <1>8

\* Of the steps of the pool, only a liquidation lowers the total and leaves all
\* users as they are.
LEMMA LiquidatedBy ==
  ASSUME Inv, Next, Liquidated
  PROVE  \E amount \in LiquidationAmounts, collateral \in CollateralAmounts :
           PerformLiquidation(amount, collateral)
<1>1. TypeOK /\ totalStakedRaw \in Nat /\ totalStakedRaw' # totalStakedRaw /\ users' = users
  BY DEF Inv, TypeOK, Liquidated
<1>2. ASSUME NEW u \in Users, NEW op \in {"stake", "unstake", "claim"}, NEW amount \in Nat,
             NEW user, NEW sbr, NEW held, Complete(u, user, op, amount, sbr, held)
      PROVE  op # "claim" /\ amount # 0
  <2>1. totalStakedRaw' = totalStakedRaw
                          + (CASE op = "stake" -> amount [] op = "unstake" -> -amount [] OTHER -> 0)
    BY <1>2, ZenonT(30) DEF Complete
  <2>2. QED
    BY <1>1, <2>1
<1>3. ASSUME NEW u \in Users, NEW op \in {"stake", "unstake", "claim"}, NEW amount \in Nat,
             Transact(u, op, amount)
      PROVE  FALSE
  <2>1. Complete(u, PaidUser(u), op, amount, SBRToMint(u), dfid - PendingNow(u, "sbd"))
    BY <1>3, ZenonT(30) DEF Transact
  <2>2. op \in {"stake", "unstake"} /\ amount \in Nat \ {0}
    BY <1>2, <2>1
  <2>3. /\ PaidUser(u) \in UserInfo /\ PaidUser(u).stake = users[u].stake
        /\ PaidUser(u).cumulativeProductScalingFactor = users[u].cumulativeProductScalingFactor
        /\ PaidUser(u).stakeResetCount = users[u].stakeResetCount
    <3>1. PayRewards(u) /\ UNCHANGED <<now, Scale>>
      BY <1>3, <2>1, ZenonT(30) DEF Transact, Complete, Scale
    <3>2. PICK current : current = [perToken EXCEPT !["sbr"] = @ + IssuedPerToken]
      OBVIOUS
    <3>3. SameStake(PaidUser(u), users[u]) /\ PaidUser(u) \in UserInfo
      BY <3>1, <3>2, PayRewardsStep, PaidUserUpToDate
    <3>4. QED
      BY <3>3 DEF SameStake
  <2>4. users' # users
    BY <1>1, <2>1, <2>2, <2>3, CompleteChanges
  <2>5. QED
    BY <1>1, <2>4
<1>4. ASSUME NEW u \in Users, NEW op, NEW amount, BeginCall(u, op, amount)
      PROVE  FALSE
  BY <1>1, <1>4, ZenonT(30) DEF BeginCall
<1>5. ASSUME NEW op \in {"stake", "unstake", "claim"}, FinishCall(op)
      PROVE  FALSE
  <2> DEFINE call == calls[Len(calls)]
  <2>1. Complete(call.user, users[call.user], op, call.amount, call.sbr, dfid) /\ call.op = op
        /\ calls # <<>>
    BY <1>5, ZenonT(30) DEF FinishCall
  <2>2. /\ call \in Call /\ call.user \in Users /\ call.amount \in Nat
        /\ users[call.user] \in UserInfo
    <3>1. calls \in Seq(Call) /\ Len(calls) \in DOMAIN calls
      BY <1>1, <2>1 DEF TypeOK
    <3>2. call \in Call
      BY <3>1
    <3> HIDE DEF call
    <3>3. call.user \in Users /\ call.amount \in Nat
      BY <3>2 DEF Call
    <3>4. QED
      BY <1>1, <3>2, <3>3 DEF TypeOK
  <2> HIDE DEF call
  <2>3. op \in {"stake", "unstake"} /\ call.amount \in Nat \ {0}
    BY <1>2, <2>1, <2>2
  <2>4. users' # users
    BY <1>1, <2>1, <2>2, <2>3, CompleteChanges
  <2>5. QED
    BY <1>1, <2>4
<1>6. ~ Tick /\ (\A n \in RewardAmounts : ~ AddReward(n))
      /\ (\A n \in CollateralAmounts : ~ AddCollateralReward(n))
  BY <1>1, ZenonT(30) DEF Tick, AddReward, AddCollateralReward
<1>7. ~ UserCall
  <2>1. StakeAmounts \subseteq Nat
    BY StabilityPoolAssumption
  <2>2. QED
    BY <1>3, <1>4, <2>1 DEF UserCall
<1>8. Distribution
  BY <1>5, <1>6, <1>7 DEF Next
<1>9. QED
  BY <1>6, <1>8, ZenonT(30) DEF Distribution

\* Every liquidation takes its debt from the stakes, and gives them its
\* collateral, in proportion, for any amounts and precision, whether it resets
\* the scaling factor or not.
THEOREM LiquidationsAreShared == SpecH => LiquidationShared
<1>1. ASSUME InvH, [NextH]_varsH, Liquidated,
             NEW u \in Users, users[u].stakeResetCount + 1 >= stakeResetCount
      PROVE  InProportion(u)
  <2>1. Inv /\ NewUsersEmpty
    BY <1>1 DEF InvH
  <2>2. Next
    <3>1. totalStakedRaw \in Nat
      BY <2>1 DEF Inv, TypeOK
    <3>2. ~ UNCHANGED varsH
      BY <1>1, <3>1 DEF Liquidated, varsH, poolVars
    <3>3. QED
      BY <1>1, <3>2 DEF NextH
  <2>3. PICK amount \in LiquidationAmounts, collateral \in CollateralAmounts :
          PerformLiquidation(amount, collateral)
    BY <1>1, <2>1, <2>2, LiquidatedBy
  <2>4. amount \in Nat \ {0} /\ collateral \in Nat
    BY StabilityPoolAssumption
  <2>5. QED
    BY <1>1, <2>1, <2>3, <2>4, LiquidationInProportion
<1>2. InvH /\ [NextH]_varsH
        => [Liquidated => \A u \in {v \in Users : users[v].stakeResetCount + 1 >= stakeResetCount} :
              InProportion(u)]_poolVars
  BY <1>1
<1>3. QED
  BY <1>2, InvarianceH, PTL DEF SpecH, LiquidationShared
=============================================================================
