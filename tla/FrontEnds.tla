------------------------------ MODULE FrontEnds ------------------------------
(***************************************************************************)
(* Both families of pages in the browser of one user: those of a Safe      *)
(* (SafeApps) and those of the stability pool (StakeApps).  They share no  *)
(* state: each page keeps its own data, and a stake moves DFID that the    *)
(* user has anyway.                                                        *)
(***************************************************************************)
EXTENDS SafeApps

CONSTANTS
  StakeAmounts, Balance,                       \* Amounts and Balance of StakeApps
  MaxStakeVisits, MaxStakeEvents, MaxStakeSent \* its bounds

ASSUME FrontEndsAssumption == StakeAmounts \subseteq Nat /\ Balance \in Nat

VARIABLES stakerDfid, allowance, recorded, stake, stakePage, stakeSent, stakeVisits,
          stakeEvents, burned, approved, stakedSince

Staking == INSTANCE StakeApps WITH
  Amounts <- StakeAmounts, MaxVisits <- MaxStakeVisits, MaxEvents <- MaxStakeEvents,
  MaxSent <- MaxStakeSent,
  dfid <- stakerDfid, page <- stakePage, sent <- stakeSent, visits <- stakeVisits,
  events <- stakeEvents

stakeVars == <<stakerDfid, allowance, recorded, stake, stakePage, stakeSent, stakeVisits,
               stakeEvents, burned, approved, stakedSince>>

FrontEndsInit == Init /\ Staking!Init

FrontEndsNext == \/ Next /\ UNCHANGED stakeVars
                 \/ Staking!Next /\ UNCHANGED vars

FrontEndsSpec == FrontEndsInit /\ [][FrontEndsNext]_<<vars, stakeVars>>

-----------------------------------------------------------------------------
(* Properties. *)

\* A second click, or a page that is loaded again while a transaction is in
\* flight, moves no ETH and no DFID twice.
NothingTwice == RetryDepositsOnce /\ Staking!StakedAsApproved

\* What the pages of the pool offer is what the pool accepts.
OffersAreAccepted == Staking!OfferedStakeIsAllowed /\ Staking!OfferedUnstakeIsHeld
===============================================================================
