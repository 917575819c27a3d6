------------------------------- MODULE MCApps -------------------------------
(* The pages of one user: those of a Safe, in three scenarios, or those of the *)
(* stability pool.                                                             *)
EXTENDS FrontEnds

CONSTANT Scenarios

VARIABLE scenario

\* What the cfg gives the constants, of which some scenarios use a part.
MCPrices       == {19, 31}
MCDeposits     == {1007, 1300}
MCAmounts      == {600, 1700}
MCRates        == {0, 100}
MCInheritances == {<<101, 60>>}

\* Four pages, one transaction at a time, and others around it.
Browsing == INSTANCE SafeApps WITH Deposits <- {1007}, Rates <- {100}

\* One page, loaded again, with two transactions in flight.
Retrying == INSTANCE SafeApps WITH
  Amounts <- {600}, Rates <- {100}, Opened <- {"borrow"}, MaxEvents <- 1, MaxSent <- 2

\* The same page with one transaction at a time, and a slider that can also be at 0.
Sliding == INSTANCE SafeApps WITH
  Deposits <- {1007}, Opened <- {"borrow"}, MaxEvents <- 1

MCInit ==
  /\ FrontEndsInit
  /\ scenario \in Scenarios
  /\ scenario = "staking" => chain.price = 19 /\ chain.stakers

MCNext ==
  /\ UNCHANGED scenario
  /\ \/ scenario = "browsing" /\ Browsing!Next /\ UNCHANGED stakeVars
     \/ scenario = "sliding"  /\ Sliding!Next /\ UNCHANGED stakeVars
     \/ scenario = "retrying" /\ Retrying!Next /\ UNCHANGED stakeVars
     \/ scenario = "staking"  /\ Staking!Next /\ UNCHANGED vars

MCSpec == MCInit /\ [][MCNext]_<<vars, stakeVars, scenario>>
=============================================================================
