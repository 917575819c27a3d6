---------------------------- MODULE StabilityPoolH ----------------------------
(***************************************************************************)
(* StabilityPool with a history variable.  What the pool owes its stakers  *)
(* is covered by what it holds as long as none of two things has happened, *)
(* which the code lets happen: lapses  records them.                       *)
(***************************************************************************)
EXTENDS StabilityPool

VARIABLE lapses

varsH == <<poolVars, lapses>>

\* A stake that nobody has touched for two resets shrinks no further (the code
\* looks at the epoch it dates from and at the next one), and a liquidation
\* passes over what is left of it.
Overlooks ==
  /\ totalStakedRaw' < totalStakedRaw /\ users' = users
  /\ \E u \in Users :
       users[u].stakeResetCount + 1 < stakeResetCount /\ EffectiveStake(users[u]) > 0

\* A call counts what it pays, then pays, then brings the user's stake up to
\* date.  A distribution that comes in between is not counted, and what an old
\* stake gained in the epoch after its own is counted again.
Interrupts ==
  \/ /\ calls # <<>>
     /\ perToken' # perToken \/ stakeResetSnapshots' # stakeResetSnapshots
  \/ /\ Len(calls') > Len(calls)
     /\ users[calls'[Len(calls')].user].stakeResetCount # stakeResetCount

Remember ==
  lapses' = lapses \union (IF Overlooks THEN {"overlooked"} ELSE {})
                   \union (IF Interrupts THEN {"interrupted"} ELSE {})

InitH == Init /\ lapses = {}
NextH == Next /\ Remember
SpecH == InitH /\ [][NextH]_varsH

-----------------------------------------------------------------------------
(* Properties that the pool has until a lapse. *)

\* What the users can withdraw together fits into totalStakedRaw, until a stake
\* is overlooked.
StakesFitTotal == "overlooked" \notin lapses => StakesWithinTotal

\* The pool holds the DFID and the ETH that it owes, until there is a lapse.
SolventWithoutLapses == lapses = {} => Solvent

\* No more DFIRE is minted and promised than was issued, until there is a lapse.
IssuanceWithoutLapses == lapses = {} => IssuanceBounded
=============================================================================
