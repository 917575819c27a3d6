-------------------------------- MODULE Sums --------------------------------
(***************************************************************************)
(* The sum f[1] + ... + f[n] of a function on 1 .. n, by partial sums.     *)
(* The totals that the contracts keep (totalCollateral, totalDebt,         *)
(* totalStake) are claimed to be such sums.                                *)
(***************************************************************************)
EXTENDS Integers

\* s[i] is the sum of the first i values.
PartialSums(f, n) ==
  LET s[i \in 0 .. n] == IF i = 0 THEN 0 ELSE s[i - 1] + f[i] IN s

Sum(f, n) == PartialSums(f, n)[n]
=============================================================================
