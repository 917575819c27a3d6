-------------------------- MODULE MCStableBaseCDP --------------------------
(* Small instances of StableBaseCDP.  A scenario is chosen at the start: it    *)
(* says how many Safes there are, which of them open and borrow first, one     *)
(* after another, how many calls there are in all, and, by an instance of the  *)
(* specification, with which amounts, rates and hints.                         *)
EXTENDS StableBaseCDPH

CONSTANT Scenarios

VARIABLES scenario, calls

\* Liquidations by the pool and by redistribution, of which two may follow one
\* another, with every call of an owner around them.
Liquidations == INSTANCE StableBaseCDP WITH
  Debts <- {16}, ShieldingRates <- {4}, Hints <- {0}, StakeAmounts <- {16},
  RedeemAmounts <- {}, ReentrantCalls <- FALSE

\* Redemptions that cover several Safes, at different weights.
Redemptions == INSTANCE StableBaseCDP WITH
  Collaterals <- {10}, Debts <- {8, 16}, ShieldingRates <- {2, 4}, Hints <- {0},
  StakeAmounts <- {8}, GasCosts <- {0}, RedeemAmounts <- {9, 20}, ReentrantCalls <- FALSE

\* A redeemer who calls back while it is paid.
Callbacks == INSTANCE StableBaseCDP WITH
  Debts <- {8, 16}, ShieldingRates <- {2}, Hints <- {0}, StakeAmounts <- {8}, GasCosts <- {0},
  RedeemAmounts <- {9, 20}, ReentrantCalls <- TRUE

\* Good and bad hints, and a Safe that may inherit a debt before it borrows.
Queues == INSTANCE StableBaseCDP WITH
  Collaterals <- {10}, Debts <- {8, 16}, ShieldingRates <- {4}, Hints <- {0, 1, 3},
  StakeAmounts <- {8}, RedeemAmounts <- {10, 20}, ReentrantCalls <- FALSE

\* Safes that are alone in the queues, with a debt or without.
Singles == INSTANCE StableBaseCDP WITH
  Collaterals <- {10}, Debts <- {8}, ShieldingRates <- {2}, Hints <- {0}, StakeAmounts <- {8},
  GasCosts <- {0}, RedeemAmounts <- {10}, ReentrantCalls <- FALSE

\* A borrower who pays no fee, and has nobody beside it.
Alone == INSTANCE StableBaseCDP WITH
  Debts <- {8, 16}, ShieldingRates <- {0}, Hints <- {0}, StakeAmounts <- {8},
  RedeemAmounts <- {10, 20}, ReentrantCalls <- FALSE

\* Borrowers who pay a fee for the place in the redemption queue.
Ranked == INSTANCE StableBaseCDP WITH
  Debts <- {8, 16}, ShieldingRates <- {2}, Hints <- {0}, StakeAmounts <- {8},
  RedeemAmounts <- {10, 20}, ReentrantCalls <- FALSE

\* A borrower whose fee is about what a redemption charges.
BaseFees == INSTANCE StableBaseCDP WITH
  Collaterals <- {20}, Debts <- {24}, ShieldingRates <- {1}, Hints <- {0}, StakeAmounts <- {8},
  RedeemAmounts <- {20, 30}, ReentrantCalls <- FALSE

Bounds ==
  [liquidations |-> [safes |-> 3, prepared |-> 3, calls |-> 9],
   redemptions  |-> [safes |-> 3, prepared |-> 3, calls |-> 9],
   callbacks    |-> [safes |-> 2, prepared |-> 2, calls |-> 8],
   queues       |-> [safes |-> 3, prepared |-> 2, calls |-> 8],
   singles      |-> [safes |-> 2, prepared |-> 0, calls |-> 7],
   alone        |-> [safes |-> 2, prepared |-> 1, calls |-> 4],
   ranked       |-> [safes |-> 2, prepared |-> 2, calls |-> 6],
   baseFees     |-> [safes |-> 2, prepared |-> 2, calls |-> 6]]

MCInit == InitH /\ scenario \in Scenarios /\ calls = 0

PreparingCall(amounts, debts, rates) ==
  LET s == (calls \div 2) + 1
  IN  \/ calls % 2 = 0 /\ \E amount \in amounts : OpenSafe(s, amount)
      \/ calls % 2 = 1 /\ \E amount \in debts, rate \in rates : Borrow(s, amount, rate, 0, 0)

Preparing ==
  \/ scenario = "liquidations" /\ PreparingCall({10, 20}, {8, 16}, {4})
  \/ scenario = "redemptions"  /\ PreparingCall({10}, {8, 16}, {2, 4})
  \/ scenario \in {"callbacks", "ranked"} /\ PreparingCall({10, 20}, {8, 16}, {2})
  \/ scenario = "queues"       /\ PreparingCall({10}, {8, 16}, {2})
  \/ scenario = "alone"        /\ PreparingCall({10, 20}, {8, 16}, {0})
  \/ scenario = "baseFees"     /\ PreparingCall({20}, {24}, {1})

AnyCall ==
  \/ scenario = "liquidations" /\ Liquidations!Call
  \/ scenario = "redemptions"  /\ Redemptions!Call
  \/ scenario = "callbacks"    /\ Callbacks!Call
  \/ scenario = "queues"       /\ Queues!Call
  \/ scenario = "singles"      /\ Singles!Call
  \/ scenario = "alone"        /\ Alone!Call
  \/ scenario = "ranked"       /\ Ranked!Call
  \/ scenario = "baseFees"     /\ BaseFees!Call

MCNext ==
  /\ UNCHANGED scenario
  /\ \/ /\ calls < Bounds[scenario].calls
        /\ calls' = calls + 1
        /\ IF calls < 2 * Bounds[scenario].prepared
             THEN Preparing
             ELSE AnyCall \/ PriceChange
        /\ minted' \subseteq 1 .. Bounds[scenario].safes
     \/ /\ RedemptionStep
        /\ UNCHANGED calls
  /\ Remember

MCSpec == MCInit /\ [][MCNext]_<<varsH, scenario, calls>>
=============================================================================
