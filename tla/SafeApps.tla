------------------------------- MODULE SafeApps -------------------------------
(***************************************************************************)
(* The front ends of a Safe: the pages borrow, repay, closeSafe and        *)
(* user-balances under src/frontends, in the browser of one user, and the  *)
(* part of the contracts that they see of the user's Safe.                 *)
(*                                                                         *)
(* A page reads the chain when it is loaded, computes what it shows from   *)
(* what it has read and from what is typed, and sends transactions.  A     *)
(* transaction is tried on the chain of the moment (estimateGas), then     *)
(* sent, and mined later; a page can be loaded again in between.           *)
(* Meanwhile the price moves, the Safe inherits debt from a liquidation,   *)
(* is redeemed or liquidated, and its id may be taken by somebody else.    *)
(*                                                                         *)
(* The handlers of one page run one after the other, and what they return  *)
(* replaces fields of its data.  Hints into the queues are left out, since *)
(* the queues take any (OrderedList); what remains of them is that the     *)
(* search may return nothing.                                              *)
(***************************************************************************)
EXTENDS Integers, Sequences

CONSTANTS
  PRECISION, MINIMUM_DEBT,
  Prices, Deposits, Amounts,    \* prices, and what is typed
  Rates,                        \* of the slider, in hundredths of a percent
  Inheritances,                 \* <<debt, collateral>> from liquidations of other Safes
  Opened,                       \* the pages that the user opens
  MaxVisits, MaxEvents, MaxSent \* pages loaded; what others do; transactions in flight

ASSUME SafeAppsAssumption ==
  /\ Opened \subseteq {"borrow", "repay", "closeSafe", "user-balances"}
  /\ PRECISION \in Nat \ {0} /\ MINIMUM_DEBT \in Nat \ {0}
  /\ Prices \subseteq Nat \ {0} /\ Deposits \subseteq Nat \ {0} /\ Amounts \subseteq Nat \ {0}
  /\ Rates \subseteq 0 .. 300
  /\ \A i \in Inheritances : i[1] \in Nat /\ i[2] \in Nat
  /\ MaxVisits \in Nat /\ MaxEvents \in Nat /\ MaxSent \in Nat

Apps == {"borrow", "repay", "closeSafe", "user-balances"}
None == -1

VARIABLES
  chain,    \* price, the Safe with the user's id and what it has inherited, whether there are stakers
  dfid,     \* the user's DFID
  page,     \* [app -> the data of the page]
  sent,     \* the user's transactions that are not mined, in the order of their nonces
  visits, events,
  outcome,  \* of the last transaction, when it was a loan: what it was and the DFID received
  paidIn    \* the ETH of the user in the Safe (history)

vars == <<chain, dfid, page, sent, visits, events, outcome, paidIn>>

BASIS_POINTS_DIVISOR == 10000
liquidationRatio     == 11000

-----------------------------------------------------------------------------
(* The contracts. *)

Debt       == chain.debt + chain.owedDebt
Collateral == chain.collateral + chain.owedCollateral

Limit == ((Collateral * chain.price * BASIS_POINTS_DIVISOR) \div liquidationRatio) \div PRECISION

CanOpen        == chain.owner = "none"
CanBorrow(a)   == chain.owner = "user" /\ Debt + a <= Limit /\ Debt + a >= MINIMUM_DEBT
CanRepay(a)    == /\ chain.owner = "user" /\ Debt > 0 /\ dfid >= a /\ a <= Debt
                  /\ a > 0
                  /\ Debt - a = 0 \/ Debt - a >= MINIMUM_DEBT
CanClose       == chain.owner = "user" /\ Debt = 0

Accepts(tx) == CASE tx.call = "openSafe" -> CanOpen
                 [] tx.call = "borrow"   -> CanBorrow(tx.amount)
                 [] tx.call = "repay"    -> CanRepay(tx.amount)
                 [] OTHER                -> CanClose

Updated == [chain EXCEPT !.debt = Debt, !.collateral = Collateral,
                         !.owedDebt = 0, !.owedCollateral = 0]
Removed == [chain EXCEPT !.owner = "none", !.debt = 0, !.collateral = 0,
                         !.owedDebt = 0, !.owedCollateral = 0]

Fee(amount, rate) == (amount * rate) \div BASIS_POINTS_DIVISOR

\* The fee goes to the stakers; what they cannot receive is refunded.
Minted(tx) == tx.amount - (IF chain.stakers THEN Fee(tx.amount, tx.rate) ELSE 0)

After(tx) == CASE tx.call = "openSafe" -> [chain EXCEPT !.owner = "user", !.collateral = tx.amount]
               [] tx.call = "borrow"   -> [Updated EXCEPT !.debt = @ + tx.amount]
               [] tx.call = "repay"    -> [Updated EXCEPT !.debt = @ - tx.amount]
               [] OTHER                -> Removed

-----------------------------------------------------------------------------
(* The pages. *)

Unloaded == [safeId |-> FALSE, price |-> 0, collateral |-> 0, debt |-> 0, value |-> None,
             max |-> None, deposit |-> 0, amount |-> 0, rate |-> 20, fee |-> None,
             youGet |-> None, of |-> 0, repayValue |-> None, ratio |-> None,
             buttons |-> {}, visit |-> 0, fresh |-> FALSE]

\* parseInt(parseFloat(rate in percent) * 100): for these, the product of the
\* doubles is just below the integer.
Truncated == {29, 57, 58, 113, 114, 115, 116, 201, 203, 205, 207, 226, 228, 230, 232,
              251, 253, 255}
Parsed(rate) == IF rate \in Truncated THEN rate - 1 ELSE rate

\* What a page computes of a collateral: its value, and the debt that it allows.
Value(collateral, price) == (collateral * price) \div PRECISION
MaxBorrow(value)         == (value * BASIS_POINTS_DIVISOR) \div liquidationRatio

RatioShown == ((Value(chain.collateral, chain.price) * BASIS_POINTS_DIVISOR) \div chain.debt) \div 100

Nothing == [tx |-> [call |-> "none"], got |-> 0]

Init ==
  /\ chain \in [price : Prices, owner : {"none"}, collateral : {0}, debt : {0},
                owedDebt : {0}, owedCollateral : {0}, stakers : BOOLEAN]
  /\ dfid = 0
  /\ page = [app \in Apps |-> Unloaded]
  /\ sent = <<>>
  /\ visits = 0 /\ events = 0
  /\ outcome = Nothing
  /\ paidIn = 0

\* load-safe.js.  The recorded debt and collateral are read, not what is inherited.
Read == [Unloaded EXCEPT !.safeId = TRUE, !.price = chain.price, !.fresh = TRUE,
                         !.collateral = chain.collateral, !.debt = chain.debt,
                         !.visit = visits + 1]

\* (With a mistake, to see that a property notices it: what is borrowed already is not subtracted.)
RoomOfCollateral == MaxBorrow(Value(chain.collateral, chain.price))

Room == MaxBorrow(Value(chain.collateral, chain.price)) - chain.debt

\* (With a mistake, to see that a property notices it: a Safe without debt is taken for none.)
LoadedForDebt(app) ==
  IF chain.owner = "other" THEN [Unloaded EXCEPT !.visit = visits + 1]
  ELSE [Read EXCEPT !.buttons = IF app = "borrow" /\ (chain.debt = 0 \/ Room <= 0) THEN {} ELSE {app}]

Loaded(app) ==
  IF chain.owner = "other" THEN [Unloaded EXCEPT !.visit = visits + 1]
  ELSE CASE app = "borrow"    -> IF chain.owner = "user" /\ Room > 0
                                 THEN [Read EXCEPT !.buttons = {"borrow"}, !.max = Room,
                                                   !.value = Value(chain.collateral, chain.price)]
                                 ELSE Read
         [] app = "closeSafe" -> [Read EXCEPT !.buttons = {"closeSafe"}]
         [] app = "repay"     -> [Read EXCEPT !.buttons = {"repay"}, !.ratio = RatioShown,
                                              !.value = Value(chain.collateral, chain.price)]
         [] OTHER             -> [Read EXCEPT !.ratio = IF chain.debt > 0 THEN RatioShown ELSE None]

\* ownerOf reverts when there is no Safe, and repay divides by the debt.
Throws(app) == \/ app \in {"repay", "closeSafe"} /\ chain.owner = "none"
               \/ app = "repay" /\ chain.debt = 0

Load(app) ==
  /\ visits < MaxVisits
  /\ visits' = visits + 1
  /\ page' = [page EXCEPT ![app] = IF Throws(app) THEN [Unloaded EXCEPT !.visit = visits + 1]
                                                  ELSE Loaded(app)]
  /\ UNCHANGED <<chain, dfid, sent, events, outcome, paidIn>>

Shows(app, data) ==
  /\ page' = [page EXCEPT ![app] = data]
  /\ UNCHANGED <<chain, dfid, sent, visits, events, outcome, paidIn>>

\* deposit-onchange.js runs when the deposit or the amount to borrow is typed.
Estimate(data) ==
  IF data.deposit = 0 THEN data
  ELSE LET value == Value(data.deposit, data.price) IN
       [data EXCEPT !.max = MaxBorrow(value), !.value = IF @ > 0 THEN @ ELSE value]

TypeDeposit(d) == /\ page["borrow"].safeId /\ page["borrow"].deposit # d
                  /\ Shows("borrow", Estimate([page["borrow"] EXCEPT !.deposit = d]))

TypeAmount(a)  == /\ page["borrow"].safeId /\ page["borrow"].amount # a
                  /\ Shows("borrow", Estimate([page["borrow"] EXCEPT !.amount = a]))

\* (With a mistake, to see that a property notices it: the fee of the rate before.)
SlideRateLate(r) ==
  LET data == page["borrow"]
      fee  == Fee(data.amount, Parsed(data.rate))
  IN /\ data.safeId /\ data.amount > 0
     /\ Shows("borrow",
              [data EXCEPT !.rate = r, !.fee = fee, !.youGet = data.amount - fee, !.of = data.amount,
                           !.buttons = @ \cup {IF data.collateral > 0 THEN "borrow" ELSE "openSafe"}])

\* onchange-shielding-rate.js.
SlideRate(r) ==
  LET data == page["borrow"]
      fee  == Fee(data.amount, Parsed(r))
  IN /\ data.safeId /\ data.amount > 0
     /\ Shows("borrow",
              [data EXCEPT !.rate = r, !.fee = fee, !.youGet = data.amount - fee, !.of = data.amount,
                           !.buttons = @ \cup {IF data.collateral > 0 THEN "borrow" ELSE "openSafe"}])

\* The same handler without an amount, or with the number 0 for a rate: it computes
\* nothing, and only the slider has moved.
SlideUnnoticed(r) ==
  LET data == page["borrow"]
  IN /\ data.safeId /\ (data.amount = 0 \/ r = 0)
     /\ Shows("borrow", [data EXCEPT !.rate = r])

\* onchange-repay-amount.js.
TypeRepay(v) == /\ page["repay"].safeId /\ page["repay"].repayValue # v
                /\ Shows("repay", [page["repay"] EXCEPT !.repayValue = v])

\* estimateGas throws when the call would revert now; then the wallet sends it.
Submit(app, tx) ==
  /\ Len(sent) < MaxSent
  /\ Accepts(tx)
  /\ sent' = Append(sent, tx)
  /\ UNCHANGED <<chain, dfid, page, visits, events, outcome, paidIn>>

Call(app, call, amount) ==
  LET data == page[app] IN
  [call |-> call, app |-> app, visit |-> data.visit, amount |-> amount, rate |-> Parsed(data.rate),
   youGet |-> data.youGet, of |-> data.of, fresh |-> TRUE]

ClickOpen ==
  LET data == page["borrow"] IN
  /\ "openSafe" \in data.buttons /\ data.deposit > 0
  /\ Submit("borrow", Call("borrow", "openSafe", data.deposit))

ClickBorrow ==
  LET data == page["borrow"] IN
  /\ "borrow" \in data.buttons /\ data.amount > 0
  /\ data.amount <= data.max
  /\ data.value > 0
  /\ Submit("borrow", Call("borrow", "borrow", data.amount))

\* getNearestSafeInQueue finds a place for a ratio that is not negative, and
\* returns undefined otherwise, which web3 does not take for an argument.
PlaceFound(ratio) == ratio >= 0

ClickRepay ==
  LET data == page["repay"] IN
  /\ "repay" \in data.buttons /\ data.repayValue # None
  /\ PlaceFound(data.debt - data.repayValue)
  /\ Submit("repay", Call("repay", "repay", data.repayValue))

ClickClose ==
  /\ "closeSafe" \in page["closeSafe"].buttons
  /\ Submit("closeSafe", Call("closeSafe", "closeSafe", 0))

\* What the handler returns to the page that has waited for the receipt.
Returned(data, tx) ==
  IF data.visit # tx.visit THEN data
  ELSE CASE tx.call = "openSafe" -> [data EXCEPT !.buttons = (@ \ {"openSafe"}) \cup {"borrow"}]
         [] OTHER                -> [data EXCEPT !.buttons = @ \ {tx.call}]

Aged(data) == [data EXCEPT !.fresh = FALSE]

\* The next transaction is mined.  The gas is the estimate of an earlier moment,
\* which only borrow.js adds to.
Mined(enough) ==
  LET tx == Head(sent)
      ok == Accepts(tx) /\ (enough \/ tx.fresh \/ tx.call = "borrow")
  IN /\ sent # <<>>
     /\ enough \/ ~tx.fresh
     /\ outcome' = IF ok /\ tx.call = "borrow" THEN [tx |-> tx, got |-> Minted(tx)] ELSE Nothing
     /\ chain' = IF ok THEN After(tx) ELSE chain
     /\ dfid' = IF ~ok THEN dfid
                ELSE CASE tx.call = "borrow" -> dfid + Minted(tx)
                       [] tx.call = "repay"  -> dfid - tx.amount
                       [] OTHER              -> dfid
     /\ paidIn' = IF ~ok THEN paidIn
                  ELSE CASE tx.call = "openSafe"  -> paidIn + tx.amount
                         [] tx.call = "closeSafe" -> 0
                         [] OTHER                 -> paidIn
     /\ page' = [app \in Apps |->
                   LET data == IF ok /\ app = tx.app THEN Returned(page[app], tx) ELSE page[app]
                   IN IF ok THEN Aged(data) ELSE data]
     /\ sent' = [i \in 1 .. Len(sent) - 1 |-> IF ok THEN Aged(sent[i + 1]) ELSE sent[i + 1]]
     /\ UNCHANGED <<visits, events>>

-----------------------------------------------------------------------------
(* What others do. *)

Others(changed, left) ==
  /\ events < MaxEvents
  /\ events' = events + 1
  /\ chain' = changed
  /\ paidIn' = left
  /\ page' = [app \in Apps |-> Aged(page[app])]
  /\ sent' = [i \in DOMAIN sent |-> Aged(sent[i])]
  /\ UNCHANGED <<dfid, visits, outcome>>

PriceMoves(p)  == p # chain.price /\ Others([chain EXCEPT !.price = p], paidIn)
StakersChange  == Others([chain EXCEPT !.stakers = ~@], paidIn)

Inherits(i) == /\ chain.owner = "user"
               /\ Others([chain EXCEPT !.owedDebt = @ + i[1], !.owedCollateral = @ + i[2]], paidIn)

\* A redemption pays off the whole debt with collateral of the same value.
Redeemed == /\ chain.owner = "user" /\ Debt > 0 /\ (Debt * PRECISION) \div chain.price < Collateral
            /\ Others([Updated EXCEPT !.debt = 0, !.collateral = @ - (Debt * PRECISION) \div chain.price],
                      paidIn)

Liquidated == /\ chain.owner = "user" /\ Debt > 0
              /\ Collateral * chain.price * BASIS_POINTS_DIVISOR < Debt * liquidationRatio * PRECISION
              /\ Others(Removed, 0)

IdTaken == /\ chain.owner = "none"
           /\ \E d \in Deposits : Others([chain EXCEPT !.owner = "other", !.collateral = d], paidIn)

Next ==
  \/ \E app \in Opened : Load(app)
  \/ \E d \in Deposits : TypeDeposit(d)
  \/ \E a \in Amounts : TypeAmount(a) \/ TypeRepay(a)
  \/ \E r \in Rates : SlideRate(r) \/ SlideUnnoticed(r)
  \/ ClickOpen \/ ClickBorrow \/ ClickRepay \/ ClickClose
  \/ \E enough \in BOOLEAN : Mined(enough)
  \/ \E p \in Prices : PriceMoves(p)
  \/ \E i \in Inheritances : Inherits(i)
  \/ StakersChange \/ Redeemed \/ Liquidated \/ IdTaken

Spec == Init /\ [][Next]_vars

-----------------------------------------------------------------------------
(* Properties. *)

\* "Maximum Borrowable Amount" (borrow/app.json), when what it was computed from
\* is still so: the page rounds in another order than StableBaseCDP.borrow, and
\* still never lets a user pass with more than the contract lends.
MaximumHolds ==
  LET data == page["borrow"] IN
  /\ data.max # None /\ chain.owner = "user"
  /\ data.price = chain.price /\ chain.owedDebt = 0
  /\ IF data.deposit = 0 THEN <<data.collateral, data.debt>> = <<chain.collateral, chain.debt>>
                         ELSE <<data.deposit, 0>> = <<chain.collateral, chain.debt>>
  => data.max + chain.debt <= Limit

\* Who chooses the rate after the amount gets what the page says ("You Get"),
\* whoever stakes by the time it is mined, and however old the page is.
GetsWhatIsShown ==
  outcome # Nothing /\ outcome.tx.of = outcome.tx.amount
    => outcome.got >= outcome.tx.youGet

\* A user who loads the page again while openSafe is in flight and sends it once
\* more pays the deposit once: the ETH paid in is one deposit at most.
RetryDepositsOnce == paidIn \in Deposits \cup {0} /\ (chain.owner # "user" => paidIn = 0)

\* A page that is loaded offers the second step, and not the first one, whenever
\* the first was done, also after the browser was closed between the two.
SecondStepOffered ==
  LET data == page["borrow"] IN
  data.fresh /\ chain.owner = "user" =>
    /\ "openSafe" \notin data.buttons
    /\ data.debt = chain.debt /\ (Room > 0 => "borrow" \in data.buttons)
===============================================================================
