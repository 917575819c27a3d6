------------------------------ MODULE StakeApps ------------------------------
(***************************************************************************)
(* The front ends of the stability pool: the pages stakeDFID, unstakeDFID  *)
(* and the stakes of user-balances under src/frontends, in the browser of  *)
(* one user, with what they see of DFIDToken and StabilityPool.            *)
(*                                                                         *)
(* Staking takes two transactions, an approval and the stake, and each     *)
(* button reads the typed amount for itself.  Pages are loaded again at    *)
(* any moment, buttons pressed twice, and liquidations burn stake between  *)
(* what a page has read and what it sends.                                 *)
(***************************************************************************)
EXTENDS Naturals, Sequences

CONSTANTS
  Amounts,                      \* what is typed
  Balance,                      \* the user's DFID at first
  MaxVisits, MaxEvents, MaxSent \* pages loaded; liquidations; transactions in flight

VARIABLES
  dfid, allowance,   \* the user's balance, and the pool's allowance of it
  recorded, stake,   \* users[user].stake, and what liquidations have left of it
  page,              \* [app -> the data of the page]
  sent,              \* the user's transactions that are not mined, in the order of their nonces
  visits, events,
  burned,            \* what liquidations have taken of the stake (history)
  approved,          \* the amount of the last approval (history)
  stakedSince        \* what was staked since it (history)

chain == <<dfid, allowance, recorded, stake>>
past  == <<approved, stakedSince>>
others == <<events, burned>>
vars  == <<chain, page, sent, visits, others, past>>

Apps == {"stakeDFID", "unstakeDFID", "user-balances"}

Unloaded == [loaded |-> FALSE, staked |-> 0, balance |-> 0, amount |-> 0,
             buttons |-> {}, visit |-> 0, fresh |-> FALSE]

Init ==
  /\ dfid = Balance /\ allowance = 0
  /\ recorded = 0 /\ stake = 0
  /\ page = [app \in Apps |-> Unloaded]
  /\ sent = <<>>
  /\ visits = 0 /\ events = 0 /\ burned = 0 /\ approved = 0 /\ stakedSince = 0

\* load-staked-dfid.js and load-stakes.js: getUser applies what was burned.
Load(app) ==
  /\ visits < MaxVisits
  /\ visits' = visits + 1
  /\ page' = [page EXCEPT ![app] =
                [Unloaded EXCEPT !.loaded = TRUE, !.balance = dfid, !.visit = visits + 1,
                                 !.fresh = TRUE, !.staked = IF recorded # 0 THEN stake ELSE recorded]]
  /\ UNCHANGED <<chain, sent, others, past>>

Shows(app, data) ==
  page' = [page EXCEPT ![app] = data] /\ UNCHANGED <<chain, sent, visits, others, past>>

\* onchange-stakeamount.js offers the approval, and leaves the other button as it is.
TypeStake(a) ==
  LET data == page["stakeDFID"] IN
  /\ data.loaded /\ data.amount # a
  /\ Shows("stakeDFID", [data EXCEPT !.amount = a, !.buttons = @ \cup {"approve"}])

\* onchange-unstakeamount.js.
TypeUnstake(a) ==
  LET data == page["unstakeDFID"] IN
  /\ data.loaded /\ data.amount # a
  /\ Shows("unstakeDFID", [data EXCEPT !.amount = a,
                                       !.buttons = IF data.staked >= a THEN {"unstake"} ELSE {}])

-----------------------------------------------------------------------------
(* Transactions. *)

Accepts(tx) == CASE tx.call = "approve" -> TRUE
                 [] tx.call = "stake"   -> tx.amount <= allowance /\ tx.amount <= dfid
                 [] OTHER               -> tx.amount <= stake

\* (With a mistake, to see that a property notices it: the handlers return at once.)
ClickEagerly(app, call) ==
  LET data == page[app]
      tx   == [call |-> call, app |-> app, amount |-> data.amount, visit |-> data.visit,
               fresh |-> TRUE]
  IN /\ call \in data.buttons
     /\ Len(sent) < MaxSent
     /\ Accepts(tx)
     /\ sent' = Append(sent, tx)
     /\ page' = [page EXCEPT ![app].buttons = {"stake"}]
     /\ UNCHANGED <<chain, visits, others, past>>

\* A button of a page: estimateGas throws if the call would revert now.
Click(app, call) ==
  LET data == page[app]
      tx   == [call |-> call, app |-> app, amount |-> data.amount, visit |-> data.visit,
               fresh |-> TRUE]
  IN /\ call \in data.buttons
     /\ Len(sent) < MaxSent
     /\ Accepts(tx)
     /\ sent' = Append(sent, tx)
     /\ UNCHANGED <<chain, page, visits, others, past>>

ApproveDFID == Click("stakeDFID", "approve")
StakeDFID   == Click("stakeDFID", "stake")
UnstakeDFID == Click("unstakeDFID", "unstake")

\* What the handler returns to the page that has waited for the receipt.
Returned(data, tx) ==
  [data EXCEPT !.buttons = IF data.visit # tx.visit THEN @
                           ELSE IF tx.call = "approve" THEN (@ \ {"approve"}) \cup {"stake"}
                           ELSE @ \ {tx.call}]

Aged(data) == [data EXCEPT !.fresh = FALSE]

Approved(amount) == /\ allowance' = amount /\ approved' = amount /\ stakedSince' = 0
                    /\ UNCHANGED <<dfid, recorded, stake>>

\* (With a mistake, to see that a property notices it: the allowance is not used up.)
StakedFreely(amount) == /\ dfid' = dfid - amount
                        /\ stake' = stake + amount /\ recorded' = stake + amount
                        /\ stakedSince' = stakedSince + amount
                        /\ UNCHANGED <<allowance, approved>>

\* _claim takes what was burned from the recorded stake first.
Staked(amount) == /\ dfid' = dfid - amount /\ allowance' = allowance - amount
                  /\ stake' = stake + amount /\ recorded' = stake + amount
                  /\ stakedSince' = stakedSince + amount
                  /\ UNCHANGED approved

Unstaked(amount) == /\ dfid' = dfid + amount
                    /\ stake' = stake - amount /\ recorded' = stake - amount
                    /\ UNCHANGED <<allowance, past>>

\* The gas is the estimate of an earlier moment: it may not suffice after a change.
Mined(enough) ==
  LET tx == Head(sent)
      ok == Accepts(tx) /\ enough
  IN /\ sent # <<>>
     /\ enough \/ ~tx.fresh
     /\ IF ~ok THEN UNCHANGED <<chain, past>>
        ELSE CASE tx.call = "approve" -> Approved(tx.amount)
               [] tx.call = "stake"   -> Staked(tx.amount)
               [] OTHER               -> Unstaked(tx.amount)
     /\ page' = [app \in Apps |->
                   LET data == IF ok /\ app = tx.app THEN Returned(page[app], tx) ELSE page[app]
                   IN IF ok THEN Aged(data) ELSE data]
     /\ sent' = [i \in 1 .. Len(sent) - 1 |-> IF ok THEN Aged(sent[i + 1]) ELSE sent[i + 1]]
     /\ UNCHANGED <<visits, others>>

\* A liquidation burns stake; the record of the user stays as it is.
Burned ==
  /\ events < MaxEvents /\ stake > 0
  /\ events' = events + 1
  /\ \E left \in {0, stake \div 2} : stake' = left /\ burned' = burned + stake - left
  /\ page' = [app \in Apps |-> Aged(page[app])]
  /\ sent' = [i \in DOMAIN sent |-> Aged(sent[i])]
  /\ UNCHANGED <<dfid, allowance, recorded, visits, past>>

Next ==
  \/ \E app \in Apps : Load(app)
  \/ \E a \in Amounts : TypeStake(a) \/ TypeUnstake(a)
  \/ ApproveDFID \/ StakeDFID \/ UnstakeDFID
  \/ \E enough \in BOOLEAN : Mined(enough)
  \/ Burned

Spec == Init /\ [][Next]_vars

-----------------------------------------------------------------------------
(* Properties. *)

\* A button pressed twice, or again on a page that was loaded while the first
\* transaction was in flight, stakes once: what has gone into the pool since an
\* approval never exceeds what was approved, whatever was typed in between, and nothing is
\* lost but what liquidations burn.
StakedAsApproved == stakedSince <= approved /\ dfid + stake + burned = Balance

\* Once the approval is mined the page offers the stake, and as long as it does
\* the pool may take the approved amount: no older approval or stake of the same
\* user, and none of a page that was loaded before, uses the allowance up.
OfferedStakeIsAllowed ==
  LET data == page["stakeDFID"] IN
  "stake" \in data.buttons /\ data.amount = approved => data.amount <= allowance

\* A page that shows the chain as it is offers to unstake what the pool pays out,
\* although the pool's record is out of date after a liquidation.
OfferedUnstakeIsHeld ==
  LET data == page["unstakeDFID"] IN
  data.fresh /\ "unstake" \in data.buttons => data.amount <= stake
===============================================================================
