# StableBase in TLA+

Specifications, TLC models and TLAPS proofs for StableBase: a protocol that
lends DFID, a stablecoin, against ETH, keeps it stable by liquidations and
redemptions, and orders borrowers by the fee they paid. Modelled are the
contracts (`src/contracts`), the simulation that the team runs against them
(`src/scripts/simulate.js`), the deployment scripts and the front ends.

## 1. The system

| Component | State | Operations | Talks to |
|---|---|---|---|
| `library/OrderedDoublyLinkedList.sol` | head, tail, a mapping of nodes (value, prev, next) | `upsert`, `remove` | owned by the CDP, twice: liquidation queue, by debt per collateral; redemption queue, by weight |
| `StableBaseCDP.sol` with `StableBase.sol` | Safes and their NFTs, snapshots, cumulative redistribution, totals, mode, two flags | `openSafe`, `closeSafe`, `borrow`, `repay`, `addCollateral`, `withdrawCollateral`, `adjustPosition`, `feeTopup`, `liquidate`, `liquidateSafe`, `redeem` | both lists, DFID (mint, burn, transfer), oracle, both staking contracts (fees, rewards, liquidation), and callers (ETH, with a callback) |
| `StabilityPool.sol` | stakes in DFID with the factor they date from, scaling factor and its resets, three cumulative rewards and what each carries over, DFIRE issuance | `stake`, `unstake`, `claim`, `addReward`, `addCollateralReward`, `performLiquidation` | sets a flag of the CDP, pays DFID, ETH (callback), mints DFIRE |
| `DFIREStaking.sol` | stakes in DFIRE, two cumulative rewards | `stake`, `unstake`, `claim`, `addReward`, `addCollateralReward` | sets a flag of the CDP, pays DFID and ETH (callback) |
| `DFIDToken.sol`, `DFIREToken.sol` | balances, owner | `mint`, `burn`, ERC20 | owned by the CDP, by the pool |
| `dependencies/price-oracle` | price | `fetchPrice` | read by the CDP |
| `scripts/simulate.js` | agents (borrowers, holders, bots), a market, and the `OfflineProtocolTracker`, a second set of books | a turn of every agent per round, then a comparison; tear-down at the end | sends transactions to all contracts, awaits each, and computes beside them what everyone should have |
| `scripts/deploy.js`, `deployAlternate.js`, `deployContracts` of the simulation | local variables, the contracts created so far | create the contracts, then connect them by `setAddresses`, one transaction at a time | constructors, `setAddresses` and owners of all contracts |
| `frontends/borrow`, `repay`, `closeSafe`, `user-balances` | the data of a page, in the browser | load, type, slide, send | read a Safe, estimate gas, send transactions that are mined later |
| `frontends/stakeDFID`, `unstakeDFID` | the same | load, type, approve, stake, unstake | DFID and the pool |

`Math`, `Rate`, `Utilities` and `Constants` are used by no deployed contract.

### What is hard in it

* **Callbacks.** ETH goes to callers in the middle of a call: `redeem` before it
  settles the totals, `stake` and `unstake` of both pools before they change the
  stake.
* **Lazy sharing.** A liquidation without the pool adds to two cumulative amounts
  per unit of collateral; the pool shares three currencies and a loss by
  cumulative factors. A Safe or a stake takes its part when next touched, many
  liquidations, and resets of the factor, later.
* **Rounding.** Every share is rounded down; what redistribution and the pool
  round away is carried to the next one.
* **Long sequences.** Queue entries, weights and the fee records of a Safe
  outlive single calls: repay, redistribution, top-up, redemption and closing in
  an order nobody wrote a test for.
* **Stale reads.** The two flags, the hints, the tracker's books, and whatever a
  page has read.
* **Late failure.** A redemption may revert after many steps; a deployment may
  end between any two transactions; a browser is closed between two steps.
* **Two accounts of one thing.** The tracker shares amounts anew with its own
  arithmetic and expects the contract within a tolerance, after any order of turns.

`PROJECT.json` lists the hazards, each at its line, with the properties about it.

### What makes each component correct

* List: the links form one chain, sorted, and any hint gives the same result:
  it implements a sorted queue.
* CDP: totals are sums over the Safes; the ETH held is the collateral; every DFID
  is some Safe's debt; the redemption loop ends and pays no more than the DFID
  are worth; the queues hold the Safes they should, in order.
* Staking contracts: stakes are backed by tokens, pending rewards by balances;
  nothing is paid twice; a liquidation takes from all in proportion; no more DFIRE
  is issued than was to be; the CDP's flag is exact.
* Simulation: the tracker's books stay within the tolerance, calls fail where the
  script says they must, and the run ends.
* Deployment: what is handed out is connected within itself and owned by nobody;
  loans become possible only when all is connected; a team that tries again
  succeeds.
* Front ends: a user gets what was shown, an interrupted operation is taken up
  again, and nothing moves twice.

## 2. The modules

| Module | What it is |
|---|---|
| `OrderedList` | the list as operators on list values (used by the list contract and twice by the CDP) |
| `OrderedListProofs` | lemmas: every operation of the list, with any hint, gives a well-typed list and keeps a linked one linked |
| `OrderedDoublyLinkedList` | the contract: `Upsert`, `Remove`, its invariants, and the refinement |
| `OrderedDoublyLinkedListProofs` | its theorems, among them the refinement |
| `SortedQueue` | the abstract specification: a sequence in ascending order, last in first among equals |
| `DFIREStaking` | the contract; nested calls are a stack `calls` |
| `DFIREStakingH` | `DFIREStaking` with history variables: what everyone has earned, and what interrupted calls misjudge |
| `DFIREStakingProofs` | the theorems about both |
| `Sums`, `SumsProofs` | the sum of a function on 1 .. n, and lemmas on sums and rounding |
| `StableBase` | storage and internal functions of `StableBase.sol` |
| `StableBaseCDP` | one action per operation of `StableBaseCDP.sol`; properties |
| `StableBaseCDPH` | `StableBaseCDP` with a history variable, and what its queues are for until something excuses the code |
| `StableBaseCDPProofs` | the inductive invariants and theorems of both: totals, redemptions, the two queues, and that ETH and DFID are accounted for |
| `StabilityPool` | the contract, per user, with resets, issuance and nested calls |
| `StabilityPoolH` | `StabilityPool` with a history variable, and what holds until a lapse |
| `StabilityPoolProofs` | its theorems: types, the flag, that the pool's debts are covered and that liquidations are shared in proportion |
| `PoolSimulation` | extends `StabilityPool`: the agents, the market and the tracker of `simulate.js` around it |
| `SafeSimulation` | extends `StableBaseCDP`: the borrowers, the bots and the tracker around the Safes |
| `StakingSimulation` | extends `DFIREStakingH`: the DFIRE stakers and the tracker around it |
| `Deployment` | the three deployment scripts, and `setAddresses` and owners of the contracts |
| `DeploymentProofs` | its theorems, for any number of attempts |
| `SafeApps` | the four pages of a Safe, their user, and what they see of the contracts |
| `StakeApps` | the pages of the stability pool and their user |
| `FrontEnds` | both in one browser, and the properties that span them |
| `FrontEndsProofs` | theorems about both, for any number of visits, events and transactions |
| `MC...` | instances for TLC: scenarios and bounds |

A definition keeps the name of the function it stands for; `PROJECT.json` maps
each to its lines. Definitions whose comment begins "With a mistake" are not part
of any specification: they are the plausible bugs that each property has been
seen to detect when they replace the definition after them.

### How the model corresponds to the code

**Contracts.** A call of the EVM is atomic up to its callbacks, and a call that
reverts changes nothing. So an operation is one action, a `require` (or a
division by zero, an underflow, a missing balance) is a guard, and an action that
is not enabled is a call that reverts. Where a contract pays ETH and goes on
afterwards, the call is cut there:

* In `DFIREStaking` and `StabilityPool`, `BeginCall` runs up to the payment and
  pushes the call; other calls may be made, nested to depth `MaxCalls`; then the
  rest runs (`FinishStake`, `FinishUnstake`, `FinishCall`). Rewards may come at any
  time, during a payment too: in `DFIREStaking` anybody may add one, and the
  recipient of either contract may borrow from the CDP, which does.
* In `StableBaseCDP`, `Redeem` takes the DFID, `RedeemNode` is one iteration of
  the loop, `RedeemToUser` pays, `RedeemSettle` is what follows. With
  `ReentrantCalls` every operation except another `redeem` may run in between.
  `RedeemRevert` restores `saved`, the storage before the call, at any point.
  `MaxSpots` is the number of iterations that the gas of a block pays for.

Other operations that pay ETH do so last, so that a call from the payment is
like a call after it.

In `StableBaseCDP` all users are one party, `public`: DFID can be traded, so a
caller may hold all of it, and a Safe is identified by its id. The staking
contracts appear there by the total they stake and the DFID they hold, with
`rewardSenderActive` true, as deployed; what they do inside is in `StabilityPool`
and `DFIREStaking`, whose distributions take any amount the CDP may send. A
liquidation's gas cost is any value of `GasCosts`. Amounts are unbounded naturals:
Solidity 0.8 reverts on overflow, and amounts of ETH and DFID do not reach 2^256.
`roundings` is a history variable: how often an amount was rounded (in the pool:
distributed). `StableBase` has two more: `unclaimed`, the share of redistributions
that was for collateral already redeemed, and `debtAlone`, whether a
redistribution has ever raised the accumulator of debt and not that of collateral;
`StableBaseCDPH` has `excused` (section 3). `DFIREStakingH` keeps, per user and times
`PRECISION`, what it has earned and not been paid (`due`: each reward is earned by
the stakes that there are when it comes), what its interrupted calls `misjudged`
(finding 5), and how often it was paid (`roundings`). No guard reads any of them.

**Simulation.** The script awaits every transaction, so a transaction and the
books that are written after it are one step; a turn of several transactions is
several (`midway`). Random choices are nondeterministic. An `expect` that fails,
a transaction that reverts where the script does not expect it, and a division by
zero end the run, and `phase` says why. `paidUnseen` is a history variable: the
actors that were paid by a stake which the script takes to have failed (finding 6).
The three modules compose the script with
the contract that each part of it runs against; what belongs to the others is any
amount of a set (the fees of a Safe's borrower, for `PoolSimulation`) or the
public's (the DFID of an agent, for `SafeSimulation`).

**Deployment.** A script is a list of steps (`Find`, `Create`, `Wire`) that it
awaits one by one. Its process may end anywhere; a transaction sent before that
is mined later or dropped; the next attempt starts from nothing beside what is
on the chain. Users do not wait for the script.

**Front ends.** A page's handlers run one after another, and what a handler
returns replaces fields of the page's data. A transaction is tried on the chain
of the moment (`estimateGas`), sent, and mined later, in the order of nonces;
pages are loaded again at any time; others move the price, liquidate and redeem.
Hints are left out, since the queues take any (`HintIsOnlyAHint`).
`deposit-onload.js` only displays; `repay.js` checks nothing but the search for
a hint, so the contract decides.

## 3. What TLC checks

An MC module chooses a scenario in its initial state and takes its steps from an
`INSTANCE` of the specification with the constants of that scenario.

| Run | Scenarios and bounds | What it shows |
|---|---|---|
| `list` | 4 nodes, values 1..2, all hints | well linked, hints never matter, implements `SortedQueue` |
| `cdp` | *liquidations*: 3 Safes, 9 calls; *redemptions*: 3 Safes, 9 calls, rates above 0; *callbacks*: 2 Safes, 8 calls, any of them nested in the redeemer's payment; *queues*: 3 Safes of which 2 are set up, 8 calls, good and bad hints; *singles*: 2 Safes, 7 calls, none set up | types, totals, ETH and DFID, flags, mode, the redemption loop, its order and its payment, queues |
| `staking` | *anyone*: 2 users, calls nested to depth 2, rewards at any time; *script*: 2 DFIRE stakers of the simulation, 4 rounds, 6 busy turns | stakes backed, flag exact, claims covered and everyone paid as earned but for what is misjudged, the tracker agrees and rewards reach the stakers |
| `pool` | 2 users, 8 steps; *losses* (7 steps): liquidations that shrink, reset and use up 100 DFID; *callbacks*: calls and distributions nested to depth 2; *pastTheEnd*: a clock to twice the issuance's length | stakes within the total, solvent, liquidations shared in proportion, issuance bounded, flag exact |
| `pool_sim` | 2 borrowers, a bot; 4 rounds, 3 busy turns; without DFIRE stakers and with some | the tracker agrees unless a stake paid unseen, whoever it drops has nothing left, the run ends |
| `safe_sim` | 3 borrowers, a bot; 3 rounds, 3 busy turns, tear-down after at most 2 | the tracker's books follow redistribution, calls fail when it says so, a failed check has the script's own reasons, which debts are left at the end |
| `deployment` | 3 attempts, 2 early ends; `deploy.js` on the main network, or all three scripts on a local chain | connected, owned by nobody, usable only when ready, deploys in the end |
| `apps` | 2 visits; *browsing*: four pages, a transaction in flight, 2 events; *sliding*: the borrow page and a slider that also goes to 0; *retrying*: one page, two in flight; *staking*: the pool's pages, two in flight | shown amounts hold, second step offered, nothing twice, offers are accepted |
| `cdp_sole_borrower` | rate 0, 4 calls | *violated*: repaid, and still queued |
| `cdp_closed_in_queue` | 2 Safes, 6 calls | *violated*: closed, and still queued |
| `cdp_owner_fee` | 2 Safes, 6 calls | *violated*: fee charged again |
| `pool_sim_reverts` | as `pool_sim`, 4 busy turns | *violated*: an unstake reverts |

**Bounds of `cdp`.** The first 2 x `prepared` calls open and borrow on the first
Safes, one after another, with every choice of amounts; then any call, price
change or redemption may follow up to `calls`. Nine calls are six to set up three
Safes and three more: a price change and two liquidations (the second
redistributes what the first one left over), or a liquidation and an operation on
a Safe that has not taken its share, or a redemption after a top-up or a
withdrawal. Numbers are scaled down together: a fixed point of 10, basis points
out of 20, the ratio of 22/20 = 110%, fees of 1/20 and 2/20, so that a price that
halves makes Safes liquidatable, fees round to 0 and to more, and every division
has remainders. The tolerance of `EthAccounted` and `DebtAccounted` is one wei
per rounding, so a share lost or counted twice (8 or more) is seen.

One thing is claimed for a part of the scenarios: rates are above 0, because at
rate 0 the null test of the list interferes (finding 1) and the redemption loop does
not end before the gas does. That each place in the redemption queue has a value above
0 (`PlacesPaid`) is the part of `QueuesServe` on which the theorems about that queue
rest. And one for a part of the histories: `DebtIsQueued`, that every debt is in the
liquidation queue, until `excused` (`StableBaseCDPH`). Three things excuse the code:

* a Safe is alone in that queue with a ratio of 0, as one that has repaid or was
  redeemed can be, and the list takes it for absent (finding 1);
* collateral is so large that the smallest debt is a ratio of 0, which `repay` takes
  for no debt (more ETH than there is);
* somebody tops up the fee of a Safe that had no recorded debt: `feeTopup` records
  what redistribution gave the Safe and does not queue it.

*singles* is there for the first (two Safes that come and go alone), and *queues*
reaches the third (its second Safe is liquidated and the third inherits). TLC refutes
`QueuesServe` when any of the three is left out of `Remember`.

`AmountsAccounted` is claimed in all, with callbacks too: it counts as
nobody's exactly the `unclaimed` share, and its half about debt ends with
`debtAlone`, which these bounds do not reach.

**Bounds of `staking`.** A supply of 3 DFIRE in stakes of 1 and 2, so that a user can be
alone, share evenly and share unevenly; rewards of 0 to 2 that divide by 3 with a
remainder; two nested calls are the least in which a call from a payment is itself
interrupted. The cumulative rewards go up to `PRECISION`, where every stake is owed
something, and the balances up to 3. `ClaimsCovered` and `PaidAsEarned` are claimed of
every history: what they leave out, `misjudged`, changes in one place, the end of a
`stake` or `unstake` whose user a reward has come for since it was paid. Without
that term TLC refutes both (finding 5).

**Bounds of `pool`.** A fixed point of 1000 with a reset below 200. Out of 100
DFID a liquidation of 81 resets the factor, one of 15 resets it again and leaves
4, and one of 2 or 4 follows: stakes from before one, two and three resets are
touched afterwards. What the pool owes is claimed until a lapse, of which there are
two, recorded by the history variable `lapses` of `StabilityPoolH`:

* `overlooked`: a liquidation passes over what is left of a stake that nobody has
  touched for two resets (see below). `StakesFitTotal` needs the absence of this one.
* `interrupted`: a distribution comes while a call pays its user, or an old stake
  is paid by a call that can be interrupted: what the call counted before it paid
  is not what the stake is brought up to. Solvency and issuance need the absence
  of both; TLC finds a violation when either part of `Interrupts` is left out.

`Solvent` and `IssuanceBounded` allow one unit per distribution, as the contract
carries on what it has shared (finding 4). `LiquidationShared` compares what a
liquidation leaves of a stake, and gives to it, with its share, up to one unit and
what the rounding of the factor (two units of it) and of the collateral per token (one)
are worth to the stake.

**Bounds of the simulation.** The first rounds set the stage (a borrower
borrows, then stakes or sells; a Safe is opened; a staker gets DFIRE), in every
way; after that `MaxBusy` turns do something and the others pass, so that every
sequence of that many turns is followed by comparisons. The stake of next to nothing
that `simulate.js:177` tries, 1000 wei, is the least amount, `SmallStake`. Fixed point and
tolerances are scaled together: 10000 with 40 and 25 for the pool, 1000 with 5
and 3 for Safes and for DFIRE stakers. Amounts are many times a tolerance, so that a
forgotten share or fee is seen and rounding is not.

**Bounds of `deployment` and `apps`.** Three attempts with two early ends: one
that ends with a transaction in flight, one beside what it left, one that
succeeds; a transaction of the first may be mined during the third. Pages:
minimum debt 500, prices 19 and 31 for deposits of 1007 and 1300, so that the
page's order of rounding and the contract's differ; two visits are the least for
a page that is out of date, two transactions for a second click.

`CHECK_DEADLOCK FALSE`: calls, rounds, attempts and visits are bounded, so these
instances stop. `list` has no bound but its nodes and is checked for deadlock.

### Fairness and liveness

* `Ends` (`pool_sim`): the script awaits its steps in turn, and a transaction
  sent to a local node is mined at once, so a step that can be taken is (weak
  fairness of the next step). Every turn, fee and liquidation waits for another's
  receipt; that none waits for ever is what is checked.
* `MainDeploys` (`deployment`): a script whose process lives takes its next step; a
  pending transaction is mined or dropped; and the team starts the script again
  as long as nothing is handed out. Nothing is assumed of when a process ends or
  which transactions are dropped, beyond `MaxFailures`.
* Contracts do nothing by themselves, so no fairness is stated for them: that a
  redemption ends is a safety property (`EachSafeOnce`), as its iterations are
  steps of one call.

### Findings

1. `OrderedDoublyLinkedList.remove` takes the only node, if its value is 0, for
   absent; so the only borrower, at rate 0, repays and stays in the redemption
   queue (`cdp_sole_borrower`).
2. `closeSafe` does not take the Safe out of the queues; after a redemption that
   covers the debt but not the collateral it is still in one, and the next
   redemption reverts on it (`cdp_closed_in_queue`).
3. The owner's fee for a part of the collateral is the whole base fee when the
   base fee does not exceed the fee paid (`cdp_owner_fee`).
4. `StabilityPool.addReward` carries over what it has shared already, up to a
   fraction of a unit each time; after a few rewards the last staker's unstake
   reverts (`pool_sim_reverts`).
5. `DFIREStaking` computes a reward for a stake that was not there. `stake` and `unstake`
   take the user's snapshots and send the ETH (`DFIREStaking.sol:133`) before they
   change the stake (`:54`, `:73`), and take no new snapshot there. `addReward` (`:89`)
   and `addCollateralReward` (`:104`) are open to everyone ("Made it in such a way that
   anyone can add rewards", `src/test/SBRStakingTest.js:283`), and a recipient that
   borrows from the CDP causes a reward as well. A reward between the two counts for
   the changed stake: after a `stake` the user can claim more than its share, which is
   missing to the others, or the claim reverts; after an `unstake` a part of the
   reward is nobody's. The tests "Re-entry attack should be harmless claim -> stake"
   and "-> unstake" (`SBRStakingTest.js:197`, `:237`) nest calls in the payment, and
   no rewards. The shortest history: one user stakes 2; an ETH reward of 1 comes; the
   user stakes 1 more; while it is paid that ETH, a DFID reward of 2 comes; its stake
   becomes 3, for which 3 DFID are pending and 2 are held. TLC finds it when
   `ClaimsCovered` is stated without `MisjudgedReward`. What the code does have is
   stated, checked and proved: claims are covered, and everyone is paid as earned,
   but for exactly this (`misjudged`).
6. The simulation takes a stake to fail that succeeds. An actor with too little DFID
   by its books stakes all the same, and the script expects a revert
   (`simulate.js:180-188`). `StabilityPool.stake` pays the pending DFID first
   (`StabilityPool.sol:119`) and takes the stake afterwards (`:121-124`): with enough
   pending it succeeds. The `assert.fail` for that case (`simulate.js:185`) is inside the
   `try` whose `catch` logs "Stake SBD failed as expected". The books then miss what
   was paid and what was staked, and a later comparison fails. `BooksAgree` says that
   none fails without such a stake, and that the books of all other stakers stay
   right; TLC refutes it without `paidUnseen`.

Findings 1 to 4 have a run each that shows the property violated. Of 5 and 6, the
properties of runs `staking` and `pool_sim` say exactly, by a history variable, what
the code does not have.

Seen while modelling, with no run of their own:

* *Contracts.* A liquidation called from a redeemer's callback divides by a total
  that still counts the redeemed collateral; a share of what it redistributes
  goes to nobody (`StableBase.sol:562`). `_updateSafe` looks at the accumulator of
  collateral only (`:595`): when a redistribution raises that of debt alone, as the
  collateral per unit rounds to 0, a Safe keeps its snapshot and its share grows
  with collateral it adds afterwards, so that debt appears which no DFID is for.
  With 18 decimals that takes a redistribution of less than 10^-18 of the total
  collateral. `feeTopup` records a redistributed debt
  and does not queue it for liquidation (`StableBaseCDP.sol:291`). Rates above 0 do not
  keep places of value 0 out of the redemption queue (finding 1): a Safe that has never
  borrowed, inherits a debt, and borrows a little while the queue is empty gets the fee
  spread over its whole debt, and that may round to a weight of 0 (`StableBase.sol:146`).
  A Safe that is closed in the queue (finding 2) and opened again with the same id
  stands there with the old value and no weight until it borrows. `getNodes` of the
  list reads `nodes[i]` where `nodes[beginAt]` seems meant. A Safe without debt
  cannot top up (`addReward` refuses 0). The last Safe cannot be liquidated without
  the pool, as no other is left to share with (`StableBase.sol:706`); the
  simulation's bot does not expect that (`simulate.js:1137`). DFIRE is not issued in
  full (`StabilityPool.sol:209` against `:64` and `simulate.js:2189`): time without
  stakers is dropped. `StabilityPool` looks at the epoch of a stake and at the next
  one (`:502`, `:550`): what is left of an older stake shrinks no further, so that
  the users together may ask for more than `totalStakedRaw`. With the contract's
  constants that is less than 10^-18 of the stake.
* *Simulation.* The tracker divides by a total stake of zero (`simulate.js:1732`);
  it does not credit a redeemer's refund (`:1283`, `StableBase.sol:506`); a bot takes
  a Safe for safe that the contract liquidates (`:1132`, `:1187`); a redemption is
  given up after a part of the books was written (`:1203`, `:1249`); the tear-down
  fails with more than one Safe (`:1040`, `:1048`). `MismatchExplained` names the
  reasons of the script and shows that a comparison fails for no other.
* *Deployment.* On Sepolia `deploy.js:18` asks for an artifact
  `ChainlinkPriceOracle`, which no contract makes; `deployAlternate.js:24` asks for
  `SBDToken`, `DFIRToken` and `DFIRStaking`, which have other names. So only the main
  network's deployment is claimed to succeed; `missing` records the names.
* *Front ends.* "Maximum Borrowable Amount" leaves out what the Safe has inherited
  (`borrow/actions/load-safe.js:28`, `deposit-onchange.js:11`); "You Get" is not
  computed again when the amount is retyped after the rate
  (`onchange-shielding-rate.js:10`); `parseInt(parseFloat(rate) * 100)` truncates
  (`borrow.js:29`). The properties are stated for the cases without these, and say
  so.

## 4. What is proved

`DFIREStakingProofs`, for any number of users, amounts, precision and depth of
nested calls:

* `TypeCorrect`, `StakesAreBacked`, `FlagIsExact` from the inductive invariant
  `TypeInv`: types, plus `StakesBacked` (a stake that is taken out is at most the
  total), plus that snapshots are not above the cumulative rewards (a reward is
  not negative), plus the flag.
* `Solvency` and `EveryonePaidAsEarned`, for the specification with the history
  variables (`DFIREStakingH`, whose steps are steps of the contract:
  `HistoryOnlyWatches`) and with no assumption on when rewards come, from
  `HistoryInv`. With what a user is owed before the division, (cumulative - snapshot)
  x stake, it says that the sum of what is owed is at most PRECISION x balance plus
  what was misjudged (`Solvent`), and that what a user has earned, plus what its calls
  misjudged, exceeds what it is owed by at most one unit per payment (`LittleLost`).
  A reward adds at most PRECISION x amount to the sum, as the division rounds down,
  and to what each user has earned exactly what it adds to what that user is owed; a
  payment takes away at least what is paid, and less than a unit more; a change of
  the stake changes what is owed by what it misjudges, which is nothing if no
  reward has come since the payment. The rounded amounts themselves are not
  inductive: a payment drops a remainder that the balance keeps.

`SumsProofs` has what these use: a sum after one value changes, of a linear
combination, its bounds, and rounding of a quotient.

`StableBaseCDPProofs`, for any number of Safes, any prices, rates, hints, amounts
and gas costs, and with or without `ReentrantCalls`; it uses the named
assumptions on the constants (divisors above 0, a ratio of 100% or more, fees of
at most 100%, positive prices) and no other:

* `TypeCorrect`: no amount, total or balance is negative. `TotalsCorrect`: the
  totals are the sums over the Safes. `FlagsCorrect`, `ModeCorrect`.
* `RedeemerPaidAtMost`: a redeemer gets no more ETH than the DFID are worth, up to the
  rounding of each Safe's value.
* `RedemptionLeavesNothing`: between redemptions the CDP holds no DFID.
* `RedemptionsInOrder`: the redemption queue is sorted by what was paid, and a
  redemption visits a Safe at most once, so that it ends.
* `DebtlessLeaveQueue`: whoever repays the debt, or is liquidated, leaves that queue.

The first five follow from `Inv`, which adds to these properties what makes
them inductive:

* snapshots are not ahead of the accumulators (else a Safe's share, and with it
  its debt, could be negative);
* an id that is not minted has no collateral or debt (else opening its Safe would
  take these out of the sums but not out of the totals);
* the pool holds at least what is staked in it (else a liquidation could burn
  more than there is);
* of a redemption, the refund is at most what was redeemed;
* `SavedSound`: the storage that a revert goes back to has all of this as well.

The totals are not typed in `Inv`: they are natural numbers because they are sums
of natural numbers. The step of a single Safe is one lemma (`SumUpdate` of
`SumsProofs`); each operation then shows only what it writes to that Safe and to
the totals. `RedemptionLeavesNothing` adds `FundsSound`: what the CDP holds of
the request is at most what it still has to burn, to refund and to pay as fees,
and 0 when no redemption runs. Its lemmas show that every other call leaves what
the CDP holds, and that an iteration that keeps the owner's fee out of the
refund is matched by `ownerFee`.

The last two theorems assume `[]PlacesPaid`: while the queue has a place, the value
at its head is above 0. Without that they are false (finding 1; run
`cdp_sole_borrower` shows the second violated), and with it they cover every
behaviour of run `cdp`, which checks `PlacesPaid` in all its states. They add
`QueueInv` to `Inv`:

* `PlacesIn`: the queue is `LinkedAs` some sequence of ids, and a Safe in it that has
  a weight has that value; of the storage that a revert goes back to, too;
* while a redemption still wants DFID, the Safes it has visited and those still
  queued are together at most `MaxId`. An iteration that leaves its Safe in the
  queue has paid the request in full and is the last (`StaysOnlyIfCovered`); every
  other iteration takes the head out.

`Requeues(s, safe)` is what all calls of owners and liquidators come to: the Safe gets
other values and is taken out, is put at its weight, or keeps its place and its
weight; `OwnerRequeues` and `LiquidationRequeues` show it of each call, and one lemma
shows that it keeps the places (`RequeuesKeepsQueue`).

About the liquidation queue, for the specification with `excused` (`StableBaseCDPH`):

* `DebtsAreQueued`: every Safe with a debt is in it, and it is sorted, until something
  excuses the code; no other hypothesis. So the keepers, who take its tail, find
  every debt, also after the calls of a redeemer who is paid and after a redemption
  that fails.
* `QueuesAlwaysServe`: this and the order of redemptions together, which is what run
  `cdp` checks (`[]PlacesPaid` is assumed for the redemption queue's half).

A Safe may have the value 0 in this queue, so `LinkedAs` is too much to ask. `DebtInv`
asks that the list is `Linked` (the same without positive values), that its head is not
taken for absent (`HeadSeen`), and that the sequence has every Safe with a debt; of the
saved storage too. `RequeuesDebt` is what the calls, a liquidation and an iteration of a
redemption come to here: the Safe keeps its place and gets no debt it did not have,
leaves without debt, or takes the place of some ratio. Each of the three excuses is
what one step of the proof needs: the head of the new list (`RequeuedDebts`), `repay`'s
reading of the ratio (`RatioTellsDebt`), and `feeTopup`.

In the same module, under the same assumptions:

* `AmountsCorrect`: the ETH of the CDP is what the Safes have recorded, what
  redistribution still owes them and what it carries over; every DFID in
  circulation is a debt of that kind. Both up to one unit for each amount that was
  rounded (`roundings`) and but for `unclaimed`; the second while `~debtAlone`.

The equation of each currency is a gap of at most PRECISION x `roundings`.
`GapStep` is the arithmetic of one call: an update moves a Safe's pending share into
its record and rounds away less than a unit (`UpdateRounds`), a redistribution adds
to the accumulator what it divides but for less than a unit of the divisor
(`CarriedOver`), and everything else moves what is held as it moves what is owed.
`AccountedWritten` says this of the variables, and each operation shows that it has
that form. The sum of what is pending changes for every Safe at once
when an accumulator grows: by the growth times all recorded collateral
(`SumShifted`, `PendingWritten`). That is less than growth x `totalCollateral` exactly
by what a redemption has in flight: `unclaimed`. The invariant adds `UpToDate` (a
Safe that has its share of the collateral has that of the debt, else the update
that a call starts with would leave debt pending while the collateral it is for
changes), and that the storage a failing redemption goes back to is accounted for.

`StabilityPoolProofs`, for any number of users, any fixed point and threshold,
any amounts, resets and depth of nested calls: `TypeCorrect` (no stake, share,
cumulative amount or balance is negative, and the factor stays between the
threshold and 1) and `FlagIsExact`. The inductive invariant `Inv` adds that no
stake dates from an epoch still to come (else its factor would not be defined),
that the calls on the stack ask for a positive amount (else an unstake of 0 could
lower the flag), and that DFIRE was last issued in the past and, while the
issuance runs, before its end (else a negative amount could be issued). Two
lemmas on rounding carry the rest: what a distribution hands out is at most what
there was (`RestType`), and a liquidation scales the factor down (`ScaledDownType`).

Under the same assumptions, for the specification with `lapses` (`StabilityPoolH`):

* `WithdrawalsFit`: the users can withdraw no more than `totalStakedRaw`.
* `PoolSolvent`: the pool holds the DFID and the ETH that it owes.
* `IssuanceKept`: no more DFIRE is minted and promised than was issued.
* `LiquidationsAreShared`: a liquidation takes from each stake, and gives it of the
  collateral, in proportion, whether or not it resets the factor. This one holds after
  lapses as well.

Every quotient is rounded down, each in another place, so the amounts themselves
do not add up to anything. The invariant `InvH` therefore says that there are a
denominator `d` and numerators `q[u]`, such that `q[u] / d` bounds the stake of
user `u` *before* rounding and the sum of all `q[u]` is at most `d` times the total;
and the same for what is pending in each of the three currencies. The witnesses
move with the steps: a distribution multiplies `d` by the scaling factor, a
liquidation by the total stake, and the numerators so that they are integers
again. A user whose stake is from before the last two resets (not `Live`) is
bounded by its rounded stake, which no longer moves; that is why a liquidation
that passes over it ends the claim. Bounding the rounded amounts from the start,
without a common denominator, is not inductive: a loss shared by the rounded
stakes leaves up to a unit per user that no variable accounts for.

`LiquidationsAreShared` needs only the types and that a user who never staked has
nothing (`NewUsersEmpty`). A step that lowers the total and leaves all users alone is
a liquidation (`LiquidatedBy`). The stake and the pending collateral are written as an
amount times a factor over a base (`Base`), in this epoch or across one reset; the
factor is rounded down twice, so the share is missed by less than two units of it, and
the collateral per token once.

`DeploymentProofs`, for every network and set of scripts and any number of attempts
and early ends: `AlwaysWiredTogether`, `NobodyEverControls`, `UsableMeansReady`. The
lists of steps are known to the proof by `Sound` only: everything is created or found
once, then everything is connected, StableBaseCDP last (`DeployIsSound`,
`SimulateIsSound`; a script that is not `Sound` fails at its first step). The
invariant `Inv` names the contracts after the attempt and the variable of the script:

* `ContractsKnown`: each is as its constructor made it, or as `setAddresses` with
  those names left it, for good since it has no owner any more who could call it again;
* `PendingKnown`: at most one transaction per attempt is pending, and what it needs
  is on the chain already, so that it does not matter when it is mined or whether
  its script still lives; the one of StableBaseCDP is pending only when all others
  are connected;
* `ScriptKnown`: the steps before the next one are on the chain and in the local
  variables, nothing after it is, and the transaction that is awaited is pending or
  mined.

`FrontEndsProofs`, for any prices, deposits, rates and gas costs, and any number of
page visits, events and transactions in flight:

* `YouGetIsReceived`: whoever borrows at the rate and price that the page shows gets at
  least what it says. `MaximumIsAvailable`: the contract lends the maximum that the
  page shows, as long as what it was computed from holds. `SecondStepIsOffered`: an
  operation that was interrupted is taken up again at its second step.
* `NothingMovesTwice`: no ETH and no DFID moves twice. `PoolAcceptsOffers`: what the
  pool's pages offer is what the pool accepts. These are about `FrontEnds`, with the
  pages of both in one browser.

`SafeAppsInv` says of each page what the amounts it shows were computed from (`Agrees`,
`Bounded`), that a borrow page which is fresh has read the Safe as it is and offers what
comes next (`UpToDate`), and of each transaction in flight that it carries what its page
said (`Carries`).
The page divides in another order than the contract; `PageRoundsLower` shows that its
maximum is never above the contract's. `StakeAppsInv` balances the books of the pool's
user (the allowance and what was staked since are what was approved; DFID is in the
wallet, staked or burned), orders the transactions in flight by the visit of the page
they come from (`NonceOrder`), and says what a page has to be like while it offers a
stake (`Offered`: nothing of the approval is used, and no stake of an earlier visit is
in flight) or an unstake.

`OrderedListProofs`: `ForwardWalkType` and `BackwardWalkType` (a walk yields a
slot, from any start), `UpsertedType` and `RemovedType`. That the walk is well
defined is shown by induction over the number of steps. Then what an operation
does to a linked list: `Linked(l, n, q)` says that the nodes of `l` are the ids
`q[1] .. q[n]`, each once, in ascending order, and linked so; `LinkedAs`, that the values
are above 0 too. A value has one place
in it (`PlaceExists`); both walks end at that place, from any hint, after at most as
many steps as there are nodes, since a sequence of distinct ids is no longer than
the ids (`WalksEndAtPlace`); inserting there and unlinking a node give lists that
are linked as the sequence with the id put in or taken out (`SplicedIsLinked`,
`TakenOutIsLinked`). `UpsertedRelinks` and `RemovedRelinks` say the same of the whole
operations, for a list whose head is not taken for absent: the ids afterwards, and
that all others keep their values. `StableBaseCDPProofs` uses these for both queues.

`OrderedDoublyLinkedListProofs`, for any number of nodes, with `LinkedInv` (the list
is `LinkedAs` some sequence) as the inductive invariant:

* `AlwaysWellLinked`: the chain is complete, sorted, and linked alike both ways.
* `HintsNeverMatter`: every upsert ends, and the hint does not change its result.
* `ListImplementsQueue`: each step is one of `SortedQueue`, or leaves it as it is.

They assume `0 \notin Values`: with a value of 0 they are false, as the code takes
the only node, if its value is 0, for absent (finding 1). The CDP does pass 0: as a
weight, for a fee of 0 or one that rounds to 0, and as a ratio, for a Safe without
debt or with a debt that is small beside its collateral. What its two queues do then
is the subject of `StableBaseCDPProofs`.

Only model-checked, and why:

* `PlacesPaid` (the hypothesis above): rates above 0 do not imply it, as a weight may
  round to 0 (see *Seen while modelling*).
* The tracker's agreement with the contracts: `ScriptRewardsAgree`, `BooksAgree`,
  `UnlistedHaveNothing`, `MismatchExplained`, `PendingFollows` and, as an expected failure
  is predicted from the same estimates, `OwnersFailAsExpected`. The script compares
  amounts up to constants of its own, and whether these cover the roundings of two
  different computations depends on how many rounds there are and on the amounts: it
  holds of the instances, not of every value of the constants.
* `DebtLeftForWantOfDFID`, about the end of the tear-down, which is a loop over the
  script's own lists.
* Beyond these tools: liveness (`Ends`, `MainDeploys`), and what recursive definitions
  compute for every input.

## 5. Not modelled

* `Math`, `Rate`, `Utilities`, `Constants`: no deployed contract uses them.
* `contracts/test` and `src/test`: fixtures and tests, read for what they claim.
* In the contracts: the transfer of a Safe's NFT and its URI; a redemption nested
  in another one's callback; the round data of the oracle; a front end's share of a
  claim; transfers between DFID holders outside the pool's simulation.
* In `simulate.js`: the `Hacker` agent (lines 420-787), random calls that are
  expected to fail and that the contracts' guards refuse; the random walk of the
  market's price, which is any price here; printing. `scripts/test.js`, four calls
  after a deployment.
* Page layouts and ABIs, which are data.

## 6. What is left

* A condition on rates and amounts that implies `PlacesPaid`.
* The CDP with the pool's own state instead of its total, so that one module has
  both sides of a liquidation.
* The fee function of redemptions against a reference written from the comment.
