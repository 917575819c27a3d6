------------------------------ MODULE Deployment ------------------------------
(***************************************************************************)
(* The scripts that deploy and connect the contracts: scripts/deploy.js,   *)
(* the deployContracts of scripts/simulate.js and                          *)
(* scripts/deployAlternate.js, with the constructors and setAddresses of   *)
(* the contracts.                                                          *)
(*                                                                         *)
(* A script is a list of steps that it awaits one after the other: it      *)
(* attaches to a contract that exists, creates one, or calls setAddresses  *)
(* on one.  Its process may end between any two of them, also after a      *)
(* transaction has been sent; the transaction is then mined later or never *)
(* and the next attempt starts with contracts of its own.                  *)
(***************************************************************************)
EXTENDS Naturals, Sequences

CONSTANTS
  Network,       \* hardhatArguments.network
  Scripts,       \* the scripts that are run on it: "deploy", "simulate", "alternate"
  MaxAttempts,   \* how often a script is started
  MaxFailures    \* how often its process ends early, or the oracle does not answer

ASSUME DeploymentAssumption ==
  /\ Network \in {"eth_mainnet", "sepolia_network", "citreatestnet", "localhost"}
  /\ Scripts \subseteq {"deploy", "simulate", "alternate"}
  /\ MaxAttempts \in Nat /\ MaxFailures \in Nat

VARIABLES
  contracts,   \* [address -> what it is, its owner, its references]
  pending,     \* transactions sent and not mined
  script,      \* the running script: its steps, the next one, its local variables, what it awaits
  attempt,     \* number of attempts started
  failures,    \* number of early ends
  handedOut,   \* what the attempts that came to their end returned
  missing      \* names of artifacts that an attempt has asked for in vain

vars == <<contracts, pending, script, attempt, failures, handedOut, missing>>

Nobody   == [var |-> "nobody", attempt |-> 0]
Deployer == [var |-> "deployer", attempt |-> 0]

\* The contract that a fixed address of a script stands for.
Fixed(v) == [var |-> v, attempt |-> 0]

-----------------------------------------------------------------------------
(* The steps. *)

\* The contracts in the source, that is, what the compiler makes artifacts of.
Artifacts == {"DFIDToken", "DFIREToken", "StabilityPool", "StableBaseCDP", "DFIREStaking",
              "OrderedDoublyLinkedList", "MockPriceOracle", "ChainlinkPriceFeed", "IPriceOracle"}

Find(v, a)   == [do |-> "find", var |-> v, artifact |-> a, args |-> <<>>]
Create(v, a) == [do |-> "create", var |-> v, artifact |-> a, args |-> <<>>]
Wire(v, as)  == [do |-> "wire", var |-> v, artifact |-> "", args |-> as]

\* deploy.js, by network.
OracleStep == CASE Network = "eth_mainnet"     -> Find("priceOracle", "IPriceOracle")
                [] Network = "sepolia_network" -> Create("priceOracle", "ChainlinkPriceOracle")
                [] OTHER                       -> Create("priceOracle", "MockPriceOracle")

Tokens == <<Create("sbdToken", "DFIDToken"), Create("dfireToken", "DFIREToken"),
            Create("stabilityPool", "StabilityPool")>>
Core   == <<Create("stableBaseCDP", "StableBaseCDP"), Create("dfireStaking", "DFIREStaking"),
            Create("redemptionQueue", "OrderedDoublyLinkedList"),
            Create("liquidationQueue", "OrderedDoublyLinkedList")>>

\* (With a mistake, to see that a property notices it: the DFID token is connected twice.)
TokenWiringTwice == <<Wire("sbdToken", <<"stableBaseCDP">>), Wire("sbdToken", <<"stabilityPool">>)>>

TokenWiring == <<Wire("sbdToken", <<"stableBaseCDP">>), Wire("dfireToken", <<"stabilityPool">>)>>

\* (With a mistake, to see that a property notices it: the two queues in the wrong order.)
WiringSwapped == <<Wire("stabilityPool", <<"sbdToken", "stableBaseCDP", "dfireToken">>),
                   Wire("dfireStaking", <<"dfireToken", "sbdToken", "stableBaseCDP">>),
                   Wire("redemptionQueue", <<"stableBaseCDP">>),
                   Wire("liquidationQueue", <<"stableBaseCDP">>),
                   Wire("stableBaseCDP", <<"sbdToken", "priceOracle", "stabilityPool",
                                           "dfireStaking", "redemptionQueue", "liquidationQueue">>)>>

Wiring == <<Wire("stabilityPool", <<"sbdToken", "stableBaseCDP", "dfireToken">>),
            Wire("dfireStaking", <<"dfireToken", "sbdToken", "stableBaseCDP">>),
            Wire("redemptionQueue", <<"stableBaseCDP">>),
            Wire("liquidationQueue", <<"stableBaseCDP">>),
            Wire("stableBaseCDP", <<"sbdToken", "priceOracle", "stabilityPool", "dfireStaking",
                                    "liquidationQueue", "redemptionQueue">>)>>

\* (With a mistake, to see that a property notices it: the tokens are connected last.)
DeployStepsTokensLast == <<OracleStep>> \o Tokens \o Core \o Wiring \o TokenWiring

DeploySteps   == <<OracleStep>> \o Tokens \o Core \o TokenWiring \o Wiring
SimulateSteps == Tokens \o <<Create("priceOracle", "MockPriceOracle")>> \o Core
                   \o TokenWiring \o Wiring

\* deployAlternate.js continues at fixed addresses, after the two tokens.
AlternateSteps ==
  <<Find("sbdToken", "SBDToken"), Find("dfireToken", "DFIRToken"),
    Find("stabilityPool", "StabilityPool"), Find("priceOracle", "IPriceOracle"),
    Find("stableBaseCDP", "StableBaseCDP"), Find("dfireStaking", "DFIRStaking"),
    Find("redemptionQueue", "OrderedDoublyLinkedList"),
    Find("liquidationQueue", "OrderedDoublyLinkedList")>> \o Wiring

StepsOf(s) == CASE s = "deploy"   -> DeploySteps
                [] s = "simulate" -> SimulateSteps
                [] OTHER          -> AlternateSteps

-----------------------------------------------------------------------------
(* The contracts. *)

\* The references that setAddresses keeps, in the order of its parameters.
Slots(kind) ==
  CASE kind = "StabilityPool" -> <<"stakingToken", "stableBaseCDP", "sbrToken">>
    [] kind = "DFIREStaking"  -> <<"stakingToken", "rewardToken", "stableBaseContract">>
    [] kind = "StableBaseCDP" -> <<"sbdToken", "priceOracle", "stabilityPool", "dfireTokenStaking",
                                   "safesOrderedForLiquidation", "safesOrderedForRedemption">>
    [] OTHER                  -> <<>>

SlotNames == {"stakingToken", "stableBaseCDP", "sbrToken", "rewardToken", "stableBaseContract",
              "sbdToken", "priceOracle", "stabilityPool", "dfireTokenStaking",
              "safesOrderedForLiquidation", "safesOrderedForRedemption"}

Unset == [s \in SlotNames |-> Nobody]

\* The constructor: its sender is the owner.
New(kind) == [kind |-> kind, owner |-> Deployer, refs |-> Unset]

\* (With a mistake, to see that a property notices it: nobody gives up the ownership.)
ConnectedByOwner(c, args) ==
  [c EXCEPT !.refs = [s \in SlotNames |-> IF \E i \in DOMAIN Slots(c.kind) : Slots(c.kind)[i] = s
                                          THEN args[CHOOSE i \in DOMAIN Slots(c.kind) :
                                                      Slots(c.kind)[i] = s]
                                          ELSE Nobody]]

\* setAddresses: the tokens and the queues pass their ownership to their only
\* argument, the others keep their arguments and have no owner from then on.
Connected(c, args) ==
  LET slots == Slots(c.kind) IN
  IF slots = <<>>
  THEN [c EXCEPT !.owner = args[1]]
  ELSE [c EXCEPT !.owner = Nobody,
                 !.refs = [s \in SlotNames |-> IF \E i \in DOMAIN slots : slots[i] = s
                                               THEN args[CHOOSE i \in DOMAIN slots : slots[i] = s]
                                               ELSE Nobody]]

\* onlyOwner.
MayConnect(a) == a \in DOMAIN contracts /\ contracts[a].owner = Deployer

-----------------------------------------------------------------------------
(* The scripts. *)

Vars == {"sbdToken", "dfireToken", "stabilityPool", "priceOracle", "stableBaseCDP",
         "dfireStaking", "redemptionQueue", "liquidationQueue"}

Idle == [steps |-> <<>>, next |-> 1, local |-> [v \in Vars |-> Nobody], awaits |-> FALSE]

Running    == script.steps # <<>>
AtEnd      == Running /\ script.next > Len(script.steps)
Step       == script.steps[script.next]
About(do)  == Running /\ ~AtEnd /\ ~script.awaits /\ Step.do = do
Transaction == [to   |-> IF Step.do = "create" THEN [var |-> Step.var, attempt |-> attempt]
                                               ELSE script.local[Step.var],
                kind |-> IF Step.do = "create" THEN Step.artifact ELSE "setAddresses",
                args |-> [i \in DOMAIN Step.args |-> script.local[Step.args[i]]],
                by   |-> attempt]

Init ==
  /\ contracts = [a \in {} |-> New("")]
  /\ pending = {}
  /\ script = Idle
  /\ attempt = 0 /\ failures = 0
  /\ handedOut = {} /\ missing = {}

\* Somebody runs a script.
Begin(s) ==
  /\ ~Running /\ attempt < MaxAttempts
  /\ script' = [Idle EXCEPT !.steps = StepsOf(s)]
  /\ attempt' = attempt + 1
  /\ UNCHANGED <<contracts, pending, failures, handedOut, missing>>

\* main().catch: the process exits.
GiveUp == script' = Idle

\* getContractAt attaches without asking the chain.
Attach ==
  /\ About("find") /\ Step.artifact \in Artifacts
  /\ script' = [script EXCEPT !.next = @ + 1, !.local[Step.var] = Fixed(Step.var)]
  /\ UNCHANGED <<contracts, pending, attempt, failures, handedOut, missing>>

\* getContractAt and getContractFactory throw when there is no such artifact.
NoArtifact ==
  /\ About("find") \/ About("create")
  /\ Step.artifact \notin Artifacts
  /\ GiveUp
  /\ missing' = missing \cup {Step.artifact}
  /\ UNCHANGED <<contracts, pending, attempt, failures, handedOut>>

Submit ==
  /\ pending' = pending \cup {Transaction}
  /\ script' = [script EXCEPT !.awaits = TRUE]
  /\ UNCHANGED <<contracts, attempt, failures, handedOut, missing>>

SendCreation == About("create") /\ Step.artifact \in Artifacts /\ Submit

\* The gas of the call is estimated first, which throws if it would revert.
SendWiring ==
  /\ About("wire")
  /\ IF MayConnect(script.local[Step.var])
     THEN Submit
     ELSE GiveUp /\ UNCHANGED <<contracts, pending, attempt, failures, handedOut, missing>>

\* setAddresses of StableBase asks the oracle; the one of the main network may revert.
OracleSilent ==
  /\ Network = "eth_mainnet" /\ failures < MaxFailures
  /\ About("wire") /\ Step.var = "stableBaseCDP"
  /\ GiveUp
  /\ failures' = failures + 1
  /\ UNCHANGED <<contracts, pending, attempt, handedOut, missing>>

Mined(tx) ==
  /\ tx \in pending
  /\ pending' = pending \ {tx}
  /\ contracts' = IF tx.kind = "setAddresses"
                  THEN IF MayConnect(tx.to)
                       THEN [contracts EXCEPT ![tx.to] = Connected(@, tx.args)]
                       ELSE contracts
                  ELSE [a \in DOMAIN contracts \cup {tx.to} |->
                          IF a = tx.to THEN New(tx.kind) ELSE contracts[a]]
  /\ UNCHANGED <<script, attempt, failures, handedOut, missing>>

\* waitForDeployment or tx.wait().
Await ==
  /\ Running /\ script.awaits
  /\ \A tx \in pending : tx.by # attempt
  /\ script' = [script EXCEPT !.awaits = FALSE, !.next = @ + 1,
                              !.local[Step.var] = IF Step.do = "create"
                                                  THEN [var |-> Step.var, attempt |-> attempt]
                                                  ELSE @]
  /\ UNCHANGED <<contracts, pending, attempt, failures, handedOut, missing>>

Finish ==
  /\ AtEnd
  /\ handedOut' = handedOut \cup {script.local}
  /\ script' = Idle
  /\ UNCHANGED <<contracts, pending, attempt, failures, missing>>

\* The process ends, or loses its connection.
Interrupted ==
  /\ Running /\ failures < MaxFailures
  /\ script' = Idle
  /\ failures' = failures + 1
  /\ UNCHANGED <<contracts, pending, attempt, handedOut, missing>>

\* The network forgets a transaction that nobody awaits.
Dropped(tx) ==
  /\ tx \in pending /\ ~(Running /\ tx.by = attempt)
  /\ pending' = pending \ {tx}
  /\ UNCHANGED <<contracts, script, attempt, failures, handedOut, missing>>

ScriptStep ==
  \/ Attach \/ NoArtifact \/ SendCreation \/ SendWiring \/ Await \/ Finish

Next ==
  \/ \E s \in Scripts : Begin(s)
  \/ ScriptStep \/ OracleSilent \/ Interrupted
  \/ \E tx \in pending : Mined(tx) \/ Dropped(tx)

Spec == Init /\ [][Next]_vars

\* A process that is not interrupted goes on, a node mines what it was sent, and
\* a team whose script did not come to its end starts it again.
FairSpec ==
  /\ Spec
  /\ WF_vars(ScriptStep)
  /\ WF_vars(\E tx \in pending : Mined(tx))
  /\ WF_vars(handedOut = {} /\ \E s \in Scripts : Begin(s))

-----------------------------------------------------------------------------
(* Properties. *)

Owner(a) == contracts[a].owner
Refs(a)  == contracts[a].refs

\* What an attempt hands out (return of deployContracts and of main in deploy.js)
\* are contracts of that attempt alone, and each reference inside a contract is
\* to the contract that is handed out under that name, whatever earlier attempts
\* have left on the chain.
WiredTogether ==
  \A d \in handedOut :
    /\ \A v \in Vars \ {"priceOracle"} : d[v] \in DOMAIN contracts
                                         /\ d[v].attempt = d.stableBaseCDP.attempt
    /\ \A v, w \in Vars : v # w => d[v] # d[w]
    /\ LET pool    == Refs(d.stabilityPool)
           staking == Refs(d.dfireStaking)
           cdp     == Refs(d.stableBaseCDP)
       IN /\ <<pool.stakingToken, pool.sbrToken, pool.stableBaseCDP>>
               = <<d.sbdToken, d.dfireToken, d.stableBaseCDP>>
          /\ <<staking.stakingToken, staking.rewardToken, staking.stableBaseContract>>
               = <<d.dfireToken, d.sbdToken, d.stableBaseCDP>>
          /\ <<cdp.sbdToken, cdp.priceOracle, cdp.stabilityPool, cdp.dfireTokenStaking>>
               = <<d.sbdToken, d.priceOracle, d.stabilityPool, d.dfireStaking>>
          /\ <<cdp.safesOrderedForLiquidation, cdp.safesOrderedForRedemption>>
               = <<d.liquidationQueue, d.redemptionQueue>>

\* "No individual or entity controlling the contracts once deployed" (README.md):
\* once they are handed out, the deployer owns none of them but a mock oracle, and
\* only StableBaseCDP can mint DFID, only the pool DFIRE.
NobodyControls ==
  \A d \in handedOut :
    /\ \A v \in Vars \ {"priceOracle"} : Owner(d[v]) # Deployer
    /\ Owner(d.sbdToken) = d.stableBaseCDP
    /\ Owner(d.dfireToken) = d.stabilityPool

\* Loans are possible from the moment StableBaseCDP has its references.  In that
\* very state everything it refers to refers back to it, although the contracts
\* are connected one transaction at a time and users do not wait for the script.
ReadyWhenUsable ==
  \A a \in DOMAIN contracts :
    contracts[a].kind = "StableBaseCDP" /\ Refs(a) # Unset =>
      LET refs == Refs(a) IN
      /\ {refs.sbdToken, refs.stabilityPool, refs.dfireTokenStaking,
          refs.safesOrderedForLiquidation, refs.safesOrderedForRedemption} \subseteq DOMAIN contracts
      /\ Owner(refs.sbdToken) = a
      /\ Owner(refs.safesOrderedForLiquidation) = a /\ Owner(refs.safesOrderedForRedemption) = a
      /\ Refs(refs.stabilityPool).stableBaseCDP = a
      /\ Owner(Refs(refs.stabilityPool).sbrToken) = refs.stabilityPool
      /\ Refs(refs.dfireTokenStaking).stableBaseContract = a
      /\ Owner(refs.stabilityPool) = Nobody /\ Owner(refs.dfireTokenStaking) = Nobody

\* A team that starts the script again after each early end has a deployment in
\* the end, whatever the ended attempts have left on the chain and in flight.
Deploys == <>(handedOut # {})
===============================================================================
