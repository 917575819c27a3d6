--------------------------- MODULE DeploymentProofs ---------------------------
(***************************************************************************)
(* What the deployment scripts leave on the chain, for every network, set  *)
(* of scripts, number of attempts and number of early ends.                *)
(*                                                                         *)
(* The contracts of an attempt are named after the variables of the script *)
(* and touched by the transactions of that attempt alone, of which at most *)
(* one is pending.  So a transaction that is mined after its script has    *)
(* ended finds its attempt as the script left it.                          *)
(***************************************************************************)
EXTENDS Deployment, TLAPS

At(v, i) == [var |-> v, attempt |-> i]

\* What a script creates and connects; the oracle is only created, or found.
Named == Vars \ {"priceOracle"}

KindOf(v) ==
  CASE v = "sbdToken"         -> "DFIDToken"
    [] v = "dfireToken"       -> "DFIREToken"
    [] v = "stabilityPool"    -> "StabilityPool"
    [] v = "priceOracle"      -> "MockPriceOracle"
    [] v = "stableBaseCDP"    -> "StableBaseCDP"
    [] v = "dfireStaking"     -> "DFIREStaking"
    [] OTHER                  -> "OrderedDoublyLinkedList"

\* The variables that setAddresses of a contract gets.
ArgNames(v) ==
  CASE v = "sbdToken"      -> <<"stableBaseCDP">>
    [] v = "dfireToken"    -> <<"stabilityPool">>
    [] v = "stabilityPool" -> <<"sbdToken", "stableBaseCDP", "dfireToken">>
    [] v = "dfireStaking"  -> <<"dfireToken", "sbdToken", "stableBaseCDP">>
    [] v = "stableBaseCDP" -> <<"sbdToken", "priceOracle", "stabilityPool", "dfireStaking",
                                "liquidationQueue", "redemptionQueue">>
    [] OTHER               -> <<"stableBaseCDP">>

\* The local variables of an attempt that has created everything.
Oracles(i)  == {At("priceOracle", i), Fixed("priceOracle")}
Names(i, o) == [v \in Vars |-> IF v = "priceOracle" THEN o ELSE At(v, i)]

Given(d, v) == [j \in DOMAIN ArgNames(v) |-> d[ArgNames(v)[j]]]
Final(d, v) == Connected(New(KindOf(v)), Given(d, v))

IsFinal(d, v, i) == At(v, i) \in DOMAIN contracts /\ contracts[At(v, i)] = Final(d, v)

\* Before StableBaseCDP is connected, all the others are.
OthersFinal(d, v, i) ==
  v = "stableBaseCDP" => \A w \in Named \ {"stableBaseCDP"} : IsFinal(d, w, i)

\* A contract is as its constructor made it, or as setAddresses left it.
ContractsKnown ==
  \A a \in DOMAIN contracts : \E v \in Vars, i \in 1 .. attempt :
    /\ a = At(v, i)
    /\ \/ contracts[a] = New(KindOf(v))
       \/ /\ v \in Named
          /\ \E o \in Oracles(i) : /\ contracts[a] = Final(Names(i, o), v)
                                   /\ OthersFinal(Names(i, o), v, i)

Creation(tx, v)   == tx.kind = KindOf(v) /\ tx.to \notin DOMAIN contracts
Connection(tx, v) ==
  /\ v \in Named
  /\ tx.kind = "setAddresses" /\ tx.to \in DOMAIN contracts
  /\ \E o \in Oracles(tx.by) : /\ tx.args = Given(Names(tx.by, o), v)
                               /\ OthersFinal(Names(tx.by, o), v, tx.by)

\* A pending transaction is one of a script, and the only one of its attempt.
Known(tx) ==
  /\ tx.by \in 1 .. attempt
  /\ \E v \in Vars : tx.to = At(v, tx.by) /\ (Creation(tx, v) \/ Connection(tx, v))

PendingKnown ==
  /\ \A tx \in pending : Known(tx)
  /\ \A tx, ty \in pending : tx.by = ty.by => tx = ty

-----------------------------------------------------------------------------
(* The scripts: what there is to know of a list of steps. *)

\* A script that cannot take its first step.
FailsAtOnce(steps) ==
  Len(steps) > 0 /\ steps[1].do # "wire" /\ steps[1].artifact \notin Artifacts

\* A script that can come to its end: everything is created, or found, once, then
\* everything is connected, StableBaseCDP last.
Sound(steps) ==
  /\ Len(steps) \in Nat
  /\ \A j \in 1 .. Len(steps) :
       \/ steps[j].do = "find" /\ steps[j].var = "priceOracle"
       \/ /\ steps[j].do = "create" /\ steps[j].var \in Vars
          /\ steps[j].artifact = KindOf(steps[j].var)
       \/ /\ steps[j].do = "wire" /\ steps[j].var \in Named
          /\ steps[j].args = ArgNames(steps[j].var)
          /\ steps[j].var = "stableBaseCDP" => j = Len(steps)
  /\ \A j, k \in 1 .. Len(steps) :
       steps[j].do # "wire" =>
         /\ steps[k].do = "wire" => j < k
         /\ steps[k].do # "wire" /\ steps[k].var = steps[j].var => j = k
  /\ \A v \in Vars : \E j \in 1 .. Len(steps) : steps[j].do # "wire" /\ steps[j].var = v
  /\ \A v \in Named : \E j \in 1 .. Len(steps) : steps[j].do = "wire" /\ steps[j].var = v

\* What a step leaves behind on the chain, and in the script.
OnChain(step) ==
  /\ step.do = "create" => At(step.var, attempt) \in DOMAIN contracts
  /\ step.do = "wire" => IsFinal(script.local, step.var, attempt)
Done(step) ==
  /\ OnChain(step)
  /\ step.do = "create" => script.local[step.var] = At(step.var, attempt)
  /\ step.do = "find" => script.local[step.var] = Fixed(step.var)

\* The transaction that is awaited is pending, or has been mined.
Awaiting ==
  /\ script.next <= Len(script.steps) /\ Step.do # "find"
  /\ \/ Transaction \in pending /\ (Step.do = "wire" => MayConnect(Transaction.to))
     \/ (\A tx \in pending : tx.by # attempt) /\ OnChain(Step)

Underway ==
  /\ attempt > 0
  /\ script.next \in 1 .. Len(script.steps) + 1
  /\ \A j \in 1 .. Len(script.steps) :
       /\ j < script.next => Done(script.steps[j])
       /\ /\ j >= script.next /\ (j > script.next \/ ~script.awaits)
          /\ script.steps[j].do = "create"
          => At(script.steps[j].var, attempt) \notin DOMAIN contracts
  /\ IF script.awaits THEN Awaiting ELSE \A tx \in pending : tx.by # attempt

Addresses == [var : Vars \cup {"nobody", "deployer"}, attempt : Nat]

ScriptType == [steps  : {<<>>} \cup {StepsOf(s) : s \in Scripts},
               next   : Nat,
               local  : [Vars -> Addresses],
               awaits : BOOLEAN]

ScriptKnown ==
  Running => IF FailsAtOnce(script.steps) THEN script.next = 1 /\ ~script.awaits
                                          ELSE Sound(script.steps) /\ Underway

\* What was handed out is connected for good.
AllFinal(d) ==
  \E i \in 1 .. attempt : \E o \in Oracles(i) :
    d = Names(i, o) /\ \A v \in Named : IsFinal(d, v, i)

HandedOutFinal == \A d \in handedOut : AllFinal(d)

Inv ==
  /\ attempt \in Nat
  /\ script \in ScriptType
  /\ ContractsKnown /\ PendingKnown /\ ScriptKnown /\ HandedOutFinal

-----------------------------------------------------------------------------
(* What a contract is once it is connected. *)

\* The names of the slots, one by one.
LEMMA SlotOf ==
  ASSUME NEW kind, NEW args, Slots(kind) # <<>>,
         \A i, j \in DOMAIN Slots(kind) : Slots(kind)[i] = Slots(kind)[j] => i = j,
         NEW k \in DOMAIN Slots(kind), Slots(kind)[k] \in SlotNames
  PROVE  Connected(New(kind), args).refs[Slots(kind)[k]] = args[k]
<1> DEFINE slots == Slots(kind)
           s     == slots[k]
<1>1. (CHOOSE i \in DOMAIN slots : slots[i] = s) = k
  OBVIOUS
<1>2. New(kind).kind = kind
  BY DEF New
<1>3. Connected(New(kind), args).refs =
        [n \in SlotNames |-> IF \E i \in DOMAIN slots : slots[i] = n
                             THEN args[CHOOSE i \in DOMAIN slots : slots[i] = n]
                             ELSE Nobody]
  BY <1>2 DEF Connected, New
<1>4. QED
  BY <1>1, <1>3

\* The references of the three contracts that keep some.
LEMMA RefsOfPool ==
  ASSUME NEW d
  PROVE  LET refs == Final(d, "stabilityPool").refs
         IN  /\ refs.stakingToken = d.sbdToken /\ refs.stableBaseCDP = d.stableBaseCDP
             /\ refs.sbrToken = d.dfireToken
<1>1. KindOf("stabilityPool") = "StabilityPool"
  BY DEF KindOf
<1>2. Slots("StabilityPool") = <<"stakingToken", "stableBaseCDP", "sbrToken">>
  BY DEF Slots
<1>3. ArgNames("stabilityPool") = <<"sbdToken", "stableBaseCDP", "dfireToken">>
  BY DEF ArgNames
<1>4. /\ Given(d, "stabilityPool")[1] = d.sbdToken
      /\ Given(d, "stabilityPool")[2] = d.stableBaseCDP
      /\ Given(d, "stabilityPool")[3] = d.dfireToken
  BY <1>3 DEF Given
<1>5. /\ DOMAIN Slots("StabilityPool") = 1 .. 3 /\ Slots("StabilityPool") # <<>>
      /\ \A i, j \in 1 .. 3 : Slots("StabilityPool")[i] = Slots("StabilityPool")[j] => i = j
      /\ \A i \in 1 .. 3 : Slots("StabilityPool")[i] \in SlotNames
  BY <1>2 DEF SlotNames
<1>6. \A i \in 1 .. 3 :
        Final(d, "stabilityPool").refs[Slots("StabilityPool")[i]] = Given(d, "stabilityPool")[i]
  BY <1>1, <1>5, SlotOf DEF Final
<1>7. QED
  BY <1>2, <1>4, <1>6

\* DFIREStaking.
LEMMA RefsOfStaking ==
  ASSUME NEW d
  PROVE  LET refs == Final(d, "dfireStaking").refs
         IN  /\ refs.stakingToken = d.dfireToken /\ refs.rewardToken = d.sbdToken
             /\ refs.stableBaseContract = d.stableBaseCDP
<1>1. KindOf("dfireStaking") = "DFIREStaking"
  BY DEF KindOf
<1>2. Slots("DFIREStaking") = <<"stakingToken", "rewardToken", "stableBaseContract">>
  BY DEF Slots
<1>3. ArgNames("dfireStaking") = <<"dfireToken", "sbdToken", "stableBaseCDP">>
  BY DEF ArgNames
<1>4. /\ Given(d, "dfireStaking")[1] = d.dfireToken
      /\ Given(d, "dfireStaking")[2] = d.sbdToken
      /\ Given(d, "dfireStaking")[3] = d.stableBaseCDP
  BY <1>3 DEF Given
<1>5. /\ DOMAIN Slots("DFIREStaking") = 1 .. 3 /\ Slots("DFIREStaking") # <<>>
      /\ \A i, j \in 1 .. 3 : Slots("DFIREStaking")[i] = Slots("DFIREStaking")[j] => i = j
      /\ \A i \in 1 .. 3 : Slots("DFIREStaking")[i] \in SlotNames
  BY <1>2 DEF SlotNames
<1>6. \A i \in 1 .. 3 :
        Final(d, "dfireStaking").refs[Slots("DFIREStaking")[i]] = Given(d, "dfireStaking")[i]
  BY <1>1, <1>5, SlotOf DEF Final
<1>7. QED
  BY <1>2, <1>4, <1>6

\* StableBaseCDP, whose queues come last.
LEMMA RefsOfCDP ==
  ASSUME NEW d
  PROVE  LET refs == Final(d, "stableBaseCDP").refs
         IN  /\ refs.sbdToken = d.sbdToken /\ refs.priceOracle = d.priceOracle
             /\ refs.stabilityPool = d.stabilityPool
             /\ refs.dfireTokenStaking = d.dfireStaking
             /\ refs.safesOrderedForLiquidation = d.liquidationQueue
             /\ refs.safesOrderedForRedemption = d.redemptionQueue
<1>1. KindOf("stableBaseCDP") = "StableBaseCDP"
  BY DEF KindOf
<1>2. Slots("StableBaseCDP") =
        <<"sbdToken", "priceOracle", "stabilityPool", "dfireTokenStaking",
          "safesOrderedForLiquidation", "safesOrderedForRedemption">>
  BY DEF Slots
<1>3. ArgNames("stableBaseCDP") =
        <<"sbdToken", "priceOracle", "stabilityPool", "dfireStaking",
          "liquidationQueue", "redemptionQueue">>
  BY DEF ArgNames
<1>4. /\ Given(d, "stableBaseCDP")[1] = d.sbdToken
      /\ Given(d, "stableBaseCDP")[2] = d.priceOracle
      /\ Given(d, "stableBaseCDP")[3] = d.stabilityPool
      /\ Given(d, "stableBaseCDP")[4] = d.dfireStaking
      /\ Given(d, "stableBaseCDP")[5] = d.liquidationQueue
      /\ Given(d, "stableBaseCDP")[6] = d.redemptionQueue
  BY <1>3 DEF Given
<1>5. /\ DOMAIN Slots("StableBaseCDP") = 1 .. 6 /\ Slots("StableBaseCDP") # <<>>
      /\ \A i, j \in 1 .. 6 : Slots("StableBaseCDP")[i] = Slots("StableBaseCDP")[j] => i = j
      /\ \A i \in 1 .. 6 : Slots("StableBaseCDP")[i] \in SlotNames
  BY <1>2 DEF SlotNames
<1>6. \A i \in 1 .. 6 :
        Final(d, "stableBaseCDP").refs[Slots("StableBaseCDP")[i]] = Given(d, "stableBaseCDP")[i]
  BY <1>1, <1>5, SlotOf DEF Final
<1>7. QED
  BY <1>2, <1>4, <1>6

\* setAddresses passes the ownership on, or gives it up.
LEMMA OwnerOfFinal ==
  ASSUME NEW d, NEW v \in Named
  PROVE  /\ Final(d, v).kind = KindOf(v)
         /\ Final(d, v).owner =
              CASE v \in {"stabilityPool", "dfireStaking", "stableBaseCDP"} -> Nobody
                [] v = "dfireToken" -> d.stabilityPool
                [] OTHER            -> d.stableBaseCDP
<1>1. CASE v \in {"stabilityPool", "dfireStaking", "stableBaseCDP"}
  <2>1. Slots(KindOf(v)) # <<>>
    BY <1>1 DEF KindOf, Slots
  <2>2. QED
    BY <1>1, <2>1 DEF Final, Connected, New
<1>2. CASE v \notin {"stabilityPool", "dfireStaking", "stableBaseCDP"}
  <2>1. Slots(KindOf(v)) = <<>>
    BY <1>2 DEF KindOf, Slots, Named, Vars
  <2>2. ArgNames(v) = IF v = "dfireToken" THEN <<"stabilityPool">> ELSE <<"stableBaseCDP">>
    BY <1>2 DEF ArgNames, Named, Vars
  <2>3. Given(d, v)[1] = IF v = "dfireToken" THEN d.stabilityPool ELSE d.stableBaseCDP
    BY <2>2 DEF Given
  <2>4. QED
    BY <1>2, <2>1, <2>3 DEF Final, Connected, New
<1>3. QED
  BY <1>1, <1>2

-----------------------------------------------------------------------------
(* The lists of steps. *)

\* The script of the fixed addresses asks for an artifact that there is not.
LEMMA AlternateFails == FailsAtOnce(AlternateSteps)
BY DEF AlternateSteps, FailsAtOnce, Find, Wiring, Artifacts

\* Every variable has its place among the first eight steps.
Creates(S, place) ==
  /\ \A v \in Vars : place[v] \in 1 .. 8 /\ S[place[v]].var = v
  /\ \A j \in 1 .. 8 :
       /\ S[j].var \in Vars /\ place[S[j].var] = j
       /\ \/ S[j].do = "find" /\ S[j].var = "priceOracle"
          \/ S[j].do = "create" /\ S[j].artifact = KindOf(S[j].var)

\* The other seven connect everything.
Connects(S) ==
  /\ S[9]  = Wire("sbdToken", ArgNames("sbdToken"))
  /\ S[10] = Wire("dfireToken", ArgNames("dfireToken"))
  /\ S[11] = Wire("stabilityPool", ArgNames("stabilityPool"))
  /\ S[12] = Wire("dfireStaking", ArgNames("dfireStaking"))
  /\ S[13] = Wire("redemptionQueue", ArgNames("redemptionQueue"))
  /\ S[14] = Wire("liquidationQueue", ArgNames("liquidationQueue"))
  /\ S[15] = Wire("stableBaseCDP", ArgNames("stableBaseCDP"))

\* A script that does both, in this order, is sound.
LEMMA TwoPartsAreSound ==
  ASSUME NEW S, NEW place, Len(S) = 15, Creates(S, place), Connects(S)
  PROVE  Sound(S)
<1>1. \A j \in 1 .. 8 : /\ S[j].do # "wire" /\ S[j].var \in Vars
                        /\ \/ S[j].do = "find" /\ S[j].var = "priceOracle"
                           \/ S[j].do = "create" /\ S[j].artifact = KindOf(S[j].var)
  BY DEF Creates
<1>2. \A j \in 9 .. 15 :
        /\ S[j].do = "wire" /\ S[j].var \in Named /\ S[j].args = ArgNames(S[j].var)
        /\ S[j].var = "stableBaseCDP" => j = 15
  <2>1. \A j \in {9, 10, 11, 12, 13, 14, 15} :
          \E v \in Named : S[j] = Wire(v, ArgNames(v)) /\ (v = "stableBaseCDP" => j = 15)
    <3>1. {"sbdToken", "dfireToken", "stabilityPool", "dfireStaking", "redemptionQueue",
           "liquidationQueue", "stableBaseCDP"} \subseteq Named
      BY DEF Named, Vars
    <3>2. QED
      BY <3>1 DEF Connects
  <2>2. \A v \in Named : LET step == Wire(v, ArgNames(v))
                         IN  step.do = "wire" /\ step.var = v /\ step.args = ArgNames(v)
    BY DEF Wire
  <2>3. \A j \in 9 .. 15 : j \in {9, 10, 11, 12, 13, 14, 15}
    OBVIOUS
  <2>4. QED
    BY <2>1, <2>2, <2>3
<1>3. \A v \in Named : \E j \in 9 .. 15 : S[j].var = v
  <2>1. \A v \in Named : \E j \in 9 .. 15 : S[j] = Wire(v, ArgNames(v))
    BY DEF Connects, Named, Vars
  <2>2. \A v : Wire(v, ArgNames(v)).var = v
    BY DEF Wire
  <2>3. QED
    BY <2>1, <2>2
<1>4. \A j \in 1 .. 15 : /\ S[j].do # "wire" => j \in 1 .. 8
                         /\ S[j].do = "wire" => j \in 9 .. 15
  BY <1>1, <1>2
<1>5. \A j, k \in 1 .. Len(S) :
        S[j].do # "wire" =>
          /\ S[k].do = "wire" => j < k
          /\ S[k].do # "wire" /\ S[k].var = S[j].var => j = k
  <2>1. \A j \in 1 .. 8 : place[S[j].var] = j
    BY DEF Creates
  <2>2. QED
    BY <1>4, <2>1
<1>6. \A v \in Vars : \E j \in 1 .. Len(S) : S[j].do # "wire" /\ S[j].var = v
  <2>1. \A v \in Vars : place[v] \in 1 .. 8 /\ S[place[v]].var = v
    BY DEF Creates
  <2>2. QED
    BY <1>1, <2>1
<1>7. \A v \in Named : \E j \in 1 .. Len(S) : S[j].do = "wire" /\ S[j].var = v
  <2>1. \A j \in 9 .. 15 : j \in 1 .. Len(S)
    OBVIOUS
  <2>2. QED
    BY <1>2, <1>3, <2>1
<1>8. \A j \in 1 .. Len(S) :
        \/ S[j].do = "find" /\ S[j].var = "priceOracle"
        \/ S[j].do = "create" /\ S[j].var \in Vars /\ S[j].artifact = KindOf(S[j].var)
        \/ /\ S[j].do = "wire" /\ S[j].var \in Named
           /\ S[j].args = ArgNames(S[j].var) /\ (S[j].var = "stableBaseCDP" => j = Len(S))
  <2>1. \A j \in 1 .. Len(S) : j \in 1 .. 8 \/ j \in 9 .. 15
    OBVIOUS
  <2>2. QED
    BY <1>1, <1>2, <2>1
<1>9. Len(S) \in Nat
  OBVIOUS
<1>10. QED
  BY <1>5, <1>6, <1>7, <1>8, <1>9, Zenon DEF Sound

\* The oracle and the three contracts created first come in some order.
LEMMA CreatesAll ==
  ASSUME NEW S, NEW o \in 1 .. 4, NEW t \in 1 .. 4, NEW d \in 1 .. 4, NEW p \in 1 .. 4,
         o # t, o # d, o # p, t # d, t # p, d # p,
         \/ S[o] = Create("priceOracle", "MockPriceOracle")
         \/ S[o] = Find("priceOracle", "IPriceOracle"),
         S[t] = Create("sbdToken", "DFIDToken"), S[d] = Create("dfireToken", "DFIREToken"),
         S[p] = Create("stabilityPool", "StabilityPool"),
         S[5] = Create("stableBaseCDP", "StableBaseCDP"),
         S[6] = Create("dfireStaking", "DFIREStaking"),
         S[7] = Create("redemptionQueue", "OrderedDoublyLinkedList"),
         S[8] = Create("liquidationQueue", "OrderedDoublyLinkedList")
  PROVE  \E place : Creates(S, place)
<1> DEFINE place == [v \in Vars |->
              CASE v = "priceOracle" -> o [] v = "sbdToken" -> t [] v = "dfireToken" -> d
                [] v = "stabilityPool" -> p [] v = "stableBaseCDP" -> 5
                [] v = "dfireStaking" -> 6 [] v = "redemptionQueue" -> 7
                [] OTHER -> 8]
<1>1. /\ place["priceOracle"] = o /\ place["sbdToken"] = t /\ place["dfireToken"] = d
      /\ place["stabilityPool"] = p
  BY DEF Vars
<1>2. /\ place["stableBaseCDP"] = 5 /\ place["dfireStaking"] = 6
      /\ place["redemptionQueue"] = 7 /\ place["liquidationQueue"] = 8
  BY DEF Vars
<1> HIDE DEF place
<1>3. /\ S[o].var = "priceOracle" /\ S[t].var = "sbdToken" /\ S[d].var = "dfireToken"
      /\ S[p].var = "stabilityPool"
  BY DEF Create, Find
<1>4. /\ S[5].var = "stableBaseCDP" /\ S[6].var = "dfireStaking"
      /\ S[7].var = "redemptionQueue" /\ S[8].var = "liquidationQueue"
  BY DEF Create
<1>5. \A v \in Vars : place[v] \in 1 .. 8 /\ S[place[v]].var = v
  <2>1. \A v \in {"priceOracle", "sbdToken", "dfireToken", "stabilityPool"} :
          place[v] \in 1 .. 8 /\ S[place[v]].var = v
    BY <1>1, <1>3
  <2>2. \A v \in {"stableBaseCDP", "dfireStaking", "redemptionQueue", "liquidationQueue"} :
          place[v] \in 1 .. 8 /\ S[place[v]].var = v
    BY <1>2, <1>4
  <2>3. QED
    BY <2>1, <2>2 DEF Vars
<1>6. \A j \in 1 .. 8 : j \in {o, t, d, p, 5, 6, 7, 8}
  OBVIOUS
<1>7. \A j \in 1 .. 8 : S[j].var \in Vars /\ place[S[j].var] = j
  BY <1>1, <1>2, <1>3, <1>4, <1>6 DEF Vars
<1>8. \A j \in 1 .. 8 : \/ S[j].do = "find" /\ S[j].var = "priceOracle"
                        \/ S[j].do = "create" /\ S[j].artifact = KindOf(S[j].var)
  <2>1. \A j \in {o, t, d, p} : \/ S[j].do = "find" /\ S[j].var = "priceOracle"
                                \/ S[j].do = "create" /\ S[j].artifact = KindOf(S[j].var)
    BY DEF Create, Find, KindOf
  <2>2. \A j \in {5, 6, 7, 8} : S[j].do = "create" /\ S[j].artifact = KindOf(S[j].var)
    BY DEF Create, KindOf
  <2>3. QED
    BY <1>6, <2>1, <2>2
<1>9. QED
  BY <1>5, <1>7, <1>8 DEF Creates

\* deploy.js, by network.
LEMMA DeployIsSound ==
  FailsAtOnce(DeploySteps) \/ Sound(DeploySteps)
<1> DEFINE S == DeploySteps
<1>1. /\ Len(S) = 15
      /\ S[1] = OracleStep /\ S[2] = Create("sbdToken", "DFIDToken")
      /\ S[3] = Create("dfireToken", "DFIREToken")
      /\ S[4] = Create("stabilityPool", "StabilityPool")
      /\ S[5] = Create("stableBaseCDP", "StableBaseCDP")
      /\ S[6] = Create("dfireStaking", "DFIREStaking")
      /\ S[7] = Create("redemptionQueue", "OrderedDoublyLinkedList")
      /\ S[8] = Create("liquidationQueue", "OrderedDoublyLinkedList")
  BY DEF DeploySteps, Tokens, Core, TokenWiring, Wiring
<1>2. Connects(S)
  BY DEF Connects, ArgNames, DeploySteps, Tokens, Core, TokenWiring, Wiring
<1> HIDE DEF S
<1>3. CASE Network = "sepolia_network"
  <2>1. S[1] = Create("priceOracle", "ChainlinkPriceOracle")
    BY <1>1, <1>3 DEF OracleStep
  <2>2. QED
    BY <1>1, <2>1 DEF S, FailsAtOnce, Create, Artifacts
<1>4. CASE Network # "sepolia_network"
  <2>1. \/ S[1] = Create("priceOracle", "MockPriceOracle")
        \/ S[1] = Find("priceOracle", "IPriceOracle")
    BY <1>1, <1>4 DEF OracleStep
  <2>2. \E place : Creates(S, place)
    BY <1>1, <2>1, CreatesAll
  <2>3. QED
    BY <1>1, <1>2, <2>2, TwoPartsAreSound DEF S
<1>5. QED
  BY <1>3, <1>4

\* deployContracts of the simulation.
LEMMA SimulateIsSound == Sound(SimulateSteps)
<1> DEFINE S == SimulateSteps
<1>1. /\ Len(S) = 15
      /\ S[1] = Create("sbdToken", "DFIDToken") /\ S[2] = Create("dfireToken", "DFIREToken")
      /\ S[3] = Create("stabilityPool", "StabilityPool")
      /\ S[4] = Create("priceOracle", "MockPriceOracle")
      /\ S[5] = Create("stableBaseCDP", "StableBaseCDP")
      /\ S[6] = Create("dfireStaking", "DFIREStaking")
      /\ S[7] = Create("redemptionQueue", "OrderedDoublyLinkedList")
      /\ S[8] = Create("liquidationQueue", "OrderedDoublyLinkedList")
  BY DEF SimulateSteps, Tokens, Core, TokenWiring, Wiring
<1>2. Connects(S)
  BY DEF Connects, ArgNames, SimulateSteps, Tokens, Core, TokenWiring, Wiring
<1> HIDE DEF S
<1>3. \E place : Creates(S, place)
  BY <1>1, CreatesAll
<1>4. QED
  BY <1>1, <1>2, <1>3, TwoPartsAreSound DEF S

\* So a script fails at once or can come to its end.
LEMMA ScriptsAre ==
  ASSUME NEW s
  PROVE  /\ FailsAtOnce(StepsOf(s)) \/ Sound(StepsOf(s))
         /\ StepsOf(s) # <<>> /\ Len(StepsOf(s)) \in Nat \ {0}
<1>1. FailsAtOnce(StepsOf(s)) \/ Sound(StepsOf(s))
  BY AlternateFails, DeployIsSound, SimulateIsSound DEF StepsOf
<1>2. StepsOf(s) # <<>> /\ Len(StepsOf(s)) \in Nat \ {0}
  BY DEF StepsOf, DeploySteps, SimulateSteps, AlternateSteps, Tokens, Core, TokenWiring, Wiring
<1>3. QED
  BY <1>1, <1>2

-----------------------------------------------------------------------------
(* What the invariant says of a script under way. *)

\* The names of an attempt, but for the oracle, say who they are.
LEMMA NamesAre ==
  ASSUME NEW i, NEW o
  PROVE  /\ \A v \in Named : Names(i, o)[v] = At(v, i)
         /\ Names(i, o)["priceOracle"] = o
BY DEF Names, Named, Vars

\* Whoever is connected is not the deployer's any more.
LEMMA FinalIsNotOwned ==
  ASSUME NEW i, NEW o, NEW v \in Named
  PROVE  Final(Names(i, o), v).owner # Deployer
<1>1. /\ Names(i, o).stabilityPool = At("stabilityPool", i)
      /\ Names(i, o).stableBaseCDP = At("stableBaseCDP", i)
  BY NamesAre DEF Named, Vars
<1>2. /\ Deployer.var = "deployer" /\ Nobody.var = "nobody"
      /\ At("stabilityPool", i).var = "stabilityPool"
      /\ At("stableBaseCDP", i).var = "stableBaseCDP"
  BY DEF Deployer, Nobody, At
<1>3. /\ Nobody # Deployer /\ At("stabilityPool", i) # Deployer
      /\ At("stableBaseCDP", i) # Deployer
  BY <1>2
<1>4. QED
  BY <1>1, <1>3, OwnerOfFinal

\* A script that gets beyond its first step can come to its end.
LEMMA Proceeds ==
  ASSUME Inv, Running,
         script.awaits \/ AtEnd \/ About("wire") \/ (~AtEnd /\ Step.artifact \in Artifacts)
  PROVE  ~FailsAtOnce(script.steps) /\ Sound(script.steps) /\ Underway
<1>1. ~FailsAtOnce(script.steps)
  <2>1. SUFFICES ASSUME FailsAtOnce(script.steps)
                 PROVE  FALSE
    OBVIOUS
  <2>2. script.next = 1 /\ ~script.awaits
    BY <2>1 DEF Inv, ScriptKnown
  <2>3. /\ 1 <= Len(script.steps)
        /\ script.steps[1].do # "wire" /\ script.steps[1].artifact \notin Artifacts
    <3>1. Len(script.steps) \in Nat
      BY ScriptsAre DEF Inv, ScriptType, Running
    <3>2. QED
      BY <2>1, <3>1 DEF FailsAtOnce
  <2>4. QED
    BY <2>2, <2>3 DEF AtEnd, About, Step, ScriptKnown
<1>2. QED
  BY <1>1 DEF Inv, ScriptKnown

\* Once everything is created, the local variables are the names of the attempt.
LEMMA LocalNames ==
  ASSUME Inv, Sound(script.steps), Underway,
         \A j \in 1 .. Len(script.steps) : script.steps[j].do # "wire" => j < script.next
  PROVE  \E o \in Oracles(attempt) :
           /\ script.local = Names(attempt, o)
           /\ \A v \in Named : At(v, attempt) \in DOMAIN contracts
<1> DEFINE steps == script.steps
           o     == script.local["priceOracle"]
<1>1. \A v \in Vars : \E j \in 1 .. Len(steps) :
        /\ steps[j].do # "wire" /\ steps[j].var = v
        /\ Done(steps[j])
        /\ steps[j].do = "create" \/ (steps[j].do = "find" /\ v = "priceOracle")
  <2> SUFFICES ASSUME NEW v \in Vars
               PROVE  \E j \in 1 .. Len(steps) :
                        /\ steps[j].do # "wire" /\ steps[j].var = v
                        /\ Done(steps[j])
                        /\ steps[j].do = "create" \/ (steps[j].do = "find" /\ v = "priceOracle")
    OBVIOUS
  <2>1. PICK j \in 1 .. Len(steps) : steps[j].do # "wire" /\ steps[j].var = v
    BY DEF Sound
  <2>2. Done(steps[j])
    BY <2>1 DEF Underway
  <2>3. steps[j].do = "create" \/ (steps[j].do = "find" /\ v = "priceOracle")
    BY <2>1 DEF Sound
  <2>4. QED
    BY <2>1, <2>2, <2>3
<1>2. \A v \in Named : script.local[v] = At(v, attempt) /\ At(v, attempt) \in DOMAIN contracts
  <2> SUFFICES ASSUME NEW v \in Named
               PROVE  script.local[v] = At(v, attempt) /\ At(v, attempt) \in DOMAIN contracts
    OBVIOUS
  <2>1. v \in Vars /\ v # "priceOracle"
    BY DEF Named
  <2>2. PICK j \in 1 .. Len(steps) :
          steps[j].var = v /\ Done(steps[j]) /\ steps[j].do = "create"
    BY <1>1, <2>1
  <2>3. QED
    BY <2>2 DEF Done, OnChain
<1>3. o \in Oracles(attempt)
  <2>1. PICK j \in 1 .. Len(steps) :
          /\ steps[j].var = "priceOracle" /\ Done(steps[j])
          /\ steps[j].do = "create" \/ steps[j].do = "find"
    BY <1>1 DEF Vars
  <2>2. QED
    BY <2>1 DEF Done, Oracles
<1>4. script.local = Names(attempt, o)
  <2>1. script.local = [v \in Vars |-> script.local[v]]
    BY DEF Inv, ScriptType
  <2>2. QED
    BY <1>2, <2>1 DEF Names, Named
<1>5. QED
  BY <1>2, <1>3, <1>4

\* What the chain keeps, and what was handed out, as long as no transaction is mined.
LEMMA ChainKept ==
  ASSUME Inv, contracts' = contracts, attempt' \in Nat, attempt' >= attempt
  PROVE  /\ ContractsKnown'
         /\ \A d : AllFinal(d) => AllFinal(d)'
         /\ \A tx : Known(tx) => Known(tx)'
<1>1. attempt \in Nat /\ \A i \in 1 .. attempt : i \in 1 .. attempt'
  BY DEF Inv
<1>2. ContractsKnown'
  <2> SUFFICES ASSUME NEW a \in DOMAIN contracts
               PROVE  \E v \in Vars, i \in 1 .. attempt' :
                        /\ a = At(v, i)
                        /\ \/ contracts[a] = New(KindOf(v))
                           \/ /\ v \in Named
                              /\ \E o \in Oracles(i) : /\ contracts[a] = Final(Names(i, o), v)
                                                       /\ OthersFinal(Names(i, o), v, i)'
    BY Zenon DEF ContractsKnown
  <2>1. \A d, v, i : OthersFinal(d, v, i)' <=> OthersFinal(d, v, i)
    BY DEF OthersFinal, IsFinal
  <2>2. PICK v \in Vars, i \in 1 .. attempt :
          /\ a = At(v, i)
          /\ \/ contracts[a] = New(KindOf(v))
             \/ /\ v \in Named
                /\ \E o \in Oracles(i) : /\ contracts[a] = Final(Names(i, o), v)
                                         /\ OthersFinal(Names(i, o), v, i)
    BY Zenon DEF Inv, ContractsKnown
  <2>3. QED
    BY <1>1, <2>1, <2>2, Zenon
<1>3. \A d : AllFinal(d) => AllFinal(d)'
  BY <1>1, Zenon DEF AllFinal, IsFinal
<1>4. \A tx : Known(tx) => Known(tx)'
  BY <1>1, Zenon DEF Known, Creation, Connection, OthersFinal, IsFinal
<1>5. QED
  BY <1>2, <1>3, <1>4

\* As when a step leaves all of it alone.
LEMMA RestKept ==
  ASSUME Inv, contracts' = contracts, attempt' \in Nat, attempt' >= attempt,
         handedOut' = handedOut, pending' \subseteq pending
  PROVE  ContractsKnown' /\ HandedOutFinal' /\ PendingKnown'
<1>1. /\ ContractsKnown'
      /\ \A d \in handedOut : AllFinal(d)'
      /\ \A tx \in pending : Known(tx)'
  BY ChainKept DEF Inv, HandedOutFinal, PendingKnown
<1>2. HandedOutFinal'
  BY <1>1 DEF HandedOutFinal
<1>3. \A tx \in pending' : tx \in pending
  OBVIOUS
<1>4. \A tx, ty \in pending' : tx.by = ty.by => tx = ty
  BY <1>3 DEF Inv, PendingKnown
<1>5. PendingKnown'
  BY <1>1, <1>3, <1>4 DEF PendingKnown
<1>6. QED
  BY <1>1, <1>2, <1>5

-----------------------------------------------------------------------------
(* Every step keeps the invariant. *)

\* Nothing has happened.
LEMMA DeploymentInit == Init => Inv
<1> SUFFICES ASSUME Init PROVE Inv
  OBVIOUS
<1>1. DOMAIN contracts = {} /\ pending = {} /\ handedOut = {} /\ attempt = 0 /\ script = Idle
  BY DEF Init
<1>2. Idle \in ScriptType
  BY DEF Idle, ScriptType, Addresses, Nobody
<1>3. ~Running
  BY <1>1 DEF Running, Idle
<1>4. ContractsKnown /\ PendingKnown /\ ScriptKnown /\ HandedOutFinal
  BY <1>1, <1>3 DEF ContractsKnown, PendingKnown, ScriptKnown, HandedOutFinal
<1>5. QED
  BY <1>1, <1>2, <1>4 DEF Inv

\* A contract of an attempt that has not begun does not exist.
LEMMA NothingAhead ==
  ASSUME Inv, NEW i \in Nat, i > attempt
  PROVE  /\ \A v : At(v, i) \notin DOMAIN contracts
         /\ \A tx \in pending : tx.by # i
<1>1. \A a \in DOMAIN contracts : a.attempt \in 1 .. attempt
  BY DEF Inv, ContractsKnown, At
<1>2. \A v : At(v, i).attempt = i
  BY DEF At
<1>3. \A tx \in pending : tx.by \in 1 .. attempt
  BY DEF Inv, PendingKnown, Known
<1>4. attempt \in Nat
  BY DEF Inv
<1>5. QED
  BY <1>1, <1>2, <1>3, <1>4

\* A new attempt finds none of its names on the chain.
LEMMA BeginKeeps ==
  ASSUME Inv, NEW s \in Scripts, Begin(s)
  PROVE  Inv'
<1>1. /\ script' = [Idle EXCEPT !.steps = StepsOf(s)] /\ attempt' = attempt + 1
      /\ contracts' = contracts /\ pending' = pending /\ handedOut' = handedOut
      /\ attempt \in Nat
  BY DEF Begin, Inv
<1>2. /\ script'.steps = StepsOf(s) /\ script'.next = 1 /\ script'.awaits = FALSE
      /\ script' \in ScriptType
  BY <1>1 DEF Idle, ScriptType, Addresses, Nobody
<1>3. ContractsKnown' /\ HandedOutFinal' /\ PendingKnown'
  BY <1>1, RestKept
<1>4. ScriptKnown'
  <2>1. CASE FailsAtOnce(StepsOf(s))
    BY <1>2, <2>1 DEF ScriptKnown
  <2>2. CASE ~FailsAtOnce(StepsOf(s))
    <3>1. Sound(StepsOf(s)) /\ Len(StepsOf(s)) \in Nat
      BY <2>2, ScriptsAre
    <3>2. /\ \A v : At(v, attempt') \notin DOMAIN contracts'
          /\ \A tx \in pending' : tx.by # attempt'
      <4>1. attempt + 1 \in Nat /\ attempt + 1 > attempt
        BY <1>1
      <4>2. /\ \A v : At(v, attempt + 1) \notin DOMAIN contracts
            /\ \A tx \in pending : tx.by # attempt + 1
        BY <4>1, NothingAhead
      <4>3. QED
        BY <1>1, <4>2, Zenon
    <3>3. Underway'
      BY <1>1, <1>2, <3>1, <3>2 DEF Underway
    <3>4. QED
      BY <1>2, <2>2, <3>1, <3>3 DEF ScriptKnown
  <2>3. QED
    BY <2>1, <2>2
<1>5. QED
  BY <1>1, <1>2, <1>3, <1>4 DEF Inv

\* When the process ends, only the chain is left.
LEMMA GiveUpKeeps ==
  ASSUME Inv, GiveUp, UNCHANGED <<contracts, pending, attempt, handedOut>>
  PROVE  Inv'
<1>1. script' = Idle /\ attempt' = attempt /\ attempt \in Nat
  BY DEF GiveUp, Inv
<1>2. ContractsKnown' /\ HandedOutFinal' /\ PendingKnown'
  BY <1>1, RestKept
<1>3. Idle \in ScriptType /\ Idle.steps = <<>>
  BY DEF Idle, ScriptType, Addresses, Nobody
<1>4. ScriptKnown'
  BY <1>1, <1>3 DEF ScriptKnown, Running
<1>5. QED
  BY <1>1, <1>2, <1>3, <1>4 DEF Inv

\* Going on to the next step, with what this one has left behind.
LEMMA GoingOnKeeps ==
  ASSUME Inv, Sound(script.steps), Underway, Running, ~FailsAtOnce(script.steps),
         script.next <= Len(script.steps),
         UNCHANGED <<contracts, pending, attempt, handedOut>>,
         \A tx \in pending : tx.by # attempt, OnChain(Step),
         NEW value, value \in Addresses,
         Step.do = "create" => value = At(Step.var, attempt),
         Step.do = "find" => value = Fixed(Step.var),
         Step.do = "wire" => value = script.local[Step.var],
         script' = [script EXCEPT !.awaits = FALSE, !.next = @ + 1, !.local[Step.var] = value]
  PROVE  Inv'
<1> DEFINE steps == script.steps
           n     == script.next
<1>1. /\ script \in ScriptType /\ attempt \in Nat /\ attempt > 0
      /\ n \in 1 .. Len(steps) /\ Len(steps) \in Nat
  BY DEF Inv, Sound, Underway
<1>2. ContractsKnown' /\ HandedOutFinal' /\ PendingKnown'
  BY <1>1, RestKept
<1>3. Step = steps[n] /\ Step.var \in Vars
  BY <1>1 DEF Step, Sound, Vars, Named
<1>4. script.local \in [Vars -> Addresses]
  BY <1>1 DEF ScriptType
<1>5. /\ script'.steps = steps /\ script'.next = n + 1 /\ script'.awaits = FALSE
      /\ script'.local = [script.local EXCEPT ![Step.var] = value]
      /\ script' \in ScriptType
  <2>1. [script.local EXCEPT ![Step.var] = value] \in [Vars -> Addresses]
    BY <1>3, <1>4
  <2>2. /\ script'.steps = steps /\ script'.next = n + 1 /\ script'.awaits = FALSE
        /\ script'.local = [script.local EXCEPT ![Step.var] = value]
        /\ script' = [steps |-> script'.steps, next |-> script'.next,
                      local |-> script'.local, awaits |-> script'.awaits]
    BY <1>1 DEF ScriptType
  <2>3. n + 1 \in Nat /\ steps \in {<<>>} \cup {StepsOf(s) : s \in Scripts}
    BY <1>1 DEF ScriptType
  <2>4. QED
    BY <2>1, <2>2, <2>3 DEF ScriptType
<1>6. \A v \in Vars : script'.local[v] = IF v = Step.var THEN value ELSE script.local[v]
  BY <1>3, <1>4, <1>5
<1>7. Step.do = "wire" => script'.local = script.local
  BY <1>3, <1>4, <1>5
<1>8. ASSUME NEW j \in 1 .. Len(steps), j < n + 1
      PROVE  Done(steps[j])'
  <2>1. CASE steps[j].do = "wire"
    <3>1. OnChain(steps[j])
      BY <1>1, <1>3, <1>8, <2>1 DEF Underway, Done
    <3>2. Step.do = "wire"
      BY <1>1, <1>3, <1>8, <2>1 DEF Sound
    <3>3. QED
      BY <1>7, <2>1, <3>1, <3>2 DEF Done, OnChain, IsFinal
  <2>2. CASE steps[j].do # "wire"
    <3>1. steps[j].var \in Vars
      BY <2>2 DEF Sound, Vars
    <3>2. CASE j = n
      BY <1>3, <1>6, <2>2, <3>2 DEF Done, OnChain
    <3>3. CASE j # n
      <4>1. j < n /\ Done(steps[j])
        BY <1>1, <1>8, <3>3 DEF Underway
      <4>2. script'.local[steps[j].var] = script.local[steps[j].var]
        <5>1. CASE Step.do = "wire"
          BY <1>7, <5>1
        <5>2. CASE Step.do # "wire"
          <6>1. steps[j].var # Step.var
            BY <1>1, <1>3, <2>2, <3>3, <5>2 DEF Sound
          <6>2. QED
            BY <1>6, <3>1, <6>1
        <5>3. QED
          BY <5>1, <5>2
      <4>3. QED
        BY <2>2, <4>1, <4>2 DEF Done, OnChain
    <3>4. QED
      BY <3>2, <3>3
  <2>3. QED
    BY <2>1, <2>2
<1>9. ASSUME NEW j \in 1 .. Len(steps), j >= n + 1, steps[j].do = "create"
      PROVE  At(steps[j].var, attempt) \notin DOMAIN contracts
  BY <1>1, <1>9 DEF Underway
<1>10. Underway'
  BY <1>1, <1>5, <1>8, <1>9 DEF Underway
<1>11. ScriptKnown'
  BY <1>5, <1>10 DEF ScriptKnown
<1>12. QED
  BY <1>1, <1>5, <1>2, <1>11 DEF Inv

\* Attaching to a contract that exists already.
LEMMA AttachKeeps ==
  ASSUME Inv, Attach
  PROVE  Inv'
<1>1. /\ Running /\ ~AtEnd /\ ~script.awaits /\ Step.do = "find" /\ Step.artifact \in Artifacts
      /\ script' = [script EXCEPT !.next = @ + 1, !.local[Step.var] = Fixed(Step.var)]
      /\ UNCHANGED <<contracts, pending, attempt, handedOut>>
  BY DEF Attach, About
<1>2. Sound(script.steps) /\ Underway /\ ~FailsAtOnce(script.steps)
  BY <1>1, Proceeds
<1>3. /\ script.next <= Len(script.steps) /\ \A tx \in pending : tx.by # attempt
  BY <1>1, <1>2 DEF AtEnd, Underway, Sound
<1>4. Step.var \in Vars
  <2>1. script.next \in 1 .. Len(script.steps)
    BY <1>2, <1>3 DEF Sound, Underway
  <2>2. QED
    BY <1>2, <2>1 DEF Sound, Step, Vars, Named
<1>5. Fixed(Step.var) \in Addresses
  BY <1>4 DEF Fixed, Addresses
<1>6. script' = [script EXCEPT !.awaits = FALSE, !.next = @ + 1,
                               !.local[Step.var] = Fixed(Step.var)]
  <2>1. script \in ScriptType /\ script.awaits = FALSE
    BY <1>1 DEF Inv, ScriptType
  <2>2. QED
    BY <1>1, <2>1 DEF ScriptType
<1>7. OnChain(Step)
  BY <1>1 DEF OnChain
<1>8. QED
  BY <1>1, <1>2, <1>3, <1>5, <1>6, <1>7, GoingOnKeeps

\* The transaction has been mined.
LEMMA AwaitKeeps ==
  ASSUME Inv, Await
  PROVE  Inv'
<1> DEFINE value == IF Step.do = "create" THEN At(Step.var, attempt) ELSE script.local[Step.var]
<1>1. /\ Running /\ script.awaits
      /\ \A tx \in pending : tx.by # attempt
      /\ script' = [script EXCEPT !.awaits = FALSE, !.next = @ + 1, !.local[Step.var] = value]
      /\ UNCHANGED <<contracts, pending, attempt, handedOut>>
  BY DEF Await, At
<1>2. Sound(script.steps) /\ Underway /\ ~FailsAtOnce(script.steps)
  BY <1>1, Proceeds
<1>3. script.next <= Len(script.steps) /\ Step.do # "find" /\ OnChain(Step)
  <2>1. Awaiting
    BY <1>1, <1>2 DEF Underway
  <2>2. Transaction.by = attempt
    BY DEF Transaction
  <2>3. QED
    BY <1>1, <2>1, <2>2 DEF Awaiting
<1>4. Step.var \in Vars
  <2>1. script.next \in 1 .. Len(script.steps)
    BY <1>2, <1>3 DEF Sound, Underway
  <2>2. QED
    BY <1>2, <2>1 DEF Sound, Step, Vars, Named
<1>5. value \in Addresses
  <2>1. At(Step.var, attempt) \in Addresses
    BY <1>4 DEF At, Addresses, Inv
  <2>2. script.local[Step.var] \in Addresses
    BY <1>4 DEF Inv, ScriptType
  <2>3. QED
    BY <2>1, <2>2
<1>6. /\ Step.do = "create" => value = At(Step.var, attempt)
      /\ Step.do = "wire" => value = script.local[Step.var]
  OBVIOUS
<1> HIDE DEF value
<1>7. QED
  BY <1>1, <1>2, <1>3, <1>5, <1>6, GoingOnKeeps

\* When a connecting transaction is sent, everything has its name, and before the
\* one of StableBaseCDP all others have been mined.
LEMMA WiringReady ==
  ASSUME Inv, Sound(script.steps), Underway,
         NEW n \in 1 .. Len(script.steps), n = script.next, script.steps[n].do = "wire"
  PROVE  \E o \in Oracles(attempt) :
           /\ script.local = Names(attempt, o)
           /\ \A v \in Named : At(v, attempt) \in DOMAIN contracts
           /\ OthersFinal(Names(attempt, o), script.steps[n].var, attempt)
<1> DEFINE steps == script.steps
<1>1. PICK o \in Oracles(attempt) :
        /\ script.local = Names(attempt, o)
        /\ \A v \in Named : At(v, attempt) \in DOMAIN contracts
  <2>1. \A j \in 1 .. Len(steps) : steps[j].do # "wire" => j < n
    BY DEF Sound
  <2>2. QED
    BY <2>1, LocalNames
<1>2. ASSUME steps[n].var = "stableBaseCDP", NEW w \in Named \ {"stableBaseCDP"}
      PROVE  IsFinal(script.local, w, attempt)
  <2>1. n = Len(steps)
    BY <1>2 DEF Sound
  <2>2. PICK j \in 1 .. Len(steps) : steps[j].do = "wire" /\ steps[j].var = w
    BY DEF Sound
  <2>3. j # n
    BY <1>2, <2>2
  <2>4. j < n
    BY <2>1, <2>3 DEF Sound
  <2>5. QED
    BY <2>2, <2>4 DEF Underway, Done, OnChain
<1>3. OthersFinal(script.local, steps[n].var, attempt)
  BY <1>2 DEF OthersFinal
<1>4. QED
  BY <1>1, <1>3

\* Sending a transaction.
LEMMA SubmitKeeps ==
  ASSUME Inv, Running, ~AtEnd, ~script.awaits, Submit, Step.do # "find",
         ~FailsAtOnce(script.steps), Sound(script.steps), Underway,
         Step.do = "wire" => MayConnect(script.local[Step.var])
  PROVE  Inv'
<1> DEFINE steps == script.steps
           n     == script.next
<1>1. /\ script \in ScriptType /\ attempt \in Nat /\ attempt > 0 /\ attempt' = attempt
      /\ n \in 1 .. Len(steps) /\ Len(steps) \in Nat
      /\ script' = [script EXCEPT !.awaits = TRUE] /\ pending' = pending \cup {Transaction}
      /\ contracts' = contracts /\ handedOut' = handedOut
  BY DEF Inv, Sound, Underway, AtEnd, Submit
<1>2. /\ script'.steps = steps /\ script'.next = n /\ script'.awaits = TRUE
      /\ script'.local = script.local /\ script' \in ScriptType
  BY <1>1 DEF ScriptType
<1>3. /\ ContractsKnown'
      /\ \A d : AllFinal(d) => AllFinal(d)'
      /\ \A tx : Known(tx) => Known(tx)'
  BY <1>1, ChainKept
<1>4. HandedOutFinal'
  BY <1>1, <1>3 DEF Inv, HandedOutFinal
<1>5. Step = steps[n] /\ (\A tx \in pending : tx.by # attempt)
  BY DEF Step, Underway
<1>6. Transaction.by = attempt
  BY DEF Transaction
<1>7. Known(Transaction)
  <2>1. CASE Step.do = "create"
    <3>1. /\ Transaction.to = At(Step.var, attempt)
          /\ Transaction.kind = KindOf(Step.var) /\ Step.var \in Vars
      BY <1>1, <1>5, <2>1 DEF Transaction, At, Sound
    <3>2. At(Step.var, attempt) \notin DOMAIN contracts
      BY <1>1, <1>5, <2>1 DEF Underway
    <3>3. QED
      BY <1>1, <1>6, <3>1, <3>2 DEF Known, Creation
  <2>2. CASE Step.do = "wire"
    <3> DEFINE v == Step.var
    <3>1. /\ v \in Named /\ Step.args = ArgNames(v)
          /\ Transaction.to = script.local[v] /\ Transaction.kind = "setAddresses"
          /\ Transaction.args = [j \in DOMAIN Step.args |-> script.local[Step.args[j]]]
      BY <1>1, <1>5, <2>2 DEF Transaction, Sound
    <3>2. PICK o \in Oracles(attempt) :
            /\ script.local = Names(attempt, o)
            /\ \A w \in Named : At(w, attempt) \in DOMAIN contracts
            /\ OthersFinal(Names(attempt, o), v, attempt)
      BY <1>1, <1>5, <2>2, WiringReady
    <3>3. Transaction.args = Given(Names(attempt, o), v)
      BY <3>1, <3>2 DEF Given
    <3>4. Transaction.to = At(v, attempt)
      BY <3>1, <3>2, NamesAre
    <3>5. v \in Vars
      BY <3>1 DEF Named
    <3>6. Connection(Transaction, v)
      BY <1>6, <3>1, <3>2, <3>3, <3>4, Zenon DEF Connection
    <3>7. QED
      BY <1>1, <1>6, <3>4, <3>5, <3>6 DEF Known
  <2>3. QED
    BY <1>1, <1>5, <2>1, <2>2 DEF Sound
<1>8. PendingKnown'
  <2>1. \A tx \in pending' : Known(tx)'
    <3>1. \A tx \in pending' : Known(tx)
      BY <1>1, <1>7 DEF Inv, PendingKnown
    <3>2. QED
      BY <1>3, <3>1
  <2>2. \A tx, ty \in pending' : tx.by = ty.by => tx = ty
    BY <1>1, <1>5, <1>6 DEF Inv, PendingKnown
  <2>3. QED
    BY <2>1, <2>2 DEF PendingKnown
<1>9. Step' = Step /\ Transaction' = Transaction
  BY <1>1, <1>2 DEF Step, Transaction
<1>10. Step.do = "wire" => Transaction.to = script.local[Step.var]
  BY DEF Transaction
<1>11. Awaiting'
  BY <1>1, <1>2, <1>9, <1>10 DEF Awaiting, MayConnect
<1>12. \A j \in 1 .. Len(steps) : Done(steps[j])' <=> Done(steps[j])
  BY <1>1, <1>2 DEF Done, OnChain, IsFinal
<1>13. Underway'
  BY <1>1, <1>2, <1>11, <1>12 DEF Underway
<1>14. ScriptKnown'
  BY <1>2, <1>13 DEF ScriptKnown
<1>15. QED
  BY <1>1, <1>2, <1>3, <1>4, <1>8, <1>14 DEF Inv

\* The script comes to its end.
LEMMA FinishKeeps ==
  ASSUME Inv, Finish
  PROVE  Inv'
<1> DEFINE steps == script.steps
<1>1. /\ Running /\ AtEnd /\ script' = Idle /\ handedOut' = handedOut \cup {script.local}
      /\ UNCHANGED <<contracts, pending, attempt>> /\ attempt \in Nat
  BY DEF Finish, AtEnd, Inv
<1>2. Sound(steps) /\ Underway
  BY <1>1, Proceeds
<1>3. /\ ContractsKnown'
      /\ \A d : AllFinal(d) => AllFinal(d)'
      /\ \A tx : Known(tx) => Known(tx)'
  BY <1>1, ChainKept
<1>4. \A j \in 1 .. Len(steps) : j < script.next
  BY <1>1, <1>2 DEF AtEnd, Sound, Underway
<1>5. PICK o \in Oracles(attempt) : script.local = Names(attempt, o)
  BY <1>2, <1>4, LocalNames
<1>6. \A v \in Named : IsFinal(script.local, v, attempt)
  <2> SUFFICES ASSUME NEW v \in Named PROVE IsFinal(script.local, v, attempt)
    OBVIOUS
  <2>1. PICK j \in 1 .. Len(steps) : steps[j].do = "wire" /\ steps[j].var = v
    BY <1>2 DEF Sound
  <2>2. QED
    BY <1>2, <1>4, <2>1 DEF Underway, Done, OnChain
<1>7. AllFinal(script.local)
  <2>1. attempt \in 1 .. attempt
    BY <1>1, <1>2 DEF Underway
  <2>2. QED
    BY <1>5, <1>6, <2>1, Zenon DEF AllFinal
<1>8. HandedOutFinal'
  BY <1>1, <1>3, <1>7 DEF Inv, HandedOutFinal
<1>9. PendingKnown'
  BY <1>1, <1>3 DEF Inv, PendingKnown
<1>10. Idle \in ScriptType /\ Idle.steps = <<>>
  BY DEF Idle, ScriptType, Addresses, Nobody
<1>11. ScriptKnown'
  BY <1>1, <1>10 DEF ScriptKnown, Running
<1>12. QED
  BY <1>1, <1>3, <1>8, <1>9, <1>10, <1>11 DEF Inv

-----------------------------------------------------------------------------
(* A transaction is mined, or forgotten. *)

\* It changes one contract, unless that has been connected.
LEMMA OneContractChanges ==
  ASSUME Inv, NEW tx \in pending, Mined(tx)
  PROVE  /\ \A a \in DOMAIN contracts :
              /\ a \in DOMAIN contracts'
              /\ a # tx.to \/ contracts[a].owner # Deployer => contracts'[a] = contracts[a]
         /\ \A a \in DOMAIN contracts' : a \in DOMAIN contracts \/ a = tx.to
<1>1. CASE tx.kind = "setAddresses"
  BY <1>1 DEF Mined, MayConnect
<1>2. CASE tx.kind # "setAddresses"
  <2>1. tx.to \notin DOMAIN contracts
    BY <1>2 DEF Inv, PendingKnown, Known, Creation, Connection
  <2>2. contracts' = [a \in DOMAIN contracts \cup {tx.to} |->
                        IF a = tx.to THEN New(tx.kind) ELSE contracts[a]]
    BY <1>2 DEF Mined
  <2>3. QED
    BY <2>1, <2>2
<1>3. QED
  BY <1>1, <1>2

\* What is connected stays so.
LEMMA FinalStays ==
  ASSUME Inv, NEW tx \in pending, Mined(tx)
  PROVE  /\ \A v \in Named : \A i, o :
              IsFinal(Names(i, o), v, i) => IsFinal(Names(i, o), v, i)'
         /\ \A v, i, o : OthersFinal(Names(i, o), v, i) => OthersFinal(Names(i, o), v, i)'
<1>1. \A v \in Named : \A i, o : IsFinal(Names(i, o), v, i) => IsFinal(Names(i, o), v, i)'
  BY OneContractChanges, FinalIsNotOwned DEF IsFinal
<1>2. \A v, i, o : OthersFinal(Names(i, o), v, i) => OthersFinal(Names(i, o), v, i)'
  BY <1>1 DEF OthersFinal
<1>3. QED
  BY <1>1, <1>2

\* What the transaction leaves where it was sent.
LEMMA WhatIsMined ==
  ASSUME Inv, NEW tx \in pending, Mined(tx), NEW v \in Vars, tx.to = At(v, tx.by)
  PROVE  /\ Creation(tx, v) => tx.to \in DOMAIN contracts' /\ contracts'[tx.to] = New(KindOf(v))
         /\ Connection(tx, v) /\ MayConnect(tx.to) =>
              contracts'[tx.to] = Connected(New(KindOf(v)), tx.args)
<1>1. ASSUME Creation(tx, v)
      PROVE  tx.to \in DOMAIN contracts' /\ contracts'[tx.to] = New(KindOf(v))
  <2>1. KindOf(v) # "setAddresses"
    BY DEF KindOf
  <2>2. contracts' = [a \in DOMAIN contracts \cup {tx.to} |->
                        IF a = tx.to THEN New(tx.kind) ELSE contracts[a]]
    BY <1>1, <2>1 DEF Mined, Creation
  <2>3. QED
    BY <1>1, <2>2 DEF Creation
<1>2. ASSUME Connection(tx, v), MayConnect(tx.to)
      PROVE  contracts'[tx.to] = Connected(New(KindOf(v)), tx.args)
  <2>1. tx.to \in DOMAIN contracts /\ contracts[tx.to].owner = Deployer
    BY <1>2 DEF MayConnect
  <2>2. PICK w \in Vars, i \in 1 .. attempt :
          /\ tx.to = At(w, i)
          /\ \/ contracts[tx.to] = New(KindOf(w))
             \/ w \in Named /\ \E o \in Oracles(i) : contracts[tx.to] = Final(Names(i, o), w)
    BY <2>1 DEF Inv, ContractsKnown
  <2>3. w = v
    BY <2>2 DEF At
  <2>4. contracts[tx.to] = New(KindOf(v))
    BY <2>1, <2>2, <2>3, FinalIsNotOwned
  <2>5. contracts' = [contracts EXCEPT ![tx.to] = Connected(@, tx.args)]
    BY <1>2 DEF Mined, Connection
  <2>6. QED
    BY <2>1, <2>4, <2>5
<1>3. QED
  BY <1>1, <1>2

\* Every contract is still as it was made, or as it was connected.
LEMMA MinedKeepsContracts ==
  ASSUME Inv, NEW tx \in pending, Mined(tx)
  PROVE  ContractsKnown'
<1> SUFFICES ASSUME NEW a \in DOMAIN contracts'
             PROVE  \E v \in Vars, i \in 1 .. attempt :
                      /\ a = At(v, i)
                      /\ \/ contracts'[a] = New(KindOf(v))
                         \/ /\ v \in Named
                            /\ \E o \in Oracles(i) : /\ contracts'[a] = Final(Names(i, o), v)
                                                     /\ OthersFinal(Names(i, o), v, i)'
  <2>1. attempt' = attempt
    BY DEF Mined
  <2>2. QED
    BY <2>1, Zenon DEF ContractsKnown
<1>1. CASE a \in DOMAIN contracts /\ contracts'[a] = contracts[a]
  <2>1. PICK v \in Vars, i \in 1 .. attempt :
          /\ a = At(v, i)
          /\ \/ contracts[a] = New(KindOf(v))
             \/ /\ v \in Named
                /\ \E o \in Oracles(i) : /\ contracts[a] = Final(Names(i, o), v)
                                         /\ OthersFinal(Names(i, o), v, i)
    BY <1>1, Zenon DEF Inv, ContractsKnown
  <2>2. QED
    BY <1>1, <2>1, FinalStays, Zenon
<1>2. CASE a = tx.to /\ ~(a \in DOMAIN contracts /\ contracts'[a] = contracts[a])
  <2>1. PICK v \in Vars : tx.to = At(v, tx.by) /\ (Creation(tx, v) \/ Connection(tx, v))
    BY DEF Inv, PendingKnown, Known
  <2>2. tx.by \in 1 .. attempt
    BY DEF Inv, PendingKnown, Known
  <2>3. CASE Creation(tx, v)
    <3>1. contracts'[a] = New(KindOf(v))
      BY <1>2, <2>1, <2>3, WhatIsMined
    <3>2. QED
      BY <1>2, <2>1, <2>2, <3>1, Zenon
  <2>4. CASE Connection(tx, v)
    <3>1. PICK o \in Oracles(tx.by) : /\ tx.args = Given(Names(tx.by, o), v)
                                      /\ OthersFinal(Names(tx.by, o), v, tx.by)
      BY <2>4 DEF Connection
    <3>2. MayConnect(tx.to)
      BY <1>2, <2>4, OneContractChanges DEF MayConnect, Connection
    <3>3. contracts'[a] = Final(Names(tx.by, o), v)
      BY <1>2, <2>1, <2>4, <3>1, <3>2, WhatIsMined DEF Final
    <3>4. OthersFinal(Names(tx.by, o), v, tx.by)'
      BY <3>1, FinalStays
    <3>5. v \in Named
      BY <2>4 DEF Connection
    <3>6. QED
      BY <1>2, <2>1, <2>2, <3>3, <3>4, <3>5, Zenon
  <2>5. QED
    BY <2>1, <2>3, <2>4
<1>3. QED
  BY <1>1, <1>2, OneContractChanges

\* The other transactions find their contracts as before.
LEMMA MinedKeepsPending ==
  ASSUME Inv, NEW tx \in pending, Mined(tx)
  PROVE  PendingKnown'
<1>1. pending' = pending \ {tx} /\ attempt' = attempt
  BY DEF Mined
<1>2. \A ty, tz \in pending' : ty.by = tz.by => ty = tz
  BY <1>1 DEF Inv, PendingKnown
<1>3. ASSUME NEW ty \in pending'
      PROVE  Known(ty)'
  <2>1. ty \in pending /\ ty # tx /\ ty.by # tx.by
    BY <1>1, <1>3 DEF Inv, PendingKnown
  <2>2. PICK v \in Vars : ty.to = At(v, ty.by) /\ (Creation(ty, v) \/ Connection(ty, v))
    BY <2>1 DEF Inv, PendingKnown, Known
  <2>3. ty.to # tx.to
    <3>1. \E w \in Vars : tx.to = At(w, tx.by)
      BY DEF Inv, PendingKnown, Known
    <3>2. tx.to.attempt = tx.by /\ ty.to.attempt = ty.by
      BY <2>2, <3>1 DEF At
    <3>3. QED
      BY <2>1, <3>2
  <2>4. Creation(ty, v) => Creation(ty, v)'
    BY <2>3, OneContractChanges DEF Creation
  <2>5. ASSUME Connection(ty, v)
        PROVE  Connection(ty, v)'
    <3>1. PICK o \in Oracles(ty.by) : /\ ty.args = Given(Names(ty.by, o), v)
                                      /\ OthersFinal(Names(ty.by, o), v, ty.by)
      BY <2>5 DEF Connection
    <3>2. OthersFinal(Names(ty.by, o), v, ty.by)'
      BY <3>1, FinalStays
    <3>3. ty.to \in DOMAIN contracts'
      BY <2>5, OneContractChanges DEF Connection
    <3>4. QED
      BY <2>5, <3>1, <3>2, <3>3, Zenon DEF Connection
  <2>6. ty.by \in 1 .. attempt'
    BY <1>1, <2>1 DEF Inv, PendingKnown, Known
  <2>7. QED
    BY <2>2, <2>4, <2>5, <2>6, Zenon DEF Known
<1>4. QED
  BY <1>2, <1>3 DEF PendingKnown

\* The script has its transaction mined, or does not see another's.
LEMMA MinedKeepsScript ==
  ASSUME Inv, NEW tx \in pending, Mined(tx)
  PROVE  ScriptKnown'
<1> DEFINE steps == script.steps
           n     == script.next
<1>1. /\ script' = script /\ attempt' = attempt /\ pending' = pending \ {tx}
      /\ Running' = Running /\ Step' = Step /\ Transaction' = Transaction
  BY DEF Mined, Running, Step, Transaction
<1> SUFFICES ASSUME Running, ~FailsAtOnce(steps)
             PROVE  Sound(steps) /\ Underway'
  BY <1>1 DEF Inv, ScriptKnown
<1>2. /\ Sound(steps) /\ Underway /\ attempt \in Nat /\ attempt > 0
      /\ n \in 1 .. Len(steps) + 1 /\ Len(steps) \in Nat
  BY DEF Inv, ScriptKnown, Sound, Underway
<1>3. ASSUME NEW j \in 1 .. Len(steps), j < n
      PROVE  Done(steps[j])'
  <2>1. Done(steps[j])
    BY <1>2, <1>3 DEF Underway
  <2>2. ASSUME steps[j].do = "wire"
        PROVE  IsFinal(script.local, steps[j].var, attempt)'
    <3>1. \A k \in 1 .. Len(steps) : steps[k].do # "wire" => k < n
      BY <1>2, <1>3, <2>2 DEF Sound
    <3>2. PICK o \in Oracles(attempt) : script.local = Names(attempt, o)
      BY <1>2, <3>1, LocalNames
    <3>3. IsFinal(Names(attempt, o), steps[j].var, attempt)
      BY <2>1, <2>2, <3>2 DEF Done, OnChain
    <3>4. steps[j].var \in Named
      BY <1>2, <2>2 DEF Sound
    <3>5. /\ At(steps[j].var, attempt) \in DOMAIN contracts'
          /\ contracts'[At(steps[j].var, attempt)] = Final(script.local, steps[j].var)
      BY <3>2, <3>3, <3>4, OneContractChanges, FinalIsNotOwned DEF IsFinal
    <3>6. QED
      BY <1>1, <3>5 DEF IsFinal
  <2>3. steps[j].do = "create" => At(steps[j].var, attempt) \in DOMAIN contracts'
    BY <2>1, OneContractChanges DEF Done, OnChain
  <2>4. QED
    BY <1>1, <2>1, <2>2, <2>3 DEF Done, OnChain
<1>4. CASE tx.by # attempt
  <2>1. \A v : At(v, attempt) # tx.to
    <3>1. \E w \in Vars : tx.to = At(w, tx.by)
      BY DEF Inv, PendingKnown, Known
    <3>2. tx.to.attempt = tx.by /\ \A v : At(v, attempt).attempt = attempt
      BY <3>1 DEF At
    <3>3. QED
      BY <1>4, <3>2
  <2>2. \A v : At(v, attempt) \in DOMAIN contracts' <=> At(v, attempt) \in DOMAIN contracts
    BY <2>1, OneContractChanges
  <2>3. \A v : At(v, attempt) \in DOMAIN contracts =>
                 contracts'[At(v, attempt)] = contracts[At(v, attempt)]
    BY <2>1, OneContractChanges
  <2>4. ASSUME script.awaits, Awaiting
        PROVE  Awaiting'
    <3>1. CASE Transaction \in pending /\ (Step.do = "wire" => MayConnect(Transaction.to))
      <4>1. Transaction.by = attempt
        BY DEF Transaction
      <4>2. Transaction \in pending'
        BY <1>1, <1>4, <3>1, <4>1
      <4>3. Transaction.to # tx.to
        BY <2>1, <3>1, <4>1 DEF Inv, PendingKnown, Known
      <4>4. Step.do = "wire" => MayConnect(Transaction.to)'
        BY <1>1, <3>1, <4>3, OneContractChanges DEF MayConnect
      <4>5. QED
        BY <1>1, <2>4, <4>2, <4>4 DEF Awaiting, MayConnect
    <3>2. CASE (\A ty \in pending : ty.by # attempt) /\ OnChain(Step)
      <4>1. OnChain(Step)'
        BY <1>1, <2>2, <2>3, <3>2 DEF OnChain, IsFinal
      <4>2. QED
        BY <1>1, <2>4, <3>2, <4>1 DEF Awaiting
    <3>3. QED
      BY <2>4, <3>1, <3>2 DEF Awaiting
  <2>5. QED
    BY <1>1, <1>2, <1>3, <2>2, <2>4 DEF Underway
<1>5. CASE tx.by = attempt
  <2>1. script.awaits /\ Awaiting
    BY <1>2, <1>5 DEF Underway
  <2>2. /\ Transaction \in pending /\ n \in 1 .. Len(steps) /\ Step.do # "find"
        /\ Step.do = "wire" => MayConnect(Transaction.to)
    BY <1>2, <1>5, <2>1 DEF Awaiting
  <2>3. tx = Transaction
    BY <1>5, <2>2 DEF Transaction, Inv, PendingKnown
  <2>4. \A ty \in pending' : ty.by # attempt
    BY <1>1, <1>5 DEF Inv, PendingKnown
  <2>5. Step = steps[n]
    BY DEF Step
  <2>6. PICK v \in Vars : tx.to = At(v, attempt) /\ (Creation(tx, v) \/ Connection(tx, v))
    BY <1>5 DEF Inv, PendingKnown, Known
  <2>7. CASE Step.do = "create"
    <3>1. tx.to = At(Step.var, attempt)
      BY <2>3, <2>7 DEF Transaction, At
    <3>2. tx.kind # "setAddresses"
      BY <1>2, <2>2, <2>3, <2>5, <2>7 DEF Transaction, Sound, KindOf
    <3>3. Creation(tx, v)
      BY <2>6, <3>2 DEF Connection
    <3>4. OnChain(Step)'
      BY <1>1, <1>5, <2>6, <2>7, <3>1, <3>3, WhatIsMined DEF OnChain
    <3>5. Awaiting'
      BY <1>1, <2>2, <2>4, <3>4 DEF Awaiting
    <3>6. ASSUME NEW j \in 1 .. Len(steps), j > n, steps[j].do = "create"
          PROVE  At(steps[j].var, attempt) \notin DOMAIN contracts'
      <4>1. steps[j].var # Step.var
        BY <1>2, <2>2, <2>5, <2>7, <3>6 DEF Sound
      <4>2. At(steps[j].var, attempt) # tx.to
        BY <3>1, <4>1 DEF At
      <4>3. At(steps[j].var, attempt) \notin DOMAIN contracts
        BY <1>2, <3>6 DEF Underway
      <4>4. QED
        BY <4>2, <4>3, OneContractChanges
    <3>7. QED
      BY <1>1, <1>2, <1>3, <2>1, <3>5, <3>6 DEF Underway
  <2>8. CASE Step.do = "wire"
    <3> DEFINE w == Step.var
    <3>1. /\ w \in Named /\ Step.args = ArgNames(w) /\ tx.to = script.local[w]
          /\ tx.args = [j \in DOMAIN Step.args |-> script.local[Step.args[j]]]
          /\ tx.kind = "setAddresses"
      BY <1>2, <2>2, <2>3, <2>5, <2>8 DEF Transaction, Sound
    <3>2. PICK o \in Oracles(attempt) :
            /\ script.local = Names(attempt, o)
            /\ \A u \in Named : At(u, attempt) \in DOMAIN contracts
      BY <1>2, <2>2, <2>5, <2>8, WiringReady
    <3>3. tx.to = At(w, attempt) /\ tx.args = Given(script.local, w)
      BY <3>1, <3>2, NamesAre DEF Given
    <3>4. Connection(tx, w)
      <4>1. v = w
        BY <2>6, <3>3 DEF At
      <4>2. ~Creation(tx, v)
        BY <3>1, <3>2, <3>3 DEF Creation
      <4>3. QED
        BY <2>6, <4>1, <4>2
    <3>5. contracts'[tx.to] = Final(script.local, w)
      <4>1. w \in Vars /\ MayConnect(tx.to)
        BY <2>2, <2>3, <2>8, <3>1 DEF Named
      <4>2. QED
        BY <1>5, <3>3, <3>4, <4>1, WhatIsMined DEF Final
    <3>6. At(w, attempt) \in DOMAIN contracts'
      BY <3>1, <3>2, OneContractChanges
    <3>7. OnChain(Step)'
      BY <1>1, <2>8, <3>3, <3>5, <3>6 DEF OnChain, IsFinal
    <3>8. Awaiting'
      BY <1>1, <2>2, <2>4, <3>7 DEF Awaiting
    <3>9. \A j \in 1 .. Len(steps) : j > n => steps[j].do # "create"
      BY <1>2, <2>2, <2>5, <2>8 DEF Sound
    <3>10. QED
      BY <1>1, <1>2, <1>3, <2>1, <3>8, <3>9 DEF Underway
  <2>9. QED
    BY <1>2, <2>2, <2>5, <2>7, <2>8 DEF Sound
<1>6. QED
  BY <1>2, <1>4, <1>5

\* All of it together: a transaction is mined, whether its script lives or not.
LEMMA MinedKeeps ==
  ASSUME Inv, NEW tx \in pending, Mined(tx)
  PROVE  Inv'
<1>1. attempt' = attempt /\ script' = script /\ handedOut' = handedOut
  BY DEF Mined
<1>2. \A d \in handedOut : AllFinal(d)'
  <2> SUFFICES ASSUME NEW d \in handedOut PROVE AllFinal(d)'
    OBVIOUS
  <2>1. PICK i \in 1 .. attempt : \E o \in Oracles(i) :
          d = Names(i, o) /\ \A v \in Named : IsFinal(d, v, i)
    BY DEF Inv, HandedOutFinal, AllFinal
  <2>2. PICK o \in Oracles(i) : d = Names(i, o) /\ \A v \in Named : IsFinal(d, v, i)
    BY <2>1
  <2>3. \A v \in Named : IsFinal(d, v, i)'
    BY <2>2, FinalStays
  <2>4. QED
    BY <1>1, <2>2, <2>3, Zenon DEF AllFinal
<1>3. ContractsKnown' /\ PendingKnown' /\ ScriptKnown'
  BY MinedKeepsContracts, MinedKeepsPending, MinedKeepsScript
<1>4. QED
  BY <1>1, <1>2, <1>3 DEF Inv, HandedOutFinal

\* Only transactions that nobody awaits are forgotten.
LEMMA DroppedKeeps ==
  ASSUME Inv, NEW tx \in pending, Dropped(tx)
  PROVE  Inv'
<1>1. /\ pending' = pending \ {tx} /\ ~(Running /\ tx.by = attempt)
      /\ UNCHANGED <<contracts, script, attempt, handedOut>> /\ attempt \in Nat
  BY DEF Dropped, Inv
<1>2. ContractsKnown' /\ HandedOutFinal' /\ PendingKnown'
  BY <1>1, RestKept
<1>3. ScriptKnown'
  <2>1. Running' = Running /\ Step' = Step /\ Transaction' = Transaction
    BY <1>1 DEF Running, Step, Transaction
  <2> SUFFICES ASSUME Running, ~FailsAtOnce(script.steps)
               PROVE  Sound(script.steps) /\ Underway'
    BY <1>1, <2>1 DEF Inv, ScriptKnown
  <2>2. Sound(script.steps) /\ Underway
    BY DEF Inv, ScriptKnown
  <2>3. Transaction.by = attempt
    BY DEF Transaction
  <2>4. \A j \in 1 .. Len(script.steps) : Done(script.steps[j])' <=> Done(script.steps[j])
    BY <1>1 DEF Done, OnChain, IsFinal
  <2>5. Awaiting => Awaiting'
    BY <1>1, <2>1, <2>3 DEF Awaiting, MayConnect, OnChain, IsFinal
  <2>6. QED
    BY <1>1, <2>2, <2>4, <2>5 DEF Underway
<1>4. QED
  BY <1>1, <1>2, <1>3 DEF Inv

\* One action of Next after the other.
LEMMA DeploymentStep == Inv /\ [Next]_vars => Inv'
<1> SUFFICES ASSUME Inv, [Next]_vars PROVE Inv'
  OBVIOUS
<1>1. CASE \E s \in Scripts : Begin(s)
  BY <1>1, BeginKeeps
<1>2. CASE Attach
  BY <1>2, AttachKeeps
<1>3. CASE NoArtifact
  BY <1>3, GiveUpKeeps DEF NoArtifact
<1>4. CASE SendCreation
  <2>1. /\ Running /\ ~AtEnd /\ ~script.awaits /\ Step.do = "create"
        /\ Step.artifact \in Artifacts /\ Submit
    BY <1>4 DEF SendCreation, About
  <2>2. QED
    BY <2>1, Proceeds, SubmitKeeps
<1>5. CASE SendWiring
  <2>1. About("wire") /\ Running /\ ~AtEnd /\ ~script.awaits /\ Step.do = "wire"
    BY <1>5 DEF SendWiring, About
  <2>2. CASE MayConnect(script.local[Step.var])
    BY <1>5, <2>1, <2>2, Proceeds, SubmitKeeps DEF SendWiring
  <2>3. CASE ~MayConnect(script.local[Step.var])
    BY <1>5, <2>3, GiveUpKeeps DEF SendWiring
  <2>4. QED
    BY <2>2, <2>3
<1>6. CASE Await
  BY <1>6, AwaitKeeps
<1>7. CASE Finish
  BY <1>7, FinishKeeps
<1>8. CASE OracleSilent \/ Interrupted
  BY <1>8, GiveUpKeeps DEF OracleSilent, Interrupted, GiveUp
<1>9. CASE \E tx \in pending : Mined(tx) \/ Dropped(tx)
  BY <1>9, MinedKeeps, DroppedKeeps
<1>10. CASE UNCHANGED vars
  <2>1. /\ contracts' = contracts /\ attempt' = attempt /\ attempt \in Nat
        /\ pending' = pending /\ script' = script /\ handedOut' = handedOut
    BY <1>10 DEF vars, Inv
  <2>2. ContractsKnown' /\ HandedOutFinal' /\ PendingKnown'
    BY <2>1, RestKept
  <2>3. ScriptKnown'
    BY <2>1 DEF Inv, ScriptKnown, Running, Underway, Done, OnChain, IsFinal, Awaiting,
                Step, Transaction, MayConnect
  <2>4. QED
    BY <2>1, <2>2, <2>3 DEF Inv
<1>11. QED
  BY <1>1, <1>2, <1>3, <1>4, <1>5, <1>6, <1>7, <1>8, <1>9, <1>10 DEF Next, ScriptStep

\* The invariant holds in every state.
LEMMA Invariance == Spec => []Inv
<1>1. QED
  BY DeploymentInit, DeploymentStep, PTL DEF Spec

-----------------------------------------------------------------------------
(* The theorems. *)

\* The variables one by one, in a set of names.
LEMMA NamesOneByOne ==
  ASSUME NEW i, NEW o, NEW d, d = Names(i, o)
  PROVE  /\ d.sbdToken = At("sbdToken", i) /\ d.dfireToken = At("dfireToken", i)
         /\ d.stabilityPool = At("stabilityPool", i) /\ d.dfireStaking = At("dfireStaking", i)
         /\ d.stableBaseCDP = At("stableBaseCDP", i) /\ d.priceOracle = o
         /\ d.redemptionQueue = At("redemptionQueue", i)
         /\ d.liquidationQueue = At("liquidationQueue", i)
BY DEF Names, Vars

\* Who owns what, of contracts that are connected.
LEMMA OwnersOneByOne ==
  ASSUME NEW d
  PROVE  /\ \A v \in {"stabilityPool", "dfireStaking", "stableBaseCDP"} :
              Final(d, v).owner = Nobody
         /\ \A v \in {"sbdToken", "redemptionQueue", "liquidationQueue"} :
              Final(d, v).owner = d.stableBaseCDP
         /\ Final(d, "dfireToken").owner = d.stabilityPool
BY OwnerOfFinal DEF Named, Vars

\* What an attempt hands out refers to what it hands out and to nothing else,
\* after any number of attempts that ended early and with their transactions
\* still in flight, on every network.
THEOREM AlwaysWiredTogether == Spec => []WiredTogether
<1>1. ASSUME Inv PROVE WiredTogether
  <2> SUFFICES ASSUME NEW d \in handedOut
               PROVE  /\ \A v \in Named : /\ d[v] \in DOMAIN contracts
                                          /\ d[v].attempt = d.stableBaseCDP.attempt
                      /\ \A v, w \in Vars : v # w => d[v] # d[w]
                      /\ LET pool    == Refs(d.stabilityPool)
                             staking == Refs(d.dfireStaking)
                             cdp     == Refs(d.stableBaseCDP)
                         IN /\ <<pool.stakingToken, pool.sbrToken, pool.stableBaseCDP>>
                                 = <<d.sbdToken, d.dfireToken, d.stableBaseCDP>>
                            /\ <<staking.stakingToken, staking.rewardToken,
                                 staking.stableBaseContract>>
                                 = <<d.dfireToken, d.sbdToken, d.stableBaseCDP>>
                            /\ <<cdp.sbdToken, cdp.priceOracle, cdp.stabilityPool,
                                 cdp.dfireTokenStaking>>
                                 = <<d.sbdToken, d.priceOracle, d.stabilityPool, d.dfireStaking>>
                            /\ <<cdp.safesOrderedForLiquidation, cdp.safesOrderedForRedemption>>
                                 = <<d.liquidationQueue, d.redemptionQueue>>
    BY DEF WiredTogether, Named
  <2>1. PICK i \in 1 .. attempt : \E o \in Oracles(i) :
          d = Names(i, o) /\ \A v \in Named : IsFinal(d, v, i)
    BY <1>1 DEF Inv, HandedOutFinal, AllFinal
  <2>2. PICK o \in Oracles(i) : d = Names(i, o) /\ \A v \in Named : IsFinal(d, v, i)
    BY <2>1
  <2>3. \A v \in Named : d[v] = At(v, i) /\ At(v, i).attempt = i /\ At(v, i) \in DOMAIN contracts
    BY <2>2, NamesAre DEF At, IsFinal
  <2>4. d.stableBaseCDP.attempt = i
    BY <2>3 DEF Named, Vars
  <2>5. \A v \in Vars : d[v].var = v
    <3>1. d["priceOracle"].var = "priceOracle"
      <4>1. d["priceOracle"] = o
        BY <2>2, NamesAre
      <4>2. o = At("priceOracle", i) \/ o = Fixed("priceOracle")
        BY DEF Oracles
      <4>3. /\ At("priceOracle", i).var = "priceOracle"
            /\ Fixed("priceOracle").var = "priceOracle"
        BY DEF At, Fixed
      <4>4. QED
        BY <4>1, <4>2, <4>3
    <3>2. \A v \in Named : d[v].var = v
      <4>1. \A v : At(v, i).var = v
        BY DEF At
      <4>2. QED
        BY <2>3, <4>1
    <3>3. QED
      BY <3>1, <3>2 DEF Named
  <2>6. /\ Refs(d.stabilityPool) = Final(d, "stabilityPool").refs
        /\ Refs(d.dfireStaking) = Final(d, "dfireStaking").refs
        /\ Refs(d.stableBaseCDP) = Final(d, "stableBaseCDP").refs
    BY <2>2, NamesOneByOne DEF Refs, IsFinal, Named, Vars
  <2>7. \A v, w \in Vars : v # w => d[v] # d[w]
    BY <2>5
  <2>8. \A v \in Named : d[v] \in DOMAIN contracts /\ d[v].attempt = d.stableBaseCDP.attempt
    BY <2>3, <2>4
  <2>9. QED
    BY <2>6, <2>7, <2>8, RefsOfPool, RefsOfStaking, RefsOfCDP
<1>2. QED
  BY <1>1, Invariance, PTL

\* Once a deployment is handed out its deployer owns none of it but a mock oracle,
\* and only StableBaseCDP mints DFID, only the pool DFIRE.
THEOREM NobodyEverControls == Spec => []NobodyControls
<1>1. ASSUME Inv PROVE NobodyControls
  <2> SUFFICES ASSUME NEW d \in handedOut
               PROVE  /\ \A v \in Named : Owner(d[v]) # Deployer
                      /\ Owner(d.sbdToken) = d.stableBaseCDP
                      /\ Owner(d.dfireToken) = d.stabilityPool
    BY DEF NobodyControls, Named
  <2>1. PICK i \in 1 .. attempt : \E o \in Oracles(i) :
          d = Names(i, o) /\ \A v \in Named : IsFinal(d, v, i)
    BY <1>1 DEF Inv, HandedOutFinal, AllFinal
  <2>2. PICK o \in Oracles(i) : d = Names(i, o) /\ \A v \in Named : IsFinal(d, v, i)
    BY <2>1
  <2>3. \A v \in Named : Owner(d[v]) = Final(d, v).owner
    BY <2>2, NamesAre DEF Owner, IsFinal
  <2>4. \A v \in Named : Owner(d[v]) # Deployer
    BY <2>2, <2>3, FinalIsNotOwned
  <2>5. QED
    BY <2>3, <2>4, OwnersOneByOne DEF Named, Vars
<1>2. QED
  BY <1>1, Invariance, PTL

\* From the first state in which a loan is possible all contracts that StableBaseCDP
\* uses refer back to it and belong to it or to nobody, also when the connecting
\* transaction is mined long after its script has ended.
THEOREM UsableMeansReady == Spec => []ReadyWhenUsable
<1>1. ASSUME Inv PROVE ReadyWhenUsable
  <2> SUFFICES ASSUME NEW a \in DOMAIN contracts, contracts[a].kind = "StableBaseCDP",
                      Refs(a) # Unset
               PROVE  LET refs == Refs(a) IN
                      /\ {refs.sbdToken, refs.stabilityPool, refs.dfireTokenStaking,
                          refs.safesOrderedForLiquidation, refs.safesOrderedForRedemption}
                            \subseteq DOMAIN contracts
                      /\ Owner(refs.sbdToken) = a
                      /\ Owner(refs.safesOrderedForLiquidation) = a
                      /\ Owner(refs.safesOrderedForRedemption) = a
                      /\ Refs(refs.stabilityPool).stableBaseCDP = a
                      /\ Owner(Refs(refs.stabilityPool).sbrToken) = refs.stabilityPool
                      /\ Refs(refs.dfireTokenStaking).stableBaseContract = a
                      /\ Owner(refs.stabilityPool) = Nobody
                      /\ Owner(refs.dfireTokenStaking) = Nobody
    BY DEF ReadyWhenUsable
  <2>1. PICK v \in Vars, i \in 1 .. attempt :
          /\ a = At(v, i)
          /\ \/ contracts[a] = New(KindOf(v))
             \/ /\ v \in Named
                /\ \E o \in Oracles(i) : /\ contracts[a] = Final(Names(i, o), v)
                                         /\ OthersFinal(Names(i, o), v, i)
    BY <1>1, Zenon DEF Inv, ContractsKnown
  <2>2. contracts[a] # New(KindOf(v))
    BY DEF Refs, New
  <2>3. PICK o \in Oracles(i) : /\ contracts[a] = Final(Names(i, o), v)
                                /\ OthersFinal(Names(i, o), v, i)
    BY <2>1, <2>2
  <2>4. v = "stableBaseCDP"
    <3>1. KindOf(v) = "StableBaseCDP"
      BY <2>1, <2>2, <2>3, OwnerOfFinal
    <3>2. QED
      BY <3>1 DEF KindOf, Vars
  <2>5. PICK d : d = Names(i, o)
    OBVIOUS
  <2>6. /\ contracts[a] = Final(d, "stableBaseCDP") /\ a = At("stableBaseCDP", i)
        /\ \A w \in Named \ {"stableBaseCDP"} : IsFinal(d, w, i)
    BY <2>1, <2>3, <2>4, <2>5 DEF OthersFinal
  <2>7. \A w \in {"sbdToken", "dfireToken", "stabilityPool", "dfireStaking",
                  "liquidationQueue", "redemptionQueue"} :
          At(w, i) \in DOMAIN contracts /\ contracts[At(w, i)] = Final(d, w)
    BY <2>6 DEF IsFinal, Named, Vars
  <2>8. /\ Refs(a).sbdToken = At("sbdToken", i)
        /\ Refs(a).stabilityPool = At("stabilityPool", i)
        /\ Refs(a).dfireTokenStaking = At("dfireStaking", i)
        /\ Refs(a).safesOrderedForLiquidation = At("liquidationQueue", i)
        /\ Refs(a).safesOrderedForRedemption = At("redemptionQueue", i)
    BY <2>5, <2>6, RefsOfCDP, NamesOneByOne DEF Refs
  <2>9. /\ Refs(At("stabilityPool", i)).stableBaseCDP = a
        /\ Refs(At("stabilityPool", i)).sbrToken = At("dfireToken", i)
        /\ Refs(At("dfireStaking", i)).stableBaseContract = a
    <3>1. /\ contracts[At("stabilityPool", i)] = Final(d, "stabilityPool")
          /\ contracts[At("dfireStaking", i)] = Final(d, "dfireStaking")
      BY <2>7
    <3>2. d.stableBaseCDP = a /\ d.dfireToken = At("dfireToken", i)
      BY <2>5, <2>6, NamesOneByOne
    <3>3. QED
      BY <3>1, <3>2, RefsOfPool, RefsOfStaking DEF Refs
  <2>10. /\ Owner(At("sbdToken", i)) = a
         /\ Owner(At("liquidationQueue", i)) = a /\ Owner(At("redemptionQueue", i)) = a
         /\ Owner(At("stabilityPool", i)) = Nobody /\ Owner(At("dfireStaking", i)) = Nobody
         /\ Owner(At("dfireToken", i)) = At("stabilityPool", i)
    <3>1. d.stableBaseCDP = a /\ d.stabilityPool = At("stabilityPool", i)
      BY <2>5, <2>6, NamesOneByOne
    <3>2. /\ \A w \in {"stabilityPool", "dfireStaking"} : Final(d, w).owner = Nobody
          /\ \A w \in {"sbdToken", "redemptionQueue", "liquidationQueue"} :
               Final(d, w).owner = a
          /\ Final(d, "dfireToken").owner = At("stabilityPool", i)
      BY <3>1, OwnersOneByOne
    <3>3. QED
      BY <2>7, <3>2 DEF Owner
  <2>11. QED
    BY <2>7, <2>8, <2>9, <2>10
<1>2. QED
  BY <1>1, Invariance, PTL
===============================================================================
