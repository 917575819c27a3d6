-------------------------- MODULE MCSafeSimulation --------------------------
(* Small instances of SafeSimulation: in the first round the borrowers open    *)
(* their Safes and borrow, one after another, and after that at most MaxBusy   *)
(* turns do something.                                                         *)
EXTENDS SafeSimulation

CONSTANTS Opening,    \* the Safes that open in the first round
          OpeningDebts,
          MaxBusy,
          EndsAfter   \* a run with more such turns is not followed to its end

VARIABLE busy

MCInit == SimInit /\ busy = 0

Busy(action) == busy < MaxBusy /\ busy' = busy + 1 /\ action

PreparingTurn ==
  \E s \in Opening :
    /\ \A t \in Opening : t < s => book[t].debt > 0
    /\ \/ \E amount \in Collaterals : ActorOpenSafe(s, amount)
       \/ \E amount \in OpeningDebts : ActorBorrow(s, amount, 0, 0)

Prepared1 == \A s \in Opening : book[s].debt > 0

MCNext ==
  \/ round = 0 /\ PreparingTurn /\ UNCHANGED busy
  \/ /\ round > 0
     /\ \/ midway = Nobody /\ Busy(\/ \E s \in Safes : BorrowerTurn(s)
                                   \/ \E b \in Bots : BotTurn(b)
                                   \/ \E a \in Agents : StakingTurn(a))
        \/ midway # Nobody /\ UNCHANGED busy /\ \E s \in Safes : BorrowerTurn(s)
  \/ UNCHANGED busy /\ RedemptionGoesOn
  \/ busy <= EndsAfter /\ UNCHANGED busy /\ TearDown
  \/ UNCHANGED busy /\ (round = 0 => Prepared1) /\ \E p \in Prices : EndRound(p)

MCSpec == MCInit /\ [][MCNext]_<<simVars, busy>>
============================================================================
