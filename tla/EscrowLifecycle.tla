-------------------------- MODULE EscrowLifecycle --------------------------
(***************************************************************************)
(* What the escrow manager contract promises about an escrow, and all the  *)
(* rest of the system relies on: it is funded once, may be disputed while  *)
(* it is active, is settled once, and stays as it was settled.             *)
(***************************************************************************)
CONSTANT Ids

VARIABLE life

Stages == {"none", "Active", "Disputed", "Released", "Refunded"}
Settled == {"Released", "Refunded"}

\* Where an escrow may go from each stage.
Succeeds(from, to) ==
    \/ from = "none" /\ to = "Active"
    \/ from = "Active" /\ to \in {"Disputed"} \cup Settled
    \/ from = "Disputed" /\ to \in Settled

LifeInit == life = [e \in Ids |-> "none"]

Advance(e, to) ==
    /\ Succeeds(life[e], to)
    /\ life' = [life EXCEPT ![e] = to]

LifeNext == \E e \in Ids, to \in Stages : Advance(e, to)

LifeSpec == LifeInit /\ [][LifeNext]_life
============================================================================
