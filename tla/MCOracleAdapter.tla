-------------------------- MODULE MCOracleAdapter --------------------------
(* Three oracles, two escrow ids and the event codes 0, 1, 2 and 6. *)
EXTENDS OracleAdapter, TLC

MCEscrowIds == {1, 2}
MCEventTypes == {0, 1, 2, 6}

\* No operation tells one oracle from another.
OracleSymmetry == Permutations(Oracles)
============================================================================
