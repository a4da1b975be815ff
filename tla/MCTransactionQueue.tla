------------------------- MODULE MCTransactionQueue -------------------------
(* Keys share nothing but a crash of the server, so one key shows what can   *)
(* happen to each: signed, a job with a userSignedXdr; built, one without.   *)
(* Each behaviour enqueues one of the two.                                   *)
EXTENDS TransactionQueue

CONSTANTS signed, built

VARIABLE key

MCInit == Init /\ key \in Keys
MCNext == Next /\ UNCHANGED key /\ \A k \in Keys \ {key} : job'[k] = "none"

MCSpec == MCInit /\ [][MCNext]_<<vars, key>> /\ Fairness
============================================================================
