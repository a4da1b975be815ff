----------------------- MODULE MCPaymentNotifications -----------------------
(* A behaviour stays in one scope, so that the parts that share little are   *)
(* not multiplied:                                                           *)
(*   payments  two repayments at once, no webhook registered, one fault      *)
(*   webhooks  one delivery, its webhook disabled, enabled and deleted       *)
(*   faults    one delivery with one crash, database error or sweep          *)
(*   chain     one payment through to a registered webhook                   *)
EXTENDS PaymentNotifications

CONSTANTS r1, r2, w1, t1, l1, Scopes

VARIABLE scope

mcVars == <<vars, scope>>

InScope ==
    /\ faults' + sweeps' <= IF scope \in {"payments", "faults"} THEN 1 ELSE 0
    /\ scope = "payments" => hook'[w1] = "absent"
    /\ scope \in {"webhooks", "faults"} => loan' = loan
    /\ scope = "faults" => hook'[w1] # "disabled"
    /\ scope = "chain" =>
         /\ fanout'[t1] = {} /\ tx'[r2] = Nothing
         /\ hook'[w1] \in {"absent", "active"}
         /\ \A s \in Sessions : session'[s].status # "none" => s = 1

MCInit == Init /\ scope \in Scopes
MCNext == Next /\ InScope /\ UNCHANGED scope

MCSpec == MCInit /\ [][MCNext]_mcVars /\ Fairness
=============================================================================
