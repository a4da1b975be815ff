------------------------ MODULE PaymentNotifications ------------------------
(***************************************************************************)
(* From a repayment to the webhooks that report it: LoanService raises     *)
(* PaymentReceived without waiting for it, EventMonitoringService          *)
(* (server/src/services/event-monitoring.service.ts) queues a direct post  *)
(* to the session's own webhook and then the deliveries to the registered  *)
(* ones.  The event lives in memory until the last of it is queued.        *)
(***************************************************************************)
EXTENDS LoanService, WebhookDelivery

ASSUME PaymentAssumption == Events = Repayments

VARIABLE
    handling       \* events whose direct post is queued and triggerEvent is next

vars == <<loanVars, hookVars, handling>>

Init == LoanInit /\ WebhookInit /\ handling = {}

\* Mutated form of PaymentJob: one job id per loan.
PaymentJob_PerLoan(r) ==
    Direct(CHOOSE x \in Repayments : repayment[x].loan = repayment[r].loan)

\* payment:<session>:<repayment>
PaymentJob(r) == Direct(r)

\* Without a session, a webhook URL or a secret nothing at all is sent, not to
\* the registered webhooks either.
HasWebhook(r) ==
    repayment[r].session # NoSession /\ session[repayment[r].session].webhook

\* handlePaymentReceived, up to its first await and after it.
handlePaymentReceived(r) ==
    \/ /\ r \in notices
       /\ notices' = notices \ {r}
       /\ IF HasWebhook(r)
          THEN /\ handling' = handling \cup {r}
               /\ Add(PaymentJob(r))
          ELSE UNCHANGED <<handling, job>>
       /\ UNCHANGED <<loan, shown, session, repayment, tx, overtaken, aborted>>
       /\ UNCHANGED <<rowVars, fanout, adding, sweep, stalled, pc, seen, rate, posts, boundVars>>
    \/ /\ r \in handling
       /\ triggerEvent(r)
       /\ handling' = handling \ {r}
       /\ UNCHANGED loanVars

\* A crash ends open transactions and loses the events not yet queued.
ServerCrash ==
    /\ Crash
    /\ tx' = [r \in Repayments |-> Nothing]
    /\ overtaken' = {}
    /\ aborted' = aborted \cup {r \in Repayments : tx[r] # Nothing}
    /\ notices' = {}
    /\ handling' = {}
    /\ UNCHANGED <<loan, shown, session, repayment>>

\* What the server does of itself: jobs, queueing and the events it raised.
ServerStep ==
    \/ DeliverStep /\ UNCHANGED <<loanVars, handling>>
    \/ \E r \in Repayments : handlePaymentReceived(r)

MinutesPass == (\E w \in Webhooks : NextWindow(w)) /\ UNCHANGED <<loanVars, handling>>

Next ==
    \/ LoanStep /\ UNCHANGED <<hookVars, handling>>
    \/ WebhookStep /\ UNCHANGED <<loanVars, handling>>
    \/ ServerStep
    \/ MinutesPass
    \/ ServerCrash

Spec == Init /\ [][Next]_vars

\* The server does not stop while it has something to do, and time passes.
\* Nothing more is needed: no job is preferred, and nobody is bound to pay,
\* register or sweep.
Fairness == WF_vars(ServerStep) /\ WF_vars(MinutesPass)

FairSpec == Spec /\ Fairness

----------------------------------------------------------------------------
(* Properties *)

\* Every payment made through a session with a webhook is posted to it, if the
\* server suffers no fault: neither the events of two payments nor their jobs
\* swallow each other.
PaymentsArePosted ==
    []<>(faults = 0 =>
           \A r \in Repayments : repayment[r] # Nothing /\ HasWebhook(r) => posts[r] = 1)

=============================================================================
