---------------------------- MODULE LoanService ----------------------------
(***************************************************************************)
(* Loans, payment sessions and repayments in the server's database         *)
(* (server/src/services/loan.service.ts).  A repayment is recorded in a    *)
(* serialisable transaction: what it reads is fixed when it begins, and    *)
(* the database aborts it when another one on the same loan has committed  *)
(* since.  Clients hear of a new status by a broadcast made inside the     *)
(* transaction.  Parties, assets, URLs and dates are left out, and         *)
(* DEFAULTED, which nothing in the server sets.                            *)
(***************************************************************************)
EXTENDS Naturals, FiniteSets, FiniteSetsExt

CONSTANTS
    Loans,
    Amounts,          \* amounts of loans, collaterals and repayments
    MaxSessions,      \* bound: payment sessions
    Repayments        \* requests to record a repayment

\* parsePositiveDecimal: no amount is zero.
ASSUME LoanAssumption ==
    /\ Amounts \subseteq Nat \ {0}
    /\ MaxSessions \in Nat
    /\ IsFiniteSet(Repayments)
    /\ "none" \notin Loans

VARIABLES
    loan,             \* status and amount
    shown,            \* the last status broadcast for the loan
    session,          \* payment sessions, numbered as they are created
    repayment,        \* the repayment a request committed
    tx,               \* what a transaction under way will write
    overtaken,        \* transactions that a commit on their loan conflicts with
    aborted,          \* requests that were aborted
    notices           \* PaymentReceived events raised and not yet handled

loanVars == <<loan, shown, session, repayment, tx, overtaken, aborted, notices>>

Sessions == 1 .. MaxSessions
LoanStatuses == {"none", "PENDING", "ACTIVE", "REPAID"}
NoSession == 0
Nothing == [loan |-> "none", amount |-> 0, session |-> NoSession]

\* Mutated forms of definitions below.
Conflicts_ReadCommitted(r) == FALSE
Broadcast_Old(l, status) == shown' = [shown EXCEPT ![l] = loan[l].status]
Payable_Any(l, s) == session[s].status # "none"

RepaidOf(l) == {r \in Repayments : repayment[r].loan = l}
RepaidAmounts == [r \in Repayments |-> repayment[r].amount]
totalRepaid(l) == SumFunctionOnSet(RepaidAmounts, RepaidOf(l))
Outstanding(l) == loan[l].amount - totalRepaid(l)

Payable(l, s) == session[s].loan = l /\ session[s].status = "PENDING"

\* The session with the token the request names, or the newest pending one.
selectedPaymentSession(l, token) ==
    IF token = NoSession
    THEN Max({s \in Sessions : Payable(l, s)} \cup {NoSession})
    ELSE IF Payable(l, token) THEN token ELSE NoSession

NextStatus(l, left) ==
    CASE left = 0 -> "REPAID"
      [] left # 0 /\ loan[l].status = "PENDING" -> "ACTIVE"
      [] OTHER -> loan[l].status

Conflicts(r) == r \in overtaken

Broadcast(l, status) == shown' = [shown EXCEPT ![l] = status]

LoanInit ==
    /\ loan = [l \in Loans |-> [status |-> "none", amount |-> 0]]
    /\ shown = [l \in Loans |-> "none"]
    /\ session = [s \in Sessions |->
                    [loan |-> "none", status |-> "none", webhook |-> FALSE, repayment |-> "none"]]
    /\ repayment = [r \in Repayments |-> Nothing]
    /\ tx = [r \in Repayments |-> Nothing]
    /\ overtaken = {}
    /\ aborted = {}
    /\ notices = {}

\* MIN_COLLATERAL_RATIO is 1.5.
issueLoan(l, amount, collateralAmt) ==
    /\ loan[l].status = "none"
    /\ 2 * collateralAmt >= 3 * amount
    /\ loan' = [loan EXCEPT ![l] = [status |-> "PENDING", amount |-> amount]]
    /\ shown' = [shown EXCEPT ![l] = "PENDING"]
    /\ UNCHANGED <<session, repayment, tx, overtaken, aborted, notices>>

\* webhook: the session has a webhook URL and a secret to sign with.
createPayment(l, webhook) ==
    /\ loan[l].status # "none"
    /\ Outstanding(l) > 0
    /\ \E s \in Sessions :
         /\ session[s].status = "none"
         /\ \A earlier \in 1 .. s - 1 : session[earlier].status # "none"
         /\ session' = [session EXCEPT ![s] =
                [loan |-> l, status |-> "PENDING", webhook |-> webhook, repayment |-> "none"]]
    /\ UNCHANGED <<loan, shown, repayment, tx, overtaken, aborted, notices>>

\* recordRepayment up to the commit: reads, checks, writes nobody sees yet, and
\* the broadcast everybody sees.
BeginRepayment(r, l, amount, token) ==
    LET status == NextStatus(l, Outstanding(l) - amount)
    IN /\ tx[r] = Nothing /\ repayment[r] = Nothing /\ r \notin aborted
       /\ loan[l].status # "none"
       /\ Outstanding(l) > 0
       /\ amount <= Outstanding(l)
       /\ tx' = [tx EXCEPT ![r] =
             [loan |-> l, amount |-> amount, session |-> selectedPaymentSession(l, token)]]
       /\ IF status # loan[l].status THEN Broadcast(l, status) ELSE UNCHANGED shown
       /\ UNCHANGED <<loan, session, repayment, overtaken, aborted, notices>>

\* The transaction's writes appear at once, and the event is raised without
\* waiting for its handling.  outstandingBefore and the status are what the
\* transaction read, which for one without a conflict is what they are now.
CommitRepayment(r) ==
    LET t == tx[r]
        l == t.loan
    IN /\ t # Nothing
       /\ ~Conflicts(r)
       /\ repayment' = [repayment EXCEPT ![r] = t]
       /\ loan' = [loan EXCEPT ![l].status = NextStatus(l, Outstanding(l) - t.amount)]
       /\ session' = [s \in Sessions |->
              IF s = t.session
              THEN [session[s] EXCEPT !.status = "COMPLETED", !.repayment = r]
              ELSE session[s]]
       /\ tx' = [tx EXCEPT ![r] = Nothing]
       /\ overtaken' = overtaken \cup {o \in Repayments \ {r} : tx[o].loan = l}
       /\ notices' = notices \cup {r}
       /\ UNCHANGED <<shown, aborted>>

\* A serialisation failure or any other error: nothing was written.  The code
\* does not try again.
AbortRepayment(r) ==
    /\ tx[r] # Nothing
    /\ tx' = [tx EXCEPT ![r] = Nothing]
    /\ overtaken' = overtaken \ {r}
    /\ aborted' = aborted \cup {r}
    /\ UNCHANGED <<loan, shown, session, repayment, notices>>

recordRepayment(r, l, amount, token) ==
    \/ BeginRepayment(r, l, amount, token)
    \/ CommitRepayment(r)
    \/ AbortRepayment(r)

LoanStep ==
    \/ \E l \in Loans, amount, collateralAmt \in Amounts : issueLoan(l, amount, collateralAmt)
    \/ \E l \in Loans, webhook \in BOOLEAN : createPayment(l, webhook)
    \/ \E r \in Repayments, l \in Loans, amount \in Amounts, token \in {NoSession} \cup Sessions :
         recordRepayment(r, l, amount, token)

----------------------------------------------------------------------------
(* Properties *)

\* Repayments recorded at the same time never add up to more than the loan, and
\* the loan is REPAID exactly when they add up to it (recordRepayment).
NeverOverpaid ==
    \A l \in Loans :
       /\ totalRepaid(l) <= loan[l].amount
       /\ loan[l].status # "none" =>
            (loan[l].status = "REPAID" <=> totalRepaid(l) = loan[l].amount)

\* A payment session is completed by one repayment of its loan, which records
\* it; a repayment that chose a session has completed it.
SessionsMatchRepayments ==
    /\ \A s \in Sessions :
         session[s].status = "COMPLETED" => repayment[session[s].repayment].session = s
    /\ \A r \in Repayments :
         LET s == repayment[r].session
         IN s # NoSession => session[s].repayment = r /\ session[s].loan = repayment[r].loan

\* The broadcast precedes the commit.  Once no transaction is open, and if none
\* was aborted, clients have been shown the status the loan has.
ShownIsCurrent ==
    aborted = {} /\ (\A r \in Repayments : tx[r] = Nothing) =>
       \A l \in Loans : shown[l] = loan[l].status
====
