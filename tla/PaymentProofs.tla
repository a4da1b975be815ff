---------------------------- MODULE PaymentProofs ----------------------------
(***************************************************************************)
(* Proofs about loans, repayments and webhook deliveries, for any number   *)
(* of loans, sessions, webhooks and concurrent requests, within the whole  *)
(* of PaymentNotifications: events, faults, sweeps and crashes included.   *)
(***************************************************************************)
EXTENDS PaymentNotifications, CountingTheorems

(* What a transaction under way has read still holds, unless the database    *)
(* has marked it: that is what a serialisable transaction gives, and the     *)
(* invariants of the loans rest on it.                                       *)

LoanTypeOK ==
    /\ loan \in [Loans -> [status : LoanStatuses, amount : Nat]]
    /\ shown \in [Loans -> LoanStatuses]
    /\ session \in [Sessions -> [loan : Loans \cup {"none"}, status : {"none", "PENDING", "COMPLETED"},
                                 webhook : BOOLEAN, repayment : Repayments \cup {"none"}]]
    /\ repayment \in [Repayments -> [loan : Loans \cup {"none"}, amount : Nat,
                                     session : Sessions \cup {NoSession}]]
    /\ tx \in [Repayments -> [loan : Loans \cup {"none"}, amount : Nat,
                              session : Sessions \cup {NoSession}]]
    /\ overtaken \subseteq Repayments /\ aborted \subseteq Repayments

\* A loan, and the repayments recorded for it.
LoanSound(l) ==
    /\ loan[l].status = "none" => loan[l].amount = 0 /\ RepaidOf(l) = {}
    /\ loan[l].status # "none" => loan[l].amount > 0
    /\ totalRepaid(l) <= loan[l].amount
    /\ loan[l].status # "none" => (loan[l].status = "REPAID" <=> totalRepaid(l) = loan[l].amount)

\* A repayment that is recorded, and the session it completed.
RepaymentSound(r) ==
    LET s == repayment[r].session
    IN s # NoSession => /\ session[s].status = "COMPLETED"
                        /\ session[s].repayment = r /\ session[s].loan = repayment[r].loan

SessionSound(s) ==
    session[s].status = "COMPLETED" =>
      session[s].repayment \in Repayments /\ repayment[session[s].repayment].session = s

\* A transaction under way, which is of a request that has recorded nothing.
TxSound(r) ==
    tx[r] # Nothing =>
      /\ tx[r].loan \in Loans /\ tx[r].amount > 0 /\ repayment[r] = Nothing
      /\ loan[tx[r].loan].status # "none"
      /\ r \notin overtaken =>
           /\ tx[r].amount <= Outstanding(tx[r].loan)
           /\ tx[r].session # NoSession => Payable(tx[r].loan, tx[r].session)

\* The transactions under way on a loan; what clients are shown is settled when
\* there is none, and foreseen when there is one that can still commit.
Open(l) == {r \in Repayments : tx[r].loan = l}

ShownSound(l) ==
    aborted = {} =>
      /\ Open(l) = {} => shown[l] = loan[l].status
      /\ \A r \in Repayments \ overtaken :
           Open(l) = {r} => shown[l] = NextStatus(l, Outstanding(l) - tx[r].amount)

LoanInv ==
    /\ LoanTypeOK
    /\ \A l \in Loans : LoanSound(l) /\ ShownSound(l)
    /\ \A s \in Sessions : SessionSound(s)
    /\ \A r \in Repayments : RepaymentSound(r) /\ TxSound(r)

----------------------------------------------------------------------------
(* What has been repaid *)

LEMMA TotalIsNumber ==
    ASSUME LoanTypeOK, NEW l \in Loans
    PROVE  totalRepaid(l) \in Int
<1>1. IsFiniteSet(RepaidOf(l)) /\ RepaidOf(l) \subseteq Repayments
    BY LoanAssumption, FS_Subset DEF RepaidOf
<1>2. \A r \in RepaidOf(l) : RepaidAmounts[r] \in Int
    BY <1>1 DEF RepaidAmounts, LoanTypeOK
<1> QED
    BY <1>1, <1>2, SumInt DEF totalRepaid

\* A step that records no repayment of the loan, and none that begins or ends one.
RepaidKept(l) ==
    \A r \in Repayments : \/ repayment'[r] = repayment[r]
                          \/ repayment[r].loan # l /\ repayment'[r].loan # l
TxKept(l) ==
    \A r \in Repayments : tx'[r] = tx[r] \/ (tx[r].loan # l /\ tx'[r].loan # l)

LEMMA AllKept ==
    /\ repayment' = repayment => \A l \in Loans : RepaidKept(l)
    /\ tx' = tx => \A l \in Loans : TxKept(l)
<1>1. ASSUME repayment' = repayment, NEW l \in Loans PROVE RepaidKept(l)
    BY <1>1 DEF RepaidKept
<1>2. ASSUME tx' = tx, NEW l \in Loans PROVE TxKept(l)
    BY <1>2 DEF TxKept
<1> QED
    BY <1>1, <1>2

\* Repayments of other loans do not count.
LEMMA TotalSame ==
    ASSUME LoanTypeOK, NEW l \in Loans, RepaidKept(l)
    PROVE  totalRepaid(l)' = totalRepaid(l) /\ RepaidOf(l)' = RepaidOf(l)
<1> DEFINE S == RepaidOf(l)
           f == RepaidAmounts
           g == RepaidAmounts'
<1>1. RepaidOf(l)' = S
    BY DEF RepaidOf, RepaidKept
<1>2. IsFiniteSet(S) /\ \A r \in S : f[r] = g[r]
    BY LoanAssumption, FS_Subset DEF RepaidOf, RepaidAmounts, RepaidKept
<1>3. totalRepaid(l) = SumFunctionOnSet(f, S) /\ totalRepaid(l)' = SumFunctionOnSet(g, S)
    BY <1>1 DEF totalRepaid
<1> HIDE DEF S, f, g
<1>4. SumFunctionOnSet(f, S) = SumFunctionOnSet(g, S)
    BY <1>2, SumSame
<1> QED
    BY <1>1, <1>3, <1>4 DEF S

\* A repayment that is recorded adds its amount.
LEMMA TotalAdds ==
    ASSUME LoanTypeOK, NEW r \in Repayments, repayment[r] = Nothing,
           NEW l \in Loans, tx[r].loan = l, repayment' = [repayment EXCEPT ![r] = tx[r]]
    PROVE  totalRepaid(l)' = totalRepaid(l) + tx[r].amount
<1> DEFINE S == RepaidOf(l)
           f == RepaidAmounts
           g == RepaidAmounts'
<1>0. \A q \in Repayments : repayment'[q] = IF q = r THEN tx[r] ELSE repayment[q]
    BY DEF LoanTypeOK
<1>1. r \notin S /\ RepaidOf(l)' = S \cup {r}
  <2>1. repayment[r].loan = "none"
      BY DEF Nothing
  <2> QED
      BY <1>0, <2>1, LoanAssumption DEF RepaidOf
<1>2. IsFiniteSet(S) /\ S \subseteq Repayments
    BY LoanAssumption, FS_Subset DEF RepaidOf
<1>3. /\ \A q \in S : f[q] = g[q]
      /\ \A q \in S \cup {r} : g[q] \in Int
      /\ g[r] = tx[r].amount
    BY <1>0, <1>1, <1>2 DEF RepaidAmounts, LoanTypeOK
<1>4. totalRepaid(l) = SumFunctionOnSet(f, S) /\ totalRepaid(l)' = SumFunctionOnSet(g, S \cup {r})
    BY <1>1 DEF totalRepaid
<1> HIDE DEF S, f, g
<1>5. SumFunctionOnSet(g, S \cup {r}) = g[r] + SumFunctionOnSet(g, S)
    BY <1>1, <1>2, <1>3, SumAdd
<1>6. SumFunctionOnSet(f, S) = SumFunctionOnSet(g, S)
    BY <1>2, <1>3, SumSame
<1>7. SumFunctionOnSet(g, S) \in Int
    BY <1>2, <1>3, SumInt
<1>8. tx[r].amount \in Nat
    BY DEF LoanTypeOK
<1> QED
    BY <1>3, <1>4, <1>5, <1>6, <1>7, <1>8

\* The newest of some sessions is one of them.
LEMMA NewestIsOne ==
    ASSUME NEW S \in SUBSET (Sessions \cup {NoSession}), NoSession \in S
    PROVE  Max(S) \in S
<1> DEFINE Above == {n \in Nat : \A m \in S : m <= n}
<1>1. \A m \in S : m \in Nat /\ m <= MaxSessions
    BY LoanAssumption DEF Sessions, NoSession
<1>2. MaxSessions \in Above
    BY <1>1, LoanAssumption
<1>3. PICK n \in Above : \A m \in Above : n <= m
    BY <1>2, LeastNumber
<1>4. n \in S
  <2> SUFFICES ASSUME n \notin S PROVE FALSE
      OBVIOUS
  <2>1. \A m \in S : m <= n /\ m # n
      OBVIOUS
  <2>2. n # 0
      BY <2>1 DEF NoSession
  <2>3. n - 1 \in Above
      BY <1>1, <2>1, <2>2
  <2> QED
      BY <1>3, <2>3
<1>5. \E x \in S : \A y \in S : x >= y
    BY <1>1, <1>4
<1> QED
    BY <1>5 DEF Max

LEMMA SelectedIsPayable ==
    ASSUME NEW l \in Loans, NEW token \in {NoSession} \cup Sessions
    PROVE  LET s == selectedPaymentSession(l, token)
           IN s \in Sessions \cup {NoSession} /\ (s # NoSession => Payable(l, s))
<1>1. CASE token = NoSession
  <2> DEFINE S == {s \in Sessions : Payable(l, s)} \cup {NoSession}
  <2>1. S \in SUBSET (Sessions \cup {NoSession}) /\ NoSession \in S
      OBVIOUS
  <2>2. selectedPaymentSession(l, token) = Max(S)
      BY <1>1 DEF selectedPaymentSession
  <2> HIDE DEF S
  <2>3. Max(S) \in S
      BY <2>1, NewestIsOne
  <2> QED
      BY <2>2, <2>3 DEF S
<1>2. CASE token # NoSession
    BY <1>2 DEF selectedPaymentSession
<1> QED
    BY <1>1, <1>2

----------------------------------------------------------------------------
(* Steps *)

\* A loan that a step does not touch.
LEMMA LoanFrame ==
    ASSUME LoanInv, NEW l \in Loans, loan'[l] = loan[l], shown'[l] = shown[l],
           RepaidKept(l), TxKept(l), overtaken \subseteq overtaken', aborted' = aborted
    PROVE  (LoanSound(l) /\ ShownSound(l))'
<1>1. LoanTypeOK /\ LoanSound(l) /\ ShownSound(l)
    BY DEF LoanInv
<1>2. totalRepaid(l)' = totalRepaid(l) /\ RepaidOf(l)' = RepaidOf(l)
    BY <1>1, TotalSame
<1>3. LoanSound(l)'
    BY <1>1, <1>2 DEF LoanSound
<1>4. Open(l)' = Open(l) /\ \A r \in Open(l) : tx'[r] = tx[r]
    BY DEF Open, TxKept
<1>5. ASSUME NEW r \in Repayments, r \notin overtaken', Open(l)' = {r}, aborted' = {}
      PROVE  shown'[l] = NextStatus(l, Outstanding(l) - tx[r].amount)'
    BY <1>1, <1>2, <1>4, <1>5 DEF ShownSound, NextStatus, Outstanding
<1>6. ShownSound(l)'
    BY <1>1, <1>4, <1>5 DEF ShownSound
<1> QED
    BY <1>3, <1>6

\* A transaction that a step does not touch.
LEMMA TxFrame ==
    ASSUME LoanInv, NEW r \in Repayments, tx'[r] = tx[r], repayment'[r] = repayment[r],
           tx[r] # Nothing => loan'[tx[r].loan].status # "none",
           r \notin overtaken' =>
             /\ r \notin overtaken
             /\ tx[r] # Nothing => Outstanding(tx[r].loan)' = Outstanding(tx[r].loan)
             /\ tx[r] # Nothing /\ tx[r].session # NoSession /\ Payable(tx[r].loan, tx[r].session) =>
                  session'[tx[r].session] = session[tx[r].session]
    PROVE  TxSound(r)'
<1>1. TxSound(r)
    BY DEF LoanInv
<1> QED
    BY <1>1 DEF TxSound, Payable

LEMMA LoanUnchanged ==
    ASSUME LoanInv, UNCHANGED <<loan, shown, session, repayment, tx, overtaken, aborted>>
    PROVE  LoanInv'
<1>1. LoanTypeOK /\ LoanTypeOK'
    BY DEF LoanInv, LoanTypeOK
<1>2. \A l \in Loans : (LoanSound(l) /\ ShownSound(l))'
    BY LoanFrame, AllKept
<1>3. \A s \in Sessions : SessionSound(s)'
    BY DEF LoanInv, SessionSound
<1>4. ASSUME NEW r \in Repayments PROVE (RepaymentSound(r) /\ TxSound(r))'
  <2>1. RepaymentSound(r) /\ TxSound(r)
      BY DEF LoanInv
  <2>2. RepaymentSound(r)'
      BY <2>1 DEF RepaymentSound
  <2>3. tx[r] # Nothing => Outstanding(tx[r].loan)' = Outstanding(tx[r].loan)
      BY <1>1, <2>1, TotalSame, AllKept DEF Outstanding, TxSound
  <2> QED
      BY <2>1, <2>2, <2>3, TxFrame DEF TxSound
<1> QED
    BY <1>1, <1>2, <1>3, <1>4 DEF LoanInv

\* A loan that is not there has no transaction under way.
LEMMA NoLoanNoTx ==
    ASSUME LoanInv, NEW l \in Loans, NEW r \in Repayments
    PROVE  /\ tx[r].loan = l => tx[r] # Nothing /\ loan[l].status # "none"
           /\ tx[r] # Nothing => tx[r].loan \in Loans
    BY LoanAssumption DEF LoanInv, TxSound, Nothing

LEMMA IssueKeeps ==
    ASSUME LoanInv, NEW l \in Loans, NEW amount \in Amounts, NEW collateralAmt \in Amounts,
           issueLoan(l, amount, collateralAmt)
    PROVE  LoanInv'
<1>1. LoanTypeOK /\ amount \in Nat /\ amount > 0
    BY LoanAssumption DEF LoanInv
<1>2. /\ loan[l].status = "none"
      /\ loan' = [loan EXCEPT ![l] = [status |-> "PENDING", amount |-> amount]]
      /\ shown' = [shown EXCEPT ![l] = "PENDING"]
      /\ UNCHANGED <<session, repayment, tx, overtaken, aborted>>
    BY DEF issueLoan
<1>3. LoanTypeOK'
    BY <1>1, <1>2 DEF LoanTypeOK, LoanStatuses
<1>4. \A k \in Loans \ {l} : (LoanSound(k) /\ ShownSound(k))'
  <2>1. \A k \in Loans \ {l} : loan'[k] = loan[k] /\ shown'[k] = shown[k]
      BY <1>1, <1>2 DEF LoanTypeOK
  <2> QED
      BY <1>2, <2>1, LoanFrame, AllKept
<1>5. loan'[l].status = "PENDING" /\ loan'[l].amount = amount /\ shown'[l] = "PENDING"
    BY <1>1, <1>2 DEF LoanTypeOK
<1>6. LoanSound(l)'
  <2>1. RepaidOf(l) = {} /\ RepaidOf(l)' = {}
      BY <1>1, <1>2, TotalSame, AllKept DEF LoanInv, LoanSound
  <2>2. totalRepaid(l)' = 0
      BY <2>1, SumEmpty DEF totalRepaid
  <2> QED
      BY <1>1, <1>5, <2>1, <2>2 DEF LoanSound
<1>7. ShownSound(l)'
  <2>1. Open(l) = {} /\ Open(l)' = {}
      BY <1>2, NoLoanNoTx DEF Open
  <2> QED
      BY <1>5, <2>1 DEF ShownSound
<1>8. \A s \in Sessions : SessionSound(s)'
    BY <1>2 DEF LoanInv, SessionSound
<1>9. ASSUME NEW r \in Repayments PROVE (RepaymentSound(r) /\ TxSound(r))'
  <2>1. RepaymentSound(r)'
      BY <1>2 DEF LoanInv, RepaymentSound
  <2>2. tx[r] # Nothing => tx[r].loan \in Loans \ {l} /\ loan[tx[r].loan].status # "none"
      BY <1>2, NoLoanNoTx
  <2>3. tx[r] # Nothing => loan'[tx[r].loan] = loan[tx[r].loan]
      BY <1>1, <1>2, <2>2 DEF LoanTypeOK
  <2>4. tx[r] # Nothing => Outstanding(tx[r].loan)' = Outstanding(tx[r].loan)
      BY <1>1, <1>2, <2>2, <2>3, TotalSame, AllKept DEF Outstanding
  <2> QED
      BY <1>2, <2>1, <2>2, <2>3, <2>4, TxFrame
<1> QED
    BY <1>3, <1>4, <1>6, <1>7, <1>8, <1>9 DEF LoanInv

LEMMA CreatePaymentKeeps ==
    ASSUME LoanInv, NEW l \in Loans, NEW webhook \in BOOLEAN, createPayment(l, webhook)
    PROVE  LoanInv'
<1>1. LoanTypeOK
    BY DEF LoanInv
<1>2. UNCHANGED <<loan, shown, repayment, tx, overtaken, aborted>>
    BY DEF createPayment
<1>3. PICK s \in Sessions :
        /\ session[s].status = "none"
        /\ session' = [session EXCEPT ![s] =
             [loan |-> l, status |-> "PENDING", webhook |-> webhook, repayment |-> "none"]]
    BY DEF createPayment
<1>4. LoanTypeOK'
    BY <1>1, <1>2, <1>3 DEF LoanTypeOK
<1>5. session'[s].status = "PENDING" /\ \A q \in Sessions \ {s} : session'[q] = session[q]
    BY <1>1, <1>3 DEF LoanTypeOK
<1>6. \A k \in Loans : (LoanSound(k) /\ ShownSound(k))'
    BY <1>2, LoanFrame, AllKept
<1>7. \A q \in Sessions : SessionSound(q)'
    BY <1>2, <1>5 DEF LoanInv, SessionSound
<1>8. ASSUME NEW r \in Repayments PROVE (RepaymentSound(r) /\ TxSound(r))'
  <2>1. RepaymentSound(r) /\ TxSound(r) /\ repayment[r].session \in Sessions \cup {NoSession}
        /\ tx[r].session \in Sessions \cup {NoSession}
      BY <1>1 DEF LoanInv, LoanTypeOK
  <2>2. RepaymentSound(r)'
      BY <1>2, <1>3, <1>5, <2>1 DEF RepaymentSound
  <2>3. tx[r] # Nothing => Outstanding(tx[r].loan)' = Outstanding(tx[r].loan)
      BY <1>1, <1>2, <2>1, TotalSame, AllKept DEF Outstanding, TxSound
  <2>4. tx[r].session # NoSession /\ Payable(tx[r].loan, tx[r].session) =>
          session'[tx[r].session] = session[tx[r].session]
      BY <1>3, <1>5, <2>1 DEF Payable
  <2>5. tx[r] # Nothing => loan'[tx[r].loan].status # "none"
      BY <1>2, <2>1 DEF TxSound
  <2> QED
      BY <1>2, <2>2, <2>3, <2>4, <2>5, TxFrame
<1> QED
    BY <1>4, <1>6, <1>7, <1>8 DEF LoanInv

LEMMA BeginKeeps ==
    ASSUME LoanInv, NEW r \in Repayments, NEW l \in Loans, NEW amount \in Amounts,
           NEW token \in {NoSession} \cup Sessions, BeginRepayment(r, l, amount, token)
    PROVE  LoanInv'
<1> DEFINE s == selectedPaymentSession(l, token)
           status == NextStatus(l, Outstanding(l) - amount)
<1>1. LoanTypeOK /\ amount \in Nat /\ amount > 0
    BY LoanAssumption DEF LoanInv
<1>2. /\ tx[r] = Nothing /\ repayment[r] = Nothing /\ loan[l].status # "none"
      /\ amount <= Outstanding(l)
      /\ tx' = [tx EXCEPT ![r] = [loan |-> l, amount |-> amount, session |-> s]]
      /\ UNCHANGED <<loan, session, repayment, overtaken, aborted>>
    BY DEF BeginRepayment
<1>3. /\ \A k \in Loans \ {l} : shown'[k] = shown[k]
      /\ shown'[l] = IF status # loan[l].status THEN status ELSE shown[l]
    BY <1>1 DEF BeginRepayment, Broadcast, LoanTypeOK
<1>4. s \in Sessions \cup {NoSession} /\ (s # NoSession => Payable(l, s))
    BY SelectedIsPayable
<1>5. status \in LoanStatuses
    BY <1>1 DEF NextStatus, LoanStatuses, LoanTypeOK
<1>6. LoanTypeOK'
  <2>1. shown' \in [Loans -> LoanStatuses]
      BY <1>1, <1>5 DEF BeginRepayment, Broadcast, LoanTypeOK
  <2> HIDE DEF s
  <2> QED
      BY <1>1, <1>2, <1>4, <2>1 DEF LoanTypeOK
<1>7. /\ \A q \in Repayments \ {r} : tx'[q] = tx[q]
      /\ tx'[r].loan = l /\ tx'[r].amount = amount /\ tx'[r].session = s
    BY <1>1, <1>2 DEF LoanTypeOK
<1> HIDE DEF s, status
<1>8. \A k \in Loans : totalRepaid(k)' = totalRepaid(k) /\ RepaidOf(k)' = RepaidOf(k)
    BY <1>1, <1>2, TotalSame, AllKept
<1>9. ASSUME NEW k \in Loans, k # l
      PROVE  (LoanSound(k) /\ ShownSound(k))'
  <2>1. TxKept(k)
    <3>1. tx[r].loan # k
        BY <1>2, LoanAssumption DEF Nothing
    <3> QED
        BY <1>7, <1>9, <3>1 DEF TxKept
  <2> QED
      BY <1>2, <1>3, <1>9, <2>1, LoanFrame, AllKept
<1>10. LoanSound(l)'
    BY <1>2, <1>8 DEF LoanInv, LoanSound
<1>11. ShownSound(l)'
  <2> SUFFICES ASSUME aborted = {}
               PROVE  /\ Open(l)' = {} => shown'[l] = loan'[l].status
                      /\ \A q \in Repayments \ overtaken' : Open(l)' = {q} =>
                           shown'[l] = NextStatus(l, Outstanding(l) - tx[q].amount)'
      BY <1>2 DEF ShownSound
  <2>1. r \in Open(l)'
      BY <1>7 DEF Open
  <2>2. ASSUME NEW q \in Repayments \ overtaken', Open(l)' = {q}
        PROVE  shown'[l] = NextStatus(l, Outstanding(l) - tx[q].amount)'
    <3>1. q = r /\ Open(l) = {}
      <4>1. q = r
          BY <2>1, <2>2
      <4>2. tx[r].loan # l
          BY <1>2, LoanAssumption DEF Nothing
      <4> QED
          BY <1>7, <2>2, <4>1, <4>2 DEF Open
    <3>2. shown[l] = loan[l].status
        BY <3>1 DEF LoanInv, ShownSound
    <3>3. NextStatus(l, Outstanding(l) - tx[q].amount)' = status
        BY <1>2, <1>7, <1>8, <3>1 DEF NextStatus, Outstanding, status
    <3> QED
        BY <1>3, <3>2, <3>3
  <2> QED
      BY <2>1, <2>2
<1>12. \A q \in Sessions : SessionSound(q)'
    BY <1>2 DEF LoanInv, SessionSound
<1>13. ASSUME NEW q \in Repayments PROVE (RepaymentSound(q) /\ TxSound(q))'
  <2>1. RepaymentSound(q)'
      BY <1>2 DEF LoanInv, RepaymentSound
  <2>2. \A k \in Loans : Outstanding(k)' = Outstanding(k)
      BY <1>2, <1>8 DEF Outstanding
  <2>3. CASE q = r
    <3>1. /\ tx'[q].loan = l /\ tx'[q].amount = amount /\ tx'[q].session = s
          /\ repayment'[q] = Nothing /\ loan'[l].status # "none" /\ Outstanding(l)' = Outstanding(l)
        BY <1>2, <1>7, <2>2, <2>3
    <3>2. Outstanding(tx[q].loan)' = Outstanding(l)
        BY <3>1 DEF Outstanding
    <3>3. s # NoSession => Payable(tx[q].loan, tx[q].session)'
        BY <1>2, <1>4, <3>1 DEF Payable
    <3> QED
        BY <1>1, <1>2, <2>1, <3>1, <3>2, <3>3 DEF TxSound
  <2>4. CASE q # r
    <3>1. tx[q] # Nothing => tx[q].loan \in Loans /\ loan[tx[q].loan].status # "none"
        BY DEF LoanInv, TxSound
    <3>2. tx'[q] = tx[q] /\ repayment'[q] = repayment[q]
        BY <1>2, <1>7, <2>4
    <3>3. tx[q] # Nothing => Outstanding(tx[q].loan)' = Outstanding(tx[q].loan)
        BY <2>2, <3>1, <3>2
    <3>4. tx[q] # Nothing => loan'[tx[q].loan].status # "none"
        BY <1>2, <3>1
    <3> QED
        BY <1>2, <2>1, <3>2, <3>3, <3>4, TxFrame
  <2> QED
      BY <2>3, <2>4
<1> QED
    BY <1>6, <1>9, <1>10, <1>11, <1>12, <1>13 DEF LoanInv

LEMMA CommitKeeps ==
    ASSUME LoanInv, NEW r \in Repayments, CommitRepayment(r)
    PROVE  LoanInv'
<1> DEFINE before == loan
<1>1. LoanTypeOK /\ tx[r] # Nothing /\ r \notin overtaken
    BY DEF LoanInv, CommitRepayment, Conflicts
<1>2. PICK l \in Loans : tx[r].loan = l
    BY <1>1 DEF LoanInv, TxSound
<1>3. PICK s \in Sessions \cup {NoSession} : tx[r].session = s
    BY <1>1 DEF LoanTypeOK
<1>4. PICK amount \in Nat : tx[r].amount = amount
    BY <1>1 DEF LoanTypeOK
<1>5. /\ amount > 0 /\ repayment[r] = Nothing /\ loan[l].status # "none"
      /\ amount <= Outstanding(l)
      /\ s # NoSession => session[s].loan = l /\ session[s].status = "PENDING"
    BY <1>1, <1>2, <1>3, <1>4 DEF LoanInv, TxSound, Payable
<1>6. /\ repayment' = [repayment EXCEPT ![r] = tx[r]]
      /\ loan' = [loan EXCEPT ![l].status = NextStatus(l, Outstanding(l) - amount)]
      /\ session' = [q \in Sessions |-> IF q = s
                        THEN [session[q] EXCEPT !.status = "COMPLETED", !.repayment = r]
                        ELSE session[q]]
      /\ tx' = [tx EXCEPT ![r] = Nothing]
      /\ overtaken' = overtaken \cup {o \in Repayments \ {r} : tx[o].loan = l}
      /\ UNCHANGED <<shown, aborted>>
    BY <1>2, <1>3, <1>4 DEF CommitRepayment
<1>7. PICK status : status = NextStatus(l, Outstanding(l) - amount)
    OBVIOUS
<1>8. status \in LoanStatuses
    BY <1>1, <1>7 DEF NextStatus, LoanStatuses, LoanTypeOK
<1>9. LoanTypeOK'
  <2> DEFINE Rows == [loan : Loans \cup {"none"}, status : {"none", "PENDING", "COMPLETED"},
                      webhook : BOOLEAN, repayment : Repayments \cup {"none"}]
  <2>1. loan' \in [Loans -> [status : LoanStatuses, amount : Nat]]
      BY <1>1, <1>6, <1>7, <1>8 DEF LoanTypeOK
  <2>2. session' \in [Sessions -> Rows]
    <3>1. ASSUME NEW q \in Sessions
          PROVE  [session[q] EXCEPT !.status = "COMPLETED", !.repayment = r] \in Rows
      <4>1. session[q] \in Rows
          BY <1>1 DEF LoanTypeOK
      <4> QED
          BY <4>1
    <3>2. session \in [Sessions -> Rows]
        BY <1>1 DEF LoanTypeOK
    <3> HIDE DEF Rows
    <3> QED
        BY <1>6, <3>1, <3>2
  <2>3. Nothing \in [loan : Loans \cup {"none"}, amount : Nat, session : Sessions \cup {NoSession}]
      BY DEF Nothing
  <2> QED
      BY <1>1, <1>6, <2>1, <2>2, <2>3 DEF LoanTypeOK
<1>10. /\ \A q \in Repayments \ {r} : repayment'[q] = repayment[q] /\ tx'[q] = tx[q]
       /\ repayment'[r] = tx[r] /\ tx'[r] = Nothing
    BY <1>1, <1>6 DEF LoanTypeOK
<1>11. /\ \A k \in Loans \ {l} : loan'[k] = loan[k]
       /\ loan'[l].status = status /\ loan'[l].amount = loan[l].amount
    BY <1>1, <1>6, <1>7 DEF LoanTypeOK
<1>12. /\ \A q \in Sessions : q # s => session'[q] = session[q]
       /\ s # NoSession => /\ session'[s].status = "COMPLETED" /\ session'[s].repayment = r
                           /\ session'[s].loan = l
    BY <1>1, <1>5, <1>6 DEF LoanTypeOK
<1>13. totalRepaid(l)' = totalRepaid(l) + amount
    BY <1>1, <1>2, <1>4, <1>5, <1>6, TotalAdds
<1>14. ASSUME NEW k \in Loans, k # l
       PROVE  RepaidKept(k) /\ TxKept(k)
  <2>1. Nothing.loan # k /\ repayment[r].loan # k
      BY <1>5, LoanAssumption DEF Nothing
  <2> QED
      BY <1>2, <1>10, <1>14, <2>1 DEF RepaidKept, TxKept
<1>15. ASSUME NEW k \in Loans, k # l
       PROVE  (LoanSound(k) /\ ShownSound(k))'
    BY <1>6, <1>11, <1>14, <1>15, LoanFrame
<1>16. totalRepaid(l) \in Int /\ loan[l].amount \in Nat /\ Outstanding(l) = loan[l].amount - totalRepaid(l)
    BY <1>1, TotalIsNumber DEF LoanTypeOK, Outstanding
<1>17. LoanSound(l)'
  <2>1. LoanSound(l)
      BY DEF LoanInv
  <2>2. status # "none" /\ (status = "REPAID" <=> Outstanding(l) = amount)
    <3>1. loan[l].status # "REPAID"
        BY <1>5, <1>16, <2>1 DEF LoanSound
    <3> QED
        BY <1>5, <1>7, <1>16, <3>1 DEF NextStatus
  <2> QED
      BY <1>5, <1>11, <1>13, <1>16, <2>1, <2>2 DEF LoanSound
<1>18. ShownSound(l)'
  <2> SUFFICES ASSUME aborted = {}
               PROVE  /\ Open(l)' = {} => shown'[l] = loan'[l].status
                      /\ \A q \in Repayments \ overtaken' : Open(l)' # {q}
      BY <1>6 DEF ShownSound
  <2>1. Nothing.loan # l
      BY LoanAssumption DEF Nothing
  <2>2. Open(l)' = Open(l) \ {r} /\ Open(l)' \subseteq overtaken'
      BY <1>2, <1>6, <1>10, <2>1 DEF Open
  <2>3. r \in Open(l)
      BY <1>2 DEF Open
  <2>4. ASSUME Open(l)' = {} PROVE shown'[l] = loan'[l].status
    <3>1. Open(l) = {r}
        BY <2>2, <2>3, <2>4
    <3>2. shown[l] = NextStatus(l, Outstanding(l) - tx[r].amount)
        BY <1>1, <3>1 DEF LoanInv, ShownSound
    <3> QED
        BY <1>4, <1>6, <1>7, <1>11, <3>2
  <2> QED
      BY <2>2, <2>4
<1>19. ASSUME NEW q \in Sessions PROVE SessionSound(q)'
  <2>1. SessionSound(q)
      BY DEF LoanInv
  <2>2. CASE q = s
    <3>1. s # NoSession
        BY <2>2 DEF NoSession, Sessions
    <3> QED
        BY <1>3, <1>10, <1>12, <2>2, <3>1 DEF SessionSound
  <2>3. CASE q # s
    <3>1. session'[q] = session[q]
        BY <1>12, <2>3
    <3>2. session[q].status = "COMPLETED" => session[q].repayment # r
      <4>1. repayment[r].session = NoSession /\ NoSession \notin Sessions
          BY <1>5 DEF Nothing, NoSession, Sessions
      <4> QED
          BY <2>1, <4>1 DEF SessionSound
    <3> QED
        BY <1>10, <2>1, <3>1, <3>2 DEF SessionSound
  <2> QED
      BY <2>2, <2>3
<1>20. ASSUME NEW q \in Repayments PROVE RepaymentSound(q)'
  <2>1. RepaymentSound(q) /\ repayment[q].session \in Sessions \cup {NoSession}
      BY <1>1 DEF LoanInv, LoanTypeOK
  <2>2. CASE q = r
      BY <1>2, <1>3, <1>10, <1>12, <2>2 DEF RepaymentSound
  <2>3. CASE q # r
    <3>1. repayment'[q] = repayment[q]
        BY <1>10, <2>3
    <3>2. repayment[q].session # NoSession => repayment[q].session # s
        BY <1>5, <2>1 DEF RepaymentSound
    <3>3. repayment[q].session # NoSession =>
            session'[repayment[q].session] = session[repayment[q].session]
        BY <1>12, <2>1, <3>2
    <3> QED
        BY <2>1, <3>1, <3>3 DEF RepaymentSound
  <2> QED
      BY <2>2, <2>3
<1>21. ASSUME NEW q \in Repayments PROVE TxSound(q)'
  <2>1. CASE q = r
      BY <1>10, <2>1 DEF TxSound
  <2>2. CASE q # r
    <3>1. tx'[q] = tx[q] /\ repayment'[q] = repayment[q]
        BY <1>10, <2>2
    <3>2. TxSound(q) /\ tx[q].session \in Sessions \cup {NoSession}
        BY <1>1 DEF LoanInv, LoanTypeOK
    <3>3. tx[q] # Nothing => loan'[tx[q].loan].status # "none"
      <4>1. status # "none"
          BY <1>5, <1>7 DEF NextStatus
      <4> QED
          BY <1>11, <3>2, <4>1 DEF TxSound
    <3>4. ASSUME q \notin overtaken', tx[q] # Nothing
          PROVE  /\ q \notin overtaken /\ tx[q].loan \in Loans \ {l}
      BY <1>6, <2>2, <3>2, <3>4 DEF TxSound
    <3>5. ASSUME q \notin overtaken', tx[q] # Nothing
          PROVE  Outstanding(tx[q].loan)' = Outstanding(tx[q].loan)
      <4>1. PICK k \in Loans \ {l} : tx[q].loan = k
          BY <3>4, <3>5
      <4>2. totalRepaid(k)' = totalRepaid(k) /\ loan'[k] = loan[k]
          BY <1>1, <1>11, <1>14, TotalSame
      <4>3. Outstanding(k)' = Outstanding(k)
          BY <4>2 DEF Outstanding
      <4> QED
          BY <3>1, <4>1, <4>3
    <3>6. ASSUME q \notin overtaken', tx[q] # Nothing, tx[q].session # NoSession,
                 Payable(tx[q].loan, tx[q].session)
          PROVE  session'[tx[q].session] = session[tx[q].session]
      <4>1. tx[q].session # s
          BY <1>5, <3>4, <3>6 DEF Payable
      <4> QED
          BY <1>12, <3>2, <3>6, <4>1
    <3>7. q \notin overtaken' => q \notin overtaken
        BY <1>6
    <3> QED
        BY <3>1, <3>3, <3>5, <3>6, <3>7, TxFrame
  <2> QED
      BY <2>1, <2>2
<1> QED
    BY <1>9, <1>15, <1>17, <1>18, <1>19, <1>20, <1>21 DEF LoanInv

\* Requests of the given set, and no others, end without a commit.
LEMMA AbortsKeep ==
    ASSUME LoanInv, NEW A \in SUBSET Repayments,
           A # {} \/ \A r \in Repayments : tx[r] = Nothing,
           \A r \in Repayments : tx'[r] = IF r \in A THEN Nothing ELSE tx[r],
           tx' \in [Repayments -> [loan : Loans \cup {"none"}, amount : Nat,
                                   session : Sessions \cup {NoSession}]],
           overtaken' \subseteq overtaken,
           \A r \in Repayments : tx'[r] # Nothing /\ r \in overtaken => r \in overtaken',
           aborted' = aborted \cup A, UNCHANGED <<loan, shown, session, repayment>>
    PROVE  LoanInv'
<1>1. LoanTypeOK /\ LoanTypeOK'
    BY DEF LoanInv, LoanTypeOK
<1>2. \A l \in Loans : totalRepaid(l)' = totalRepaid(l) /\ RepaidOf(l)' = RepaidOf(l)
    BY <1>1, TotalSame, AllKept
<1>3. \A l \in Loans : LoanSound(l)'
    BY <1>2 DEF LoanInv, LoanSound
<1>4. \A l \in Loans : ShownSound(l)'
  <2>1. CASE A # {}
    <3>1. aborted' # {}
        BY <2>1
    <3> QED
        BY <3>1 DEF ShownSound
  <2>2. CASE A = {}
    <3>1. \A l \in Loans : Open(l) = {} /\ Open(l)' = {}
        BY <2>2, LoanAssumption DEF Open, Nothing
    <3>2. aborted' = aborted
        BY <2>2
    <3> QED
        BY <3>1, <3>2 DEF LoanInv, ShownSound
  <2> QED
      BY <2>1, <2>2
<1>5. \A s \in Sessions : SessionSound(s)'
    BY DEF LoanInv, SessionSound
<1>6. \A r \in Repayments : RepaymentSound(r)'
    BY DEF LoanInv, RepaymentSound
<1>7. ASSUME NEW r \in Repayments PROVE TxSound(r)'
  <2>1. CASE tx'[r] = Nothing
      BY <2>1 DEF TxSound
  <2>2. CASE tx'[r] # Nothing
    <3>1. tx'[r] = tx[r] /\ (r \notin overtaken' => r \notin overtaken)
        BY <2>2
    <3>2. tx[r] # Nothing /\ tx[r].loan \in Loans /\ loan[tx[r].loan].status # "none"
        BY <2>2, <3>1 DEF LoanInv, TxSound
    <3>3. Outstanding(tx[r].loan)' = Outstanding(tx[r].loan)
        BY <1>2, <3>1, <3>2 DEF Outstanding
    <3> QED
        BY <3>1, <3>2, <3>3, TxFrame
  <2> QED
      BY <2>1, <2>2
<1> QED
    BY <1>1, <1>3, <1>4, <1>5, <1>6, <1>7 DEF LoanInv

LEMMA NothingTyped ==
    Nothing \in [loan : Loans \cup {"none"}, amount : Nat, session : Sessions \cup {NoSession}]
    BY DEF Nothing

LEMMA AbortKeeps ==
    ASSUME LoanInv, NEW r \in Repayments, AbortRepayment(r)
    PROVE  LoanInv'
<1> DEFINE A == {r}
<1>1. LoanTypeOK
    BY DEF LoanInv
<1>2. /\ tx' = [tx EXCEPT ![r] = Nothing] /\ overtaken' = overtaken \ {r}
      /\ aborted' = aborted \cup A /\ UNCHANGED <<loan, shown, session, repayment>>
    BY DEF AbortRepayment
<1>3. \A q \in Repayments : tx'[q] = IF q \in A THEN Nothing ELSE tx[q]
    BY <1>1, <1>2 DEF LoanTypeOK
<1>4. tx' \in [Repayments -> [loan : Loans \cup {"none"}, amount : Nat,
                              session : Sessions \cup {NoSession}]]
    BY <1>1, <1>2, NothingTyped DEF LoanTypeOK
<1>5. \A q \in Repayments : tx'[q] # Nothing /\ q \in overtaken => q \in overtaken'
    BY <1>2, <1>3
<1>6. A \in SUBSET Repayments /\ A # {} /\ overtaken' \subseteq overtaken
    BY <1>2
<1> HIDE DEF A
<1> QED
    BY <1>2, <1>3, <1>4, <1>5, <1>6, AbortsKeep

LEMMA CrashKeeps ==
    ASSUME LoanInv, ServerCrash
    PROVE  LoanInv'
<1> DEFINE A == {r \in Repayments : tx[r] # Nothing}
<1>1. LoanTypeOK
    BY DEF LoanInv
<1>2. /\ tx' = [r \in Repayments |-> Nothing] /\ overtaken' = {}
      /\ aborted' = aborted \cup A /\ UNCHANGED <<loan, shown, session, repayment>>
    BY DEF ServerCrash
<1>3. \A q \in Repayments : tx'[q] = Nothing /\ tx'[q] = IF q \in A THEN Nothing ELSE tx[q]
    BY <1>2
<1>4. tx' \in [Repayments -> [loan : Loans \cup {"none"}, amount : Nat,
                              session : Sessions \cup {NoSession}]]
    BY <1>2, NothingTyped
<1>5. A \in SUBSET Repayments /\ (A # {} \/ \A r \in Repayments : tx[r] = Nothing)
    OBVIOUS
<1> HIDE DEF A
<1> QED
    BY <1>2, <1>3, <1>4, <1>5, AbortsKeep

LEMMA LoanNext == LoanInv /\ [Next]_vars => LoanInv'
<1> SUFFICES ASSUME LoanInv, [Next]_vars
             PROVE  LoanInv'
    OBVIOUS
<1>1. CASE UNCHANGED loanVars
    BY <1>1, LoanUnchanged DEF loanVars
<1>2. CASE LoanStep
  <2>1. ASSUME NEW r \in Repayments, NEW l \in Loans, NEW amount \in Amounts,
               NEW token \in {NoSession} \cup Sessions, recordRepayment(r, l, amount, token)
        PROVE  LoanInv'
      BY <2>1, BeginKeeps, CommitKeeps, AbortKeeps DEF recordRepayment
  <2> QED
      BY <1>2, <2>1, IssueKeeps, CreatePaymentKeeps DEF LoanStep
<1>3. ASSUME NEW r \in Repayments, handlePaymentReceived(r)
      PROVE  LoanInv'
    BY <1>3, LoanUnchanged DEF handlePaymentReceived, loanVars
<1>4. CASE ServerCrash
    BY <1>4, CrashKeeps
<1> QED
    BY <1>1, <1>2, <1>3, <1>4 DEF Next, ServerStep, MinutesPass, vars

LEMMA LoanInitial == Init => LoanInv
<1> SUFFICES ASSUME LoanInit PROVE LoanInv
    BY DEF Init
<1>1. LoanTypeOK
    BY NothingTyped DEF LoanInit, LoanTypeOK, LoanStatuses
<1>2. \A r \in Repayments : repayment[r] = Nothing /\ tx[r] = Nothing
    BY DEF LoanInit
<1>3. \A l \in Loans : RepaidOf(l) = {} /\ Open(l) = {}
    BY <1>2, LoanAssumption DEF RepaidOf, Open, Nothing
<1>4. \A l \in Loans : totalRepaid(l) = 0
    BY <1>3, SumEmpty DEF totalRepaid
<1>5. \A l \in Loans : LoanSound(l) /\ ShownSound(l)
    BY <1>3, <1>4 DEF LoanInit, LoanSound, ShownSound
<1>6. \A s \in Sessions : SessionSound(s)
    BY DEF LoanInit, SessionSound
<1>7. \A r \in Repayments : RepaymentSound(r) /\ TxSound(r)
    BY <1>2 DEF RepaymentSound, TxSound, Nothing
<1> QED
    BY <1>1, <1>5, <1>6, <1>7 DEF LoanInv

\* However many repayments are recorded at once, they never add up to more than
\* the loan, and the loan is REPAID exactly when they add up to it.
THEOREM LoansNeverOverpaid == Spec => []NeverOverpaid
<1>1. LoanInv => NeverOverpaid
    BY DEF LoanInv, LoanSound, NeverOverpaid
<1> QED
    BY <1>1, LoanInitial, LoanNext, PTL DEF Spec

\* Sessions and the repayments that completed them name each other.
THEOREM SessionsCorrect == Spec => []SessionsMatchRepayments
<1>1. LoanInv => SessionsMatchRepayments
    BY DEF LoanInv, SessionSound, RepaymentSound, SessionsMatchRepayments
<1> QED
    BY <1>1, LoanInitial, LoanNext, PTL DEF Spec

\* The early broadcast is right in the end: with no transaction open and none
\* aborted, clients have been shown the status of the loan.
THEOREM BroadcastsCorrect == Spec => []ShownIsCurrent
<1>1. LoanInv => ShownIsCurrent
  <2> SUFFICES ASSUME LoanInv, aborted = {}, \A r \in Repayments : tx[r] = Nothing, NEW l \in Loans
               PROVE  shown[l] = loan[l].status
      BY DEF ShownIsCurrent
  <2>1. Open(l) = {}
      BY LoanAssumption DEF Open, Nothing
  <2> QED
      BY <2>1 DEF LoanInv, ShownSound
<1> QED
    BY <1>1, LoanInitial, LoanNext, PTL DEF Spec

----------------------------------------------------------------------------
(* Webhook deliveries.  A job owes a post from the moment it is due until it  *)
(* has posted or has queued the job that will.  The invariant counts, per     *)
(* delivery, the posts made and owed, and beside them the jobs a crash could  *)
(* set back: those are what a fault may double.                               *)

\* A first job or a retry that is still to come.
Unborn(id) ==
    /\ job[id] = "none"
    /\ \/ id[2] = "delivery"
       \/ id[2] = "retry" /\ id[3] < MAX_RETRY_ATTEMPTS

DueSteps == {"load", "disable", "delay", "requeue", "post"}
SentSteps == {"record", "touch", "fail", "retry"}

\* Jobs that owe a post; an orphan does if the queue will run it again.
Due(d) ==
    {id \in JobsOf(d) :
       \/ Unborn(id)
       \/ job[id] = "queued"
       \/ pc[id] \in DueSteps
       \/ job[id] = "active" /\ pc[id] = "idle" /\ id \notin stalled}

\* Jobs that would owe one after a crash, but for the rate limiter's and the
\* sweep's in the queue.
Busy(d) ==
    {id \in JobsOf(d) :
       \/ Unborn(id)
       \/ job[id] = "queued" /\ id[2] # "timed"
       \/ job[id] = "active" /\ (pc[id] # "idle" \/ id \notin stalled)}

Sent(d) == {id \in JobsOf(d) : pc[id] \in SentSteps}

Active(d) == {id \in JobsOf(d) : job[id] = "active" \/ (id = First(d) /\ job[id] = "none")}
Underway(d) == {id \in JobsOf(d) : Live(id) \/ (id = First(d) /\ job[id] = "none")}

Sweeping(d) == IF sweep[d] = "none" THEN 0 ELSE 1

Bound(k) == (k + sweeps) * Doubled[faults]

JobSound(id) ==
    /\ pc[id] # "idle" => job[id] = "active"
    /\ IF IsDirect(id) THEN pc[id] \in {"idle", "direct", "end"} ELSE pc[id] # "direct"
    /\ pc[id] \in SentSteps => seen[id] <= posts[Target(id)]
    /\ pc[id] = "post" => seen[id] <= posts[Target(id)] + 1
    /\ pc[id] \in SentSteps \cup {"post"} => seen[id] # 0
    /\ pc[id] = "retry" => seen[id] < MAX_RETRY_ATTEMPTS

Counted(d) ==
    /\ posts[d] + Cardinality(Due(d)) + Sweeping(d) <= Bound(MAX_RETRY_ATTEMPTS)
    /\ Cardinality(Busy(d)) <= Bound(MAX_RETRY_ATTEMPTS)
    /\ Cardinality(Sent(d)) <= posts[d]
    /\ Cardinality(Underway(d)) + Sweeping(d) <= Bound(1)
    /\ Cardinality(Active(d)) <= Bound(1)

HookInv ==
    /\ WebhookTypeOK
    /\ \A id \in JobIds : JobSound(id)
    /\ \A d \in Deliveries : attempt[d] <= posts[d]
    /\ \A d \in Deliveries : Counted(d)

----------------------------------------------------------------------------
(* Powers of two *)

Doubling(g, m) == g = [n \in 0 .. m |-> IF n = 0 THEN 1 ELSE 2 * g[n - 1]]

LEMMA DoublingExists ==
    ASSUME NEW m \in Nat
    PROVE  \E g : Doubling(g, m)
<1> DEFINE Bad == {n \in Nat : ~\E g : Doubling(g, n)}
<1>1. Bad = {}
  <2> SUFFICES ASSUME Bad # {} PROVE FALSE
      OBVIOUS
  <2>1. PICK n \in Bad : \A b \in Bad : n <= b
      BY LeastNumber
  <2>2. n # 0
    <3> DEFINE g == [i \in 0 .. 0 |-> 1]
    <3>1. Doubling(g, 0)
        BY DEF Doubling
    <3> QED
        BY <3>1
  <2>3. n - 1 \in Nat /\ n - 1 \notin Bad
      BY <2>1, <2>2
  <2>4. PICK g : Doubling(g, n - 1)
      BY <2>3
  <2> DEFINE h == [i \in 0 .. n |-> IF i = n THEN 2 * g[n - 1] ELSE g[i]]
  <2>5. ASSUME NEW i \in 0 .. n PROVE h[i] = IF i = 0 THEN 1 ELSE 2 * h[i - 1]
    <3>1. i # 0 => i - 1 \in 0 .. n /\ h[i - 1] = g[i - 1]
        BY <2>3
    <3>2. CASE i = n
        BY <2>2, <3>1, <3>2
    <3>3. CASE i # n
      <4>1. i \in 0 .. (n - 1)
          BY <3>3
      <4>2. g[i] = IF i = 0 THEN 1 ELSE 2 * g[i - 1]
          BY <2>4, <4>1 DEF Doubling
      <4> QED
          BY <3>1, <3>3, <4>2
    <3> QED
        BY <3>2, <3>3
  <2>6. Doubling(h, n)
      BY <2>5 DEF Doubling
  <2> QED
      BY <2>1, <2>6
<1> QED
    BY <1>1

LEMMA DoubledFacts ==
    /\ \A n \in 0 .. MaxFaults : Doubled[n] \in Nat \ {0}
    /\ Doubled[0] = 1
    /\ \A n \in Nat : n < MaxFaults => Doubled[n + 1] = 2 * Doubled[n]
<1> USE WebhookAssumption
<1>1. Doubling(Doubled, MaxFaults)
  <2>1. \E g : Doubling(g, MaxFaults)
      BY DoublingExists
  <2> QED
      BY <2>1 DEF Doubled, Doubling
<1>2. \A n \in 0 .. MaxFaults : Doubled[n] = IF n = 0 THEN 1 ELSE 2 * Doubled[n - 1]
    BY <1>1 DEF Doubling
<1> HIDE DEF Doubled
<1>3. \A n \in Nat : n < MaxFaults => Doubled[n + 1] = 2 * Doubled[n]
  <2> SUFFICES ASSUME NEW n \in Nat, n < MaxFaults PROVE Doubled[n + 1] = 2 * Doubled[n]
      OBVIOUS
  <2>1. n + 1 \in 0 .. MaxFaults /\ (n + 1) - 1 = n /\ n + 1 # 0
      OBVIOUS
  <2> QED
      BY <1>2, <2>1
<1>4. Doubled[0] = 1
    BY <1>2
<1> DEFINE Bad == {n \in 0 .. MaxFaults : Doubled[n] \notin Nat \ {0}}
<1>5. Bad = {}
  <2> SUFFICES ASSUME Bad # {} PROVE FALSE
      OBVIOUS
  <2>1. Bad \in SUBSET Nat
      OBVIOUS
  <2>2. PICK n \in Bad : \A b \in Bad : n <= b
      BY <2>1, LeastNumber
  <2>3. n # 0
      BY <1>4, <2>2
  <2>4. n - 1 \in 0 .. MaxFaults /\ n - 1 \notin Bad
      BY <2>2, <2>3
  <2>5. Doubled[n] = 2 * Doubled[n - 1]
      BY <1>2, <2>3
  <2> QED
      BY <2>2, <2>4, <2>5
<1> QED
    BY <1>3, <1>4, <1>5

LEMMA BoundFacts ==
    ASSUME WebhookTypeOK, NEW k \in Nat \ {0}
    PROVE  /\ Bound(k) \in Nat
           /\ faults' = faults /\ sweeps' = sweeps => Bound(k)' = Bound(k)
           /\ faults < MaxFaults /\ faults' = faults + 1 /\ sweeps' = sweeps
                => Bound(k)' = Bound(k) + Bound(k)
           /\ faults' = faults /\ sweeps' = sweeps + 1 => Bound(k)' >= Bound(k) + 1
<1> DEFINE D == Doubled[faults]
<1>1. faults \in 0 .. MaxFaults /\ sweeps \in Nat
    BY WebhookAssumption DEF WebhookTypeOK
<1>2. D \in Nat \ {0}
    BY <1>1, DoubledFacts
<1>3. Bound(k) \in Nat
    BY <1>1, <1>2 DEF Bound
<1>4. faults' = faults /\ sweeps' = sweeps => Bound(k)' = Bound(k)
    BY DEF Bound
<1>5. ASSUME faults < MaxFaults, faults' = faults + 1, sweeps' = sweeps
      PROVE  Bound(k)' = Bound(k) + Bound(k)
  <2>1. Doubled[faults'] = 2 * D
      BY <1>1, <1>5, DoubledFacts
  <2>2. Bound(k)' = (k + sweeps) * (2 * D)
      BY <1>5, <2>1 DEF Bound
  <2> HIDE DEF D
  <2>3. (k + sweeps) * (2 * D) = (k + sweeps) * D + (k + sweeps) * D
      BY <1>1, <1>2
  <2> QED
      BY <2>2, <2>3 DEF Bound, D
<1>6. ASSUME faults' = faults, sweeps' = sweeps + 1 PROVE Bound(k)' >= Bound(k) + 1
  <2>1. Bound(k)' = (k + (sweeps + 1)) * D
      BY <1>6 DEF Bound
  <2>2. Bound(k) = (k + sweeps) * D
      BY DEF Bound
  <2> HIDE DEF D
  <2>3. (k + (sweeps + 1)) * D = (k + sweeps) * D + D
      BY <1>1, <1>2
  <2>4. (k + sweeps) * D \in Nat
      BY <1>1, <1>2
  <2> QED
      BY <1>2, <2>1, <2>2, <2>3, <2>4
<1> QED
    BY <1>3, <1>4, <1>5, <1>6

----------------------------------------------------------------------------
(* Job ids, and counts of sets that change by one job *)

LEMMA NumberedFinite ==
    ASSUME NEW n \in Nat, NEW f
    PROVE  IsFiniteSet({f[i] : i \in 1 .. n})
<1> DEFINE T == {f[i] : i \in 1 .. n}
           g == [i \in 1 .. n |-> f[i]]
<1>1. IsFiniteSet(1 .. n)
  <2>1. 1 \in Int /\ n \in Int
      OBVIOUS
  <2> QED
      BY <2>1, FS_Interval
<1>2. g \in Surjection(1 .. n, T)
    BY DEF Surjection
<1> HIDE DEF g, T
<1>3. IsFiniteSet(T)
    BY <1>1, <1>2, FS_Surjection
<1> QED
    BY <1>3 DEF T

LEMMA DeliveryJobs ==
    ASSUME NEW d \in Deliveries
    PROVE  /\ IsFiniteSet(JobsOf(d)) /\ First(d) \in JobsOf(d)
           /\ \A id \in JobsOf(d) : id \in JobIds /\ Target(id) = d /\ ~IsDirect(id)
           /\ \A id \in JobsOf(d) : id[2] \in {"delivery", "retry", "timed"}
           /\ \A id \in JobsOf(d) : id[2] = "delivery" <=> id = First(d)
           /\ \A id \in Timed(d) : id \in JobsOf(d) /\ id[2] = "timed"
           /\ \A n \in 1 .. MAX_RETRY_ATTEMPTS : Retry(d, n) \in JobsOf(d)
<1>1. IsFiniteSet(Timed(d))
  <2> DEFINE f == [i \in 1 .. MaxTimed |-> <<d, "timed", i>>]
  <2>1. Timed(d) = {f[i] : i \in 1 .. MaxTimed}
      BY DEF Timed
  <2>2. MaxTimed \in Nat
      BY WebhookAssumption
  <2> QED
      BY <2>1, <2>2, NumberedFinite
<1>2. IsFiniteSet({Retry(d, n) : n \in 1 .. MAX_RETRY_ATTEMPTS})
  <2> DEFINE f == [n \in 1 .. MAX_RETRY_ATTEMPTS |-> Retry(d, n)]
  <2>1. {Retry(d, n) : n \in 1 .. MAX_RETRY_ATTEMPTS} = {f[n] : n \in 1 .. MAX_RETRY_ATTEMPTS}
      OBVIOUS
  <2>2. MAX_RETRY_ATTEMPTS \in Nat
      BY WebhookAssumption
  <2> QED
      BY <2>1, <2>2, NumberedFinite
<1>3. IsFiniteSet(JobsOf(d))
    BY <1>1, <1>2, FS_Singleton, FS_Union DEF JobsOf
<1> QED
    BY <1>3 DEF JobsOf, JobIds, First, Retry, Timed, Target, IsDirect

LEMMA JobCases ==
    ASSUME NEW id \in JobIds
    PROVE  /\ IsDirect(id) => Target(id) \in Events /\ Target(id) \notin Deliveries
           /\ ~IsDirect(id) => Target(id) \in Deliveries /\ id \in JobsOf(Target(id))
           /\ Target(id) \in Deliveries \cup Events
<1>1. CASE \E e \in Events : id = Direct(e)
    BY <1>1, WebhookAssumption DEF Direct, IsDirect, Target, Deliveries
<1>2. CASE \E d \in Deliveries : id \in JobsOf(d)
    BY <1>2, DeliveryJobs
<1>3. (\E e \in Events : id = Direct(e)) \/ (\E d \in Deliveries : id \in JobsOf(d))
  <2>1. id \in UNION {JobsOf(d) : d \in Deliveries} \/ id \in {Direct(e) : e \in Events}
      BY DEF JobIds
  <2>2. id \in UNION {JobsOf(d) : d \in Deliveries} => \E d \in Deliveries : id \in JobsOf(d)
      OBVIOUS
  <2> QED
      BY <2>1, <2>2
<1> QED
    BY <1>1, <1>2, <1>3

LEMMA Fewer ==
    ASSUME NEW S, NEW T, IsFiniteSet(S), T \subseteq S
    PROVE  /\ Cardinality(S) \in Nat /\ Cardinality(T) \in Nat
           /\ Cardinality(T) <= Cardinality(S)
           /\ IsFiniteSet(T)
    BY FS_Subset, FS_CardinalityType

LEMMA OneLess ==
    ASSUME NEW S, NEW T, IsFiniteSet(S), NEW x \in S, T \subseteq S \ {x}
    PROVE  Cardinality(T) <= Cardinality(S) - 1
<1>1. IsFiniteSet(S \ {x}) /\ Cardinality(S \ {x}) = Cardinality(S) - 1
    BY FS_RemoveElement
<1> QED
    BY <1>1, Fewer

LEMMA OneMore ==
    ASSUME NEW S, NEW T, IsFiniteSet(S), NEW y, T \subseteq S \cup {y}
    PROVE  Cardinality(T) <= Cardinality(S) + 1
<1>1. IsFiniteSet(S \cup {y}) /\ Cardinality(S \cup {y}) <= Cardinality(S) + 1
  <2>1. Cardinality(S) \in Nat
      BY FS_CardinalityType
  <2>2. /\ IsFiniteSet(S \cup {y})
        /\ Cardinality(S \cup {y}) = IF y \in S THEN Cardinality(S) ELSE Cardinality(S) + 1
      BY FS_AddElement, Zenon
  <2> QED
      BY <2>1, <2>2
<1> QED
    BY <1>1, Fewer, FS_CardinalityType

LEMMA UnionCount ==
    ASSUME NEW S, NEW T, IsFiniteSet(S), IsFiniteSet(T)
    PROVE  /\ IsFiniteSet(S \cup T)
           /\ Cardinality(S \cup T) <= Cardinality(S) + Cardinality(T)
<1>1. /\ IsFiniteSet(S \cup T)
      /\ Cardinality(S \cup T) = Cardinality(S) + Cardinality(T) - Cardinality(S \cap T)
    BY FS_Union, Zenon
<1>2. Cardinality(S \cap T) \in Nat /\ Cardinality(S) \in Nat /\ Cardinality(T) \in Nat
    BY Fewer, FS_CardinalityType
<1> QED
    BY <1>1, <1>2

LEMMA Exchange ==
    ASSUME NEW S, NEW T, IsFiniteSet(S), NEW x \in S, NEW y, T \subseteq (S \ {x}) \cup {y}
    PROVE  Cardinality(T) <= Cardinality(S)
<1>1. IsFiniteSet(S \ {x}) /\ Cardinality(S \ {x}) = Cardinality(S) - 1
    BY FS_RemoveElement
<1> QED
    BY <1>1, OneMore, FS_CardinalityType

LEMMA CountsTyped ==
    ASSUME NEW d \in Deliveries
    PROVE  /\ IsFiniteSet(Due(d)) /\ Cardinality(Due(d)) \in Nat
           /\ IsFiniteSet(Busy(d)) /\ Cardinality(Busy(d)) \in Nat
           /\ IsFiniteSet(Sent(d)) /\ Cardinality(Sent(d)) \in Nat
           /\ IsFiniteSet(Underway(d)) /\ Cardinality(Underway(d)) \in Nat
           /\ IsFiniteSet(Active(d)) /\ Cardinality(Active(d)) \in Nat
           /\ Sweeping(d) \in {0, 1}
    BY DeliveryJobs, Fewer DEF Due, Busy, Sent, Underway, Active, Sweeping

LEMMA CountsTypedNext ==
    ASSUME NEW d \in Deliveries
    PROVE  /\ Cardinality(Due(d)') \in Nat /\ Cardinality(Busy(d)') \in Nat
           /\ Cardinality(Sent(d)') \in Nat /\ Cardinality(Underway(d)') \in Nat
           /\ Cardinality(Active(d)') \in Nat /\ Sweeping(d)' \in {0, 1}
    BY DeliveryJobs, Fewer DEF Due, Busy, Sent, Underway, Active, Sweeping

----------------------------------------------------------------------------
(* The types *)

LEMMA HookCallsTyped ==
    ASSUME WebhookTypeOK,
           \/ WebhookStep
           \/ \E r \in Repayments : triggerEvent(r)
           \/ \E w \in Webhooks : NextWindow(w)
    PROVE  WebhookTypeOK'
<1> USE WebhookAssumption DEF WebhookTypeOK, rowVars, jobVars, boundVars, Registered, Statuses
<1>1. CASE \E w \in Webhooks, state \in Registered : registerWebhook(w, state) \/ updateWebhook(w, state)
    BY <1>1 DEF registerWebhook, updateWebhook
<1>2. CASE \E w \in Webhooks : deleteWebhook(w)
    BY <1>2 DEF deleteWebhook
<1>3. CASE \E w \in Webhooks, e \in Tests : testWebhook(w, e)
    BY <1>3 DEF testWebhook
<1>4. CASE \E due \in SUBSET Deliveries : ReadFailed(due)
    BY <1>4 DEF ReadFailed
<1>5. CASE \E d \in Deliveries : MarkFailed(d)
    BY <1>5 DEF MarkFailed
<1>6. CASE \E d \in Deliveries : QueueFailed(d)
  <2> SUFFICES ASSUME NEW d \in Deliveries, QueueFailed(d) PROVE WebhookTypeOK'
      BY <1>6
  <2>1. job' \in [JobIds -> {"none", "queued", "active", "done"}]
      BY DEF QueueFailed, AddTimed, Add
  <2>2. sweep' \in [Deliveries -> {"none", "read", "marked"}]
      BY DEF QueueFailed
  <2> QED
      BY <2>1, <2>2 DEF QueueFailed
<1>7. CASE \E e \in Events \cup Tests : AddDeliveryFails(e)
    BY <1>7 DEF AddDeliveryFails
<1>8. CASE \E id \in JobIds : DatabaseError(id)
    BY <1>8 DEF DatabaseError, Goto
<1>9. CASE \E r \in Repayments : triggerEvent(r)
    BY <1>9 DEF triggerEvent
<1>10. CASE \E w \in Webhooks : NextWindow(w)
    BY <1>10 DEF NextWindow
<1> QED
    BY <1>1, <1>2, <1>3, <1>4, <1>5, <1>6, <1>7, <1>8, <1>9, <1>10 DEF WebhookStep, retryFailedWebhooks

LEMMA JobStepsTyped ==
    ASSUME WebhookTypeOK, NEW id \in JobIds, JobSound(id), processWebhookJob(id) \/ Stalled(id)
    PROVE  WebhookTypeOK'
<1> USE WebhookAssumption DEF WebhookTypeOK, rowVars, jobVars, boundVars, Registered, Statuses, Goto, At
<1>1. Target(id) \in Deliveries \cup Events
    BY JobCases
<1>2. CASE StartJob(id)
    BY <1>2 DEF StartJob
<1>3. CASE LoadDelivery(id)
  <2>1. Target(id) \in Deliveries
      BY <1>3, JobCases DEF LoadDelivery, JobSound
  <2>2. Target(id)[1] \in Webhooks /\ attempt[Target(id)] + 1 \in Nat
      BY <2>1 DEF Deliveries
  <2>3. ~RateLimited(Target(id)[1]) => rate[Target(id)[1]] + 1 \in 0 .. RateLimit
      BY <2>2 DEF RateLimited
  <2> QED
      BY <1>3, <2>2, <2>3 DEF LoadDelivery
<1>4. CASE \E ok \in BOOLEAN : SendWebhook(id, ok)
    BY <1>1, <1>4 DEF SendWebhook
<1>5. ASSUME NEW status \in Statuses, NEW n, Target(id) \in Deliveries => n \in Nat, NEW next, UpdateRow(id, status, n, next),
             next \in {"end", "requeue", "touch", "retry"}
      PROVE  WebhookTypeOK'
    BY <1>5 DEF UpdateRow
<1>6. seen[id] \in Nat /\ (Target(id) \in Deliveries => attempt[Target(id)] \in Nat)
    OBVIOUS
<1>7. CASE DisableDelivery(id)
    BY <1>5, <1>6, <1>7 DEF DisableDelivery
<1>8. CASE DelayDelivery(id)
    BY <1>5, <1>6, <1>8 DEF DelayDelivery
<1>9. CASE RequeueDelayed(id)
    BY <1>9 DEF RequeueDelayed, AddTimed, Add, AfterRateLimit
<1>10. CASE RecordSuccess(id)
    BY <1>5, <1>6, <1>10 DEF RecordSuccess
<1>11. CASE TouchWebhook(id)
    BY <1>11 DEF TouchWebhook
<1>12. CASE handleDeliveryFailure(id)
    BY <1>5, <1>6, <1>12 DEF handleDeliveryFailure, Add
<1>13. CASE EndJob(id)
    BY <1>13 DEF EndJob, Finished
<1>14. CASE Stalled(id)
    BY <1>14 DEF Stalled, Finished
<1> QED
    BY <1>2, <1>3, <1>4, <1>7, <1>8, <1>9, <1>10, <1>11, <1>12, <1>13, <1>14 DEF processWebhookJob

LEMMA QueueingTyped ==
    ASSUME WebhookTypeOK,
           \/ \E w \in Webhooks, e \in Events \cup Tests : queueWebhookDelivery(w, e)
           \/ \E r \in Repayments : Add(PaymentJob(r)) /\ UNCHANGED <<rowVars, fanout, adding, sweep, stalled, pc, seen, rate, posts, boundVars>>
           \/ Crash
           \/ UNCHANGED hookVars
    PROVE  WebhookTypeOK'
<1> USE WebhookAssumption DEF WebhookTypeOK, rowVars, jobVars, boundVars, Registered, Statuses
<1>0. ASSUME NEW new, Add(new) PROVE job' \in [JobIds -> {"none", "queued", "active", "done"}]
    BY <1>0 DEF Add
<1>1. CASE \E w \in Webhooks, e \in Events \cup Tests : CreateDelivery(w, e)
    BY <1>1 DEF CreateDelivery
<1>2. CASE \E w \in Webhooks, e \in Events \cup Tests : AddDelivery(w, e)
    BY <1>0, <1>2 DEF AddDelivery
<1>3. CASE \E r \in Repayments : Add(PaymentJob(r)) /\ UNCHANGED <<rowVars, fanout, adding, sweep, stalled, pc, seen, rate, posts, boundVars>>
    BY <1>0, <1>3
<1>4. CASE Crash
    BY <1>4 DEF Crash
<1>5. CASE UNCHANGED hookVars
    BY <1>5 DEF hookVars
<1> QED
    BY <1>1, <1>2, <1>3, <1>4, <1>5 DEF queueWebhookDelivery

----------------------------------------------------------------------------
(* The counts *)

\* What a step does to the bounds, if it is no sweep: nothing, or a fault.
Faultless == UNCHANGED <<faults, sweeps>>
Faulty == faults < MaxFaults /\ faults' = faults + 1 /\ sweeps' = sweeps

LEMMA BoundGrows ==
    ASSUME WebhookTypeOK, Faultless \/ Faulty
    PROVE  /\ Bound(1) \in Nat /\ Bound(1)' \in Nat /\ Bound(1)' >= Bound(1)
           /\ Bound(MAX_RETRY_ATTEMPTS) \in Nat /\ Bound(MAX_RETRY_ATTEMPTS)' \in Nat
           /\ Bound(MAX_RETRY_ATTEMPTS)' >= Bound(MAX_RETRY_ATTEMPTS)
<1>1. ASSUME NEW k \in Nat \ {0}
      PROVE  Bound(k) \in Nat /\ Bound(k)' \in Nat /\ Bound(k)' >= Bound(k)
  <2>1. Bound(k) \in Nat
      BY BoundFacts
  <2>2. Bound(k)' = Bound(k) \/ Bound(k)' = Bound(k) + Bound(k)
      BY BoundFacts DEF Faultless, Faulty
  <2> QED
      BY <2>1, <2>2
<1>2. 1 \in Nat \ {0} /\ MAX_RETRY_ATTEMPTS \in Nat \ {0}
    BY WebhookAssumption
<1> QED
    BY <1>1, <1>2

LEMMA CountedShrinks ==
    ASSUME WebhookTypeOK, Faultless \/ Faulty, NEW d \in Deliveries, Counted(d),
           posts'[d] = posts[d], sweep'[d] # "none" => sweep[d] # "none",
           Due(d)' \subseteq Due(d), Busy(d)' \subseteq Busy(d), Sent(d)' \subseteq Sent(d),
           Underway(d)' \subseteq Underway(d), Active(d)' \subseteq Active(d)
    PROVE  Counted(d)'
<1>1. /\ Cardinality(Due(d)') \in Nat /\ Cardinality(Due(d)') <= Cardinality(Due(d))
      /\ Cardinality(Busy(d)') \in Nat /\ Cardinality(Busy(d)') <= Cardinality(Busy(d))
      /\ Cardinality(Sent(d)') \in Nat /\ Cardinality(Sent(d)') <= Cardinality(Sent(d))
      /\ Cardinality(Underway(d)') \in Nat /\ Cardinality(Underway(d)') <= Cardinality(Underway(d))
      /\ Cardinality(Active(d)') \in Nat /\ Cardinality(Active(d)') <= Cardinality(Active(d))
    BY CountsTyped, Fewer
<1>2. Sweeping(d)' \in {0, 1} /\ Sweeping(d) \in {0, 1} /\ Sweeping(d)' <= Sweeping(d)
    BY DEF Sweeping
<1>3. posts[d] \in Nat
    BY DEF WebhookTypeOK
<1> QED
    BY <1>1, <1>2, <1>3, CountsTyped, BoundGrows DEF Counted

\* A job's processor goes on to a step where it owes and has sent no more.
LEMMA MoveCounted ==
    ASSUME WebhookTypeOK, Faultless \/ Faulty, NEW id \in JobIds, NEW q,
           pc[id] # "idle", q # "idle", pc' = [pc EXCEPT ![id] = q],
           UNCHANGED <<job, stalled, posts, sweep>>,
           q \in DueSteps => pc[id] \in DueSteps, q \in SentSteps => pc[id] \in SentSteps,
           q # "end" => pc[id] # "end",
           NEW d \in Deliveries, Counted(d)
    PROVE  Counted(d)'
<1>1. \A x \in JobsOf(d) : x \in JobIds
    BY DeliveryJobs
<1>2. \A x \in JobIds : pc'[x] = IF x = id THEN q ELSE pc[x]
    BY DEF WebhookTypeOK
<1>3. Due(d)' \subseteq Due(d)
    BY <1>1, <1>2 DEF Due, Unborn
<1>4. Busy(d)' \subseteq Busy(d)
    BY <1>1, <1>2 DEF Busy, Unborn
<1>5. Sent(d)' \subseteq Sent(d)
    BY <1>1, <1>2 DEF Sent
<1>6. Underway(d)' \subseteq Underway(d)
    BY <1>1, <1>2 DEF Underway, Live
<1>7. Active(d)' \subseteq Active(d)
    BY <1>1, <1>2 DEF Active
<1> QED
    BY <1>3, <1>4, <1>5, <1>6, <1>7, CountedShrinks

\* A first job is added, or one that is no delivery's.
LEMMA AddCounted ==
    ASSUME WebhookTypeOK, NEW new, Add(new),
           \A x \in Deliveries : new \in JobsOf(x) => new = First(x),
           UNCHANGED <<pc, stalled, posts, sweep, faults, sweeps>>,
           \A id \in JobIds : JobSound(id),
           NEW d \in Deliveries, Counted(d)
    PROVE  Counted(d)'
<1>1. \A x \in JobsOf(d) : x \in JobIds /\ (x[2] = "delivery" <=> x = First(d))
    BY DeliveryJobs
<1>2. \A x \in JobIds : job'[x] = IF x = new /\ job[x] = "none" THEN "queued" ELSE job[x]
    BY DEF WebhookTypeOK, Add
<1>3. Due(d)' \subseteq Due(d)
    BY <1>1, <1>2 DEF Due, Unborn
<1>4. Busy(d)' \subseteq Busy(d)
    BY <1>1, <1>2 DEF Busy, Unborn
<1>5. Sent(d)' \subseteq Sent(d)
    BY DEF Sent
<1>6. Underway(d)' \subseteq Underway(d)
    BY <1>1, <1>2 DEF Underway, Live
<1>7. Active(d)' \subseteq Active(d)
    BY <1>1, <1>2 DEF Active
<1> QED
    BY <1>3, <1>4, <1>5, <1>6, <1>7, CountedShrinks DEF Faultless

\* A job ends, or is given up or queued again after its worker died.
LEMMA LeaveCounted ==
    ASSUME WebhookTypeOK, NEW id \in JobIds, JobSound(id), EndJob(id) \/ Stalled(id),
           NEW d \in Deliveries, Counted(d)
    PROVE  Counted(d)'
<1>1. \A x \in JobsOf(d) : x \in JobIds /\ (x[2] = "delivery" <=> x = First(d))
    BY DeliveryJobs
<1>2. Faultless /\ UNCHANGED <<posts, sweep>>
    BY DEF EndJob, Stalled, Faultless, boundVars
<1>3. \A x \in JobIds : x # id => job'[x] = job[x] /\ pc'[x] = pc[x] /\ (x \in stalled' <=> x \in stalled)
    BY DEF EndJob, Stalled, WebhookTypeOK, Goto
<1>4. job[id] = "active" /\ (pc[id] = "end" \/ pc[id] = "idle") /\ pc'[id] = "idle"
    BY DEF EndJob, Stalled, WebhookTypeOK, Goto, At, JobSound
<1>5. \/ job'[id] = Finished(id)
      \/ job'[id] = "queued" /\ pc[id] = "idle" /\ id \notin stalled
    BY <1>4 DEF EndJob, Stalled, WebhookTypeOK
<1>6. Due(d)' \subseteq Due(d)
    BY <1>1, <1>3, <1>4, <1>5 DEF Due, Unborn, Finished, DueSteps
<1>7. Busy(d)' \subseteq Busy(d)
    BY <1>1, <1>3, <1>4, <1>5 DEF Busy, Unborn, Finished
<1>8. Sent(d)' \subseteq Sent(d)
    BY <1>1, <1>3, <1>4 DEF Sent, SentSteps
<1>9. Underway(d)' \subseteq Underway(d)
    BY <1>1, <1>3, <1>4, <1>5 DEF Underway, Live, Finished
<1>10. Active(d)' \subseteq Active(d)
    BY <1>1, <1>3, <1>4, <1>5 DEF Active, Finished
<1> QED
    BY <1>2, <1>6, <1>7, <1>8, <1>9, <1>10, CountedShrinks

\* The other deliveries' counts do not depend on the jobs of this one.
LEMMA OthersCounted ==
    ASSUME WebhookTypeOK, Faultless, NEW t, NEW d \in Deliveries, d # t, Counted(d),
           \A x \in JobIds : Target(x) # t => job'[x] = job[x] /\ pc'[x] = pc[x],
           stalled' = stalled, posts'[d] = posts[d], sweep'[d] = sweep[d]
    PROVE  Counted(d)'
<1>1. \A x \in JobsOf(d) : job'[x] = job[x] /\ pc'[x] = pc[x]
    BY DeliveryJobs
<1>2. Due(d)' \subseteq Due(d)
    BY <1>1 DEF Due, Unborn
<1>3. Busy(d)' \subseteq Busy(d)
    BY <1>1 DEF Busy, Unborn
<1>4. Sent(d)' \subseteq Sent(d)
    BY <1>1 DEF Sent
<1>5. Underway(d)' \subseteq Underway(d)
    BY <1>1 DEF Underway, Live
<1>6. Active(d)' \subseteq Active(d)
    BY <1>1 DEF Active
<1> QED
    BY <1>2, <1>3, <1>4, <1>5, <1>6, CountedShrinks

\* A job at its last step has queued the one that goes on in its place: the
\* retry of its attempt, or a job of the rate limiter.
LEMMA HandOnCounted ==
    ASSUME WebhookTypeOK, \A x \in JobIds : JobSound(x), NEW id \in JobIds,
           RequeueDelayed(id) \/ (handleDeliveryFailure(id) /\ pc[id] = "retry"),
           NEW d \in Deliveries, Counted(d)
    PROVE  Counted(d)'
<1>1. ~IsDirect(id) /\ Target(id) \in Deliveries /\ id \in JobsOf(Target(id))
    BY JobCases DEF RequeueDelayed, At, JobSound
<1>2. /\ job[id] = "active" /\ pc[id] \in {"requeue", "retry"}
      /\ pc' = [pc EXCEPT ![id] = "end"]
      /\ UNCHANGED <<posts, sweep, stalled, faults, sweeps>>
    BY DEF RequeueDelayed, handleDeliveryFailure, At, Goto, AfterRateLimit, JobSound, boundVars, UpdateRow
<1>3. PICK new \in JobsOf(Target(id)) :
             /\ Add(new)
             /\ IF pc[id] = "retry" THEN new[2] = "retry" /\ (job[new] = "none" => Unborn(new))
                                    ELSE new[2] = "timed" /\ job[new] = "none"
  <2>1. CASE RequeueDelayed(id)
      BY <1>1, <2>1, DeliveryJobs DEF RequeueDelayed, AddTimed, At
  <2>2. CASE handleDeliveryFailure(id) /\ pc[id] = "retry"
    <3>1. seen[id] \in 1 .. MAX_RETRY_ATTEMPTS /\ seen[id] < MAX_RETRY_ATTEMPTS
        BY <2>2, WebhookAssumption DEF JobSound, WebhookTypeOK, SentSteps
    <3>2. Add(Retry(Target(id), seen[id]))
        BY <2>2 DEF handleDeliveryFailure, At, RetryId
    <3> QED
        BY <1>1, <2>2, <3>1, <3>2, DeliveryJobs DEF Retry, Unborn
  <2> QED
      BY <2>1, <2>2
<1>4. \A x \in JobIds : /\ job'[x] = IF x = new /\ job[x] = "none" THEN "queued" ELSE job[x]
                        /\ pc'[x] = IF x = id THEN "end" ELSE pc[x]
    BY <1>2, <1>3 DEF WebhookTypeOK, Add
<1>5. CASE d # Target(id)
  <2>1. new \in JobIds /\ Target(new) = Target(id)
      BY <1>1, <1>3, DeliveryJobs
  <2>2. \A x \in JobIds : Target(x) # Target(id) => job'[x] = job[x] /\ pc'[x] = pc[x]
      BY <1>4, <2>1
  <2> QED
      BY <1>2, <1>5, <2>2, OthersCounted DEF Faultless
<1>6. CASE d = Target(id)
  <2>1. \A x \in JobsOf(d) : x \in JobIds /\ (x[2] = "delivery" <=> x = First(d))
      BY DeliveryJobs
  <2>2. new \in JobsOf(d) /\ id \in JobsOf(d) /\ new # First(d)
      BY <1>1, <1>3, <1>6, <2>1
  <2>3. Cardinality(Due(d)') <= Cardinality(Due(d))
    <3>1. CASE pc[id] = "retry"
      <4>1. Due(d)' \subseteq Due(d)
          BY <1>2, <1>3, <1>4, <2>1, <3>1 DEF Due, Unborn, DueSteps
      <4> QED
          BY <4>1, Fewer, CountsTyped
    <3>2. CASE pc[id] = "requeue"
      <4>1. id \in Due(d)
          BY <2>2, <3>2 DEF Due, DueSteps
      <4>2. Due(d)' \subseteq (Due(d) \ {id}) \cup {new}
          BY <1>2, <1>3, <1>4, <2>1, <3>2 DEF Due, Unborn, DueSteps
      <4> QED
          BY <4>1, <4>2, Exchange, CountsTyped
    <3> QED
        BY <1>2, <3>1, <3>2
  <2>4. Busy(d)' \subseteq Busy(d)
      BY <1>2, <1>3, <1>4, <2>1 DEF Busy, Unborn
  <2>5. Sent(d)' \subseteq Sent(d)
      BY <1>4, <2>1 DEF Sent, SentSteps
  <2>6. Cardinality(Underway(d)') <= Cardinality(Underway(d))
    <3>1. id \in Underway(d)
      <4>1. job[id] = "active" /\ pc[id] # "end"
          BY <1>2
      <4> QED
          BY <2>2, <4>1 DEF Underway, Live
    <3>2. Underway(d)' \subseteq (Underway(d) \ {id}) \cup {new}
        BY <1>2, <1>4, <2>1, <2>2 DEF Underway, Live
    <3> QED
        BY <3>1, <3>2, Exchange, CountsTyped
  <2>7. Active(d)' \subseteq Active(d)
      BY <1>4, <2>1, <2>2 DEF Active
  <2>8. /\ Cardinality(Busy(d)') <= Cardinality(Busy(d))
        /\ Cardinality(Sent(d)') <= Cardinality(Sent(d))
        /\ Cardinality(Active(d)') <= Cardinality(Active(d))
      BY <2>4, <2>5, <2>7, Fewer, CountsTyped
  <2>9. /\ Cardinality(Due(d)') \in Nat /\ Cardinality(Busy(d)') \in Nat /\ Cardinality(Sent(d)') \in Nat
        /\ Cardinality(Underway(d)') \in Nat /\ Cardinality(Active(d)') \in Nat
      BY CountsTypedNext
  <2>10. Sweeping(d)' = Sweeping(d) /\ posts'[d] = posts[d] /\ posts[d] \in Nat
      BY <1>2 DEF Sweeping, WebhookTypeOK
  <2> QED
      BY <1>2, <2>3, <2>6, <2>8, <2>9, <2>10, CountsTyped, BoundGrows DEF Counted, Faultless
<1> QED
    BY <1>5, <1>6

\* The sweep queues a delivery again: the job takes the place of the mark.
LEMMA SweepCounted ==
    ASSUME WebhookTypeOK, \A x \in JobIds : JobSound(x), NEW t \in Deliveries, QueueFailed(t),
           NEW d \in Deliveries, Counted(d)
    PROVE  Counted(d)'
<1>1. UNCHANGED <<pc, posts, stalled, faults, sweeps>>
    BY DEF QueueFailed, boundVars
<1>2. PICK new \in JobsOf(t) : Add(new) /\ new[2] = "timed" /\ job[new] = "none"
    BY DeliveryJobs DEF QueueFailed, AddTimed
<1>3. \A x \in JobIds : job'[x] = IF x = new THEN "queued" ELSE job[x]
    BY <1>2 DEF WebhookTypeOK, Add
<1>4. CASE d # t
  <2>1. new \in JobIds /\ Target(new) = t
      BY <1>2, DeliveryJobs
  <2>2. \A x \in JobIds : Target(x) # t => job'[x] = job[x] /\ pc'[x] = pc[x]
      BY <1>1, <1>3, <2>1
  <2>3. sweep'[d] = sweep[d]
      BY <1>4 DEF QueueFailed, WebhookTypeOK
  <2> QED
      BY <1>1, <1>4, <2>2, <2>3, OthersCounted DEF Faultless
<1>5. CASE d = t
  <2>1. \A x \in JobsOf(d) : x \in JobIds /\ (x[2] = "delivery" <=> x = First(d))
      BY DeliveryJobs
  <2>2. new \in JobsOf(d) /\ new # First(d)
      BY <1>2, <1>5, <2>1
  <2>3. Due(d)' \subseteq Due(d) \cup {new}
      BY <1>1, <1>3, <2>1 DEF Due, Unborn
  <2>4. Busy(d)' \subseteq Busy(d)
      BY <1>1, <1>2, <1>3, <2>1 DEF Busy, Unborn
  <2>5. Sent(d)' \subseteq Sent(d)
      BY <1>1 DEF Sent
  <2>6. Underway(d)' \subseteq Underway(d) \cup {new}
      BY <1>1, <1>3, <2>1 DEF Underway, Live
  <2>7. Active(d)' \subseteq Active(d)
      BY <1>3, <2>1 DEF Active
  <2>8. /\ Cardinality(Due(d)') <= Cardinality(Due(d)) + 1
        /\ Cardinality(Underway(d)') <= Cardinality(Underway(d)) + 1
      BY <2>3, <2>6, OneMore, CountsTyped
  <2>9. /\ Cardinality(Busy(d)') <= Cardinality(Busy(d))
        /\ Cardinality(Sent(d)') <= Cardinality(Sent(d))
        /\ Cardinality(Active(d)') <= Cardinality(Active(d))
      BY <2>4, <2>5, <2>7, Fewer, CountsTyped
  <2>10. /\ Cardinality(Due(d)') \in Nat /\ Cardinality(Busy(d)') \in Nat /\ Cardinality(Sent(d)') \in Nat
         /\ Cardinality(Underway(d)') \in Nat /\ Cardinality(Active(d)') \in Nat
      BY CountsTypedNext
  <2>11. Sweeping(d)' = 0 /\ Sweeping(d) = 1
      BY <1>5 DEF Sweeping, QueueFailed, WebhookTypeOK
  <2>12. posts'[d] = posts[d] /\ posts[d] \in Nat
      BY <1>1 DEF WebhookTypeOK
  <2> QED
      BY <1>1, <2>8, <2>9, <2>10, <2>11, <2>12, CountsTyped, BoundGrows DEF Counted, Faultless
<1> QED
    BY <1>4, <1>5

\* A job starts.  A timed one was in the queue only, and no job of the delivery
\* is at its end: all that are under way are counted among those that owe a post
\* or have sent one.
LEMMA StartCounted ==
    ASSUME WebhookTypeOK, \A x \in JobIds : JobSound(x), NEW id \in JobIds, StartJob(id),
           NEW d \in Deliveries, Counted(d)
    PROVE  Counted(d)'
<1>1. /\ job[id] = "queued" /\ pc[id] = "idle" /\ UNCHANGED <<posts, sweep, stalled, faults, sweeps>>
    BY DEF StartJob, JobSound, boundVars
<1>2. \A x \in JobIds : /\ job'[x] = IF x = id THEN "active" ELSE job[x]
                        /\ x # id => pc'[x] = pc[x]
    BY DEF StartJob, WebhookTypeOK, Goto
<1>3. pc'[id] = IF IsDirect(id) THEN "direct" ELSE "load"
    BY DEF StartJob, WebhookTypeOK, Goto
<1>4. CASE id \notin JobsOf(d)
  <2>1. d # Target(id)
    <3>1. IsDirect(id) => Target(id) \notin Deliveries
        BY JobCases
    <3>2. ~IsDirect(id) => id \in JobsOf(Target(id))
        BY JobCases
    <3> QED
        BY <1>4, <3>1, <3>2
  <2>2. \A x \in JobIds : Target(x) # Target(id) => job'[x] = job[x] /\ pc'[x] = pc[x]
      BY <1>2
  <2> QED
      BY <1>1, <2>1, <2>2, OthersCounted DEF Faultless
<1>5. CASE id \in JobsOf(d)
  <2>1. \A x \in JobsOf(d) : x \in JobIds /\ (x[2] = "delivery" <=> x = First(d))
      BY DeliveryJobs
  <2>2. ~IsDirect(id) /\ Target(id) = d
      BY <1>5, DeliveryJobs
  <2>3. \A x \in JobsOf(d) : pc[x] # "end"
      BY <2>2 DEF StartJob, At
  <2>4. Due(d)' \subseteq Due(d) /\ id \in Due(d)
      BY <1>1, <1>2, <1>3, <1>5, <2>1, <2>2 DEF Due, Unborn, DueSteps
  <2>5. Sent(d)' \subseteq Sent(d)
      BY <1>2, <1>3, <2>1, <2>2 DEF Sent, SentSteps
  <2>6. Underway(d)' \subseteq Underway(d)
      BY <1>1, <1>2, <1>3, <2>1 DEF Underway, Live
  <2>7. Active(d)' \subseteq Underway(d)
      BY <1>1, <1>2, <2>1, <2>3 DEF Active, Underway, Live
  <2>8. Cardinality(Busy(d)') <= Cardinality(Due(d)) + Cardinality(Sent(d))
    <3>1. Busy(d)' \subseteq Due(d) \cup Sent(d)
      <4> SUFFICES ASSUME NEW x \in JobsOf(d), x \in Busy(d)' PROVE x \in Due(d) \cup Sent(d)
          BY DEF Busy
      <4>1. CASE x = id
          BY <2>4, <4>1
      <4>2. CASE x # id
        <5>1. job'[x] = job[x] /\ pc'[x] = pc[x] /\ x \in JobIds
            BY <1>2, <2>1, <4>2
        <5>2. CASE Unborn(x)' \/ job'[x] = "queued"
            BY <5>1, <5>2 DEF Due, Unborn
        <5>3. CASE job'[x] = "active" /\ pc'[x] = "idle" /\ x \notin stalled'
            BY <1>1, <5>1, <5>3 DEF Due
        <5>4. CASE job'[x] = "active" /\ pc'[x] # "idle"
          <6>1. ~IsDirect(x) /\ pc[x] # "direct"
              BY <5>1, DeliveryJobs DEF JobSound
          <6>2. pc[x] \in DueSteps \cup SentSteps
              BY <2>3, <5>1, <5>4, <6>1 DEF WebhookTypeOK, DueSteps, SentSteps
          <6> QED
              BY <6>2 DEF Due, Sent
        <5> QED
            BY <5>2, <5>3, <5>4 DEF Busy
      <4> QED
          BY <4>1, <4>2
    <3>2. IsFiniteSet(Due(d)) /\ IsFiniteSet(Sent(d))
        BY CountsTyped
    <3>3. /\ IsFiniteSet(Due(d) \cup Sent(d))
          /\ Cardinality(Due(d) \cup Sent(d)) <= Cardinality(Due(d)) + Cardinality(Sent(d))
        BY <3>2, UnionCount
    <3> QED
        BY <3>1, <3>3, Fewer, CountsTyped, CountsTypedNext
  <2>9. /\ Cardinality(Due(d)') <= Cardinality(Due(d)) /\ Cardinality(Sent(d)') <= Cardinality(Sent(d))
        /\ Cardinality(Underway(d)') <= Cardinality(Underway(d))
        /\ Cardinality(Active(d)') <= Cardinality(Underway(d))
      BY <2>4, <2>5, <2>6, <2>7, Fewer, CountsTyped
  <2>10. Sweeping(d)' = Sweeping(d) /\ posts'[d] = posts[d] /\ posts[d] \in Nat
      BY <1>1 DEF Sweeping, WebhookTypeOK
  <2> QED
      BY <1>1, <2>8, <2>9, <2>10, CountsTyped, CountsTypedNext, BoundGrows DEF Counted, Faultless
<1> QED
    BY <1>4, <1>5

\* A post is made by a job that owed it.
LEMMA PostCounted ==
    ASSUME WebhookTypeOK, \A x \in JobIds : JobSound(x), NEW id \in JobIds,
           NEW ok, SendWebhook(id, ok), NEW d \in Deliveries, Counted(d)
    PROVE  Counted(d)'
<1>1. pc[id] \in {"post", "direct"} /\ job[id] = "active" /\ UNCHANGED <<job, sweep, stalled, faults, sweeps>>
    BY DEF SendWebhook, JobSound, boundVars
<1>2. \A x \in JobIds : x # id => pc'[x] = pc[x]
    BY DEF SendWebhook, WebhookTypeOK, Goto
<1>3. pc'[id] \in SentSteps \cup {"end"}
    BY DEF SendWebhook, WebhookTypeOK, Goto, SentSteps
<1>4. CASE id \notin JobsOf(d)
  <2>1. d # Target(id)
    <3>1. IsDirect(id) => Target(id) \notin Deliveries
        BY JobCases
    <3>2. ~IsDirect(id) => id \in JobsOf(Target(id))
        BY JobCases
    <3> QED
        BY <1>4, <3>1, <3>2
  <2>2. \A x \in JobIds : Target(x) # Target(id) => job'[x] = job[x] /\ pc'[x] = pc[x]
      BY <1>1, <1>2
  <2>3. posts'[d] = posts[d]
      BY <2>1 DEF SendWebhook, WebhookTypeOK
  <2> QED
      BY <1>1, <2>1, <2>2, <2>3, OthersCounted DEF Faultless
<1>5. CASE id \in JobsOf(d)
  <2>1. \A x \in JobsOf(d) : x \in JobIds
      BY DeliveryJobs
  <2>2. ~IsDirect(id) /\ Target(id) = d
      BY <1>5, DeliveryJobs
  <2>3. pc[id] = "post"
      BY <1>1, <2>2 DEF JobSound
  <2>4. posts'[d] = posts[d] + 1 /\ posts[d] \in Nat
      BY <2>2 DEF SendWebhook, WebhookTypeOK
  <2>5. Due(d)' \subseteq Due(d) \ {id} /\ id \in Due(d)
    <3>1. id \in Due(d)
        BY <1>5, <2>3 DEF Due, DueSteps
    <3>2. id \notin Due(d)'
        BY <1>1, <1>3 DEF Due, DueSteps, SentSteps, Unborn
    <3>3. Due(d)' \subseteq Due(d) \cup {id}
        BY <1>1, <1>2, <2>1 DEF Due, Unborn
    <3> QED
        BY <3>1, <3>2, <3>3
  <2>6. Busy(d)' \subseteq Busy(d)
    <3>1. id \in Busy(d)
        BY <1>1, <1>5, <2>3 DEF Busy
    <3> QED
        BY <1>1, <1>2, <2>1, <3>1 DEF Busy, Unborn
  <2>7. Sent(d)' \subseteq Sent(d) \cup {id}
      BY <1>2, <2>1 DEF Sent
  <2>8. Underway(d)' \subseteq Underway(d)
    <3>1. id \in Underway(d)
        BY <1>1, <1>5, <2>3 DEF Underway, Live
    <3> QED
        BY <1>1, <1>2, <2>1, <3>1 DEF Underway, Live
  <2>9. Active(d)' \subseteq Active(d)
      BY <1>1 DEF Active
  <2>10. /\ Cardinality(Due(d)') <= Cardinality(Due(d)) - 1
         /\ Cardinality(Sent(d)') <= Cardinality(Sent(d)) + 1
      BY <2>5, <2>7, OneLess, OneMore, CountsTyped
  <2>11. /\ Cardinality(Busy(d)') <= Cardinality(Busy(d))
         /\ Cardinality(Underway(d)') <= Cardinality(Underway(d))
         /\ Cardinality(Active(d)') <= Cardinality(Active(d))
      BY <2>6, <2>8, <2>9, Fewer, CountsTyped
  <2>12. Sweeping(d)' = Sweeping(d)
      BY <1>1 DEF Sweeping
  <2> QED
      BY <1>1, <2>4, <2>10, <2>11, <2>12, CountsTyped, CountsTypedNext, BoundGrows DEF Counted, Faultless
<1> QED
    BY <1>4, <1>5

\* A crash sets back every job that is being processed.
LEMMA CrashCounted ==
    ASSUME WebhookTypeOK, \A x \in JobIds : JobSound(x), Crash,
           NEW d \in Deliveries, Counted(d)
    PROVE  Counted(d)'
<1>1. Faulty /\ UNCHANGED <<job, stalled, posts>>
    BY DEF Crash, Faulty
<1>2. \A x \in JobIds : pc'[x] = "idle"
    BY DEF Crash
<1>3. Sweeping(d)' = 0
    BY DEF Crash, Sweeping
<1>4. \A x \in JobsOf(d) : x \in JobIds
    BY DeliveryJobs
<1>5. Due(d)' \subseteq Due(d) \cup Busy(d)
    BY <1>1, <1>2, <1>4 DEF Due, Busy, Unborn, DueSteps
<1>6. Busy(d)' \subseteq Busy(d)
    BY <1>1, <1>2, <1>4 DEF Busy, Unborn
<1>7. Sent(d)' = {}
    BY <1>2, <1>4 DEF Sent, SentSteps
<1>8. Underway(d)' \subseteq Underway(d) \cup Active(d)
    BY <1>1, <1>2, <1>4 DEF Underway, Active, Live, JobSound
<1>9. Active(d)' \subseteq Active(d)
    BY <1>1 DEF Active
<1>10. Cardinality(Due(d)') <= Cardinality(Due(d)) + Cardinality(Busy(d))
  <2>1. /\ IsFiniteSet(Due(d) \cup Busy(d))
        /\ Cardinality(Due(d) \cup Busy(d)) <= Cardinality(Due(d)) + Cardinality(Busy(d))
      BY CountsTyped, UnionCount
  <2> QED
      BY <1>5, <2>1, Fewer, CountsTyped, CountsTypedNext
<1>11. Cardinality(Underway(d)') <= Cardinality(Underway(d)) + Cardinality(Active(d))
  <2>1. /\ IsFiniteSet(Underway(d) \cup Active(d))
        /\ Cardinality(Underway(d) \cup Active(d)) <= Cardinality(Underway(d)) + Cardinality(Active(d))
      BY CountsTyped, UnionCount
  <2> QED
      BY <1>8, <2>1, Fewer, CountsTyped, CountsTypedNext
<1>12. Cardinality(Busy(d)') <= Cardinality(Busy(d)) /\ Cardinality(Active(d)') <= Cardinality(Active(d))
    BY <1>6, <1>9, Fewer, CountsTyped
<1>13. Cardinality(Sent(d)') = 0
    BY <1>7, FS_EmptySet
<1>14. /\ Bound(1)' = Bound(1) + Bound(1)
       /\ Bound(MAX_RETRY_ATTEMPTS)' = Bound(MAX_RETRY_ATTEMPTS) + Bound(MAX_RETRY_ATTEMPTS)
  <2>1. 1 \in Nat \ {0} /\ MAX_RETRY_ATTEMPTS \in Nat \ {0}
      BY WebhookAssumption
  <2> QED
      BY <1>1, <2>1, BoundFacts DEF Faulty
<1>15. posts'[d] = posts[d] /\ posts[d] \in Nat
    BY <1>1 DEF WebhookTypeOK
<1> QED
    BY <1>1, <1>3, <1>10, <1>11, <1>12, <1>13, <1>14, <1>15, CountsTyped, CountsTypedNext, BoundGrows DEF Counted

\* A sweep has read the deliveries it will queue again.
LEMMA ReadCounted ==
    ASSUME WebhookTypeOK, NEW due, ReadFailed(due), NEW d \in Deliveries, Counted(d)
    PROVE  Counted(d)'
<1>1. UNCHANGED <<job, pc, stalled, posts, faults>> /\ sweeps' = sweeps + 1
    BY DEF ReadFailed, jobVars
<1>2. Bound(1)' >= Bound(1) + 1 /\ Bound(MAX_RETRY_ATTEMPTS)' >= Bound(MAX_RETRY_ATTEMPTS) + 1
  <2>1. 1 \in Nat \ {0} /\ MAX_RETRY_ATTEMPTS \in Nat \ {0}
      BY WebhookAssumption
  <2> QED
      BY <1>1, <2>1, BoundFacts
<1>3. Bound(1) \in Nat /\ Bound(MAX_RETRY_ATTEMPTS) \in Nat /\ Bound(1)' \in Int /\ Bound(MAX_RETRY_ATTEMPTS)' \in Int
  <2>1. 1 \in Nat \ {0} /\ MAX_RETRY_ATTEMPTS \in Nat \ {0}
      BY WebhookAssumption
  <2>2. sweeps' \in Nat /\ Doubled[faults'] \in Nat
      BY <1>1, DoubledFacts, WebhookAssumption DEF WebhookTypeOK
  <2>3. Bound(1)' \in Int /\ Bound(MAX_RETRY_ATTEMPTS)' \in Int
      BY <2>1, <2>2 DEF Bound
  <2> QED
      BY <2>1, <2>3, BoundFacts
<1>4. Due(d)' = Due(d) /\ Busy(d)' = Busy(d) /\ Sent(d)' = Sent(d) /\ Underway(d)' = Underway(d)
      /\ Active(d)' = Active(d)
    BY <1>1 DEF Due, Busy, Sent, Underway, Active, Unborn, Live
<1>5. posts'[d] = posts[d] /\ posts[d] \in Nat
    BY <1>1 DEF WebhookTypeOK
<1> QED
    BY <1>2, <1>3, <1>4, <1>5, CountsTyped, CountsTypedNext DEF Counted

----------------------------------------------------------------------------
(* What is known of a job from the step it is at *)

Sound ==
    /\ \A id \in JobIds : JobSound(id)
    /\ \A d \in Deliveries : attempt[d] <= posts[d]

LEMMA SameSound ==
    ASSUME WebhookTypeOK, Sound, WebhookTypeOK', UNCHANGED <<pc, seen, posts>>,
           \A x \in JobIds : job[x] = "active" => job'[x] = "active",
           \A d \in Deliveries : attempt'[d] \in {0, attempt[d]}
    PROVE  Sound'
<1>1. \A x \in JobIds : JobSound(x)'
    BY DEF Sound, JobSound
<1>2. \A d \in Deliveries : posts[d] \in Nat
    BY DEF WebhookTypeOK
<1>3. \A d \in Deliveries : attempt'[d] <= posts'[d]
    BY <1>2 DEF Sound
<1> QED
    BY <1>1, <1>3 DEF Sound

LEMMA MoveSound ==
    ASSUME WebhookTypeOK, Sound, NEW id \in JobIds, NEW q, pc[id] # "idle",
           pc' = [pc EXCEPT ![id] = q], UNCHANGED <<job, posts, seen>>,
           q # "idle", q # "direct", q # "post",
           IsDirect(id) => q = "end",
           q \in SentSteps => pc[id] \in SentSteps,
           q = "retry" => seen[id] < MAX_RETRY_ATTEMPTS,
           \A d \in Deliveries : attempt'[d] <= posts[d]
    PROVE  Sound'
<1>1. \A x \in JobIds : pc'[x] = IF x = id THEN q ELSE pc[x]
    BY DEF WebhookTypeOK
<1>2. ASSUME NEW x \in JobIds PROVE JobSound(x)'
  <2>1. CASE x = id
      BY <1>1, <2>1 DEF Sound, JobSound
  <2>2. CASE x # id
      BY <1>1, <2>2 DEF Sound, JobSound
  <2> QED
      BY <2>1, <2>2
<1> QED
    BY <1>2 DEF Sound

\* A job has reached its end, and may have added another.
LEMMA EndSound ==
    ASSUME WebhookTypeOK, Sound, NEW id \in JobIds, pc[id] # "idle",
           pc' = [pc EXCEPT ![id] = "end"], UNCHANGED <<posts, seen, attempt>>,
           \A x \in JobIds : job[x] = "active" => job'[x] = "active"
    PROVE  Sound'
<1>1. \A x \in JobIds : pc'[x] = IF x = id THEN "end" ELSE pc[x]
    BY DEF WebhookTypeOK
<1>2. JobSound(id)'
    BY <1>1 DEF Sound, JobSound, SentSteps
<1>3. \A x \in JobIds : x # id => JobSound(x)'
    BY <1>1 DEF Sound, JobSound
<1> QED
    BY <1>2, <1>3 DEF Sound

LEMMA UpdateSound ==
    ASSUME WebhookTypeOK, Sound, NEW id \in JobIds, NEW status, NEW n, NEW next,
           UpdateRow(id, status, n, next), pc[id] # "idle", ~IsDirect(id),
           n <= posts[Target(id)],
           next \in {"end", "requeue", "touch", "retry"},
           next \in SentSteps => pc[id] \in SentSteps,
           next = "retry" => seen[id] < MAX_RETRY_ATTEMPTS
    PROVE  Sound'
<1>1. \A d \in Deliveries : attempt'[d] <= posts[d]
    BY DEF UpdateRow, WebhookTypeOK, Sound
<1>2. UNCHANGED <<job, posts, seen>>
    BY DEF UpdateRow
<1>3. PICK q \in {next, "end"} : pc' = [pc EXCEPT ![id] = q]
    BY DEF UpdateRow, Goto
<1> QED
    BY <1>1, <1>2, <1>3, MoveSound DEF SentSteps

LEMMA JobStepSound ==
    ASSUME WebhookTypeOK, WebhookTypeOK', Sound, NEW id \in JobIds, processWebhookJob(id) \/ Stalled(id)
    PROVE  Sound'
<1> USE DEF At, Goto
<1>1. JobSound(id) /\ seen[id] \in Nat
    BY DEF Sound, WebhookTypeOK
<1>2. pc[id] \notin {"idle", "direct", "end"} =>
         ~IsDirect(id) /\ Target(id) \in Deliveries /\ attempt[Target(id)] <= posts[Target(id)]
    BY <1>1, JobCases DEF JobSound, Sound
<1>3. Target(id) \in Deliveries => attempt[Target(id)] \in Nat
    BY DEF WebhookTypeOK
<1>4. posts[Target(id)] \in Nat
    BY JobCases DEF WebhookTypeOK
<1>5. CASE StartJob(id)
  <2>1. \A x \in JobIds : x # id => job'[x] = job[x] /\ pc'[x] = pc[x]
      BY <1>5 DEF StartJob, WebhookTypeOK
  <2>2. job'[id] = "active" /\ pc'[id] = IF IsDirect(id) THEN "direct" ELSE "load"
      BY <1>5 DEF StartJob, WebhookTypeOK
  <2>3. UNCHANGED <<seen, posts, attempt>>
      BY <1>5 DEF StartJob, rowVars
  <2>4. JobSound(id)'
      BY <2>2, <2>3 DEF JobSound, SentSteps
  <2>5. \A x \in JobIds : x # id => JobSound(x)'
      BY <2>1, <2>3 DEF Sound, JobSound
  <2> QED
      BY <2>3, <2>4, <2>5 DEF Sound
<1>6. CASE LoadDelivery(id)
  <2>1. UNCHANGED <<job, posts, attempt>> /\ pc[id] = "load"
      BY <1>6 DEF LoadDelivery, rowVars
  <2>2. \A x \in JobIds : x # id => pc'[x] = pc[x] /\ seen'[x] = seen[x]
      BY <1>6 DEF LoadDelivery, WebhookTypeOK
  <2>3. \/ pc'[id] \in {"end", "disable", "delay"}
        \/ pc'[id] = "post" /\ seen'[id] = attempt[Target(id)] + 1
      BY <1>6 DEF LoadDelivery, WebhookTypeOK
  <2>4. JobSound(id)'
      BY <1>1, <1>2, <1>3, <1>4, <2>1, <2>3 DEF JobSound, SentSteps
  <2>5. \A x \in JobIds : x # id => JobSound(x)'
      BY <2>1, <2>2 DEF Sound, JobSound
  <2> QED
      BY <2>1, <2>4, <2>5 DEF Sound
<1>7. CASE \E ok \in BOOLEAN : SendWebhook(id, ok)
  <2> PICK ok \in BOOLEAN : SendWebhook(id, ok)
      BY <1>7
  <2>1. UNCHANGED <<job, seen, attempt>> /\ pc[id] \in {"post", "direct"}
      BY DEF SendWebhook, rowVars
  <2>2. \A x \in JobIds : x # id => pc'[x] = pc[x]
      BY DEF SendWebhook, WebhookTypeOK
  <2>3. pc'[id] = IF IsDirect(id) THEN "end" ELSE IF Accepted(ok) THEN "record" ELSE "fail"
      BY DEF SendWebhook, WebhookTypeOK
  <2>4. posts'[Target(id)] = posts[Target(id)] + 1
      BY JobCases DEF SendWebhook, WebhookTypeOK
  <2>5. \A t \in Deliveries \cup Events : posts[t] \in Nat /\ posts'[t] \in Nat /\ posts'[t] >= posts[t]
      BY JobCases DEF SendWebhook, WebhookTypeOK
  <2>6. JobSound(id)'
      BY <1>1, <1>4, <2>1, <2>3, <2>4 DEF JobSound, SentSteps
  <2>7. ASSUME NEW x \in JobIds, x # id PROVE JobSound(x)'
    <3>1. Target(x) \in Deliveries \cup Events /\ seen[x] \in Nat
        BY JobCases DEF WebhookTypeOK
    <3> QED
        BY <2>1, <2>2, <2>5, <2>7, <3>1 DEF Sound, JobSound
  <2>8. \A d \in Deliveries : attempt'[d] <= posts'[d]
      BY <2>1, <2>5 DEF Sound, WebhookTypeOK
  <2> QED
      BY <2>6, <2>7, <2>8 DEF Sound
<1>8. CASE DisableDelivery(id)
    BY <1>2, <1>8, UpdateSound DEF DisableDelivery, SentSteps
<1>9. CASE DelayDelivery(id)
    BY <1>2, <1>9, UpdateSound DEF DelayDelivery, SentSteps
<1>10. CASE RequeueDelayed(id)
  <2>1. UNCHANGED <<posts, seen, attempt>> /\ pc' = [pc EXCEPT ![id] = "end"] /\ pc[id] = "requeue"
      BY <1>10 DEF RequeueDelayed, AfterRateLimit, rowVars
  <2>2. \A x \in JobIds : job[x] = "active" => job'[x] = "active"
      BY <1>10 DEF RequeueDelayed, AddTimed, Add, WebhookTypeOK
  <2> QED
      BY <2>1, <2>2, EndSound
<1>11. CASE RecordSuccess(id)
  <2>1. pc[id] = "record" /\ seen[id] <= posts[Target(id)] /\ UpdateRow(id, "SUCCESS", seen[id], "touch")
      BY <1>1, <1>11 DEF RecordSuccess, JobSound, SentSteps
  <2> QED
      BY <1>2, <2>1, UpdateSound DEF SentSteps
<1>12. CASE TouchWebhook(id)
  <2>1. UNCHANGED <<posts, seen, attempt, job>> /\ pc' = [pc EXCEPT ![id] = "end"] /\ pc[id] = "touch"
      BY <1>12 DEF TouchWebhook, rowVars
  <2> QED
      BY <2>1, EndSound
<1>13. CASE handleDeliveryFailure(id)
  <2>1. CASE pc[id] = "fail"
    <3>1. seen[id] <= posts[Target(id)]
        BY <1>1, <2>1 DEF JobSound, SentSteps
    <3>2. \/ UpdateRow(id, "FAILED", seen[id], "end")
          \/ UpdateRow(id, "RETRYING", seen[id], "retry") /\ seen[id] < MAX_RETRY_ATTEMPTS
        BY <1>1, <1>13, <2>1, WebhookAssumption DEF handleDeliveryFailure, GivenUp
    <3> QED
        BY <1>2, <2>1, <3>1, <3>2, UpdateSound DEF SentSteps
  <2>2. CASE pc[id] = "retry"
    <3>1. UNCHANGED <<posts, seen, attempt>> /\ pc' = [pc EXCEPT ![id] = "end"]
        BY <1>13, <2>2 DEF handleDeliveryFailure, rowVars
    <3>2. \A x \in JobIds : job[x] = "active" => job'[x] = "active"
        BY <1>13, <2>2 DEF handleDeliveryFailure, Add, WebhookTypeOK
    <3> QED
        BY <2>2, <3>1, <3>2, EndSound
  <2> QED
      BY <1>13, <2>1, <2>2 DEF handleDeliveryFailure
<1>14. CASE EndJob(id)
  <2>1. UNCHANGED <<posts, attempt>> /\ pc'[id] = "idle"
      BY <1>14 DEF EndJob, rowVars, WebhookTypeOK
  <2>2. \A x \in JobIds : x # id => pc'[x] = pc[x] /\ seen'[x] = seen[x] /\ job'[x] = job[x]
      BY <1>14 DEF EndJob, WebhookTypeOK
  <2>3. JobSound(id)'
      BY <2>1 DEF JobSound, SentSteps
  <2>4. \A x \in JobIds : x # id => JobSound(x)'
      BY <2>1, <2>2 DEF Sound, JobSound
  <2> QED
      BY <2>1, <2>3, <2>4 DEF Sound
<1>15. CASE Stalled(id)
  <2>1. UNCHANGED <<posts, attempt, pc, seen>> /\ pc[id] = "idle"
      BY <1>15 DEF Stalled, rowVars
  <2>2. \A x \in JobIds : x # id => job'[x] = job[x]
      BY <1>15 DEF Stalled, WebhookTypeOK
  <2>3. \A x \in JobIds : JobSound(x)'
      BY <2>1, <2>2 DEF Sound, JobSound
  <2> QED
      BY <2>1, <2>3 DEF Sound
<1> QED
    BY <1>5, <1>6, <1>7, <1>8, <1>9, <1>10, <1>11, <1>12, <1>13, <1>14, <1>15 DEF processWebhookJob

----------------------------------------------------------------------------
(* Every step *)

LEMMA QuietKeeps ==
    ASSUME HookInv, WebhookTypeOK', UNCHANGED <<job, stalled, pc, seen, posts>>,
           Faultless \/ Faulty, \A d \in Deliveries : sweep'[d] # "none" => sweep[d] # "none",
           \A d \in Deliveries : attempt'[d] \in {0, attempt[d]}
    PROVE  HookInv'
<1>1. Sound'
    BY SameSound DEF HookInv, Sound
<1>2. ASSUME NEW d \in Deliveries PROVE Counted(d)'
  <2>1. Due(d)' = Due(d) /\ Busy(d)' = Busy(d) /\ Sent(d)' = Sent(d) /\ Underway(d)' = Underway(d)
        /\ Active(d)' = Active(d)
      BY DEF Due, Busy, Sent, Underway, Active, Unborn, Live
  <2> QED
      BY <2>1, CountedShrinks DEF HookInv
<1> QED
    BY <1>1, <1>2 DEF HookInv, Sound

LEMMA HookCallsKeep ==
    ASSUME HookInv, \/ WebhookStep
                    \/ \E r \in Repayments : triggerEvent(r)
                    \/ \E w \in Webhooks : NextWindow(w)
    PROVE  HookInv'
<1> USE DEF rowVars, jobVars, boundVars
<1>1. WebhookTypeOK /\ Sound /\ WebhookTypeOK'
    BY HookCallsTyped DEF HookInv, Sound
<1>2. CASE \E w \in Webhooks, state \in Registered : registerWebhook(w, state) \/ updateWebhook(w, state)
    BY <1>1, <1>2, QuietKeeps DEF registerWebhook, updateWebhook, Faultless
<1>3. CASE \E w \in Webhooks : deleteWebhook(w)
    BY <1>1, <1>3, QuietKeeps DEF deleteWebhook, Faultless
<1>4. CASE \E w \in Webhooks, e \in Tests : testWebhook(w, e)
    BY <1>1, <1>4, QuietKeeps DEF testWebhook, Faultless
<1>5. CASE \E due \in SUBSET Deliveries : ReadFailed(due)
  <2>1. \A d \in Deliveries : Counted(d)'
      BY <1>1, <1>5, ReadCounted DEF HookInv
  <2>2. Sound'
      BY <1>1, <1>5, SameSound DEF ReadFailed
  <2> QED
      BY <1>1, <2>1, <2>2 DEF HookInv, Sound
<1>6. CASE \E d \in Deliveries : MarkFailed(d)
  <2>1. UNCHANGED <<job, stalled, pc, seen, posts, attempt, faults, sweeps>>
      BY <1>6 DEF MarkFailed
  <2>2. \A d \in Deliveries : sweep'[d] # "none" => sweep[d] # "none"
      BY <1>1, <1>6 DEF MarkFailed, WebhookTypeOK
  <2> QED
      BY <1>1, <2>1, <2>2, QuietKeeps DEF Faultless
<1>7. CASE \E d \in Deliveries : QueueFailed(d)
  <2>1. \A d \in Deliveries : Counted(d)'
      BY <1>1, <1>7, SweepCounted DEF HookInv
  <2>2. UNCHANGED <<pc, seen, posts, attempt>>
      BY <1>7 DEF QueueFailed
  <2>3. \A x \in JobIds : job[x] = "active" => job'[x] = "active"
      BY <1>1, <1>7 DEF QueueFailed, AddTimed, Add, WebhookTypeOK
  <2>4. Sound'
      BY <1>1, <2>2, <2>3, SameSound
  <2> QED
      BY <1>1, <2>1, <2>4 DEF HookInv, Sound
<1>8. CASE \E e \in Events \cup Tests : AddDeliveryFails(e)
    BY <1>1, <1>8, QuietKeeps DEF AddDeliveryFails, Faulty
<1>9. CASE \E id \in JobIds : DatabaseError(id)
  <2> PICK id \in JobIds : DatabaseError(id)
      BY <1>9
  <2> DEFINE q == IF pc[id] \in {"record", "touch"} THEN "fail" ELSE "end"
  <2>1. /\ pc' = [pc EXCEPT ![id] = q] /\ Faulty /\ UNCHANGED <<job, stalled, posts, sweep, seen, attempt>>
        /\ pc[id] \in {"load", "disable", "delay", "requeue", "record", "touch", "fail", "retry"}
      BY DEF DatabaseError, Goto, Faulty
  <2>2. ~IsDirect(id)
      BY <2>1 DEF HookInv, JobSound
  <2>3. Sound'
      BY <1>1, <2>1, <2>2, MoveSound DEF SentSteps, Sound
  <2>4. \A d \in Deliveries : Counted(d)'
      BY <1>1, <2>1, MoveCounted DEF HookInv, SentSteps, DueSteps
  <2> QED
      BY <1>1, <2>3, <2>4 DEF HookInv, Sound
<1>10. CASE \E r \in Repayments : triggerEvent(r)
    BY <1>1, <1>10, QuietKeeps DEF triggerEvent, Faultless
<1>11. CASE \E w \in Webhooks : NextWindow(w)
    BY <1>1, <1>11, QuietKeeps DEF NextWindow, Faultless
<1> QED
    BY <1>2, <1>3, <1>4, <1>5, <1>6, <1>7, <1>8, <1>9, <1>10, <1>11 DEF WebhookStep, retryFailedWebhooks

LEMMA UpdateCounted ==
    ASSUME WebhookTypeOK, NEW id \in JobIds, NEW status, NEW n, NEW next,
           UpdateRow(id, status, n, next), pc[id] \notin {"idle", "end"},
           next \in {"end", "requeue", "touch", "retry"},
           next \in DueSteps => pc[id] \in DueSteps, next \in SentSteps => pc[id] \in SentSteps,
           NEW d \in Deliveries, Counted(d)
    PROVE  Counted(d)'
<1>1. UNCHANGED <<job, stalled, posts, sweep, faults, sweeps>>
    BY DEF UpdateRow, boundVars
<1>2. PICK q \in {next, "end"} : pc' = [pc EXCEPT ![id] = q]
    BY DEF UpdateRow, Goto
<1> QED
    BY <1>1, <1>2, MoveCounted DEF Faultless, DueSteps, SentSteps

LEMMA JobStepCounted ==
    ASSUME HookInv, NEW id \in JobIds, processWebhookJob(id) \/ Stalled(id),
           NEW d \in Deliveries
    PROVE  Counted(d)'
<1> USE DEF At, Goto
<1>1. WebhookTypeOK /\ (\A x \in JobIds : JobSound(x)) /\ Counted(d)
    BY DEF HookInv
<1>2. CASE StartJob(id)
    BY <1>1, <1>2, StartCounted
<1>3. CASE LoadDelivery(id)
  <2>1. UNCHANGED <<job, stalled, posts, sweep, faults, sweeps>> /\ pc[id] = "load"
      BY <1>3 DEF LoadDelivery, boundVars
  <2>2. PICK q \in {"end", "disable", "delay", "post"} : pc' = [pc EXCEPT ![id] = q]
      BY <1>3 DEF LoadDelivery
  <2> QED
      BY <1>1, <2>1, <2>2, MoveCounted DEF Faultless, DueSteps, SentSteps
<1>4. CASE \E ok \in BOOLEAN : SendWebhook(id, ok)
    BY <1>1, <1>4, PostCounted
<1>5. CASE DisableDelivery(id)
    BY <1>1, <1>5, UpdateCounted DEF DisableDelivery, DueSteps, SentSteps
<1>6. CASE DelayDelivery(id)
    BY <1>1, <1>6, UpdateCounted DEF DelayDelivery, DueSteps, SentSteps
<1>7. CASE RequeueDelayed(id)
    BY <1>1, <1>7, HandOnCounted
<1>8. CASE RecordSuccess(id)
    BY <1>1, <1>8, UpdateCounted DEF RecordSuccess, DueSteps, SentSteps
<1>9. CASE TouchWebhook(id)
  <2>1. UNCHANGED <<job, stalled, posts, sweep, faults, sweeps>> /\ pc[id] = "touch"
        /\ pc' = [pc EXCEPT ![id] = "end"]
      BY <1>9 DEF TouchWebhook, boundVars
  <2> QED
      BY <1>1, <2>1, MoveCounted DEF Faultless, DueSteps, SentSteps
<1>10. CASE handleDeliveryFailure(id)
  <2>1. CASE pc[id] = "retry"
      BY <1>1, <1>10, <2>1, HandOnCounted
  <2>2. CASE pc[id] # "retry"
      BY <1>1, <1>10, <2>2, UpdateCounted DEF handleDeliveryFailure, DueSteps, SentSteps
  <2> QED
      BY <2>1, <2>2
<1>11. CASE EndJob(id) \/ Stalled(id)
    BY <1>1, <1>11, LeaveCounted
<1> QED
    BY <1>2, <1>3, <1>4, <1>5, <1>6, <1>7, <1>8, <1>9, <1>10, <1>11 DEF processWebhookJob

LEMMA AddKeeps ==
    ASSUME HookInv, WebhookTypeOK', NEW new, Add(new),
           \A x \in Deliveries : new \in JobsOf(x) => new = First(x),
           UNCHANGED <<pc, stalled, posts, sweep, faults, sweeps, seen, attempt>>
    PROVE  HookInv'
<1>1. \A d \in Deliveries : Counted(d)'
    BY AddCounted DEF HookInv
<1>2. \A x \in JobIds : job[x] = "active" => job'[x] = "active"
    BY DEF Add, HookInv, WebhookTypeOK
<1>3. Sound'
    BY <1>2, SameSound DEF HookInv, Sound
<1> QED
    BY <1>1, <1>3 DEF HookInv, Sound

LEMMA HookNext == HookInv /\ [Next]_vars => HookInv'
<1> SUFFICES ASSUME HookInv, [Next]_vars PROVE HookInv'
    OBVIOUS
<1>1. WebhookTypeOK /\ Sound
    BY DEF HookInv, Sound
<1>2. CASE UNCHANGED hookVars
  <2>1. WebhookTypeOK'
      BY <1>1, <1>2, QueueingTyped
  <2> QED
      BY <1>2, <2>1, QuietKeeps DEF hookVars, rowVars, jobVars, boundVars, Faultless
<1>3. CASE WebhookStep \/ (\E r \in Repayments : triggerEvent(r)) \/ (\E w \in Webhooks : NextWindow(w))
    BY <1>3, HookCallsKeep
<1>4. CASE \E id \in JobIds : processWebhookJob(id) \/ Stalled(id)
  <2> PICK id \in JobIds : processWebhookJob(id) \/ Stalled(id)
      BY <1>4
  <2>1. WebhookTypeOK'
      BY <1>1, JobStepsTyped DEF Sound
  <2>2. Sound'
      BY <1>1, <2>1, JobStepSound
  <2>3. \A d \in Deliveries : Counted(d)'
      BY JobStepCounted
  <2> QED
      BY <2>1, <2>2, <2>3 DEF HookInv, Sound
<1>5. CASE \E w \in Webhooks, e \in Events \cup Tests : queueWebhookDelivery(w, e)
  <2> PICK w \in Webhooks, e \in Events \cup Tests : queueWebhookDelivery(w, e)
      BY <1>5
  <2>1. WebhookTypeOK'
      BY <1>1, <1>5, QueueingTyped
  <2>2. CASE CreateDelivery(w, e)
      BY <2>1, <2>2, QuietKeeps DEF CreateDelivery, jobVars, boundVars, Faultless
  <2>3. CASE AddDelivery(w, e)
    <3>1. \A x \in Deliveries : First(<<w, e>>) \in JobsOf(x) => First(<<w, e>>) = First(x)
        BY DeliveryJobs DEF First, Target
    <3>2. Add(First(<<w, e>>))
        BY <2>3 DEF AddDelivery
    <3> QED
        BY <2>1, <2>3, <3>1, <3>2, AddKeeps DEF AddDelivery, rowVars, boundVars
  <2> QED
      BY <2>2, <2>3 DEF queueWebhookDelivery
<1>6. CASE \E r \in Repayments : /\ Add(PaymentJob(r))
                                 /\ UNCHANGED <<rowVars, fanout, adding, sweep, stalled, pc, seen, rate, posts, boundVars>>
  <2> PICK r \in Repayments : /\ Add(PaymentJob(r))
                              /\ UNCHANGED <<rowVars, fanout, adding, sweep, stalled, pc, seen, rate, posts, boundVars>>
      BY <1>6
  <2>1. WebhookTypeOK'
      BY <1>1, <1>6, QueueingTyped
  <2>2. \A x \in Deliveries : PaymentJob(r) \notin JobsOf(x)
      BY DeliveryJobs DEF PaymentJob, Direct, IsDirect
  <2> QED
      BY <2>1, <2>2, AddKeeps DEF rowVars, boundVars
<1>7. CASE Crash
  <2>1. WebhookTypeOK'
      BY <1>1, <1>7, QueueingTyped
  <2>2. \A d \in Deliveries : Counted(d)'
      BY <1>1, <1>7, CrashCounted DEF HookInv
  <2>3. UNCHANGED <<job, posts, attempt>> /\ \A id \in JobIds : pc'[id] = "idle"
      BY <1>7 DEF Crash, rowVars
  <2>4. Sound'
      BY <1>1, <2>3 DEF Sound, JobSound, SentSteps
  <2> QED
      BY <2>1, <2>2, <2>4 DEF HookInv, Sound
<1>8. CASE \E r \in Repayments : handlePaymentReceived(r)
  <2> PICK r \in Repayments : handlePaymentReceived(r)
      BY <1>8
  <2>1. CASE HasWebhook(r) /\ r \in notices /\ Add(PaymentJob(r))
             /\ UNCHANGED <<rowVars, fanout, adding, sweep, stalled, pc, seen, rate, posts, boundVars>>
      BY <1>6, <2>1
  <2>2. CASE UNCHANGED job /\ UNCHANGED <<rowVars, fanout, adding, sweep, stalled, pc, seen, rate, posts, boundVars>>
      BY <1>2, <2>2 DEF hookVars, jobVars
  <2>3. CASE triggerEvent(r)
      BY <1>3, <2>3
  <2> QED
      BY <2>1, <2>2, <2>3 DEF handlePaymentReceived
<1> QED
    BY <1>2, <1>3, <1>4, <1>5, <1>7, <1>8
    DEF Next, ServerStep, DeliverStep, MinutesPass, ServerCrash, vars

LEMMA HookInitial == Init => HookInv
<1> SUFFICES ASSUME Init PROVE HookInv
    OBVIOUS
<1> USE WebhookAssumption
<1>1. WebhookTypeOK
    BY DEF Init, WebhookInit, WebhookTypeOK, Statuses, Registered
<1>2. Sound
    BY <1>1 DEF Init, WebhookInit, Sound, JobSound, SentSteps
<1>3. Bound(1) = 1 /\ Bound(MAX_RETRY_ATTEMPTS) = MAX_RETRY_ATTEMPTS
    BY DoubledFacts DEF Init, WebhookInit, Bound
<1>4. ASSUME NEW d \in Deliveries PROVE Counted(d)
  <2> DEFINE new == {id \in JobsOf(d) : \/ id[2] = "delivery"
                                        \/ id[2] = "retry" /\ id[3] < MAX_RETRY_ATTEMPTS}
  <2>1. \A x \in JobsOf(d) : x \in JobIds /\ (x[2] = "delivery" <=> x = First(d))
      BY DeliveryJobs
  <2>2. Due(d) = new /\ Busy(d) = new
      BY <2>1 DEF Init, WebhookInit, Due, Busy, Unborn, DueSteps
  <2>3. Sent(d) = {} /\ Underway(d) = {First(d)} /\ Active(d) = {First(d)}
      BY <2>1, DeliveryJobs DEF Init, WebhookInit, Sent, SentSteps, Underway, Active, Live
  <2>4. posts[d] = 0 /\ Sweeping(d) = 0
      BY DEF Init, WebhookInit, Sweeping
  <2>5. Cardinality(new) <= MAX_RETRY_ATTEMPTS
    <3> DEFINE f == [n \in 0 .. (MAX_RETRY_ATTEMPTS - 1) |-> IF n = 0 THEN First(d) ELSE Retry(d, n)]
    <3>1. f \in Surjection(0 .. (MAX_RETRY_ATTEMPTS - 1), new)
      <4>1. \A n \in 0 .. (MAX_RETRY_ATTEMPTS - 1) : f[n] \in new
          BY DeliveryJobs DEF First, Retry
      <4>2. ASSUME NEW x \in new PROVE \E n \in 0 .. (MAX_RETRY_ATTEMPTS - 1) : f[n] = x
        <5>1. CASE x[2] = "delivery"
          <6>1. f[0] = x /\ 0 \in 0 .. (MAX_RETRY_ATTEMPTS - 1)
              BY <2>1, <5>1
          <6> QED
              BY <6>1
        <5>2. CASE x[2] = "retry" /\ x[3] < MAX_RETRY_ATTEMPTS
          <6>1. PICK n \in 1 .. MAX_RETRY_ATTEMPTS : x = Retry(d, n)
              BY <5>2 DEF JobsOf, First, Timed
          <6>2. n \in 0 .. (MAX_RETRY_ATTEMPTS - 1) /\ f[n] = x
              BY <5>2, <6>1 DEF Retry
          <6> QED
              BY <6>2
        <5> QED
            BY <5>1, <5>2
      <4> QED
          BY <4>1, <4>2 DEF Surjection
    <3>2. IsFiniteSet(0 .. (MAX_RETRY_ATTEMPTS - 1)) /\ Cardinality(0 .. (MAX_RETRY_ATTEMPTS - 1)) = MAX_RETRY_ATTEMPTS
      <4>1. 0 \in Int /\ MAX_RETRY_ATTEMPTS - 1 \in Int /\ ~(0 > MAX_RETRY_ATTEMPTS - 1)
          OBVIOUS
      <4>2. MAX_RETRY_ATTEMPTS - 1 - 0 + 1 = MAX_RETRY_ATTEMPTS
          OBVIOUS
      <4> QED
          BY <4>1, <4>2, FS_Interval
    <3> HIDE DEF f, new
    <3> QED
        BY <3>1, <3>2, FS_Surjection
  <2>6. Cardinality({First(d)}) = 1 /\ Cardinality({}) = 0
      BY FS_Singleton, FS_EmptySet
  <2> HIDE DEF new
  <2>7. Cardinality(new) \in Nat
      BY <2>2, CountsTyped
  <2> QED
      BY <1>3, <2>2, <2>3, <2>4, <2>5, <2>6, <2>7 DEF Counted
<1> QED
    BY <1>1, <1>2, <1>4 DEF HookInv, Sound

LEMMA HookAlways == Spec => []HookInv
    BY HookInitial, HookNext, PTL DEF Spec

----------------------------------------------------------------------------
(* Without faults and sweeps a delivery goes from the event to its row, to    *)
(* its first job and from job to job, and is at one of these places until it  *)
(* is settled.                                                                *)

Fresh(d) == row[d] = "none" /\ job[First(d)] = "none"

\* What a job under way has read is what the row says.
StepFits(d, id) ==
    /\ pc[id] \in {"post", "record", "fail"} => seen[id] = attempt[d] + 1
    /\ pc[id] = "touch" => row[d] = "SUCCESS"
    /\ pc[id] = "retry" => seen[id] = attempt[d] /\ job[Retry(d, seen[id])] = "none"

Ordered(d) ==
    /\ sweep[d] = "none"
    /\ row[d] = "none" => attempt[d] = 0
    /\ d[1] \in fanout[d[2]] => Fresh(d) /\ d[1] \notin adding[d[2]]
    /\ d[1] \in adding[d[2]] => adding[d[2]] = {d[1]} /\ attempt[d] = 0 /\ job[First(d)] = "none"
    /\ job[First(d)] = "none" => \A n \in 1 .. MAX_RETRY_ATTEMPTS : job[Retry(d, n)] = "none"
    /\ row[d] # "none" =>
         /\ \A n \in 1 .. MAX_RETRY_ATTEMPTS : job[Retry(d, n)] # "none" => n <= attempt[d]
         /\ \A id \in JobsOf(d) : StepFits(d, id)
    /\ row[d] \in {"PENDING", "RETRYING"} => LiveJobs(d) # {} \/ d[1] \in adding[d[2]]
    /\ \A id \in JobsOf(d) : job[id] = "active" => pc[id] # "idle"

\* A repayment whose event is still to be handled has left nothing yet.
Told(r) ==
    /\ repayment[r] = Nothing => r \notin notices
    /\ r \in handling => r \notin notices /\ repayment[r] # Nothing
    /\ repayment[r] = Nothing \/ r \in notices \/ r \in handling =>
         /\ fanout[r] = {} /\ adding[r] = {}
         /\ \A w \in Webhooks : Fresh(<<w, r>>)

Chained == Undisturbed /\ (\A d \in Deliveries : Ordered(d)) /\ (\A r \in Repayments : Told(r))

ChainInv == Undisturbed => Chained

LEMMA Alone ==
    ASSUME HookInv, Undisturbed, NEW d \in Deliveries, NEW x \in Underway(d), NEW y \in Underway(d)
    PROVE  x = y
<1> SUFFICES ASSUME x # y PROVE FALSE
    OBVIOUS
<1>1. Cardinality(Underway(d)) <= 1
  <2>1. Bound(1) = 1
      BY DoubledFacts DEF Bound, Undisturbed
  <2> QED
      BY <2>1, CountsTyped DEF HookInv, Counted
<1>2. Cardinality({y}) <= Cardinality(Underway(d)) - 1
    BY OneLess, CountsTyped
<1>3. Cardinality({y}) = 1
    BY FS_Singleton
<1> QED
    BY <1>1, <1>2, <1>3, CountsTyped

LEMMA OrderedSame ==
    ASSUME NEW d \in Deliveries, Ordered(d),
           \A x \in JobsOf(d) : job'[x] = job[x] /\ pc'[x] = pc[x] /\ seen'[x] = seen[x],
           row'[d] = row[d], attempt'[d] = attempt[d], sweep'[d] = sweep[d],
           d[1] \in fanout'[d[2]] => d[1] \in fanout[d[2]],
           d[1] \in adding'[d[2]] <=> d[1] \in adding[d[2]],
           d[1] \in adding'[d[2]] => adding'[d[2]] = adding[d[2]],
           HookInv
    PROVE  Ordered(d)'
<1>1. First(d) \in JobsOf(d) /\ \A n \in 1 .. MAX_RETRY_ATTEMPTS : Retry(d, n) \in JobsOf(d)
    BY DeliveryJobs
<1>2. LiveJobs(d)' = LiveJobs(d)
    BY DEF LiveJobs, Live
<1>3. ASSUME NEW id \in JobsOf(d), StepFits(d, id) PROVE StepFits(d, id)'
  <2>1. pc[id] = "retry" => seen[id] \in 1 .. MAX_RETRY_ATTEMPTS
      BY DeliveryJobs, WebhookAssumption DEF HookInv, JobSound, SentSteps, WebhookTypeOK
  <2> QED
      BY <1>1, <1>3, <2>1 DEF StepFits
<1> QED
    BY <1>1, <1>2, <1>3 DEF Ordered, Fresh

\* The one job under way goes a step further.
LEMMA LiveStep ==
    ASSUME HookInv, Undisturbed, NEW d \in Deliveries, Ordered(d), NEW id \in JobsOf(d), Live(id),
           UNCHANGED <<fanout, adding, sweep>>,
           \A x \in JobsOf(d) : x # id => pc'[x] = pc[x] /\ seen'[x] = seen[x],
           \A x \in JobsOf(d) : x # id /\ job[x] # "none" => job'[x] = job[x],
           \A x \in JobsOf(d) : job[x] = "none" => job'[x] \in {"none", "queued"},
           job'[id] = "active", pc'[id] # "idle",
           row'[d] = "none" => attempt'[d] = 0,
           row'[d] # "none" => row[d] # "none" /\ attempt[d] <= attempt'[d] /\ StepFits(d, id)',
           attempt[d] \in Nat, attempt'[d] \in Nat,
           row'[d] # "none" => \A n \in 1 .. MAX_RETRY_ATTEMPTS :
              job'[Retry(d, n)] # job[Retry(d, n)] => Retry(d, n) = id \/ n <= attempt'[d],
           row'[d] \in {"PENDING", "RETRYING"} =>
              pc'[id] # "end" \/ \E x \in JobsOf(d) : job'[x] = "queued" /\ pc'[x] # "end"
    PROVE  Ordered(d)'
<1>1. First(d) \in JobsOf(d) /\ \A n \in 1 .. MAX_RETRY_ATTEMPTS : Retry(d, n) \in JobsOf(d)
    BY DeliveryJobs
<1>2. id \in Underway(d)
    BY DEF Underway
<1>3. job[First(d)] # "none"
  <2> SUFFICES ASSUME job[First(d)] = "none" PROVE FALSE
      OBVIOUS
  <2>1. First(d) \in Underway(d)
      BY <1>1 DEF Underway
  <2>2. id = First(d)
      BY <1>2, <2>1, Alone
  <2> QED
      BY <2>2 DEF Live
<1>4. \A x \in JobsOf(d) : x # id => ~Live(x)
  <2> SUFFICES ASSUME NEW x \in JobsOf(d), x # id, Live(x) PROVE FALSE
      OBVIOUS
  <2>1. x \in Underway(d)
      BY DEF Underway
  <2> QED
      BY <1>2, <2>1, Alone
<1>5. \A x \in JobsOf(d) : x # id => pc[x] \in {"idle", "end"}
    BY <1>4, DeliveryJobs DEF HookInv, JobSound, Live
<1>6. d[1] \notin fanout[d[2]] /\ d[1] \notin adding[d[2]]
    BY <1>3 DEF Ordered, Fresh
<1>7. job'[First(d)] # "none"
    BY <1>1, <1>3
<1>8. ASSUME row'[d] # "none" PROVE \A x \in JobsOf(d) : StepFits(d, x)'
  <2>1. \A x \in JobsOf(d) : x # id => StepFits(d, x)'
      BY <1>5 DEF StepFits
  <2> QED
      BY <1>8, <2>1
<1>9. ASSUME row'[d] # "none", NEW n \in 1 .. MAX_RETRY_ATTEMPTS, job'[Retry(d, n)] # "none"
      PROVE  n <= attempt'[d]
  <2>1. CASE job'[Retry(d, n)] = job[Retry(d, n)] \/ Retry(d, n) = id
    <3>1. job[Retry(d, n)] # "none"
        BY <1>9, <2>1 DEF Live
    <3> QED
        BY <1>9, <3>1 DEF Ordered
  <2>2. CASE job'[Retry(d, n)] # job[Retry(d, n)] /\ Retry(d, n) # id
      BY <1>9, <2>2
  <2> QED
      BY <2>1, <2>2
<1>10. ASSUME row'[d] \in {"PENDING", "RETRYING"} PROVE LiveJobs(d)' # {}
  <2>1. CASE pc'[id] # "end"
    <3>1. id \in LiveJobs(d)'
        BY <2>1 DEF LiveJobs, Live
    <3> QED
        BY <3>1
  <2>2. ASSUME NEW x \in JobsOf(d), job'[x] = "queued", pc'[x] # "end" PROVE LiveJobs(d)' # {}
    <3>1. x \in LiveJobs(d)'
        BY <2>2 DEF LiveJobs, Live
    <3> QED
        BY <3>1
  <2> QED
      BY <1>10, <2>1, <2>2
<1>11. \A x \in JobsOf(d) : job'[x] = "active" => pc'[x] # "idle"
    BY DEF Ordered
<1> QED
    BY <1>6, <1>7, <1>8, <1>9, <1>10, <1>11 DEF Ordered

LEMMA ToldSame ==
    ASSUME \A r \in Repayments : Told(r), UNCHANGED <<repayment, notices, handling>>,
           \A e \in Repayments : fanout[e] = {} /\ adding[e] = {} => fanout'[e] = {} /\ adding'[e] = {},
           \A d \in Deliveries : Fresh(d) /\ fanout[d[2]] = {} /\ adding[d[2]] = {} => Fresh(d)'
    PROVE  \A r \in Repayments : Told(r)'
<1> SUFFICES ASSUME NEW r \in Repayments PROVE Told(r)'
    OBVIOUS
<1>1. \A w \in Webhooks : <<w, r>> \in Deliveries /\ <<w, r>>[2] = r
    BY PaymentAssumption DEF Deliveries
<1> QED
    BY <1>1 DEF Told

LEMMA QuietChain ==
    ASSUME HookInv, Chained, UNCHANGED <<repayment, notices, handling>>,
           UNCHANGED <<row, attempt, sweep, fanout, adding, pc, seen>>,
           \A x \in JobIds : ~IsDirect(x) => job'[x] = job[x]
    PROVE  ChainInv'
<1>1. ASSUME NEW d \in Deliveries PROVE Ordered(d)'
  <2>1. \A x \in JobsOf(d) : job'[x] = job[x]
      BY DeliveryJobs
  <2> QED
      BY <2>1, OrderedSame DEF Chained
<1>2. ASSUME NEW d \in Deliveries, Fresh(d) PROVE Fresh(d)'
    BY <1>2, DeliveryJobs DEF Fresh
<1>3. \A r \in Repayments : Told(r)'
    BY <1>2, ToldSame DEF Chained
<1> QED
    BY <1>1, <1>3 DEF Chained, ChainInv

LEMMA DeleteChain ==
    ASSUME HookInv, Chained, UNCHANGED <<repayment, notices, handling>>,
           NEW w \in Webhooks, deleteWebhook(w)
    PROVE  ChainInv'
<1>1. UNCHANGED <<sweep, fanout, adding, job, pc, seen>>
    BY DEF deleteWebhook, jobVars
<1>2. ASSUME NEW d \in Deliveries PROVE Ordered(d)'
  <2>1. CASE d[1] # w
    <3>1. row'[d] = row[d] /\ attempt'[d] = attempt[d]
        BY <2>1 DEF deleteWebhook
    <3> QED
        BY <1>1, <3>1, OrderedSame DEF Chained
  <2>2. CASE d[1] = w
    <3>1. row'[d] = "none" /\ attempt'[d] = 0
        BY <2>2 DEF deleteWebhook
    <3> QED
        BY <1>1, <3>1 DEF Chained, Ordered, Fresh
  <2> QED
      BY <2>1, <2>2
<1>3. ASSUME NEW d \in Deliveries, Fresh(d) PROVE Fresh(d)'
    BY <1>1, <1>3 DEF Fresh, deleteWebhook
<1>4. \A r \in Repayments : Told(r)'
    BY <1>1, <1>3, ToldSame DEF Chained
<1> QED
    BY <1>2, <1>4 DEF Chained, ChainInv

LEMMA TestChain ==
    ASSUME HookInv, Chained, UNCHANGED <<repayment, notices, handling>>,
           NEW w \in Webhooks, NEW e \in Tests, testWebhook(w, e)
    PROVE  ChainInv'
<1>1. UNCHANGED <<row, attempt, sweep, adding, job, pc, seen>>
    BY DEF testWebhook, jobVars, rowVars
<1>2. fanout' = [fanout EXCEPT ![e] = {w}] /\ fanout \in [Events \cup Tests -> SUBSET Webhooks]
    BY DEF testWebhook, HookInv, WebhookTypeOK
<1>3. ASSUME NEW d \in Deliveries PROVE Ordered(d)'
  <2>1. d = <<d[1], d[2]>> /\ d[2] \in Events \cup Tests
      BY DEF Deliveries
  <2>2. CASE d # <<w, e>>
    <3>1. d[1] \in fanout'[d[2]] => d[1] \in fanout[d[2]]
        BY <1>2, <2>1, <2>2
    <3> QED
        BY <1>1, <3>1, OrderedSame DEF Chained
  <2>3. CASE d = <<w, e>>
    <3>1. Fresh(d)' /\ adding'[d[2]] = {}
        BY <1>1, <2>3 DEF testWebhook, Fresh, Exists
    <3>2. First(d) \in JobsOf(d) /\ \A n \in 1 .. MAX_RETRY_ATTEMPTS : Retry(d, n) \in JobsOf(d)
        BY DeliveryJobs
    <3> QED
        BY <1>1, <3>1 DEF Chained, Ordered, Fresh
  <2> QED
      BY <2>2, <2>3
<1>4. ASSUME NEW d \in Deliveries, Fresh(d) PROVE Fresh(d)'
    BY <1>1, <1>4 DEF Fresh
<1>5. \A r \in Repayments : fanout'[r] = fanout[r]
    BY <1>2, WebhookAssumption, PaymentAssumption
<1>6. \A r \in Repayments : Told(r)'
    BY <1>1, <1>4, <1>5, ToldSame DEF Chained
<1> QED
    BY <1>3, <1>6 DEF Chained, ChainInv

LEMMA TriggerChain ==
    ASSUME HookInv, Chained, UNCHANGED <<repayment, notices>>, NEW r \in Repayments, r \in handling,
           triggerEvent(r), handling' = handling \ {r}
    PROVE  ChainInv'
<1>1. UNCHANGED <<row, attempt, sweep, adding, job, pc, seen>>
    BY DEF triggerEvent, jobVars, rowVars
<1>2. /\ \A e \in Events \cup Tests : e # r => fanout'[e] = fanout[e]
      /\ fanout'[r] \subseteq Webhooks
    BY PaymentAssumption DEF triggerEvent, HookInv, WebhookTypeOK
<1>3. Told(r) /\ adding[r] = {} /\ \A w \in Webhooks : Fresh(<<w, r>>)
    BY DEF Chained, Told
<1>4. ASSUME NEW d \in Deliveries PROVE Ordered(d)'
  <2>1. d = <<d[1], d[2]>> /\ d[2] \in Events \cup Tests /\ d[1] \in Webhooks
      BY DEF Deliveries
  <2>2. CASE d[2] # r
      BY <1>1, <1>2, <2>1, <2>2, OrderedSame DEF Chained
  <2>3. CASE d[2] = r
    <3>1. Fresh(d)' /\ adding'[d[2]] = {}
        BY <1>1, <1>3, <2>1, <2>3 DEF Fresh
    <3> QED
        BY <1>1, <3>1 DEF Chained, Ordered, Fresh
  <2> QED
      BY <2>2, <2>3
<1>5. ASSUME NEW q \in Repayments PROVE Told(q)'
  <2>1. CASE q = r
      BY <1>3, <2>1 DEF Told
  <2>2. CASE q # r
    <3>1. fanout'[q] = fanout[q]
        BY <1>2, <2>2, PaymentAssumption
    <3>2. Told(q)
        BY DEF Chained
    <3> QED
        BY <1>1, <2>2, <3>1, <3>2 DEF Told, Fresh
  <2> QED
      BY <2>1, <2>2
<1> QED
    BY <1>4, <1>5 DEF Chained, ChainInv

LEMMA CreateChain ==
    ASSUME HookInv, Chained, UNCHANGED <<repayment, notices, handling>>,
           NEW w \in Webhooks, NEW e \in Events \cup Tests, CreateDelivery(w, e)
    PROVE  ChainInv'
<1>1. UNCHANGED <<attempt, sweep, job, pc, seen>> /\ w \in fanout[e] /\ adding[e] = {}
    BY DEF CreateDelivery, jobVars
<1>2. /\ row \in [Deliveries -> Statuses] /\ fanout \in [Events \cup Tests -> SUBSET Webhooks]
      /\ adding \in [Events \cup Tests -> SUBSET Webhooks]
    BY DEF HookInv, WebhookTypeOK
<1>3. /\ \A x \in Events \cup Tests : x # e => fanout'[x] = fanout[x] /\ adding'[x] = adding[x]
      /\ fanout'[e] \subseteq fanout[e]
      /\ \A d \in Deliveries : d # <<w, e>> => row'[d] = row[d]
    BY <1>2 DEF CreateDelivery
<1>4. \/ row'[<<w, e>>] = "PENDING" /\ adding'[e] = {w} /\ w \notin fanout'[e]
      \/ row'[<<w, e>>] = row[<<w, e>>] /\ adding'[e] = {} /\ fanout'[e] = {}
    BY <1>1, <1>2 DEF CreateDelivery, Deliveries
<1>5. ASSUME NEW d \in Deliveries PROVE Ordered(d)'
  <2>1. d = <<d[1], d[2]>> /\ d[2] \in Events \cup Tests /\ d[1] \in Webhooks
      BY DEF Deliveries
  <2>2. CASE d # <<w, e>> /\ d[2] = e
    <3>1. d[1] # w
        BY <2>1, <2>2
    <3>2. d[1] \notin adding'[e] /\ d[1] \notin adding[e]
        BY <1>1, <1>4, <3>1
    <3> QED
        BY <1>1, <1>3, <2>2, <3>2, OrderedSame DEF Chained
  <2>3. CASE d[2] # e
      BY <1>1, <1>3, <2>1, <2>3, OrderedSame DEF Chained
  <2>4. CASE d = <<w, e>>
    <3>1. d[1] = w /\ d[2] = e
        BY <2>4
    <3>2. Fresh(d) /\ attempt[d] = 0 /\ Ordered(d)
        BY <1>1, <3>1 DEF Chained, Ordered, Fresh
    <3>3. CASE row'[d] = row[d] /\ adding'[e] = {} /\ fanout'[e] = {}
        BY <1>1, <3>1, <3>2, <3>3, OrderedSame
    <3>4. CASE row'[d] = "PENDING" /\ adding'[e] = {w} /\ w \notin fanout'[e]
      <4>1. \A x \in JobsOf(d) : pc[x] \in {"idle", "end"}
        <5> SUFFICES ASSUME NEW x \in JobsOf(d), pc[x] \notin {"idle", "end"} PROVE FALSE
            OBVIOUS
        <5>1. job[x] = "active"
            BY DeliveryJobs DEF HookInv, JobSound
        <5>2. x \in Underway(d) /\ First(d) \in Underway(d)
            BY <3>2, <5>1, DeliveryJobs DEF Underway, Live, Fresh
        <5>3. x = First(d)
            BY <5>2, Alone DEF Chained
        <5> QED
            BY <3>2, <5>1, <5>3 DEF Fresh
      <4>2. \A x \in JobsOf(d) : StepFits(d, x)'
          BY <1>1, <4>1 DEF StepFits
      <4>3. \A n \in 1 .. MAX_RETRY_ATTEMPTS : job'[Retry(d, n)] = "none"
          BY <1>1, <3>2 DEF Ordered, Fresh
      <4> QED
          BY <1>1, <3>1, <3>2, <3>4, <4>2, <4>3 DEF Ordered, Fresh
    <3> QED
        BY <1>4, <2>4, <3>3, <3>4
  <2> QED
      BY <2>2, <2>3, <2>4
<1>6. ASSUME NEW d \in Deliveries, Fresh(d), fanout[d[2]] = {} PROVE Fresh(d)'
  <2>1. d # <<w, e>>
      BY <1>1, <1>6
  <2> QED
      BY <1>1, <1>3, <1>6, <2>1 DEF Fresh
<1>7. \A r \in Repayments : fanout[r] = {} /\ adding[r] = {} => fanout'[r] = {} /\ adding'[r] = {}
    BY <1>1, <1>3, PaymentAssumption
<1>8. \A r \in Repayments : Told(r)'
    BY <1>6, <1>7, ToldSame DEF Chained
<1> QED
    BY <1>5, <1>8 DEF Chained, ChainInv

LEMMA AddChain ==
    ASSUME HookInv, Chained, UNCHANGED <<repayment, notices, handling>>,
           NEW w \in Webhooks, NEW e \in Events \cup Tests, AddDelivery(w, e)
    PROVE  ChainInv'
<1> DEFINE new == First(<<w, e>>)
<1>1. UNCHANGED <<row, attempt, sweep, fanout, pc, seen>> /\ w \in adding[e]
    BY DEF AddDelivery, rowVars
<1>2. <<w, e>> \in Deliveries /\ <<w, e>>[1] = w /\ <<w, e>>[2] = e
    BY DEF Deliveries
<1>3. job[new] = "none" /\ adding[e] = {w}
    BY <1>1, <1>2 DEF Chained, Ordered
<1>4. new \in JobIds /\ Target(new) = <<w, e>> /\ new \in JobsOf(<<w, e>>)
    BY <1>2, DeliveryJobs
<1>5. /\ \A x \in JobIds : job'[x] = IF x = new THEN "queued" ELSE job[x]
      /\ adding'[e] = {} /\ \A x \in Events \cup Tests : x # e => adding'[x] = adding[x]
    BY <1>3 DEF AddDelivery, Add, HookInv, WebhookTypeOK
<1>6. ASSUME NEW d \in Deliveries PROVE Ordered(d)'
  <2>1. d = <<d[1], d[2]>> /\ d[2] \in Events \cup Tests /\ d[1] \in Webhooks
      BY DEF Deliveries
  <2>2. CASE d # <<w, e>>
    <3>1. \A x \in JobsOf(d) : job'[x] = job[x]
        BY <1>4, <1>5, <2>2, DeliveryJobs
    <3>2. d[2] = e => d[1] # w
        BY <2>1, <2>2
    <3>3. /\ d[1] \in adding'[d[2]] <=> d[1] \in adding[d[2]]
          /\ d[1] \in adding'[d[2]] => adding'[d[2]] = adding[d[2]]
        BY <1>3, <1>5, <2>1, <3>2
    <3> QED
        BY <1>1, <3>1, <3>3, OrderedSame DEF Chained
  <2>3. CASE d = <<w, e>>
    <3>1. First(d) = new /\ d[1] = w /\ d[2] = e
        BY <2>3
    <3>2. Ordered(d) /\ job[First(d)] = "none"
        BY <1>3, <3>1 DEF Chained
    <3>3. \A x \in JobsOf(d) : x # new => job'[x] = job[x]
        BY <1>5, DeliveryJobs
    <3>4. job'[new] = "queued" /\ pc[new] = "idle"
        BY <1>3, <1>4, <1>5 DEF HookInv, JobSound
    <3>5. \A n \in 1 .. MAX_RETRY_ATTEMPTS : Retry(d, n) \in JobsOf(d) /\ Retry(d, n) # new
        BY <3>1, DeliveryJobs DEF Retry, First
    <3>6. new \in LiveJobs(d)'
        BY <1>1, <1>4, <2>3, <3>4 DEF LiveJobs, Live
    <3>7. d[1] \notin fanout[d[2]]
        BY <1>1, <3>1, <3>2 DEF Ordered
    <3>8. ASSUME NEW x \in JobsOf(d), StepFits(d, x) PROVE StepFits(d, x)'
      <4>1. pc[x] = "retry" => seen[x] \in 1 .. MAX_RETRY_ATTEMPTS
          BY DeliveryJobs, WebhookAssumption DEF HookInv, JobSound, SentSteps, WebhookTypeOK
      <4> QED
          BY <1>1, <3>3, <3>5, <3>8, <4>1 DEF StepFits
    <3>9. \A x \in JobsOf(d) : job'[x] = "active" => pc'[x] # "idle"
        BY <1>1, <3>2, <3>3, <3>4 DEF Ordered
    <3>10. \A n \in 1 .. MAX_RETRY_ATTEMPTS : job'[Retry(d, n)] = job[Retry(d, n)]
        BY <3>3, <3>5
    <3> HIDE DEF new
    <3> QED
        BY <1>1, <1>5, <3>1, <3>2, <3>4, <3>6, <3>7, <3>8, <3>9, <3>10 DEF Ordered
  <2> QED
      BY <2>2, <2>3
<1>7. ASSUME NEW d \in Deliveries, Fresh(d), adding[d[2]] = {} PROVE Fresh(d)'
  <2>1. d # <<w, e>>
      BY <1>1, <1>7
  <2>2. First(d) \in JobIds /\ First(d) # new
      BY <1>4, <2>1, DeliveryJobs
  <2> QED
      BY <1>1, <1>5, <1>7, <2>2 DEF Fresh
<1>8. \A r \in Repayments : fanout[r] = {} /\ adding[r] = {} => fanout'[r] = {} /\ adding'[r] = {}
    BY <1>1, <1>5, PaymentAssumption
<1>9. \A r \in Repayments : Told(r)'
    BY <1>7, <1>8, ToldSame DEF Chained
<1> QED
    BY <1>6, <1>9 DEF Chained, ChainInv

\* A step of a job touches its own delivery only.
LEMMA JobFrame ==
    ASSUME HookInv, NEW id \in JobIds, processWebhookJob(id)
    PROVE  /\ UNCHANGED <<fanout, adding, sweep, boundVars>>
           /\ \A x \in JobIds : x # id => pc'[x] = pc[x] /\ seen'[x] = seen[x]
           /\ \A x \in JobIds : job'[x] # job[x] => Target(x) = Target(id)
           /\ \A d \in Deliveries : d # Target(id) => row'[d] = row[d] /\ attempt'[d] = attempt[d]
           /\ \A d \in Deliveries : row[d] = "none" => row'[d] = "none"
           /\ \A d \in Deliveries : job[First(d)] = "none" => job'[First(d)] = "none"
<1> DEFINE Frame == /\ UNCHANGED <<fanout, adding, sweep, boundVars>>
                    /\ \A x \in JobIds : x # id => pc'[x] = pc[x] /\ seen'[x] = seen[x]
                    /\ \A x \in JobIds : job'[x] # job[x] => Target(x) = Target(id)
                    /\ \A d \in Deliveries : d # Target(id) => row'[d] = row[d] /\ attempt'[d] = attempt[d]
                    /\ \A d \in Deliveries : row[d] = "none" => row'[d] = "none"
                    /\ \A d \in Deliveries : job[First(d)] = "none" => job'[First(d)] = "none"
<1>1. /\ job \in [JobIds -> {"none", "queued", "active", "done"}]
      /\ pc \in [JobIds -> {"idle", "load", "direct", "disable", "delay", "requeue", "post",
                            "record", "touch", "fail", "retry", "end"}]
      /\ seen \in [JobIds -> Nat] /\ row \in [Deliveries -> Statuses] /\ attempt \in [Deliveries -> Nat]
      /\ JobSound(id)
    BY DEF HookInv, WebhookTypeOK
<1>2. ASSUME NEW status, NEW n, NEW next, UpdateRow(id, status, n, next) PROVE Frame
    BY <1>1, <1>2 DEF UpdateRow, Goto, Exists
<1>3. ASSUME NEW x \in JobIds, x[2] # "delivery", Target(x) = Target(id), Add(x),
             UNCHANGED <<rowVars, fanout, adding, sweep, seen, boundVars>>,
             Goto(id, "end")
      PROVE  Frame
  <2>1. \A d \in Deliveries : First(d) # x
      BY <1>3 DEF First
  <2>2. UNCHANGED <<row, attempt>>
      BY <1>3 DEF rowVars
  <2> QED
      BY <1>1, <1>3, <2>1, <2>2 DEF Add, Goto
<1>4. CASE StartJob(id)
    BY <1>1, <1>4 DEF StartJob, Goto, rowVars
<1>5. CASE LoadDelivery(id)
    BY <1>1, <1>5 DEF LoadDelivery, Goto, rowVars
<1>6. CASE \E ok \in BOOLEAN : SendWebhook(id, ok)
    BY <1>1, <1>6 DEF SendWebhook, Goto, rowVars
<1>7. CASE DisableDelivery(id)
    BY <1>2, <1>7 DEF DisableDelivery
<1>8. CASE DelayDelivery(id)
    BY <1>2, <1>8 DEF DelayDelivery
<1>9. CASE RequeueDelayed(id)
  <2>1. Target(id) \in Deliveries
      BY <1>1, <1>9, JobCases DEF JobSound, RequeueDelayed, At
  <2>2. PICK x \in Timed(Target(id)) : Add(x)
      BY <1>9 DEF RequeueDelayed, AddTimed
  <2>3. x \in JobIds /\ x[2] # "delivery" /\ Target(x) = Target(id)
      BY <2>1, <2>2, DeliveryJobs
  <2> QED
      BY <1>3, <1>9, <2>2, <2>3 DEF RequeueDelayed, AfterRateLimit
<1>10. CASE RecordSuccess(id)
    BY <1>2, <1>10 DEF RecordSuccess
<1>11. CASE TouchWebhook(id)
    BY <1>1, <1>11 DEF TouchWebhook, Goto, rowVars
<1>12. CASE handleDeliveryFailure(id)
  <2>1. CASE \E status, n, next : UpdateRow(id, status, n, next)
      BY <1>2, <2>1
  <2>2. CASE /\ At(id, "retry")
             /\ Add(RetryId(Target(id), seen[id]))
             /\ Goto(id, "end")
             /\ UNCHANGED <<rowVars, fanout, adding, sweep, stalled, seen, rate, posts, boundVars>>
    <3> DEFINE x == Retry(Target(id), seen[id])
    <3>1. Target(id) \in Deliveries
        BY <1>1, <2>2, JobCases DEF JobSound, At
    <3>2. seen[id] \in 1 .. MAX_RETRY_ATTEMPTS
        BY <1>1, <2>2, WebhookAssumption DEF JobSound, SentSteps, At
    <3>3. x \in JobsOf(Target(id)) /\ x[2] # "delivery"
        BY <3>1, <3>2, DeliveryJobs DEF Retry
    <3>4. x \in JobIds /\ Target(x) = Target(id)
        BY <3>1, <3>3, DeliveryJobs
    <3> QED
        BY <1>3, <2>2, <3>3, <3>4 DEF RetryId
  <2> QED
      BY <1>12, <2>1, <2>2 DEF handleDeliveryFailure
<1>13. CASE EndJob(id)
    BY <1>1, <1>13 DEF EndJob, Goto, rowVars, Finished, At, JobSound
<1> QED
    BY <1>4, <1>5, <1>6, <1>7, <1>8, <1>9, <1>10, <1>11, <1>12, <1>13 DEF processWebhookJob

LEMMA EndOrdered ==
    ASSUME HookInv, NEW d \in Deliveries, Ordered(d), NEW id \in JobsOf(d), EndJob(id)
    PROVE  Ordered(d)'
<1>1. id \in JobIds /\ JobSound(id) /\ pc[id] = "end" /\ job[id] = "active"
    BY DeliveryJobs DEF HookInv, JobSound, EndJob, At
<1>2. UNCHANGED <<row, attempt, fanout, adding, sweep>>
    BY DEF EndJob, rowVars
<1>3. \A x \in JobsOf(d) : x \in JobIds
    BY DeliveryJobs
<1>4. /\ \A x \in JobsOf(d) : x # id => job'[x] = job[x] /\ pc'[x] = pc[x] /\ seen'[x] = seen[x]
      /\ job'[id] = Finished(id) /\ pc'[id] = "idle"
    BY <1>1, <1>3 DEF EndJob, Goto, HookInv, WebhookTypeOK
<1>5. First(d) \in JobsOf(d) /\ First(d)[2] # "timed"
    BY DeliveryJobs DEF First
<1>6. \A n \in 1 .. MAX_RETRY_ATTEMPTS : Retry(d, n) \in JobsOf(d) /\ Retry(d, n)[2] # "timed"
    BY DeliveryJobs DEF Retry
<1>7. \A x \in JobsOf(d) : x[2] # "timed" => (job'[x] = "none" <=> job[x] = "none")
    BY <1>1, <1>4 DEF Finished
<1>8. LiveJobs(d)' = LiveJobs(d)
    BY <1>1, <1>4 DEF LiveJobs, Live, Finished
<1>9. ASSUME NEW x \in JobsOf(d), StepFits(d, x) PROVE StepFits(d, x)'
  <2>1. pc[x] = "retry" => seen[x] \in 1 .. MAX_RETRY_ATTEMPTS
      BY DeliveryJobs, WebhookAssumption DEF HookInv, JobSound, SentSteps, WebhookTypeOK
  <2> QED
      BY <1>2, <1>4, <1>6, <1>7, <1>9, <2>1 DEF StepFits
<1>10. \A x \in JobsOf(d) : job'[x] = "active" => pc'[x] # "idle"
    BY <1>4 DEF Ordered, Finished
<1>11. job'[First(d)] = "none" <=> job[First(d)] = "none"
    BY <1>5, <1>7
<1>12. \A n \in 1 .. MAX_RETRY_ATTEMPTS : job'[Retry(d, n)] = "none" <=> job[Retry(d, n)] = "none"
    BY <1>6, <1>7
<1> QED
    BY <1>2, <1>8, <1>9, <1>10, <1>11, <1>12 DEF Ordered, Fresh

\* The update of the row by the one job under way.
LEMMA UpdateOrdered ==
    ASSUME HookInv, Undisturbed, NEW d \in Deliveries, Ordered(d), NEW id \in JobsOf(d), Live(id),
           pc[id] # "idle", NEW status \in Statuses \ {"none"}, NEW n \in Nat, NEW next,
           UpdateRow(id, status, n, next), attempt[d] <= n, next # "idle",
           next = "end" => status = "FAILED",
           Exists(d) => StepFits(d, id)'
    PROVE  Ordered(d)'
<1>1. Target(id) = d /\ id \in JobIds /\ job[id] = "active"
    BY DeliveryJobs DEF HookInv, JobSound
<1>2. UNCHANGED <<fanout, adding, sweep, job, seen>>
    BY DEF UpdateRow
<1>3. \A x \in JobsOf(d) : x # id => pc'[x] = pc[x]
    BY DeliveryJobs DEF UpdateRow, Goto, HookInv, WebhookTypeOK
<1>4. attempt[d] \in Nat /\ row \in [Deliveries -> Statuses] /\ attempt \in [Deliveries -> Nat]
      /\ id \in DOMAIN pc
    BY <1>1 DEF HookInv, WebhookTypeOK
<1>5. CASE Exists(d)
  <2>1. row'[d] = status /\ attempt'[d] = n /\ pc'[id] = next
      BY <1>1, <1>4, <1>5 DEF UpdateRow, Goto
  <2>2. StepFits(d, id)'
      BY <1>5
  <2>3. row[d] # "none"
      BY <1>5 DEF Exists
  <2> QED
      BY <1>1, <1>2, <1>3, <1>4, <2>1, <2>2, <2>3, LiveStep
<1>6. CASE ~Exists(d)
  <2>1. row'[d] = "none" /\ attempt'[d] = attempt[d] /\ pc'[id] = "end"
      BY <1>1, <1>4, <1>6 DEF UpdateRow, Goto, Exists
  <2>2. attempt[d] = 0
      BY <1>6 DEF Ordered, Exists
  <2> QED
      BY <1>1, <1>2, <1>3, <1>4, <2>1, <2>2, LiveStep
<1> QED
    BY <1>5, <1>6

\* The job under way queues the next one and ends.
LEMMA HandOnOrdered ==
    ASSUME HookInv, Undisturbed, NEW d \in Deliveries, Ordered(d), NEW id \in JobsOf(d), Live(id),
           pc[id] # "idle", NEW x \in JobsOf(d), Add(x), Goto(id, "end"),
           UNCHANGED <<row, attempt, fanout, adding, sweep, seen>>,
           row[d] # "none" => job[x] = "none",
           row[d] # "none" => \A n \in 1 .. MAX_RETRY_ATTEMPTS : x = Retry(d, n) => n <= attempt[d]
    PROVE  Ordered(d)'
<1>1. /\ id \in JobIds /\ x \in JobIds /\ job[id] = "active" /\ (job[x] = "none" => pc[x] = "idle")
      /\ \A y \in JobsOf(d) : y \in JobIds
    BY DeliveryJobs DEF HookInv, JobSound
<1>2. attempt[d] \in Nat /\ row[d] \in Statuses
    BY DEF HookInv, WebhookTypeOK
<1>3. /\ \A y \in JobsOf(d) : job'[y] = IF y = x /\ job[x] = "none" THEN "queued" ELSE job[y]
      /\ \A y \in JobsOf(d) : pc'[y] = IF y = id THEN "end" ELSE pc[y]
    BY <1>1 DEF Add, Goto, HookInv, WebhookTypeOK
<1>4. \A n \in 1 .. MAX_RETRY_ATTEMPTS : Retry(d, n) \in JobsOf(d)
    BY DeliveryJobs
<1>5. row'[d] # "none" => \A n \in 1 .. MAX_RETRY_ATTEMPTS :
          job'[Retry(d, n)] # job[Retry(d, n)] => n <= attempt'[d]
    BY <1>3, <1>4
<1>6. row'[d] # "none" => job'[x] = "queued" /\ pc'[x] # "end"
    BY <1>1, <1>3
<1>7. StepFits(d, id)'
    BY <1>3 DEF StepFits
<1>8. row[d] = "none" => attempt[d] = 0
    BY DEF Ordered
<1> QED
    BY <1>1, <1>2, <1>3, <1>5, <1>6, <1>7, <1>8, LiveStep

LEMMA JobOrdered ==
    ASSUME HookInv, Undisturbed, NEW d \in Deliveries, Ordered(d), NEW id \in JobsOf(d),
           processWebhookJob(id)
    PROVE  Ordered(d)'
<1>1. id \in JobIds /\ JobSound(id) /\ Target(id) = d /\ ~IsDirect(id)
    BY DeliveryJobs DEF HookInv
<1>2. /\ job \in [JobIds -> {"none", "queued", "active", "done"}]
      /\ pc \in [JobIds -> {"idle", "load", "direct", "disable", "delay", "requeue", "post",
                            "record", "touch", "fail", "retry", "end"}]
      /\ seen \in [JobIds -> Nat] /\ attempt[d] \in Nat /\ row[d] \in Statuses
    BY DEF HookInv, WebhookTypeOK
<1>3. \A x \in JobsOf(d) : x \in JobIds
    BY DeliveryJobs
<1>4. pc[id] \notin {"idle", "end"} => Live(id) /\ job[id] = "active"
    BY <1>1 DEF JobSound, Live
<1>5. row[d] # "none" => StepFits(d, id)
    BY DEF Ordered
<1>6. row[d] = "none" => attempt[d] = 0
    BY DEF Ordered
<1>7. CASE StartJob(id)
  <2>1. Live(id) /\ UNCHANGED <<row, attempt, fanout, adding, sweep, seen>>
      BY <1>1, <1>7 DEF StartJob, Live, JobSound, rowVars
  <2>2. /\ job'[id] = "active" /\ pc'[id] = "load"
        /\ \A x \in JobsOf(d) : x # id => job'[x] = job[x] /\ pc'[x] = pc[x]
        /\ job[id] = "queued"
      BY <1>1, <1>2, <1>3, <1>7 DEF StartJob, Goto
  <2>3. StepFits(d, id)'
      BY <2>2 DEF StepFits
  <2>4. \A n \in 1 .. MAX_RETRY_ATTEMPTS : job'[Retry(d, n)] # job[Retry(d, n)] => Retry(d, n) = id
      BY <2>2, DeliveryJobs
  <2> QED
      BY <1>2, <1>6, <2>1, <2>2, <2>3, <2>4, LiveStep
<1>8. CASE LoadDelivery(id)
  <2>1. Live(id) /\ job[id] = "active" /\ UNCHANGED <<row, attempt, fanout, adding, sweep, job>>
      BY <1>4, <1>8 DEF LoadDelivery, At, rowVars
  <2>2. /\ \A x \in JobsOf(d) : x # id => pc'[x] = pc[x] /\ seen'[x] = seen[x]
        /\ pc'[id] # "idle"
      BY <1>1, <1>2, <1>3, <1>8 DEF LoadDelivery, Goto
  <2>3. /\ row[d] # "none" => pc'[id] # "end"
        /\ StepFits(d, id)'
      BY <1>1, <1>2, <1>8, <2>1 DEF LoadDelivery, Goto, StepFits, Exists
  <2> QED
      BY <1>2, <1>6, <2>1, <2>2, <2>3, LiveStep
<1>9. CASE \E ok \in BOOLEAN : SendWebhook(id, ok)
  <2>1. pc[id] = "post" /\ Live(id) /\ job[id] = "active"
        /\ UNCHANGED <<row, attempt, fanout, adding, sweep, job, seen>>
      BY <1>1, <1>4, <1>9 DEF SendWebhook, JobSound, rowVars
  <2>2. /\ \A x \in JobsOf(d) : x # id => pc'[x] = pc[x]
        /\ pc'[id] \in {"record", "fail"}
      BY <1>1, <1>2, <1>3, <1>9 DEF SendWebhook, Goto
  <2>3. row[d] # "none" => StepFits(d, id)'
      BY <1>5, <2>1, <2>2 DEF StepFits
  <2> QED
      BY <1>2, <1>6, <2>1, <2>2, <2>3, LiveStep
<1>10. CASE DisableDelivery(id)
  <2>1. pc[id] = "disable" /\ UpdateRow(id, "FAILED", attempt[d], "end")
      BY <1>1, <1>10 DEF DisableDelivery, At
  <2>2. Exists(d) => StepFits(d, id)'
      BY <1>1, <1>2, <2>1 DEF UpdateRow, Goto, StepFits
  <2> QED
      BY <1>2, <1>4, <2>1, <2>2, UpdateOrdered DEF Statuses
<1>11. CASE DelayDelivery(id)
  <2>1. pc[id] = "delay" /\ UpdateRow(id, "RETRYING", attempt[d], "requeue")
      BY <1>1, <1>11 DEF DelayDelivery, At
  <2>2. Exists(d) => StepFits(d, id)'
      BY <1>1, <1>2, <2>1 DEF UpdateRow, Goto, StepFits
  <2> QED
      BY <1>2, <1>4, <2>1, <2>2, UpdateOrdered DEF Statuses
<1>12. CASE RequeueDelayed(id)
  <2>1. PICK x \in Timed(d) : job[x] = "none" /\ Add(x)
      BY <1>1, <1>12 DEF RequeueDelayed, AddTimed
  <2>2. x \in JobsOf(d) /\ \A n \in 1 .. MAX_RETRY_ATTEMPTS : x # Retry(d, n)
      BY <2>1, DeliveryJobs DEF Retry
  <2>3. pc[id] = "requeue" /\ Goto(id, "end") /\ UNCHANGED <<row, attempt, fanout, adding, sweep, seen>>
      BY <1>12 DEF RequeueDelayed, At, AfterRateLimit, rowVars
  <2> QED
      BY <1>4, <2>1, <2>2, <2>3, HandOnOrdered
<1>13. CASE RecordSuccess(id)
  <2>1. pc[id] = "record" /\ UpdateRow(id, "SUCCESS", seen[id], "touch")
      BY <1>1, <1>13 DEF RecordSuccess, At
  <2>2. Exists(d) => seen[id] = attempt[d] + 1
      BY <1>5, <2>1 DEF StepFits, Exists
  <2>3. Exists(d) => row'[d] = "SUCCESS" /\ pc'[id] = "touch"
      BY <1>1, <1>2, <2>1 DEF UpdateRow, Goto, HookInv, WebhookTypeOK
  <2>4. Exists(d) => StepFits(d, id)'
      BY <2>3 DEF StepFits
  <2>5. attempt[d] <= seen[id]
      BY <1>1, <1>2, <1>6, <2>2 DEF Exists
  <2> QED
      BY <1>1, <1>2, <1>4, <2>1, <2>4, <2>5, UpdateOrdered DEF Statuses
<1>14. CASE TouchWebhook(id)
  <2>1. pc[id] = "touch" /\ Live(id) /\ job[id] = "active"
        /\ UNCHANGED <<row, attempt, fanout, adding, sweep, job, seen>>
      BY <1>4, <1>14 DEF TouchWebhook, At, rowVars
  <2>2. (\A x \in JobsOf(d) : x # id => pc'[x] = pc[x]) /\ pc'[id] = "end"
      BY <1>1, <1>2, <1>3, <1>14 DEF TouchWebhook, Goto
  <2>3. row[d] \in {"none", "SUCCESS"}
      BY <1>5, <2>1 DEF StepFits
  <2>4. StepFits(d, id)'
      BY <2>2 DEF StepFits
  <2> QED
      BY <1>2, <1>6, <2>1, <2>2, <2>3, <2>4, LiveStep
<1>15. CASE handleDeliveryFailure(id)
  <2>1. pc[id] \in {"fail", "retry"} => seen[id] # 0
      BY <1>1 DEF JobSound, SentSteps
  <2>2. pc[id] = "fail" => attempt[d] <= seen[id] /\ (Exists(d) => seen[id] = attempt[d] + 1)
      BY <1>1, <1>2, <1>5, <1>6 DEF StepFits, Exists
  <2>3. CASE At(id, "fail") /\ GivenUp(seen[id]) /\ UpdateRow(id, "FAILED", seen[id], "end")
    <3>1. Exists(d) => StepFits(d, id)'
        BY <1>1, <1>2, <2>3 DEF UpdateRow, Goto, StepFits
    <3> QED
        BY <1>1, <1>2, <1>4, <2>2, <2>3, <3>1, UpdateOrdered DEF Statuses, At
  <2>4. CASE At(id, "fail") /\ ~GivenUp(seen[id]) /\ UpdateRow(id, "RETRYING", seen[id], "retry")
    <3>1. seen[id] \in 1 .. MAX_RETRY_ATTEMPTS
        BY <1>1, <1>2, <2>1, <2>4, WebhookAssumption DEF GivenUp, At
    <3>2. Exists(d) => job[Retry(d, seen[id])] = "none"
      <4> SUFFICES ASSUME Exists(d), job[Retry(d, seen[id])] # "none" PROVE FALSE
          OBVIOUS
      <4>1. seen[id] <= attempt[d]
          BY <3>1 DEF Ordered, Exists
      <4> QED
          BY <1>2, <2>2, <2>4, <4>1 DEF At
    <3>3. Exists(d) => pc'[id] = "retry" /\ seen' = seen /\ job' = job /\ attempt'[d] = seen[id]
        BY <1>1, <1>2, <2>4 DEF UpdateRow, Goto, HookInv, WebhookTypeOK
    <3>4. Exists(d) => StepFits(d, id)'
        BY <3>2, <3>3 DEF StepFits
    <3> QED
        BY <1>1, <1>2, <1>4, <2>2, <2>4, <3>4, UpdateOrdered DEF Statuses, At
  <2>5. CASE /\ At(id, "retry")
             /\ Add(RetryId(Target(id), seen[id]))
             /\ Goto(id, "end")
             /\ UNCHANGED <<rowVars, fanout, adding, sweep, stalled, seen, rate, posts, boundVars>>
    <3> DEFINE x == Retry(d, seen[id])
    <3>1. seen[id] \in 1 .. MAX_RETRY_ATTEMPTS /\ pc[id] = "retry"
        BY <1>1, <1>2, <2>1, <2>5, WebhookAssumption DEF At, JobSound
    <3>2. x \in JobsOf(d) /\ Add(x)
        BY <1>1, <2>5, <3>1, DeliveryJobs DEF RetryId
    <3>3. row[d] # "none" => seen[id] = attempt[d] /\ job[x] = "none"
        BY <1>5, <3>1 DEF StepFits
    <3>4. \A n \in 1 .. MAX_RETRY_ATTEMPTS : x = Retry(d, n) => n = seen[id]
        BY DEF Retry
    <3>5. UNCHANGED <<row, attempt, fanout, adding, sweep, seen>>
        BY <2>5 DEF rowVars
    <3> HIDE DEF x
    <3>6. row[d] # "none" => \A n \in 1 .. MAX_RETRY_ATTEMPTS : x = Retry(d, n) => n <= attempt[d]
        BY <1>2, <3>3, <3>4
    <3> QED
        BY <1>4, <2>5, <3>1, <3>2, <3>3, <3>5, <3>6, HandOnOrdered
  <2> QED
      BY <1>15, <2>3, <2>4, <2>5 DEF handleDeliveryFailure
<1>16. CASE EndJob(id)
    BY <1>16, EndOrdered
<1> QED
    BY <1>7, <1>8, <1>9, <1>10, <1>11, <1>12, <1>13, <1>14, <1>15, <1>16 DEF processWebhookJob

LEMMA JobChain ==
    ASSUME HookInv, Chained, UNCHANGED <<repayment, notices, handling>>,
           NEW id \in JobIds, processWebhookJob(id)
    PROVE  ChainInv'
<1>1. /\ UNCHANGED <<fanout, adding, sweep, boundVars>>
      /\ \A x \in JobIds : x # id => pc'[x] = pc[x] /\ seen'[x] = seen[x]
      /\ \A x \in JobIds : job'[x] # job[x] => Target(x) = Target(id)
      /\ \A d \in Deliveries : d # Target(id) => row'[d] = row[d] /\ attempt'[d] = attempt[d]
      /\ \A d \in Deliveries : row[d] = "none" => row'[d] = "none"
      /\ \A d \in Deliveries : job[First(d)] = "none" => job'[First(d)] = "none"
    BY JobFrame
<1>2. ASSUME NEW d \in Deliveries PROVE Ordered(d)'
  <2>1. CASE d = Target(id)
    <3>1. id \in JobsOf(d)
        BY <2>1, JobCases
    <3> QED
        BY <3>1, JobOrdered DEF Chained
  <2>2. CASE d # Target(id)
    <3>1. \A x \in JobsOf(d) : x \in JobIds /\ Target(x) = d
        BY DeliveryJobs
    <3>2. \A x \in JobsOf(d) : job'[x] = job[x] /\ pc'[x] = pc[x] /\ seen'[x] = seen[x]
        BY <1>1, <2>2, <3>1
    <3> QED
        BY <1>1, <2>2, <3>2, OrderedSame DEF Chained
  <2> QED
      BY <2>1, <2>2
<1>3. \A d \in Deliveries : Fresh(d) => Fresh(d)'
    BY <1>1 DEF Fresh
<1>4. \A r \in Repayments : Told(r)'
    BY <1>1, <1>3, ToldSame DEF Chained
<1> QED
    BY <1>2, <1>4 DEF Chained, ChainInv

LEMMA SameHooks ==
    ASSUME HookInv, Chained, UNCHANGED <<row, attempt, sweep, fanout, adding, pc, seen>>,
           \A x \in JobIds : ~IsDirect(x) => job'[x] = job[x]
    PROVE  /\ \A d \in Deliveries : Ordered(d)'
           /\ \A d \in Deliveries : Fresh(d)' <=> Fresh(d)
<1>1. ASSUME NEW d \in Deliveries PROVE Ordered(d)'
  <2>1. \A x \in JobsOf(d) : job'[x] = job[x]
      BY DeliveryJobs
  <2> QED
      BY <2>1, OrderedSame DEF Chained
<1>2. ASSUME NEW d \in Deliveries PROVE Fresh(d)' <=> Fresh(d)
    BY DeliveryJobs DEF Fresh
<1> QED
    BY <1>1, <1>2

\* A committed repayment raises its event.
LEMMA CommitChain ==
    ASSUME LoanInv, HookInv, Chained, NEW r \in Repayments, CommitRepayment(r),
           UNCHANGED <<hookVars, handling>>
    PROVE  ChainInv'
<1>1. UNCHANGED <<row, attempt, sweep, fanout, adding, pc, seen, job>>
    BY DEF hookVars, rowVars, jobVars
<1>2. (\A d \in Deliveries : Ordered(d)') /\ (\A d \in Deliveries : Fresh(d)' <=> Fresh(d))
    BY <1>1, SameHooks
<1>3. repayment[r] = Nothing /\ tx[r] # Nothing /\ repayment'[r] = tx[r]
      /\ (\A q \in Repayments : q # r => repayment'[q] = repayment[q])
      /\ notices' = notices \cup {r}
    BY DEF CommitRepayment, LoanInv, LoanTypeOK, TxSound
<1>4. ASSUME NEW q \in Repayments PROVE Told(q)'
  <2>1. \A w \in Webhooks : <<w, q>> \in Deliveries
      BY PaymentAssumption DEF Deliveries
  <2>2. Told(q)
      BY DEF Chained
  <2>3. \A w \in Webhooks : Fresh(<<w, q>>)' <=> Fresh(<<w, q>>)
      BY <1>2, <2>1
  <2>4. CASE q = r
      BY <1>1, <1>3, <2>2, <2>3, <2>4 DEF Told
  <2>5. CASE q # r
      BY <1>1, <1>3, <2>2, <2>3, <2>5 DEF Told
  <2> QED
      BY <2>4, <2>5
<1> QED
    BY <1>2, <1>4 DEF Chained, ChainInv

\* The event is taken up, or dropped.
LEMMA NoticeChain ==
    ASSUME HookInv, Chained, NEW r \in Repayments, r \in notices, notices' = notices \ {r},
           handling' \in {handling, handling \cup {r}}, UNCHANGED repayment,
           UNCHANGED <<row, attempt, sweep, fanout, adding, pc, seen>>,
           \A x \in JobIds : ~IsDirect(x) => job'[x] = job[x]
    PROVE  ChainInv'
<1>1. (\A d \in Deliveries : Ordered(d)') /\ (\A d \in Deliveries : Fresh(d)' <=> Fresh(d))
    BY SameHooks
<1>2. ASSUME NEW q \in Repayments PROVE Told(q)'
  <2>1. \A w \in Webhooks : <<w, q>> \in Deliveries
      BY PaymentAssumption DEF Deliveries
  <2>2. Told(q)
      BY DEF Chained
  <2>3. \A w \in Webhooks : Fresh(<<w, q>>)' <=> Fresh(<<w, q>>)
      BY <1>1, <2>1
  <2> QED
      BY <2>2, <2>3 DEF Told
<1> QED
    BY <1>1, <1>2 DEF Chained, ChainInv

LEMMA ChainNext == LoanInv /\ HookInv /\ ChainInv /\ [Next]_vars => ChainInv'
<1> SUFFICES ASSUME LoanInv, HookInv, ChainInv, [Next]_vars, Undisturbed' PROVE ChainInv'
    BY DEF ChainInv
<1> USE DEF rowVars, jobVars
<1>1. UNCHANGED boundVars => Chained
    BY DEF boundVars, ChainInv, Undisturbed
<1>2. CASE UNCHANGED vars
  <2>1. Chained /\ UNCHANGED <<repayment, notices, handling, row, attempt, sweep, fanout, adding, pc, seen, job>>
      BY <1>1, <1>2 DEF vars, loanVars, hookVars
  <2> QED
      BY <2>1, QuietChain
<1>3. CASE LoanStep /\ UNCHANGED <<hookVars, handling>>
  <2>1. Chained /\ UNCHANGED <<handling, row, attempt, sweep, fanout, adding, pc, seen, job>>
      BY <1>1, <1>3 DEF hookVars
  <2>2. CASE \E r \in Repayments : CommitRepayment(r)
      BY <1>3, <2>1, <2>2, CommitChain
  <2>3. CASE UNCHANGED <<repayment, notices>>
      BY <2>1, <2>3, QuietChain
  <2> QED
      BY <1>3, <2>2, <2>3
      DEF LoanStep, issueLoan, createPayment, recordRepayment, BeginRepayment, AbortRepayment
<1>4. CASE WebhookStep /\ UNCHANGED <<loanVars, handling>>
  <2>1. UNCHANGED <<repayment, notices, handling>>
      BY <1>4 DEF loanVars
  <2>2. ASSUME NEW w \in Webhooks, NEW state, registerWebhook(w, state) \/ updateWebhook(w, state)
        PROVE  ChainInv'
    <3>1. UNCHANGED <<row, attempt, sweep, fanout, adding, pc, seen, job>> /\ Chained
        BY <1>1, <2>2 DEF registerWebhook, updateWebhook
    <3> QED
        BY <2>1, <3>1, QuietChain
  <2>3. ASSUME NEW w \in Webhooks, deleteWebhook(w) PROVE ChainInv'
      BY <1>1, <2>1, <2>3, DeleteChain DEF deleteWebhook
  <2>4. ASSUME NEW w \in Webhooks, NEW e \in Tests, testWebhook(w, e) PROVE ChainInv'
      BY <1>1, <2>1, <2>4, TestChain DEF testWebhook
  <2>5. CASE retryFailedWebhooks
    <3>1. ASSUME NEW due \in SUBSET Deliveries, ReadFailed(due) PROVE FALSE
        BY <3>1, WebhookAssumption DEF ReadFailed, Undisturbed, HookInv, WebhookTypeOK
    <3>2. ASSUME NEW d \in Deliveries, MarkFailed(d) \/ QueueFailed(d) PROVE FALSE
      <4>1. Chained
          BY <1>1, <3>2 DEF MarkFailed, QueueFailed
      <4> QED
          BY <3>2, <4>1 DEF MarkFailed, QueueFailed, Chained, Ordered
    <3> QED
        BY <2>5, <3>1, <3>2 DEF retryFailedWebhooks
  <2>6. ASSUME faults' = faults + 1 PROVE FALSE
      BY <2>6, WebhookAssumption DEF Undisturbed, HookInv, WebhookTypeOK
  <2> QED
      BY <1>4, <2>2, <2>3, <2>4, <2>5, <2>6 DEF WebhookStep, AddDeliveryFails, DatabaseError
<1>5. CASE DeliverStep /\ UNCHANGED <<loanVars, handling>>
  <2>1. UNCHANGED <<repayment, notices, handling>>
      BY <1>5 DEF loanVars
  <2>2. ASSUME NEW id \in JobIds, processWebhookJob(id) PROVE ChainInv'
    <3>1. UNCHANGED boundVars
        BY <2>2, JobFrame
    <3> QED
        BY <1>1, <2>1, <2>2, <3>1, JobChain
  <2>3. ASSUME NEW id \in JobIds, Stalled(id) PROVE ChainInv'
    <3>1. Chained /\ UNCHANGED <<row, attempt, sweep, fanout, adding, pc, seen>>
          /\ job[id] = "active" /\ pc[id] = "idle"
        BY <1>1, <2>3 DEF Stalled, At
    <3>2. IsDirect(id)
        BY <3>1, JobCases DEF Chained, Ordered
    <3>3. \A x \in JobIds : ~IsDirect(x) => job'[x] = job[x]
        BY <2>3, <3>2 DEF Stalled, HookInv, WebhookTypeOK
    <3> QED
        BY <2>1, <3>1, <3>3, QuietChain
  <2>4. ASSUME NEW w \in Webhooks, NEW e \in Events \cup Tests, queueWebhookDelivery(w, e) PROVE ChainInv'
    <3>1. Chained
        BY <1>1, <2>4 DEF queueWebhookDelivery, CreateDelivery, AddDelivery
    <3> QED
        BY <2>1, <2>4, <3>1, CreateChain, AddChain DEF queueWebhookDelivery
  <2> QED
      BY <1>5, <2>2, <2>3, <2>4 DEF DeliverStep
<1>6. ASSUME NEW r \in Repayments, handlePaymentReceived(r) PROVE ChainInv'
  <2>1. CASE r \in handling /\ triggerEvent(r) /\ handling' = handling \ {r} /\ UNCHANGED loanVars
      BY <1>1, <2>1, TriggerChain DEF triggerEvent, loanVars
  <2>2. CASE /\ r \in notices /\ notices' = notices \ {r}
             /\ UNCHANGED <<loan, shown, session, repayment, tx, overtaken, aborted>>
             /\ UNCHANGED <<rowVars, fanout, adding, sweep, stalled, pc, seen, rate, posts, boundVars>>
             /\ \/ handling' = handling \cup {r} /\ Add(PaymentJob(r))
                \/ UNCHANGED <<handling, job>>
    <3>1. IsDirect(PaymentJob(r))
        BY DEF PaymentJob, Direct, IsDirect
    <3>2. \A x \in JobIds : ~IsDirect(x) => job'[x] = job[x]
        BY <2>2, <3>1 DEF Add, HookInv, WebhookTypeOK
    <3>3. handling' \in {handling, handling \cup {r}}
        BY <2>2
    <3> QED
        BY <1>1, <2>2, <3>2, <3>3, NoticeChain
  <2> QED
      BY <1>6, <2>1, <2>2 DEF handlePaymentReceived
<1>7. CASE MinutesPass
  <2>1. Chained /\ UNCHANGED <<repayment, notices, handling, row, attempt, sweep, fanout, adding, pc, seen, job>>
      BY <1>1, <1>7 DEF MinutesPass, NextWindow, loanVars
  <2> QED
      BY <2>1, QuietChain
<1>8. CASE ServerCrash
    BY <1>8, WebhookAssumption DEF ServerCrash, Crash, Undisturbed, HookInv, WebhookTypeOK
<1> QED
    BY <1>2, <1>3, <1>4, <1>5, <1>6, <1>7, <1>8 DEF Next, ServerStep

LEMMA ChainInitial == Init => ChainInv
<1> SUFFICES ASSUME Init PROVE Chained
    BY DEF ChainInv
<1> USE DEF Init, LoanInit, WebhookInit
<1>1. ASSUME NEW d \in Deliveries PROVE Ordered(d) /\ Fresh(d)
  <2>1. d[2] \in Events \cup Tests /\ First(d) \in JobIds
      BY DeliveryJobs DEF Deliveries
  <2>2. \A n \in 1 .. MAX_RETRY_ATTEMPTS : Retry(d, n) \in JobIds
      BY DeliveryJobs
  <2>3. \A x \in JobsOf(d) : x \in JobIds
      BY DeliveryJobs
  <2> QED
      BY <2>1, <2>2, <2>3 DEF Ordered, Fresh
<1>2. ASSUME NEW r \in Repayments PROVE Told(r)
  <2>1. r \in Events /\ \A w \in Webhooks : <<w, r>> \in Deliveries
      BY PaymentAssumption DEF Deliveries
  <2> QED
      BY <1>1, <2>1 DEF Told
<1>3. Undisturbed
    BY DEF Undisturbed
<1> QED
    BY <1>1, <1>2, <1>3 DEF Chained

LEMMA ChainAlways == Spec => [](LoanInv /\ HookInv /\ ChainInv)
<1>1. Init => LoanInv /\ HookInv /\ ChainInv
    BY LoanInitial, HookInitial, ChainInitial
<1>2. LoanInv /\ HookInv /\ ChainInv /\ [Next]_vars => (LoanInv /\ HookInv /\ ChainInv)'
    BY LoanNext, HookNext, ChainNext
<1> QED
    BY <1>1, <1>2, PTL DEF Spec

----------------------------------------------------------------------------

\* Rows, jobs and counters of the webhook service keep their types, and no webhook
\* is posted to more often than its limit in one minute (webhook.service.ts).
THEOREM WebhookTypeCorrect == Spec => []WebhookTypeOK
<1>1. HookInv => WebhookTypeOK
    BY DEF HookInv
<1> QED
    BY <1>1, HookAlways, PTL

\* However jobs are retried, delayed, swept, lost and run again: a delivery has at
\* most one job under way, one more for each sweep, and is posted at most
\* MAX_RETRY_ATTEMPTS times, once more for each sweep; each crash at most doubles
\* both; its row counts no attempt that was not posted; and without a fault and a
\* sweep a delivery that is not settled has its job (webhook.service.ts).
THEOREM JobsDoNotMultiply == Spec => []OneLiveJob
<1>1. HookInv /\ ChainInv => OneLiveJob
  <2> SUFFICES ASSUME HookInv, ChainInv, NEW d \in Deliveries
               PROVE  /\ Cardinality(LiveJobs(d)) <= (1 + sweeps) * Doubled[faults]
                      /\ posts[d] <= (MAX_RETRY_ATTEMPTS + sweeps) * Doubled[faults]
                      /\ attempt[d] <= posts[d]
                      /\ Undisturbed /\ row[d] \in {"PENDING", "RETRYING"} =>
                           LiveJobs(d) # {} \/ d[1] \in adding[d[2]]
      BY DEF OneLiveJob
  <2>1. Counted(d) /\ attempt[d] <= posts[d] /\ posts[d] \in Nat /\ WebhookTypeOK
      BY DEF HookInv, WebhookTypeOK
  <2>2. Cardinality(LiveJobs(d)) \in Nat /\ Cardinality(LiveJobs(d)) <= Cardinality(Underway(d))
    <3>1. LiveJobs(d) \subseteq Underway(d)
        BY DEF LiveJobs, Underway
    <3> QED
        BY <3>1, Fewer, CountsTyped
  <2>3. Bound(1) \in Nat /\ Bound(MAX_RETRY_ATTEMPTS) \in Nat
    <3>1. 1 \in Nat \ {0} /\ MAX_RETRY_ATTEMPTS \in Nat \ {0}
        BY WebhookAssumption
    <3> QED
        BY <2>1, <3>1, BoundFacts
  <2>4. Cardinality(LiveJobs(d)) <= Bound(1) /\ posts[d] <= Bound(MAX_RETRY_ATTEMPTS)
      BY <2>1, <2>2, <2>3, CountsTyped DEF Counted
  <2>5. Undisturbed /\ row[d] \in {"PENDING", "RETRYING"} => LiveJobs(d) # {} \/ d[1] \in adding[d[2]]
      BY DEF ChainInv, Chained, Ordered
  <2> QED
      BY <2>1, <2>4, <2>5 DEF Bound
<1> QED
    BY <1>1, ChainAlways, PTL

----------------------------------------------------------------------------
(* The direct post of a payment.  Its job is added once and leaves the queue   *)
(* as done, so what has been posted depends on where the job is and on whether *)
(* it has been orphaned before.                                                *)

Reported(r) == repayment[r] # Nothing /\ HasWebhook(r)

Rerun(id) == IF id \in stalled THEN 1 ELSE 0

Posted(r) ==
    LET id == Direct(r)
    IN /\ r \in notices => repayment[r] # Nothing /\ job[id] = "none"
       /\ job[id] # "none" => Reported(r)
       /\ job[id] = "none" => posts[r] = 0 /\ id \notin stalled
       /\ job[id] = "queued" \/ pc[id] = "direct" => posts[r] <= Rerun(id)
       /\ job[id] = "active" => posts[r] <= 1 + Rerun(id)
       /\ posts[r] <= 2
       /\ faults = 0 =>
            /\ id \notin stalled
            /\ job[id] = "active" => pc[id] # "idle"
            /\ pc[id] = "end" \/ job[id] = "done" => posts[r] = 1
            /\ Reported(r) => r \in notices \/ job[id] # "none"

PostInv == \A r \in Repayments : Posted(r)

LEMMA DirectJob ==
    ASSUME HookInv, NEW r \in Repayments
    PROVE  /\ Direct(r) \in JobIds /\ IsDirect(Direct(r)) /\ Target(Direct(r)) = r
           /\ r \in Events /\ r \notin Deliveries
           /\ JobSound(Direct(r)) /\ pc[Direct(r)] \in {"idle", "direct", "end"}
           /\ posts[r] \in Nat /\ job[Direct(r)] \in {"none", "queued", "active", "done"}
           /\ faults \in 0 .. MaxFaults
<1>1. r \in Events /\ Direct(r) \in JobIds
    BY PaymentAssumption DEF JobIds
<1>2. IsDirect(Direct(r)) /\ Target(Direct(r)) = r
    BY DEF IsDirect, Direct, Target
<1>3. r \notin Deliveries
    BY <1>1, <1>2, JobCases
<1>4. JobSound(Direct(r)) /\ WebhookTypeOK
    BY <1>1 DEF HookInv
<1> QED
    BY <1>1, <1>2, <1>3, <1>4 DEF JobSound, WebhookTypeOK

\* A step that does not touch the payment or its job, or is a fault that does not.
LEMMA PostFrame ==
    ASSUME HookInv, NEW r \in Repayments, Posted(r),
           faults' = faults \/ faults' = faults + 1,
           job'[Direct(r)] = job[Direct(r)], pc'[Direct(r)] = pc[Direct(r)], posts'[r] = posts[r],
           Direct(r) \in stalled' <=> Direct(r) \in stalled,
           Reported(r)' <=> Reported(r),
           repayment[r] # Nothing => repayment'[r] # Nothing,
           r \in notices' <=> r \in notices
    PROVE  Posted(r)'
<1>1. faults \in Nat
    BY DirectJob, WebhookAssumption
<1>2. faults' = 0 => faults = 0
    BY <1>1
<1>3. (Rerun(Direct(r)))' = Rerun(Direct(r))
    BY DEF Rerun
<1> QED
    BY <1>2, <1>3 DEF Posted

\* The payments and their sessions are as they were.
LEMMA PostSame ==
    ASSUME HookInv, NEW r \in Repayments, Posted(r),
           faults' = faults \/ faults' = faults + 1,
           job'[Direct(r)] = job[Direct(r)], pc'[Direct(r)] = pc[Direct(r)], posts'[r] = posts[r],
           Direct(r) \in stalled' <=> Direct(r) \in stalled,
           UNCHANGED <<repayment, session, notices>>
    PROVE  Posted(r)'
<1>1. Reported(r)' <=> Reported(r)
    BY DEF Reported, HasWebhook
<1> QED
    BY <1>1, PostFrame

\* A repayment's session is completed, so createPayment gives it no other webhook.
LEMMA PostLoan ==
    ASSUME LoanInv, HookInv, PostInv, LoanStep, UNCHANGED <<hookVars, handling>>,
           NEW r \in Repayments
    PROVE  Posted(r)'
<1> USE DEF rowVars, jobVars, boundVars
<1>1. Posted(r) /\ LoanTypeOK /\ RepaymentSound(r)
      /\ UNCHANGED <<job, pc, posts, stalled, faults>>
    BY DEF PostInv, LoanInv, hookVars
<1>2. ASSUME NEW l \in Loans, NEW webhook \in BOOLEAN, createPayment(l, webhook)
      PROVE  Posted(r)'
  <2>1. PICK s \in Sessions :
          /\ session[s].status = "none"
          /\ session' = [session EXCEPT ![s] =
               [loan |-> l, status |-> "PENDING", webhook |-> webhook, repayment |-> "none"]]
      BY <1>2 DEF createPayment
  <2>2. repayment' = repayment /\ notices' = notices
      BY <1>2 DEF createPayment
  <2>3. repayment[r].session # NoSession => repayment[r].session # s /\ repayment[r].session \in Sessions
      BY <1>1, <2>1 DEF RepaymentSound, LoanTypeOK
  <2>4. repayment[r].session # NoSession => session'[repayment[r].session] = session[repayment[r].session]
      BY <1>1, <2>1, <2>3 DEF LoanTypeOK
  <2>5. Reported(r)' <=> Reported(r)
      BY <2>2, <2>4 DEF Reported, HasWebhook
  <2> QED
      BY <1>1, <2>2, <2>5, PostFrame
<1>3. ASSUME NEW q \in Repayments, CommitRepayment(q)
      PROVE  Posted(r)'
  <2>1. /\ tx[q] # Nothing /\ repayment' = [repayment EXCEPT ![q] = tx[q]]
        /\ notices' = notices \cup {q}
      BY <1>3 DEF CommitRepayment
  <2>2. repayment[q] = Nothing
      BY <2>1 DEF LoanInv, TxSound
  <2>3. CASE r = q
    <3>1. repayment'[r] # Nothing /\ r \in notices' /\ ~Reported(r)
        BY <1>1, <2>1, <2>2, <2>3 DEF LoanTypeOK, Reported
    <3>2. job[Direct(r)] = "none" /\ pc[Direct(r)] = "idle"
        BY <1>1, <3>1, DirectJob DEF Posted, JobSound
    <3> QED
        BY <1>1, <3>1, <3>2 DEF Posted
  <2>4. CASE r # q
    <3>1. repayment'[r] = repayment[r] /\ (r \in notices' <=> r \in notices)
        BY <1>1, <2>1, <2>4 DEF LoanTypeOK
    <3>2. ASSUME NEW s \in Sessions PROVE session'[s].webhook = session[s].webhook
      <4>1. PICK row0 : row0 = [session[s] EXCEPT !.status = "COMPLETED", !.repayment = q]
          OBVIOUS
      <4>2. session'[s] = IF s = tx[q].session THEN row0 ELSE session[s]
          BY <1>3, <4>1, Zenon DEF CommitRepayment
      <4>3. session[s] \in [loan : Loans \cup {"none"}, status : {"none", "PENDING", "COMPLETED"},
                            webhook : BOOLEAN, repayment : Repayments \cup {"none"}]
          BY <1>1 DEF LoanTypeOK
      <4>4. row0.webhook = session[s].webhook
          BY <4>1, <4>3
      <4> QED
          BY <4>2, <4>4
    <3>3. repayment[r].session # NoSession => repayment[r].session \in Sessions
        BY <1>1 DEF LoanTypeOK
    <3>4. Reported(r)' <=> Reported(r)
        BY <3>1, <3>2, <3>3 DEF Reported, HasWebhook
    <3> QED
        BY <1>1, <3>1, <3>4, PostFrame
  <2> QED
      BY <2>3, <2>4
<1>4. CASE UNCHANGED <<repayment, session, notices>>
    BY <1>1, <1>4, PostSame
<1> QED
    BY <1>2, <1>3, <1>4 DEF LoanStep, issueLoan, recordRepayment, BeginRepayment, AbortRepayment

\* Calls of the service and its faults.
LEMMA PostCalls ==
    ASSUME HookInv, PostInv, WebhookStep, UNCHANGED <<loanVars, handling>>, NEW r \in Repayments
    PROVE  Posted(r)'
<1> USE DEF rowVars, jobVars, boundVars
<1>1. Posted(r) /\ UNCHANGED <<repayment, session, notices>>
    BY DEF PostInv, loanVars
<1>2. CASE UNCHANGED <<job, pc, posts, stalled>> /\ (faults' = faults \/ faults' = faults + 1)
    BY <1>1, <1>2, PostSame
<1>3. ASSUME NEW d \in Deliveries, QueueFailed(d) PROVE Posted(r)'
  <2>1. PICK x \in Timed(d) : Add(x)
      BY <1>3 DEF QueueFailed, AddTimed
  <2>2. job'[Direct(r)] = job[Direct(r)]
      BY <2>1, DeliveryJobs, DirectJob DEF Add, HookInv, WebhookTypeOK
  <2> QED
      BY <1>1, <1>3, <2>2, PostSame DEF QueueFailed
<1>4. ASSUME NEW id \in JobIds, DatabaseError(id) PROVE Posted(r)'
  <2>1. id # Direct(r)
      BY <1>4, DirectJob DEF DatabaseError
  <2>2. pc'[Direct(r)] = pc[Direct(r)]
      BY <1>4, <2>1, DirectJob DEF DatabaseError, Goto, HookInv, WebhookTypeOK
  <2> QED
      BY <1>1, <1>4, <2>2, PostSame DEF DatabaseError
<1>5. ASSUME NEW w \in Webhooks, NEW state,
             registerWebhook(w, state) \/ updateWebhook(w, state) \/ deleteWebhook(w)
      PROVE  Posted(r)'
    BY <1>2, <1>5 DEF registerWebhook, updateWebhook, deleteWebhook
<1>6. ASSUME NEW w \in Webhooks, NEW e \in Tests, testWebhook(w, e) PROVE Posted(r)'
    BY <1>2, <1>6 DEF testWebhook
<1>7. ASSUME NEW e \in Events \cup Tests, AddDeliveryFails(e) PROVE Posted(r)'
    BY <1>2, <1>7 DEF AddDeliveryFails
<1>8. ASSUME NEW due, NEW d, ReadFailed(due) \/ MarkFailed(d) PROVE Posted(r)'
    BY <1>2, <1>8 DEF ReadFailed, MarkFailed
<1> QED
    BY <1>3, <1>4, <1>5, <1>6, <1>7, <1>8 DEF WebhookStep, retryFailedWebhooks

\* The job of another payment, or of a delivery.
LEMMA PostOthers ==
    ASSUME HookInv, NEW id \in JobIds, processWebhookJob(id), NEW r \in Repayments, id # Direct(r)
    PROVE  /\ posts'[r] = posts[r] /\ job'[Direct(r)] = job[Direct(r)]
           /\ pc'[Direct(r)] = pc[Direct(r)] /\ faults' = faults
           /\ Direct(r) \in stalled' <=> Direct(r) \in stalled
<1>1. Target(id) # r
  <2>1. CASE \E e \in Events : id = Direct(e)
      BY <2>1 DEF Direct, Target
  <2>2. CASE ~IsDirect(id)
      BY <2>2, JobCases, DirectJob
  <2>3. IsDirect(id) => \E e \in Events : id = Direct(e)
    <3>1. (\E e \in Events : id = Direct(e)) \/ (\E d \in Deliveries : id \in JobsOf(d))
        BY DEF JobIds
    <3> QED
        BY <3>1, DeliveryJobs
  <2> QED
      BY <2>1, <2>2, <2>3
<1>2. job'[Direct(r)] = job[Direct(r)] /\ pc'[Direct(r)] = pc[Direct(r)] /\ faults' = faults
    BY <1>1, JobFrame, DirectJob DEF boundVars
<1>3. posts' = posts \/ posts' = [posts EXCEPT ![Target(id)] = @ + 1]
    BY DEF processWebhookJob, StartJob, LoadDelivery, SendWebhook, DisableDelivery, DelayDelivery,
           RequeueDelayed, RecordSuccess, TouchWebhook, handleDeliveryFailure, EndJob, UpdateRow
<1>4. stalled' = stalled \/ stalled' = stalled \ {id}
    BY DEF processWebhookJob, StartJob, LoadDelivery, SendWebhook, DisableDelivery, DelayDelivery,
           RequeueDelayed, RecordSuccess, TouchWebhook, handleDeliveryFailure, EndJob, UpdateRow
<1>5. posts'[r] = posts[r]
    BY <1>1, <1>3, DirectJob DEF HookInv, WebhookTypeOK
<1> QED
    BY <1>2, <1>4, <1>5

\* The payment's own job: it starts, posts and ends.
LEMMA PostJob ==
    ASSUME HookInv, NEW r \in Repayments, Posted(r), processWebhookJob(Direct(r)),
           UNCHANGED <<repayment, session, notices>>
    PROVE  Posted(r)'
<1> DEFINE id == Direct(r)
<1>1. /\ id \in JobIds /\ IsDirect(id) /\ Target(id) = r /\ JobSound(id)
      /\ pc[id] \in {"idle", "direct", "end"} /\ posts[r] \in Nat
      /\ job[id] \in {"none", "queued", "active", "done"}
    BY DirectJob
<1>2. Reported(r)' <=> Reported(r)
    BY DEF Reported, HasWebhook
<1>3. /\ job \in [JobIds -> {"none", "queued", "active", "done"}]
      /\ pc \in [JobIds -> {"idle", "load", "direct", "disable", "delay", "requeue", "post",
                            "record", "touch", "fail", "retry", "end"}]
      /\ posts \in [Deliveries \cup Events -> Nat]
    BY DEF HookInv, WebhookTypeOK
<1>4. CASE StartJob(id)
  <2>1. /\ job[id] = "queued" /\ job'[id] = "active" /\ pc'[id] = "direct"
        /\ UNCHANGED <<stalled, posts, faults>>
      BY <1>1, <1>3, <1>4 DEF StartJob, Goto, boundVars
  <2>2. posts'[r] <= Rerun(id)' /\ Rerun(id)' \in {0, 1}
      BY <2>1 DEF Posted, Rerun
  <2> QED
      BY <1>1, <1>2, <2>1, <2>2 DEF Posted
<1>5. CASE \E ok \in BOOLEAN : SendWebhook(id, ok)
  <2>1. /\ pc[id] = "direct" /\ pc'[id] = "end" /\ posts' = [posts EXCEPT ![r] = @ + 1]
        /\ UNCHANGED <<job, stalled, faults>>
      BY <1>1, <1>3, <1>5 DEF SendWebhook, Goto, boundVars
  <2>2. posts'[r] = posts[r] + 1
      BY <1>3, <2>1, DirectJob
  <2>3. posts[r] <= Rerun(id) /\ Rerun(id) \in {0, 1} /\ Rerun(id)' = Rerun(id) /\ job[id] = "active"
      BY <1>1, <2>1 DEF Posted, Rerun, JobSound
  <2>4. faults = 0 => posts'[r] = 1
      BY <1>1, <2>1, <2>2, <2>3 DEF Posted, Rerun
  <2> QED
      BY <1>1, <1>2, <2>1, <2>2, <2>3, <2>4 DEF Posted
<1>6. CASE EndJob(id)
  <2>1. /\ pc[id] = "end" /\ pc'[id] = "idle" /\ job'[id] = "done"
        /\ stalled' = stalled \ {id} /\ UNCHANGED <<posts, faults>>
      BY <1>1, <1>3, <1>6 DEF EndJob, At, Goto, boundVars, Finished, Direct
  <2>2. job[id] = "active"
      BY <1>1, <2>1 DEF JobSound
  <2> QED
      BY <1>1, <1>2, <2>1, <2>2 DEF Posted
<1> QED
    BY <1>1, <1>4, <1>5, <1>6
    DEF processWebhookJob, LoadDelivery, DisableDelivery, DelayDelivery, RequeueDelayed,
        RecordSuccess, TouchWebhook, handleDeliveryFailure, At

\* An orphan runs once more, and then no more.
LEMMA PostStalled ==
    ASSUME HookInv, NEW id \in JobIds, Stalled(id), NEW r \in Repayments, Posted(r),
           UNCHANGED <<repayment, session, notices>>
    PROVE  Posted(r)'
<1>1. /\ UNCHANGED <<pc, posts, faults>> /\ job[id] = "active" /\ pc[id] = "idle"
      /\ job' = [job EXCEPT ![id] = IF id \in stalled THEN Finished(id) ELSE "queued"]
      /\ stalled' = IF id \in stalled THEN stalled \ {id} ELSE stalled \cup {id}
    BY DEF Stalled, At, boundVars
<1>2. CASE id # Direct(r)
    BY <1>1, <1>2, PostSame, DirectJob DEF HookInv, WebhookTypeOK
<1>3. CASE id = Direct(r)
  <2>1. Finished(id) = "done" /\ faults # 0
      BY <1>1, <1>3 DEF Finished, Direct, Posted
  <2>2. job'[id] = IF id \in stalled THEN "done" ELSE "queued"
      BY <1>1, <2>1 DEF HookInv, WebhookTypeOK
  <2>3. Reported(r)' <=> Reported(r)
      BY DEF Reported, HasWebhook
  <2>4. posts[r] \in Nat /\ posts[r] <= 1 + Rerun(id) /\ posts[r] <= 2
      BY <1>1, <1>3, DirectJob DEF Posted
  <2>5. id \notin stalled => posts[r] <= 1 /\ (Rerun(id))' = 1
      BY <1>1, <2>4 DEF Rerun
  <2>6. r \notin notices
      BY <1>1, <1>3 DEF Posted
  <2>7. Reported(r)
      BY <1>1, <1>3 DEF Posted
  <2> QED
      BY <1>1, <1>3, <2>1, <2>2, <2>3, <2>4, <2>5, <2>6, <2>7 DEF Posted
<1> QED
    BY <1>2, <1>3

\* The event is taken up: its job is added, if there is a webhook to post to.
LEMMA PostHandled ==
    ASSUME LoanInv, HookInv, PostInv, NEW q \in Repayments, handlePaymentReceived(q),
           NEW r \in Repayments
    PROVE  Posted(r)'
<1> USE DEF rowVars, jobVars, boundVars
<1>1. Posted(r)
    BY DEF PostInv
<1>2. CASE triggerEvent(q) /\ UNCHANGED loanVars
  <2>1. UNCHANGED <<job, pc, posts, stalled, faults, repayment, session, notices>>
      BY <1>2 DEF triggerEvent, loanVars
  <2> QED
      BY <1>1, <2>1, PostSame
<1>3. CASE /\ q \in notices /\ notices' = notices \ {q}
           /\ IF HasWebhook(q)
              THEN /\ handling' = handling \cup {q}
                   /\ Add(PaymentJob(q))
              ELSE UNCHANGED <<handling, job>>
           /\ UNCHANGED <<loan, shown, session, repayment, tx, overtaken, aborted>>
           /\ UNCHANGED <<rowVars, fanout, adding, sweep, stalled, pc, seen, rate, posts, boundVars>>
  <2>1. UNCHANGED <<pc, posts, stalled, faults, repayment, session>>
      BY <1>3
  <2>2. Reported(r)' <=> Reported(r)
      BY <2>1 DEF Reported, HasWebhook
  <2>3. job'[Direct(r)] = IF r = q /\ HasWebhook(q) THEN "queued" ELSE job[Direct(r)]
    <3>1. Posted(q) /\ Direct(q) \in JobIds /\ job \in [JobIds -> {"none", "queued", "active", "done"}]
        BY DirectJob DEF PostInv, HookInv, WebhookTypeOK
    <3>2. job[Direct(q)] = "none"
        BY <1>3, <3>1 DEF Posted
    <3>3. r # q => Direct(r) # Direct(q)
        BY DEF Direct
    <3> QED
        BY <1>3, <3>1, <3>2, <3>3, DirectJob DEF Add, PaymentJob
  <2>4. CASE r # q
      BY <1>1, <1>3, <2>1, <2>2, <2>3, <2>4, PostFrame
  <2>5. CASE r = q
    <3>1. /\ repayment[r] # Nothing /\ job[Direct(r)] = "none" /\ pc[Direct(r)] = "idle"
          /\ posts[r] = 0 /\ Direct(r) \notin stalled /\ r \notin notices'
        BY <1>1, <1>3, <2>5, DirectJob DEF Posted, JobSound
    <3>2. Reported(r) <=> HasWebhook(r)
        BY <3>1 DEF Reported
    <3>3. (Rerun(Direct(r)))' = 0
        BY <2>1, <3>1 DEF Rerun
    <3>4. CASE HasWebhook(r)
      <4>1. job'[Direct(r)] = "queued" /\ Reported(r)'
          BY <2>2, <2>3, <2>5, <3>2, <3>4
      <4> QED
          BY <2>1, <3>1, <3>3, <4>1 DEF Posted
    <3>5. CASE ~HasWebhook(r)
      <4>1. job'[Direct(r)] = "none" /\ ~Reported(r)'
          BY <2>2, <2>3, <2>5, <3>1, <3>2, <3>5
      <4> QED
          BY <2>1, <3>1, <3>3, <4>1 DEF Posted
    <3> QED
        BY <3>4, <3>5
  <2> QED
      BY <2>4, <2>5
<1> QED
    BY <1>2, <1>3 DEF handlePaymentReceived

LEMMA PostCrash ==
    ASSUME HookInv, ServerCrash, NEW r \in Repayments, Posted(r)
    PROVE  Posted(r)'
<1>1. /\ faults' = faults + 1 /\ notices' = {} /\ pc'[Direct(r)] = "idle"
      /\ UNCHANGED <<job, stalled, posts, repayment, session>>
    BY DirectJob DEF ServerCrash, Crash
<1>2. faults' # 0
    BY <1>1, DirectJob, WebhookAssumption
<1>3. Reported(r)' <=> Reported(r)
    BY <1>1 DEF Reported, HasWebhook
<1>4. (Rerun(Direct(r)))' = Rerun(Direct(r))
    BY <1>1 DEF Rerun
<1> QED
    BY <1>1, <1>2, <1>3, <1>4 DEF Posted

LEMMA PostNext == LoanInv /\ HookInv /\ PostInv /\ [Next]_vars => PostInv'
<1> SUFFICES ASSUME LoanInv, HookInv, PostInv, [Next]_vars, NEW r \in Repayments PROVE Posted(r)'
    BY DEF PostInv
<1> USE DEF rowVars, jobVars, boundVars
<1>1. Posted(r)
    BY DEF PostInv
<1>2. CASE UNCHANGED vars
  <2>1. UNCHANGED <<job, pc, posts, stalled, faults, repayment, session, notices>>
      BY <1>2 DEF vars, loanVars, hookVars
  <2> QED
      BY <1>1, <2>1, PostSame
<1>3. CASE DeliverStep /\ UNCHANGED <<loanVars, handling>>
  <2>1. UNCHANGED <<repayment, session, notices>>
      BY <1>3 DEF loanVars
  <2>2. ASSUME NEW id \in JobIds, processWebhookJob(id) PROVE Posted(r)'
    <3>1. CASE id = Direct(r)
        BY <1>1, <2>1, <2>2, <3>1, PostJob
    <3>2. CASE id # Direct(r)
        BY <1>1, <2>1, <2>2, <3>2, PostOthers, PostSame
    <3> QED
        BY <3>1, <3>2
  <2>3. ASSUME NEW id \in JobIds, Stalled(id) PROVE Posted(r)'
      BY <1>1, <2>1, <2>3, PostStalled
  <2>4. ASSUME NEW w \in Webhooks, NEW e \in Events \cup Tests, queueWebhookDelivery(w, e)
        PROVE  Posted(r)'
    <3>1. UNCHANGED <<pc, posts, stalled, faults>> /\ (job' = job \/ Add(First(<<w, e>>)))
        BY <2>4 DEF queueWebhookDelivery, CreateDelivery, AddDelivery
    <3>2. <<w, e>> \in Deliveries
        BY DEF Deliveries
    <3>3. job'[Direct(r)] = job[Direct(r)]
        BY <3>1, <3>2, DeliveryJobs, DirectJob DEF Add, HookInv, WebhookTypeOK
    <3> QED
        BY <1>1, <2>1, <3>1, <3>3, PostSame
  <2> QED
      BY <1>3, <2>2, <2>3, <2>4 DEF DeliverStep
<1>4. CASE MinutesPass
  <2>1. UNCHANGED <<job, pc, posts, stalled, faults, repayment, session, notices>>
      BY <1>4 DEF MinutesPass, NextWindow, loanVars
  <2> QED
      BY <1>1, <2>1, PostSame
<1> QED
    BY <1>1, <1>2, <1>3, <1>4, PostLoan, PostCalls, PostHandled, PostCrash DEF Next, ServerStep

\* A payment is posted to its session's webhook only once it is recorded and only if
\* there is one, at most twice however often the server dies, and without a fault
\* exactly once: not yet while its event or its job is under way, and then it has been.
PaymentsAccounted ==
    \A r \in Repayments :
       /\ posts[r] <= 2
       /\ posts[r] > 0 => repayment[r] # Nothing /\ HasWebhook(r)
       /\ faults = 0 /\ repayment[r] # Nothing /\ HasWebhook(r) =>
            posts[r] = IF r \in notices \/ Live(Direct(r)) THEN 0 ELSE 1

\* The safety half of PaymentsArePosted, for any number of payments and faults: no
\* event and no job swallows another's (handlePaymentReceived), and what BullMQ runs
\* again it runs once (webhook.service.ts).
THEOREM PaymentsStayAccounted == Spec => []PaymentsAccounted
<1>1. Init => PostInv
  <2> SUFFICES ASSUME Init, NEW r \in Repayments PROVE Posted(r)
      BY DEF PostInv
  <2>1. r \in Events /\ Direct(r) \in JobIds
      BY PaymentAssumption DEF JobIds
  <2>2. /\ job[Direct(r)] = "none" /\ pc[Direct(r)] = "idle" /\ posts[r] = 0
        /\ Direct(r) \notin stalled /\ r \notin notices /\ repayment[r] = Nothing
      BY <2>1 DEF Init, LoanInit, WebhookInit
  <2> QED
      BY <2>2 DEF Posted, Reported
<1>2. HookInv /\ PostInv => PaymentsAccounted
  <2> SUFFICES ASSUME HookInv, PostInv, NEW r \in Repayments
               PROVE  /\ posts[r] <= 2
                      /\ posts[r] > 0 => repayment[r] # Nothing /\ HasWebhook(r)
                      /\ faults = 0 /\ repayment[r] # Nothing /\ HasWebhook(r) =>
                           posts[r] = IF r \in notices \/ Live(Direct(r)) THEN 0 ELSE 1
      BY DEF PaymentsAccounted
  <2>1. Posted(r)
      BY DEF PostInv
  <2>2. /\ pc[Direct(r)] \in {"idle", "direct", "end"} /\ posts[r] \in Nat
        /\ job[Direct(r)] \in {"none", "queued", "active", "done"} /\ JobSound(Direct(r))
      BY DirectJob
  <2>3. faults = 0 => Rerun(Direct(r)) = 0
      BY <2>1 DEF Posted, Rerun
  <2> QED
      BY <2>1, <2>2, <2>3 DEF Posted, Reported, Live, JobSound
<1>3. Init => LoanInv /\ HookInv
    BY LoanInitial, HookInitial
<1>4. LoanInv /\ HookInv /\ PostInv /\ [Next]_vars => (LoanInv /\ HookInv /\ PostInv)'
    BY LoanNext, HookNext, PostNext
<1> QED
    BY <1>1, <1>2, <1>3, <1>4, PTL DEF Spec
=============================================================================
