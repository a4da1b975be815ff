----------------------- MODULE TransactionQueueProofs -----------------------
(***************************************************************************)
(* Proofs about TransactionQueue, for any number of keys, attempts and     *)
(* crashes.                                                                *)
(***************************************************************************)
EXTENDS TransactionQueue, Integers, TLAPS

----------------------------------------------------------------------------
(* The inductive invariant.  A success travels from the ledger through the    *)
(* worker into the cache and the job, so each stage of the worker has to say  *)
(* what it has seen; and a dead letter is written at most once because the    *)
(* failure that exhausts a job is final.                                      *)

\* A job that may still run has attempts and a stall left, and only an active
\* job has a worker in the middle of it.
WorkLeft(k) ==
    /\ job[k] \in {"waiting", "active"} => RetriesLeft(made[k]) /\ stalls[k] <= 1
    /\ step[k] # "idle" => job[k] = "active"

\* A worker past the poll has seen the transaction applied; one that submits
\* found no outcome stored.
Seen(k) ==
    /\ step[k] \in {"store_success", "return"} => Confirmed(k)
    /\ cache[k] = "success" => Confirmed(k)
    /\ returnvalue[k] = "success" => Confirmed(k)
    /\ step[k] \in {"submit", "poll"} => ~Cached(k)

\* The last attempt's event is followed by one dead letter, and nothing runs the
\* job again.
LastAttempt(k) ==
    /\ <<k, MAX_RETRIES>> \in failedEvents => job[k] = "failed" /\ dlq[k] = 0
    /\ dlq[k] > 0 => job[k] = "failed"

QueueInv == TypeOK /\ \A k \in Keys : WorkLeft(k) /\ Seen(k) /\ LastAttempt(k)

\* What a step for key k leaves alone: everything of the other keys.
OthersKept(k) ==
    /\ \A j \in Keys \ {k} :
         /\ job'[j] = job[j] /\ made'[j] = made[j] /\ stalls'[j] = stalls[j]
         /\ returnvalue'[j] = returnvalue[j] /\ step'[j] = step[j] /\ cache'[j] = cache[j]
         /\ dlq'[j] = dlq[j] /\ ledger'[j] = ledger[j]
    /\ \A e \in failedEvents' : e[1] = k \/ e \in failedEvents

\* So a step for key k that keeps the types need only keep k's part.
LEMMA OneKey ==
    ASSUME QueueInv, NEW k \in Keys, TypeOK', OthersKept(k),
           (WorkLeft(k) /\ Seen(k) /\ LastAttempt(k))'
    PROVE  QueueInv'
<1>1. ASSUME NEW j \in Keys, j # k
      PROVE  (WorkLeft(j) /\ Seen(j) /\ LastAttempt(j))'
  <2>1. /\ job'[j] = job[j] /\ made'[j] = made[j] /\ stalls'[j] = stalls[j]
        /\ returnvalue'[j] = returnvalue[j] /\ step'[j] = step[j] /\ cache'[j] = cache[j]
        /\ dlq'[j] = dlq[j] /\ ledger'[j] = ledger[j]
      BY <1>1 DEF OthersKept
  <2>2. <<j, MAX_RETRIES>> \in failedEvents' => <<j, MAX_RETRIES>> \in failedEvents
      BY <1>1 DEF OthersKept
  <2>3. WorkLeft(j) /\ Seen(j) /\ LastAttempt(j)
      BY DEF QueueInv
  <2> QED
      BY <2>1, <2>2, <2>3 DEF WorkLeft, Seen, LastAttempt, RetriesLeft, Confirmed, Cached
<1> QED
    BY <1>1 DEF QueueInv

----------------------------------------------------------------------------
(* The steps, one lemma each *)

\* An attempt that ends in a throw.
LEMMA ThrowKeeps ==
    ASSUME QueueInv, NEW k \in Keys, step[k] # "idle", Throw(k),
           ledger' = ledger \/ (~Included(k) /\ ledger' = [ledger EXCEPT ![k] = "pending"]),
           UNCHANGED <<stalls, returnvalue, cache, dlq, crashes>>
    PROVE  QueueInv'
<1>1. /\ TypeOK /\ WorkLeft(k) /\ Seen(k) /\ LastAttempt(k)
      /\ MAX_RETRIES \in Nat \ {0}
    BY QueueAssumption DEF QueueInv
<1>2. made[k] + 1 \in 0 .. MAX_RETRIES
    BY <1>1 DEF WorkLeft, RetriesLeft, TypeOK
<1>3. /\ made' = [made EXCEPT ![k] = made[k] + 1]
      /\ job' = [job EXCEPT ![k] = IF made[k] + 1 < MAX_RETRIES THEN "waiting" ELSE "failed"]
      /\ step' = [step EXCEPT ![k] = "idle"]
      /\ failedEvents' = failedEvents \cup {<<k, made[k] + 1>>}
    BY <1>1 DEF Throw, RetriesLeft, TypeOK
<1>4. TypeOK'
    BY <1>1, <1>2, <1>3 DEF TypeOK, JobStates, Steps, LedgerStates
<1>5. OthersKept(k)
    BY <1>1, <1>3 DEF OthersKept, TypeOK
<1>6. /\ ledger'[k] = ledger[k] \/ ~Confirmed(k)
      /\ step'[k] = "idle"
      /\ made'[k] = made[k] + 1
      /\ job'[k] = IF made[k] + 1 < MAX_RETRIES THEN "waiting" ELSE "failed"
    BY <1>1, <1>3 DEF TypeOK, Included, Confirmed
<1>7. WorkLeft(k)'
    BY <1>1, <1>6 DEF WorkLeft, RetriesLeft
<1>8. Seen(k)'
    BY <1>1, <1>6 DEF Seen, Confirmed
<1>9. LastAttempt(k)'
  <2>1. job[k] = "active"
      BY <1>1 DEF WorkLeft
  <2>2. dlq[k] = 0 /\ <<k, MAX_RETRIES>> \notin failedEvents
      BY <1>1, <2>1 DEF LastAttempt, TypeOK
  <2>3. <<k, MAX_RETRIES>> \in failedEvents' => made[k] + 1 = MAX_RETRIES
      BY <1>3, <2>2
  <2> QED
      BY <1>1, <1>2, <1>6, <2>2, <2>3 DEF LastAttempt
<1> QED
    BY <1>4, <1>5, <1>7, <1>8, <1>9, OneKey

\* A move of the worker within the job.
LEMMA GotoKeeps ==
    ASSUME QueueInv, NEW k \in Keys, NEW s \in Steps, step[k] # "idle", Goto(k, s),
           ledger' = ledger \/ (~Included(k) /\ ledger' = [ledger EXCEPT ![k] = "pending"]),
           s \in {"store_success", "return"} => Confirmed(k) /\ ledger' = ledger,
           s \in {"submit", "poll"} => ~Cached(k),
           UNCHANGED <<stalls, returnvalue, cache, dlq, crashes>>
    PROVE  QueueInv'
<1>1. TypeOK /\ WorkLeft(k) /\ Seen(k) /\ LastAttempt(k)
    BY DEF QueueInv
<1>2. /\ step' = [step EXCEPT ![k] = s]
      /\ UNCHANGED <<job, made, failedEvents>>
    BY DEF Goto
<1>3. TypeOK'
    BY <1>1, <1>2 DEF TypeOK, LedgerStates
<1>4. OthersKept(k)
    BY <1>1, <1>2 DEF OthersKept, TypeOK
<1>5. (ledger'[k] = ledger[k] \/ ~Confirmed(k)) /\ step'[k] = s
    BY <1>1, <1>2 DEF TypeOK, Included, Confirmed
<1>6. WorkLeft(k)' /\ LastAttempt(k)'
    BY <1>1, <1>2, <1>5 DEF WorkLeft, RetriesLeft, LastAttempt
<1>7. Seen(k)'
    BY <1>1, <1>2, <1>5 DEF Seen, Confirmed, Cached
<1> QED
    BY <1>3, <1>4, <1>6, <1>7, OneKey

LEMMA CompleteKeeps ==
    ASSUME QueueInv, NEW k \in Keys, NEW result \in Outcomes, step[k] # "idle",
           result = "success" => Confirmed(k), Complete(k, result)
    PROVE  QueueInv'
<1>1. TypeOK /\ WorkLeft(k) /\ Seen(k) /\ LastAttempt(k)
    BY DEF QueueInv
<1>2. TypeOK' /\ OthersKept(k)
    BY <1>1 DEF Complete, TypeOK, OthersKept, JobStates, Steps
<1>3. /\ job'[k] = "completed" /\ step'[k] = "idle" /\ returnvalue'[k] = result
      /\ UNCHANGED <<made, stalls, cache, failedEvents, dlq, ledger>>
    BY <1>1 DEF Complete, TypeOK
<1>4. WorkLeft(k)' /\ Seen(k)' /\ LastAttempt(k)'
    BY <1>1, <1>3 DEF WorkLeft, Seen, LastAttempt, Confirmed, Cached
<1> QED
    BY <1>2, <1>4, OneKey

\* queue.add, on enqueueing and on retrying a dead letter: it starts a job only
\* for an id the queue does not know.
LEMMA AddedKeeps ==
    ASSUME QueueInv, NEW k \in Keys, Added(k),
           dlq' = dlq \/ (dlq[k] > 0 /\ dlq' = [dlq EXCEPT ![k] = dlq[k] - 1]),
           UNCHANGED <<step, cache, failedEvents, ledger, crashes>>
    PROVE  QueueInv'
<1>1. /\ TypeOK /\ WorkLeft(k) /\ Seen(k) /\ LastAttempt(k)
      /\ MAX_RETRIES \in Nat \ {0}
    BY QueueAssumption DEF QueueInv
<1>2. dlq' \in [Keys -> 0 .. 1] /\ (dlq'[k] = dlq[k] \/ dlq'[k] = 0)
      /\ \A j \in Keys \ {k} : dlq'[j] = dlq[j]
    BY <1>1 DEF TypeOK
<1>3. CASE job[k] = "none"
  <2>1. /\ job' = [job EXCEPT ![k] = "waiting"]
        /\ made' = [made EXCEPT ![k] = 0]
        /\ stalls' = [stalls EXCEPT ![k] = 0]
        /\ returnvalue' = [returnvalue EXCEPT ![k] = "none"]
      BY <1>3 DEF Added
  <2>2. TypeOK' /\ OthersKept(k)
      BY <1>1, <1>2, <2>1 DEF TypeOK, OthersKept, JobStates, Outcomes
  <2>3. WorkLeft(k)' /\ Seen(k)' /\ LastAttempt(k)'
      BY <1>1, <1>2, <1>3, <2>1
         DEF WorkLeft, Seen, LastAttempt, RetriesLeft, Confirmed, Cached, TypeOK
  <2> QED
      BY <2>2, <2>3, OneKey
<1>4. CASE job[k] # "none"
  <2>1. UNCHANGED <<job, made, stalls, returnvalue>>
      BY <1>4 DEF Added
  <2>2. TypeOK' /\ OthersKept(k)
      BY <1>1, <1>2, <2>1 DEF TypeOK, OthersKept
  <2>3. WorkLeft(k)' /\ Seen(k)' /\ LastAttempt(k)'
      BY <1>1, <1>2, <2>1 DEF WorkLeft, Seen, LastAttempt, RetriesLeft, Confirmed, Cached
  <2> QED
      BY <2>2, <2>3, OneKey
<1> QED
    BY <1>3, <1>4

LEMMA StartKeeps ==
    ASSUME QueueInv, NEW k \in Keys, StartJob(k)
    PROVE  QueueInv'
<1>1. TypeOK /\ WorkLeft(k) /\ Seen(k) /\ LastAttempt(k)
    BY DEF QueueInv
<1>2. TypeOK' /\ OthersKept(k)
    BY <1>1 DEF StartJob, TypeOK, OthersKept, JobStates, Steps
<1>3. WorkLeft(k)' /\ Seen(k)' /\ LastAttempt(k)'
    BY <1>1 DEF StartJob, WorkLeft, Seen, LastAttempt, RetriesLeft, Confirmed, Cached, TypeOK
<1> QED
    BY <1>2, <1>3, OneKey

LEMMA CheckKeeps ==
    ASSUME QueueInv, NEW k \in Keys, checkIdempotency(k)
    PROVE  QueueInv'
<1>1. CASE Cached(k) /\ Complete(k, cache[k])
    BY <1>1, CompleteKeeps DEF checkIdempotency, QueueInv, TypeOK, Seen
<1>2. CASE ~Cached(k) /\ Goto(k, "submit") /\ UNCHANGED <<stalls, returnvalue, cache, dlq, ledger, crashes>>
    BY <1>2, GotoKeeps DEF checkIdempotency, Steps
<1> QED
    BY <1>1, <1>2 DEF checkIdempotency

LEMMA SubmitKeeps ==
    ASSUME QueueInv, NEW k \in Keys, submitSignedTransaction(k)
    PROVE  QueueInv'
<1> DEFINE Sent == ledger' = ledger
                   \/ (~Included(k) /\ ledger' = [ledger EXCEPT ![k] = "pending"])
<1>1. /\ step[k] = "submit" /\ ~Cached(k)
      /\ UNCHANGED <<stalls, returnvalue, cache, dlq, crashes>>
    BY DEF submitSignedTransaction, QueueInv, Seen
<1>2. (Goto(k, "poll") \/ Throw(k) \/ Goto(k, "store_error")) /\ Sent
    BY DEF submitSignedTransaction, Caught
<1>3. CASE Throw(k)
    BY <1>1, <1>2, <1>3, ThrowKeeps
<1>4. CASE Goto(k, "poll")
    BY <1>1, <1>2, <1>4, GotoKeeps DEF Steps
<1>5. CASE Goto(k, "store_error")
    BY <1>1, <1>2, <1>5, GotoKeeps DEF Steps
<1> QED
    BY <1>2, <1>3, <1>4, <1>5

LEMMA PollKeeps ==
    ASSUME QueueInv, NEW k \in Keys, PollTransaction(k)
    PROVE  QueueInv'
<1>1. /\ step[k] = "poll" /\ UNCHANGED <<stalls, returnvalue, cache, dlq, ledger, crashes>>
      /\ \/ Confirmed(k) /\ Goto(k, "store_success")
         \/ Goto(k, "store_error")
         \/ Throw(k)
    BY DEF PollTransaction, Caught
<1>2. CASE Confirmed(k) /\ Goto(k, "store_success")
    BY <1>1, <1>2, GotoKeeps DEF Steps
<1>3. CASE Goto(k, "store_error")
    BY <1>1, <1>3, GotoKeeps DEF Steps
<1>4. CASE Throw(k)
    BY <1>1, <1>4, ThrowKeeps
<1> QED
    BY <1>1, <1>2, <1>3, <1>4

LEMMA StoreKeeps ==
    ASSUME QueueInv, NEW k \in Keys, storeIdempotencyResult(k)
    PROVE  QueueInv'
<1>1. TypeOK /\ WorkLeft(k) /\ Seen(k) /\ LastAttempt(k)
    BY DEF QueueInv
<1>2. TypeOK' /\ OthersKept(k)
    BY <1>1 DEF storeIdempotencyResult, TypeOK, OthersKept, Outcomes, Steps
<1>3. WorkLeft(k)' /\ Seen(k)' /\ LastAttempt(k)'
    BY <1>1 DEF storeIdempotencyResult, WorkLeft, Seen, LastAttempt, RetriesLeft, Confirmed,
                Cached, TypeOK
<1> QED
    BY <1>2, <1>3, OneKey

LEMMA FinishKeeps ==
    ASSUME QueueInv, NEW k \in Keys, FinishJob(k)
    PROVE  QueueInv'
<1>1. CASE step[k] = "return" /\ Complete(k, "success")
    BY <1>1, CompleteKeeps DEF QueueInv, Seen, Outcomes
<1>2. CASE step[k] = "throw" /\ Throw(k)
           /\ UNCHANGED <<stalls, returnvalue, cache, dlq, ledger, crashes>>
    BY <1>2, ThrowKeeps
<1> QED
    BY <1>1, <1>2 DEF FinishJob

LEMMA StalledKeeps ==
    ASSUME QueueInv, NEW k \in Keys, Stalled(k)
    PROVE  QueueInv'
<1>1. /\ TypeOK /\ WorkLeft(k) /\ Seen(k) /\ LastAttempt(k)
      /\ MAX_RETRIES \in Nat \ {0}
    BY QueueAssumption DEF QueueInv
<1>2. /\ job[k] = "active" /\ step[k] = "idle"
      /\ stalls' = [stalls EXCEPT ![k] = stalls[k] + 1]
      /\ job' = [job EXCEPT ![k] = IF stalls[k] + 1 > 1 THEN "failed" ELSE "waiting"]
      /\ failedEvents' \subseteq failedEvents \cup {<<k, made[k]>>}
      /\ UNCHANGED <<made, returnvalue, step, cache, dlq, ledger, crashes>>
    BY <1>1 DEF Stalled, TypeOK
<1>3. made[k] \in 0 .. MAX_RETRIES /\ made[k] < MAX_RETRIES /\ stalls[k] + 1 \in 0 .. 2
    BY <1>1, <1>2 DEF WorkLeft, RetriesLeft, TypeOK
<1>4. TypeOK' /\ OthersKept(k)
    BY <1>1, <1>2, <1>3 DEF TypeOK, OthersKept, JobStates
<1>5. WorkLeft(k)' /\ Seen(k)'
    BY <1>1, <1>2, <1>3 DEF WorkLeft, Seen, RetriesLeft, Confirmed, Cached, TypeOK
<1>6. LastAttempt(k)'
    BY <1>1, <1>2, <1>3 DEF LastAttempt, TypeOK
<1> QED
    BY <1>4, <1>5, <1>6, OneKey

LEMMA ListenKeeps ==
    ASSUME QueueInv, NEW k \in Keys, Listen(k)
    PROVE  QueueInv'
<1>1. /\ TypeOK /\ WorkLeft(k) /\ Seen(k) /\ LastAttempt(k)
      /\ MAX_RETRIES \in Nat \ {0}
    BY QueueAssumption DEF QueueInv
<1>2. PICK n \in 0 .. MAX_RETRIES : moveToDLQ(k, n)
    BY DEF Listen
<1>3. /\ <<k, n>> \in failedEvents
      /\ failedEvents' = failedEvents \ {<<k, n>>}
      /\ dlq' = IF n = MAX_RETRIES THEN [dlq EXCEPT ![k] = dlq[k] + 1] ELSE dlq
      /\ UNCHANGED <<job, made, stalls, returnvalue, step, cache, ledger, crashes>>
    BY <1>1, <1>2 DEF moveToDLQ, Exhausted
<1>4. CASE n = MAX_RETRIES
  <2>1. dlq[k] = 0 /\ job[k] = "failed"
      BY <1>1, <1>3, <1>4 DEF LastAttempt
  <2>2. dlq' = [dlq EXCEPT ![k] = 1]
      BY <1>3, <1>4, <2>1
  <2>3. TypeOK' /\ OthersKept(k)
      BY <1>1, <1>3, <2>2 DEF TypeOK, OthersKept
  <2>4. WorkLeft(k)' /\ Seen(k)' /\ LastAttempt(k)'
      BY <1>1, <1>3, <1>4, <2>1, <2>2
         DEF WorkLeft, Seen, LastAttempt, RetriesLeft, Confirmed, Cached
  <2> QED
      BY <2>3, <2>4, OneKey
<1>5. CASE n # MAX_RETRIES
  <2>1. TypeOK' /\ OthersKept(k)
      BY <1>1, <1>3, <1>5 DEF TypeOK, OthersKept
  <2>2. WorkLeft(k)' /\ Seen(k)' /\ LastAttempt(k)'
      BY <1>1, <1>3, <1>5 DEF WorkLeft, Seen, LastAttempt, RetriesLeft, Confirmed, Cached
  <2> QED
      BY <2>1, <2>2, OneKey
<1> QED
    BY <1>4, <1>5

\* The network decides a pending transaction only, so an applied one stays.
LEMMA NetworkKeeps ==
    ASSUME QueueInv, NEW k \in Keys, NetworkDecides(k)
    PROVE  QueueInv'
<1>1. TypeOK /\ WorkLeft(k) /\ Seen(k) /\ LastAttempt(k)
    BY DEF QueueInv
<1>2. PICK outcome \in {"applied", "reverted", "none"} :
        ledger' = [ledger EXCEPT ![k] = outcome]
    BY DEF NetworkDecides
<1>3. TypeOK' /\ OthersKept(k)
    BY <1>1, <1>2 DEF NetworkDecides, TypeOK, OthersKept, LedgerStates
<1>4. WorkLeft(k)' /\ Seen(k)' /\ LastAttempt(k)'
    BY <1>1, <1>2 DEF NetworkDecides, WorkLeft, Seen, LastAttempt, RetriesLeft, Confirmed,
                      Cached, TypeOK
<1> QED
    BY <1>3, <1>4, OneKey

LEMMA ForgetKeeps ==
    ASSUME QueueInv, NEW k \in Keys, Forget(k)
    PROVE  QueueInv'
<1>1. TypeOK /\ WorkLeft(k) /\ Seen(k) /\ LastAttempt(k)
    BY DEF QueueInv
<1>2. TypeOK' /\ OthersKept(k)
    BY <1>1 DEF Forget, TypeOK, OthersKept, JobStates, Outcomes
<1>3. WorkLeft(k)' /\ Seen(k)' /\ LastAttempt(k)'
    BY <1>1 DEF Forget, WorkLeft, Seen, LastAttempt, RetriesLeft, Confirmed, Cached, TypeOK
<1> QED
    BY <1>2, <1>3, OneKey

LEMMA CrashKeeps == ASSUME QueueInv, Crash PROVE QueueInv'
<1>1. TypeOK'
    BY QueueAssumption DEF QueueInv, Crash, TypeOK, Steps
<1>2. ASSUME NEW k \in Keys
      PROVE  (WorkLeft(k) /\ Seen(k) /\ LastAttempt(k))'
    BY DEF QueueInv, Crash, WorkLeft, Seen, LastAttempt, RetriesLeft, Confirmed, Cached
<1> QED
    BY <1>1, <1>2 DEF QueueInv

LEMMA QueueStep == QueueInv /\ [Next]_vars => QueueInv'
<1> SUFFICES ASSUME QueueInv, [Next]_vars
             PROVE  QueueInv'
    OBVIOUS
<1>1. ASSUME NEW k \in Keys, enqueueTransaction(k)
      PROVE  QueueInv'
    BY <1>1, AddedKeeps DEF enqueueTransaction
<1>2. ASSUME NEW k \in Keys, retryDLQJob(k)
      PROVE  QueueInv'
    BY <1>2, AddedKeeps DEF retryDLQJob
<1>3. ASSUME NEW k \in Keys, Process(k)
      PROVE  QueueInv'
    BY <1>3, StartKeeps, CheckKeeps, SubmitKeeps, PollKeeps, StoreKeeps, FinishKeeps,
       StalledKeeps DEF Process
<1>4. CASE UNCHANGED vars
  <2>1. TypeOK'
      BY <1>4 DEF QueueInv, TypeOK, vars
  <2>2. ASSUME NEW k \in Keys
        PROVE  (WorkLeft(k) /\ Seen(k) /\ LastAttempt(k))'
      BY <1>4 DEF QueueInv, vars, WorkLeft, Seen, LastAttempt, RetriesLeft, Confirmed, Cached
  <2> QED
      BY <2>1, <2>2 DEF QueueInv
<1> QED
    BY <1>1, <1>2, <1>3, <1>4, ListenKeeps, NetworkKeeps, ForgetKeeps, CrashKeeps DEF Next

LEMMA QueueInit == Init => QueueInv
<1> SUFFICES ASSUME Init PROVE QueueInv
    OBVIOUS
<1>1. TypeOK
    BY QueueAssumption DEF Init, TypeOK, JobStates, Outcomes, Steps, LedgerStates
<1>2. ASSUME NEW k \in Keys
      PROVE  WorkLeft(k) /\ Seen(k) /\ LastAttempt(k)
    BY DEF Init, WorkLeft, Seen, LastAttempt, Cached
<1> QED
    BY <1>1, <1>2 DEF QueueInv

----------------------------------------------------------------------------
(* What it gives *)

\* Attempts, stalls and dead letters stay within their bounds: no job is
\* attempted more than MAX_RETRIES times, stalls more than twice or has more
\* than one dead letter, through any crashes, retries and re-enqueueings.
THEOREM QueueTypeCorrect == Spec => []TypeOK
    BY QueueInit, QueueStep, PTL DEF Spec, QueueInv

\* A cached or returned success is a transaction the ledger applied.
THEOREM SuccessConfirmed == Spec => []SuccessIsConfirmed
<1>1. QueueInv => SuccessIsConfirmed
    BY DEF QueueInv, Seen, Confirmed, SuccessIsConfirmed
<1> QED
    BY <1>1, QueueInit, QueueStep, PTL DEF Spec

\* Nothing is submitted or polled for a key that has a stored outcome.
THEOREM OutcomeStopsSubmission == Spec => []NoSubmissionAfterOutcome
<1>1. QueueInv => NoSubmissionAfterOutcome
    BY DEF QueueInv, Seen, Cached, NoSubmissionAfterOutcome
<1> QED
    BY <1>1, QueueInit, QueueStep, PTL DEF Spec

----------------------------------------------------------------------------
(* Why jobs end.  That BullMQ goes on running them is fairness and left to    *)
(* TLC; that it cannot go on for ever is a number that falls.                 *)

Running(k) == job[k] \in {"waiting", "active"}

\* How far the worker has still to go in this attempt.
Position(k) ==
    CASE job[k] = "waiting"                          -> 8
      [] job[k] = "active" /\ step[k] = "check"      -> 7
      [] job[k] = "active" /\ step[k] = "submit"     -> 6
      [] job[k] = "active" /\ step[k] = "poll"       -> 5
      [] job[k] = "active" /\ step[k] \in {"store_success", "store_error"} -> 4
      [] job[k] = "active" /\ step[k] \in {"return", "throw"} -> 3
      [] OTHER                                       -> 9

Rank(k) ==
    20 * (MaxCrashes - crashes) + 10 * ((MAX_RETRIES - made[k]) + (2 - stalls[k])) + Position(k)

\* While a job is not finished nothing that happens gives it more to do, neither what
\* clients and administrators ask for, nor other jobs, nor a crash, and every step of
\* its own brings it closer to its end.
JobsAdvance ==
    [][\A k \in Keys : Running(k) /\ Running(k)' =>
         /\ Rank(k)' \in Nat /\ Rank(k)' <= Rank(k)
         /\ Process(k) => Rank(k)' < Rank(k)]_vars

LEMMA RankTyped ==
    ASSUME TypeOK, NEW k \in Keys
    PROVE  Position(k) \in 3 .. 9 /\ Rank(k) \in Nat
<1>1. Position(k) \in 3 .. 9
    BY DEF Position
<1>2. /\ MaxCrashes - crashes \in Nat /\ MAX_RETRIES - made[k] \in Nat /\ 2 - stalls[k] \in Nat
    BY QueueAssumption DEF TypeOK
<1> QED
    BY <1>1, <1>2 DEF Rank

\* What one step does to the job's numbers.
Falls(k) ==
    \/ /\ crashes' = crashes /\ made'[k] = made[k] /\ stalls'[k] = stalls[k]
       /\ Position(k)' < Position(k)
    \/ /\ crashes' = crashes /\ made'[k] = made[k] + 1 /\ stalls'[k] = stalls[k]
    \/ /\ crashes' = crashes /\ made'[k] = made[k] /\ stalls'[k] = stalls[k] + 1
    \/ /\ crashes' = crashes + 1 /\ made'[k] = made[k] /\ stalls'[k] = stalls[k]

LEMMA RankFalls ==
    ASSUME TypeOK, TypeOK', NEW k \in Keys, Falls(k)
    PROVE  Rank(k)' < Rank(k)
<1>1. Position(k) \in 3 .. 9
    BY RankTyped
<1>2. Position(k)' \in 3 .. 9
    BY DEF Position
<1>3. /\ crashes \in Int /\ made[k] \in Int /\ stalls[k] \in Int
      /\ MaxCrashes \in Int /\ MAX_RETRIES \in Int
    BY QueueAssumption DEF TypeOK
<1>4. Rank(k)' = 20 * (MaxCrashes - crashes')
                  + 10 * ((MAX_RETRIES - made'[k]) + (2 - stalls'[k])) + Position(k)'
    BY DEF Rank
<1> QED
    BY <1>1, <1>2, <1>3, <1>4 DEF Falls, Rank

\* Every step of processTransaction, and what BullMQ does when it throws or stalls.
LEMMA ProcessFalls ==
    ASSUME QueueInv, NEW k \in Keys, Process(k), Running(k)'
    PROVE  Falls(k)
<1>1. TypeOK /\ WorkLeft(k) /\ job[k] \in JobStates /\ step[k] \in Steps
    BY DEF QueueInv, TypeOK
<1>2. ASSUME step[k] # "idle", Throw(k), UNCHANGED <<stalls, crashes>>
      PROVE  Falls(k)
    BY <1>1, <1>2 DEF Falls, Throw, TypeOK
<1>3. ASSUME NEW s \in Steps, Goto(k, s), UNCHANGED <<stalls, crashes>>,
             \/ step[k] = "check" /\ s = "submit"
             \/ step[k] = "submit" /\ s \in {"poll", "store_error"}
             \/ step[k] = "poll" /\ s \in {"store_success", "store_error"}
      PROVE  Falls(k)
  <2>1. job[k] = "active" /\ job'[k] = "active" /\ step'[k] = s /\ made' = made
      BY <1>1, <1>3 DEF Goto, WorkLeft, TypeOK
  <2>2. Position(k)' < Position(k)
      BY <1>3, <2>1 DEF Position
  <2> QED
      BY <1>3, <2>1, <2>2 DEF Falls
<1>4. ASSUME NEW result, Complete(k, result) PROVE FALSE
    BY <1>1, <1>4 DEF Complete, Running, TypeOK
<1>5. CASE StartJob(k)
  <2>1. job[k] = "waiting" /\ job'[k] = "active" /\ step'[k] = "check"
      BY <1>1, <1>5 DEF StartJob, TypeOK
  <2>2. Position(k)' < Position(k)
      BY <2>1 DEF Position
  <2> QED
      BY <1>5, <2>2 DEF Falls, StartJob
<1>6. CASE checkIdempotency(k)
    BY <1>3, <1>4, <1>6 DEF checkIdempotency, Steps
<1>7. CASE submitSignedTransaction(k)
    BY <1>2, <1>3, <1>7 DEF submitSignedTransaction, Caught, Steps
<1>8. CASE PollTransaction(k)
    BY <1>2, <1>3, <1>8 DEF PollTransaction, Caught, Steps
<1>9. CASE storeIdempotencyResult(k)
  <2>1. /\ step[k] \in {"store_success", "store_error"} /\ step'[k] \in {"return", "throw"}
        /\ UNCHANGED <<job, made, stalls, crashes>>
      BY <1>1, <1>9 DEF storeIdempotencyResult, TypeOK
  <2>2. job[k] = "active" /\ job'[k] = "active"
      BY <1>1, <2>1 DEF WorkLeft
  <2>3. Position(k)' < Position(k)
      BY <2>1, <2>2 DEF Position
  <2> QED
      BY <2>1, <2>3 DEF Falls
<1>10. CASE FinishJob(k)
    BY <1>2, <1>4, <1>10 DEF FinishJob
<1>11. CASE Stalled(k)
    BY <1>1, <1>11 DEF Stalled, Falls, TypeOK
<1> QED
    BY <1>5, <1>6, <1>7, <1>8, <1>9, <1>10, <1>11 DEF Process

\* A job that is not finished is left alone by all steps but its own and a crash.
LEMMA QuietSteps ==
    ASSUME TypeOK, NEW k \in Keys, Running(k), Running(k)', ~Process(k), NEW j \in Keys,
           \/ enqueueTransaction(j) \/ Process(j) \/ Listen(j)
           \/ retryDLQJob(j) \/ NetworkDecides(j) \/ Forget(j)
    PROVE  /\ job'[k] = job[k] /\ step'[k] = step[k] /\ made'[k] = made[k]
           /\ stalls'[k] = stalls[k] /\ crashes' = crashes
<1>1. CASE Process(j)
  <2>1. j # k
      BY <1>1
  <2>2. crashes' = crashes
      BY <1>1 DEF Process, StartJob, checkIdempotency, Complete, submitSignedTransaction,
         PollTransaction, storeIdempotencyResult, FinishJob, Stalled
  <2>3. /\ job' = job \/ \E x : job' = [job EXCEPT ![j] = x]
        /\ step' = step \/ \E x : step' = [step EXCEPT ![j] = x]
        /\ made' = made \/ \E x : made' = [made EXCEPT ![j] = x]
        /\ stalls' = stalls \/ \E x : stalls' = [stalls EXCEPT ![j] = x]
      BY <1>1 DEF Process, StartJob, checkIdempotency, Complete, submitSignedTransaction,
         PollTransaction, storeIdempotencyResult, FinishJob, Stalled, Throw, Goto, Caught
  <2> QED
      BY <2>1, <2>2, <2>3 DEF TypeOK
<1>2. CASE enqueueTransaction(j) \/ retryDLQJob(j)
    BY <1>2 DEF enqueueTransaction, retryDLQJob, Added, Running, TypeOK
<1>3. CASE Listen(j) \/ NetworkDecides(j)
    BY <1>3 DEF Listen, moveToDLQ, NetworkDecides
<1>4. CASE Forget(j)
    BY <1>4 DEF Forget, Running, TypeOK
<1> QED
    BY <1>1, <1>2, <1>3, <1>4

\* The argument behind JobsEnd, for any number of attempts, crashes and keys: retries,
\* stalls, cached outcomes and restarts together run down a number, so no job is tried
\* for ever (processTransaction, attempts and maxStalledCount of the queue).
THEOREM JobsRunDown == Spec => JobsAdvance
<1> DEFINE Advance == \A k \in Keys : Running(k) /\ Running(k)' =>
                        /\ Rank(k)' \in Nat /\ Rank(k)' <= Rank(k)
                        /\ Process(k) => Rank(k)' < Rank(k)
<1>1. QueueInv /\ [Next]_vars => [Advance]_vars
  <2> SUFFICES ASSUME QueueInv, Next, NEW k \in Keys, Running(k), Running(k)'
               PROVE  /\ Rank(k)' \in Nat /\ Rank(k)' <= Rank(k)
                      /\ Process(k) => Rank(k)' < Rank(k)
      OBVIOUS
  <2>1. QueueInv'
      BY QueueStep
  <2>2. TypeOK /\ TypeOK'
      BY <2>1 DEF QueueInv
  <2>3. Rank(k) \in Nat
      BY <2>2, RankTyped
  <2>4. Rank(k)' \in Nat
    <3>1. Position(k)' \in 3 .. 9
        BY DEF Position
    <3>2. /\ MaxCrashes - crashes' \in Nat /\ MAX_RETRIES - made'[k] \in Nat
          /\ 2 - stalls'[k] \in Nat
      <4>1. /\ crashes' \in 0 .. MaxCrashes /\ made'[k] \in 0 .. MAX_RETRIES /\ stalls'[k] \in 0 .. 2
          BY <2>2 DEF TypeOK
      <4>2. \A b \in Nat : \A a \in 0 .. b : b - a \in Nat
          OBVIOUS
      <4>3. MaxCrashes \in Nat /\ MAX_RETRIES \in Nat /\ 2 \in Nat
          BY QueueAssumption
      <4> QED
          BY <4>1, <4>2, <4>3
    <3> QED
        BY <3>1, <3>2 DEF Rank
  <2>5. ASSUME Falls(k) PROVE Rank(k)' < Rank(k)
      BY <2>2, <2>5, RankFalls
  <2>6. CASE Process(k)
      BY <2>3, <2>4, <2>5, <2>6, ProcessFalls
  <2>7. CASE Crash
      BY <2>2, <2>3, <2>4, <2>5, <2>7 DEF Crash, Falls
  <2>8. CASE ~Process(k) /\ \E j \in Keys : enqueueTransaction(j) \/ Process(j) \/ Listen(j)
                                 \/ retryDLQJob(j) \/ NetworkDecides(j) \/ Forget(j)
    <3>1. /\ job'[k] = job[k] /\ step'[k] = step[k] /\ made'[k] = made[k]
          /\ stalls'[k] = stalls[k] /\ crashes' = crashes
        BY <2>2, <2>8, QuietSteps
    <3>2. Position(k)' = Position(k)
        BY <3>1 DEF Position
    <3>3. Rank(k)' = Rank(k)
        BY <3>1, <3>2 DEF Rank
    <3> QED
        BY <2>3, <2>4, <2>8, <3>3
  <2> QED
      BY <2>6, <2>7, <2>8 DEF Next
<1>2. Init => QueueInv
    BY QueueInit
<1>3. QueueInv /\ [Next]_vars => QueueInv'
    BY QueueStep
<1> QED
    BY <1>1, <1>2, <1>3, PTL DEF Spec, JobsAdvance

----------------------------------------------------------------------------
(* Dead letters.  The listener that writes them lives in memory, so they are   *)
(* certain only while the process does; then no job is orphaned either, and a  *)
(* job fails by its last attempt alone.                                        *)

Attended == crashes = 0 => \A k \in Keys : job[k] = "active" => step[k] # "idle"

\* Nothing but the end of the last attempt fails a job, and its event stays until
\* the listener turns it into the job's one dead letter.
Lettered(k) ==
    /\ job[k] # "failed" /\ job'[k] = "failed" => <<k, MAX_RETRIES>> \in failedEvents'
    /\ <<k, MAX_RETRIES>> \in failedEvents /\ <<k, MAX_RETRIES>> \notin failedEvents' =>
         dlq[k] = 0 /\ dlq'[k] = 1

LettersFollow == [][crashes' = 0 => \A k \in Keys : Lettered(k)]_vars

LEMMA ProcessLetters ==
    ASSUME QueueInv, Attended, crashes = 0, NEW j \in Keys, Process(j)
    PROVE  Attended' /\ \A k \in Keys : Lettered(k)
<1>1. TypeOK /\ WorkLeft(j) /\ MAX_RETRIES \in Nat \ {0}
    BY QueueAssumption DEF QueueInv
<1>2. ASSUME \A k \in Keys \ {j} : job'[k] = job[k] /\ step'[k] = step[k],
             job'[j] = "active" => step'[j] # "idle",
             job[j] # "failed" /\ job'[j] = "failed" => <<j, MAX_RETRIES>> \in failedEvents',
             failedEvents \subseteq failedEvents'
      PROVE  Attended' /\ \A k \in Keys : Lettered(k)
  <2>1. Attended'
      BY <1>2 DEF Attended
  <2>2. \A k \in Keys : Lettered(k)
      BY <1>2 DEF Lettered
  <2> QED
      BY <2>1, <2>2
<1>3. ASSUME Throw(j), step[j] # "idle" PROVE Attended' /\ \A k \in Keys : Lettered(k)
  <2>1. made[j] + 1 \in 0 .. MAX_RETRIES
      BY <1>1, <1>3 DEF WorkLeft, RetriesLeft, TypeOK
  <2>2. /\ job' = [job EXCEPT ![j] = IF made[j] + 1 < MAX_RETRIES THEN "waiting" ELSE "failed"]
        /\ step' = [step EXCEPT ![j] = "idle"]
        /\ failedEvents' = failedEvents \cup {<<j, made[j] + 1>>}
      BY <1>1, <1>3 DEF Throw, RetriesLeft, TypeOK
  <2>3. job'[j] = "failed" => made[j] + 1 = MAX_RETRIES
      BY <1>1, <2>1, <2>2 DEF TypeOK
  <2>4. job'[j] # "active"
      BY <1>1, <2>2 DEF TypeOK
  <2>5. \A k \in Keys \ {j} : job'[k] = job[k] /\ step'[k] = step[k]
      BY <1>1, <2>2 DEF TypeOK
  <2>6. job'[j] = "failed" => <<j, MAX_RETRIES>> \in failedEvents'
      BY <2>2, <2>3
  <2>7. failedEvents \subseteq failedEvents'
      BY <2>2
  <2> QED
      BY <1>2, <2>4, <2>5, <2>6, <2>7
<1>4. ASSUME NEW s, s # "idle", Goto(j, s) PROVE Attended' /\ \A k \in Keys : Lettered(k)
    BY <1>1, <1>2, <1>4 DEF Goto, TypeOK
<1>5. ASSUME NEW result, Complete(j, result) PROVE Attended' /\ \A k \in Keys : Lettered(k)
    BY <1>1, <1>2, <1>5 DEF Complete, TypeOK
<1>6. CASE StartJob(j)
    BY <1>1, <1>2, <1>6 DEF StartJob, TypeOK
<1>7. CASE storeIdempotencyResult(j)
    BY <1>1, <1>2, <1>7 DEF storeIdempotencyResult, TypeOK
<1>8. CASE Stalled(j)
    BY <1>8 DEF Stalled, Attended
<1>9. CASE checkIdempotency(j)
    BY <1>4, <1>5, <1>9 DEF checkIdempotency
<1>10. CASE submitSignedTransaction(j)
    BY <1>3, <1>4, <1>10 DEF submitSignedTransaction, Caught
<1>11. CASE PollTransaction(j)
    BY <1>3, <1>4, <1>11 DEF PollTransaction, Caught
<1>12. CASE FinishJob(j)
    BY <1>3, <1>5, <1>12 DEF FinishJob
<1> QED
    BY <1>6, <1>7, <1>8, <1>9, <1>10, <1>11, <1>12 DEF Process

LEMMA ListenLetters ==
    ASSUME QueueInv, Attended, NEW j \in Keys, Listen(j)
    PROVE  Attended' /\ \A k \in Keys : Lettered(k)
<1>1. PICK n \in 0 .. MAX_RETRIES : moveToDLQ(j, n)
    BY DEF Listen
<1>2. /\ failedEvents' = failedEvents \ {<<j, n>>} /\ UNCHANGED <<job, step, crashes>>
      /\ dlq' = IF Exhausted(n) THEN [dlq EXCEPT ![j] = dlq[j] + 1] ELSE dlq
    BY <1>1 DEF moveToDLQ
<1>3. Attended'
    BY <1>2 DEF Attended
<1>4. ASSUME NEW k \in Keys, <<k, MAX_RETRIES>> \in failedEvents, <<k, MAX_RETRIES>> \notin failedEvents'
      PROVE  dlq[k] = 0 /\ dlq'[k] = 1
  <2>1. k = j /\ n = MAX_RETRIES /\ TypeOK /\ LastAttempt(k)
      BY <1>2, <1>4 DEF QueueInv
  <2>2. dlq[k] = 0 /\ Exhausted(n)
      BY <1>4, <2>1, QueueAssumption DEF LastAttempt, Exhausted
  <2>3. dlq' = [dlq EXCEPT ![j] = dlq[j] + 1]
      BY <1>2, <2>2
  <2> QED
      BY <2>1, <2>2, <2>3 DEF TypeOK
<1>5. \A k \in Keys : Lettered(k)
    BY <1>2, <1>4 DEF Lettered
<1> QED
    BY <1>3, <1>5

\* The safety half of FailuresAreDeadLettered, for any number of attempts and jobs:
\* while the server does not die, a failed job's letter is on its way or written
\* (moveToDLQ), whatever clients and administrators ask for meanwhile.
THEOREM LettersNotLost == Spec => LettersFollow
<1> DEFINE Letters == crashes' = 0 => \A k \in Keys : Lettered(k)
<1>1. QueueInv /\ Attended /\ [Next]_vars => Attended' /\ [Letters]_vars
  <2> SUFFICES ASSUME QueueInv, Attended, [Next]_vars
               PROVE  Attended' /\ [Letters]_vars
      OBVIOUS
  <2>1. TypeOK
      BY DEF QueueInv
  <2>2. ASSUME NEW j \in Keys, Process(j) PROVE Attended' /\ Letters
    <3>1. crashes' = crashes
        BY <2>2 DEF Process, StartJob, checkIdempotency, submitSignedTransaction, PollTransaction,
                    storeIdempotencyResult, FinishJob, Stalled, Complete
    <3> QED
        BY <2>2, <3>1, ProcessLetters DEF Attended
  <2>3. ASSUME NEW j \in Keys, Listen(j) PROVE Attended' /\ Letters
      BY <2>3, ListenLetters
  <2>4. ASSUME UNCHANGED <<step, failedEvents, crashes>>,
               \A k \in Keys : job'[k] \in {job[k], "none", "waiting"}
        PROVE  Attended' /\ Letters
    <3>1. Attended'
        BY <2>4 DEF Attended
    <3>2. \A k \in Keys : Lettered(k)
        BY <2>4 DEF Lettered
    <3> QED
        BY <3>1, <3>2
  <2>5. ASSUME NEW j \in Keys, enqueueTransaction(j) \/ retryDLQJob(j) PROVE Attended' /\ Letters
      BY <2>1, <2>4, <2>5 DEF enqueueTransaction, retryDLQJob, Added, TypeOK
  <2>6. ASSUME NEW j \in Keys, NetworkDecides(j) PROVE Attended' /\ Letters
      BY <2>4, <2>6 DEF NetworkDecides
  <2>7. ASSUME NEW j \in Keys, Forget(j) PROVE Attended' /\ Letters
      BY <2>1, <2>4, <2>7 DEF Forget, TypeOK
  <2>8. CASE Crash
    <3>1. crashes' # 0
        BY <2>1, <2>8, QueueAssumption DEF Crash, TypeOK
    <3> QED
        BY <3>1 DEF Attended
  <2>9. CASE UNCHANGED vars
      BY <2>9 DEF vars, Attended
  <2> QED
      BY <2>2, <2>3, <2>5, <2>6, <2>7, <2>8, <2>9 DEF Next
<1>2. Init => QueueInv /\ Attended
    BY QueueInit DEF Init, Attended
<1>3. QueueInv /\ [Next]_vars => QueueInv'
    BY QueueStep
<1> QED
    BY <1>1, <1>2, <1>3, PTL DEF Spec, LettersFollow
=============================================================================
