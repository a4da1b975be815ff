-------------------------- MODULE TransactionQueue --------------------------
(***************************************************************************)
(* The server's queue of Stellar transactions                              *)
(* (server/src/services/transaction-queue.service.ts) with the submission  *)
(* it calls (contract.service.ts): a job per idempotency key, retried by   *)
(* BullMQ, with an outcome cache in Redis and a dead letter queue.         *)
(*                                                                         *)
(* The code awaits between its reads and its writes, so a job is processed *)
(* in steps, and a crash of the server may fall between any two.  BullMQ,  *)
(* Redis and the network are modelled from how the code uses them.         *)
(***************************************************************************)
EXTENDS Naturals

CONSTANTS
    Keys,          \* idempotency keys; the key is the job id
    PreSigned,     \* keys whose job carries a userSignedXdr
    MAX_RETRIES,   \* attempts BullMQ makes
    MaxCrashes     \* bound: crashes of the server

ASSUME QueueAssumption ==
    /\ PreSigned \subseteq Keys
    /\ MAX_RETRIES \in Nat \ {0}
    /\ MaxCrashes \in Nat

VARIABLES
    job,           \* BullMQ's state of the job with this id
    made,          \* attemptsMade
    stalls,        \* times BullMQ found the job without a worker
    returnvalue,   \* what a completed job returned
    step,          \* where the worker is in processTransaction
    cache,         \* Redis idempotency:<key>
    failedEvents,  \* "failed" events not yet handled: <<key, attemptsMade>>
    dlq,           \* entries in the dead letter queue, per key
    ledger,        \* what became of the transaction on the network
    crashes

vars == <<job, made, stalls, returnvalue, step, cache, failedEvents, dlq, ledger, crashes>>

Outcomes == {"none", "success", "error"}
JobStates == {"none", "waiting", "active", "completed", "failed"}
Steps == {"idle", "check", "submit", "poll", "store_success", "store_error", "return", "throw"}
LedgerStates == {"none", "pending", "applied", "reverted"}

\* A transaction the ledger has included uses up its sequence number.
Included(k) == ledger[k] \in {"applied", "reverted"}

----------------------------------------------------------------------------
(* The ways an attempt ends *)

\* Mutated forms of definitions below.
RetriesLeft_Always(attempts) == TRUE
Exhausted_Strict(attempts) == attempts > MAX_RETRIES
Cached_Ignored(k) == FALSE
Confirmed_WhenSent(k) == ledger[k] \in {"pending", "applied"}

RetriesLeft(attempts) == attempts < MAX_RETRIES
Exhausted(attempts) == attempts >= MAX_RETRIES
Cached(k) == cache[k] # "none"

\* The job's processor returned.
Complete(k, result) ==
    /\ job' = [job EXCEPT ![k] = "completed"]
    /\ returnvalue' = [returnvalue EXCEPT ![k] = result]
    /\ step' = [step EXCEPT ![k] = "idle"]
    /\ UNCHANGED <<made, stalls, cache, failedEvents, dlq, ledger, crashes>>

\* Mutated form of Throw: a retry that is not counted as an attempt.
Throw_Uncounted(k) ==
    /\ job' = [job EXCEPT ![k] = IF RetriesLeft(made[k]) THEN "waiting" ELSE "failed"]
    /\ step' = [step EXCEPT ![k] = "idle"]
    /\ failedEvents' = failedEvents \cup {<<k, made[k]>>}
    /\ UNCHANGED made

\* The job's processor threw: BullMQ retries, whatever was thrown, while
\* attempts are left, and emits "failed" in either case.
Throw(k) ==
    /\ made' = [made EXCEPT ![k] = @ + 1]
    /\ job' = [job EXCEPT ![k] = IF RetriesLeft(made'[k]) THEN "waiting" ELSE "failed"]
    /\ step' = [step EXCEPT ![k] = "idle"]
    /\ failedEvents' = failedEvents \cup {<<k, made'[k]>>}

Goto(k, s) ==
    /\ step' = [step EXCEPT ![k] = s]
    /\ UNCHANGED <<job, made, failedEvents>>

\* The catch block for an error whose text may or may not match a pattern of
\* isRetryableError.
Caught(k) == Throw(k) \/ Goto(k, "store_error")

----------------------------------------------------------------------------
(* The service *)

Init ==
    /\ job = [k \in Keys |-> "none"]
    /\ made = [k \in Keys |-> 0]
    /\ stalls = [k \in Keys |-> 0]
    /\ returnvalue = [k \in Keys |-> "none"]
    /\ step = [k \in Keys |-> "idle"]
    /\ cache = [k \in Keys |-> "none"]
    /\ failedEvents = {}
    /\ dlq = [k \in Keys |-> 0]
    /\ ledger = [k \in Keys |-> "none"]
    /\ crashes = 0

\* queue.add with an id the queue knows changes nothing.
Added(k) ==
    IF job[k] = "none"
    THEN /\ job' = [job EXCEPT ![k] = "waiting"]
         /\ made' = [made EXCEPT ![k] = 0]
         /\ stalls' = [stalls EXCEPT ![k] = 0]
         /\ returnvalue' = [returnvalue EXCEPT ![k] = "none"]
    ELSE UNCHANGED <<job, made, stalls, returnvalue>>

enqueueTransaction(k) ==
    /\ Added(k)
    /\ UNCHANGED <<step, cache, failedEvents, dlq, ledger, crashes>>

\* A worker takes the job up.
StartJob(k) ==
    /\ job[k] = "waiting"
    /\ job' = [job EXCEPT ![k] = "active"]
    /\ step' = [step EXCEPT ![k] = "check"]
    /\ UNCHANGED <<made, stalls, returnvalue, cache, failedEvents, dlq, ledger, crashes>>

checkIdempotency(k) ==
    /\ step[k] = "check"
    /\ \/ Cached(k) /\ Complete(k, cache[k])
       \/ ~Cached(k) /\ Goto(k, "submit")
          /\ UNCHANGED <<stalls, returnvalue, cache, dlq, ledger, crashes>>

\* submitSignedTransaction up to the answer of sendTransaction.  The XDR that
\* buildContractInvokeXDR returns carries no signature (the fee payer signs
\* the transaction it was assembled from), so the network rejects it.  A
\* rejection's text names the "network" and is therefore retried.
submitSignedTransaction(k) ==
    /\ step[k] = "submit"
    /\ \/ /\ k \in PreSigned /\ ~Included(k)          \* accepted, or a duplicate
          /\ ledger' = [ledger EXCEPT ![k] = "pending"]
          /\ Goto(k, "poll")
       \/ Throw(k) /\ UNCHANGED ledger                 \* rejected
       \/ /\ Caught(k)                \* simulation error, or the answer is lost
          /\ \/ UNCHANGED ledger
             \/ /\ k \in PreSigned /\ ~Included(k)
                /\ ledger' = [ledger EXCEPT ![k] = "pending"]
    /\ UNCHANGED <<stalls, returnvalue, cache, dlq, crashes>>

Confirmed(k) == ledger[k] = "applied"

\* submitXDR's polling.  Neither "timed out" nor "failed on-chain" matches a
\* pattern of isRetryableError.
PollTransaction(k) ==
    /\ step[k] = "poll"
    /\ \/ Confirmed(k) /\ Goto(k, "store_success")
       \/ ledger[k] = "reverted" /\ Goto(k, "store_error")
       \/ ~Included(k) /\ Goto(k, "store_error")
       \/ Caught(k)
    /\ UNCHANGED <<stalls, returnvalue, cache, dlq, ledger, crashes>>

\* After it the processor returns the result, or throws.
storeIdempotencyResult(k) ==
    /\ \/ /\ step[k] = "store_success"
          /\ cache' = [cache EXCEPT ![k] = "success"]
          /\ step' = [step EXCEPT ![k] = "return"]
       \/ /\ step[k] = "store_error"
          /\ cache' = [cache EXCEPT ![k] = "error"]
          /\ step' = [step EXCEPT ![k] = "throw"]
    /\ UNCHANGED <<job, made, stalls, returnvalue, failedEvents, dlq, ledger, crashes>>

FinishJob(k) ==
    \/ step[k] = "return" /\ Complete(k, "success")
    \/ /\ step[k] = "throw"
       /\ Throw(k)
       /\ UNCHANGED <<stalls, returnvalue, cache, dlq, ledger, crashes>>

\* The listener of the worker's "failed" event.
moveToDLQ(k, attempts) ==
    /\ <<k, attempts>> \in failedEvents
    /\ failedEvents' = failedEvents \ {<<k, attempts>>}
    /\ dlq' = IF Exhausted(attempts) THEN [dlq EXCEPT ![k] = @ + 1] ELSE dlq
    /\ UNCHANGED <<job, made, stalls, returnvalue, step, cache, ledger, crashes>>

retryDLQJob(k) ==
    /\ dlq[k] > 0
    /\ Added(k)
    /\ dlq' = [dlq EXCEPT ![k] = @ - 1]
    /\ UNCHANGED <<step, cache, failedEvents, ledger, crashes>>

\* What a client is told.
getTransactionStatus(k) ==
    CASE job[k] = "none" /\ cache[k] = "none"    -> "PENDING"
      [] job[k] = "none" /\ cache[k] = "success" -> "COMPLETED"
      [] job[k] = "none" /\ cache[k] = "error"   -> "FAILED"
      [] job[k] = "completed"                    -> "COMPLETED"
      [] job[k] = "failed"                       -> "FAILED"
      [] job[k] = "active"                       -> "PROCESSING"
      [] job[k] = "waiting"                      -> "PENDING"

----------------------------------------------------------------------------
(* Its surroundings *)

\* The network includes a pending transaction, or lets it expire.
NetworkDecides(k) ==
    /\ ledger[k] = "pending"
    /\ \E outcome \in {"applied", "reverted", "none"} :
         ledger' = [ledger EXCEPT ![k] = outcome]
    /\ UNCHANGED <<job, made, stalls, returnvalue, step, cache, failedEvents, dlq, crashes>>

\* removeOnComplete, by count or by age, and the TTL of a cached outcome.
Forget(k) ==
    \/ /\ job[k] = "completed"
       /\ job' = [job EXCEPT ![k] = "none"]
       /\ UNCHANGED <<made, stalls, returnvalue, step, cache, failedEvents, dlq, ledger, crashes>>
    \/ /\ Cached(k) /\ step[k] = "idle"
       /\ cache' = [cache EXCEPT ![k] = "none"]
       /\ UNCHANGED <<job, made, stalls, returnvalue, step, failedEvents, dlq, ledger, crashes>>

\* The process dies: its workers and its undelivered events are gone.
Crash ==
    /\ crashes < MaxCrashes
    /\ crashes' = crashes + 1
    /\ step' = [k \in Keys |-> "idle"]
    /\ failedEvents' = {}
    /\ UNCHANGED <<job, made, stalls, returnvalue, cache, dlq, ledger>>

\* BullMQ's stalled check gives an orphaned job one more chance; the second
\* time it fails the job without counting an attempt.
Stalled(k) ==
    /\ job[k] = "active" /\ step[k] = "idle"
    /\ stalls' = [stalls EXCEPT ![k] = @ + 1]
    /\ job' = [job EXCEPT ![k] = IF stalls'[k] > 1 THEN "failed" ELSE "waiting"]
    /\ failedEvents' = IF stalls'[k] > 1 THEN failedEvents \cup {<<k, made[k]>>}
                       ELSE failedEvents
    /\ UNCHANGED <<made, returnvalue, step, cache, dlq, ledger, crashes>>

\* What the server does with a job once it is queued.
Process(k) ==
    \/ StartJob(k)
    \/ checkIdempotency(k)
    \/ submitSignedTransaction(k)
    \/ PollTransaction(k)
    \/ storeIdempotencyResult(k)
    \/ FinishJob(k)
    \/ Stalled(k)

Listen(k) == \E n \in 0 .. MAX_RETRIES : moveToDLQ(k, n)

Next ==
    \/ \E k \in Keys :
         \/ enqueueTransaction(k)
         \/ Process(k)
         \/ Listen(k)
         \/ retryDLQJob(k)
         \/ NetworkDecides(k)
         \/ Forget(k)
    \/ Crash

Spec == Init /\ [][Next]_vars

\* BullMQ keeps running the jobs it holds, events are delivered and the network
\* decides.  Nobody is bound to enqueue or to retry anything.
Fairness ==
    \A k \in Keys : WF_vars(Process(k)) /\ WF_vars(Listen(k)) /\ WF_vars(NetworkDecides(k))

FairSpec == Spec /\ Fairness

----------------------------------------------------------------------------
(* Properties *)

TypeOK ==
    /\ job \in [Keys -> JobStates]
    /\ made \in [Keys -> 0 .. MAX_RETRIES]
    /\ stalls \in [Keys -> 0 .. 2]
    /\ returnvalue \in [Keys -> Outcomes]
    /\ step \in [Keys -> Steps]
    /\ cache \in [Keys -> Outcomes]
    /\ failedEvents \subseteq Keys \X (0 .. MAX_RETRIES)
    /\ dlq \in [Keys -> 0 .. 1]
    /\ ledger \in [Keys -> LedgerStates]
    /\ crashes \in 0 .. MaxCrashes

\* A success that was cached or returned is a transaction on the ledger, through
\* lost answers, retries, crashes and resubmissions.
SuccessIsConfirmed ==
    \A k \in Keys : "success" \in {cache[k], returnvalue[k]} => ledger[k] = "applied"

\* Nothing is submitted for a key whose outcome is stored, also when the server
\* died between storing it and finishing the job.
NoSubmissionAfterOutcome ==
    \A k \in Keys : step[k] \in {"submit", "poll"} => cache[k] = "none"

\* A queued job is completed or failed in the end: neither retries nor stalls
\* go on for ever.
JobsEnd ==
    \A k \in Keys : job[k] = "waiting" ~> job[k] \in {"completed", "failed"}

\* A job that fails is dead-lettered, if the server does not die.
FailuresAreDeadLettered ==
    \A k \in Keys : <>(job[k] = "failed") /\ [](crashes = 0) => <>(dlq[k] > 0)

----------------------------------------------------------------------------
(* What a comment of the repository says and the code does not do *)

\* types/loan.ts: COMPLETED is a transaction successfully confirmed on the
\* blockchain.  The retry of a job whose failure was cached completes it.
CompletedIsConfirmed ==
    \A k \in Keys : getTransactionStatus(k) = "COMPLETED" => ledger[k] = "applied"
============================================================================
