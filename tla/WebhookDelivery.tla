-------------------------- MODULE WebhookDelivery --------------------------
(***************************************************************************)
(* The server's webhook deliveries                                         *)
(* (server/src/services/webhook.service.ts): a row per webhook and event   *)
(* in the database, jobs in a BullMQ queue that post it, and retries the   *)
(* service schedules itself (the queue's own are off: attempts is 1).      *)
(*                                                                         *)
(* A job is processed in steps, one per await.  Row and queue are two      *)
(* stores, so a crash or a database error between two steps can leave them *)
(* disagreeing, and the queue runs the job of a dead worker once more.     *)
(* Secrets, headers, encryption, response texts, durations and the counter *)
(* of consecutive failures, which nothing reads, are left out.             *)
(***************************************************************************)
EXTENDS Naturals, FiniteSets

CONSTANTS
    Webhooks,
    Events,               \* occurrences of a payment.received event
    Tests,                \* occurrences of a webhook.test event
    MAX_RETRY_ATTEMPTS,
    RateLimit,            \* rateLimitPerMinute
    MaxFaults,            \* bound: crashes and database errors
    MaxSweeps,            \* bound: calls of retryFailedWebhooks
    MaxTimed              \* bound: jobs of one delivery in the queue named for the time

ASSUME WebhookAssumption ==
    /\ MAX_RETRY_ATTEMPTS \in Nat \ {0}
    /\ RateLimit \in Nat \ {0}
    /\ MaxFaults \in Nat
    /\ MaxSweeps \in Nat
    /\ MaxTimed \in Nat
    /\ Tests \cap Events = {}
    /\ (Webhooks \X (Events \cup Tests)) \cap Events = {}    \* a delivery is no event

VARIABLES
    hook,          \* the webhook's row: absent, active, disabled or deleted
    row,           \* status of the delivery row of a webhook and an event
    attempt,       \* its attempt column
    fanout,        \* webhooks triggerEvent (or testWebhook) has still to queue
    adding,        \* webhooks whose row is created and whose job is not yet added
    sweep,         \* rows retryFailedWebhooks has read, or read and marked
    job,           \* BullMQ's state of the job with this id
    stalled,       \* jobs that lost their worker once
    pc, seen,      \* where a job's processor is, and the attempt it has read
    rate,          \* posts of a webhook in the current minute, in memory
    posts,         \* history: POSTs made for a delivery or a direct event
    faults, sweeps

rowVars == <<hook, row, attempt>>
jobVars == <<job, stalled, pc, seen, rate>>
boundVars == <<faults, sweeps>>
hookVars == <<rowVars, fanout, adding, sweep, jobVars, posts, boundVars>>

Registered == {"active", "disabled"}
Deliveries == Webhooks \X (Events \cup Tests)
Statuses == {"none", "PENDING", "RETRYING", "SUCCESS", "FAILED"}

\* Job ids.  A delivery has one first job and one per retry, named for the
\* attempt; jobs of the rate limiter and of the sweep are named for the time,
\* so no later add ever meets a finished one and their numbers are used again.
First(d) == <<d, "delivery", 0>>
Retry(d, n) == <<d, "retry", n>>
Timed(d) == {<<d, "timed", i>> : i \in 1 .. MaxTimed}
Direct(e) == <<e, "payment", 0>>
JobsOf(d) == {First(d)} \cup {Retry(d, n) : n \in 1 .. MAX_RETRY_ATTEMPTS} \cup Timed(d)
JobIds == (UNION {JobsOf(d) : d \in Deliveries}) \cup {Direct(e) : e \in Events}
IsDirect(id) == id[2] = "payment"
Target(id) == id[1]

\* What the queue keeps of a finished job.
Finished(id) == IF id[2] = "timed" THEN "none" ELSE "done"

Live(id) == job[id] \in {"queued", "active"} /\ pc[id] # "end"
LiveJobs(d) == {id \in JobsOf(d) : Live(id)}
Exists(d) == row[d] # "none"
Undisturbed == faults = 0 /\ sweeps = 0

WebhookInit ==
    /\ hook = [w \in Webhooks |-> "absent"]
    /\ row = [d \in Deliveries |-> "none"]
    /\ attempt = [d \in Deliveries |-> 0]
    /\ fanout = [e \in Events \cup Tests |-> {}]
    /\ adding = [e \in Events \cup Tests |-> {}]
    /\ sweep = [d \in Deliveries |-> "none"]
    /\ job = [id \in JobIds |-> "none"]
    /\ stalled = {}
    /\ pc = [id \in JobIds |-> "idle"]
    /\ seen = [id \in JobIds |-> 0]
    /\ rate = [w \in Webhooks |-> 0]
    /\ posts = [x \in Deliveries \cup Events |-> 0]
    /\ faults = 0
    /\ sweeps = 0

\* queue.add: an id the queue still knows is ignored.
Add(id) == job' = [job EXCEPT ![id] = IF @ = "none" THEN "queued" ELSE @]

\* A job whose id carries the time.
AddTimed(d) ==
    \E id \in Timed(d) :
       /\ job[id] = "none"
       /\ \A other \in Timed(d) : job[other] = "none" => id[3] <= other[3]
       /\ Add(id)

----------------------------------------------------------------------------
(* Registration *)

\* Every webhook here is subscribed to payment.received.
registerWebhook(w, state) ==
    /\ hook[w] = "absent"
    /\ hook' = [hook EXCEPT ![w] = state]
    /\ UNCHANGED <<row, attempt, fanout, adding, sweep, jobVars, posts, boundVars>>

updateWebhook(w, state) ==
    /\ hook[w] \in Registered
    /\ hook' = [hook EXCEPT ![w] = state]
    /\ UNCHANGED <<row, attempt, fanout, adding, sweep, jobVars, posts, boundVars>>

\* The rows of its deliveries go with the webhook.
deleteWebhook(w) ==
    /\ hook[w] \in Registered
    /\ hook' = [hook EXCEPT ![w] = "deleted"]
    /\ row' = [d \in Deliveries |-> IF d[1] = w THEN "none" ELSE row[d]]
    /\ attempt' = [d \in Deliveries |-> IF d[1] = w THEN 0 ELSE attempt[d]]
    /\ UNCHANGED <<fanout, adding, sweep, jobVars, posts, boundVars>>

----------------------------------------------------------------------------
(* Queueing *)

\* triggerEvent finds the webhooks, testWebhook is given one.
triggerEvent(e) ==
    /\ fanout' = [fanout EXCEPT ![e] = {w \in Webhooks : hook[w] = "active"}]
    /\ UNCHANGED <<rowVars, adding, sweep, jobVars, posts, boundVars>>

testWebhook(w, e) ==
    /\ hook[w] \in Registered
    /\ fanout[e] = {} /\ adding[e] = {} /\ posts[<<w, e>>] = 0 /\ ~Exists(<<w, e>>)
    /\ job[First(<<w, e>>)] = "none"
    /\ fanout' = [fanout EXCEPT ![e] = {w}]
    /\ UNCHANGED <<rowVars, adding, sweep, jobVars, posts, boundVars>>

\* queueWebhookDelivery creates the row, which fails when the webhook is gone
\* and ends the loop, and then adds the job.
CreateDelivery(w, e) ==
    /\ w \in fanout[e] /\ adding[e] = {}
    /\ IF hook[w] \in Registered
       THEN /\ row' = [row EXCEPT ![<<w, e>>] = "PENDING"]
            /\ adding' = [adding EXCEPT ![e] = {w}]
            /\ fanout' = [fanout EXCEPT ![e] = @ \ {w}]
       ELSE /\ fanout' = [fanout EXCEPT ![e] = {}]
            /\ UNCHANGED <<row, adding>>
    /\ UNCHANGED <<hook, attempt, sweep, jobVars, posts, boundVars>>

AddDelivery(w, e) ==
    /\ w \in adding[e]
    /\ Add(First(<<w, e>>))
    /\ adding' = [adding EXCEPT ![e] = {}]
    /\ UNCHANGED <<rowVars, fanout, sweep, stalled, pc, seen, rate, posts, boundVars>>

queueWebhookDelivery(w, e) == CreateDelivery(w, e) \/ AddDelivery(w, e)

\* The queue refuses the job: the row stays PENDING and the loop ends.
AddDeliveryFails(e) ==
    /\ adding[e] # {} /\ faults < MaxFaults
    /\ faults' = faults + 1
    /\ adding' = [adding EXCEPT ![e] = {}]
    /\ fanout' = [fanout EXCEPT ![e] = {}]
    /\ UNCHANGED <<rowVars, sweep, jobVars, posts, sweeps>>

enqueuePaymentReceivedWebhook(e) ==
    /\ Add(Direct(e))
    /\ UNCHANGED <<rowVars, fanout, adding, sweep, stalled, pc, seen, rate, posts, boundVars>>

\* The sweep reads what is due and then marks and queues one row after the
\* other, settled or not by then.  Nothing in the program calls it.
ReadFailed(due) ==
    /\ sweeps < MaxSweeps
    /\ due # {} /\ \A d \in due : row[d] = "RETRYING"
    /\ sweeps' = sweeps + 1
    /\ sweep' = [d \in Deliveries |-> IF d \in due THEN "read" ELSE sweep[d]]
    /\ UNCHANGED <<rowVars, fanout, adding, jobVars, posts, faults>>

MarkFailed(d) ==
    /\ sweep[d] = "read" /\ \A x \in Deliveries : sweep[x] # "marked"
    /\ IF Exists(d)
       THEN /\ row' = [row EXCEPT ![d] = "RETRYING"]
            /\ sweep' = [sweep EXCEPT ![d] = "marked"]
       ELSE /\ sweep' = [x \in Deliveries |-> "none"]
            /\ UNCHANGED row
    /\ UNCHANGED <<hook, attempt, fanout, adding, jobVars, posts, boundVars>>

QueueFailed(d) ==
    /\ sweep[d] = "marked"
    /\ AddTimed(d)
    /\ sweep' = [sweep EXCEPT ![d] = "none"]
    /\ UNCHANGED <<rowVars, fanout, adding, stalled, pc, seen, rate, posts, boundVars>>

retryFailedWebhooks ==
    \/ \E due \in SUBSET Deliveries : ReadFailed(due)
    \/ \E d \in Deliveries : MarkFailed(d) \/ QueueFailed(d)

----------------------------------------------------------------------------
(* Processing a job *)

\* Mutated forms of definitions below.
RetryId_NoAttempt(d, n) == Retry(d, 1)
AfterRateLimit_FallsThrough == "post"
RateLimited_OneLate(w) == rate[w] > RateLimit

GivenUp(n) == n >= MAX_RETRY_ATTEMPTS
Accepted(ok) == ok
RetryId(d, n) == Retry(d, n)
AfterRateLimit == "end"
RateLimited(w) == rate[w] >= RateLimit

At(id, here) == pc[id] = here
Goto(id, there) == pc' = [pc EXCEPT ![id] = there]

\* The delay of a retry is long enough for the job that queued it to be
\* reported as finished, unless the server dies.
StartJob(id) ==
    /\ job[id] = "queued"
    /\ ~IsDirect(id) => \A other \in JobsOf(Target(id)) : ~At(other, "end")
    /\ job' = [job EXCEPT ![id] = "active"]
    /\ Goto(id, IF IsDirect(id) THEN "direct" ELSE "load")
    /\ UNCHANGED <<rowVars, fanout, adding, sweep, stalled, seen, rate, posts, boundVars>>

\* The job returned or threw; with attempts 1 the queue is done with it.
EndJob(id) ==
    /\ At(id, "end")
    /\ Goto(id, "idle")
    /\ seen' = [seen EXCEPT ![id] = 0]
    /\ stalled' = stalled \ {id}
    /\ job' = [job EXCEPT ![id] = Finished(id)]
    /\ UNCHANGED <<rowVars, fanout, adding, sweep, rate, posts, boundVars>>

\* findUnique with the webhook, and the tests up to the next await.
\* getRateLimitDelayMs counts the post in the window of the webhook.
LoadDelivery(id) ==
    LET d == Target(id)
        w == d[1]
    IN /\ At(id, "load")
       /\ \/ ~Exists(d) /\ Goto(id, "end") /\ UNCHANGED <<rate, seen>>
          \/ /\ Exists(d) /\ hook[w] = "disabled"
             /\ Goto(id, "disable") /\ UNCHANGED <<rate, seen>>
          \/ /\ Exists(d) /\ hook[w] = "active" /\ RateLimited(w)
             /\ Goto(id, "delay") /\ UNCHANGED <<rate, seen>>
          \/ /\ Exists(d) /\ hook[w] = "active" /\ ~RateLimited(w)
             /\ rate' = [rate EXCEPT ![w] = @ + 1]
             /\ seen' = [seen EXCEPT ![id] = attempt[d] + 1]
             /\ Goto(id, "post")
       /\ UNCHANGED <<rowVars, fanout, adding, sweep, job, stalled, posts, boundVars>>

\* The endpoint answers 2xx (ok), or it answers something else or the answer is lost.
SendWebhook(id, ok) ==
    LET d == Target(id)
    IN /\ pc[id] \in {"post", "direct"}
       /\ posts' = [posts EXCEPT ![d] = @ + 1]
       /\ Goto(id, IF IsDirect(id) THEN "end" ELSE IF Accepted(ok) THEN "record" ELSE "fail")
       /\ UNCHANGED <<rowVars, fanout, adding, sweep, job, stalled, seen, rate, boundVars>>

\* An update of the delivery's row, which throws when the row is gone: then
\* handleDeliveryFailure throws too and the job ends.
UpdateRow(id, status, n, next) ==
    LET d == Target(id)
    IN /\ IF Exists(d)
          THEN /\ row' = [row EXCEPT ![d] = status]
               /\ attempt' = [attempt EXCEPT ![d] = n]
               /\ Goto(id, next)
          ELSE Goto(id, "end") /\ UNCHANGED <<row, attempt>>
       /\ UNCHANGED <<hook, fanout, adding, sweep, job, stalled, seen, rate, posts, boundVars>>

DisableDelivery(id) == At(id, "disable") /\ UpdateRow(id, "FAILED", attempt[Target(id)], "end")

DelayDelivery(id) == At(id, "delay") /\ UpdateRow(id, "RETRYING", attempt[Target(id)], "requeue")

RequeueDelayed(id) ==
    /\ At(id, "requeue")
    /\ AddTimed(Target(id))
    /\ Goto(id, AfterRateLimit)
    /\ UNCHANGED <<rowVars, fanout, adding, sweep, stalled, seen, rate, posts, boundVars>>

RecordSuccess(id) == At(id, "record") /\ UpdateRow(id, "SUCCESS", seen[id], "touch")

\* The update of the webhook's own row, still inside the try block.
TouchWebhook(id) ==
    /\ At(id, "touch")
    /\ Goto(id, "end")
    /\ UNCHANGED <<rowVars, fanout, adding, sweep, job, stalled, seen, rate, posts, boundVars>>

\* The row first, then the queue.
handleDeliveryFailure(id) ==
    \/ /\ At(id, "fail") /\ GivenUp(seen[id])
       /\ UpdateRow(id, "FAILED", seen[id], "end")
    \/ /\ At(id, "fail") /\ ~GivenUp(seen[id])
       /\ UpdateRow(id, "RETRYING", seen[id], "retry")
    \/ /\ At(id, "retry")
       /\ Add(RetryId(Target(id), seen[id]))
       /\ Goto(id, "end")
       /\ UNCHANGED <<rowVars, fanout, adding, sweep, stalled, seen, rate, posts, boundVars>>

processWebhookJob(id) ==
    \/ StartJob(id)
    \/ LoadDelivery(id)
    \/ \E ok \in BOOLEAN : SendWebhook(id, ok)
    \/ DisableDelivery(id)
    \/ DelayDelivery(id)
    \/ RequeueDelayed(id)
    \/ RecordSuccess(id)
    \/ TouchWebhook(id)
    \/ handleDeliveryFailure(id)
    \/ EndJob(id)

----------------------------------------------------------------------------
(* Faults and time *)

\* A query or an add throws: after the POST the failure handler takes over,
\* anywhere else the job is lost.
DatabaseError(id) ==
    /\ faults < MaxFaults
    /\ pc[id] \in {"load", "disable", "delay", "requeue", "record", "touch", "fail", "retry"}
    /\ faults' = faults + 1
    /\ Goto(id, IF pc[id] \in {"record", "touch"} THEN "fail" ELSE "end")
    /\ UNCHANGED <<rowVars, fanout, adding, sweep, job, stalled, seen, rate, posts, sweeps>>

\* What was in memory is gone.
Crash ==
    /\ faults < MaxFaults
    /\ faults' = faults + 1
    /\ pc' = [id \in JobIds |-> "idle"]
    /\ seen' = [id \in JobIds |-> 0]
    /\ rate' = [w \in Webhooks |-> 0]
    /\ fanout' = [e \in Events \cup Tests |-> {}]
    /\ adding' = [e \in Events \cup Tests |-> {}]
    /\ sweep' = [d \in Deliveries |-> "none"]
    /\ UNCHANGED <<rowVars, job, stalled, posts, sweeps>>

\* BullMQ runs an orphaned job once more and fails it the second time.
Stalled(id) ==
    /\ job[id] = "active" /\ At(id, "idle")
    /\ job' = [job EXCEPT ![id] = IF id \in stalled THEN Finished(id) ELSE "queued"]
    /\ stalled' = IF id \in stalled THEN stalled \ {id} ELSE stalled \cup {id}
    /\ UNCHANGED <<rowVars, fanout, adding, sweep, pc, seen, rate, posts, boundVars>>

\* A new minute.
NextWindow(w) ==
    /\ rate[w] > 0
    /\ rate' = [rate EXCEPT ![w] = 0]
    /\ UNCHANGED <<rowVars, fanout, adding, sweep, job, stalled, pc, seen, posts, boundVars>>

\* What the server does of itself with what is queued.
DeliverStep ==
    \/ \E id \in JobIds : processWebhookJob(id) \/ Stalled(id)
    \/ \E w \in Webhooks, e \in Events \cup Tests : queueWebhookDelivery(w, e)

\* Calls of the service, and faults.
WebhookStep ==
    \/ \E w \in Webhooks, state \in Registered :
         registerWebhook(w, state) \/ updateWebhook(w, state)
    \/ \E w \in Webhooks : deleteWebhook(w)
    \/ \E w \in Webhooks, e \in Tests : testWebhook(w, e)
    \/ retryFailedWebhooks
    \/ \E e \in Events \cup Tests : AddDeliveryFails(e)
    \/ \E id \in JobIds : DatabaseError(id)

----------------------------------------------------------------------------
(* Properties *)

WebhookTypeOK ==
    /\ hook \in [Webhooks -> {"absent", "deleted"} \cup Registered]
    /\ row \in [Deliveries -> Statuses]
    /\ attempt \in [Deliveries -> Nat]
    /\ fanout \in [Events \cup Tests -> SUBSET Webhooks]
    /\ adding \in [Events \cup Tests -> SUBSET Webhooks]
    /\ sweep \in [Deliveries -> {"none", "read", "marked"}]
    /\ job \in [JobIds -> {"none", "queued", "active", "done"}]
    /\ stalled \subseteq JobIds
    /\ pc \in [JobIds -> {"idle", "load", "direct", "disable", "delay", "requeue", "post",
                          "record", "touch", "fail", "retry", "end"}]
    /\ seen \in [JobIds -> Nat]
    /\ rate \in [Webhooks -> 0 .. RateLimit]
    /\ posts \in [Deliveries \cup Events -> Nat]
    /\ faults \in 0 .. MaxFaults
    /\ sweeps \in 0 .. MaxSweeps

\* 2^n
Doubled[n \in 0 .. MaxFaults] == IF n = 0 THEN 1 ELSE 2 * Doubled[n - 1]

\* The service's own retries and the rate limiter's jobs do not multiply: without
\* a fault a delivery has one job under way, and one more for each sweep that
\* queued it again, and it is posted MAX_RETRY_ATTEMPTS times at most, and once
\* more for each sweep.  A fault can double both and no more: of the jobs a crash
\* interrupts each runs again beside the one it had already queued.  The attempt
\* column never claims a post that was not made.  Nor do they run out: without a
\* fault or a sweep a delivery that is not settled has its job, or is about to.
OneLiveJob ==
    \A d \in Deliveries :
       /\ Cardinality(LiveJobs(d)) <= (1 + sweeps) * Doubled[faults]
       /\ posts[d] <= (MAX_RETRY_ATTEMPTS + sweeps) * Doubled[faults]
       /\ attempt[d] <= posts[d]
       /\ Undisturbed /\ row[d] \in {"PENDING", "RETRYING"} =>
            LiveJobs(d) # {} \/ d[1] \in adding[d[2]]

\* Without a fault and without the sweep every delivery ends as SUCCESS or
\* FAILED (or its webhook is deleted), and again after each new one: no row
\* waits for a job the queue does not have, and rate limiting does not
\* postpone it for ever.
DeliveriesEnd ==
    []<>(Undisturbed => \A d \in Deliveries : row[d] \in {"SUCCESS", "FAILED", "none"})
====
