# StelloVault in TLA+

StelloVault is a trade finance application on Stellar. Soroban contracts hold
collateral, escrowed funds, loans and votes; a TypeScript server mirrors them in a
database, submits transactions and notifies clients; a web frontend sits on top. This
directory holds TLA+ models of the parts that carry the protocol's state, TLC
configurations that check them on small instances, and TLAPS proofs of all the
invariants and action properties of the passing runs for every instance. `PROJECT.json`
ties definitions to source lines and lists runs, hazards, findings and theorems.

    tlc -config MCEscrowSafety.cfg MCEscrowManager      # one run
    tlapm EscrowManagerProofs.tla                       # one proof module

## 1. The system

### Contracts (`contracts/`)

| Component | State | Operations | What makes it correct |
|---|---|---|---|
| escrow-manager | escrows by id, admin and pending admin, treasury, exchange rate | create, two ways to dispute, release on confirmation, refund after expiry, resolve, admin hand-over | money in equals money out per escrow, one settlement, locks follow escrows, releases rest on evidence |
| collateral-registry | collateral records, hash index, owner index | register, value, transfer, lock, unlock, verify, classify | indexes agree with records, one document one collateral, a lock pins the owner |
| oracle-adapter | oracle register, confirmations, list of confirming oracles per escrow | add, remove, confirm, consensus query, admin hand-over | consensus counts different current oracles, confirmations are final |
| protocol-treasury | fee rate, fees, contributors, multi-signature and time-locked withdrawals, proposals, pools | about twenty | claims do not exceed fees, a withdrawal needs its signers |
| governance | config, proposals, votes, delegations | propose, vote, delegate, execute, cancel, reconfigure | a vote counts once, an executed proposal passed under its rules |
| loan-management | loans, repayment records, LTV parameters | create, repay, check default, restructure | outstanding debt reconciles with payments |
| risk-assessment | risk parameters behind a timelock, positions, auctions, scores | liquidate, auction, update, pause | no double liquidation, the timelock is respected |
| invoice-contract | invoices, terms, payments | tokenise, verify, pay, transfer | payments do not exceed the invoice, the owner is paid |
| upgrade-system | implementations, proposals, approvals | propose, approve, execute, roll back, pause | an upgrade has its approvals and its delay |
| reputation-registry, bridge, example | scores; bridge records; a demonstration | | |

The contracts call each other synchronously, by symbol and argument vector. An
invocation is atomic: an error or a trap anywhere undoes all of it. Concurrency is
therefore the order of invocations: who calls what between two calls of somebody
else, with which signatures, and at what ledger time.

### Server (`server/`) and frontend (`frontend/`)

| Component | State | Hard part | What makes it correct |
|---|---|---|---|
| transaction-queue + contract service | BullMQ jobs, Redis outcome cache, dead letter queue | awaits between reads and writes, crashes, lost answers, retries of what was done | a success is on the ledger, every job ends |
| webhook service | delivery rows beside the queue's jobs | row and queue written in two steps, duplicate jobs of one delivery, rate limit | one job at a time, attempts bounded, every delivery ends |
| loan service, event monitoring | loans, payment sessions, repayments; events in memory | concurrent repayments, side effects inside a transaction | no overpayment, each payment is reported once |
| escrow service | mirror of escrow status | reports late, doubled and reordered; timeout detector; disputes | legal transitions, an accepted settlement stays |
| auth service | challenges, sessions, wallets | check-then-act on single-use tokens, row locks | one primary wallet, refresh tokens rotate |
| oracle service | oracles, stakes, confirmations, disputes, threshold signatures | read-modify-write in separate queries, penalties outside the transaction | limits exceeded by overlaps only, a verdict follows its penalties |
| sockets: `useWebSocket`, `useDashboard`, `WsState` | a socket per page, timers; the server's set of connections | late events after a change of wallet, peers that vanish | one socket per page, dead connections leave |
| collateral, governance, rbac services, middleware | rows, counters | little beyond one-row updates | |

`backend/` is an archived Rust server; the pages of `frontend/` hold no protocol state.

### How the modelled parts interact

`create_escrow` locks collateral at the registry and pulls the lender's tokens.
`release_funds_on_confirmation` queries the adapter, pays the seller, reports a fee to
the treasury and unlocks. `refund_escrow` pays the buyer and unlocks. Owners and
oracles call the registry and the adapter on their own in between. Governance sets risk
parameters at another contract.

The server's queue submits the transactions that carry such calls. Status changes on the
chain are reported to `POST /api/escrows/webhook` and enter the mirror, which the oracle
service's disputes write to as well. A repayment recorded by the loan service raises an
event that the monitoring service turns into a direct post and deliveries to registered
webhooks.

## 2. Modules

| Module | Models | Composition |
|---|---|---|
| `CollateralRegistry`, `OracleAdapter` | one contract each | |
| `EscrowManager` | the escrow manager | INSTANCEs the registry and the adapter over its own variables: a call on another contract is that contract's action inside the caller's |
| `EscrowLifecycle` | what the contract promises about an escrow's status | refined by `EscrowManager` (`ImplementsLifecycle`), extended by `EscrowMirror` as the source of events |
| `Governance` | the governance contract | |
| `TransactionQueue` | queue service and submission | |
| `WebhookDelivery`, `LoanService` | one service each | |
| `PaymentNotifications` | the event monitoring service | EXTENDS the two above: one crash hits transactions, events and jobs |
| `EscrowMirror` | escrow service, `flagDispute` | EXTENDS `EscrowLifecycle` |
| `AuthSessions`, `OracleService` | one service each | |
| `RealtimeSockets` | both ends of the sockets | |
| `Services` | the four parts that share no row | EXTENDS `EscrowMirror`, `AuthSessions`, `OracleService` and `RealtimeSockets`; their conjunction |
| `CollateralRegistryProofs`, `EscrowManagerProofs`, `OracleAdapterProofs`, `GovernanceProofs`, `TransactionQueueProofs` | proofs about the module of that name | extend it |
| `PaymentProofs`, `ServicesProofs` | proofs about loans, payments and deliveries within `PaymentNotifications`; about the four parts of `Services` | extend them |
| `CountingTheorems` | sums and counts over finite sets | extended by the proofs that need it |
| `MC*` | values of the constants | `MCContracts` and `MCServices` put unrelated modules side by side, see section 3 |

Actions carry the names of the functions they model; a helper named after an idea
(`ValidConfig`, `StillAsRead`) stands for a condition inside a function. Names that end
in `_Something` are mutated forms of the definition before the underscore; nothing uses
them, and `PROJECT.json` says which property each of them breaks.

Reading the models:

- An error return, a trap and a missing signature all mean that nothing happens, so
  they are conjuncts of the guard and no action of their own. On the server the same
  holds for validation errors before the first write.
- `Willing` is the set of addresses that sign when asked. `Reluctant` owners sign
  everything but an unlock they did not initiate.
- `LockParams` and `ConsensusParams` are how many parameters the contracts found at the
  registry's and adapter's addresses declare. The escrow manager passes one and four.
  The mocks of its tests agree (1 and 4), and so do the runs; the repository's own
  contracts do not (2 and 3). Behind `lock_collateral` the model has the repository's
  registry. Behind `check_consensus` it has an adapter that exists nowhere yet: the
  repository's counting, restricted to the event type that `lib.rs:462` passes ("Add event
  type filtering") and that the docs (`lib.rs:90`, `:259`) require. It is marked external.
  The repository's adapter has no such parameter, and the mock (`lib.rs:903`) ignores it.
- `DirectLocking` says whether owners also call `lock_collateral` and
  `unlock_collateral` themselves. The contract does not prevent it.
- `test_rate` is set by `set_test_exchange_rate`, a public function of the contract
  although its comment calls it a test helper.
- Server code is cut into steps at its awaits. In `TransactionQueue` and
  `WebhookDelivery` a job has a position and `Crash` may come between any two steps; in
  `AuthSessions` and `EscrowMirror` a request keeps what it has read until its write; in
  `OracleService` a call is the list of queries it has still to make, so that a slash
  inside the resolution of a dispute is the same steps as a slash on its own.
- A database transaction that locks its rows, or is serialisable, is one step where its
  effects appear, preceded by a step that reads; `Conflicts` (loans) and `LockFree`
  (wallets) say what the database prevents.
- In `TransactionQueue` errors are kept apart as `isRetryableError` keeps them apart, by
  what their texts contain: a rejection ("rejected by network") is retried, a poll that
  "timed out" is not.

Abstractions: amounts are small integers (the contracts use checked 128-bit arithmetic,
so an overflow is an error return; the server uses decimals); the register of oracles is
a set, because its order is never read; timestamps are a counter; hashes, addresses and
keys are model values; fields that are written and never read are dropped (metadata,
creation times, the per-seller index, dispute reason, history records, consecutive
failures of a webhook), and so are events and storage TTLs. Inputs include the invalid
ones the code must refuse.

External, modelled from their use: signatures, token transfers and ledger time of the
Soroban host; BullMQ's retry, stall and removal rules; the database's locks and aborts;
who watches the chain and reports to the mirror; the network's decision about a
transaction.

## 3. Runs

| Run | Checks | Bounds |
|---|---|---|
| `contracts` | registry: TypeOK, IndexesAgree; governance: TalliesMatchBallots, VotesWithinTokens, EffectAfterTimelock | 2 collaterals, 2 owners, 2 documents; 3 voters (symmetric) of 4 tokens, 1 proposal, 3 delegations, 1 change of the rules, 4 instants |
| `oracles` | ConfirmationsListed, ConsensusCountsOracles | 3 oracles (symmetric), 2 escrows, event codes 0, 1, 2, 6 |
| `escrow_safety` | TypeOK, LedgerReconciles, LocksOneToOne, SettledIsFinal, EvidenceForRelease | 2 escrows that require different events, 2 collaterals, 2 oracles, 3 instants |
| `escrow_direct` | ImplementsLifecycle, SlippageProtected | 2 escrows over 1 collateral, 2 assets, 3 rates, a minimum above the amount, direct locking, admin and treasury changes |
| `escrow_liveness` | ExpiredEscrowSettles, ConsensusSettles | as `escrow_safety`, one event code; one configuration expires, the threshold one does not |
| `queue` | TypeOK, SuccessIsConfirmed, NoSubmissionAfterOutcome, JobsEnd, FailuresAreDeadLettered | a pre-signed or a server-built key, 5 attempts, 3 crashes |
| `payments` | loans: NeverOverpaid, SessionsMatchRepayments, ShownIsCurrent; webhooks: WebhookTypeOK, OneLiveJob, DeliveriesEnd; both: PaymentsArePosted | 1 loan, amounts 1, 2, 3 and 5, 2 concurrent repayments, 2 sessions, 1 webhook, 1 test event, 3 attempts, rate limit 1, 1 fault, 1 sweep, 4 jobs of a delivery named for the time |
| `services` | ServicesTypeOK (of all four); sessions: OnePrimaryWallet, SpentTokensStaySpent; oracles: OverlapsBounded, SlashesAreFailures, PenaltiesBeforeVerdict; mirror: LegalTransitions, SettlementKept, SettlementReachesMirror; sockets: PageMatchesSocket, DeadConnectionsLeave, RiskPagesSettle | 2 addresses, 2 requests, 3 challenges, 4 sessions; 2 oracles, 2 calls at once of 4 in all, 1 dispute; 1 escrow, 2 disputes, 2 duplicates; 2 pages, 2 sockets each, 3 failures, 2 changes of wallet |

Why the bounds suffice for the questions:

- Two escrows are enough for one to be paid with another's money and for two to claim
  one collateral; two oracles are enough for a threshold above one, a third for a set
  that leaves somebody out; time matters only as before or after an expiry, and the two
  configurations expire at different instants.
- Idempotency keys share nothing but a crash, so one key shows what can happen to each,
  and each behaviour of `queue` enqueues one of the two kinds. Five attempts are the
  code's own number; three crashes exceed BullMQ's stall limit.
- `contracts` and `services` put modules side by side that share no variable. A
  behaviour picks one of them in its initial state (`part`) and leaves the others at
  rest, so the state space is the sum and not the product of theirs, and nothing is
  lost: no action of one reads what another writes.
- `payments` does the same by `scope` for what the composition multiplies: two
  repayments at once without registered webhooks; one delivery whose webhook is switched
  off, on and deleted; one delivery with a crash, a database error or a sweep, whose
  webhook may be deleted; one payment
  all the way to a registered webhook. A single fault already separates a row from its
  job, which is what the properties are about. Three attempts stand for the code's five:
  a first, a last and one in between.
- The rate limiter and the sweep name their jobs for the time, so there is no end of such
  names. `MaxTimed` bounds how many of them the queue holds for one delivery at a time,
  and a finished one gives its number back. Section 4 does without this bound as well:
  it may be any natural number.
- Two requests, calls or refreshes at once are the least number that race; the
  properties are stated in `Cardinality(Requests)` and `Cardinality(Calls)`. Three voters allow
  a delegation to move from one delegatee to another and back.

`LedgerReconciles` is checked for escrows that pay in
the asset they hold. Across assets it fails, which is the run `path_payment`.

Runs that say `CHECK_DEADLOCK FALSE` end where their bounds do: no proposal, challenge,
call or webhook is left to be made.

### Fairness

- `EscrowManager`: time passes, owners register, lenders fund, and somebody calls
  `refund_escrow` or `release_funds_on_confirmation` once it stays possible: both calls
  are open to everyone, and the buyer or the seller has an interest in them. No dispute,
  resolution or confirmation is assumed.
- `TransactionQueue`: BullMQ runs the jobs it holds, events of a living process are
  delivered and the network decides about a pending transaction; clients and
  administrators need not do anything.
- `PaymentNotifications`: the server does not stop while it has something to do
  (`ServerStep` as a whole, no job is preferred), and minutes pass for the rate limit.
- `EscrowMirror`: a report is delivered again until it is accepted, as a webhook sender
  does on an error answer, and a handler that has started runs to its end.
- `RealtimeSockets`: timers fire on both ends, and a socket the server does not know, or
  that is closing, is found to be closed. Nobody is bound to accept a socket, to answer a
  ping or to hear of a close.
- `AuthSessions` (for `link_challenge` only): a request that has started ends, and the
  client answers the challenge it asked for.

### Disagreements between the code and what is said of it

Each of these is a run that TLC refutes, with the quoted line in `PROJECT.json`.

| Run | Refuted | What happens |
|---|---|---|
| `path_payment` | BalanceCoversOpen | a release across assets is paid from other escrows' funds |
| `minimum` | SellerGetsMinimum | within one asset a release pays less than the minimum, which it does not look at |
| `queue_completed` | CompletedIsConfirmed | a failed transaction ends as COMPLETED |
| `link_challenge` | ChallengesLinkWallets | asking for the challenge to link a wallet gives the address a user of its own, so it can no longer be linked |

The models also show, without a run of their own:

- With the repository's registry (`LockParams` 2) no escrow is created, since
  `lock_collateral` declares one parameter more than it is passed
  (`escrow-manager/src/lib.rs:304`). With the repository's adapter (`ConsensusParams` 3)
  no threshold escrow is released, since `check_consensus` declares one fewer. Were the
  event type dropped from the call to fit that adapter, confirmations of any event would
  count: with the adapter's own `check_consensus` in its place, `EvidenceForRelease` fails.
- `unlock_collateral` (`collateral-registry/src/lib.rs:410`) asks for the owner's
  signature only, also when the lock was taken for an open escrow. Next to a registry like
  it whose `lock_collateral` fits the call (`LockParams` 1, `DirectLocking`) an owner can
  unlock and put one collateral behind two open escrows; nothing in the repository is
  wired so, hence no run.
- A refund needs the signature of the collateral's owner, because `refund_escrow` calls
  `unlock_collateral`: with a `Reluctant` owner an expired escrow stays as it is,
  although `escrow-manager/src/lib.rs:641` says that anyone can call it.
- `fuzz_escrow_invariants.rs:4` equates the balance with the Active amounts; disputed
  escrows keep their money in the contract too, as `LedgerReconciles` has it.
- Without a threshold, `Confirmed` takes the word of any oracle; `oracle_set` is not read.
- `collect_protocol_fee` records a fee at the treasury and moves no token.
- `execute_proposal` hands the new value to `risk-assessment`, which keeps it pending
  behind a timelock of its own until somebody calls `execute_parameter_update` there
  (`risk-assessment/src/lib.rs:1028-1084`). `param` is the value handed over, so that
  `EffectAfterTimelock` is about the earlier of the two moments.
- A governance proposal that was cancelled is stored as executed and reported so.
  Somebody who has delegated still votes with the same tokens as the delegatee. Quorum
  and majority are read at execution, so the admin can change them after the vote.
- `FailuresAreDeadLettered` needs the absence of crashes: the dead letter is written by a
  listener in memory. `retryDLQJob` re-adds the job under an id the queue still holds, so
  nothing is queued, and then deletes the letter.
- A transaction the server builds itself is submitted without the fee payer's signature
  (`contract.service.ts:81` signs another object), so it is always rejected.
- A webhook delivery whose job could not be added stays PENDING: nothing calls
  `retryFailedWebhooks`, and it looks at RETRYING rows only. Called while a job is under
  way it would send a settled delivery again, which is why `DeliveriesEnd` excludes it
  and `OneLiveJob` counts it.
- A crash after a job was queued again and before the job that queued it is reported as
  finished leaves both in the queue, and a further crash can do this to each of them: the
  jobs of a delivery double with every fault, and a bound that grows by one per fault is
  refuted by two crashes. `OneLiveJob` says that they do no more than double.
- A payment through a session without a webhook is not reported to the registered
  webhooks either (`event-monitoring.service.ts:47`).
- A broadcast of a repayment that is aborted afterwards is not taken back
  (`ShownIsCurrent` excludes aborts).
- `flagDispute` sets a RELEASED or REFUNDED row to DISPUTED (`SettlementKept` excludes
  it), and from DISPUTED the table allows no REFUNDED, so a refund that resolves a
  dispute never enters the mirror. The timeout detector's CANCELLED, which the contract
  does not know, blocks every later report.
- Overlapping signers lose a threshold signature (`OverlapsBounded` says that nothing else does),
  and a dispute whose penalties fail half way can be resolved again and slashes twice.
- Two requests at once answer one challenge, or refresh one session, with two sessions;
  the properties bound them by the number of requests under way.
- `connectionFailed` of a risk page survives a change of wallet until the next socket
  opens. `addConnection` has no caller in the repository.

## 4. Proofs

Every theorem below holds for all values of the constants that satisfy the named
assumption, so also without the bounds of section 3. Each is the usual argument: the
initial states satisfy an inductive invariant, every action preserves it (one lemma per
action), and it implies the property. What is worth knowing is the invariant.

### The contracts

`CollateralRegistryProofs`, from `RegistryAssumption` (valuations are integers, lock
references naturals):

- `TypeCorrect`: `Spec => []TypeOK`.
- `IndexesCorrect`: `Spec => [](IndexesAgree /\ UniqueDocuments)`. `UniqueDocuments`
  alone is not inductive: registration tests the hash index and not the records, so the
  argument needs that the index knows every record's document. The inductive invariant
  is `TypeOK /\ IndexesAgree /\ UniqueDocuments`; the last part is proved only and not
  among the properties of a run.

`OracleAdapterProofs`, from `AdapterAssumption` (event codes are naturals, oracles are
finitely many):

- `ListsCorrect`: `Spec => [](TypeOK /\ ConfirmationsListed)`. The two stores of a
  confirmation are tested and written together, and each rules out duplicates in the
  other; the conjunction is inductive as it stands.
- `ConsensusCorrect`: `Spec => [](ConsensusExact /\ ConsensusCountsOracles)`.
  `ConsensusExact` is the property for every list of oracles and every threshold, where
  the run enumerates lists of at most two. Counting list positions counts oracles
  because no list names one twice (`PositionsAreEntries`).
- `ConsensusKept`: `Spec => ConsensusLasts`. No operation changes or withdraws a
  confirmation, and a consensus that was reached, for whichever list and threshold, is
  lost to `remove_oracle` alone.

`EscrowManagerProofs`, from `ManagerAssumption` (the contract is none of the parties or
treasuries, configurations have the right fields, fee rates are naturals), about the
three contracts together:

- `TypeCorrect`: `Spec => []TypeOK`; in particular no balance ever goes negative.
- `SettledStaysSettled`: `Spec => SettledIsFinal`, by the kinds of steps (`StepKinds`)
  and type correctness.
- `LifecycleRefined`: `Spec => ImplementsLifecycle`. Every step of the three contracts
  leaves the statuses alone or moves one escrow along `Succeeds`, which again follows
  from the kinds of steps; that ids are used once comes with type correctness.
- `LocksCorrect`: with `~DirectLocking`, `Spec => []LocksOneToOne`, that is
  `LocksMatchEscrows /\ CollateralSingleUse`. Neither part is inductive
  without the other: a settlement unlocks a collateral, which is right only if no other
  open escrow rests on it; and a new escrow is created on an unlocked collateral, which
  is not in use only because open escrows keep theirs locked. The premise is necessary:
  an owner that unlocks directly breaks both parts.
- `MoneyReconciles`: if every configuration pays out in the asset it was funded in,
  `Spec => []LedgerReconciles`. Every step adds or removes one summand of one of the
  sums and moves that amount between two balances. The premise is necessary:
  `path_payment` is the counterexample without it.
- `SettlementsStayFunded`: under the premises of the last two,
  `Spec => []SettlementFunded`: at every moment the contract holds what the settlement of
  any open escrow pays, and that escrow's collateral is locked and known to the registry.
  An escrow's amount is one summand of the sum that `LedgerReconciles` equates with the
  balance. What a settlement needs beyond this are signatures, evidence and time.
- `SlippageKept`: `Spec => SlippageProtected`, for every configuration. That the minimum
  holds across assets only is part of the statement; `minimum` shows the other half.
- `ReleasesNeedEvidence`: `Spec => EvidenceForRelease`, from the adapter's invariant
  inside the composition: the positions counted are different oracles of the set
  (`PositionsAreEntries`), each of which confirmed the required event.

`GovernanceProofs`, from `GovernanceAssumption` (periods and balances are naturals,
voters are finitely many):

- `TalliesCorrect`: `GovSpec => []TalliesMatchBallots`.
- `VotesBacked`: `GovSpec => VotesWithinTokens`. The list of delegators that
  `get_total_controlled_tokens` walks may hold voters who delegate elsewhere by now, but
  holds nobody twice and leaves nobody out (`ListSound`), so that the loop computes the
  sum over the delegators (`ControlledIsTokens`). `RootCorrect` says that the loop of
  `sqrt` ends with a root that is not too large, for every integer.
- `TimelockKept`: `GovSpec => EffectAfterTimelock`. The times of a proposal are those of
  the rules it was made under (`ClockSound`). A vote comes strictly before the end of the
  voting period, hence `>` for a proposal that has votes and `>=` for one without.

### The services

`TransactionQueueProofs`, from `QueueAssumption` (there is at least one attempt):

- `QueueTypeCorrect`: `Spec => []TypeOK`, which bounds attempts, stalls and dead letters.
  Types alone are not inductive: the invariant `QueueInv` says that a job which may still
  run has an attempt and a stall left, and that the failure that exhausts a job is final
  and has had no dead letter.
- `SuccessConfirmed` and `OutcomeStopsSubmission`: `SuccessIsConfirmed` and
  `NoSubmissionAfterOutcome`. A success travels from the ledger through the worker into
  the cache and the job; `Seen` says what the worker knows at each of its positions.
- `JobsRunDown`: `Spec => JobsAdvance`, the argument behind `JobsEnd`. `Rank` adds up the
  crashes, attempts and stalls a job has left and how far its worker has to go; every step
  of the job lowers it, and nothing anybody else does raises it.
- `LettersNotLost`: `Spec => LettersFollow`, the argument behind
  `FailuresAreDeadLettered`. Until the first crash no job is orphaned (`Attended`), so a
  job fails by its last attempt only, whose event stays until it is the one dead letter.

`PaymentProofs`, from `LoanAssumption` (amounts are positive, requests finitely many),
`WebhookAssumption` (at least one attempt, a positive rate limit, tests and deliveries are
no payment events) and `PaymentAssumption`, in the whole of `PaymentNotifications`, crashes
and faults included:

- `LoansNeverOverpaid`, `SessionsCorrect`, `BroadcastsCorrect`: `NeverOverpaid`,
  `SessionsMatchRepayments`, `ShownIsCurrent`. What an open transaction has read still
  holds unless the database has marked it (`TxSound`). The broadcast precedes the commit,
  so `ShownSound` says what clients have been shown while exactly one transaction is
  open that can still commit.
- `WebhookTypeCorrect`, `JobsDoNotMultiply`: `Spec => []WebhookTypeOK` and
  `Spec => []OneLiveJob`. `HookInv` counts per delivery. A job owes a post from the moment
  it can be queued until it has posted or has queued the job that will (`Due`); posts made
  and owed together stay within the bound, because a job that posts hands its debt on to
  at most one other. A fault sets back only jobs that are at work (`Busy`, `Active`), so
  these are counted beside the ones that are live (`Underway`), and each is within the same
  bound: that is why one fault can double the bound and no more. The last clause of
  `OneLiveJob`, that no job is lost, needs to know what each job has read and in which
  order rows and jobs come to be; `ChainInv` says it for behaviours without faults and
  sweeps, from the repayment on that raises the event.
- `PaymentsStayAccounted`: `Spec => []PaymentsAccounted`, the argument behind
  `PaymentsArePosted`. A payment is posted at most twice whatever the number of crashes,
  since BullMQ runs an orphan once more and then gives it up, and exactly once without a
  fault. `Posted` says what has been posted from where the job is and whether it has been
  orphaned.

`ServicesProofs`, about four modules that share no row:

- `SettlementsKept`, `TransitionsLegal` (from `MirrorAssumption`):
  `MirrorSpec => [](MirrorTypeOK /\ SettlementKept)` and `LegalTransitions`. A reported
  settlement has happened on the chain, and a handler that has passed the test still has
  its report and a status the report was acceptable from (`HandlersSound`).
- `SettlementsStayDeliverable`: `MirrorSpec => []SettlementDeliverable`, the argument
  behind `SettlementReachesMirror`. A settlement not yet accepted is still reported, and
  the row is in a status that takes it, but for a cancelled row and for a refund that meets
  a dispute (`UnderWay`).
- `PagesMatchSockets` (from `SocketAssumption`):
  `SocketSpec => [](SocketTypeOK /\ PageMatchesSocket)`. The socket a page knows is its
  only one that is up and its only one with handlers (`SocketsKnown`).
- `TokensSpent` (from `AuthAssumption`: requests are finitely many):
  `AuthSpec => []SpentTokensStaySpent`. What was made of a row and the requests that have
  found it unspent and are still under way are together no more than the requests there
  are (`TokenSound`): a request that begins after the row was spent does not find it.
- `WalletsCorrect`: `AuthSpec => []OnePrimaryWallet`. Whoever holds a user's lock has
  read what still holds (`LockSound`), and nobody else holds it.
- `OverlapsAreBounded`, `SlashesCounted`, `VerdictAfterPenalties` (from
  `OracleAssumption`: at least one and finitely many calls, a positive limit):
  `OverlapsBounded`, `SlashesAreFailures`, `PenaltiesBeforeVerdict`. The invariant
  describes the rest of every call (`Shaped`, `RowSound`): a slash follows its check and
  is followed by the count of a failure, a commit comes last, and what a resolution has
  not yet slashed is still on its list. A check that was passed counts as the write it
  precedes (`RateSound`, `StakeSound`), a slash as the failure it precedes (`DebtSound`).
  That `Penalty` builds such a list from any set of confirmations is `PenaltyFacts`.
- `ServicesTypeCorrect`: `Services => []ServicesTypeOK`, from one theorem per part. Types
  alone are not inductive. For sessions (`AuthTypeCorrect`) every challenge
  and session is of a user that exists, and a session that was refreshed is older than the
  one made of it (`UsersKnown`). For the oracle service (`OracleTypeCorrect`) whatever a
  call has still to do is about a registered oracle, and a slash past its check finds the
  stake it takes from (`KnownInv`), since rows are never deleted.

### Recursion

The prover has no induction over data, but the library's `WFMin` gives a least element
of a set of naturals (`LeastNumber`) or of subsets of a finite set (`SmallestSet`).
Assuming the set of counterexamples is not empty and looking at its least element does
what induction would. In this way `CountingTheorems` shows that the fold behind
`SumFunctionOnSet` exists and what one summand more or less does to it (`SumUnfold`);
`GovernanceProofs` that Newton's iteration ends; `PaymentProofs` that `Doubled` exists and
is positive; and `ServicesProofs` what `FlattenSeq` makes of the blocks of `Penalty`.

### Only model-checked

Liveness, since fairness and ENABLED are outside the prover. Seven of the nine properties
have what can go wrong with them, short of somebody stopping, proved as a safety property:

| Liveness, checked by TLC | What is proved behind it |
|---|---|
| `ExpiredEscrowSettles` | `SettlementsStayFunded` |
| `ConsensusSettles` | `ConsensusKept`, `SettlementsStayFunded` |
| `JobsEnd` | `JobsRunDown` |
| `FailuresAreDeadLettered` | `LettersNotLost` |
| `DeliveriesEnd` | `JobsDoNotMultiply`: posts are bounded, and an unsettled delivery has its job |
| `PaymentsArePosted` | `PaymentsStayAccounted` |
| `SettlementReachesMirror` | `SettlementsStayDeliverable` |
| `DeadConnectionsLeave`, `RiskPagesSettle` | `PagesMatchSockets` only |

The definitions in the right column that no run checks (`ConsensusLasts`,
`SettlementFunded`, `JobsAdvance`, `LettersFollow`, `PaymentsAccounted`,
`SettlementDeliverable`) stand in the proof modules beside their theorems.

## 5. Plan

Models: `ProtocolTreasury` (shares, multi-signature and time-locked withdrawals),
`LoanManagement` (repayment arithmetic against a reference, default, restructuring),
`UpgradeSystem`, the liquidation part of `risk-assessment`, the invoice contract.

## 6. Not modelled

Storage TTLs and archival; the contents of metadata, reasons and events; credit scoring;
HTTP handling, validation and access control of the server beyond sessions; the pages of
`frontend/` (mock data and local state), `backend/` and `contracts/example`. The
components of section 1 that appear in the plan only are listed as not modelled in
`PROJECT.json`.

`protocol-treasury` waits because its source does not compile as it stands
(`symbol_short!("multi_prop")` exceeds nine characters), so there is no behaviour yet to
be faithful to.

Of the about 91,000 lines of TypeScript in the repository some 64,000 are Prisma's
generated clients (`server/src/generated`), twice over, and most of the rest are tests,
type declarations, pages and one-row handlers without a state machine behind them. The
server's stateful services are modelled; the share of mapped lines is small for that
reason and cannot be raised by modelling more of what is there.
