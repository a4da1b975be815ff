--------------------------- MODULE EscrowMirror ---------------------------
(***************************************************************************)
(* The server's copy of the escrows (server/src/services/escrow.service.ts *)
(* and flagDispute of oracle.service.ts) beside the contract it mirrors,   *)
(* which here is what EscrowLifecycle promises.  Whoever watches the chain *)
(* reports status changes to POST /api/escrows/webhook until they are      *)
(* accepted, in any order and now and then twice; the timeout detector and *)
(* users who flag disputes write to the same rows.  A read and the write   *)
(* that depends on it are two steps.  Parties and amounts are left out.    *)
(***************************************************************************)
EXTENDS EscrowLifecycle, Naturals

CONSTANTS
    MaxDisputes,   \* bound: disputes flagged at the server, per escrow
    MaxDuplicates  \* bound: reports delivered again after they were accepted

ASSUME MirrorAssumption == MaxDisputes \in Nat /\ MaxDuplicates \in Nat

VARIABLES
    mirror,        \* status column of the escrow's row
    expired,       \* escrows whose expiresAt has passed
    reports,       \* statuses reported for an escrow and not accepted yet
    existing,      \* the status a handler of such a report has read
    overdue,       \* what the timeout detector has read
    disputes,      \* dispute rows of the escrow
    accepted,      \* history: the settlement the server has accepted
    duplicates

serverVars == <<mirror, expired, existing, overdue, disputes, accepted>>
mirrorVars == <<life, serverVars, reports, duplicates>>

ESCROW_STATUSES == {"PENDING", "FUNDED", "RELEASED", "REFUNDED", "DISPUTED", "CANCELLED"}
Idle == "none"

\* normalizeLiveEscrowStatus: the row's word for a stage of the contract.
LiveStatus(stage) ==
    CASE stage = "Active"   -> "FUNDED"
      [] stage = "Disputed" -> "DISPUTED"
      [] stage = "Released" -> "RELEASED"
      [] stage = "Refunded" -> "REFUNDED"
      [] OTHER              -> "UNKNOWN"

\* What is reported of a stage; a watcher may pass on the contract's own name.
Reports(stage) ==
    CASE stage = "none"   -> {}
      [] stage = "Active" -> {LiveStatus(stage), "ACTIVE"}
      [] OTHER            -> {LiveStatus(stage)}
Reportable == UNION {Reports(stage) : stage \in Stages}

\* Mutated form of Allowed.
Allowed_DisputedStays(from) ==
    CASE from = "PENDING"  -> ESCROW_STATUSES
      [] from = "FUNDED"   -> ESCROW_STATUSES \ {"PENDING"}
      [] from = "DISPUTED" -> {"DISPUTED", "FUNDED", "CANCELLED"}
      [] OTHER             -> {from}

\* ESCROW_ALLOWED_TRANSITIONS
Allowed(from) ==
    CASE from = "PENDING"  -> ESCROW_STATUSES
      [] from = "FUNDED"   -> ESCROW_STATUSES \ {"PENDING"}
      [] from = "DISPUTED" -> {"DISPUTED", "FUNDED", "RELEASED", "CANCELLED"}
      [] OTHER             -> {from}

\* Mutated forms of the conditions below.
StillAsRead_Unchecked(e, s) == TRUE
StillFunded_Unchecked(e) == TRUE

\* normalizeStatus and the test of the transition: any other word is refused.
Accepts(from, s) == s \in ESCROW_STATUSES /\ s \in Allowed(from)

\* The condition of processEscrowEvent's update.
StillAsRead(e, s) == mirror[e] = existing[e][s]

\* The condition of the timeout detector's update.
StillFunded(e) == mirror[e] = "FUNDED"

----------------------------------------------------------------------------
(* The contract and those who watch it *)

MirrorInit ==
    /\ LifeInit
    /\ mirror = [e \in Ids |-> "none"]
    /\ expired = {}
    /\ reports = [e \in Ids |-> {}]
    /\ existing = [e \in Ids |-> [s \in Reportable |-> Idle]]
    /\ overdue = {}
    /\ disputes = [e \in Ids |-> 0]
    /\ accepted = [e \in Ids |-> Idle]
    /\ duplicates = 0

\* An escrow exists at the server before its buyer can sign for it.
ContractStep(e, to) ==
    /\ mirror[e] # "none"
    /\ Advance(e, to)
    /\ \E s \in Reports(to) : reports' = [reports EXCEPT ![e] = @ \cup {s}]
    /\ UNCHANGED <<serverVars, duplicates>>

\* A report that was accepted is delivered once more.
Duplicate(e, s) ==
    /\ duplicates < MaxDuplicates
    /\ duplicates' = duplicates + 1
    /\ s \notin reports[e]
    /\ \/ s \in Reports(life[e])
       \/ s = "FUNDED" /\ life[e] # "none"
    /\ reports' = [reports EXCEPT ![e] = @ \cup {s}]
    /\ UNCHANGED <<life, serverVars>>

----------------------------------------------------------------------------
(* The server *)

createEscrow(e) ==
    /\ mirror[e] = "none"
    /\ mirror' = [mirror EXCEPT ![e] = "PENDING"]
    /\ UNCHANGED <<life, expired, reports, existing, overdue, disputes, accepted, duplicates>>

Expire(e) ==
    /\ mirror[e] # "none" /\ e \notin expired
    /\ expired' = expired \cup {e}
    /\ UNCHANGED <<life, mirror, reports, existing, overdue, disputes, accepted, duplicates>>

\* processEscrowEvent up to the test of the transition; a report that fails it
\* is refused and changes nothing.
ReadEscrow(e, s) ==
    /\ s \in reports[e] /\ existing[e][s] = Idle
    /\ Accepts(mirror[e], s)
    /\ existing' = [existing EXCEPT ![e][s] = mirror[e]]
    /\ UNCHANGED <<life, mirror, expired, reports, overdue, disputes, accepted, duplicates>>

\* The update; when another writer came between, the report is refused.
UpdateEscrow(e, s) ==
    /\ existing[e][s] # Idle
    /\ existing' = [existing EXCEPT ![e][s] = Idle]
    /\ IF StillAsRead(e, s)
       THEN /\ mirror' = [mirror EXCEPT ![e] = s]
            /\ reports' = [reports EXCEPT ![e] = @ \ {s}]
            /\ accepted' = IF s \in {"RELEASED", "REFUNDED"}
                           THEN [accepted EXCEPT ![e] = s] ELSE accepted
       ELSE UNCHANGED <<mirror, reports, accepted>>
    /\ UNCHANGED <<life, expired, overdue, disputes, duplicates>>

processEscrowEvent(e, s) == ReadEscrow(e, s) \/ UpdateEscrow(e, s)

\* The two queries of a run of the timeout detector.
timeoutDetector ==
    \/ /\ overdue = {}
       /\ overdue' = {e \in expired : mirror[e] = "FUNDED"}
       /\ overdue' # {}
       /\ UNCHANGED <<life, mirror, expired, reports, existing, disputes, accepted, duplicates>>
    \/ /\ overdue # {}
       /\ mirror' = [e \in Ids |-> IF e \in overdue /\ StillFunded(e) THEN "CANCELLED"
                                   ELSE mirror[e]]
       /\ overdue' = {}
       /\ UNCHANGED <<life, expired, reports, existing, disputes, accepted, duplicates>>

\* Whatever the status was, unless it is DISPUTED already.
flagDispute(e) ==
    /\ mirror[e] \notin {"none", "DISPUTED"}
    /\ disputes[e] < MaxDisputes
    /\ mirror' = [mirror EXCEPT ![e] = "DISPUTED"]
    /\ disputes' = [disputes EXCEPT ![e] = @ + 1]
    /\ UNCHANGED <<life, expired, reports, existing, overdue, accepted, duplicates>>

\* getEscrowStatus: what it answers for the escrow.
synchronized(e) == LiveStatus(life[e]) # "UNKNOWN" /\ LiveStatus(life[e]) = mirror[e]

MirrorNext ==
    \/ \E e \in Ids :
         \/ createEscrow(e)
         \/ Expire(e)
         \/ flagDispute(e)
         \/ \E to \in Stages : ContractStep(e, to)
         \/ \E s \in Reportable : Duplicate(e, s) \/ processEscrowEvent(e, s)
    \/ timeoutDetector

MirrorSpec == MirrorInit /\ [][MirrorNext]_mirrorVars

\* A report is delivered until it is accepted, and a handler that has started
\* runs to its end.
MirrorFairness ==
    \A e \in Ids, s \in Reportable : WF_mirrorVars(processEscrowEvent(e, s))

----------------------------------------------------------------------------
(* Properties *)

MirrorTypeOK ==
    /\ life \in [Ids -> Stages]
    /\ mirror \in [Ids -> ESCROW_STATUSES \cup {"none"}]
    /\ expired \subseteq Ids
    /\ reports \in [Ids -> SUBSET Reportable]
    /\ existing \in [Ids -> [Reportable -> ESCROW_STATUSES \cup {Idle}]]
    /\ overdue \subseteq Ids
    /\ disputes \in [Ids -> 0 .. MaxDisputes]
    /\ accepted \in [Ids -> {"RELEASED", "REFUNDED", Idle}]
    /\ duplicates \in 0 .. MaxDuplicates

\* The table of transitions is tested on a status read earlier.  Still no row
\* ever makes a transition the table forbids, other than by flagDispute, which
\* does not ask it: reports handled at once and the timeout detector do not
\* overwrite each other.
LegalTransitions ==
    [][\A e \in Ids :
         mirror'[e] # mirror[e] /\ mirror[e] # "none" =>
            mirror'[e] \in Allowed(mirror[e]) \/ disputes'[e] # disputes[e]]_mirrorVars

\* Once the server has accepted that an escrow was released or refunded it says
\* so for good and agrees with the contract, so that getEscrowStatus answers
\* synchronized: no late report, duplicate or run of the timeout detector takes it
\* back.  Only a flagged dispute does.
SettlementKept ==
    \A e \in Ids :
       accepted[e] # Idle =>
          /\ accepted[e] = LiveStatus(life[e])
          /\ disputes[e] = 0 => synchronized(e)

\* The server accepts a settlement made on the chain in the end, however the
\* reports are delayed, reordered, doubled or refused on the way, unless the
\* timeout detector has cancelled the row; a refund also stops at a row that is
\* in dispute, from which the table allows no refund.
SettlementReachesMirror ==
    \A e \in Ids :
       /\ life[e] = "Released" ~> accepted[e] = "RELEASED" \/ mirror[e] = "CANCELLED"
       /\ life[e] = "Refunded" ~> \/ accepted[e] = "REFUNDED"
                                  \/ mirror[e] \in {"CANCELLED", "DISPUTED"}
============================================================================
