--------------------------- MODULE ServicesProofs ---------------------------
(***************************************************************************)
(* Proofs about services of the server that share no rows: EscrowMirror,   *)
(* RealtimeSockets, OracleService and AuthSessions, each for any number of *)
(* escrows, pages, oracles, users and concurrent requests.                 *)
(***************************************************************************)
EXTENDS Services, CountingTheorems

----------------------------------------------------------------------------
(* The mirror of the escrows.  A handler tests the transition on a status it  *)
(* read earlier, so the invariant says what a handler under way carries with  *)
(* it: its report is still undelivered and was acceptable from what it read.  *)

Settlements == {"RELEASED", "REFUNDED"}

\* A settlement that is reported has happened on the chain.
ReportsTrue(e) == \A s \in reports[e] \cap Settlements : s = LiveStatus(life[e])

\* What the handlers of reports hold.
HandlersSound(e) ==
    \A s \in Reportable :
      existing[e][s] # Idle => s \in reports[e] /\ Accepts(existing[e][s], s)

\* The row of an accepted settlement.
SettlementSound(e) ==
    accepted[e] # Idle =>
      /\ accepted[e] = LiveStatus(life[e])
      /\ disputes[e] = 0 => mirror[e] = accepted[e]

MirrorInv ==
    /\ MirrorTypeOK
    /\ \A e \in Ids : ReportsTrue(e) /\ HandlersSound(e) /\ SettlementSound(e)

LEMMA ReportsTyped ==
    ASSUME NEW to \in Stages
    PROVE  /\ Reports(to) \subseteq Reportable
           /\ \A s \in Reports(to) \cap Settlements : s = LiveStatus(to)
<1>1. Reports(to) \subseteq Reportable
    BY DEF Reportable
<1>2. \A s \in Reports(to) \cap Settlements : s = LiveStatus(to)
    BY DEF Reports, LiveStatus, Settlements, Stages
<1> QED
    BY <1>1, <1>2

\* A step for one escrow leaves the others' part of the invariant alone.
LEMMA OneEscrow ==
    ASSUME MirrorInv, NEW e \in Ids, MirrorTypeOK',
           \A d \in Ids \ {e} :
             /\ life'[d] = life[d] /\ mirror'[d] = mirror[d] /\ reports'[d] = reports[d]
             /\ existing'[d] = existing[d] /\ disputes'[d] = disputes[d]
             /\ accepted'[d] = accepted[d],
           (ReportsTrue(e) /\ HandlersSound(e) /\ SettlementSound(e))'
    PROVE  MirrorInv'
<1>1. ASSUME NEW d \in Ids, d # e
      PROVE  (ReportsTrue(d) /\ HandlersSound(d) /\ SettlementSound(d))'
    BY <1>1 DEF MirrorInv, ReportsTrue, HandlersSound, SettlementSound
<1> QED
    BY <1>1 DEF MirrorInv

LEMMA ContractKeeps ==
    ASSUME MirrorInv, NEW e \in Ids, NEW to \in Stages, ContractStep(e, to)
    PROVE  MirrorInv'
<1>1. MirrorTypeOK /\ ReportsTrue(e) /\ HandlersSound(e) /\ SettlementSound(e)
    BY DEF MirrorInv
<1>2. PICK s \in Reports(to) : reports' = [reports EXCEPT ![e] = reports[e] \cup {s}]
    BY DEF ContractStep
<1>3. /\ Succeeds(life[e], to) /\ life' = [life EXCEPT ![e] = to]
      /\ UNCHANGED <<mirror, expired, existing, overdue, disputes, accepted, duplicates>>
    BY DEF ContractStep, Advance, serverVars
<1>4. s \in Reportable /\ (s \in Settlements => s = LiveStatus(to))
    BY ReportsTyped
<1>5. MirrorTypeOK'
    BY <1>1, <1>2, <1>3, <1>4 DEF MirrorTypeOK
<1>6. life'[e] = to /\ reports'[e] = reports[e] \cup {s}
    BY <1>1, <1>2, <1>3 DEF MirrorTypeOK
<1>7. LiveStatus(life[e]) \notin Settlements
    BY <1>3 DEF Succeeds, LiveStatus, Settlements, Settled
<1>8. ReportsTrue(e)'
    BY <1>1, <1>4, <1>6, <1>7 DEF ReportsTrue
<1>9. HandlersSound(e)'
    BY <1>1, <1>3, <1>6 DEF HandlersSound
<1>10. SettlementSound(e)'
    BY <1>1, <1>3, <1>7 DEF SettlementSound, MirrorTypeOK, Settlements
<1> QED
    BY <1>1, <1>2, <1>3, <1>5, <1>8, <1>9, <1>10, OneEscrow DEF MirrorTypeOK

LEMMA DuplicateKeeps ==
    ASSUME MirrorInv, NEW e \in Ids, NEW s \in Reportable, Duplicate(e, s)
    PROVE  MirrorInv'
<1>1. MirrorTypeOK /\ ReportsTrue(e) /\ HandlersSound(e) /\ SettlementSound(e)
    BY DEF MirrorInv
<1>2. /\ reports' = [reports EXCEPT ![e] = reports[e] \cup {s}]
      /\ duplicates < MaxDuplicates /\ duplicates' = duplicates + 1
      /\ UNCHANGED <<life, mirror, expired, existing, overdue, disputes, accepted>>
      /\ s \in Reports(life[e]) \/ s = "FUNDED"
    BY DEF Duplicate, serverVars
<1>3. s \in Settlements => s = LiveStatus(life[e])
    BY <1>1, <1>2, ReportsTyped DEF MirrorTypeOK, Settlements
<1>4. MirrorTypeOK'
    BY <1>1, <1>2, MirrorAssumption DEF MirrorTypeOK
<1>5. (ReportsTrue(e) /\ HandlersSound(e) /\ SettlementSound(e))'
    BY <1>1, <1>2, <1>3 DEF ReportsTrue, HandlersSound, SettlementSound, MirrorTypeOK
<1> QED
    BY <1>1, <1>2, <1>4, <1>5, OneEscrow DEF MirrorTypeOK

LEMMA ReadKeeps ==
    ASSUME MirrorInv, NEW e \in Ids, NEW s \in Reportable, ReadEscrow(e, s)
    PROVE  MirrorInv'
<1>1. MirrorTypeOK /\ ReportsTrue(e) /\ HandlersSound(e) /\ SettlementSound(e)
    BY DEF MirrorInv
<1>2. mirror[e] \in ESCROW_STATUSES \cup {Idle}
    BY <1>1 DEF MirrorTypeOK, Idle
<1>3. /\ s \in reports[e] /\ Accepts(mirror[e], s)
      /\ existing' = [existing EXCEPT ![e][s] = mirror[e]]
      /\ UNCHANGED <<life, mirror, expired, reports, overdue, disputes, accepted, duplicates>>
    BY DEF ReadEscrow
<1>4. MirrorTypeOK'
    BY <1>1, <1>2, <1>3 DEF MirrorTypeOK
<1>5. \A q \in Reportable : existing'[e][q] = IF q = s THEN mirror[e] ELSE existing[e][q]
    BY <1>1, <1>3 DEF MirrorTypeOK
<1>6. HandlersSound(e)'
    BY <1>1, <1>3, <1>5 DEF HandlersSound
<1>7. ReportsTrue(e)' /\ SettlementSound(e)'
    BY <1>1, <1>3 DEF ReportsTrue, SettlementSound
<1> QED
    BY <1>1, <1>3, <1>4, <1>6, <1>7, OneEscrow DEF MirrorTypeOK

\* What an update that is not refused does.
LEMMA UpdateAllowed ==
    ASSUME MirrorInv, NEW e \in Ids, NEW s \in Reportable, existing[e][s] # Idle,
           StillAsRead(e, s)
    PROVE  /\ s \in reports[e]
           /\ s \in ESCROW_STATUSES
           /\ s \in Allowed(mirror[e])
    BY DEF MirrorInv, HandlersSound, Accepts, StillAsRead

LEMMA UpdateKeeps ==
    ASSUME MirrorInv, NEW e \in Ids, NEW s \in Reportable, UpdateEscrow(e, s)
    PROVE  MirrorInv'
<1>1. MirrorTypeOK /\ ReportsTrue(e) /\ HandlersSound(e) /\ SettlementSound(e)
    BY DEF MirrorInv
<1>2. /\ existing[e][s] # Idle
      /\ existing' = [existing EXCEPT ![e][s] = Idle]
      /\ UNCHANGED <<life, expired, overdue, disputes, duplicates>>
    BY DEF UpdateEscrow
<1>3. \A q \in Reportable : existing'[e][q] = IF q = s THEN Idle ELSE existing[e][q]
    BY <1>1, <1>2 DEF MirrorTypeOK
<1>4. existing' \in [Ids -> [Reportable -> ESCROW_STATUSES \cup {Idle}]]
    BY <1>1, <1>2 DEF MirrorTypeOK
<1>5. CASE StillAsRead(e, s)
  <2>1. /\ s \in reports[e] /\ s \in ESCROW_STATUSES /\ s \in Allowed(mirror[e])
      BY <1>2, <1>5, UpdateAllowed
  <2>2. /\ mirror' = [mirror EXCEPT ![e] = s]
        /\ reports' = [reports EXCEPT ![e] = reports[e] \ {s}]
        /\ accepted' = IF s \in Settlements THEN [accepted EXCEPT ![e] = s] ELSE accepted
      BY <1>5 DEF UpdateEscrow, Settlements
  <2>3. MirrorTypeOK'
      BY <1>1, <1>2, <1>4, <2>1, <2>2 DEF MirrorTypeOK, Settlements
  <2>4. ReportsTrue(e)'
      BY <1>1, <1>2, <2>2 DEF ReportsTrue, MirrorTypeOK
  <2>5. HandlersSound(e)'
      BY <1>1, <1>3, <2>2 DEF HandlersSound, MirrorTypeOK
  <2>6. SettlementSound(e)'
    <3>1. CASE s \in Settlements
        BY <1>1, <1>2, <2>1, <2>2, <3>1 DEF ReportsTrue, SettlementSound, MirrorTypeOK
    <3>2. CASE s \notin Settlements
      <4>1. accepted' = accepted /\ mirror'[e] = s
          BY <1>1, <2>2, <3>2 DEF MirrorTypeOK
      <4>2. mirror[e] \in Settlements => s = mirror[e]
          BY <2>1 DEF Allowed, Settlements
      <4>3. accepted[e] # Idle => accepted[e] \in Settlements
          BY <1>1 DEF MirrorTypeOK, Settlements
      <4> QED
          BY <1>1, <1>2, <3>2, <4>1, <4>2, <4>3 DEF SettlementSound
    <3> QED
        BY <3>1, <3>2
  <2> QED
      BY <1>1, <1>2, <2>2, <2>3, <2>4, <2>5, <2>6, OneEscrow DEF MirrorTypeOK
<1>6. CASE ~StillAsRead(e, s)
  <2>1. UNCHANGED <<mirror, reports, accepted>>
      BY <1>6 DEF UpdateEscrow
  <2>2. MirrorTypeOK'
      BY <1>1, <1>2, <1>4, <2>1 DEF MirrorTypeOK
  <2>3. (ReportsTrue(e) /\ HandlersSound(e) /\ SettlementSound(e))'
      BY <1>1, <1>2, <1>3, <2>1 DEF ReportsTrue, HandlersSound, SettlementSound
  <2> QED
      BY <1>1, <1>2, <2>1, <2>2, <2>3, OneEscrow DEF MirrorTypeOK
<1> QED
    BY <1>5, <1>6

LEMMA CreateKeeps ==
    ASSUME MirrorInv, NEW e \in Ids, createEscrow(e) \/ Expire(e) \/ flagDispute(e)
    PROVE  MirrorInv'
<1>1. MirrorTypeOK /\ ReportsTrue(e) /\ HandlersSound(e) /\ SettlementSound(e)
    BY DEF MirrorInv
<1>2. CASE createEscrow(e)
  <2>1. MirrorTypeOK'
      BY <1>1, <1>2 DEF createEscrow, MirrorTypeOK, ESCROW_STATUSES
  <2>2. (ReportsTrue(e) /\ HandlersSound(e) /\ SettlementSound(e))'
      BY <1>1, <1>2 DEF createEscrow, ReportsTrue, HandlersSound, SettlementSound,
                        MirrorTypeOK, Idle
  <2> QED
      BY <1>1, <1>2, <2>1, <2>2, OneEscrow DEF createEscrow, MirrorTypeOK
<1>3. CASE Expire(e)
  <2>1. MirrorTypeOK'
      BY <1>1, <1>3 DEF Expire, MirrorTypeOK
  <2>2. (ReportsTrue(e) /\ HandlersSound(e) /\ SettlementSound(e))'
      BY <1>1, <1>3 DEF Expire, ReportsTrue, HandlersSound, SettlementSound
  <2> QED
      BY <1>1, <1>3, <2>1, <2>2, OneEscrow DEF Expire
<1>4. CASE flagDispute(e)
  <2>1. disputes[e] + 1 \in 0 .. MaxDisputes
      BY <1>1, <1>4, MirrorAssumption DEF flagDispute, MirrorTypeOK
  <2>2. MirrorTypeOK'
      BY <1>1, <1>4, <2>1 DEF flagDispute, MirrorTypeOK, ESCROW_STATUSES
  <2>3. disputes'[e] # 0
      BY <1>1, <1>4 DEF flagDispute, MirrorTypeOK
  <2>4. (ReportsTrue(e) /\ HandlersSound(e) /\ SettlementSound(e))'
      BY <1>1, <1>4, <2>3 DEF flagDispute, ReportsTrue, HandlersSound, SettlementSound
  <2> QED
      BY <1>1, <1>4, <2>2, <2>4, OneEscrow DEF flagDispute, MirrorTypeOK
<1> QED
    BY <1>2, <1>3, <1>4

LEMMA DetectorKeeps == ASSUME MirrorInv, timeoutDetector PROVE MirrorInv'
<1>1. MirrorTypeOK
    BY DEF MirrorInv
<1>2. /\ UNCHANGED <<life, expired, reports, existing, disputes, accepted, duplicates>>
      /\ overdue' \subseteq Ids
      /\ \A e \in Ids : mirror'[e] = mirror[e] \/ (mirror[e] = "FUNDED" /\ mirror'[e] = "CANCELLED")
      /\ mirror' \in [Ids -> ESCROW_STATUSES \cup {"none"}]
    BY <1>1 DEF timeoutDetector, StillFunded, MirrorTypeOK, ESCROW_STATUSES
<1>3. MirrorTypeOK'
    BY <1>1, <1>2 DEF MirrorTypeOK
<1>4. ASSUME NEW e \in Ids
      PROVE  (ReportsTrue(e) /\ HandlersSound(e) /\ SettlementSound(e))'
  <2>1. accepted[e] \in {"RELEASED", "REFUNDED", Idle}
      BY <1>1 DEF MirrorTypeOK
  <2> QED
      BY <1>2, <2>1 DEF MirrorInv, ReportsTrue, HandlersSound, SettlementSound
<1> QED
    BY <1>3, <1>4 DEF MirrorInv

LEMMA MirrorStep == MirrorInv /\ [MirrorNext]_mirrorVars => MirrorInv'
<1> SUFFICES ASSUME MirrorInv, [MirrorNext]_mirrorVars
             PROVE  MirrorInv'
    OBVIOUS
<1>1. CASE UNCHANGED mirrorVars
    BY <1>1 DEF mirrorVars, serverVars, MirrorInv, MirrorTypeOK, ReportsTrue, HandlersSound,
                SettlementSound
<1> QED
    BY <1>1, CreateKeeps, ContractKeeps, DuplicateKeeps, ReadKeeps, UpdateKeeps, DetectorKeeps
       DEF MirrorNext, processEscrowEvent

LEMMA MirrorInitial == MirrorInit => MirrorInv
<1> SUFFICES ASSUME MirrorInit PROVE MirrorInv
    OBVIOUS
<1>1. MirrorTypeOK
    BY MirrorAssumption DEF MirrorInit, LifeInit, MirrorTypeOK, Stages, Idle
<1>2. \A e \in Ids : ReportsTrue(e) /\ HandlersSound(e) /\ SettlementSound(e)
    BY DEF MirrorInit, ReportsTrue, HandlersSound, SettlementSound
<1> QED
    BY <1>1, <1>2 DEF MirrorInv

\* However reports are delayed, reordered, doubled and handled at once, a
\* settlement the server has accepted is the one made on the chain, and the row
\* says so until somebody flags a dispute.
THEOREM SettlementsKept == MirrorSpec => [](MirrorTypeOK /\ SettlementKept)
<1>1. MirrorInv => SettlementKept
  <2> SUFFICES ASSUME MirrorInv, NEW e \in Ids, accepted[e] # Idle
               PROVE  /\ accepted[e] = LiveStatus(life[e])
                      /\ disputes[e] = 0 => synchronized(e)
      BY DEF SettlementKept
  <2>1. SettlementSound(e) /\ accepted[e] \in {"RELEASED", "REFUNDED"}
      BY DEF MirrorInv, MirrorTypeOK
  <2> QED
      BY <2>1 DEF SettlementSound, synchronized
<1> QED
    BY <1>1, MirrorInitial, MirrorStep, PTL DEF MirrorSpec, MirrorInv

\* No interleaving of handlers and of the timeout detector, each writing on the
\* strength of an earlier read, takes a row where the table does not allow it.
THEOREM TransitionsLegal == MirrorSpec => LegalTransitions
<1> DEFINE Legal == \A e \in Ids :
                      mirror'[e] # mirror[e] /\ mirror[e] # "none" =>
                        mirror'[e] \in Allowed(mirror[e]) \/ disputes'[e] # disputes[e]
<1>1. MirrorInv /\ [MirrorNext]_mirrorVars => Legal
  <2> SUFFICES ASSUME MirrorInv, [MirrorNext]_mirrorVars, NEW e \in Ids,
                      mirror'[e] # mirror[e], mirror[e] # "none"
               PROVE  mirror'[e] \in Allowed(mirror[e]) \/ disputes'[e] # disputes[e]
      OBVIOUS
  <2>1. MirrorTypeOK
      BY DEF MirrorInv
  <2>2. ASSUME NEW d \in Ids, createEscrow(d)
        PROVE  FALSE
      BY <2>1, <2>2 DEF createEscrow, MirrorTypeOK
  <2>3. ASSUME NEW d \in Ids, flagDispute(d)
        PROVE  disputes'[e] # disputes[e]
      BY <2>1, <2>3 DEF flagDispute, MirrorTypeOK
  <2>4. ASSUME NEW d \in Ids, NEW s \in Reportable, UpdateEscrow(d, s)
        PROVE  mirror'[e] \in Allowed(mirror[e])
    <3>1. StillAsRead(d, s) /\ existing[d][s] # Idle /\ mirror' = [mirror EXCEPT ![d] = s]
        BY <2>4 DEF UpdateEscrow
    <3>2. s \in Allowed(mirror[d])
        BY <3>1, UpdateAllowed
    <3> QED
        BY <2>1, <3>1, <3>2 DEF MirrorTypeOK
  <2>5. CASE timeoutDetector
    <3>1. mirror[e] = "FUNDED" /\ mirror'[e] = "CANCELLED"
        BY <2>5 DEF timeoutDetector, StillFunded
    <3> QED
        BY <3>1 DEF Allowed, ESCROW_STATUSES
  <2>6. mirror' = mirror \/ \/ \E d \in Ids : createEscrow(d) \/ flagDispute(d)
                            \/ \E d \in Ids, s \in Reportable : UpdateEscrow(d, s)
                            \/ timeoutDetector
      BY DEF MirrorNext, Expire, ContractStep, Duplicate, ReadEscrow, processEscrowEvent,
             mirrorVars, serverVars
  <2> QED
      BY <2>2, <2>3, <2>4, <2>5, <2>6
<1> QED
    BY <1>1, MirrorInitial, MirrorStep, PTL DEF MirrorSpec, LegalTransitions

----------------------------------------------------------------------------
(* What keeps a settlement on its way into the mirror. *)

\* The row exists as long as the escrow does, says RELEASED or REFUNDED only by an
\* accepted report, and a settlement that was not accepted is still to be reported.
UnderWay(e) ==
    /\ life[e] # "none" => mirror[e] # "none"
    /\ mirror[e] \in Settlements => accepted[e] = mirror[e]
    /\ LiveStatus(life[e]) \in Settlements =>
         LiveStatus(life[e]) \in reports[e] \cup {accepted[e]}

WayInv == MirrorInv /\ \A e \in Ids : UnderWay(e)

LEMMA WayStep == WayInv /\ [MirrorNext]_mirrorVars => WayInv'
<1> SUFFICES ASSUME WayInv, [MirrorNext]_mirrorVars
             PROVE  WayInv'
    OBVIOUS
<1>1. MirrorInv /\ MirrorTypeOK /\ MirrorInv'
    BY MirrorStep DEF WayInv, MirrorInv
<1>2. ASSUME NEW e \in Ids, NEW d \in Ids, NEW to \in Stages, ContractStep(d, to)
      PROVE  UnderWay(e)'
  <2>1. PICK s \in Reports(to) : reports' = [reports EXCEPT ![d] = reports[d] \cup {s}]
      BY <1>2 DEF ContractStep
  <2>2. /\ mirror[d] # "none" /\ life' = [life EXCEPT ![d] = to]
        /\ mirror' = mirror /\ accepted' = accepted
      BY <1>2 DEF ContractStep, Advance, serverVars
  <2>3. LiveStatus(to) \in Settlements => s = LiveStatus(to)
      BY <2>1 DEF Reports, LiveStatus, Settlements, Stages
  <2>4. CASE e = d
      BY <1>1, <2>1, <2>2, <2>3, <2>4 DEF WayInv, UnderWay, MirrorTypeOK
  <2>5. CASE e # d
      BY <1>1, <2>1, <2>2, <2>5 DEF WayInv, UnderWay, MirrorTypeOK
  <2> QED
      BY <2>4, <2>5
<1>3. ASSUME NEW e \in Ids, NEW d \in Ids, NEW s \in Reportable, Duplicate(d, s)
      PROVE  UnderWay(e)'
  <2>1. /\ reports' = [reports EXCEPT ![d] = reports[d] \cup {s}]
        /\ life' = life /\ mirror' = mirror /\ accepted' = accepted
      BY <1>3 DEF Duplicate, serverVars
  <2>2. reports[e] \subseteq reports'[e]
      BY <1>1, <2>1 DEF MirrorTypeOK
  <2> QED
      BY <2>1, <2>2 DEF WayInv, UnderWay
<1>4. ASSUME NEW e \in Ids, NEW d \in Ids, NEW s \in Reportable, UpdateEscrow(d, s)
      PROVE  UnderWay(e)'
  <2>1. CASE StillAsRead(d, s)
    <3>1. s \in reports[d] /\ s \in ESCROW_STATUSES
        BY <1>1, <1>4, <2>1, UpdateAllowed DEF UpdateEscrow
    <3>2. /\ mirror' = [mirror EXCEPT ![d] = s] /\ life' = life
          /\ reports' = [reports EXCEPT ![d] = reports[d] \ {s}]
          /\ accepted' = IF s \in Settlements THEN [accepted EXCEPT ![d] = s] ELSE accepted
        BY <1>4, <2>1 DEF UpdateEscrow, Settlements
    <3>3. CASE e # d
        BY <1>1, <3>2, <3>3 DEF WayInv, UnderWay, MirrorTypeOK
    <3>4. CASE e = d
      <4>1. mirror'[e] = s /\ s # "none" /\ reports'[e] = reports[e] \ {s}
          BY <1>1, <3>1, <3>2, <3>4 DEF MirrorTypeOK, ESCROW_STATUSES
      <4>2. CASE s \in Settlements
        <5>1. accepted'[e] = s /\ s = LiveStatus(life[e])
            BY <1>1, <3>1, <3>2, <3>4, <4>2 DEF MirrorInv, MirrorTypeOK, ReportsTrue
        <5> QED
            BY <3>2, <4>1, <5>1 DEF UnderWay
      <4>3. CASE s \notin Settlements
          BY <3>2, <4>1, <4>3 DEF WayInv, UnderWay
      <4> QED
          BY <4>2, <4>3
    <3> QED
        BY <3>3, <3>4
  <2>2. CASE ~StillAsRead(d, s)
      BY <1>4, <2>2 DEF UpdateEscrow, WayInv, UnderWay
  <2> QED
      BY <2>1, <2>2
<1>5. ASSUME NEW e \in Ids, NEW d \in Ids, createEscrow(d) \/ Expire(d) \/ flagDispute(d)
      PROVE  UnderWay(e)'
  <2>1. /\ life' = life /\ reports' = reports /\ accepted' = accepted
        /\ mirror'[e] = mirror[e] \/ mirror'[e] \in {"PENDING", "DISPUTED"}
      BY <1>1, <1>5 DEF createEscrow, Expire, flagDispute, MirrorTypeOK
  <2> QED
      BY <2>1 DEF WayInv, UnderWay, Settlements
<1>6. ASSUME NEW e \in Ids, timeoutDetector
      PROVE  UnderWay(e)'
  <2>1. /\ life' = life /\ reports' = reports /\ accepted' = accepted
        /\ mirror'[e] = mirror[e] \/ mirror'[e] = "CANCELLED"
      BY <1>1, <1>6 DEF timeoutDetector
  <2> QED
      BY <2>1 DEF WayInv, UnderWay, Settlements
<1>7. ASSUME NEW e \in Ids, NEW d \in Ids, NEW s \in Reportable, ReadEscrow(d, s)
      PROVE  UnderWay(e)'
    BY <1>7 DEF ReadEscrow, WayInv, UnderWay
<1>8. ASSUME NEW e \in Ids, UNCHANGED mirrorVars
      PROVE  UnderWay(e)'
    BY <1>8 DEF mirrorVars, serverVars, WayInv, UnderWay
<1> QED
    BY <1>1, <1>2, <1>3, <1>4, <1>5, <1>6, <1>7, <1>8 DEF MirrorNext, processEscrowEvent, WayInv

\* A settlement made on the chain that the server has not accepted is still being
\* reported, and the row would take it, unless the timeout detector has cancelled the
\* row or, for a refund, the row is in dispute.
SettlementDeliverable ==
    \A e \in Ids :
       LiveStatus(life[e]) \in Settlements /\ accepted[e] # LiveStatus(life[e]) =>
          /\ LiveStatus(life[e]) \in reports[e]
          /\ \/ Accepts(mirror[e], LiveStatus(life[e]))
             \/ mirror[e] = "CANCELLED"
             \/ mirror[e] = "DISPUTED" /\ life[e] = "Refunded"

\* The safety half of SettlementReachesMirror: no late report, duplicate, flagged
\* dispute or handler under way loses a settlement or takes the row where
\* processEscrowEvent would refuse it for good, but for the two cases the property
\* names.
THEOREM SettlementsStayDeliverable == MirrorSpec => []SettlementDeliverable
<1>1. MirrorInit => WayInv
    BY MirrorInitial DEF MirrorInit, LifeInit, WayInv, UnderWay, LiveStatus, Settlements
<1>2. WayInv => SettlementDeliverable
  <2> SUFFICES ASSUME WayInv, NEW e \in Ids, LiveStatus(life[e]) \in Settlements,
                      accepted[e] # LiveStatus(life[e])
               PROVE  /\ LiveStatus(life[e]) \in reports[e]
                      /\ \/ Accepts(mirror[e], LiveStatus(life[e]))
                         \/ mirror[e] = "CANCELLED"
                         \/ mirror[e] = "DISPUTED" /\ life[e] = "Refunded"
      BY DEF SettlementDeliverable
  <2>1. UnderWay(e) /\ SettlementSound(e) /\ MirrorTypeOK
      BY DEF WayInv, MirrorInv
  <2>2. LiveStatus(life[e]) \in reports[e]
      BY <2>1 DEF UnderWay
  <2>3. mirror[e] \notin Settlements
      BY <2>1 DEF UnderWay, SettlementSound, Settlements, Idle
  <2>4. life[e] \in Settled
      BY <2>1 DEF LiveStatus, Settlements, Settled, MirrorTypeOK, Stages
  <2>5. mirror[e] \in {"PENDING", "FUNDED", "DISPUTED", "CANCELLED"}
      BY <2>1, <2>3, <2>4 DEF UnderWay, MirrorTypeOK, ESCROW_STATUSES, Settlements, Settled
  <2> QED
      BY <2>2, <2>4, <2>5 DEF Accepts, Allowed, ESCROW_STATUSES, LiveStatus, Settled
<1> QED
    BY <1>1, <1>2, WayStep, PTL DEF MirrorSpec

----------------------------------------------------------------------------
(* The sockets of the pages.  The invariant adds the handlers, which only the *)
(* current socket of a page has, and the failures a risk page may still have. *)

Down == {"closing", "closed"}

\* The sockets of a page are down and without handlers, except the one it knows.
SocketsKnown(p) ==
    \A s \in Sockets : s[1] = p =>
      /\ wire[s] \notin Down <=> s = effect[p].ws
      /\ s \in handlers <=> s = effect[p].ws

\* What the page's effect and its React state say together.
PageSound(p) ==
    /\ effect[p].ws # NoSocket => effect[p].ws[1] = p /\ effect[p].running /\ ~effect[p].timer
    /\ effect[p].timer => effect[p].running
    /\ connected[p] => effect[p].ws # NoSocket /\ wire[effect[p].ws] = "open"
    /\ effect[p].running /\ effect[p].ws = NoSocket /\ ~effect[p].timer => connectionFailed[p]
    /\ p \in RiskPages /\ (effect[p].timer \/ effect[p].ws # NoSocket) =>
         effect[p].failures < MAX_FAILURES

SocketInv ==
    /\ SocketTypeOK
    /\ \A p \in Pages : SocketsKnown(p) /\ PageSound(p)

LEMMA SocketFacts ==
    /\ NoSocket \notin Sockets
    /\ \A s \in Sockets : s[1] \in Pages
<1>1. \A s \in Sockets : s[1] \in Pages /\ s[2] \in 1 .. MaxSockets
    BY DEF Sockets
<1>2. NoSocket[2] = 0
    BY DEF NoSocket
<1>3. 0 \notin 1 .. MaxSockets
    BY SocketAssumption
<1> QED
    BY <1>1, <1>2, <1>3

\* A step for one page leaves the others' part of the invariant alone.
LEMMA OnePageStep ==
    ASSUME SocketInv, NEW p \in Pages, SocketTypeOK',
           \A q \in Pages \ {p} : /\ effect'[q] = effect[q]
                                  /\ connected'[q] = connected[q]
                                  /\ connectionFailed'[q] = connectionFailed[q],
           \A s \in Sockets : s[1] # p => wire'[s] = wire[s] /\ (s \in handlers' <=> s \in handlers),
           (SocketsKnown(p) /\ PageSound(p))'
    PROVE  SocketInv'
<1>1. ASSUME NEW q \in Pages, q # p
      PROVE  (SocketsKnown(q) /\ PageSound(q))'
  <2>1. SocketTypeOK /\ SocketsKnown(q) /\ PageSound(q)
      BY DEF SocketInv
  <2>2. SocketsKnown(q)'
      BY <1>1, <2>1 DEF SocketsKnown
  <2>3. effect[q].ws # NoSocket => effect[q].ws \in Sockets /\ effect[q].ws[1] # p
      BY <1>1, <2>1 DEF SocketTypeOK, PageSound
  <2> QED
      BY <1>1, <2>1, <2>2, <2>3 DEF PageSound
<1> QED
    BY <1>1 DEF SocketInv

Runs == [running : BOOLEAN, ws : Sockets \cup {NoSocket},
         timer : BOOLEAN, failures : 0 .. MAX_FAILURES]

\* The step that connect() makes with s, on a page whose other sockets are down.
NewSocket(p, s) ==
    /\ s[1] = p /\ s \in handlers' /\ wire'[s] = "connecting" /\ handlers' \subseteq Sockets
    /\ wire' \in [Sockets -> {"closed", "connecting", "accepted", "open", "closing"}]
    /\ \A q \in Sockets \ {s} :
         IF q[1] = p THEN wire'[q] \in Down /\ q \notin handlers'
         ELSE wire'[q] = wire[q] /\ (q \in handlers' <=> q \in handlers)
    /\ effect' \in [Pages -> Runs] /\ \A q \in Pages \ {p} : effect'[q] = effect[q]
    /\ effect'[p].ws = s /\ effect'[p].running /\ ~effect'[p].timer
    /\ p \in RiskPages => effect'[p].failures < MAX_FAILURES
    /\ connected' = [connected EXCEPT ![p] = FALSE]
    /\ UNCHANGED <<connectionFailed, wsVars>>

LEMMA ConnectedKeeps ==
    ASSUME SocketInv, NEW p \in Pages, NEW s \in Sockets, NewSocket(p, s)
    PROVE  SocketInv'
<1>1. SocketTypeOK
    BY DEF SocketInv
<1>2. SocketTypeOK'
    BY <1>1 DEF NewSocket, SocketTypeOK, wsVars, Runs
<1>3. SocketsKnown(p)'
    BY DEF NewSocket, SocketsKnown, Down
<1>4. PageSound(p)'
    BY <1>1, SocketFacts DEF NewSocket, PageSound, SocketTypeOK
<1>5. \A q \in Pages \ {p} : /\ effect'[q] = effect[q] /\ connected'[q] = connected[q]
                              /\ connectionFailed'[q] = connectionFailed[q]
    BY <1>1 DEF NewSocket, SocketTypeOK
<1>6. \A q \in Sockets : q[1] # p => wire'[q] = wire[q] /\ (q \in handlers' <=> q \in handlers)
    BY DEF NewSocket
<1> QED
    BY <1>2, <1>3, <1>4, <1>5, <1>6, OnePageStep

\* The clean-up of an effect leaves the page without a socket.
LEMMA CleanedUp ==
    ASSUME SocketInv, NEW p \in Pages
    PROVE  /\ Closed(p) \in [Sockets -> {"closed", "connecting", "accepted", "open", "closing"}]
           /\ Detached(p) \subseteq Sockets
           /\ \A s \in Sockets : IF s[1] = p THEN Closed(p)[s] \in Down /\ s \notin Detached(p)
                                 ELSE Closed(p)[s] = wire[s] /\ (s \in Detached(p) <=> s \in handlers)
<1>1. SocketTypeOK /\ SocketsKnown(p) /\ PageSound(p)
    BY DEF SocketInv
<1>2. CASE effect[p].ws = NoSocket
    BY <1>1, <1>2, SocketFacts DEF Closed, Detached, SocketTypeOK, SocketsKnown
<1>3. CASE effect[p].ws # NoSocket
    BY <1>1, <1>3, SocketFacts DEF Closed, Detached, SocketTypeOK, SocketsKnown, PageSound, Down
<1> QED
    BY <1>2, <1>3

LEMMA RunEffectKeeps ==
    ASSUME SocketInv, NEW p \in Pages, RunEffect(p)
    PROVE  SocketInv'
<1> DEFINE run == [Stopped EXCEPT !.running = TRUE]
<1>1. Stopped \in Runs /\ Stopped.failures = 0
    BY SocketAssumption DEF Stopped, Runs
<1>2. PICK s \in Free(p) : /\ wire' = [Closed(p) EXCEPT ![s] = "connecting"]
                           /\ handlers' = Detached(p) \cup {s}
                           /\ effect' = [effect EXCEPT ![p] = [run EXCEPT !.ws = s, !.timer = FALSE]]
    BY DEF RunEffect, Connects
<1>3. s \in Sockets /\ s[1] = p /\ effect \in [Pages -> Runs]
    BY DEF Free, SocketInv, SocketTypeOK, Runs
<1>4. /\ effect' \in [Pages -> Runs] /\ \A q \in Pages \ {p} : effect'[q] = effect[q]
      /\ effect'[p].ws = s /\ effect'[p].running /\ ~effect'[p].timer
      /\ effect'[p].failures = 0
    BY <1>1, <1>2, <1>3 DEF Runs
<1>5. connected' = [connected EXCEPT ![p] = FALSE] /\ UNCHANGED <<connectionFailed, wsVars>>
    BY DEF RunEffect
<1>6. /\ wire' \in [Sockets -> {"closed", "connecting", "accepted", "open", "closing"}]
      /\ handlers' \subseteq Sockets /\ s \in handlers' /\ wire'[s] = "connecting"
      /\ \A q \in Sockets \ {s} :
           IF q[1] = p THEN wire'[q] \in Down /\ q \notin handlers'
           ELSE wire'[q] = wire[q] /\ (q \in handlers' <=> q \in handlers)
    BY <1>2, <1>3, CleanedUp
<1>7. p \in RiskPages => effect'[p].failures < MAX_FAILURES
    BY <1>4, SocketAssumption
<1>8. NewSocket(p, s)
    BY <1>3, <1>4, <1>5, <1>6, <1>7 DEF NewSocket
<1> QED
    BY <1>3, <1>8, ConnectedKeeps

LEMMA ReconnectKeeps ==
    ASSUME SocketInv, NEW p \in Pages, Reconnect(p)
    PROVE  SocketInv'
<1>1. SocketTypeOK /\ SocketsKnown(p) /\ PageSound(p)
    BY DEF SocketInv
<1>2. effect[p].timer /\ UNCHANGED <<connected, connectionFailed, wsVars>>
    BY DEF Reconnect
<1>3. PICK s \in Free(p) :
        /\ wire' = [wire EXCEPT ![s] = "connecting"]
        /\ handlers' = handlers \cup {s}
        /\ effect' = [effect EXCEPT ![p] = [effect[p] EXCEPT !.ws = s, !.timer = FALSE]]
    BY DEF Reconnect, Connects
<1>4. s \in Sockets /\ s[1] = p /\ effect \in [Pages -> Runs]
    BY <1>1 DEF Free, SocketTypeOK, Runs
<1>5. /\ effect[p].running /\ effect[p].ws = NoSocket /\ ~connected[p]
      /\ p \in RiskPages => effect[p].failures < MAX_FAILURES
    BY <1>1, <1>2 DEF PageSound
<1>6. /\ effect' \in [Pages -> Runs] /\ \A q \in Pages \ {p} : effect'[q] = effect[q]
      /\ effect'[p].ws = s /\ effect'[p].running /\ ~effect'[p].timer
      /\ effect'[p].failures = effect[p].failures
    BY <1>3, <1>4, <1>5 DEF Runs
<1>7. connected' = [connected EXCEPT ![p] = FALSE]
    BY <1>1, <1>2, <1>5 DEF SocketTypeOK
<1>8. \A q \in Sockets : q[1] = p => wire[q] \in Down /\ q \notin handlers
    BY <1>1, <1>5, SocketFacts DEF SocketsKnown
<1>9. /\ wire' \in [Sockets -> {"closed", "connecting", "accepted", "open", "closing"}]
      /\ handlers' \subseteq Sockets /\ s \in handlers' /\ wire'[s] = "connecting"
      /\ \A q \in Sockets \ {s} :
           IF q[1] = p THEN wire'[q] \in Down /\ q \notin handlers'
           ELSE wire'[q] = wire[q] /\ (q \in handlers' <=> q \in handlers)
    BY <1>1, <1>3, <1>4, <1>8 DEF SocketTypeOK
<1>10. NewSocket(p, s)
    BY <1>2, <1>4, <1>5, <1>6, <1>7, <1>9 DEF NewSocket
<1> QED
    BY <1>4, <1>10, ConnectedKeeps

LEMMA CleanUpKeeps ==
    ASSUME SocketInv, NEW p \in Pages, NEW unmounted \in BOOLEAN, CleanUp(p, unmounted)
    PROVE  SocketInv'
<1>1. SocketTypeOK
    BY DEF SocketInv
<1>2. /\ effect' = [effect EXCEPT ![p] = Stopped] /\ wire' = Closed(p) /\ handlers' = Detached(p)
      /\ connected' = [connected EXCEPT ![p] = FALSE]
      /\ connectionFailed' \in {connectionFailed, [connectionFailed EXCEPT ![p] = FALSE]}
      /\ UNCHANGED wsVars
    BY DEF CleanUp
<1>3. effect'[p] = Stopped /\ connected'[p] = FALSE
    BY <1>1, <1>2 DEF SocketTypeOK
<1>4. SocketTypeOK'
  <2>1. Stopped \in [running : BOOLEAN, ws : Sockets \cup {NoSocket},
                     timer : BOOLEAN, failures : 0 .. MAX_FAILURES]
      BY SocketAssumption DEF Stopped
  <2> QED
      BY <1>1, <1>2, <2>1, CleanedUp DEF SocketTypeOK, wsVars
<1>5. SocketsKnown(p)'
    BY <1>2, <1>3, CleanedUp, SocketFacts DEF SocketsKnown, Stopped
<1>6. PageSound(p)'
    BY <1>3 DEF PageSound, Stopped
<1> QED
    BY <1>1, <1>2, <1>4, <1>5, <1>6, CleanedUp, OnePageStep DEF SocketTypeOK

LEMMA RefreshKeeps ==
    ASSUME SocketInv, NEW p \in Pages, Refresh(p)
    PROVE  SocketInv'
<1>1. SocketTypeOK /\ SocketsKnown(p) /\ PageSound(p)
    BY DEF SocketInv
<1>2. /\ p \notin RiskPages /\ effect' = [effect EXCEPT ![p].failures = 0]
      /\ UNCHANGED <<connected, connectionFailed, wire, handlers, wsVars>>
    BY DEF Refresh
<1>3. /\ effect'[p].running = effect[p].running /\ effect'[p].ws = effect[p].ws
      /\ effect'[p].timer = effect[p].timer
    BY <1>1, <1>2 DEF SocketTypeOK
<1>4. SocketTypeOK'
    BY <1>1, <1>2, SocketAssumption DEF SocketTypeOK, wsVars
<1>5. SocketsKnown(p)' /\ PageSound(p)'
    BY <1>1, <1>2, <1>3 DEF SocketsKnown, PageSound
<1> QED
    BY <1>1, <1>2, <1>4, <1>5, OnePageStep DEF SocketTypeOK

LEMMA OpenKeeps ==
    ASSUME SocketInv, NEW s \in Sockets, onopen(s)
    PROVE  SocketInv'
<1> DEFINE p == s[1]
<1>1. p \in Pages
    BY SocketFacts
<1>2. SocketTypeOK /\ SocketsKnown(p) /\ PageSound(p)
    BY <1>1 DEF SocketInv
<1>3. /\ wire[s] = "accepted" /\ s \in handlers
      /\ wire' = [wire EXCEPT ![s] = "open"]
      /\ effect' = [effect EXCEPT ![p].failures = 0]
      /\ connected' = [connected EXCEPT ![p] = TRUE]
      /\ connectionFailed' = [connectionFailed EXCEPT ![p] = FALSE]
      /\ UNCHANGED <<handlers, wsVars>>
    BY DEF onopen
<1>4. effect[p].ws = s /\ effect[p].running /\ ~effect[p].timer
    BY <1>2, <1>3, SocketFacts DEF SocketsKnown, PageSound
<1>5. /\ effect'[p].running /\ effect'[p].ws = s
      /\ ~effect'[p].timer /\ effect'[p].failures = 0
    BY <1>1, <1>2, <1>3, <1>4 DEF SocketTypeOK
<1>6. SocketTypeOK'
    BY <1>1, <1>2, <1>3, SocketAssumption DEF SocketTypeOK, wsVars
<1>7. SocketsKnown(p)'
    BY <1>2, <1>3, <1>4, <1>5 DEF SocketsKnown, Down, SocketTypeOK
<1>8. PageSound(p)'
    BY <1>2, <1>3, <1>5, SocketFacts, SocketAssumption DEF PageSound, SocketTypeOK
<1> QED
    BY <1>1, <1>2, <1>3, <1>6, <1>7, <1>8, OnePageStep DEF SocketTypeOK

LEMMA CloseKeeps ==
    ASSUME SocketInv, NEW s \in Sockets, onclose(s)
    PROVE  SocketInv'
<1> DEFINE p == s[1]
           n == Failures(p)
<1>1. p \in Pages
    BY SocketFacts
<1>2. SocketTypeOK /\ SocketsKnown(p) /\ PageSound(p)
    BY <1>1 DEF SocketInv
<1>3. /\ wire[s] # "closed" /\ wire' = [wire EXCEPT ![s] = "closed"]
      /\ handlers' = handlers \ {s} /\ UNCHANGED wsVars
    BY DEF onclose
<1>4. CASE s \notin handlers
  <2>1. UNCHANGED <<effect, connected, connectionFailed>>
      BY <1>4 DEF onclose
  <2>2. effect[p].ws # s
      BY <1>2, <1>4 DEF SocketsKnown
  <2>3. SocketTypeOK'
      BY <1>2, <1>3, <2>1 DEF SocketTypeOK, wsVars
  <2>4. SocketsKnown(p)' /\ PageSound(p)'
      BY <1>2, <1>3, <2>1, <2>2 DEF SocketsKnown, PageSound, Down, SocketTypeOK
  <2> QED
      BY <1>1, <1>2, <1>3, <2>1, <2>3, <2>4, OnePageStep DEF SocketTypeOK
<1>5. CASE s \in handlers
  <2> DEFINE left == IF p \notin RiskPages /\ n > MAX_FAILURES THEN effect[p].failures ELSE n
             down == [effect[p] EXCEPT !.ws = NoSocket, !.timer = ~GivesUp(p, n), !.failures = left]
  <2>1. /\ connected' = [connected EXCEPT ![p] = FALSE]
        /\ connectionFailed' = [connectionFailed EXCEPT ![p] = @ \/ GivesUp(p, n)]
        /\ effect' = [effect EXCEPT ![p].ws = NoSocket, ![p].timer = ~GivesUp(p, n),
                         ![p].failures = IF p \notin RiskPages /\ n > MAX_FAILURES THEN @ ELSE n]
      BY <1>5 DEF onclose, Dropped
  <2>2. effect[p].ws = s /\ effect[p].running
      BY <1>2, <1>5, SocketFacts DEF SocketsKnown, PageSound
  <2>3. effect[p].failures \in 0 .. MAX_FAILURES /\ n = effect[p].failures + 1
      BY <1>1, <1>2 DEF SocketTypeOK, Failures
  <2>4. p \in RiskPages => effect[p].failures < MAX_FAILURES
      BY <1>2, <2>2, SocketFacts DEF PageSound
  <2>5. /\ left \in 0 .. MAX_FAILURES
        /\ ~GivesUp(p, n) /\ p \in RiskPages => left < MAX_FAILURES
      BY <2>3, <2>4, SocketAssumption DEF GivesUp
  <2>6. GivesUp(p, n) \in BOOLEAN
      BY DEF GivesUp
  <2>7. effect' = [effect EXCEPT ![p] = down]
      BY <1>1, <1>2, <2>1 DEF SocketTypeOK
  <2> HIDE DEF n, left
  <2>8. down \in [running : BOOLEAN, ws : Sockets \cup {NoSocket},
                  timer : BOOLEAN, failures : 0 .. MAX_FAILURES]
      BY <1>1, <1>2, <2>5, <2>6 DEF SocketTypeOK
  <2>9. /\ effect'[p].running /\ effect'[p].ws = NoSocket
        /\ effect'[p].timer = ~GivesUp(p, n) /\ effect'[p].failures = left
      BY <1>1, <1>2, <2>2, <2>7 DEF SocketTypeOK
  <2>10. SocketTypeOK'
      BY <1>1, <1>2, <1>3, <2>1, <2>6, <2>7, <2>8 DEF SocketTypeOK, wsVars
  <2>11. SocketsKnown(p)'
      BY <1>2, <1>3, <2>2, <2>9, SocketFacts DEF SocketsKnown, Down, SocketTypeOK
  <2>12. connected'[p] = FALSE /\ (GivesUp(p, n) => connectionFailed'[p])
      BY <1>1, <1>2, <2>1 DEF SocketTypeOK
  <2>13. PageSound(p)'
      BY <2>5, <2>6, <2>9, <2>12 DEF PageSound
  <2> HIDE DEF down
  <2>14. \A q \in Pages \ {p} : /\ effect'[q] = effect[q] /\ connected'[q] = connected[q]
                                /\ connectionFailed'[q] = connectionFailed[q]
      BY <1>2, <2>1, <2>7 DEF SocketTypeOK
  <2> QED
      BY <1>1, <1>2, <1>3, <2>10, <2>11, <2>13, <2>14, OnePageStep DEF SocketTypeOK
<1> QED
    BY <1>4, <1>5

LEMMA AcceptKeeps ==
    ASSUME SocketInv, NEW s \in Sockets, addConnection(s)
    PROVE  SocketInv'
<1> DEFINE p == s[1]
<1>1. p \in Pages
    BY SocketFacts
<1>2. SocketTypeOK /\ SocketsKnown(p) /\ PageSound(p)
    BY <1>1 DEF SocketInv
<1>3. /\ wire[s] = "connecting" /\ wire' = [wire EXCEPT ![s] = "accepted"]
      /\ connections' = connections \cup {s} /\ isAlive' = isAlive \cup {s}
      /\ UNCHANGED <<effect, connected, connectionFailed, handlers>>
    BY DEF addConnection
<1>4. SocketTypeOK'
    BY <1>2, <1>3 DEF SocketTypeOK
<1>5. SocketsKnown(p)'
    BY <1>2, <1>3 DEF SocketsKnown, Down, SocketTypeOK
<1>6. PageSound(p)'
    BY <1>2, <1>3 DEF PageSound, SocketTypeOK
<1> QED
    BY <1>1, <1>2, <1>3, <1>4, <1>5, <1>6, OnePageStep DEF SocketTypeOK

\* Steps of the server that the pages do not see.
LEMMA ServerKeeps ==
    ASSUME SocketInv, UNCHANGED <<effect, connected, connectionFailed, wire, handlers>>,
           connections' \subseteq connections, isAlive' \subseteq connections'
    PROVE  SocketInv'
    BY DEF SocketInv, SocketTypeOK, SocketsKnown, PageSound

LEMMA SocketStep == SocketInv /\ [SocketNext]_socketVars => SocketInv'
<1> SUFFICES ASSUME SocketInv, [SocketNext]_socketVars
             PROVE  SocketInv'
    OBVIOUS
<1>1. isAlive \subseteq connections
    BY DEF SocketInv, SocketTypeOK
<1>2. CASE UNCHANGED socketVars
    BY <1>1, <1>2, ServerKeeps DEF socketVars
<1>3. ASSUME NEW s \in Sockets, Pong(s) \/ ServerClose(s)
      PROVE  SocketInv'
    BY <1>1, <1>3, ServerKeeps DEF Pong, ServerClose
<1>4. CASE PingInterval \/ cleanup
    BY <1>1, <1>4, ServerKeeps DEF PingInterval, cleanup, Answered
<1> QED
    BY <1>2, <1>3, <1>4, RunEffectKeeps, CleanUpKeeps, ReconnectKeeps, RefreshKeeps, OpenKeeps,
       CloseKeeps, AcceptKeeps DEF SocketNext

LEMMA SocketInitial == SocketInit => SocketInv
<1> SUFFICES ASSUME SocketInit PROVE SocketInv
    OBVIOUS
<1>1. SocketTypeOK
    BY SocketAssumption DEF SocketInit, SocketTypeOK, Stopped
<1>2. \A p \in Pages : SocketsKnown(p) /\ PageSound(p)
    BY SocketFacts DEF SocketInit, SocketsKnown, PageSound, Stopped, Down
<1> QED
    BY <1>1, <1>2 DEF SocketInv

\* Whatever closes, reconnects and changes of wallet do to the sockets of a page,
\* the page and its one socket agree, and a page without one says so.
THEOREM PagesMatchSockets == SocketSpec => [](SocketTypeOK /\ PageMatchesSocket)
<1>1. SocketInv => PageMatchesSocket
  <2> SUFFICES ASSUME SocketInv PROVE PageMatchesSocket
      OBVIOUS
  <2>1. ASSUME NEW s \in Sockets, wire[s] \notin Down
        PROVE  effect[s[1]].running /\ effect[s[1]].ws = s /\ ~effect[s[1]].timer
      BY <2>1, SocketFacts DEF SocketInv, SocketsKnown, PageSound
  <2>2. ASSUME NEW p \in Pages
        PROVE  /\ effect[p].ws # NoSocket => wire[effect[p].ws] \notin Down
               /\ connected[p] => effect[p].ws # NoSocket /\ wire[effect[p].ws] = "open"
               /\ effect[p].running /\ effect[p].ws = NoSocket /\ ~effect[p].timer => connectionFailed[p]
      BY DEF SocketInv, SocketTypeOK, SocketsKnown, PageSound
  <2> QED
      BY <2>1, <2>2 DEF PageMatchesSocket, Down
<1> QED
    BY <1>1, SocketInitial, SocketStep, PTL DEF SocketSpec, SocketInv

----------------------------------------------------------------------------
(* Logins and wallets.  A request is a list of queries, between which others  *)
(* run.  The invariant counts, for each challenge and session, what was made  *)
(* of it together with the requests that have found it unspent and go on, and *)
(* says of a wallet transaction under way that the rows it has yet to write   *)
(* are as it read them.                                                       *)

LEMMA ReplaceAtFacts ==
    ASSUME NEW S, NEW s \in Seq(S), NEW i \in DOMAIN s, NEW x \in S,
           NEW t, t = [s EXCEPT ![i] = x]
    PROVE  /\ t \in Seq(S) /\ Len(t) = Len(s)
           /\ \A j \in DOMAIN s : t[j] = IF j = i THEN x ELSE s[j]
    OBVIOUS

LEMMA RemoveAtFacts ==
    ASSUME NEW S, NEW s \in Seq(S), NEW i \in DOMAIN s
    PROVE  /\ RemoveAt(s, i) \in Seq(S)
           /\ Len(RemoveAt(s, i)) = Len(s) - 1
           /\ \A j \in 1 .. (Len(s) - 1) : RemoveAt(s, i)[j] = IF j < i THEN s[j] ELSE s[j + 1]
<1> DEFINE p == SubSeq(s, 1, i - 1)
           q == SubSeq(s, i + 1, Len(s))
<1>1. i \in 1 .. Len(s) /\ Len(s) \in Nat
    OBVIOUS
<1>2. p \in Seq(S) /\ Len(p) = i - 1 /\ \A j \in 1 .. (i - 1) : p[j] = s[j]
    BY <1>1
<1>3. q \in Seq(S) /\ Len(q) = Len(s) - i /\ \A j \in 1 .. (Len(s) - i) : q[j] = s[j + i]
    BY <1>1
<1>4. RemoveAt(s, i) = p \o q
    BY DEF RemoveAt
<1> HIDE DEF p, q
<1>5. /\ p \o q \in Seq(S) /\ Len(p \o q) = Len(s) - 1
      /\ \A j \in 1 .. (Len(s) - 1) : (p \o q)[j] = IF j < i THEN p[j] ELSE q[j - (i - 1)]
  <2>1. Len(p) + Len(q) = Len(s) - 1 /\ Len(p) = i - 1
      BY <1>1, <1>2, <1>3
  <2>2. /\ p \o q \in Seq(S) /\ Len(p \o q) = Len(p) + Len(q)
        /\ \A j \in 1 .. (Len(p) + Len(q)) :
             (p \o q)[j] = IF j <= Len(p) THEN p[j] ELSE q[j - Len(p)]
      BY <1>2, <1>3
  <2>3. \A j \in 1 .. (Len(s) - 1) : j <= i - 1 <=> j < i
      BY <1>1
  <2> QED
      BY <2>1, <2>2, <2>3
<1>6. \A j \in 1 .. (Len(s) - 1) : j >= i => q[j - (i - 1)] = s[j + 1]
    BY <1>1, <1>3
<1> QED
    BY <1>1, <1>2, <1>4, <1>5, <1>6

LEMMA WithoutFacts ==
    ASSUME NEW S, NEW s \in Seq(S), NEW x \in Range(s), IsInjective(s)
    PROVE  /\ Without(s, x) \in Seq(S)
           /\ IsInjective(Without(s, x))
           /\ Range(Without(s, x)) = Range(s) \ {x}
           /\ Len(s) > 1 => Without(s, x)[1] \in Range(s) \ {x}
<1>1. PICK i \in DOMAIN s : i = CHOOSE j \in DOMAIN s : s[j] = x
    BY DEF Range
<1>2. s[i] = x /\ DOMAIN s = 1 .. Len(s) /\ Len(s) \in Nat
    BY <1>1 DEF Range
<1>3. PICK t : t = Without(s, x)
    OBVIOUS
<1>4. /\ t \in Seq(S) /\ Len(t) = Len(s) - 1
      /\ \A j \in 1 .. (Len(s) - 1) : t[j] = IF j < i THEN s[j] ELSE s[j + 1]
    BY <1>1, <1>3, RemoveAtFacts DEF Without
<1>5. DOMAIN t = 1 .. (Len(s) - 1)
    BY <1>4
<1>6. \A j \in DOMAIN s : s[j] = x => j = i
    BY <1>2 DEF IsInjective
<1> DEFINE from(j) == IF j < i THEN j ELSE j + 1
<1>7. \A j \in DOMAIN t : from(j) \in DOMAIN s /\ from(j) # i /\ t[j] = s[from(j)]
    BY <1>2, <1>4, <1>5
<1>8. \A j, k \in DOMAIN t : from(j) = from(k) => j = k
    BY <1>2, <1>5
<1> HIDE DEF from
<1>9. IsInjective(t)
    BY <1>7, <1>8 DEF IsInjective
<1>10. \A j \in DOMAIN t : t[j] \in Range(s) \ {x}
  <2> SUFFICES ASSUME NEW j \in DOMAIN t PROVE t[j] \in Range(s) /\ t[j] # x
      OBVIOUS
  <2>1. PICK k \in DOMAIN s : k # i /\ t[j] = s[k]
      BY <1>7
  <2> QED
      BY <1>6, <2>1 DEF Range
<1>11. ASSUME NEW y \in Range(s) \ {x} PROVE y \in Range(t)
  <2>1. PICK k \in DOMAIN s : s[k] = y
      BY DEF Range
  <2>2. k # i
      BY <1>2, <2>1
  <2>3. CASE k < i
    <3>1. k \in DOMAIN t /\ t[k] = y
        BY <1>2, <1>4, <1>5, <2>1, <2>3
    <3> QED
        BY <3>1 DEF Range
  <2>4. CASE k > i
    <3>1. k - 1 \in DOMAIN t /\ t[k - 1] = y
        BY <1>2, <1>4, <1>5, <2>1, <2>4
    <3> QED
        BY <3>1 DEF Range
  <2> QED
      BY <1>2, <2>2, <2>3, <2>4
<1>12. Range(t) = Range(s) \ {x}
    BY <1>10, <1>11 DEF Range
<1>13. Len(s) > 1 => 1 \in DOMAIN t
    BY <1>2, <1>5
<1> QED
    BY <1>3, <1>4, <1>9, <1>10, <1>12, <1>13

ChallengeRow == [user : Addresses, address : Addresses, purpose : {LOGIN, LINK_WALLET},
                 consumed : BOOLEAN, expired : BOOLEAN]
SessionRow == [user : Addresses, revoked : BOOLEAN, from : {"challenge", "session"}, origin : Nat]
RequestRow == [op : {"idle", "verify", "verified", "refresh", "link", "unlink", "primary"},
               user : Addresses \cup {Nobody}, address : Addresses \cup {Nobody}, row : Nat,
               seen : Seq(Addresses), isPrimary : BOOLEAN]

AuthRows ==
    /\ users \subseteq Addresses
    /\ wallets \in [Addresses -> Seq(Addresses)]
    /\ primary \subseteq Addresses
    /\ challenge \in Seq(ChallengeRow)
    /\ authSession \in Seq(SessionRow)
    /\ request \in [Requests -> RequestRow]

Kinds == {"challenge", "session"}

\* The rows that can be spent, whether one has been, what was made of it and the
\* requests that have found it unspent and are still under way.
Tokens(kind) == IF kind = "session" THEN DOMAIN authSession ELSE DOMAIN challenge
Spent(kind, i) == IF kind = "session" THEN authSession[i].revoked ELSE challenge[i].consumed
Born(kind, i) == {j \in DOMAIN authSession : authSession[j].from = kind /\ authSession[j].origin = i}
Spending(kind, q) == q.op \in IF kind = "session" THEN {"refresh"} ELSE {"verify", "verified"}
Using(kind, i) == {r \in Requests : Spending(kind, request[r]) /\ request[r].row = i}

TokenSound(kind, i) ==
    /\ Born(kind, i) # {} => Spent(kind, i)
    /\ Cardinality(Born(kind, i)) + Cardinality(Using(kind, i)) <= Cardinality(Requests)

\* Requests and sessions refer to rows that exist.
OriginKnown(j) == authSession[j].origin \in Tokens(authSession[j].from)
RowKnown(r) ==
    /\ \A kind \in Kinds : Spending(kind, request[r]) => request[r].row \in Tokens(kind)
    /\ request[r].op = "verified" => challenge[request[r].row].consumed

TokenInv ==
    /\ AuthRows
    /\ \A j \in DOMAIN authSession : OriginKnown(j)
    /\ \A r \in Requests : RowKnown(r)
    /\ \A kind \in Kinds : \A i \in Tokens(kind) : TokenSound(kind, i)

LEMMA FiniteSessions ==
    ASSUME AuthRows, NEW kind, NEW i
    PROVE  IsFiniteSet(Born(kind, i)) /\ IsFiniteSet(Using(kind, i))
<1>1. IsFiniteSet(DOMAIN authSession)
    BY FS_Interval DEF AuthRows
<1>2. Born(kind, i) \in SUBSET DOMAIN authSession /\ Using(kind, i) \in SUBSET Requests
    BY DEF Born, Using
<1> QED
    BY <1>1, <1>2, AuthAssumption, FS_Subset

\* Nothing is born of a row that does not exist yet, and nobody spends it.
LEMMA Unborn ==
    ASSUME TokenInv, NEW kind \in Kinds, NEW i, i \notin Tokens(kind)
    PROVE  Born(kind, i) = {} /\ Using(kind, i) = {}
<1>1. \A j \in DOMAIN authSession : authSession[j].origin \in Tokens(authSession[j].from)
    BY DEF TokenInv, OriginKnown
<1>2. \A r \in Requests : Spending(kind, request[r]) => request[r].row \in Tokens(kind)
    BY DEF TokenInv, RowKnown
<1> QED
    BY <1>1, <1>2 DEF Born, Using

LEMMA IdleRow == NoRequest \in RequestRow
<1>1. <<>> \in Seq(Addresses)
    OBVIOUS
<1> QED
    BY <1>1 DEF NoRequest, RequestRow, NoRow

\* Steps that neither begin nor end a request that spends a row.
LEMMA QuietKeeps ==
    ASSUME TokenInv, AuthRows',
           Len(authSession') = Len(authSession), Len(challenge) <= Len(challenge'),
           \A j \in DOMAIN authSession :
             /\ authSession'[j].from = authSession[j].from
             /\ authSession'[j].origin = authSession[j].origin
             /\ authSession[j].revoked => authSession'[j].revoked,
           \A c \in DOMAIN challenge : challenge[c].consumed => challenge'[c].consumed,
           \A r \in Requests, kind \in Kinds :
             /\ Spending(kind, request'[r]) <=> Spending(kind, request[r])
             /\ Spending(kind, request[r]) => request'[r].row = request[r].row,
           \A r \in Requests :
             request'[r].op = "verified" => challenge'[request'[r].row].consumed
    PROVE  TokenInv'
<1>1. AuthRows
    BY DEF TokenInv
<1>2. /\ DOMAIN authSession' = DOMAIN authSession
      /\ DOMAIN challenge \subseteq DOMAIN challenge'
    BY <1>1 DEF AuthRows
<1>3. \A kind : Tokens(kind) \subseteq Tokens(kind)'
    BY <1>2 DEF Tokens
<1>4. \A j \in DOMAIN authSession' : OriginKnown(j)'
    BY <1>2, <1>3 DEF TokenInv, OriginKnown, Tokens
<1>5. \A r \in Requests : RowKnown(r)'
    BY <1>3 DEF TokenInv, RowKnown, Tokens, Spending, Kinds
<1>6. ASSUME NEW kind \in Kinds, NEW i
      PROVE  Born(kind, i)' = Born(kind, i) /\ Using(kind, i)' = Using(kind, i)
    BY <1>2 DEF Born, Using, Spending
<1>7. ASSUME NEW kind \in Kinds, NEW i \in Tokens(kind) PROVE TokenSound(kind, i)'
  <2>1. TokenSound(kind, i) /\ (Spent(kind, i) => Spent(kind, i)')
      BY DEF TokenInv, Tokens, Spent
  <2> QED
      BY <1>6, <2>1 DEF TokenSound
<1>8. ASSUME NEW kind \in Kinds, NEW i \in Tokens(kind)', i \notin Tokens(kind)
      PROVE  TokenSound(kind, i)'
  <2>1. Born(kind, i)' = {} /\ Using(kind, i)' = {}
      BY <1>6, <1>8, Unborn
  <2>2. Cardinality(Requests) \in Nat
      BY AuthAssumption, FS_CardinalityType
  <2> QED
      BY <2>1, <2>2, FS_EmptySet DEF TokenSound
<1> QED
    BY <1>4, <1>5, <1>7, <1>8 DEF TokenInv

\* A request finds a row unspent.
LEMMA FindKeeps ==
    ASSUME TokenInv, NEW r \in Requests, NEW kind \in Kinds, NEW i \in Tokens(kind),
           ~Spent(kind, i), request[r] = NoRequest,
           NEW op \in {"verify", "refresh"}, Spending(kind, [NoRequest EXCEPT !.op = op]),
           request' = [request EXCEPT ![r] = [NoRequest EXCEPT !.op = op, !.row = i]],
           UNCHANGED <<users, wallets, primary, challenge, authSession>>
    PROVE  TokenInv'
<1> DEFINE new == [NoRequest EXCEPT !.op = op, !.row = i]
<1>1. AuthRows
    BY DEF TokenInv
<1>2. i \in Nat
    BY <1>1 DEF Tokens, AuthRows
<1>3. new \in RequestRow /\ new.op = op /\ new.row = i
  <2>1. new.op = op /\ new.row = i
      BY DEF NoRequest
  <2>2. new \in RequestRow
      BY <1>2, IdleRow DEF RequestRow
  <2> QED
      BY <2>1, <2>2
<1>4. /\ request'[r] = new /\ \A q \in Requests \ {r} : request'[q] = request[q]
      /\ request' \in [Requests -> RequestRow]
    BY <1>1, <1>3 DEF AuthRows
<1>5. AuthRows'
    BY <1>1, <1>4 DEF AuthRows
<1>6. \A k \in Kinds : /\ ~Spending(k, request[r])
                       /\ Spending(k, request'[r]) <=> k = kind
    BY <1>3, <1>4 DEF Spending, NoRequest, Kinds
<1>7. \A k : Tokens(k)' = Tokens(k)
    BY DEF Tokens
<1>8. \A j \in DOMAIN authSession' : OriginKnown(j)'
    BY <1>7 DEF TokenInv, OriginKnown
<1>9. \A q \in Requests : RowKnown(q)'
  <2>1. RowKnown(r)'
      BY <1>3, <1>4, <1>6, <1>7 DEF RowKnown
  <2>2. \A q \in Requests \ {r} : RowKnown(q)'
      BY <1>4, <1>7 DEF TokenInv, RowKnown
  <2> QED
      BY <2>1, <2>2
<1>10. ASSUME NEW k \in Kinds, NEW t \in Tokens(k) PROVE TokenSound(k, t)'
  <2>1. TokenSound(k, t) /\ Born(k, t)' = Born(k, t) /\ Spent(k, t)' = Spent(k, t)
      BY DEF TokenInv, Born, Spent
  <2>2. CASE k = kind /\ t = i
    <3>1. Born(k, t)' = {}
        BY <2>1, <2>2 DEF TokenSound
    <3>2. Using(k, t)' \in SUBSET Requests
        BY DEF Using
    <3>3. Cardinality(Using(k, t)') <= Cardinality(Requests) /\ IsFiniteSet(Using(k, t)')
        BY <3>2, AuthAssumption, FS_Subset
    <3>4. Cardinality(Using(k, t)') \in Nat
        BY <3>3, FS_CardinalityType
    <3> QED
        BY <3>1, <3>3, <3>4, FS_EmptySet DEF TokenSound
  <2>3. CASE ~(k = kind /\ t = i)
    <3>1. Using(k, t)' = Using(k, t)
        BY <1>3, <1>4, <1>6, <2>3 DEF Using, Spending
    <3> QED
        BY <2>1, <3>1 DEF TokenSound
  <2> QED
      BY <2>2, <2>3
<1> QED
    BY <1>5, <1>7, <1>8, <1>9, <1>10 DEF TokenInv

\* A request ends with a new session for the row it found, which is spent by then.
LEMMA SpendKeeps ==
    ASSUME TokenInv, NEW r \in Requests, NEW kind \in Kinds, NEW i \in Tokens(kind),
           r \in Using(kind, i), Spent(kind, i)',
           request' = [request EXCEPT ![r] = NoRequest],
           NEW u \in Addresses, NEW s \in Seq(SessionRow),
           authSession' = Append(s, NewSession(u, kind, i)), Len(s) = Len(authSession),
           \A j \in DOMAIN authSession :
             /\ s[j].from = authSession[j].from /\ s[j].origin = authSession[j].origin
             /\ authSession[j].revoked => s[j].revoked,
           UNCHANGED <<users, wallets, primary, challenge>>
    PROVE  TokenInv'
<1> DEFINE row == NewSession(u, kind, i)
<1>1. AuthRows
    BY DEF TokenInv
<1>2. PICK n \in Nat : n = Len(authSession) + 1
    BY <1>1 DEF AuthRows
<1>3. i \in Nat /\ row \in SessionRow /\ row.from = kind /\ row.origin = i
    BY <1>1 DEF Tokens, AuthRows, NewSession, SessionRow, Kinds
<1> HIDE DEF row
<1>4. /\ DOMAIN authSession = 1 .. (n - 1) /\ DOMAIN authSession' = 1 .. n
      /\ authSession' \in Seq(SessionRow) /\ authSession'[n] = row
      /\ \A j \in 1 .. (n - 1) : authSession'[j] = s[j]
  <2>1. authSession' = Append(s, row) /\ Len(s) = n - 1 /\ Len(authSession) = n - 1
      BY <1>1, <1>2 DEF row, AuthRows
  <2> QED
      BY <1>1, <1>3, <2>1 DEF AuthRows
<1>5. /\ request'[r] = NoRequest /\ \A q \in Requests \ {r} : request'[q] = request[q]
      /\ request' \in [Requests -> RequestRow]
    BY <1>1 DEF AuthRows, RequestRow, NoRequest, NoRow
<1>6. AuthRows'
    BY <1>1, <1>4, <1>5 DEF AuthRows
<1>7. \A k : Tokens(k) \subseteq Tokens(k)'
    BY <1>4 DEF Tokens
<1>8. \A j \in DOMAIN authSession' : OriginKnown(j)'
  <2>1. OriginKnown(n)'
      BY <1>3, <1>4, <1>7 DEF OriginKnown
  <2>2. \A j \in 1 .. (n - 1) : OriginKnown(j)'
      BY <1>4, <1>7 DEF TokenInv, OriginKnown
  <2> QED
      BY <1>2, <1>4, <2>1, <2>2
<1>9. \A q \in Requests : RowKnown(q)'
    BY <1>5, <1>7 DEF TokenInv, RowKnown, Spending, NoRequest
<1>10. \A k \in Kinds : ~Spending(k, request'[r])
    BY <1>5 DEF Spending, NoRequest
<1>11. Spending(kind, request[r]) /\ request[r].row = i
    BY DEF Using
<1>12. \A k \in Kinds : Spending(k, request[r]) => k = kind
    BY <1>11 DEF Spending, Kinds
<1>13. ASSUME NEW k \in Kinds, NEW t
       PROVE  /\ Born(k, t)' = IF k = kind /\ t = i THEN Born(k, t) \cup {n} ELSE Born(k, t)
              /\ Using(k, t)' = IF k = kind /\ t = i THEN Using(k, t) \ {r} ELSE Using(k, t)
              /\ n \notin Born(k, t)
  <2>1. Using(k, t)' = IF k = kind /\ t = i THEN Using(k, t) \ {r} ELSE Using(k, t)
      BY <1>5, <1>10, <1>11, <1>12 DEF Using
  <2>2. Born(k, t)' = IF k = kind /\ t = i THEN Born(k, t) \cup {n} ELSE Born(k, t)
      BY <1>2, <1>3, <1>4 DEF Born
  <2>3. n \notin Born(k, t)
      BY <1>4 DEF Born
  <2> QED
      BY <2>1, <2>2, <2>3
<1>14. ASSUME NEW k \in Kinds, NEW t \in Tokens(k) PROVE TokenSound(k, t)'
  <2>1. TokenSound(k, t) /\ (Spent(k, t) => Spent(k, t)')
      BY <1>4 DEF TokenInv, Spent, Tokens
  <2>2. CASE k = kind /\ t = i
    <3>1. IsFiniteSet(Born(k, t)) /\ IsFiniteSet(Using(k, t))
        BY <1>1, FiniteSessions
    <3>2. Cardinality(Born(k, t) \cup {n}) = Cardinality(Born(k, t)) + 1
        BY <1>13, <3>1, FS_AddElement
    <3>3. Cardinality(Using(k, t) \ {r}) = Cardinality(Using(k, t)) - 1
        BY <2>2, <3>1, FS_RemoveElement
    <3>4. Cardinality(Born(k, t)) \in Nat /\ Cardinality(Using(k, t)) \in Nat
        BY <3>1, FS_CardinalityType
    <3>5. /\ Cardinality(Born(k, t)') = Cardinality(Born(k, t)) + 1
          /\ Cardinality(Using(k, t)') = Cardinality(Using(k, t)) - 1
        BY <1>13, <2>2, <3>2, <3>3
    <3> QED
        BY <2>1, <2>2, <3>4, <3>5 DEF TokenSound
  <2>3. CASE ~(k = kind /\ t = i)
      BY <1>13, <2>1, <2>3 DEF TokenSound
  <2> QED
      BY <2>2, <2>3
<1>15. ASSUME NEW k \in Kinds, NEW t \in Tokens(k)', t \notin Tokens(k) PROVE TokenSound(k, t)'
  <2>1. Born(k, t) = {} /\ Using(k, t) = {}
      BY <1>15, Unborn
  <2>2. Born(k, t)' = {} /\ Using(k, t)' = {}
      BY <1>13, <1>15, <2>1
  <2>3. Cardinality(Requests) \in Nat
      BY AuthAssumption, FS_CardinalityType
  <2> QED
      BY <2>2, <2>3, FS_EmptySet DEF TokenSound
<1> QED
    BY <1>6, <1>8, <1>9, <1>14, <1>15 DEF TokenInv

\* Steps on wallets, of a request that is none of those before or after.
LEMMA WalletsKeep ==
    ASSUME TokenInv, NEW r \in Requests, AuthRows', authSession' = authSession,
           Len(challenge') = Len(challenge),
           \A c \in DOMAIN challenge : challenge[c].consumed => challenge'[c].consumed,
           request[r].op \in {"idle", "link", "unlink", "primary"},
           request'[r].op \in {"idle", "link", "unlink", "primary"},
           \A q \in Requests \ {r} : request'[q] = request[q]
    PROVE  TokenInv'
<1>1. AuthRows
    BY DEF TokenInv
<1>2. \A q \in Requests, kind \in Kinds :
        /\ Spending(kind, request'[q]) <=> Spending(kind, request[q])
        /\ Spending(kind, request[q]) => request'[q].row = request[q].row
  <2>1. \A kind \in Kinds : ~Spending(kind, request[r]) /\ ~Spending(kind, request'[r])
      BY DEF Spending, Kinds
  <2> QED
      BY <2>1
<1>3. \A q \in Requests : request'[q].op = "verified" => challenge'[request'[q].row].consumed
  <2> SUFFICES ASSUME NEW q \in Requests, request'[q].op = "verified"
               PROVE  challenge'[request'[q].row].consumed
      OBVIOUS
  <2>1. q # r /\ request'[q] = request[q]
      OBVIOUS
  <2>2. request[q].row \in DOMAIN challenge /\ challenge[request[q].row].consumed
      BY <2>1 DEF TokenInv, RowKnown, Spending, Tokens, Kinds
  <2> QED
      BY <2>1, <2>2
<1>4. Len(challenge) <= Len(challenge')
    BY <1>1 DEF AuthRows
<1> QED
    BY <1>2, <1>3, <1>4, QuietKeeps

LEMMA VerifyKeeps ==
    ASSUME TokenInv, NEW r \in Requests, NEW c, verifySignature(r, c)
    PROVE  TokenInv'
<1>1. AuthRows
    BY DEF TokenInv
<1>2. CASE /\ request[r] = NoRequest /\ c \in DOMAIN challenge /\ Answerable(c)
           /\ request' = [request EXCEPT ![r] = [NoRequest EXCEPT !.op = "verify", !.row = c]]
           /\ UNCHANGED <<users, wallets, primary, challenge, authSession>>
  <2>1. /\ "challenge" \in Kinds /\ c \in Tokens("challenge") /\ ~Spent("challenge", c)
        /\ Spending("challenge", [NoRequest EXCEPT !.op = "verify"])
      BY <1>2 DEF Kinds, Tokens, Spent, Answerable, Spending, NoRequest
  <2> QED
      BY <1>2, <2>1, FindKeeps
<1>3. CASE /\ request[r] = [NoRequest EXCEPT !.op = "verify", !.row = c]
           /\ challenge' = [challenge EXCEPT ![c].consumed = TRUE]
           /\ request' = [request EXCEPT ![r].op = "verified"]
           /\ UNCHANGED <<users, wallets, primary, authSession>>
  <2>1. request[r].op = "verify" /\ request[r].row = c /\ request[r] \in RequestRow
      BY <1>1, <1>3 DEF NoRequest, AuthRows
  <2>2. c \in DOMAIN challenge
      BY <2>1 DEF TokenInv, RowKnown, Spending, Tokens, Kinds
  <2> DEFINE new == [request[r] EXCEPT !.op = "verified"]
             row == [challenge[c] EXCEPT !.consumed = TRUE]
  <2>3. new \in RequestRow /\ new.op = "verified" /\ new.row = c
      BY <2>1 DEF RequestRow
  <2>4. row \in ChallengeRow /\ row.consumed
    <3>1. challenge[c] \in ChallengeRow
        BY <1>1, <2>2 DEF AuthRows
    <3> QED
        BY <3>1 DEF ChallengeRow
  <2>5. /\ request' = [request EXCEPT ![r] = new] /\ challenge' = [challenge EXCEPT ![c] = row]
      BY <1>1, <1>3, <2>2 DEF AuthRows
  <2> HIDE DEF new, row
  <2>6. /\ request'[r] = new /\ \A q \in Requests \ {r} : request'[q] = request[q]
        /\ request' \in [Requests -> RequestRow]
      BY <1>1, <2>3, <2>5 DEF AuthRows
  <2>7. /\ challenge' \in Seq(ChallengeRow) /\ Len(challenge') = Len(challenge)
        /\ challenge'[c].consumed /\ \A b \in DOMAIN challenge \ {c} : challenge'[b] = challenge[b]
      BY <1>1, <2>2, <2>4, <2>5 DEF AuthRows
  <2>8. AuthRows'
      BY <1>1, <1>3, <2>6, <2>7 DEF AuthRows
  <2>9. \A q \in Requests, kind \in Kinds :
          /\ Spending(kind, request'[q]) <=> Spending(kind, request[q])
          /\ Spending(kind, request[q]) => request'[q].row = request[q].row
      BY <2>1, <2>3, <2>6 DEF Spending, Kinds
  <2>10. \A q \in Requests : request'[q].op = "verified" => challenge'[request'[q].row].consumed
    <3> SUFFICES ASSUME NEW q \in Requests, q # r, request[q].op = "verified"
                 PROVE  challenge'[request[q].row].consumed
        BY <2>3, <2>6, <2>7
    <3>1. request[q].row \in DOMAIN challenge /\ challenge[request[q].row].consumed
        BY DEF TokenInv, RowKnown, Spending, Tokens, Kinds
    <3> QED
        BY <2>7, <3>1
  <2>11. Len(challenge) <= Len(challenge')
      BY <1>1, <2>7 DEF AuthRows
  <2> QED
      BY <1>3, <2>7, <2>8, <2>9, <2>10, <2>11, QuietKeeps
<1>4. CASE /\ request[r] = [NoRequest EXCEPT !.op = "verified", !.row = c]
           /\ authSession' = Append(authSession, NewSession(challenge[c].user, "challenge", c))
           /\ request' = [request EXCEPT ![r] = NoRequest]
           /\ UNCHANGED <<users, wallets, primary, challenge>>
  <2>1. request[r].op = "verified" /\ request[r].row = c
      BY <1>4 DEF NoRequest
  <2>2. c \in DOMAIN challenge /\ challenge[c].consumed
      BY <2>1 DEF TokenInv, RowKnown, Spending, Tokens, Kinds
  <2>3. /\ "challenge" \in Kinds /\ c \in Tokens("challenge") /\ r \in Using("challenge", c)
      BY <2>1, <2>2 DEF Kinds, Tokens, Using, Spending
  <2>4. Spent("challenge", c)'
      BY <1>4, <2>2 DEF Spent
  <2>5. challenge[c].user \in Addresses /\ authSession \in Seq(SessionRow)
    <3>1. challenge[c] \in ChallengeRow
        BY <1>1, <2>2 DEF AuthRows
    <3> QED
        BY <1>1, <3>1 DEF AuthRows, ChallengeRow
  <2> QED
      BY <1>4, <2>3, <2>4, <2>5, SpendKeeps
<1> QED
    BY <1>2, <1>3, <1>4 DEF verifySignature

LEMMA RefreshTokenKeeps ==
    ASSUME TokenInv, NEW r \in Requests, NEW j, refreshTokens(r, j)
    PROVE  TokenInv'
<1>1. AuthRows
    BY DEF TokenInv
<1>2. CASE /\ request[r] = NoRequest /\ j \in DOMAIN authSession /\ Refreshable(j)
           /\ request' = [request EXCEPT ![r] = [NoRequest EXCEPT !.op = "refresh", !.row = j]]
           /\ UNCHANGED <<users, wallets, primary, challenge, authSession>>
  <2>1. /\ "session" \in Kinds /\ j \in Tokens("session") /\ ~Spent("session", j)
        /\ Spending("session", [NoRequest EXCEPT !.op = "refresh"])
      BY <1>2 DEF Kinds, Tokens, Spent, Refreshable, Spending, NoRequest
  <2> QED
      BY <1>2, <2>1, FindKeeps
<1>3. CASE /\ request[r] = [NoRequest EXCEPT !.op = "refresh", !.row = j]
           /\ authSession' = Append([authSession EXCEPT ![j].revoked = TRUE],
                                    NewSession(authSession[j].user, "session", j))
           /\ request' = [request EXCEPT ![r] = NoRequest]
           /\ UNCHANGED <<users, wallets, primary, challenge>>
  <2> DEFINE row == [authSession[j] EXCEPT !.revoked = TRUE]
             s == [authSession EXCEPT ![j] = row]
  <2>1. request[r].op = "refresh" /\ request[r].row = j
      BY <1>3 DEF NoRequest
  <2>2. j \in DOMAIN authSession /\ authSession[j] \in SessionRow
    <3>1. j \in DOMAIN authSession
        BY <2>1 DEF TokenInv, RowKnown, Spending, Tokens, Kinds
    <3> QED
        BY <1>1, <3>1 DEF AuthRows
  <2>3. /\ "session" \in Kinds /\ j \in Tokens("session") /\ r \in Using("session", j)
      BY <2>1, <2>2 DEF Kinds, Tokens, Using, Spending
  <2>4. /\ row \in SessionRow /\ row.revoked /\ row.from = authSession[j].from
        /\ row.origin = authSession[j].origin /\ authSession[j].user \in Addresses
      BY <2>2 DEF SessionRow
  <2>5. authSession' = Append(s, NewSession(authSession[j].user, "session", j))
      BY <1>1, <1>3, <2>2 DEF AuthRows
  <2> HIDE DEF row
  <2>6. /\ s \in Seq(SessionRow) /\ Len(s) = Len(authSession) /\ s[j] = row
        /\ \A i \in DOMAIN authSession \ {j} : s[i] = authSession[i]
      BY <1>1, <2>2, <2>4 DEF AuthRows
  <2>7. \A i \in DOMAIN authSession :
             /\ s[i].from = authSession[i].from /\ s[i].origin = authSession[i].origin
             /\ authSession[i].revoked => s[i].revoked
      BY <2>4, <2>6
  <2> HIDE DEF s
  <2>8. Spent("session", j)'
    <3>1. authSession'[j] = s[j]
        BY <1>1, <2>2, <2>5, <2>6 DEF AuthRows
    <3> QED
        BY <2>4, <2>6, <3>1 DEF Spent
  <2> QED
      BY <1>3, <2>3, <2>4, <2>5, <2>6, <2>7, <2>8, SpendKeeps
<1> QED
    BY <1>2, <1>3 DEF refreshTokens

\* Sessions are revoked, and nothing else happens.
LEMMA RevokeKeeps ==
    ASSUME TokenInv, NEW s \in Seq(SessionRow), authSession' = s, Len(s) = Len(authSession),
           \A i \in DOMAIN authSession :
             /\ s[i].from = authSession[i].from /\ s[i].origin = authSession[i].origin
             /\ authSession[i].revoked => s[i].revoked,
           UNCHANGED <<users, wallets, primary, challenge, request>>
    PROVE  TokenInv'
<1>1. AuthRows /\ AuthRows'
    BY DEF TokenInv, AuthRows
<1>2. \A q \in Requests : request'[q].op = "verified" => challenge'[request'[q].row].consumed
    BY DEF TokenInv, RowKnown
<1>3. Len(challenge) <= Len(challenge')
    BY <1>1 DEF AuthRows
<1> QED
    BY <1>1, <1>2, <1>3, QuietKeeps

LEMMA LogoutKeeps ==
    ASSUME TokenInv, NEW j, logout(j)
    PROVE  TokenInv'
<1> DEFINE row == [authSession[j] EXCEPT !.revoked = TRUE]
           s == [authSession EXCEPT ![j] = row]
<1>1. AuthRows
    BY DEF TokenInv
<1>2. /\ j \in DOMAIN authSession /\ authSession[j] \in SessionRow
      /\ UNCHANGED <<users, wallets, primary, challenge, request>>
    BY <1>1 DEF logout, AuthRows
<1>3. /\ row \in SessionRow /\ row.revoked /\ row.from = authSession[j].from
      /\ row.origin = authSession[j].origin
    BY <1>2 DEF SessionRow
<1>4. authSession' = s
    BY <1>1, <1>2 DEF AuthRows, logout
<1> HIDE DEF row
<1>5. /\ s \in Seq(SessionRow) /\ Len(s) = Len(authSession) /\ s[j] = row
      /\ \A i \in DOMAIN authSession \ {j} : s[i] = authSession[i]
    BY <1>1, <1>2, <1>3 DEF AuthRows
<1> HIDE DEF s
<1> QED
    BY <1>2, <1>3, <1>4, <1>5, RevokeKeeps

LEMMA RevokeAllKeeps ==
    ASSUME TokenInv, NEW u, revokeAllSessions(u)
    PROVE  TokenInv'
<1> DEFINE row(j) == [authSession[j] EXCEPT !.revoked = @ \/ authSession[j].user = u]
           s == [j \in DOMAIN authSession |-> row(j)]
<1>1. AuthRows /\ DOMAIN authSession = 1 .. Len(authSession) /\ Len(authSession) \in Nat
    BY DEF TokenInv, AuthRows
<1>2. ASSUME NEW j \in DOMAIN authSession
      PROVE  /\ row(j) \in SessionRow /\ row(j).from = authSession[j].from
             /\ row(j).origin = authSession[j].origin
             /\ authSession[j].revoked => row(j).revoked
  <2>1. authSession[j] \in SessionRow
      BY <1>1 DEF AuthRows
  <2>2. (authSession[j].revoked \/ authSession[j].user = u) \in BOOLEAN
      OBVIOUS
  <2> QED
      BY <2>1, <2>2 DEF SessionRow
<1>3. authSession' = s /\ UNCHANGED <<users, wallets, primary, challenge, request>>
    BY DEF revokeAllSessions
<1> HIDE DEF row
<1>4. s \in Seq(SessionRow) /\ Len(s) = Len(authSession)
    BY <1>1, <1>2
<1>5. \A j \in DOMAIN authSession : s[j] = row(j)
    OBVIOUS
<1> HIDE DEF s
<1> QED
    BY <1>2, <1>3, <1>4, <1>5, RevokeKeeps

LEMMA OwnerAddress == ASSUME AuthRows, NEW a PROVE Owner(a) \subseteq Addresses
    BY DEF AuthRows, Owner

LEMMA ChallengeKeeps ==
    ASSUME TokenInv, NEW a \in Addresses, NEW p \in {LOGIN, LINK_WALLET},
           NEW u \in Addresses \cup {Nobody}, generateChallenge(a, p, u)
    PROVE  TokenInv'
<1> DEFINE row == [user |-> ChallengeUser(a, u), address |-> a, purpose |-> p,
                   consumed |-> FALSE, expired |-> FALSE]
<1>1. AuthRows
    BY DEF TokenInv
<1>2. challenge' = Append(challenge, row) /\ UNCHANGED <<authSession, request>>
    BY DEF generateChallenge
<1>3. ChallengeUser(a, u) \in Addresses
    BY <1>1, OwnerAddress DEF ChallengeUser, Nobody
<1>4. row \in ChallengeRow
    BY <1>3 DEF ChallengeRow
<1>5. /\ users' \subseteq Addresses /\ primary' \subseteq Addresses
      /\ wallets' \in [Addresses -> Seq(Addresses)]
  <2>1. CASE UNCHANGED <<users, wallets, primary>>
      BY <1>1, <2>1 DEF AuthRows
  <2>2. CASE /\ users' = users \cup {a} /\ wallets' = [wallets EXCEPT ![a] = <<a>>]
             /\ primary' = primary \cup {a}
    <3>1. <<a>> \in Seq(Addresses)
        OBVIOUS
    <3> QED
        BY <1>1, <2>2, <3>1 DEF AuthRows
  <2> QED
      BY <2>1, <2>2 DEF generateChallenge
<1> HIDE DEF row
<1>6. /\ challenge' \in Seq(ChallengeRow) /\ Len(challenge) <= Len(challenge')
      /\ \A c \in DOMAIN challenge : challenge'[c] = challenge[c]
    BY <1>1, <1>2, <1>4 DEF AuthRows
<1>7. AuthRows'
    BY <1>1, <1>2, <1>5, <1>6 DEF AuthRows
<1>8. \A q \in Requests : request'[q].op = "verified" => challenge'[request'[q].row].consumed
  <2> SUFFICES ASSUME NEW q \in Requests, request[q].op = "verified"
               PROVE  challenge'[request[q].row].consumed
      BY <1>2
  <2>1. request[q].row \in DOMAIN challenge /\ challenge[request[q].row].consumed
      BY DEF TokenInv, RowKnown, Spending, Tokens, Kinds
  <2> QED
      BY <1>6, <2>1
<1> QED
    BY <1>2, <1>6, <1>7, <1>8, QuietKeeps

LEMMA ExpireKeeps ==
    ASSUME TokenInv, NEW c, ExpireChallenge(c)
    PROVE  TokenInv'
<1> DEFINE row == [challenge[c] EXCEPT !.expired = TRUE]
<1>1. AuthRows
    BY DEF TokenInv
<1>2. /\ c \in DOMAIN challenge /\ UNCHANGED <<users, wallets, primary, authSession, request>>
      /\ challenge' = [challenge EXCEPT ![c].expired = TRUE]
    BY DEF ExpireChallenge
<1>3. challenge[c] \in ChallengeRow /\ challenge' = [challenge EXCEPT ![c] = row]
    BY <1>1, <1>2 DEF AuthRows
<1>4. row \in ChallengeRow /\ row.consumed = challenge[c].consumed
    BY <1>3 DEF ChallengeRow
<1> HIDE DEF row
<1>5. /\ challenge' \in Seq(ChallengeRow) /\ Len(challenge') = Len(challenge)
      /\ \A b \in DOMAIN challenge : challenge'[b].consumed = challenge[b].consumed
  <2>1. /\ challenge' \in Seq(ChallengeRow) /\ Len(challenge') = Len(challenge)
        /\ \A b \in DOMAIN challenge : challenge'[b] = IF b = c THEN row ELSE challenge[b]
      BY <1>1, <1>2, <1>3, <1>4, ReplaceAtFacts DEF AuthRows
  <2> QED
      BY <1>4, <2>1
<1>6. AuthRows'
    BY <1>1, <1>2, <1>5 DEF AuthRows
<1>7. Len(challenge) <= Len(challenge')
    BY <1>1, <1>5 DEF AuthRows
<1>8. \A q \in Requests : request'[q].op = "verified" => challenge'[request'[q].row].consumed
  <2> SUFFICES ASSUME NEW q \in Requests, request[q].op = "verified"
               PROVE  challenge'[request[q].row].consumed
      BY <1>2
  <2>1. request[q].row \in DOMAIN challenge /\ challenge[request[q].row].consumed
      BY DEF TokenInv, RowKnown, Spending, Tokens, Kinds
  <2> QED
      BY <1>5, <2>1
<1> QED
    BY <1>2, <1>5, <1>6, <1>7, <1>8, QuietKeeps

WalletOps == {"link", "unlink", "primary"}

\* What the request that holds a user's lock has read is still true.
LockSound(r) ==
    IF request[r].op \in WalletOps
    THEN LET u == request[r].user
             a == request[r].address
         IN /\ u \in users /\ request[r].seen = wallets[u]
            /\ request[r].op = "unlink" =>
                 /\ a \in Range(wallets[u]) /\ Len(wallets[u]) > 1
                 /\ request[r].isPrimary <=> a \in primary
    ELSE request[r].user = Nobody

WalletsSound(u) == IsInjective(wallets[u]) /\ \E a : Range(wallets[u]) \cap primary = {a}

WalletInv ==
    /\ \A u \in users : WalletsSound(u)
    /\ \A u, v \in users : u # v => Range(wallets[u]) \cap Range(wallets[v]) = {}
    /\ \A a \in primary : \E u \in users : a \in Range(wallets[u])
    /\ \A r \in Requests : LockSound(r)
    /\ \A r, q \in Requests : r # q /\ request[r].user # Nobody => request[q].user # request[r].user

\* Requests begin and end, but for those that take the lock.
LEMMA SameWallets ==
    ASSUME WalletInv, UNCHANGED <<users, wallets, primary>>,
           \A q \in Requests : \/ request'[q] = request[q]
                               \/ request'[q].op \notin WalletOps /\ request'[q].user = Nobody
    PROVE  WalletInv'
<1>1. \A u \in users : WalletsSound(u)'
    BY DEF WalletInv, WalletsSound
<1>2. \A q \in Requests : LockSound(q)'
    BY DEF WalletInv, LockSound
<1>3. \A r, q \in Requests :
         r # q /\ request'[r].user # Nobody => request'[q].user # request'[r].user
  <2> SUFFICES ASSUME NEW r \in Requests, NEW q \in Requests, r # q, request'[r].user # Nobody
               PROVE  request'[q].user # request'[r].user
      OBVIOUS
  <2>1. request'[r] = request[r]
      OBVIOUS
  <2> QED
      BY <2>1 DEF WalletInv
<1> QED
    BY <1>1, <1>2, <1>3 DEF WalletInv

LEMMA BeginKeeps ==
    ASSUME AuthRows, WalletInv, NEW r \in Requests, NEW op \in WalletOps, NEW u \in Addresses,
           NEW a \in Addresses, NEW c \in Nat, Begin(r, op, u, a, c),
           op = "unlink" => a \in Range(wallets[u]) /\ Len(wallets[u]) > 1
    PROVE  WalletInv' /\ AuthRows' /\ request'[r].op = op /\ request[r].op = "idle"
           /\ \A q \in Requests \ {r} : request'[q] = request[q]
<1> DEFINE new == [op |-> op, user |-> u, address |-> a, row |-> c,
                   seen |-> wallets[u], isPrimary |-> a \in primary]
<1>1. /\ request[r] = NoRequest /\ u \in users /\ \A q \in Requests : request[q].user # u
      /\ request' = [request EXCEPT ![r] = new]
      /\ UNCHANGED <<users, wallets, primary, challenge, authSession>>
    BY DEF Begin, LockFree
<1>2. /\ new.op = op /\ new.user = u /\ new.address = a /\ new.seen = wallets[u]
      /\ new.isPrimary <=> a \in primary
    OBVIOUS
<1>3. new \in RequestRow
  <2>1. wallets[u] \in Seq(Addresses) /\ (a \in primary) \in BOOLEAN
      BY DEF AuthRows
  <2> QED
      BY <2>1 DEF RequestRow, WalletOps
<1> HIDE DEF new
<1>4. /\ request'[r] = new /\ \A q \in Requests \ {r} : request'[q] = request[q]
      /\ request' \in [Requests -> RequestRow]
    BY <1>1, <1>3 DEF AuthRows
<1>5. AuthRows'
    BY <1>1, <1>4 DEF AuthRows
<1>6. \A v \in users : WalletsSound(v)'
    BY <1>1 DEF WalletInv, WalletsSound
<1>7. LockSound(r)'
    BY <1>1, <1>2, <1>4 DEF LockSound, WalletOps
<1>8. \A q \in Requests \ {r} : LockSound(q)'
    BY <1>1, <1>4 DEF WalletInv, LockSound
<1>9. \A s, q \in Requests :
         s # q /\ request'[s].user # Nobody => request'[q].user # request'[s].user
    BY <1>1, <1>2, <1>4 DEF WalletInv
<1>10. request[r].op = "idle"
    BY <1>1 DEF NoRequest
<1> QED
    BY <1>1, <1>2, <1>4, <1>5, <1>6, <1>7, <1>8, <1>9, <1>10 DEF WalletInv

\* A user's wallets become w, and those of the others stay as they are.
Rewrites(u, w) ==
    /\ users' = users \cup {u}
    /\ wallets' = [wallets EXCEPT ![u] = w]
    /\ w \in Seq(Addresses) /\ IsInjective(w)
    /\ \E x : Range(w) \cap primary' = {x}
    /\ \A v \in users \ {u} :
         /\ Range(w) \cap Range(wallets[v]) = {}
         /\ Range(wallets[v]) \cap primary' = Range(wallets[v]) \cap primary
    /\ \A b \in primary' : b \in Range(w) \/ \E v \in users \ {u} : b \in Range(wallets[v])
    /\ \A q \in Requests :
         \/ request'[q] = NoRequest
         \/ request'[q] = request[q] /\ request[q].user # u

LEMMA RewriteKeeps ==
    ASSUME AuthRows, WalletInv, NEW u \in Addresses, NEW w, Rewrites(u, w)
    PROVE  WalletInv'
<1>1. /\ wallets'[u] = w /\ \A v \in users \ {u} : wallets'[v] = wallets[v]
      /\ users' = users \cup {u}
    BY DEF Rewrites, AuthRows
<1>2. ASSUME NEW v \in users' PROVE WalletsSound(v)'
  <2>1. CASE v = u
      BY <1>1, <2>1 DEF Rewrites, WalletsSound
  <2>2. CASE v # u
    <3>1. v \in users \ {u} /\ WalletsSound(v) /\ wallets'[v] = wallets[v]
        BY <1>1, <2>2 DEF WalletInv
    <3>2. Range(wallets[v]) \cap primary' = Range(wallets[v]) \cap primary
        BY <3>1 DEF Rewrites
    <3> QED
        BY <3>1, <3>2 DEF WalletsSound
  <2> QED
      BY <2>1, <2>2
<1>3. \A v, z \in users' : v # z => Range(wallets'[v]) \cap Range(wallets'[z]) = {}
  <2>1. \A v \in users \ {u} : Range(w) \cap Range(wallets[v]) = {}
      BY DEF Rewrites
  <2>2. \A v, z \in users : v # z => Range(wallets[v]) \cap Range(wallets[z]) = {}
      BY DEF WalletInv
  <2> QED
      BY <1>1, <2>1, <2>2
<1>4. \A a \in primary' : \E v \in users' : a \in Range(wallets'[v])
  <2>1. \A b \in primary' : b \in Range(w) \/ \E v \in users \ {u} : b \in Range(wallets[v])
      BY DEF Rewrites
  <2> QED
      BY <1>1, <2>1
<1>5. ASSUME NEW q \in Requests PROVE LockSound(q)'
  <2>1. CASE request'[q] = NoRequest
      BY <2>1 DEF LockSound, NoRequest, WalletOps
  <2>2. CASE request'[q] = request[q] /\ request[q].user # u /\ request[q].op \in WalletOps
    <3>1. PICK v : v = request[q].user
        OBVIOUS
    <3>2. v \in users \ {u} /\ wallets'[v] = wallets[v] /\ LockSound(q)
        BY <1>1, <2>2, <3>1 DEF WalletInv, LockSound
    <3>3. Range(wallets[v]) \cap primary' = Range(wallets[v]) \cap primary
        BY <3>2 DEF Rewrites
    <3> QED
        BY <1>1, <2>2, <3>1, <3>2, <3>3 DEF LockSound
  <2>3. CASE request'[q] = request[q] /\ request[q].op \notin WalletOps
      BY <2>3 DEF WalletInv, LockSound
  <2> QED
      BY <2>1, <2>2, <2>3 DEF Rewrites
<1>6. \A r, q \in Requests :
         r # q /\ request'[r].user # Nobody => request'[q].user # request'[r].user
  <2> SUFFICES ASSUME NEW r \in Requests, NEW q \in Requests, r # q, request'[r].user # Nobody
               PROVE  request'[q].user # request'[r].user
      OBVIOUS
  <2>1. NoRequest.user = Nobody
      BY DEF NoRequest
  <2>2. request'[r] = request[r] /\ (request'[q] = request[q] \/ request'[q] = NoRequest)
      BY <2>1 DEF Rewrites
  <2> QED
      BY <2>1, <2>2 DEF WalletInv
<1> QED
    BY <1>2, <1>3, <1>4, <1>5, <1>6 DEF WalletInv

AuthInv == TokenInv /\ WalletInv

\* The request that holds the lock of user u ends.
Ends(r, u) ==
    /\ u \in users /\ request[r].seen = wallets[u] /\ wallets[u] \in Seq(Addresses)
    /\ WalletsSound(u) /\ LockSound(r) /\ request[r].op \in WalletOps
    /\ request' \in [Requests -> RequestRow] /\ request'[r].op = "idle"
    /\ \A q \in Requests \ {r} : request'[q] = request[q]
    /\ \A q \in Requests : \/ request'[q] = NoRequest
                           \/ request'[q] = request[q] /\ request[q].user # u

LEMMA HolderEnds ==
    ASSUME AuthInv, NEW r \in Requests, NEW op \in WalletOps, NEW u \in Addresses,
           NEW a, Doing(r, op, u, a), request' = [request EXCEPT ![r] = NoRequest]
    PROVE  Ends(r, u)
<1>1. AuthRows /\ WalletInv /\ request[r].op = op /\ request[r].user = u
    BY DEF AuthInv, TokenInv, Doing
<1>2. LockSound(r) /\ u \in users /\ request[r].seen = wallets[u]
    BY <1>1 DEF WalletInv, LockSound
<1>3. WalletsSound(u) /\ wallets[u] \in Seq(Addresses)
    BY <1>1, <1>2 DEF WalletInv, AuthRows
<1>4. /\ request'[r] = NoRequest /\ \A q \in Requests \ {r} : request'[q] = request[q]
      /\ request' \in [Requests -> RequestRow]
    BY <1>1, IdleRow DEF AuthRows
<1>5. \A q \in Requests \ {r} : request[q].user # u
    BY <1>1, AuthAssumption DEF WalletInv, Nobody
<1>6. NoRequest.op = "idle"
    BY DEF NoRequest
<1> QED
    BY <1>1, <1>2, <1>3, <1>4, <1>5, <1>6 DEF Ends

LEMMA AbortKeeps ==
    ASSUME AuthInv, NEW r \in Requests, NEW op \in WalletOps, NEW u \in Addresses,
           NEW a, Doing(r, op, u, a), Abort(r)
    PROVE  AuthInv'
<1>1. /\ request' = [request EXCEPT ![r] = NoRequest]
      /\ UNCHANGED <<users, wallets, primary, challenge, authSession>>
    BY DEF Abort
<1>2. /\ request[r].op \in WalletOps
      /\ request' \in [Requests -> RequestRow] /\ request'[r].op = "idle"
      /\ \A q \in Requests \ {r} : request'[q] = request[q]
      /\ \A q \in Requests : request'[q] = NoRequest \/ request'[q] = request[q]
    BY <1>1, HolderEnds DEF Ends
<1>3. AuthRows /\ TokenInv /\ WalletInv
    BY DEF AuthInv, TokenInv
<1>4. AuthRows'
    BY <1>1, <1>2, <1>3 DEF AuthRows
<1>5. TokenInv'
    BY <1>1, <1>2, <1>3, <1>4, WalletsKeep DEF WalletOps
<1>6. WalletInv'
  <2>1. NoRequest.op \notin WalletOps /\ NoRequest.user = Nobody
      BY DEF NoRequest, WalletOps
  <2> QED
      BY <1>1, <1>2, <1>3, <2>1, SameWallets
<1> QED
    BY <1>5, <1>6 DEF AuthInv

LEMMA LockKeeps ==
    ASSUME AuthInv, NEW r \in Requests, NEW op \in WalletOps, NEW u \in Addresses,
           NEW a \in Addresses, NEW c \in Nat, Begin(r, op, u, a, c),
           op = "unlink" => a \in Range(wallets[u]) /\ Len(wallets[u]) > 1
    PROVE  AuthInv'
<1>1. AuthRows /\ TokenInv /\ WalletInv
    BY DEF AuthInv, TokenInv
<1>2. /\ WalletInv' /\ AuthRows' /\ request'[r].op = op /\ request[r].op = "idle"
      /\ \A q \in Requests \ {r} : request'[q] = request[q]
    BY <1>1, BeginKeeps
<1>3. UNCHANGED <<users, wallets, primary, challenge, authSession>>
    BY DEF Begin
<1>4. TokenInv'
    BY <1>1, <1>2, <1>3, WalletsKeep DEF WalletOps
<1> QED
    BY <1>2, <1>4 DEF AuthInv

LEMMA ConsumeFacts ==
    ASSUME challenge \in Seq(ChallengeRow), NEW c,
           challenge' = [challenge EXCEPT ![c].consumed = TRUE]
    PROVE  /\ challenge' \in Seq(ChallengeRow) /\ Len(challenge') = Len(challenge)
           /\ \A b \in DOMAIN challenge : challenge[b].consumed => challenge'[b].consumed
<1> DEFINE row == [challenge[c] EXCEPT !.consumed = TRUE]
<1>1. challenge' = [challenge EXCEPT ![c] = row]
    OBVIOUS
<1>2. CASE c \in DOMAIN challenge
  <2>1. challenge[c] \in ChallengeRow
      BY <1>2
  <2>2. row \in ChallengeRow /\ row.consumed
      BY <2>1 DEF ChallengeRow
  <2> HIDE DEF row
  <2>3. /\ challenge' \in Seq(ChallengeRow) /\ Len(challenge') = Len(challenge)
        /\ \A b \in DOMAIN challenge : challenge'[b] = IF b = c THEN row ELSE challenge[b]
      BY <1>1, <1>2, <2>2, ReplaceAtFacts
  <2> QED
      BY <2>2, <2>3
<1>3. CASE c \notin DOMAIN challenge
  <2>1. challenge' = challenge
      BY <1>1, <1>3
  <2> QED
      BY <2>1
<1> QED
    BY <1>2, <1>3

LEMMA LinkKeeps ==
    ASSUME AuthInv, NEW r \in Requests, NEW u \in Addresses, NEW a \in Addresses, NEW c,
           linkWallet(r, u, a, c)
    PROVE  AuthInv'
<1>1. AuthRows /\ TokenInv /\ WalletInv /\ "link" \in WalletOps
    BY DEF AuthInv, TokenInv, WalletOps
<1>2. CASE c \in DOMAIN challenge /\ Begin(r, "link", u, a, c)
  <2>1. c \in Nat
      BY <1>1, <1>2 DEF AuthRows
  <2> QED
      BY <1>1, <1>2, <2>1, LockKeeps
<1>3. CASE Doing(r, "link", u, a) /\ Abort(r)
    BY <1>1, <1>3, AbortKeeps
<1>4. CASE /\ Doing(r, "link", u, a) /\ Owner(a) = {}
           /\ challenge' = [challenge EXCEPT ![c].consumed = TRUE]
           /\ wallets' = [wallets EXCEPT ![u] = Append(wallets[u], a)]
           /\ primary' = IF request[r].seen = <<>> THEN primary \cup {a} ELSE primary
           /\ request' = [request EXCEPT ![r] = NoRequest]
           /\ UNCHANGED <<users, authSession>>
  <2>1. Ends(r, u) /\ u \in users /\ wallets[u] \in Seq(Addresses)
        /\ request[r].seen = wallets[u] /\ WalletsSound(u) /\ LockSound(r)
    <3>1. Ends(r, u)
        BY <1>1, <1>4, HolderEnds
    <3> QED
        BY <3>1 DEF Ends
  <2>2. PICK x : Range(wallets[u]) \cap primary = {x}
      BY <2>1 DEF WalletsSound
  <2>3. wallets[u] # <<>> /\ primary' = primary
    <3>1. wallets[u] # <<>>
        BY <2>2 DEF Range
    <3> QED
        BY <1>4, <2>1, <3>1
  <2> DEFINE w == Append(wallets[u], a)
  <2>4. \A v \in users : a \notin Range(wallets[v])
      BY <1>4 DEF Owner
  <2>5. w \in Seq(Addresses) /\ Range(w) = Range(wallets[u]) \cup {a} /\ IsInjective(w)
    <3>1. /\ w \in Seq(Addresses) /\ Len(w) = Len(wallets[u]) + 1 /\ w[Len(wallets[u]) + 1] = a
          /\ DOMAIN wallets[u] = 1 .. Len(wallets[u]) /\ DOMAIN w = 1 .. (Len(wallets[u]) + 1)
          /\ Len(wallets[u]) \in Nat
          /\ \A i \in 1 .. Len(wallets[u]) : w[i] = wallets[u][i]
        BY <2>1
    <3> HIDE DEF w
    <3>2. Range(w) = Range(wallets[u]) \cup {a}
        BY <3>1 DEF Range
    <3>3. \A i \in DOMAIN wallets[u] : wallets[u][i] # a
        BY <2>1, <2>4 DEF Range
    <3>4. IsInjective(w)
        BY <2>1, <3>1, <3>3 DEF IsInjective, WalletsSound
    <3> QED
        BY <3>1, <3>2, <3>4
  <2>6. a \notin primary
      BY <1>1, <2>4 DEF WalletInv
  <2> HIDE DEF w
  <2>7. wallets' = [wallets EXCEPT ![u] = w] /\ users' = users \cup {u}
      BY <1>4, <2>1 DEF w
  <2>8. Rewrites(u, w)
    <3>1. Range(w) \cap primary' = {x}
        BY <2>2, <2>3, <2>5, <2>6
    <3>2. \A v \in users \ {u} : Range(w) \cap Range(wallets[v]) = {}
      <4>1. \A v \in users \ {u} : Range(wallets[u]) \cap Range(wallets[v]) = {}
          BY <1>1, <2>1 DEF WalletInv
      <4> QED
          BY <2>4, <2>5, <4>1
    <3>3. \A b \in primary' : b \in Range(w) \/ \E v \in users \ {u} : b \in Range(wallets[v])
        BY <1>1, <2>3, <2>5 DEF WalletInv
    <3> QED
        BY <2>1, <2>3, <2>5, <2>7, <3>1, <3>2, <3>3 DEF Rewrites, Ends
  <2>9. /\ challenge' \in Seq(ChallengeRow) /\ Len(challenge') = Len(challenge)
        /\ \A b \in DOMAIN challenge : challenge[b].consumed => challenge'[b].consumed
      BY <1>1, <1>4, ConsumeFacts DEF AuthRows
  <2>10. AuthRows'
      BY <1>1, <1>4, <2>1, <2>3, <2>5, <2>7, <2>9 DEF AuthRows, Ends
  <2>11. TokenInv'
      BY <1>1, <1>4, <2>1, <2>9, <2>10, WalletsKeep DEF WalletOps, Ends
  <2> QED
      BY <1>1, <2>8, <2>11, RewriteKeeps DEF AuthInv
<1> QED
    BY <1>2, <1>3, <1>4 DEF linkWallet

\* What is left to show of a request that ends with a write to the wallets of u.
LEMMA WriteKeeps ==
    ASSUME AuthInv, NEW r \in Requests, NEW u \in Addresses, NEW w, Rewrites(u, w),
           Ends(r, u), primary' \subseteq Addresses,
           UNCHANGED <<users, challenge, authSession>>
    PROVE  AuthInv'
<1>1. AuthRows /\ TokenInv /\ WalletInv
    BY DEF AuthInv, TokenInv
<1>2. WalletInv'
    BY <1>1, RewriteKeeps
<1>3. AuthRows'
    BY <1>1 DEF AuthRows, Rewrites, Ends
<1>4. TokenInv'
    BY <1>1, <1>3, WalletsKeep DEF WalletOps, Ends
<1> QED
    BY <1>2, <1>4 DEF AuthInv

LEMMA UnlinkKeeps ==
    ASSUME AuthInv, NEW r \in Requests, NEW u \in Addresses, NEW a \in Addresses,
           unlinkWallet(r, u, a)
    PROVE  AuthInv'
<1>1. AuthRows /\ TokenInv /\ WalletInv /\ "unlink" \in WalletOps
    BY DEF AuthInv, TokenInv, WalletOps
<1>2. CASE a \in Range(wallets[u]) /\ Len(wallets[u]) > 1 /\ Begin(r, "unlink", u, a, NoRow)
  <2>1. NoRow \in Nat
      BY DEF NoRow
  <2> QED
      BY <1>1, <1>2, <2>1, LockKeeps
<1>3. CASE Doing(r, "unlink", u, a) /\ Abort(r)
    BY <1>1, <1>3, AbortKeeps
<1>4. CASE /\ Doing(r, "unlink", u, a)
           /\ wallets' = [wallets EXCEPT ![u] = Without(wallets[u], a)]
           /\ primary' = (primary \ {a}) \cup Promoted(r)
           /\ request' = [request EXCEPT ![r] = NoRequest]
           /\ UNCHANGED <<users, challenge, authSession>>
  <2>1. Ends(r, u) /\ u \in users /\ wallets[u] \in Seq(Addresses)
        /\ request[r].seen = wallets[u] /\ WalletsSound(u) /\ LockSound(r)
    <3>1. Ends(r, u)
        BY <1>1, <1>4, HolderEnds
    <3> QED
        BY <3>1 DEF Ends
  <2>2. PICK x : Range(wallets[u]) \cap primary = {x}
      BY <2>1 DEF WalletsSound
  <2>3. /\ request[r].op = "unlink" /\ request[r].user = u /\ request[r].address = a
        /\ a \in Range(wallets[u]) /\ Len(wallets[u]) > 1
        /\ request[r].isPrimary <=> a \in primary
      BY <1>1, <1>4, <2>1 DEF LockSound, Doing
  <2> DEFINE w == Without(wallets[u], a)
  <2>4. /\ w \in Seq(Addresses) /\ IsInjective(w)
        /\ Range(w) = Range(wallets[u]) \ {a} /\ w[1] \in Range(wallets[u]) \ {a}
      BY <2>1, <2>3, WithoutFacts DEF WalletsSound
  <2>5. Promoted(r) = IF a \in primary THEN {w[1]} ELSE {}
      BY <2>1, <2>3 DEF Promoted
  <2>6. wallets' = [wallets EXCEPT ![u] = w] /\ users' = users \cup {u}
      BY <1>4, <2>1
  <2> HIDE DEF w
  <2>7. \E y : Range(w) \cap primary' = {y}
    <3>1. CASE a \in primary
      <4>1. Range(w) \cap primary' = {w[1]}
          BY <1>4, <2>2, <2>3, <2>4, <2>5, <3>1
      <4> QED
          BY <4>1
    <3>2. CASE a \notin primary
      <4>1. Range(w) \cap primary' = {x}
          BY <1>4, <2>2, <2>3, <2>4, <2>5, <3>2
      <4> QED
          BY <4>1
    <3> QED
        BY <3>1, <3>2
  <2>8. \A v \in users \ {u} : Range(wallets[u]) \cap Range(wallets[v]) = {}
      BY <1>1, <2>1 DEF WalletInv
  <2>9. \A v \in users \ {u} :
          /\ Range(w) \cap Range(wallets[v]) = {}
          /\ Range(wallets[v]) \cap primary' = Range(wallets[v]) \cap primary
      BY <1>4, <2>3, <2>4, <2>5, <2>8
  <2>10. \A b \in primary' : b \in Range(w) \/ \E v \in users \ {u} : b \in Range(wallets[v])
    <3>1. \A b \in primary : \E v \in users : b \in Range(wallets[v])
        BY <1>1 DEF WalletInv
    <3> QED
        BY <1>4, <2>4, <2>5, <3>1
  <2>11. Rewrites(u, w)
      BY <2>1, <2>4, <2>6, <2>7, <2>9, <2>10 DEF Rewrites, Ends
  <2>12. primary' \subseteq Addresses
    <3>1. Range(w) \subseteq Addresses /\ \A v \in users : Range(wallets[v]) \subseteq Addresses
        BY <1>1, <2>4 DEF AuthRows, Range
    <3> QED
        BY <2>10, <3>1
  <2> QED
      BY <1>4, <2>1, <2>11, <2>12, WriteKeeps
<1> QED
    BY <1>2, <1>3, <1>4 DEF unlinkWallet

LEMMA SetPrimaryKeeps ==
    ASSUME AuthInv, NEW r \in Requests, NEW u \in Addresses, NEW a \in Addresses,
           setPrimaryWallet(r, u, a)
    PROVE  AuthInv'
<1>1. AuthRows /\ TokenInv /\ WalletInv /\ "primary" \in WalletOps
    BY DEF AuthInv, TokenInv, WalletOps
<1>2. CASE Begin(r, "primary", u, a, NoRow)
  <2>1. NoRow \in Nat
      BY DEF NoRow
  <2> QED
      BY <1>1, <1>2, <2>1, LockKeeps
<1>3. CASE Doing(r, "primary", u, a) /\ Abort(r)
    BY <1>1, <1>3, AbortKeeps
<1>4. CASE /\ Doing(r, "primary", u, a) /\ a \in Range(wallets[u])
           /\ primary' = (primary \ Range(wallets[u])) \cup {a}
           /\ request' = [request EXCEPT ![r] = NoRequest]
           /\ UNCHANGED <<users, wallets, challenge, authSession>>
  <2>1. Ends(r, u) /\ u \in users /\ wallets[u] \in Seq(Addresses)
        /\ request[r].seen = wallets[u] /\ WalletsSound(u) /\ LockSound(r)
    <3>1. Ends(r, u)
        BY <1>1, <1>4, HolderEnds
    <3> QED
        BY <3>1 DEF Ends
  <2>2. PICK w : w = wallets[u]
      OBVIOUS
  <2>3. wallets' = [wallets EXCEPT ![u] = w] /\ users' = users \cup {u} /\ IsInjective(w)
      BY <1>1, <1>4, <2>1, <2>2 DEF AuthRows, WalletsSound
  <2>4. Range(w) \cap primary' = {a}
      BY <1>4, <2>2
  <2>5. \A v \in users \ {u} : Range(w) \cap Range(wallets[v]) = {}
      BY <1>1, <2>1, <2>2 DEF WalletInv
  <2>6. \A v \in users \ {u} : Range(wallets[v]) \cap primary' = Range(wallets[v]) \cap primary
      BY <1>4, <2>2, <2>5
  <2>7. \A b \in primary' : b \in Range(w) \/ \E v \in users \ {u} : b \in Range(wallets[v])
    <3>1. \A b \in primary : \E v \in users : b \in Range(wallets[v])
        BY <1>1 DEF WalletInv
    <3> QED
        BY <1>4, <2>2, <3>1
  <2>8. Rewrites(u, w)
      BY <2>1, <2>2, <2>3, <2>4, <2>5, <2>6, <2>7 DEF Rewrites, Ends
  <2>9. primary' \subseteq Addresses
      BY <1>1, <1>4 DEF AuthRows
  <2> QED
      BY <1>4, <2>1, <2>8, <2>9, WriteKeeps
<1> QED
    BY <1>2, <1>3, <1>4 DEF setPrimaryWallet

LEMMA NewUserKeeps ==
    ASSUME AuthInv, NEW a \in Addresses, NEW p \in {LOGIN, LINK_WALLET},
           NEW u \in Addresses \cup {Nobody}, generateChallenge(a, p, u)
    PROVE  AuthInv'
<1>1. AuthRows /\ TokenInv /\ WalletInv
    BY DEF AuthInv, TokenInv
<1>2. TokenInv'
    BY <1>1, ChallengeKeeps
<1>3. request' = request
    BY DEF generateChallenge
<1>4. CASE UNCHANGED <<users, wallets, primary>>
    BY <1>1, <1>2, <1>3, <1>4, SameWallets DEF AuthInv
<1>5. CASE /\ Owner(a) = {} /\ a \notin users
           /\ users' = users \cup {a}
           /\ wallets' = [wallets EXCEPT ![a] = <<a>>]
           /\ primary' = primary \cup {a}
  <2>1. \A v \in users : a \notin Range(wallets[v])
      BY <1>5 DEF Owner
  <2>2. PICK w \in Seq(Addresses) : w = <<a>>
    <3>1. <<a>> \in Seq(Addresses)
        OBVIOUS
    <3> QED
        BY <3>1
  <2>3. Range(w) = {a} /\ IsInjective(w)
      BY <2>2 DEF Range, IsInjective
  <2>4. \A q \in Requests : request'[q] = request[q] /\ request[q].user # a
    <3>1. \A q \in Requests : request[q].user \in users \/ request[q].user = Nobody
        BY <1>1 DEF WalletInv, LockSound
    <3> QED
        BY <1>3, <1>5, <3>1, AuthAssumption DEF Nobody
  <2>5. \A b \in primary : \E v \in users : b \in Range(wallets[v])
      BY <1>1 DEF WalletInv
  <2>6. Rewrites(a, w)
    <3>1. Range(w) \cap primary' = {a}
        BY <1>5, <2>3
    <3>2. \A v \in users \ {a} :
            /\ Range(w) \cap Range(wallets[v]) = {}
            /\ Range(wallets[v]) \cap primary' = Range(wallets[v]) \cap primary
        BY <1>5, <2>1, <2>3
    <3>3. \A b \in primary' : b \in Range(w) \/ \E v \in users \ {a} : b \in Range(wallets[v])
        BY <1>5, <2>3, <2>5
    <3> QED
        BY <1>5, <2>2, <2>3, <2>4, <3>1, <3>2, <3>3 DEF Rewrites
  <2> QED
      BY <1>1, <1>2, <2>6, RewriteKeeps DEF AuthInv
<1> QED
    BY <1>4, <1>5 DEF generateChallenge

\* Requests of sessions hold no lock.
LEMMA SessionsKeepWallets ==
    ASSUME AuthInv, NEW r \in Requests, NEW i, verifySignature(r, i) \/ refreshTokens(r, i)
    PROVE  WalletInv'
<1>1. AuthRows /\ WalletInv
    BY DEF AuthInv, TokenInv
<1>2. UNCHANGED <<users, wallets, primary>>
    BY DEF verifySignature, refreshTokens
<1>3. /\ request'[r].op \notin WalletOps /\ request'[r].user = Nobody
      /\ \A q \in Requests \ {r} : request'[q] = request[q]
  <2>1. CASE request' = [request EXCEPT ![r] = [NoRequest EXCEPT !.op = "verify", !.row = i]]
      BY <1>1, <2>1 DEF NoRequest, WalletOps, AuthRows
  <2>2. CASE request' = [request EXCEPT ![r] = [NoRequest EXCEPT !.op = "refresh", !.row = i]]
      BY <1>1, <2>2 DEF NoRequest, WalletOps, AuthRows
  <2>3. CASE request' = [request EXCEPT ![r] = NoRequest]
      BY <1>1, <2>3 DEF NoRequest, WalletOps, AuthRows
  <2>4. CASE /\ request[r] = [NoRequest EXCEPT !.op = "verify", !.row = i]
             /\ request' = [request EXCEPT ![r].op = "verified"]
      BY <1>1, <2>4 DEF NoRequest, WalletOps, AuthRows
  <2> QED
      BY <2>1, <2>2, <2>3, <2>4 DEF verifySignature, refreshTokens
<1> QED
    BY <1>1, <1>2, <1>3, SameWallets

LEMMA AuthInitial == AuthInit => AuthInv
<1> SUFFICES ASSUME AuthInit PROVE AuthInv
    OBVIOUS
<1>1. AuthRows
  <2>1. /\ users = {} /\ primary = {} /\ challenge = <<>> /\ authSession = <<>>
        /\ wallets = [a \in Addresses |-> <<>>] /\ request = [r \in Requests |-> NoRequest]
      BY DEF AuthInit
  <2> QED
      BY <2>1, IdleRow DEF AuthRows
<1>2. DOMAIN authSession = {} /\ DOMAIN challenge = {} /\ users = {} /\ primary = {}
    BY DEF AuthInit
<1>3. \A r \in Requests : request[r].op = "idle" /\ request[r].user = Nobody
    BY DEF AuthInit, NoRequest
<1>4. TokenInv
  <2>1. \A r \in Requests : RowKnown(r)
      BY <1>3 DEF RowKnown, Spending
  <2> QED
      BY <1>1, <1>2, <2>1 DEF TokenInv, Tokens
<1>5. WalletInv
  <2>1. \A r \in Requests : LockSound(r)
      BY <1>3 DEF LockSound, WalletOps
  <2> QED
      BY <1>2, <1>3, <2>1 DEF WalletInv
<1> QED
    BY <1>4, <1>5 DEF AuthInv

LEMMA AuthStep == AuthInv /\ [AuthNext]_authVars => AuthInv'
<1> SUFFICES ASSUME AuthInv, [AuthNext]_authVars PROVE AuthInv'
    OBVIOUS
<1>1. AuthRows /\ TokenInv /\ WalletInv
    BY DEF AuthInv, TokenInv
<1>2. ASSUME UNCHANGED <<users, wallets, primary, request>>, TokenInv' PROVE AuthInv'
    BY <1>1, <1>2, SameWallets DEF AuthInv
<1>3. CASE \E r \in Requests : \E i : verifySignature(r, i) \/ refreshTokens(r, i)
    BY <1>1, <1>3, VerifyKeeps, RefreshTokenKeeps, SessionsKeepWallets DEF AuthInv
<1>4. CASE \E j : logout(j)
  <2>1. TokenInv'
      BY <1>1, <1>4, LogoutKeeps
  <2> QED
      BY <1>2, <1>4, <2>1 DEF logout
<1>5. CASE \E u : revokeAllSessions(u)
  <2>1. TokenInv'
      BY <1>1, <1>5, RevokeAllKeeps
  <2> QED
      BY <1>2, <1>5, <2>1 DEF revokeAllSessions
<1>6. CASE \E a \in Addresses, p \in {LOGIN, LINK_WALLET}, u \in Addresses \cup {Nobody} :
             generateChallenge(a, p, u)
    BY <1>6, NewUserKeeps
<1>7. CASE \E c : ExpireChallenge(c)
  <2>1. TokenInv'
      BY <1>1, <1>7, ExpireKeeps
  <2> QED
      BY <1>2, <1>7, <2>1 DEF ExpireChallenge
<1>8. CASE \E r \in Requests : WalletStep(r)
    BY <1>8, LinkKeeps, UnlinkKeeps, SetPrimaryKeeps DEF WalletStep
<1>9. CASE UNCHANGED authVars
  <2>1. TokenInv'
    <3>1. authSession \in Seq(SessionRow) /\ UNCHANGED <<users, wallets, primary, challenge, request>>
        BY <1>1, <1>9 DEF AuthRows, authVars
    <3> QED
        BY <1>1, <1>9, <3>1, RevokeKeeps DEF authVars
  <2> QED
      BY <1>2, <1>9, <2>1 DEF authVars
<1> QED
    BY <1>3, <1>4, <1>5, <1>6, <1>7, <1>8, <1>9 DEF AuthNext, SessionStep

LEMMA AuthAlways == AuthSpec => []AuthInv
<1>1. AuthInv /\ [AuthNext]_authVars => AuthInv'
    BY AuthStep
<1> QED
    BY <1>1, AuthInitial, PTL DEF AuthSpec

\* However logins, refreshes and logouts overlap: a session that was replaced is
\* revoked, and no challenge and no refresh token starts more sessions than there are
\* requests at a time (verifySignature, refreshTokens).
THEOREM TokensSpent == AuthSpec => []SpentTokensStaySpent
<1>1. AuthInv => SpentTokensStaySpent
  <2> SUFFICES ASSUME AuthInv PROVE SpentTokensStaySpent
      OBVIOUS
  <2>1. AuthRows /\ TokenInv
      BY DEF AuthInv, TokenInv
  <2>2. ASSUME NEW kind \in Kinds, NEW i \in Tokens(kind)
        PROVE  /\ Cardinality(Born(kind, i)) <= Cardinality(Requests)
               /\ Born(kind, i) # {} => Spent(kind, i)
    <3>1. TokenSound(kind, i)
        BY <2>1 DEF TokenInv
    <3>2. Cardinality(Born(kind, i)) \in Nat /\ Cardinality(Using(kind, i)) \in Nat
        BY <2>1, FiniteSessions, FS_CardinalityType
    <3>3. Cardinality(Requests) \in Nat
        BY AuthAssumption, FS_CardinalityType
    <3> QED
        BY <3>1, <3>2, <3>3 DEF TokenSound
  <2>3. \A c \in DOMAIN challenge : Cardinality(Born("challenge", c)) <= Cardinality(Requests)
      BY <2>2 DEF Kinds, Tokens
  <2>4. \A j \in DOMAIN authSession :
          /\ Born("session", j) # {} => authSession[j].revoked
          /\ Cardinality(Born("session", j)) <= Cardinality(Requests)
      BY <2>2 DEF Kinds, Tokens, Spent
  <2> QED
      BY <2>3, <2>4 DEF SpentTokensStaySpent, Born
<1> QED
    BY <1>1, AuthAlways, PTL

\* However links, unlinks, changes of the primary wallet and first logins overlap,
\* every user has exactly one primary wallet, and no address two owners (lockUserRow
\* in linkWallet, unlinkWallet and setPrimaryWallet).
THEOREM WalletsCorrect == AuthSpec => []OnePrimaryWallet
<1>1. AuthInv => OnePrimaryWallet
  <2> SUFFICES ASSUME AuthInv PROVE OnePrimaryWallet
      OBVIOUS
  <2>1. WalletInv
      BY DEF AuthInv
  <2>2. \A u \in users : Cardinality(Range(wallets[u]) \cap primary) = 1 /\ IsInjective(wallets[u])
    <3> SUFFICES ASSUME NEW u \in users
                 PROVE  Cardinality(Range(wallets[u]) \cap primary) = 1 /\ IsInjective(wallets[u])
        OBVIOUS
    <3>1. WalletsSound(u)
        BY <2>1 DEF WalletInv
    <3>2. PICK a : Range(wallets[u]) \cap primary = {a}
        BY <3>1 DEF WalletsSound
    <3>3. Cardinality({a}) = 1
        BY FS_Singleton
    <3> QED
        BY <3>1, <3>2, <3>3 DEF WalletsSound
  <2>3. ASSUME NEW a \in Addresses PROVE Cardinality(Owner(a)) <= 1
    <3>1. \A u, v \in Owner(a) : u = v
        BY <2>1 DEF WalletInv, Owner
    <3>2. Owner(a) = {} \/ \E u : Owner(a) = {u}
        BY <3>1
    <3>3. CASE Owner(a) = {}
      <4>1. Cardinality({}) = 0
          BY FS_EmptySet
      <4> QED
          BY <3>3, <4>1
    <3>4. CASE \E u : Owner(a) = {u}
      <4>1. PICK u : Owner(a) = {u}
          BY <3>4
      <4>2. Cardinality({u}) = 1
          BY FS_Singleton
      <4> QED
          BY <4>1, <4>2
    <3> QED
        BY <3>2, <3>3, <3>4
  <2>4. primary \subseteq UNION {Range(wallets[u]) : u \in users}
      BY <2>1 DEF WalletInv
  <2> QED
      BY <2>2, <2>3, <2>4 DEF OnePrimaryWallet
<1> QED
    BY <1>1, AuthAlways, PTL

\* Challenges and sessions belong to users, and a session replaces an earlier one.
SessionKnown(j, known) ==
    /\ authSession[j].user \in known
    /\ authSession[j].from = "session" => authSession[j].origin < j

UsersKnown ==
    /\ \A c \in DOMAIN challenge : challenge[c].user \in users
    /\ \A j \in DOMAIN authSession : SessionKnown(j, users)

SameChallenges ==
    /\ DOMAIN challenge' = DOMAIN challenge
    /\ \A c \in DOMAIN challenge : challenge'[c].user = challenge[c].user

SameSessions ==
    /\ DOMAIN authSession' = DOMAIN authSession
    /\ \A j \in DOMAIN authSession :
         /\ authSession'[j].user = authSession[j].user
         /\ authSession'[j].from = authSession[j].from
         /\ authSession'[j].origin = authSession[j].origin

LEMMA SameUsers ==
    ASSUME UsersKnown, users \subseteq users', SameChallenges, SameSessions
    PROVE  UsersKnown'
    BY DEF UsersKnown, SessionKnown, SameChallenges, SameSessions

\* A challenge that is consumed or expires keeps its user.
LEMMA ChallengeEdited ==
    ASSUME AuthRows, NEW c,
           \/ challenge' = [challenge EXCEPT ![c].consumed = TRUE]
           \/ challenge' = [challenge EXCEPT ![c].expired = TRUE]
    PROVE  SameChallenges
<1>1. PICK row : /\ challenge' = [challenge EXCEPT ![c] = row]
                 /\ \/ row = [challenge[c] EXCEPT !.consumed = TRUE]
                    \/ row = [challenge[c] EXCEPT !.expired = TRUE]
    OBVIOUS
<1>2. CASE c \in DOMAIN challenge
  <2>1. challenge[c] \in ChallengeRow
      BY <1>2 DEF AuthRows
  <2>2. row \in ChallengeRow /\ row.user = challenge[c].user
      BY <1>1, <2>1 DEF ChallengeRow
  <2>3. /\ Len(challenge') = Len(challenge) /\ challenge' \in Seq(ChallengeRow)
        /\ \A b \in DOMAIN challenge : challenge'[b] = IF b = c THEN row ELSE challenge[b]
      BY <1>1, <1>2, <2>2, ReplaceAtFacts DEF AuthRows
  <2> QED
      BY <2>2, <2>3 DEF SameChallenges, AuthRows
<1>3. CASE c \notin DOMAIN challenge
  <2>1. challenge' = challenge
      BY <1>1, <1>3 DEF AuthRows
  <2> QED
      BY <2>1 DEF SameChallenges
<1> QED
    BY <1>2, <1>3

LEMMA SessionRevoked ==
    ASSUME AuthRows, NEW j \in DOMAIN authSession,
           authSession' = [authSession EXCEPT ![j].revoked = TRUE]
    PROVE  SameSessions
<1>1. PICK row : authSession' = [authSession EXCEPT ![j] = row] /\ row = [authSession[j] EXCEPT !.revoked = TRUE]
    OBVIOUS
<1>2. authSession[j] \in SessionRow
    BY DEF AuthRows
<1>3. /\ row.user = authSession[j].user /\ row.from = authSession[j].from
      /\ row.origin = authSession[j].origin /\ row \in SessionRow
    BY <1>1, <1>2 DEF SessionRow
<1>4. /\ Len(authSession') = Len(authSession) /\ authSession' \in Seq(SessionRow)
      /\ \A i \in DOMAIN authSession : authSession'[i] = IF i = j THEN row ELSE authSession[i]
    BY <1>1, <1>3, ReplaceAtFacts DEF AuthRows
<1> QED
    BY <1>3, <1>4 DEF SameSessions, AuthRows

LEMMA AllRevoked ==
    ASSUME AuthRows, NEW u, revokeAllSessions(u)
    PROVE  SameSessions
<1> DEFINE row(j) == [authSession[j] EXCEPT !.revoked = @ \/ authSession[j].user = u]
<1>1. authSession' = [j \in DOMAIN authSession |-> row(j)]
    BY DEF revokeAllSessions
<1>2. ASSUME NEW j \in DOMAIN authSession
      PROVE  /\ row(j).user = authSession[j].user /\ row(j).from = authSession[j].from
             /\ row(j).origin = authSession[j].origin
  <2>1. authSession[j] \in SessionRow
      BY DEF AuthRows
  <2> QED
      BY <2>1 DEF SessionRow
<1> HIDE DEF row
<1> QED
    BY <1>1, <1>2 DEF SameSessions

\* A new session follows the rows there are.
LEMMA SessionAdded ==
    ASSUME AuthRows, UsersKnown, UNCHANGED <<users, challenge>>, NEW s \in Seq(SessionRow),
           Len(s) = Len(authSession),
           \A j \in DOMAIN authSession :
             /\ s[j].user = authSession[j].user /\ s[j].from = authSession[j].from
             /\ s[j].origin = authSession[j].origin,
           NEW u \in users, NEW kind \in Kinds, NEW i \in Nat,
           kind = "session" => i \in DOMAIN authSession,
           authSession' = Append(s, NewSession(u, kind, i))
    PROVE  UsersKnown'
<1>1. PICK row : row = NewSession(u, kind, i)
    OBVIOUS
<1>2. row.user = u /\ row.from = kind /\ row.origin = i /\ row \in SessionRow
  <2>1. u \in Addresses
      BY DEF AuthRows
  <2> QED
      BY <1>1, <2>1 DEF NewSession, SessionRow, Kinds
<1>3. PICK n \in Nat : n = Len(authSession) /\ DOMAIN authSession = 1 .. n
    BY DEF AuthRows
<1>4. authSession' = Append(s, row)
    BY <1>1
<1>5. /\ DOMAIN authSession' = 1 .. (n + 1) /\ authSession'[n + 1] = row
      /\ \A j \in 1 .. n : authSession'[j] = s[j]
    BY <1>2, <1>3, <1>4
<1>6. ASSUME NEW j \in 1 .. n PROVE SessionKnown(j, users)'
    BY <1>3, <1>5 DEF UsersKnown, SessionKnown
<1>7. SessionKnown(n + 1, users)'
    BY <1>2, <1>3, <1>5 DEF SessionKnown
<1>8. \A j \in DOMAIN authSession' : j \in 1 .. n \/ j = n + 1
    BY <1>5
<1> QED
    BY <1>6, <1>7, <1>8 DEF UsersKnown

LEMMA VerifyUsers ==
    ASSUME AuthInv, UsersKnown, NEW r \in Requests, NEW c, verifySignature(r, c)
    PROVE  UsersKnown'
<1>1. AuthRows /\ TokenInv
    BY DEF AuthInv, TokenInv
<1>2. CASE UNCHANGED <<users, challenge, authSession>>
    BY <1>2, SameUsers DEF SameChallenges, SameSessions
<1>3. CASE /\ challenge' = [challenge EXCEPT ![c].consumed = TRUE]
           /\ UNCHANGED <<users, authSession>>
    BY <1>1, <1>3, ChallengeEdited, SameUsers DEF SameSessions
<1>4. CASE /\ request[r] = [NoRequest EXCEPT !.op = "verified", !.row = c]
           /\ authSession' = Append(authSession, NewSession(challenge[c].user, "challenge", c))
           /\ UNCHANGED <<users, challenge>>
  <2>1. request[r].op = "verified" /\ request[r].row = c
      BY <1>4 DEF NoRequest
  <2>2. c \in DOMAIN challenge
      BY <1>1, <2>1 DEF TokenInv, RowKnown, Spending, Tokens, Kinds
  <2>3. c \in Nat /\ challenge[c].user \in users /\ authSession \in Seq(SessionRow)
      BY <1>1, <2>2 DEF AuthRows, UsersKnown
  <2>4. "challenge" \in Kinds /\ "challenge" # "session"
      BY DEF Kinds
  <2> QED
      BY <1>1, <1>4, <2>3, <2>4, SessionAdded
<1> QED
    BY <1>2, <1>3, <1>4 DEF verifySignature

LEMMA RefreshUsers ==
    ASSUME AuthInv, UsersKnown, NEW r \in Requests, NEW j, refreshTokens(r, j)
    PROVE  UsersKnown'
<1>1. AuthRows /\ TokenInv
    BY DEF AuthInv, TokenInv
<1>2. CASE UNCHANGED <<users, challenge, authSession>>
    BY <1>2, SameUsers DEF SameChallenges, SameSessions
<1>3. CASE /\ request[r] = [NoRequest EXCEPT !.op = "refresh", !.row = j]
           /\ authSession' = Append([authSession EXCEPT ![j].revoked = TRUE],
                                    NewSession(authSession[j].user, "session", j))
           /\ UNCHANGED <<users, challenge>>
  <2>1. request[r].op = "refresh" /\ request[r].row = j
      BY <1>3 DEF NoRequest
  <2>2. j \in DOMAIN authSession
      BY <1>1, <2>1 DEF TokenInv, RowKnown, Spending, Tokens, Kinds
  <2>3. PICK row : row = [authSession[j] EXCEPT !.revoked = TRUE]
      OBVIOUS
  <2>4. authSession[j] \in SessionRow /\ j \in Nat
      BY <1>1, <2>2 DEF AuthRows
  <2>5. /\ row.user = authSession[j].user /\ row.from = authSession[j].from
        /\ row.origin = authSession[j].origin /\ row \in SessionRow
      BY <2>3, <2>4 DEF SessionRow
  <2>6. PICK s : s = [authSession EXCEPT ![j] = row]
      OBVIOUS
  <2>7. /\ Len(s) = Len(authSession) /\ s \in Seq(SessionRow)
        /\ \A i \in DOMAIN authSession : s[i] = IF i = j THEN row ELSE authSession[i]
      BY <1>1, <2>2, <2>5, <2>6, ReplaceAtFacts DEF AuthRows
  <2>8. authSession' = Append(s, NewSession(authSession[j].user, "session", j))
      BY <1>3, <2>3, <2>6
  <2>9. authSession[j].user \in users /\ "session" \in Kinds
      BY <2>2 DEF UsersKnown, SessionKnown, Kinds
  <2>10. \A i \in DOMAIN authSession :
           /\ s[i].user = authSession[i].user /\ s[i].from = authSession[i].from
           /\ s[i].origin = authSession[i].origin
      BY <2>5, <2>7
  <2> QED
      BY <1>1, <1>3, <2>2, <2>4, <2>7, <2>8, <2>9, <2>10, SessionAdded
<1> QED
    BY <1>2, <1>3 DEF refreshTokens

LEMMA ChallengeUsers ==
    ASSUME AuthInv, UsersKnown, NEW a \in Addresses, NEW p \in {LOGIN, LINK_WALLET},
           NEW u \in Addresses \cup {Nobody}, generateChallenge(a, p, u)
    PROVE  UsersKnown'
<1> DEFINE row == [user |-> ChallengeUser(a, u), address |-> a, purpose |-> p,
                   consumed |-> FALSE, expired |-> FALSE]
<1>1. AuthRows
    BY DEF AuthInv, TokenInv
<1>2. challenge' = Append(challenge, row) /\ UNCHANGED authSession
    BY DEF generateChallenge
<1>3. users \subseteq users' /\ (Owner(a) = {} => a \in users')
    BY DEF generateChallenge
<1>4. ChallengeUser(a, u) \in users'
  <2>1. CASE u # Nobody
    <3>1. u \in users
        BY <2>1 DEF generateChallenge
    <3> QED
        BY <1>3, <2>1, <3>1 DEF ChallengeUser
  <2>2. CASE u = Nobody /\ Owner(a) = {}
      BY <1>3, <2>2 DEF ChallengeUser
  <2>3. CASE u = Nobody /\ Owner(a) # {}
    <3>1. ChallengeUser(a, u) \in Owner(a)
        BY <2>3 DEF ChallengeUser
    <3> QED
        BY <1>3, <3>1 DEF Owner
  <2> QED
      BY <2>1, <2>2, <2>3
<1>5. row.user \in users' /\ row \in ChallengeRow
  <2>1. ChallengeUser(a, u) \in Addresses
      BY <1>1, OwnerAddress DEF ChallengeUser, Nobody
  <2> QED
      BY <1>4, <2>1 DEF ChallengeRow
<1> HIDE DEF row
<1>6. PICK n \in Nat : n = Len(challenge) /\ DOMAIN challenge = 1 .. n
    BY <1>1 DEF AuthRows
<1>7. /\ DOMAIN challenge' = 1 .. (n + 1) /\ challenge'[n + 1] = row
      /\ \A c \in 1 .. n : challenge'[c] = challenge[c]
    BY <1>1, <1>2, <1>5, <1>6 DEF AuthRows
<1>8. \A c \in DOMAIN challenge' : c \in 1 .. n \/ c = n + 1
    BY <1>7
<1>9. \A c \in DOMAIN challenge' : challenge'[c].user \in users'
    BY <1>3, <1>5, <1>6, <1>7, <1>8 DEF UsersKnown
<1> QED
    BY <1>2, <1>3, <1>9 DEF UsersKnown, SessionKnown

LEMMA UsersStep == AuthInv /\ UsersKnown /\ [AuthNext]_authVars => UsersKnown'
<1> SUFFICES ASSUME AuthInv, UsersKnown, [AuthNext]_authVars PROVE UsersKnown'
    OBVIOUS
<1>1. AuthRows
    BY DEF AuthInv, TokenInv
<1>2. ASSUME UNCHANGED <<users, authSession>>, SameChallenges PROVE UsersKnown'
    BY <1>2, SameUsers DEF SameSessions
<1>3. ASSUME UNCHANGED <<users, challenge>>, SameSessions PROVE UsersKnown'
    BY <1>3, SameUsers DEF SameChallenges
<1>4. challenge' = challenge => SameChallenges
    BY DEF SameChallenges
<1>5. CASE \E r \in Requests : \E i : verifySignature(r, i) \/ refreshTokens(r, i)
    BY <1>5, VerifyUsers, RefreshUsers
<1>6. CASE \E j : logout(j)
    BY <1>1, <1>3, <1>6, SessionRevoked DEF logout
<1>7. CASE \E u : revokeAllSessions(u)
  <2>1. SameSessions
      BY <1>1, <1>7, AllRevoked
  <2> QED
      BY <1>3, <1>7, <2>1 DEF revokeAllSessions
<1>8. CASE \E a \in Addresses, p \in {LOGIN, LINK_WALLET}, u \in Addresses \cup {Nobody} :
             generateChallenge(a, p, u)
    BY <1>8, ChallengeUsers
<1>9. CASE \E c : ExpireChallenge(c)
    BY <1>1, <1>2, <1>9, ChallengeEdited DEF ExpireChallenge
<1>10. CASE \E r \in Requests : WalletStep(r)
  <2>1. PICK r \in Requests, u \in Addresses, a \in Addresses :
          (\E c : linkWallet(r, u, a, c)) \/ unlinkWallet(r, u, a) \/ setPrimaryWallet(r, u, a)
      BY <1>10 DEF WalletStep
  <2>2. CASE \E c : linkWallet(r, u, a, c)
    <3>1. PICK c : linkWallet(r, u, a, c)
        BY <2>2
    <3>2. UNCHANGED <<users, authSession>>
        BY <3>1 DEF linkWallet, Begin, Abort
    <3>3. challenge' = challenge \/ challenge' = [challenge EXCEPT ![c].consumed = TRUE]
        BY <3>1 DEF linkWallet, Begin, Abort
    <3> QED
        BY <1>1, <1>2, <1>4, <3>2, <3>3, ChallengeEdited
  <2>3. CASE unlinkWallet(r, u, a)
      BY <1>2, <1>4, <2>3 DEF unlinkWallet, Begin, Abort
  <2>4. CASE setPrimaryWallet(r, u, a)
      BY <1>2, <1>4, <2>4 DEF setPrimaryWallet, Begin, Abort
  <2> QED
      BY <2>1, <2>2, <2>3, <2>4
<1>11. CASE UNCHANGED authVars
    BY <1>2, <1>4, <1>11 DEF authVars
<1> QED
    BY <1>5, <1>6, <1>7, <1>8, <1>9, <1>10, <1>11 DEF AuthNext, SessionStep

\* However requests overlap, every challenge and every session belongs to a user, a
\* session comes from a challenge or from an earlier session, and only a user's row is
\* locked (auth.service.ts).
THEOREM AuthTypeCorrect == AuthSpec => []AuthTypeOK
<1>1. AuthInv /\ UsersKnown => AuthTypeOK
  <2> SUFFICES ASSUME AuthInv, UsersKnown PROVE AuthTypeOK
      OBVIOUS
  <2>1. AuthRows /\ TokenInv /\ WalletInv
      BY DEF AuthInv, TokenInv
  <2>2. ASSUME NEW c \in DOMAIN challenge
        PROVE  challenge[c] \in [user : users, address : Addresses, purpose : {LOGIN, LINK_WALLET},
                                 consumed : BOOLEAN, expired : BOOLEAN]
    <3>1. challenge[c] \in ChallengeRow /\ challenge[c].user \in users
        BY <2>1 DEF AuthRows, UsersKnown
    <3> QED
        BY <3>1 DEF ChallengeRow
  <2>3. ASSUME NEW j \in DOMAIN authSession
        PROVE  /\ authSession[j].user \in users
               /\ authSession[j].origin \in IF authSession[j].from = "session" THEN 1 .. (j - 1)
                                            ELSE DOMAIN challenge
    <3>1. SessionKnown(j, users) /\ OriginKnown(j) /\ j \in Nat
        BY <2>1 DEF UsersKnown, TokenInv, AuthRows
    <3>2. CASE authSession[j].from = "session"
      <4>1. authSession[j].origin \in DOMAIN authSession /\ authSession[j].origin < j
          BY <3>1, <3>2 DEF SessionKnown, OriginKnown, Tokens
      <4>2. authSession[j].origin \in 1 .. (j - 1)
          BY <2>1, <3>1, <4>1 DEF AuthRows
      <4> QED
          BY <3>1, <3>2, <4>2 DEF SessionKnown
    <3>3. CASE authSession[j].from # "session"
        BY <3>1, <3>3 DEF SessionKnown, OriginKnown, Tokens
    <3> QED
        BY <3>2, <3>3
  <2>4. \A r \in Requests : request[r].user \in users \cup {Nobody}
      BY <2>1 DEF WalletInv, LockSound
  <2> QED
      BY <2>1, <2>2, <2>3, <2>4 DEF AuthTypeOK, AuthRows
<1>2. AuthInit => UsersKnown
    BY DEF AuthInit, UsersKnown
<1>3. AuthInv /\ UsersKnown /\ [AuthNext]_authVars => (AuthInv /\ UsersKnown)'
    BY AuthStep, UsersStep
<1> QED
    BY <1>1, <1>2, <1>3, AuthInitial, PTL DEF AuthSpec

----------------------------------------------------------------------------
(* The oracles' records.  The invariant has the shape of what a call has left *)
(* to do (a slash is preceded by its check and followed by the count of a     *)
(* failure, a commit is last), and counts, per oracle, the calls that have    *)
(* passed a check and not yet written, and those that owe a count.            *)

\* The function that FlattenSeq computes with, up to m.
Flattens(g, seqs, m) ==
    g = [i \in 1 .. m |-> IF i = 1 THEN seqs[i] ELSE g[i - 1] \o seqs[i]]

LEMMA FlattenExists ==
    ASSUME NEW seqs, NEW m \in Nat
    PROVE  \E g : Flattens(g, seqs, m)
<1> DEFINE Bad == {n \in Nat : ~\E g : Flattens(g, seqs, n)}
<1>1. Bad = {}
  <2> SUFFICES ASSUME Bad # {} PROVE FALSE
      OBVIOUS
  <2>1. PICK n \in Bad : \A b \in Bad : n <= b
      BY LeastNumber
  <2>2. n # 0
    <3> DEFINE g == [i \in 1 .. 0 |-> i]
    <3>1. Flattens(g, seqs, 0)
        BY DEF Flattens
    <3> QED
        BY <3>1
  <2>3. n - 1 \in Nat /\ n - 1 \notin Bad
      BY <2>1, <2>2
  <2>4. PICK g : Flattens(g, seqs, n - 1)
      BY <2>3
  <2> DEFINE h == [i \in 1 .. n |-> IF i = n THEN (IF n = 1 THEN seqs[n] ELSE g[n - 1] \o seqs[n])
                                    ELSE g[i]]
  <2>5. ASSUME NEW i \in 1 .. n PROVE h[i] = IF i = 1 THEN seqs[i] ELSE h[i - 1] \o seqs[i]
    <3>1. i # 1 => i - 1 \in 1 .. n /\ h[i - 1] = g[i - 1]
        BY <2>3
    <3>2. CASE i = n
        BY <3>1, <3>2
    <3>3. CASE i # n
      <4>1. i \in 1 .. (n - 1)
          BY <3>3
      <4>2. g[i] = IF i = 1 THEN seqs[i] ELSE g[i - 1] \o seqs[i]
          BY <2>4, <4>1 DEF Flattens
      <4> QED
          BY <3>1, <3>3, <4>2
    <3> QED
        BY <3>2, <3>3
  <2>6. Flattens(h, seqs, n)
      BY <2>5 DEF Flattens
  <2> QED
      BY <2>6
<1> QED
    BY <1>1

\* FlattenSeq appends one sequence after the other.
LEMMA FlattenFacts ==
    ASSUME NEW seqs, Len(seqs) \in Nat, Len(seqs) # 0
    PROVE  \E g : /\ FlattenSeq(seqs) = g[Len(seqs)]
                  /\ \A i \in 1 .. Len(seqs) :
                       g[i] = IF i = 1 THEN seqs[i] ELSE g[i - 1] \o seqs[i]
<1> DEFINE g == CHOOSE f : Flattens(f, seqs, Len(seqs))
<1>1. FlattenSeq(seqs) = g[Len(seqs)]
    BY DEF FlattenSeq, Flattens
<1>2. Flattens(g, seqs, Len(seqs))
    BY FlattenExists
<1> HIDE DEF g
<1>3. \A i \in 1 .. Len(seqs) : g[i] = IF i = 1 THEN seqs[i] ELSE g[i - 1] \o seqs[i]
    BY <1>2 DEF Flattens
<1> QED
    BY <1>1, <1>3

----------------------------------------------------------------------------

Step == [do : {"create", "reactivate", "limit", "confirm", "read", "write", "count", "check",
               "slash", "update", "commit", "sign"}, node : Nodes \cup {"none"}]

\* What is before and what is after some steps of a list.
Follows(t, i) ==
    /\ t[i].do = "confirm" => t[i - 1] = Do("limit", t[i].node)
    /\ t[i].do = "slash" => t[i - 1] = Do("check", t[i].node)
Leads(t, i) ==
    /\ t[i].do = "slash" => t[i + 1] = Do("read", t[i].node)
    /\ t[i].do = "read" => t[i + 1] = Do("write", t[i].node)
    /\ t[i].do = "write" => t[i + 1] = Do("count", t[i].node)

Shaped(t) ==
    \A i \in DOMAIN t :
       /\ i > 1 => Follows(t, i)
       /\ t[i].do \in {"slash", "read", "write"} => i < Len(t) /\ Leads(t, i)
       /\ t[i].do = "commit" => i = Len(t)
       /\ t[i].do \in {"sign", "update"} => Len(t) = 1
       /\ t[i].do \notin {"commit", "update"} => t[i].node \in Nodes

\* A list of penalties, without the commit.
Penalties(t) ==
    /\ t \in Seq(Step) /\ Len(t) > 0 /\ t[1].do \in {"read", "check"}
    /\ \A i \in DOMAIN t :
         /\ t[i].do \in {"read", "write", "count", "check", "slash"} /\ t[i].node \in Nodes
         /\ i > 1 => Follows(t, i)
         /\ t[i].do \in {"slash", "read", "write"} => i < Len(t) /\ Leads(t, i)

LEMMA ConcatFacts ==
    ASSUME NEW S, NEW a \in Seq(S), NEW b \in Seq(S)
    PROVE  /\ a \o b \in Seq(S) /\ Len(a \o b) = Len(a) + Len(b)
           /\ Len(a) \in Nat /\ Len(b) \in Nat
           /\ DOMAIN a = 1 .. Len(a) /\ DOMAIN b = 1 .. Len(b)
           /\ DOMAIN (a \o b) = 1 .. (Len(a) + Len(b))
           /\ \A i \in 1 .. Len(a) : (a \o b)[i] = a[i]
           /\ \A i \in 1 .. Len(b) : (a \o b)[Len(a) + i] = b[i]
    OBVIOUS

LEMMA EmptyConcat == ASSUME NEW S, NEW s \in Seq(S) PROVE <<>> \o s = s
    OBVIOUS

LEMMA PenaltiesJoin ==
    ASSUME NEW a, NEW b, Penalties(a), Penalties(b)
    PROVE  Penalties(a \o b)
<1>1. PICK t : t = a \o b
    OBVIOUS
<1>2. a \in Seq(Step) /\ b \in Seq(Step) /\ Len(a) > 0 /\ Len(b) > 0
    BY DEF Penalties
<1>3. PICK m \in Nat : m = Len(a)
    BY <1>2
<1>4. PICK n \in Nat : n = Len(b)
    BY <1>2
<1>5. /\ t \in Seq(Step) /\ Len(t) = m + n /\ DOMAIN t = 1 .. (m + n)
      /\ DOMAIN a = 1 .. m /\ DOMAIN b = 1 .. n
      /\ \A i \in 1 .. m : t[i] = a[i]
      /\ \A i \in 1 .. n : t[m + i] = b[i]
    BY <1>1, <1>2, <1>3, <1>4, ConcatFacts
<1>6. ASSUME NEW i \in 1 .. m
      PROVE  /\ t[i].do \in {"read", "write", "count", "check", "slash"} /\ t[i].node \in Nodes
             /\ i > 1 => Follows(t, i)
             /\ t[i].do \in {"slash", "read", "write"} => i < Len(t) /\ Leads(t, i)
  <2>1. t[i] = a[i] /\ (i > 1 => t[i - 1] = a[i - 1]) /\ (i < m => t[i + 1] = a[i + 1])
      BY <1>5
  <2>2. /\ a[i].do \in {"read", "write", "count", "check", "slash"} /\ a[i].node \in Nodes
        /\ i > 1 => Follows(a, i)
        /\ a[i].do \in {"slash", "read", "write"} => i < m /\ Leads(a, i)
      BY <1>3, <1>5 DEF Penalties
  <2>3. m < Len(t)
      BY <1>2, <1>4, <1>5
  <2> QED
      BY <1>5, <2>1, <2>2, <2>3 DEF Follows, Leads
<1>7. ASSUME NEW i \in 1 .. n
      PROVE  /\ t[m + i].do \in {"read", "write", "count", "check", "slash"}
             /\ t[m + i].node \in Nodes /\ Follows(t, m + i)
             /\ t[m + i].do \in {"slash", "read", "write"} => m + i < Len(t) /\ Leads(t, m + i)
  <2>1. t[m + i] = b[i]
      BY <1>5
  <2>2. i > 1 => t[m + i - 1] = b[i - 1]
    <3>1. i > 1 => i - 1 \in 1 .. n /\ m + (i - 1) = m + i - 1
        OBVIOUS
    <3> QED
        BY <1>5, <3>1
  <2>3. i < n => t[m + i + 1] = b[i + 1]
    <3>1. i < n => i + 1 \in 1 .. n /\ m + (i + 1) = m + i + 1
        OBVIOUS
    <3> QED
        BY <1>5, <3>1
  <2>4. b[1].do \in {"read", "check"}
      BY DEF Penalties
  <2>5. Follows(t, m + i)
    <3>1. CASE i = 1
        BY <2>1, <2>4, <3>1 DEF Follows
    <3>2. CASE i > 1
      <4>1. Follows(b, i)
          BY <1>5, <3>2 DEF Penalties
      <4> QED
          BY <2>1, <2>2, <3>2, <4>1 DEF Follows
    <3> QED
        BY <3>1, <3>2
  <2>6. b[i].do \in {"slash", "read", "write"} => i < n /\ Leads(b, i)
      BY <1>4, <1>5 DEF Penalties
  <2>7. b[i].do \in {"slash", "read", "write"} => m + i < Len(t) /\ Leads(t, m + i)
      BY <1>5, <2>1, <2>3, <2>6 DEF Leads
  <2>8. b[i].do \in {"read", "write", "count", "check", "slash"} /\ b[i].node \in Nodes
      BY <1>5 DEF Penalties
  <2> QED
      BY <2>1, <2>5, <2>7, <2>8
<1>8. \A i \in 1 .. (m + n) : i \in 1 .. m \/ \E j \in 1 .. n : i = m + j
  <2> SUFFICES ASSUME NEW i \in 1 .. (m + n), i > m PROVE \E j \in 1 .. n : i = m + j
      OBVIOUS
  <2>1. i - m \in 1 .. n /\ i = m + (i - m)
      OBVIOUS
  <2> QED
      BY <2>1
<1>9. Len(t) > 0 /\ t[1].do \in {"read", "check"}
    BY <1>2, <1>3, <1>4, <1>5 DEF Penalties
<1>10. \A i \in 1 .. (m + n) :
         /\ t[i].do \in {"read", "write", "count", "check", "slash"} /\ t[i].node \in Nodes
         /\ i > 1 => Follows(t, i)
         /\ t[i].do \in {"slash", "read", "write"} => i < Len(t) /\ Leads(t, i)
    BY <1>6, <1>7, <1>8
<1> QED
    BY <1>1, <1>5, <1>9, <1>10 DEF Penalties

LEMMA CommitShaped ==
    ASSUME NEW a, Penalties(a), NEW t, t = a \o <<Do("commit", "none")>>
    PROVE  t \in Seq(Step) /\ Shaped(t)
<1> DEFINE b == <<Do("commit", "none")>>
<1>1. a \in Seq(Step) /\ b \in Seq(Step) /\ Len(b) = 1 /\ b[1] = Do("commit", "none")
    BY DEF Penalties, Do, Step
<1>2. PICK m \in Nat : m = Len(a)
    BY <1>1
<1> HIDE DEF b
<1>3. /\ t \in Seq(Step) /\ Len(t) = m + 1 /\ DOMAIN t = 1 .. (m + 1) /\ DOMAIN a = 1 .. m
      /\ \A i \in 1 .. m : t[i] = a[i]
      /\ t[m + 1] = Do("commit", "none")
  <2>1. t = a \o b
      BY DEF b
  <2> QED
      BY <1>1, <1>2, <2>1, ConcatFacts
<1>4. ASSUME NEW i \in 1 .. m
      PROVE  /\ t[i].do \in {"read", "write", "count", "check", "slash"} /\ t[i].node \in Nodes
             /\ i > 1 => Follows(t, i)
             /\ t[i].do \in {"slash", "read", "write"} => i < Len(t) /\ Leads(t, i)
  <2>1. t[i] = a[i] /\ (i > 1 => t[i - 1] = a[i - 1]) /\ (i < m => t[i + 1] = a[i + 1])
      BY <1>3
  <2> QED
      BY <1>2, <1>3, <2>1 DEF Penalties, Follows, Leads
<1>5. t[m + 1].do = "commit"
    BY <1>3 DEF Do
<1>6. \A i \in 1 .. (m + 1) : i \in 1 .. m \/ i = m + 1
    OBVIOUS
<1> QED
    BY <1>3, <1>4, <1>5, <1>6 DEF Shaped, Follows

\* Steps that are about an oracle, or about one of a list.
Concerns(t, o) == \A i \in DOMAIN t : t[i].node = o
ConcernsOneOf(t, losers) == \A i \in DOMAIN t : \E j \in DOMAIN losers : t[i].node = losers[j]

LEMMA ReputationSteps ==
    ASSUME NEW o \in Nodes
    PROVE  /\ Penalties(updateReputation(o))
           /\ Concerns(updateReputation(o), o)
<1>1. PICK t : t = updateReputation(o)
    OBVIOUS
<1>2. /\ Do("read", o) \in Step /\ Do("write", o) \in Step /\ Do("count", o) \in Step
      /\ \A s \in {"read", "write", "count"} : Do(s, o).do = s /\ Do(s, o).node = o
    BY DEF Do, Step
<1>3. /\ t \in Seq(Step) /\ Len(t) = 3 /\ DOMAIN t = {1, 2, 3}
      /\ t[1] = Do("read", o) /\ t[2] = Do("write", o) /\ t[3] = Do("count", o)
    BY <1>1, <1>2 DEF updateReputation
<1> QED
    BY <1>1, <1>2, <1>3 DEF Penalties, Follows, Leads, Concerns

LEMMA SlashSteps ==
    ASSUME NEW o \in Nodes
    PROVE  /\ Penalties(slashStake(o)) /\ slashStake(o)[2] = Do("slash", o) /\ Len(slashStake(o)) = 5
           /\ Concerns(slashStake(o), o)
<1> DEFINE a == <<Do("check", o), Do("slash", o)>>
           b == <<Do("read", o), Do("write", o), Do("count", o)>>
<1>1. PICK t : t = slashStake(o)
    OBVIOUS
<1>2. /\ \A s \in {"check", "slash", "read", "write", "count"} :
           Do(s, o) \in Step /\ Do(s, o).do = s /\ Do(s, o).node = o
    BY DEF Do, Step
<1>3. a \in Seq(Step) /\ Len(a) = 2 /\ a[1] = Do("check", o) /\ a[2] = Do("slash", o)
    BY <1>2
<1>4. /\ b \in Seq(Step) /\ Len(b) = 3
      /\ b[1] = Do("read", o) /\ b[2] = Do("write", o) /\ b[3] = Do("count", o)
    BY <1>2
<1>5. t = a \o b
    BY <1>1 DEF slashStake, updateReputation
<1> HIDE DEF a, b
<1>6. /\ t \in Seq(Step) /\ Len(t) = 5 /\ DOMAIN t = 1 .. 5
      /\ t[1] = a[1] /\ t[2] = a[2] /\ \A i \in 1 .. 3 : t[2 + i] = b[i]
  <2>1. /\ t \in Seq(Step) /\ Len(t) = Len(a) + Len(b) /\ DOMAIN t = 1 .. (Len(a) + Len(b))
        /\ \A i \in 1 .. Len(a) : t[i] = a[i]
        /\ \A i \in 1 .. Len(b) : t[Len(a) + i] = b[i]
    <3>1. a \in Seq(Step) /\ b \in Seq(Step)
        BY <1>3, <1>4
    <3> QED
        BY <1>5, <3>1, ConcatFacts
  <2> QED
      BY <1>3, <1>4, <2>1
<1>7. t[3] = b[1] /\ t[4] = b[2] /\ t[5] = b[3]
  <2>1. t[2 + 1] = b[1] /\ t[2 + 2] = b[2] /\ t[2 + 3] = b[3]
      BY <1>6
  <2> QED
      BY <2>1
<1>8. DOMAIN t = {1, 2, 3, 4, 5}
    BY <1>6
<1> QED
    BY <1>1, <1>2, <1>3, <1>4, <1>6, <1>7, <1>8 DEF Penalties, Follows, Leads, Concerns

\* Whether an oracle is slashed in them.
Slashes(t, o) == \E i \in DOMAIN t : t[i] = Do("slash", o)

LEMMA JoinSlashes ==
    ASSUME NEW a \in Seq(Step), NEW b \in Seq(Step), NEW o, Slashes(a, o) \/ Slashes(b, o)
    PROVE  Slashes(a \o b, o)
<1>1. PICK t : t = a \o b
    OBVIOUS
<1>2. PICK m \in Nat, n \in Nat : m = Len(a) /\ n = Len(b)
    OBVIOUS
<1>3. /\ DOMAIN t = 1 .. (m + n) /\ DOMAIN a = 1 .. m /\ DOMAIN b = 1 .. n
      /\ \A i \in 1 .. m : t[i] = a[i]
      /\ \A i \in 1 .. n : t[m + i] = b[i]
    BY <1>1, <1>2, ConcatFacts
<1>4. CASE Slashes(a, o)
  <2>1. PICK i \in 1 .. m : a[i] = Do("slash", o)
      BY <1>3, <1>4 DEF Slashes
  <2>2. i \in DOMAIN t /\ t[i] = Do("slash", o)
      BY <1>3, <2>1
  <2> QED
      BY <1>1, <2>2 DEF Slashes
<1>5. CASE Slashes(b, o)
  <2>1. PICK i \in 1 .. n : b[i] = Do("slash", o)
      BY <1>3, <1>5 DEF Slashes
  <2>2. m + i \in DOMAIN t /\ t[m + i] = Do("slash", o)
      BY <1>3, <2>1
  <2> QED
      BY <1>1, <2>2 DEF Slashes
<1> QED
    BY <1>4, <1>5

OneOf(t, a, b) ==
    \A i \in DOMAIN t : (\E j \in DOMAIN a : t[i] = a[j]) \/ (\E j \in DOMAIN b : t[i] = b[j])

LEMMA ConcatElements ==
    ASSUME NEW S, NEW a \in Seq(S), NEW b \in Seq(S)
    PROVE  OneOf(a \o b, a, b)
<1> DEFINE t == a \o b
<1>1. SUFFICES ASSUME NEW i \in DOMAIN t
               PROVE  (\E j \in DOMAIN a : t[i] = a[j]) \/ (\E j \in DOMAIN b : t[i] = b[j])
    BY DEF OneOf
<1>2. PICK m \in Nat, n \in Nat : m = Len(a) /\ n = Len(b)
    OBVIOUS
<1>3. /\ DOMAIN t = 1 .. (m + n) /\ DOMAIN a = 1 .. m /\ DOMAIN b = 1 .. n
      /\ \A j \in 1 .. m : t[j] = a[j]
      /\ \A j \in 1 .. n : t[m + j] = b[j]
    BY <1>2, ConcatFacts
<1> HIDE DEF t
<1>4. CASE i <= m
    BY <1>1, <1>3, <1>4
<1>5. CASE i > m
  <2>1. i - m \in 1 .. n /\ i = m + (i - m)
      BY <1>1, <1>3, <1>5
  <2>2. t[i] = b[i - m]
      BY <1>3, <2>1
  <2> QED
      BY <1>1, <1>3, <2>1, <2>2
<1> QED
    BY <1>1, <1>3, <1>4, <1>5

\* What Penalty makes of a list of oracles.
Punishes(t, losers, n, outcome) ==
    /\ Penalties(t)
    /\ outcome = "failure" => \A i \in 1 .. n : Slashes(t, losers[i])
    /\ outcome # "failure" => \A i \in DOMAIN t : t[i].do # "slash"
    /\ ConcernsOneOf(t, losers)

LEMMA BlockPunishes ==
    ASSUME NEW o \in Nodes, NEW outcome, NEW t,
           t = IF outcome = "failure" THEN updateReputation(o) \o slashStake(o)
               ELSE updateReputation(o)
    PROVE  /\ Penalties(t)
           /\ outcome = "failure" => Slashes(t, o)
           /\ outcome # "failure" => \A i \in DOMAIN t : t[i].do # "slash"
           /\ Concerns(t, o)
<1>1. Penalties(updateReputation(o)) /\ Penalties(slashStake(o))
    BY ReputationSteps, SlashSteps
<1>2. CASE outcome = "failure"
  <2>1. Penalties(t)
      BY <1>1, <1>2, PenaltiesJoin
  <2>2. Slashes(slashStake(o), o)
    <3>1. slashStake(o) \in Seq(Step) /\ Len(slashStake(o)) = 5 /\ slashStake(o)[2] = Do("slash", o)
        BY <1>1, SlashSteps DEF Penalties
    <3>2. 2 \in DOMAIN slashStake(o)
        BY <3>1
    <3> QED
        BY <3>1, <3>2 DEF Slashes
  <2>3. Slashes(t, o)
      BY <1>1, <1>2, <2>2, JoinSlashes DEF Penalties
  <2>4. Concerns(t, o)
    <3>1. OneOf(t, updateReputation(o), slashStake(o))
        BY <1>1, <1>2, ConcatElements DEF Penalties
    <3> QED
        BY <3>1, ReputationSteps, SlashSteps DEF OneOf, Concerns
  <2> QED
      BY <1>2, <2>1, <2>3, <2>4
<1>3. CASE outcome # "failure"
  <2>1. t = <<Do("read", o), Do("write", o), Do("count", o)>>
      BY <1>3 DEF updateReputation
  <2>2. DOMAIN t = {1, 2, 3} /\ t[1].do = "read" /\ t[2].do = "write" /\ t[3].do = "count"
      BY <2>1 DEF Do
  <2>3. Concerns(t, o)
      BY <1>3, ReputationSteps
  <2> QED
      BY <1>1, <1>3, <2>2, <2>3
<1> QED
    BY <1>2, <1>3

LEMMA BlocksPunish ==
    ASSUME NEW losers \in Seq(Nodes), NEW outcome, Len(losers) # 0, NEW seqs,
           seqs = [i \in DOMAIN losers |->
                     IF outcome = "failure" THEN updateReputation(losers[i]) \o slashStake(losers[i])
                     ELSE updateReputation(losers[i])]
    PROVE  Punishes(FlattenSeq(seqs), losers, Len(losers), outcome)
<1>1. PICK n \in Nat : n = Len(losers) /\ DOMAIN losers = 1 .. n /\ n # 0
    OBVIOUS
<1>2. ASSUME NEW i \in 1 .. n
      PROVE  /\ Penalties(seqs[i])
             /\ outcome = "failure" => Slashes(seqs[i], losers[i])
             /\ outcome # "failure" => \A j \in DOMAIN seqs[i] : seqs[i][j].do # "slash"
             /\ Concerns(seqs[i], losers[i])
  <2>1. losers[i] \in Nodes
      BY <1>1
  <2>2. PICK t : /\ t = seqs[i]
                 /\ t = IF outcome = "failure" THEN updateReputation(losers[i]) \o slashStake(losers[i])
                        ELSE updateReputation(losers[i])
      BY <1>1
  <2>3. /\ Penalties(t)
        /\ outcome = "failure" => Slashes(t, losers[i])
        /\ outcome # "failure" => \A j \in DOMAIN t : t[j].do # "slash"
        /\ Concerns(t, losers[i])
      BY <2>1, <2>2, BlockPunishes
  <2> QED
      BY <2>2, <2>3
<1>3. Len(seqs) = n
    BY <1>1
<1>4. PICK g : /\ FlattenSeq(seqs) = g[n]
               /\ \A i \in 1 .. n : g[i] = IF i = 1 THEN seqs[i] ELSE g[i - 1] \o seqs[i]
  <2>1. Len(seqs) \in Nat /\ Len(seqs) # 0
      BY <1>1, <1>3
  <2>2. \E g : /\ FlattenSeq(seqs) = g[Len(seqs)]
               /\ \A i \in 1 .. Len(seqs) :
                    g[i] = IF i = 1 THEN seqs[i] ELSE g[i - 1] \o seqs[i]
      BY <2>1, FlattenFacts
  <2> QED
      BY <1>3, <2>2
<1> DEFINE Bad == {i \in Nat : i \in 1 .. n /\ ~Punishes(g[i], losers, i, outcome)}
<1>5. Bad = {}
  <2> SUFFICES ASSUME Bad # {} PROVE FALSE
      OBVIOUS
  <2>1. PICK m \in Bad : \A b \in Bad : m <= b
      BY LeastNumber
  <2>2. m \in 1 .. n /\ ~Punishes(g[m], losers, m, outcome)
      OBVIOUS
  <2>3. CASE m = 1
    <3>1. g[1] = seqs[1]
        BY <1>4, <2>2, <2>3
    <3>2. 1 \in 1 .. n /\ \A i \in 1 .. 1 : i = 1
        BY <2>2, <2>3
    <3>3. Punishes(g[1], losers, 1, outcome)
      <4>1. PICK t : t = g[1] /\ t = seqs[1]
          BY <3>1
      <4>2. /\ Penalties(t)
            /\ outcome = "failure" => Slashes(t, losers[1])
            /\ outcome # "failure" => \A j \in DOMAIN t : t[j].do # "slash"
            /\ Concerns(t, losers[1])
          BY <1>2, <3>2, <4>1
      <4>3. Punishes(t, losers, 1, outcome)
          BY <1>1, <3>2, <4>2 DEF Punishes, Concerns, ConcernsOneOf
      <4> QED
          BY <4>1, <4>3
    <3> QED
        BY <2>2, <2>3, <3>3
  <2>4. CASE m # 1
    <3>1. m - 1 \in 1 .. n /\ m - 1 \notin Bad
        BY <2>1, <2>2, <2>4
    <3>2. Punishes(g[m - 1], losers, m - 1, outcome)
        BY <3>1
    <3>3. PICK a, b : a = g[m - 1] /\ b = seqs[m]
        OBVIOUS
    <3>4. g[m] = a \o b /\ Penalties(a) /\ Penalties(b)
        BY <1>2, <1>4, <2>2, <2>4, <3>2, <3>3 DEF Punishes
    <3>5. a \in Seq(Step) /\ b \in Seq(Step)
        BY <3>4 DEF Penalties
    <3>6. Penalties(a \o b)
        BY <3>4, PenaltiesJoin
    <3>7. ASSUME outcome = "failure", NEW i \in 1 .. m PROVE Slashes(a \o b, losers[i])
      <4>1. i \in 1 .. (m - 1) \/ i = m
          BY <2>2
      <4>2. Slashes(a, losers[i]) \/ Slashes(b, losers[i])
          BY <1>2, <2>2, <3>2, <3>3, <3>7, <4>1 DEF Punishes
      <4> QED
          BY <3>5, <4>2, JoinSlashes
    <3>8. ASSUME outcome # "failure", NEW i \in DOMAIN (a \o b) PROVE (a \o b)[i].do # "slash"
      <4>1. \/ \E j \in DOMAIN a : (a \o b)[i] = a[j]
            \/ \E j \in DOMAIN b : (a \o b)[i] = b[j]
        <5>1. OneOf(a \o b, a, b)
            BY <3>5, ConcatElements
        <5> QED
            BY <5>1 DEF OneOf
      <4>2. /\ \A j \in DOMAIN a : a[j].do # "slash"
            /\ \A j \in DOMAIN b : b[j].do # "slash"
          BY <1>2, <2>2, <3>2, <3>3, <3>8 DEF Punishes
      <4> QED
          BY <4>1, <4>2
    <3>9. ConcernsOneOf(a \o b, losers)
      <4>1. PICK t : t = a \o b /\ OneOf(t, a, b)
          BY <3>5, ConcatElements
      <4>2. ConcernsOneOf(a, losers) /\ Concerns(b, losers[m]) /\ m \in DOMAIN losers
          BY <1>1, <1>2, <2>2, <3>2, <3>3 DEF Punishes
      <4>3. ASSUME NEW i \in DOMAIN t PROVE \E j \in DOMAIN losers : t[i].node = losers[j]
        <5>1. CASE \E j \in DOMAIN a : t[i] = a[j]
            BY <4>2, <5>1 DEF ConcernsOneOf
        <5>2. CASE \E j \in DOMAIN b : t[i] = b[j]
            BY <4>2, <5>2 DEF Concerns
        <5> QED
            BY <4>1, <5>1, <5>2 DEF OneOf
      <4>4. ConcernsOneOf(t, losers)
          BY <4>3 DEF ConcernsOneOf
      <4> QED
          BY <4>1, <4>4
    <3> QED
        BY <2>2, <3>4, <3>6, <3>7, <3>8, <3>9 DEF Punishes
  <2> QED
      BY <2>3, <2>4
<1>6. Punishes(g[n], losers, n, outcome)
    BY <1>1, <1>5
<1> QED
    BY <1>1, <1>4, <1>6

LEMMA PenaltyFacts ==
    ASSUME NEW losers \in Seq(Nodes), NEW outcome, NEW t, t = Penalty(losers, outcome)
    PROVE  /\ t \in Seq(Step) /\ Shaped(t) /\ Len(t) > 0
           /\ t[1].do \in {"read", "check", "commit"}
           /\ \A i \in DOMAIN t : t[i].do \in {"read", "write", "count", "check", "slash", "commit"}
           /\ outcome = "failure" => \A i \in DOMAIN losers : Slashes(t, losers[i])
           /\ outcome # "failure" => \A i \in DOMAIN t : t[i].do # "slash"
           /\ \A i \in DOMAIN t : t[i].do = "commit" \/ \E j \in DOMAIN losers : t[i].node = losers[j]
<1> DEFINE seqs == [i \in DOMAIN losers |->
                      IF outcome = "failure" THEN updateReputation(losers[i]) \o slashStake(losers[i])
                      ELSE updateReputation(losers[i])]
           end == <<Do("commit", "none")>>
<1>1. t = FlattenSeq(seqs) \o end
    BY DEF Penalty
<1>2. end \in Seq(Step) /\ Len(end) = 1 /\ DOMAIN end = {1} /\ end[1].do = "commit"
    BY DEF Do, Step
<1>3. CASE Len(losers) = 0
  <2>1. losers = <<>> /\ DOMAIN losers = {} /\ Len(seqs) = 0
      BY <1>3
  <2>2. FlattenSeq(seqs) = <<>>
      BY <2>1 DEF FlattenSeq
  <2>3. t = end
    <3>1. end \in Seq(Step)
        BY <1>2
    <3> QED
        BY <1>1, <2>2, <3>1, EmptyConcat
  <2> HIDE DEF end
  <2>4. Shaped(t)
      BY <1>2, <2>3 DEF Shaped
  <2> QED
      BY <1>2, <2>1, <2>3, <2>4
<1>4. CASE Len(losers) # 0
  <2>1. PICK a : a = FlattenSeq(seqs)
      OBVIOUS
  <2>2. Punishes(a, losers, Len(losers), outcome)
      BY <1>4, <2>1, BlocksPunish
  <2>3. Penalties(a) /\ a \in Seq(Step) /\ Len(a) > 0 /\ t = a \o end
      BY <1>1, <2>1, <2>2 DEF Punishes, Penalties
  <2>4. t \in Seq(Step) /\ Shaped(t)
      BY <2>3, CommitShaped
  <2> HIDE DEF end
  <2>5. Len(t) > 0 /\ t[1] = a[1]
      BY <1>2, <2>3, ConcatFacts
  <2>6. \A i \in DOMAIN t : t[i].do = "commit" \/ \E j \in DOMAIN a : t[i] = a[j]
    <3>1. \A i \in DOMAIN t : (\E j \in DOMAIN a : t[i] = a[j]) \/ (\E j \in DOMAIN end : t[i] = end[j])
      <4>1. a \in Seq(Step) /\ end \in Seq(Step) /\ t = a \o end
          BY <1>2, <2>3
      <4>2. OneOf(a \o end, a, end)
          BY <4>1, ConcatElements
      <4> QED
          BY <4>1, <4>2 DEF OneOf
    <3> QED
        BY <1>2, <3>1
  <2>7. /\ a[1].do \in {"read", "check"}
        /\ \A j \in DOMAIN a : a[j].do \in {"read", "write", "count", "check", "slash"}
      BY <2>3 DEF Penalties
  <2>8. outcome = "failure" => \A i \in DOMAIN losers : Slashes(t, losers[i])
    <3> SUFFICES ASSUME outcome = "failure", NEW i \in DOMAIN losers PROVE Slashes(t, losers[i])
        OBVIOUS
    <3>1. i \in 1 .. Len(losers)
        OBVIOUS
    <3>2. Slashes(a, losers[i])
        BY <2>2, <3>1 DEF Punishes
    <3>3. a \in Seq(Step) /\ end \in Seq(Step)
        BY <1>2, <2>3
    <3>4. Slashes(a \o end, losers[i])
        BY <3>2, <3>3, JoinSlashes
    <3> QED
        BY <2>3, <3>4
  <2>9. outcome # "failure" => \A i \in DOMAIN t : t[i].do # "slash"
      BY <2>2, <2>6 DEF Punishes
  <2>10. \A i \in DOMAIN t : t[i].do = "commit" \/ \E j \in DOMAIN losers : t[i].node = losers[j]
      BY <2>2, <2>6 DEF Punishes, ConcernsOneOf
  <2> QED
      BY <2>4, <2>5, <2>6, <2>7, <2>8, <2>9, <2>10
<1> QED
    BY <1>3, <1>4

----------------------------------------------------------------------------

CallRow == [todo : Seq(Step), event : EventNames \cup {"none"}, dispute : DisputeIds \cup {"none"},
            outcome : {"none", "success", "failure"}, stake : Nat, read : Counts,
            seen : SUBSET Nodes]

\* What the rest of a call tells about the call, with the signatures and slashes so far.
RowSound(c, sigs, fines) ==
    /\ Shaped(c.todo)
    /\ \A i \in DOMAIN c.todo :
         /\ c.todo[i].do \in {"read", "write", "count", "update"} => c.outcome # "none"
         /\ c.todo[i].do = "slash" => c.outcome = "failure"
         /\ c.todo[i].do \in {"update", "commit"} => c.dispute \in DisputeIds
         /\ c.todo[i].do = "sign" => c.seen \subseteq sigs
         /\ c.todo[i].do = "commit" /\ c.outcome = "failure" =>
              \A o \in c.seen : fines[c.dispute][o] >= 1 \/ Slashes(c.todo, o)

\* The next step of a call, and whether the call has yet to count a failure of o.
Heads(c, step, o) == c.todo # <<>> /\ c.todo[1].do = step /\ c.todo[1].node = o
Owes(c, o) == /\ c.outcome = "failure" /\ c.todo # <<>>
              /\ c.todo[1].node = o /\ c.todo[1].do \in {"read", "write", "count"}

AtStep(step, o) == {k \in Calls : Heads(call[k], step, o)}
Owing(o) == {k \in Calls : Owes(call[k], o)}

\* A check that has passed counts as done.
RateSound(o) ==
    rate[o] + Cardinality(AtStep("confirm", o)) <= MAX_CONFIRMATIONS_PER_MINUTE + Cardinality(Calls) - 1
StakeSound(o) ==
    stake[o].amount - Cardinality(AtStep("slash", o)) >= 1 - Cardinality(Calls)
DebtSound(o) == stake[o].slashed <= outcomes[o].failure + Cardinality(Owing(o))

StakeRow == [held : BOOLEAN, amount : Int, slashed : Nat]

OracleRows ==
    /\ stake \in [Nodes -> StakeRow]
    /\ votes \in [Nodes -> Counts] /\ outcomes \in [Nodes -> Counts]
    /\ rate \in [Nodes -> Nat]
    /\ cost \in [DisputeIds -> [Nodes -> Nat]]
    /\ call \in [Calls -> CallRow]
    /\ confirmed \subseteq Nodes \X (EventNames \cup {"none"}) /\ IsFiniteSet(confirmed)
    /\ threshold \subseteq Nodes

SignaturesSound == threshold \subseteq signed /\ (~collided => threshold = signed)

OracleInv ==
    /\ OracleRows
    /\ SignaturesSound
    /\ \A k \in Calls : RowSound(call[k], signed, cost)
    /\ \A o \in Nodes : RateSound(o) /\ StakeSound(o) /\ DebtSound(o)

\* The row that Goes leaves.
After(c) == IF Len(c.todo) = 1 THEN NoCall ELSE [c EXCEPT !.todo = Tail(@)]

LEMMA NoCallFacts ==
    /\ NoCall \in CallRow /\ NoCall.todo = <<>>
    /\ \A sigs, fines : RowSound(NoCall, sigs, fines)
    /\ \A step, o : ~Heads(NoCall, step, o) /\ ~Owes(NoCall, o)
<1>1. NoCall.todo = <<>>
    BY DEF NoCall
<1>2. DOMAIN NoCall.todo = {}
    BY <1>1
<1>3. NoCall \in CallRow
  <2>1. <<>> \in Seq(Step) /\ NoVotes \in Counts
      BY DEF NoVotes, Counts
  <2> QED
      BY <2>1 DEF NoCall, CallRow
<1>4. \A sigs, fines : RowSound(NoCall, sigs, fines)
    BY <1>2 DEF RowSound, Shaped
<1> QED
    BY <1>1, <1>3, <1>4 DEF Heads, Owes

LEMMA AfterFacts ==
    ASSUME NEW c \in CallRow, c.todo # <<>>
    PROVE  /\ After(c) \in CallRow /\ After(c).todo \in Seq(Step)
           /\ c.todo \in Seq(Step) /\ Len(c.todo) \in Nat \ {0}
           /\ Len(After(c).todo) = Len(c.todo) - 1
           /\ \A i \in DOMAIN After(c).todo :
                i + 1 \in DOMAIN c.todo /\ After(c).todo[i] = c.todo[i + 1]
           /\ After(c).todo # <<>> =>
                /\ After(c).outcome = c.outcome /\ After(c).dispute = c.dispute
                /\ After(c).seen = c.seen
<1>1. c.todo \in Seq(Step)
    BY DEF CallRow
<1>2. PICK n \in Nat : n = Len(c.todo) /\ n # 0
    BY <1>1
<1>3. CASE n = 1
  <2>1. After(c) = NoCall
      BY <1>2, <1>3 DEF After
  <2> QED
      BY <1>1, <1>2, <1>3, <2>1, NoCallFacts
<1>4. CASE n # 1
  <2>1. After(c) = [c EXCEPT !.todo = Tail(c.todo)]
      BY <1>2, <1>4 DEF After
  <2>2. PICK s : s = Tail(c.todo)
      OBVIOUS
  <2>3. /\ s \in Seq(Step) /\ Len(s) = n - 1 /\ DOMAIN s = 1 .. (n - 1) /\ DOMAIN c.todo = 1 .. n
        /\ \A i \in 1 .. (n - 1) : s[i] = c.todo[i + 1]
      BY <1>1, <1>2, <1>4, <2>2
  <2>4. After(c) \in CallRow
      BY <2>1, <2>2, <2>3 DEF CallRow
  <2>5. /\ After(c).todo = s /\ After(c).outcome = c.outcome /\ After(c).dispute = c.dispute
        /\ After(c).seen = c.seen
      BY <2>1, <2>2 DEF CallRow
  <2>6. \A i \in 1 .. (n - 1) : i + 1 \in 1 .. n
      OBVIOUS
  <2> QED
      BY <1>1, <1>2, <2>3, <2>4, <2>5, <2>6
<1> QED
    BY <1>3, <1>4

LEMMA ShapedAfter ==
    ASSUME NEW s \in Seq(Step), NEW t \in Seq(Step), Shaped(t), Len(t) \in Nat \ {0},
           Len(s) = Len(t) - 1, \A i \in DOMAIN s : s[i] = t[i + 1]
    PROVE  Shaped(s)
<1>1. PICK n \in Nat : n = Len(t) /\ DOMAIN t = 1 .. n /\ DOMAIN s = 1 .. (n - 1) /\ Len(s) = n - 1
    OBVIOUS
<1>2. SUFFICES ASSUME NEW i \in 1 .. (n - 1)
               PROVE  /\ i > 1 => Follows(s, i)
                      /\ s[i].do \in {"slash", "read", "write"} => i < Len(s) /\ Leads(s, i)
                      /\ s[i].do = "commit" => i = Len(s)
                      /\ s[i].do \in {"sign", "update"} => Len(s) = 1
                      /\ s[i].do \notin {"commit", "update"} => s[i].node \in Nodes
    BY <1>1 DEF Shaped
<1>3. PICK j \in 1 .. n : j = i + 1 /\ j > 1
    OBVIOUS
<1>4. /\ Follows(t, j)
      /\ t[j].do \in {"slash", "read", "write"} => j < n /\ Leads(t, j)
      /\ t[j].do = "commit" => j = n
      /\ t[j].do \in {"sign", "update"} => n = 1
      /\ t[j].do \notin {"commit", "update"} => t[j].node \in Nodes
    BY <1>1, <1>3 DEF Shaped
<1>5. s[i] = t[j]
    BY <1>1, <1>3
<1>6. i > 1 => s[i - 1] = t[j - 1]
  <2>1. i > 1 => i - 1 \in 1 .. (n - 1) /\ (i - 1) + 1 = j - 1
      BY <1>3
  <2> QED
      BY <1>1, <2>1
<1>7. j < n => s[i + 1] = t[j + 1]
  <2>1. j < n => i + 1 \in 1 .. (n - 1) /\ (i + 1) + 1 = j + 1
      BY <1>3
  <2> QED
      BY <1>1, <2>1
<1>8. i > 1 => Follows(s, i)
    BY <1>4, <1>5, <1>6 DEF Follows
<1>9. s[i].do \in {"slash", "read", "write"} => i < Len(s) /\ Leads(s, i)
    BY <1>1, <1>3, <1>4, <1>5, <1>7 DEF Leads
<1> QED
    BY <1>1, <1>3, <1>4, <1>5, <1>8, <1>9

\* Slashes that a call has done or has left.
LEMMA SlashesAfter ==
    ASSUME NEW s \in Seq(Step), NEW t \in Seq(Step), Len(t) \in Nat \ {0},
           Len(s) = Len(t) - 1, \A i \in DOMAIN s : s[i] = t[i + 1],
           NEW o, Slashes(t, o)
    PROVE  Slashes(s, o) \/ t[1] = Do("slash", o)
<1>1. PICK n \in Nat : n = Len(t) /\ DOMAIN t = 1 .. n /\ DOMAIN s = 1 .. (n - 1)
    OBVIOUS
<1>2. PICK j \in 1 .. n : t[j] = Do("slash", o)
    BY <1>1 DEF Slashes
<1>3. j # 1 => j - 1 \in 1 .. (n - 1) /\ (j - 1) + 1 = j
    OBVIOUS
<1>4. j # 1 => j - 1 \in DOMAIN s /\ s[j - 1] = t[j]
    BY <1>1, <1>3
<1> QED
    BY <1>2, <1>4 DEF Slashes

\* Nothing is undone: fines and signatures only grow.
Grown(sigs, fines, sigs2, fines2) ==
    /\ fines \in [DisputeIds -> [Nodes -> Nat]] /\ fines2 \in [DisputeIds -> [Nodes -> Nat]]
    /\ sigs \subseteq sigs2
    /\ \A d \in DisputeIds, o \in Nodes : fines[d][o] <= fines2[d][o]

LEMMA GrownSound ==
    ASSUME NEW c \in CallRow, NEW sigs, NEW fines, NEW sigs2, NEW fines2,
           RowSound(c, sigs, fines), Grown(sigs, fines, sigs2, fines2)
    PROVE  RowSound(c, sigs2, fines2)
<1>1. \A d \in DisputeIds, o \in Nodes : fines[d][o] >= 1 => fines2[d][o] >= 1
  <2> SUFFICES ASSUME NEW d \in DisputeIds, NEW o \in Nodes, fines[d][o] >= 1
               PROVE  fines2[d][o] >= 1
      OBVIOUS
  <2>1. fines[d][o] \in Nat /\ fines2[d][o] \in Nat /\ fines[d][o] <= fines2[d][o]
      BY DEF Grown
  <2> QED
      BY <2>1
<1>2. sigs \subseteq sigs2 /\ c.seen \subseteq Nodes
    BY DEF Grown, CallRow
<1> QED
    BY <1>1, <1>2 DEF RowSound

LEMMA AfterSound ==
    ASSUME NEW c \in CallRow, c.todo # <<>>, NEW sigs, NEW fines, NEW sigs2, NEW fines2,
           RowSound(c, sigs, fines), Grown(sigs, fines, sigs2, fines2),
           \A o \in Nodes : c.todo[1] = Do("slash", o) /\ c.dispute \in DisputeIds =>
                              fines2[c.dispute][o] >= 1
    PROVE  RowSound(After(c), sigs2, fines2)
<1>1. RowSound(c, sigs2, fines2)
    BY GrownSound
<1>2. PICK a \in CallRow : a = After(c)
    BY AfterFacts
<1>3. /\ a.todo \in Seq(Step) /\ c.todo \in Seq(Step) /\ Len(c.todo) \in Nat \ {0}
      /\ Len(a.todo) = Len(c.todo) - 1
      /\ \A i \in DOMAIN a.todo : i + 1 \in DOMAIN c.todo /\ a.todo[i] = c.todo[i + 1]
    BY <1>2, AfterFacts
<1>4. Shaped(a.todo)
    BY <1>1, <1>3, ShapedAfter DEF RowSound
<1>5. ASSUME NEW i \in DOMAIN a.todo
      PROVE  /\ a.todo[i].do \in {"read", "write", "count", "update"} => a.outcome # "none"
             /\ a.todo[i].do = "slash" => a.outcome = "failure"
             /\ a.todo[i].do \in {"update", "commit"} => a.dispute \in DisputeIds
             /\ a.todo[i].do = "sign" => a.seen \subseteq sigs2
             /\ a.todo[i].do = "commit" /\ a.outcome = "failure" =>
                  \A o \in a.seen : fines2[a.dispute][o] >= 1 \/ Slashes(a.todo, o)
  <2>1. PICK j \in DOMAIN c.todo : a.todo[i] = c.todo[j]
      BY <1>3
  <2>2. a.outcome = c.outcome /\ a.dispute = c.dispute /\ a.seen = c.seen
    <3>1. a.todo # <<>>
        BY <1>3
    <3> QED
        BY <1>2, <3>1, AfterFacts
  <2>3. /\ c.todo[j].do \in {"read", "write", "count", "update"} => c.outcome # "none"
        /\ c.todo[j].do = "slash" => c.outcome = "failure"
        /\ c.todo[j].do \in {"update", "commit"} => c.dispute \in DisputeIds
        /\ c.todo[j].do = "sign" => c.seen \subseteq sigs2
        /\ c.todo[j].do = "commit" /\ c.outcome = "failure" =>
             \A o \in c.seen : fines2[c.dispute][o] >= 1 \/ Slashes(c.todo, o)
      BY <1>1 DEF RowSound
  <2>4. ASSUME c.todo[j].do = "commit", c.outcome = "failure", NEW o \in c.seen
        PROVE  fines2[c.dispute][o] >= 1 \/ Slashes(a.todo, o)
    <3>1. o \in Nodes /\ c.dispute \in DisputeIds
        BY <2>3, <2>4 DEF CallRow
    <3>2. CASE Slashes(c.todo, o)
      <4>1. Slashes(a.todo, o) \/ c.todo[1] = Do("slash", o)
          BY <1>3, <3>2, SlashesAfter
      <4> QED
          BY <3>1, <4>1
    <3> QED
        BY <2>3, <2>4, <3>2
  <2> QED
      BY <2>1, <2>2, <2>3, <2>4
<1> QED
    BY <1>2, <1>4, <1>5 DEF RowSound

LEMMA HeadAfter ==
    ASSUME NEW c \in CallRow, c.todo # <<>>, NEW sigs, NEW fines, RowSound(c, sigs, fines), NEW o
    PROVE  /\ Heads(After(c), "confirm", o) => c.todo[1] = Do("limit", o)
           /\ Heads(After(c), "slash", o) => c.todo[1] = Do("check", o)
           /\ c.todo[1].do = "slash" => (Owes(After(c), o) <=> o = c.todo[1].node)
           /\ c.todo[1].do \in {"read", "write"} => (Owes(After(c), o) <=> Owes(c, o))
<1>1. PICK n \in Nat : n = Len(c.todo) /\ n # 0
    BY AfterFacts
<1>2. PICK a : a = After(c)
    OBVIOUS
<1>3. DOMAIN c.todo = 1 .. n /\ 1 \in DOMAIN c.todo /\ Shaped(c.todo)
    BY <1>1, AfterFacts DEF RowSound
<1>4. a.todo \in Seq(Step) /\ Len(a.todo) = n - 1
    BY <1>1, <1>2, AfterFacts
<1>5. CASE n = 1
  <2>1. a.todo = <<>>
      BY <1>4, <1>5
  <2>2. c.todo[1].do \notin {"slash", "read", "write"}
      BY <1>1, <1>3, <1>5 DEF Shaped
  <2> QED
      BY <1>2, <2>1, <2>2 DEF Heads, Owes
<1>6. CASE n # 1
  <2>1. 1 \in DOMAIN a.todo /\ a.todo # <<>> /\ 2 \in DOMAIN c.todo
    <3>1. n >= 2
      <4>1. n # 0
          BY <1>1
      <4>2. \A m \in Nat : m # 0 /\ m # 1 => m >= 2
          OBVIOUS
      <4> QED
          BY <1>6, <4>1, <4>2
    <3>2. DOMAIN a.todo = 1 .. (n - 1)
        BY <1>1, <1>4
    <3>3. 1 \in 1 .. (n - 1) /\ 2 \in 1 .. n
        BY <3>1
    <3> QED
        BY <1>3, <3>2, <3>3
  <2>2. a.todo[1] = c.todo[2] /\ a.outcome = c.outcome
    <3>1. a.todo[1] = c.todo[1 + 1] /\ a.outcome = c.outcome
        BY <1>2, <2>1, AfterFacts
    <3> QED
        BY <3>1
  <2>3. Follows(c.todo, 2)
      BY <1>3, <2>1 DEF Shaped
  <2>4. /\ c.todo[2].do = "confirm" => c.todo[1] = Do("limit", c.todo[2].node)
        /\ c.todo[2].do = "slash" => c.todo[1] = Do("check", c.todo[2].node)
    <3>1. 2 - 1 = 1
        OBVIOUS
    <3> QED
        BY <2>3, <3>1 DEF Follows
  <2>5. c.todo[1].do \in {"slash", "read", "write"} => Leads(c.todo, 1)
      BY <1>3 DEF Shaped
  <2>6. /\ c.todo[1].do = "slash" => c.todo[2] = Do("read", c.todo[1].node)
        /\ c.todo[1].do = "read" => c.todo[2] = Do("write", c.todo[1].node)
        /\ c.todo[1].do = "write" => c.todo[2] = Do("count", c.todo[1].node)
    <3>1. 1 + 1 = 2
        OBVIOUS
    <3> QED
        BY <2>5, <3>1 DEF Leads
  <2>7. \A s, x : Do(s, x).do = s /\ Do(s, x).node = x
      BY DEF Do
  <2>8. c.todo[1].do = "slash" => c.outcome = "failure"
      BY <1>3 DEF RowSound
  <2>9. c.todo[1].do = "slash" => (Owes(a, o) <=> o = c.todo[1].node)
      BY <2>1, <2>2, <2>6, <2>7, <2>8 DEF Owes
  <2>10. c.todo[1].do \in {"read", "write"} => (Owes(a, o) <=> Owes(c, o))
      BY <2>1, <2>2, <2>6, <2>7 DEF Owes
  <2> QED
      BY <1>2, <2>2, <2>4, <2>9, <2>10 DEF Heads
<1> QED
    BY <1>5, <1>6

LEMMA OneMember ==
    ASSUME NEW S \in SUBSET Calls, NEW T \in SUBSET Calls, NEW k \in Calls, S \ {k} = T \ {k}
    PROVE  /\ Cardinality(S) \in Nat /\ Cardinality(T) \in Nat /\ Cardinality(Calls) \in Nat
           /\ Cardinality(T) <= Cardinality(Calls)
           /\ Cardinality(T) + (IF k \in S THEN 1 ELSE 0) = Cardinality(S) + (IF k \in T THEN 1 ELSE 0)
<1>1. /\ IsFiniteSet(S) /\ IsFiniteSet(T) /\ Cardinality(T) <= Cardinality(Calls)
      /\ IsFiniteSet(Calls)
    BY OracleAssumption, FS_Subset
<1>2. Cardinality(S) \in Nat /\ Cardinality(T) \in Nat /\ Cardinality(Calls) \in Nat
    BY <1>1, FS_CardinalityType
<1>3. /\ Cardinality(S \ {k}) = IF k \in S THEN Cardinality(S) - 1 ELSE Cardinality(S)
      /\ Cardinality(T \ {k}) = IF k \in T THEN Cardinality(T) - 1 ELSE Cardinality(T)
    BY <1>1, FS_RemoveElement
<1> QED
    BY <1>1, <1>2, <1>3

\* A step of call k, which leaves it as c, does not disturb what is counted for o.
StepSound(k, c, o) ==
    /\ IF Heads(c, "confirm", o) THEN rate'[o] < MAX_CONFIRMATIONS_PER_MINUTE
       ELSE rate'[o] <= rate[o] + (IF Heads(call[k], "confirm", o) THEN 1 ELSE 0)
    /\ \/ stake'[o].amount >= 1
       \/ /\ ~Heads(c, "slash", o)
          /\ stake'[o].amount >= stake[o].amount - (IF Heads(call[k], "slash", o) THEN 1 ELSE 0)
    /\ IF Owes(c, o)
       THEN /\ stake'[o].slashed <= stake[o].slashed + (IF Owes(call[k], o) THEN 0 ELSE 1)
            /\ outcomes'[o].failure >= outcomes[o].failure
       ELSE /\ stake'[o].slashed <= stake[o].slashed
            /\ outcomes'[o].failure >= outcomes[o].failure + (IF Owes(call[k], o) THEN 1 ELSE 0)

CallMoves(k, c) ==
    /\ call' = [call EXCEPT ![k] = c]
    /\ OracleRows' /\ SignaturesSound'
    /\ RowSound(c, signed', cost') /\ Grown(signed, cost, signed', cost')
    /\ \A o \in Nodes : StepSound(k, c, o)

LEMMA MoveKeeps ==
    ASSUME OracleInv, NEW k \in Calls, NEW c \in CallRow, CallMoves(k, c)
    PROVE  OracleInv'
<1>1. OracleRows /\ OracleRows'
    BY DEF OracleInv, CallMoves
<1>2. call'[k] = c /\ \A j \in Calls \ {k} : call'[j] = call[j]
    BY <1>1 DEF CallMoves, OracleRows
<1>3. ASSUME NEW j \in Calls PROVE RowSound(call'[j], signed', cost')
  <2>1. CASE j = k
      BY <1>2, <2>1 DEF CallMoves
  <2>2. CASE j # k
    <3>1. call[j] \in CallRow /\ RowSound(call[j], signed, cost) /\ call'[j] = call[j]
        BY <1>1, <1>2, <2>2 DEF OracleInv, OracleRows
    <3> QED
        BY <3>1, GrownSound DEF CallMoves
  <2> QED
      BY <2>1, <2>2
<1>4. ASSUME NEW o \in Nodes PROVE (RateSound(o) /\ StakeSound(o) /\ DebtSound(o))'
  <2>1. RateSound(o) /\ StakeSound(o) /\ DebtSound(o) /\ StepSound(k, c, o)
      BY DEF OracleInv, CallMoves
  <2>2. /\ rate[o] \in Nat /\ rate'[o] \in Nat
        /\ stake[o].amount \in Int /\ stake'[o].amount \in Int
        /\ stake[o].slashed \in Nat /\ stake'[o].slashed \in Nat
        /\ outcomes[o].failure \in Nat /\ outcomes'[o].failure \in Nat
    <3>1. /\ stake[o] \in StakeRow
          /\ stake'[o] \in StakeRow
          /\ outcomes[o] \in Counts /\ outcomes'[o] \in Counts
          /\ rate[o] \in Nat /\ rate'[o] \in Nat
        BY <1>1 DEF OracleRows
    <3> QED
        BY <3>1 DEF Counts, StakeRow
  <2>3. MAX_CONFIRMATIONS_PER_MINUTE \in Nat
      BY OracleAssumption
  <2>4. RateSound(o)'
    <3>1. PICK S \in SUBSET Calls, T \in SUBSET Calls :
            S = AtStep("confirm", o) /\ T = AtStep("confirm", o)'
        BY DEF AtStep
    <3>2. /\ S \ {k} = T \ {k} /\ (k \in S <=> Heads(call[k], "confirm", o))
          /\ k \in T <=> Heads(c, "confirm", o)
        BY <1>2, <3>1 DEF AtStep
    <3>3. /\ Cardinality(S) \in Nat /\ Cardinality(T) \in Nat /\ Cardinality(Calls) \in Nat
          /\ Cardinality(T) <= Cardinality(Calls)
          /\ Cardinality(T) + (IF k \in S THEN 1 ELSE 0) = Cardinality(S) + (IF k \in T THEN 1 ELSE 0)
        BY <3>2, OneMember
    <3>4. rate[o] + Cardinality(S) <= MAX_CONFIRMATIONS_PER_MINUTE + Cardinality(Calls) - 1
        BY <2>1, <3>1 DEF RateSound
    <3>5. IF k \in T THEN rate'[o] < MAX_CONFIRMATIONS_PER_MINUTE
          ELSE rate'[o] <= rate[o] + (IF k \in S THEN 1 ELSE 0)
        BY <2>1, <3>2 DEF StepSound
    <3>6. rate'[o] + Cardinality(T) <= MAX_CONFIRMATIONS_PER_MINUTE + Cardinality(Calls) - 1
        BY <2>2, <2>3, <3>3, <3>4, <3>5
    <3> QED
        BY <3>1, <3>6 DEF RateSound
  <2>5. StakeSound(o)'
    <3>1. PICK S \in SUBSET Calls, T \in SUBSET Calls :
            S = AtStep("slash", o) /\ T = AtStep("slash", o)'
        BY DEF AtStep
    <3>2. /\ S \ {k} = T \ {k} /\ (k \in S <=> Heads(call[k], "slash", o))
          /\ k \in T <=> Heads(c, "slash", o)
        BY <1>2, <3>1 DEF AtStep
    <3>3. /\ Cardinality(S) \in Nat /\ Cardinality(T) \in Nat /\ Cardinality(Calls) \in Nat
          /\ Cardinality(T) <= Cardinality(Calls)
          /\ Cardinality(T) + (IF k \in S THEN 1 ELSE 0) = Cardinality(S) + (IF k \in T THEN 1 ELSE 0)
        BY <3>2, OneMember
    <3>4. stake[o].amount - Cardinality(S) >= 1 - Cardinality(Calls)
        BY <2>1, <3>1 DEF StakeSound
    <3>5. \/ stake'[o].amount >= 1
          \/ k \notin T /\ stake'[o].amount >= stake[o].amount - (IF k \in S THEN 1 ELSE 0)
        BY <2>1, <3>2 DEF StepSound
    <3>6. stake'[o].amount - Cardinality(T) >= 1 - Cardinality(Calls)
        BY <2>2, <3>3, <3>4, <3>5
    <3> QED
        BY <3>1, <3>6 DEF StakeSound
  <2>6. DebtSound(o)'
    <3>1. PICK S \in SUBSET Calls, T \in SUBSET Calls : S = Owing(o) /\ T = Owing(o)'
        BY DEF Owing
    <3>2. S \ {k} = T \ {k} /\ (k \in S <=> Owes(call[k], o)) /\ (k \in T <=> Owes(c, o))
        BY <1>2, <3>1 DEF Owing
    <3>3. /\ Cardinality(S) \in Nat /\ Cardinality(T) \in Nat
          /\ Cardinality(T) + (IF k \in S THEN 1 ELSE 0) = Cardinality(S) + (IF k \in T THEN 1 ELSE 0)
        BY <3>2, OneMember
    <3>4. stake[o].slashed <= outcomes[o].failure + Cardinality(S)
        BY <2>1, <3>1 DEF DebtSound
    <3>5. IF k \in T
          THEN /\ stake'[o].slashed <= stake[o].slashed + (IF k \in S THEN 0 ELSE 1)
               /\ outcomes'[o].failure >= outcomes[o].failure
          ELSE /\ stake'[o].slashed <= stake[o].slashed
               /\ outcomes'[o].failure >= outcomes[o].failure + (IF k \in S THEN 1 ELSE 0)
        BY <2>1, <3>2 DEF StepSound
    <3>6. stake'[o].slashed <= outcomes'[o].failure + Cardinality(T)
        BY <2>2, <3>3, <3>4, <3>5
    <3> QED
        BY <3>1, <3>6 DEF DebtSound
  <2> QED
      BY <2>4, <2>5, <2>6
<1> QED
    BY <1>1, <1>3, <1>4 DEF OracleInv, CallMoves

\* Steps that write nothing that is counted, and leave a call that owes nothing.
LEMMA CalmSound ==
    ASSUME OracleRows, NEW k \in Calls, NEW c, NEW o \in Nodes,
           rate'[o] = rate[o], stake'[o] = stake[o], outcomes'[o] = outcomes[o],
           Heads(c, "confirm", o) => rate[o] < MAX_CONFIRMATIONS_PER_MINUTE,
           Heads(c, "slash", o) => stake[o].amount >= 1,
           Owes(call[k], o) => Owes(c, o)
    PROVE  StepSound(k, c, o)
<1>1. /\ rate[o] \in Nat /\ stake[o].amount \in Int /\ stake[o].slashed \in Nat
      /\ outcomes[o].failure \in Nat
  <2>1. /\ stake[o] \in StakeRow
        /\ outcomes[o] \in Counts /\ rate[o] \in Nat
      BY DEF OracleRows
  <2> QED
      BY <2>1 DEF Counts, StakeRow
<1> QED
    BY <1>1 DEF StepSound

LEMMA GrownSame ==
    ASSUME OracleRows, signed \subseteq signed', cost' = cost
    PROVE  Grown(signed, cost, signed', cost')
<1>1. \A d \in DisputeIds, o \in Nodes : cost[d][o] \in Nat
    BY DEF OracleRows
<1> QED
    BY <1>1 DEF Grown, OracleRows

\* Steps that write none of what is counted.
LEMMA CalmKeeps ==
    ASSUME OracleInv, NEW k \in Calls, NEW c \in CallRow, call' = [call EXCEPT ![k] = c],
           OracleRows', SignaturesSound', signed \subseteq signed',
           UNCHANGED <<rate, stake, outcomes, cost>>, RowSound(c, signed', cost'),
           \A o \in Nodes :
             /\ Heads(c, "confirm", o) => rate[o] < MAX_CONFIRMATIONS_PER_MINUTE
             /\ Heads(c, "slash", o) => stake[o].amount >= 1
             /\ Owes(call[k], o) => Owes(c, o)
    PROVE  OracleInv'
<1>1. OracleRows
    BY DEF OracleInv
<1>2. \A o \in Nodes : StepSound(k, c, o)
    BY <1>1, CalmSound
<1>3. Grown(signed, cost, signed', cost')
    BY <1>1, GrownSame
<1> QED
    BY <1>2, <1>3, MoveKeeps DEF CallMoves

\* Calls that write nothing.
LEMMA SilentKeeps ==
    ASSUME OracleInv, NEW k \in Calls, NEW c \in CallRow, call' = [call EXCEPT ![k] = c],
           UNCHANGED dataVars, RowSound(c, signed, cost),
           \A o \in Nodes :
             /\ Heads(c, "confirm", o) => rate[o] < MAX_CONFIRMATIONS_PER_MINUTE
             /\ Heads(c, "slash", o) => stake[o].amount >= 1
             /\ Owes(call[k], o) => Owes(c, o)
    PROVE  OracleInv'
<1>1. OracleRows /\ SignaturesSound
    BY DEF OracleInv
<1>2. UNCHANGED <<stake, votes, outcomes, confirmed, rate, threshold, cost, signed, collided>>
    BY DEF dataVars
<1>3. OracleRows' /\ SignaturesSound'
  <2>1. call' \in [Calls -> CallRow]
      BY <1>1 DEF OracleRows
  <2> QED
      BY <1>1, <1>2, <2>1 DEF OracleRows, SignaturesSound
<1>4. RowSound(c, signed', cost') /\ signed \subseteq signed'
    BY <1>2
<1> QED
    BY <1>2, <1>3, <1>4, CalmKeeps

\* The step a call is at.
LEMMA HeadFacts ==
    ASSUME OracleInv, NEW k \in Calls, NEW s, At(k, s)
    PROVE  /\ call[k] \in CallRow /\ call[k].todo \in Seq(Step) /\ call[k].todo # <<>>
           /\ RowSound(call[k], signed, cost)
           /\ 1 \in DOMAIN call[k].todo
           /\ NextStep(k) = call[k].todo[1] /\ call[k].todo[1].do = s
           /\ s \notin {"commit", "update"} => call[k].todo[1].node \in Nodes
<1>1. call[k] \in CallRow /\ RowSound(call[k], signed, cost)
    BY DEF OracleInv, OracleRows
<1>2. call[k].todo \in Seq(Step) /\ call[k].todo # <<>>
    BY <1>1 DEF CallRow, At
<1>3. 1 \in DOMAIN call[k].todo /\ Head(call[k].todo) = call[k].todo[1]
    BY <1>2
<1>4. NextStep(k) = call[k].todo[1] /\ call[k].todo[1].do = s
    BY <1>3 DEF NextStep, At
<1>5. s \notin {"commit", "update"} => call[k].todo[1].node \in Nodes
    BY <1>1, <1>3, <1>4 DEF RowSound, Shaped
<1> QED
    BY <1>1, <1>2, <1>3, <1>4, <1>5

LEMMA GoesAfter ==
    ASSUME NEW k \in Calls, Goes(k)
    PROVE  call' = [call EXCEPT ![k] = After(call[k])]
    BY DEF Goes, After

\* A step that writes none of what is counted, and goes on.
LEMMA GoesKeeps ==
    ASSUME OracleInv, NEW k \in Calls, NEW s, At(k, s), s \notin {"slash", "read", "write", "count"},
           Goes(k), OracleRows', SignaturesSound', signed \subseteq signed',
           UNCHANGED <<rate, stake, outcomes, cost>>,
           s = "limit" => rate[NextStep(k).node] < MAX_CONFIRMATIONS_PER_MINUTE,
           s = "check" => stake[NextStep(k).node].amount >= 1
    PROVE  OracleInv'
<1>1. PICK c \in CallRow : c = call[k]
    BY HeadFacts
<1>2. /\ c.todo # <<>> /\ RowSound(c, signed, cost) /\ NextStep(k) = c.todo[1] /\ c.todo[1].do = s
    BY <1>1, HeadFacts
<1>3. PICK a \in CallRow : a = After(c)
    BY <1>2, AfterFacts
<1>4. Grown(signed, cost, signed', cost')
    BY GrownSame DEF OracleInv
<1>5. \A s1, o : Do(s1, o).do = s1 /\ Do(s1, o).node = o
    BY DEF Do
<1>6. RowSound(a, signed', cost')
  <2>1. \A o \in Nodes : c.todo[1] # Do("slash", o)
      BY <1>2, <1>5
  <2> QED
      BY <1>2, <1>3, <1>4, <2>1, AfterSound
<1>7. ASSUME NEW o \in Nodes
      PROVE  /\ Heads(a, "confirm", o) => rate[o] < MAX_CONFIRMATIONS_PER_MINUTE
             /\ Heads(a, "slash", o) => stake[o].amount >= 1
             /\ Owes(call[k], o) => Owes(a, o)
  <2>1. /\ Heads(a, "confirm", o) => c.todo[1] = Do("limit", o)
        /\ Heads(a, "slash", o) => c.todo[1] = Do("check", o)
      BY <1>2, <1>3, HeadAfter
  <2>2. ~Owes(c, o)
      BY <1>2 DEF Owes
  <2> QED
      BY <1>1, <1>2, <1>5, <2>1, <2>2
<1>8. call' = [call EXCEPT ![k] = a]
    BY <1>1, <1>3, GoesAfter
<1> QED
    BY <1>6, <1>7, <1>8, CalmKeeps

\* A call that ends with an error, at a step that writes none of what is counted.
LEMMA ThrowsKeeps ==
    ASSUME OracleInv, NEW k \in Calls, NEW s, At(k, s), s \notin {"read", "write", "count"},
           Throws(k), UNCHANGED dataVars
    PROVE  OracleInv'
<1>1. call' = [call EXCEPT ![k] = NoCall] /\ NoCall \in CallRow /\ RowSound(NoCall, signed, cost)
    BY NoCallFacts DEF Throws
<1>2. call[k].todo[1].do = s
    BY HeadFacts
<1>3. \A o \in Nodes : ~Heads(NoCall, "confirm", o) /\ ~Heads(NoCall, "slash", o) /\ ~Owes(call[k], o)
    BY <1>2, NoCallFacts DEF Owes
<1> QED
    BY <1>1, <1>3, SilentKeeps

\* The rows that a step leaves as they are.
LEMMA RowsKept ==
    ASSUME OracleInv, NEW k \in Calls, NEW c \in CallRow, call' = [call EXCEPT ![k] = c]
    PROVE  call' \in [Calls -> CallRow]
    BY DEF OracleInv, OracleRows

LEMMA GoesRow ==
    ASSUME OracleInv, NEW k \in Calls, NEW s, At(k, s), Goes(k)
    PROVE  call' \in [Calls -> CallRow]
<1>1. After(call[k]) \in CallRow /\ call' = [call EXCEPT ![k] = After(call[k])]
    BY HeadFacts, AfterFacts, GoesAfter
<1> QED
    BY <1>1, RowsKept

LEMMA StakeUpdate ==
    ASSUME NEW q \in StakeRow, NEW n \in Nat
    PROVE  /\ [q EXCEPT !.held = TRUE, !.amount = n] \in StakeRow
           /\ [q EXCEPT !.held = TRUE, !.amount = n].amount = n
           /\ [q EXCEPT !.held = TRUE, !.amount = n].slashed = q.slashed
           /\ [q EXCEPT !.amount = @ - 1, !.slashed = @ + 1] \in StakeRow
           /\ [q EXCEPT !.amount = @ - 1, !.slashed = @ + 1].amount = q.amount - 1
           /\ [q EXCEPT !.amount = @ - 1, !.slashed = @ + 1].slashed = q.slashed + 1
<1>1. q.amount \in Int /\ q.slashed \in Nat
    BY DEF StakeRow
<1>2. [q EXCEPT !.held = TRUE, !.amount = n] \in StakeRow
  <2>1. PICK p \in StakeRow : p = [q EXCEPT !.held = TRUE]
      BY DEF StakeRow
  <2>2. [p EXCEPT !.amount = n] \in StakeRow
      BY DEF StakeRow
  <2>3. [q EXCEPT !.held = TRUE, !.amount = n] = [p EXCEPT !.amount = n]
      BY <2>1
  <2> QED
      BY <2>2, <2>3
<1>3. [q EXCEPT !.amount = @ - 1, !.slashed = @ + 1] \in StakeRow
  <2>1. PICK m \in Int, i \in Nat : m = q.amount - 1 /\ i = q.slashed + 1
      BY <1>1
  <2>2. PICK p \in StakeRow : p = [q EXCEPT !.amount = m]
      BY DEF StakeRow
  <2>3. [p EXCEPT !.slashed = i] \in StakeRow
      BY DEF StakeRow
  <2>4. [q EXCEPT !.amount = @ - 1, !.slashed = @ + 1] = [p EXCEPT !.slashed = i]
      BY <2>1, <2>2
  <2> QED
      BY <2>3, <2>4
<1>4. /\ [q EXCEPT !.held = TRUE, !.amount = n].amount = n
      /\ [q EXCEPT !.held = TRUE, !.amount = n].slashed = q.slashed
    BY DEF StakeRow
<1>5. [q EXCEPT !.amount = @ - 1, !.slashed = @ + 1].amount = q.amount - 1
    BY DEF StakeRow
<1>6. [q EXCEPT !.amount = @ - 1, !.slashed = @ + 1].slashed = q.slashed + 1
    BY DEF StakeRow
<1> QED
    BY <1>2, <1>3, <1>4, <1>5, <1>6

LEMMA RegisterKeeps ==
    ASSUME OracleInv, NEW k \in Calls, Register(k)
    PROVE  OracleInv'
<1>1. PICK s \in {"create", "reactivate"} : At(k, s)
    BY DEF Register
<1>2. PICK o : o = NextStep(k).node
    OBVIOUS
<1>3. /\ call[k] \in CallRow /\ o \in Nodes /\ call[k].todo # <<>> /\ RowSound(call[k], signed, cost)
      /\ call[k].todo[1].do = s /\ NextStep(k) = call[k].todo[1]
    BY <1>1, <1>2, HeadFacts
<1>4. /\ OracleRows /\ SignaturesSound
      /\ UNCHANGED <<votes, outcomes, confirmed, rate, dispute, threshold, cost, signed, collided>>
    BY DEF OracleInv, Register
<1>5. CASE Throws(k) /\ UNCHANGED <<node, stake>>
  <2>1. UNCHANGED dataVars
      BY <1>4, <1>5 DEF dataVars
  <2> QED
      BY <1>1, <1>5, <2>1, ThrowsKeeps
<1>6. CASE Goes(k) /\ UNCHANGED stake
  <2>1. call' \in [Calls -> CallRow]
      BY <1>1, <1>6, GoesRow
  <2>2. OracleRows' /\ SignaturesSound'
      BY <1>4, <1>6, <2>1 DEF OracleRows, SignaturesSound
  <2> QED
      BY <1>1, <1>4, <1>6, <2>2, GoesKeeps
<1>7. CASE /\ Goes(k) /\ call[k].stake # 0
           /\ stake' = [stake EXCEPT ![o].held = TRUE, ![o].amount = call[k].stake]
  <2>1. PICK a \in CallRow : a = After(call[k])
      BY <1>3, AfterFacts
  <2>2. call' \in [Calls -> CallRow] /\ call' = [call EXCEPT ![k] = a]
      BY <1>1, <1>7, <2>1, GoesRow, GoesAfter
  <2>3. call[k].stake \in Nat
      BY <1>3 DEF CallRow
  <2>4. /\ stake' \in [Nodes -> StakeRow]
        /\ stake'[o].amount = call[k].stake /\ stake'[o].slashed = stake[o].slashed
        /\ \A x \in Nodes \ {o} : stake'[x] = stake[x]
    <3>1. stake \in [Nodes -> StakeRow] /\ stake[o] \in StakeRow
        BY <1>3, <1>4 DEF OracleRows
    <3>2. PICK r : r = [stake[o] EXCEPT !.held = TRUE, !.amount = call[k].stake]
        OBVIOUS
    <3>3. r \in StakeRow /\ r.amount = call[k].stake /\ r.slashed = stake[o].slashed
        BY <2>3, <3>1, <3>2, StakeUpdate
    <3>4. stake' = [stake EXCEPT ![o] = r]
        BY <1>3, <1>7, <3>1, <3>2
    <3>5. stake' \in [Nodes -> StakeRow] /\ stake'[o] = r /\ \A x \in Nodes \ {o} : stake'[x] = stake[x]
        BY <1>3, <3>1, <3>3, <3>4
    <3> QED
        BY <3>3, <3>5
  <2>5. OracleRows' /\ SignaturesSound'
      BY <1>4, <2>2, <2>4 DEF OracleRows, SignaturesSound
  <2>6. Grown(signed, cost, signed', cost')
      BY <1>4, GrownSame
  <2>7. \A s1, x : Do(s1, x).do = s1 /\ Do(s1, x).node = x
      BY DEF Do
  <2>8. RowSound(a, signed', cost')
    <3>1. \A x \in Nodes : call[k].todo[1] # Do("slash", x)
        BY <1>3, <2>7
    <3> QED
        BY <1>3, <2>1, <2>6, <3>1, AfterSound
  <2>9. ASSUME NEW x \in Nodes PROVE StepSound(k, a, x)
    <3>1. ~Heads(a, "confirm", x) /\ ~Heads(a, "slash", x)
      <4>1. /\ Heads(a, "confirm", x) => call[k].todo[1] = Do("limit", x)
            /\ Heads(a, "slash", x) => call[k].todo[1] = Do("check", x)
          BY <1>3, <2>1, HeadAfter
      <4> QED
          BY <1>3, <2>7, <4>1
    <3>2. ~Owes(call[k], x)
        BY <1>3 DEF Owes
    <3>3. CASE x # o
      <4>1. rate'[x] = rate[x] /\ stake'[x] = stake[x] /\ outcomes'[x] = outcomes[x]
          BY <1>4, <2>4, <3>3
      <4> QED
          BY <1>4, <3>1, <3>2, <4>1, CalmSound
    <3>4. CASE x = o
      <4>1. /\ rate[x] \in Nat /\ rate'[x] = rate[x] /\ outcomes'[x] = outcomes[x]
            /\ stake[x].slashed \in Nat /\ outcomes[x].failure \in Nat
        <5>1. /\ stake[x] \in StakeRow
              /\ outcomes[x] \in Counts /\ rate[x] \in Nat
            BY <1>4 DEF OracleRows
        <5> QED
            BY <1>4, <5>1 DEF Counts, StakeRow
      <4>2. stake'[x].amount >= 1 /\ stake'[x].slashed = stake[x].slashed
          BY <1>7, <2>3, <2>4, <3>4
      <4> QED
          BY <3>1, <3>2, <4>1, <4>2 DEF StepSound
    <3> QED
        BY <3>3, <3>4
  <2> QED
      BY <2>2, <2>5, <2>6, <2>8, <2>9, MoveKeeps DEF CallMoves
<1>8. \/ Throws(k) /\ UNCHANGED <<node, stake>>
      \/ Goes(k) /\ UNCHANGED stake
      \/ /\ Goes(k) /\ call[k].stake # 0
         /\ stake' = [stake EXCEPT ![o].held = TRUE, ![o].amount = call[k].stake]
    BY <1>2 DEF Register
<1> QED
    BY <1>5, <1>6, <1>7, <1>8

LEMMA ChecksKeep ==
    ASSUME OracleInv, NEW k \in Calls, CheckLimit(k) \/ CheckStake(k)
    PROVE  OracleInv'
<1>1. UNCHANGED dataVars
    BY DEF CheckLimit, CheckStake
<1>2. PICK s \in {"limit", "check"} : At(k, s)
    BY DEF CheckLimit, CheckStake
<1>3. CASE Throws(k)
    BY <1>1, <1>2, <1>3, ThrowsKeeps
<1>4. CASE Goes(k) /\ ~Throws(k)
  <2>1. call' \in [Calls -> CallRow]
      BY <1>2, <1>4, GoesRow
  <2>2. /\ UNCHANGED <<stake, votes, outcomes, confirmed, rate, threshold, cost, signed, collided>>
        /\ OracleRows /\ SignaturesSound
      BY <1>1 DEF dataVars, OracleInv
  <2>3. OracleRows' /\ SignaturesSound'
      BY <2>1, <2>2 DEF OracleRows, SignaturesSound
  <2>4. /\ s = "limit" => UnderLimit(NextStep(k).node)
        /\ s = "check" => EnoughStake(NextStep(k).node)
    <3>1. At(k, "limit") => ~At(k, "check")
        BY DEF At
    <3> QED
        BY <1>2, <1>4, <3>1 DEF CheckLimit, CheckStake
  <2>5. /\ s = "limit" => rate[NextStep(k).node] < MAX_CONFIRMATIONS_PER_MINUTE
        /\ s = "check" => stake[NextStep(k).node].amount >= 1
      BY <2>4 DEF UnderLimit, EnoughStake
  <2> QED
      BY <1>2, <1>4, <2>2, <2>3, <2>5, GoesKeeps
<1> QED
    BY <1>3, <1>4 DEF CheckLimit, CheckStake

LEMMA ConfirmKeeps ==
    ASSUME OracleInv, NEW k \in Calls, Confirm(k)
    PROVE  OracleInv'
<1>1. At(k, "confirm")
    BY DEF Confirm
<1>2. PICK o, new : o = NextStep(k).node /\ new = <<o, call[k].event>>
    OBVIOUS
<1>3. /\ call[k] \in CallRow /\ o \in Nodes /\ call[k].todo # <<>> /\ RowSound(call[k], signed, cost)
      /\ call[k].todo[1].do = "confirm" /\ NextStep(k) = call[k].todo[1]
    BY <1>1, <1>2, HeadFacts
<1>4. /\ OracleRows /\ SignaturesSound
      /\ UNCHANGED <<node, stake, votes, outcomes, dispute, threshold, cost, signed, collided>>
    BY DEF OracleInv, Confirm
<1>5. CASE Throws(k) /\ UNCHANGED <<confirmed, rate>>
  <2>1. UNCHANGED dataVars
      BY <1>4, <1>5 DEF dataVars
  <2> QED
      BY <1>1, <1>5, <2>1, ThrowsKeeps
<1>6. CASE Goes(k) /\ confirmed' = confirmed \cup {new} /\ rate' = [rate EXCEPT ![o] = @ + 1]
  <2>1. PICK a \in CallRow : a = After(call[k])
      BY <1>3, AfterFacts
  <2>2. call' \in [Calls -> CallRow] /\ call' = [call EXCEPT ![k] = a]
      BY <1>1, <1>6, <2>1, GoesRow, GoesAfter
  <2>3. confirmed' \subseteq Nodes \X (EventNames \cup {"none"}) /\ IsFiniteSet(confirmed')
    <3>1. call[k].event \in EventNames \cup {"none"}
        BY <1>3 DEF CallRow
    <3>2. new \in Nodes \X (EventNames \cup {"none"})
        BY <1>2, <1>3, <3>1
    <3>3. IsFiniteSet(confirmed \cup {new})
        BY <1>4, FS_AddElement DEF OracleRows
    <3> QED
        BY <1>4, <1>6, <3>2, <3>3 DEF OracleRows
  <2>4. /\ rate' \in [Nodes -> Nat] /\ rate'[o] = rate[o] + 1
        /\ \A x \in Nodes \ {o} : rate'[x] = rate[x]
      BY <1>3, <1>4, <1>6 DEF OracleRows
  <2>5. OracleRows' /\ SignaturesSound'
      BY <1>4, <2>2, <2>3, <2>4 DEF OracleRows, SignaturesSound
  <2>6. Grown(signed, cost, signed', cost')
      BY <1>4, GrownSame
  <2>7. \A s1, x : Do(s1, x).do = s1 /\ Do(s1, x).node = x
      BY DEF Do
  <2>8. RowSound(a, signed', cost')
    <3>1. \A x \in Nodes : call[k].todo[1] # Do("slash", x)
        BY <1>3, <2>7
    <3> QED
        BY <1>3, <2>1, <2>6, <3>1, AfterSound
  <2>9. ASSUME NEW x \in Nodes PROVE StepSound(k, a, x)
    <3>1. ~Heads(a, "confirm", x) /\ ~Heads(a, "slash", x)
      <4>1. /\ Heads(a, "confirm", x) => call[k].todo[1] = Do("limit", x)
            /\ Heads(a, "slash", x) => call[k].todo[1] = Do("check", x)
          BY <1>3, <2>1, HeadAfter
      <4> QED
          BY <1>3, <2>7, <4>1
    <3>2. ~Owes(call[k], x) /\ (x = o => Heads(call[k], "confirm", x))
        BY <1>2, <1>3 DEF Owes, Heads
    <3>3. CASE x # o
      <4>1. rate'[x] = rate[x] /\ stake'[x] = stake[x] /\ outcomes'[x] = outcomes[x]
          BY <1>4, <2>4, <3>3
      <4> QED
          BY <1>4, <3>1, <3>2, <4>1, CalmSound
    <3>4. CASE x = o
      <4>1. /\ rate[x] \in Nat /\ rate'[x] = rate[x] + 1 /\ outcomes'[x] = outcomes[x]
            /\ stake'[x] = stake[x] /\ stake[x].amount \in Int
            /\ stake[x].slashed \in Nat /\ outcomes[x].failure \in Nat
        <5>1. /\ stake[x] \in StakeRow /\ outcomes[x] \in Counts /\ rate[x] \in Nat
            BY <1>4 DEF OracleRows
        <5> QED
            BY <1>4, <2>4, <3>4, <5>1 DEF Counts, StakeRow
      <4> QED
          BY <3>1, <3>2, <3>4, <4>1 DEF StepSound
    <3> QED
        BY <3>3, <3>4
  <2> QED
      BY <2>2, <2>5, <2>6, <2>8, <2>9, MoveKeeps DEF CallMoves
<1> QED
    BY <1>2, <1>5, <1>6 DEF Confirm

LEMMA SlashKeeps ==
    ASSUME OracleInv, NEW k \in Calls, Slash(k)
    PROVE  OracleInv'
<1>1. At(k, "slash")
    BY DEF Slash
<1>2. PICK o : o = NextStep(k).node
    OBVIOUS
<1>3. /\ call[k] \in CallRow /\ o \in Nodes /\ call[k].todo # <<>> /\ RowSound(call[k], signed, cost)
      /\ call[k].todo[1].do = "slash" /\ NextStep(k) = call[k].todo[1]
    BY <1>1, <1>2, HeadFacts
<1>4. /\ OracleRows /\ SignaturesSound /\ Goes(k)
      /\ UNCHANGED <<node, votes, outcomes, confirmed, rate, dispute, threshold, signed, collided>>
      /\ stake' = [stake EXCEPT ![o].amount = @ - 1, ![o].slashed = @ + 1]
      /\ cost' = IF call[k].dispute = "none" THEN cost
                 ELSE [cost EXCEPT ![call[k].dispute][o] = @ + 1]
    BY <1>2 DEF OracleInv, Slash
<1>5. PICK a \in CallRow : a = After(call[k])
    BY <1>3, AfterFacts
<1>6. call' \in [Calls -> CallRow] /\ call' = [call EXCEPT ![k] = a]
    BY <1>1, <1>4, <1>5, GoesRow, GoesAfter
<1>7. /\ stake' \in [Nodes -> StakeRow]
      /\ stake'[o].amount = stake[o].amount - 1 /\ stake'[o].slashed = stake[o].slashed + 1
      /\ \A x \in Nodes \ {o} : stake'[x] = stake[x]
  <2>1. stake \in [Nodes -> StakeRow] /\ stake[o] \in StakeRow
      BY <1>3, <1>4 DEF OracleRows
  <2>2. PICK r : r = [stake[o] EXCEPT !.amount = @ - 1, !.slashed = @ + 1]
      OBVIOUS
  <2>3. r \in StakeRow /\ r.amount = stake[o].amount - 1 /\ r.slashed = stake[o].slashed + 1
      BY <2>1, <2>2, StakeUpdate
  <2>4. stake' = [stake EXCEPT ![o] = r]
      BY <1>3, <1>4, <2>1, <2>2
  <2>5. stake' \in [Nodes -> StakeRow] /\ stake'[o] = r /\ \A x \in Nodes \ {o} : stake'[x] = stake[x]
      BY <1>3, <2>1, <2>3, <2>4
  <2> QED
      BY <2>3, <2>5
<1>8. /\ Grown(signed, cost, signed', cost')
      /\ call[k].dispute \in DisputeIds => cost'[call[k].dispute][o] >= 1
  <2>1. CASE call[k].dispute = "none"
    <3>1. call[k].dispute \notin DisputeIds
        BY <2>1, OracleAssumption
    <3>2. cost' = cost
        BY <1>4, <2>1
    <3> QED
        BY <1>4, <3>1, <3>2, GrownSame
  <2>2. CASE call[k].dispute # "none"
    <3>1. PICK d \in DisputeIds : d = call[k].dispute
        BY <1>3, <2>2 DEF CallRow
    <3>2. PICK f \in [Nodes -> Nat] : f = [cost[d] EXCEPT ![o] = @ + 1]
      <4>1. cost[d] \in [Nodes -> Nat] /\ cost[d][o] + 1 \in Nat
          BY <1>3, <1>4 DEF OracleRows
      <4> QED
          BY <1>3, <4>1
    <3>3. cost' = [cost EXCEPT ![d] = f]
        BY <1>3, <1>4, <2>2, <3>1, <3>2
    <3>4. /\ cost' \in [DisputeIds -> [Nodes -> Nat]] /\ cost'[d] = f
          /\ \A e \in DisputeIds \ {d} : cost'[e] = cost[e]
        BY <1>4, <3>2, <3>3 DEF OracleRows
    <3>5. f[o] = cost[d][o] + 1 /\ \A x \in Nodes \ {o} : f[x] = cost[d][x]
        BY <1>3, <1>4, <3>2 DEF OracleRows
    <3>6. \A e \in DisputeIds, x \in Nodes : cost[e][x] \in Nat
        BY <1>4 DEF OracleRows
    <3>7. ASSUME NEW e \in DisputeIds, NEW x \in Nodes PROVE cost[e][x] <= cost'[e][x]
      <4>1. cost'[e][x] = cost[e][x] \/ cost'[e][x] = cost[e][x] + 1
          BY <3>4, <3>5
      <4> QED
          BY <3>6, <4>1
    <3>8. Grown(signed, cost, signed', cost')
        BY <1>4, <3>4, <3>7 DEF Grown, OracleRows
    <3>9. cost'[d][o] >= 1
        BY <1>3, <3>4, <3>5, <3>6
    <3> QED
        BY <3>1, <3>8, <3>9
  <2> QED
      BY <2>1, <2>2
<1>9. OracleRows' /\ SignaturesSound'
    BY <1>4, <1>6, <1>7, <1>8 DEF OracleRows, SignaturesSound, Grown
<1>10. \A s1, x : Do(s1, x).do = s1 /\ Do(s1, x).node = x
    BY DEF Do
<1>11. RowSound(a, signed', cost')
  <2>1. \A x \in Nodes : call[k].todo[1] = Do("slash", x) /\ call[k].dispute \in DisputeIds =>
                           cost'[call[k].dispute][x] >= 1
      BY <1>2, <1>3, <1>8, <1>10
  <2> QED
      BY <1>3, <1>5, <1>8, <2>1, AfterSound
<1>12. ASSUME NEW x \in Nodes PROVE StepSound(k, a, x)
  <2>1. /\ Heads(a, "confirm", x) => call[k].todo[1] = Do("limit", x)
        /\ Heads(a, "slash", x) => call[k].todo[1] = Do("check", x)
        /\ Owes(a, x) <=> x = call[k].todo[1].node
      BY <1>3, <1>5, HeadAfter
  <2>2. ~Heads(a, "confirm", x) /\ ~Heads(a, "slash", x) /\ (Owes(a, x) <=> x = o)
      BY <1>2, <1>3, <1>10, <2>1
  <2>3. ~Owes(call[k], x) /\ (x = o => Heads(call[k], "slash", x))
      BY <1>2, <1>3 DEF Owes, Heads
  <2>4. CASE x # o
    <3>1. rate'[x] = rate[x] /\ stake'[x] = stake[x] /\ outcomes'[x] = outcomes[x]
        BY <1>4, <1>7, <2>4
    <3> QED
        BY <1>4, <2>2, <2>3, <3>1, CalmSound
  <2>5. CASE x = o
    <3>1. /\ rate[x] \in Nat /\ rate'[x] = rate[x] /\ outcomes'[x] = outcomes[x]
          /\ stake[x].amount \in Int /\ stake'[x].amount = stake[x].amount - 1
          /\ stake[x].slashed \in Nat /\ stake'[x].slashed = stake[x].slashed + 1
          /\ outcomes[x].failure \in Nat
      <4>1. /\ stake[x] \in StakeRow /\ outcomes[x] \in Counts /\ rate[x] \in Nat
          BY <1>4 DEF OracleRows
      <4> QED
          BY <1>4, <1>7, <2>5, <4>1 DEF Counts, StakeRow
    <3> QED
        BY <2>2, <2>3, <2>5, <3>1 DEF StepSound
  <2> QED
      BY <2>4, <2>5
<1> QED
    BY <1>6, <1>8, <1>9, <1>11, <1>12, MoveKeeps DEF CallMoves

LEMMA CountsPlus ==
    ASSUME NEW v \in Counts, NEW s \in {"success", "failure"}, NEW w, w = [v EXCEPT ![s] = @ + 1]
    PROVE  /\ w \in Counts
           /\ s = "failure" => w.failure = v.failure + 1
           /\ s # "failure" => w.failure = v.failure
<1>1. v.success \in Nat /\ v.failure \in Nat
    BY DEF Counts
<1>2. CASE s = "success"
    BY <1>1, <1>2 DEF Counts
<1>3. CASE s = "failure"
    BY <1>1, <1>3 DEF Counts
<1> QED
    BY <1>2, <1>3

LEMMA CountKeeps ==
    ASSUME OracleInv, NEW k \in Calls, CountOutcome(k)
    PROVE  OracleInv'
<1>1. At(k, "count")
    BY DEF CountOutcome
<1>2. PICK o : o = NextStep(k).node
    OBVIOUS
<1>3. /\ call[k] \in CallRow /\ o \in Nodes /\ call[k].todo # <<>> /\ RowSound(call[k], signed, cost)
      /\ 1 \in DOMAIN call[k].todo
      /\ call[k].todo[1].do = "count" /\ NextStep(k) = call[k].todo[1]
    BY <1>1, <1>2, HeadFacts
<1>4. /\ OracleRows /\ SignaturesSound /\ Goes(k)
      /\ UNCHANGED <<node, stake, votes, confirmed, rate, dispute, threshold, cost, signed, collided>>
      /\ outcomes' = [outcomes EXCEPT ![o] = Plus(@, k)]
    BY <1>2 DEF OracleInv, CountOutcome
<1>5. PICK a \in CallRow : a = After(call[k])
    BY <1>3, AfterFacts
<1>6. call' \in [Calls -> CallRow] /\ call' = [call EXCEPT ![k] = a]
    BY <1>1, <1>4, <1>5, GoesRow, GoesAfter
<1>7. call[k].outcome \in {"success", "failure"}
  <2>1. call[k].outcome # "none"
      BY <1>3 DEF RowSound
  <2> QED
      BY <1>3, <2>1 DEF CallRow
<1>8. PICK w : w = Plus(outcomes[o], k)
    OBVIOUS
<1>9. /\ w \in Counts /\ outcomes[o] \in Counts
      /\ call[k].outcome = "failure" => w.failure = outcomes[o].failure + 1
      /\ call[k].outcome # "failure" => w.failure = outcomes[o].failure
  <2>1. outcomes[o] \in Counts
      BY <1>3, <1>4 DEF OracleRows
  <2> QED
      BY <1>7, <1>8, <2>1, CountsPlus DEF Plus
<1>10. /\ outcomes' \in [Nodes -> Counts] /\ outcomes'[o] = w
       /\ \A x \in Nodes \ {o} : outcomes'[x] = outcomes[x]
    BY <1>3, <1>4, <1>8, <1>9 DEF OracleRows
<1>11. OracleRows' /\ SignaturesSound'
    BY <1>4, <1>6, <1>10 DEF OracleRows, SignaturesSound
<1>12. Grown(signed, cost, signed', cost')
    BY <1>4, GrownSame
<1>13. \A s1, x : Do(s1, x).do = s1 /\ Do(s1, x).node = x
    BY DEF Do
<1>14. RowSound(a, signed', cost')
  <2>1. \A x \in Nodes : call[k].todo[1] # Do("slash", x)
      BY <1>3, <1>13
  <2> QED
      BY <1>3, <1>5, <1>12, <2>1, AfterSound
<1>15. ASSUME NEW x \in Nodes PROVE StepSound(k, a, x)
  <2>1. ~Heads(a, "confirm", x) /\ ~Heads(a, "slash", x)
    <3>1. /\ Heads(a, "confirm", x) => call[k].todo[1] = Do("limit", x)
          /\ Heads(a, "slash", x) => call[k].todo[1] = Do("check", x)
        BY <1>3, <1>5, HeadAfter
    <3> QED
        BY <1>3, <1>13, <3>1
  <2>2. Owes(call[k], x) => x = o /\ call[k].outcome = "failure"
      BY <1>2, <1>3 DEF Owes
  <2>3. CASE x # o
    <3>1. rate'[x] = rate[x] /\ stake'[x] = stake[x] /\ outcomes'[x] = outcomes[x]
        BY <1>4, <1>10, <2>3
    <3> QED
        BY <1>4, <2>1, <2>2, <2>3, <3>1, CalmSound
  <2>4. CASE x = o
    <3>1. /\ rate[x] \in Nat /\ rate'[x] = rate[x]
          /\ stake[x].amount \in Int /\ stake'[x] = stake[x]
          /\ stake[x].slashed \in Nat /\ outcomes[x].failure \in Nat
      <4>1. /\ stake[x] \in StakeRow /\ outcomes[x] \in Counts /\ rate[x] \in Nat
          BY <1>4 DEF OracleRows
      <4> QED
          BY <1>4, <4>1 DEF Counts, StakeRow
    <3>2. /\ outcomes'[x].failure >= outcomes[x].failure
          /\ Owes(call[k], x) => outcomes'[x].failure >= outcomes[x].failure + 1
        BY <1>9, <1>10, <2>2, <2>4, <3>1
    <3> QED
        BY <2>1, <3>1, <3>2 DEF StepSound
  <2> QED
      BY <2>3, <2>4
<1> QED
    BY <1>6, <1>11, <1>12, <1>14, <1>15, MoveKeeps DEF CallMoves

\* The reads and writes of votes go on to the next step of updateReputation.
LEMMA ReputationKeeps ==
    ASSUME OracleInv, NEW k \in Calls, ReadReputation(k) \/ WriteReputation(k)
    PROVE  OracleInv'
<1>1. PICK s \in {"read", "write"} : At(k, s)
    BY DEF ReadReputation, WriteReputation
<1>2. PICK o : o = NextStep(k).node
    OBVIOUS
<1>3. /\ call[k] \in CallRow /\ o \in Nodes /\ call[k].todo # <<>> /\ RowSound(call[k], signed, cost)
      /\ call[k].todo \in Seq(Step) /\ 1 \in DOMAIN call[k].todo
      /\ call[k].todo[1].do = s /\ NextStep(k) = call[k].todo[1]
    BY <1>1, <1>2, HeadFacts
<1>4. /\ OracleRows /\ SignaturesSound
      /\ UNCHANGED <<node, stake, outcomes, confirmed, rate, dispute, threshold, cost, signed, collided>>
    BY DEF OracleInv, ReadReputation, WriteReputation, dataVars
<1>5. PICK a \in CallRow : a = After(call[k])
    BY <1>3, AfterFacts
<1>6. Len(call[k].todo) # 1
  <2>1. 1 < Len(call[k].todo)
      BY <1>3 DEF RowSound, Shaped
  <2>2. \A n \in Nat : 1 < n => n # 1
      OBVIOUS
  <2>3. Len(call[k].todo) \in Nat
      BY <1>3
  <2> QED
      BY <2>1, <2>2, <2>3
<1>7. PICK v \in Counts :
        /\ call' = [call EXCEPT ![k].todo = Tail(@), ![k].read = v]
        /\ votes' = votes \/ votes' = [votes EXCEPT ![o] = Plus(call[k].read, k)]
  <2>1. votes[o] \in Counts /\ NoVotes \in Counts
      BY <1>3, <1>4 DEF OracleRows, NoVotes, Counts
  <2>2. CASE ReadReputation(k)
      BY <1>2, <2>1, <2>2 DEF ReadReputation, dataVars
  <2>3. CASE WriteReputation(k)
      BY <1>2, <2>1, <2>3 DEF WriteReputation
  <2> QED
      BY <2>2, <2>3
<1>8. PICK c : c = [a EXCEPT !.read = v]
    OBVIOUS
<1>9. /\ c \in CallRow /\ c.todo = a.todo /\ c.outcome = a.outcome /\ c.dispute = a.dispute
      /\ c.seen = a.seen
  <2>1. c \in CallRow
      BY <1>8 DEF CallRow
  <2> QED
      BY <1>8, <2>1 DEF CallRow
<1>10. call' = [call EXCEPT ![k] = c]
  <2>1. a = [call[k] EXCEPT !.todo = Tail(@)]
      BY <1>5, <1>6 DEF After
  <2>2. c = [call[k] EXCEPT !.todo = Tail(@), !.read = v]
      BY <1>8, <2>1
  <2> QED
      BY <1>4, <1>7, <2>2 DEF OracleRows
<1>11. votes' \in [Nodes -> Counts]
  <2>1. Plus(call[k].read, k) \in Counts
    <3>1. call[k].outcome # "none"
        BY <1>3 DEF RowSound
    <3>2. call[k].outcome \in {"success", "failure"} /\ call[k].read \in Counts
        BY <1>3, <3>1 DEF CallRow
    <3> QED
        BY <3>2, CountsPlus DEF Plus
  <2> QED
      BY <1>3, <1>4, <1>7, <2>1 DEF OracleRows
<1>12. call' \in [Calls -> CallRow]
    BY <1>9, <1>10, RowsKept
<1>13. OracleRows' /\ SignaturesSound'
    BY <1>4, <1>11, <1>12 DEF OracleRows, SignaturesSound
<1>14. \A s1, x : Do(s1, x).do = s1 /\ Do(s1, x).node = x
    BY DEF Do
<1>15. RowSound(a, signed', cost')
  <2>1. \A x \in Nodes : call[k].todo[1] # Do("slash", x)
      BY <1>3, <1>14
  <2>2. Grown(signed, cost, signed', cost')
      BY <1>4, GrownSame
  <2> QED
      BY <1>3, <1>5, <2>1, <2>2, AfterSound
<1>16. RowSound(c, signed', cost')
    BY <1>9, <1>15 DEF RowSound
<1>17. ASSUME NEW x \in Nodes
       PROVE  ~Heads(c, "confirm", x) /\ ~Heads(c, "slash", x) /\ (Owes(call[k], x) => Owes(c, x))
  <2>1. /\ Heads(a, "confirm", x) => call[k].todo[1] = Do("limit", x)
        /\ Heads(a, "slash", x) => call[k].todo[1] = Do("check", x)
        /\ Owes(a, x) <=> Owes(call[k], x)
      BY <1>3, <1>5, HeadAfter
  <2>2. ~Heads(a, "confirm", x) /\ ~Heads(a, "slash", x)
      BY <1>3, <1>14, <2>1
  <2> QED
      BY <1>9, <2>1, <2>2 DEF Heads, Owes
<1> QED
    BY <1>4, <1>9, <1>10, <1>13, <1>16, <1>17, CalmKeeps

LEMMA CommitKeeps ==
    ASSUME OracleInv, NEW k \in Calls, Commit(k)
    PROVE  OracleInv'
<1>1. At(k, "commit") /\ Goes(k)
    BY DEF Commit
<1>2. /\ OracleRows /\ SignaturesSound
      /\ UNCHANGED <<node, stake, votes, outcomes, confirmed, rate, threshold, cost, signed, collided>>
    BY DEF OracleInv, Commit
<1>3. call' \in [Calls -> CallRow]
    BY <1>1, GoesRow
<1>4. OracleRows' /\ SignaturesSound'
    BY <1>2, <1>3 DEF OracleRows, SignaturesSound
<1> QED
    BY <1>1, <1>2, <1>4, GoesKeeps

LEMMA SignKeeps ==
    ASSUME OracleInv, NEW k \in Calls, Sign(k)
    PROVE  OracleInv'
<1>1. At(k, "sign") /\ Goes(k)
    BY DEF Sign
<1>2. PICK o : o = NextStep(k).node
    OBVIOUS
<1>3. /\ OracleRows /\ SignaturesSound
      /\ UNCHANGED <<node, stake, votes, outcomes, confirmed, rate, dispute, cost>>
      /\ threshold' = call[k].seen \cup {o} /\ signed' = signed \cup {o}
      /\ collided' = (collided \/ threshold # call[k].seen)
    BY <1>2 DEF OracleInv, Sign, Push
<1>4. call' \in [Calls -> CallRow]
    BY <1>1, GoesRow
<1>5. call[k].seen \subseteq signed /\ call[k].seen \subseteq Nodes /\ o \in Nodes
  <2>1. /\ call[k] \in CallRow /\ o \in Nodes /\ RowSound(call[k], signed, cost)
        /\ 1 \in DOMAIN call[k].todo /\ call[k].todo[1].do = "sign"
      BY <1>1, <1>2, HeadFacts
  <2> QED
      BY <2>1 DEF RowSound, CallRow
<1>6. threshold' \subseteq Nodes /\ threshold' \subseteq signed'
    BY <1>3, <1>5
<1>7. ~collided' => threshold' = signed'
  <2>1. ~collided' => ~collided /\ threshold = call[k].seen
      BY <1>3
  <2>2. ~collided => threshold = signed
      BY <1>3 DEF SignaturesSound
  <2> QED
      BY <1>3, <2>1, <2>2
<1>8. OracleRows' /\ SignaturesSound' /\ signed \subseteq signed'
    BY <1>3, <1>4, <1>6, <1>7 DEF OracleRows, SignaturesSound
<1> QED
    BY <1>1, <1>3, <1>8, GoesKeeps

\* The confirmations as a list.
LEMMA ListOf ==
    ASSUME NEW S, IsFiniteSet(S)
    PROVE  SetToSeq(S) \in Seq(S)
<1>1. PICK n \in Nat : n = Cardinality(S) /\ ExistsBijection(1 .. n, S)
    BY FS_CardinalityType
<1>2. PICK f \in Bijection(1 .. n, S) : TRUE
    BY <1>1 DEF ExistsBijection
<1>3. f \in [1 .. n -> S] /\ IsInjective(f)
    BY <1>2 DEF Bijection, Injection, IsInjective
<1>4. SetToSeq(S) \in [1 .. n -> S]
    BY <1>1, <1>3 DEF SetToSeq
<1> QED
    BY <1>4

LEMMA ResolutionKeeps ==
    ASSUME OracleInv, NEW k \in Calls, UpdateDispute(k)
    PROVE  OracleInv'
<1>1. At(k, "update") /\ UNCHANGED dataVars /\ OracleRows
    BY DEF UpdateDispute, OracleInv
<1>2. /\ call[k] \in CallRow /\ RowSound(call[k], signed, cost) /\ 1 \in DOMAIN call[k].todo
      /\ call[k].todo[1].do = "update"
    BY <1>1, HeadFacts
<1>3. /\ call[k].outcome \in {"success", "failure"} /\ call[k].dispute \in DisputeIds
  <2>1. call[k].outcome # "none" /\ call[k].dispute \in DisputeIds
      BY <1>2 DEF RowSound
  <2> QED
      BY <1>2, <2>1 DEF CallRow
<1>4. PICK rows : rows = SetToSeq(confirmed)
    OBVIOUS
<1>5. PICK losers : losers = [i \in DOMAIN rows |-> rows[i][1]]
    OBVIOUS
<1>6. losers \in Seq(Nodes)
  <2>1. rows \in Seq(confirmed)
      BY <1>1, <1>4, ListOf DEF OracleRows
  <2>2. PICK n \in Nat : DOMAIN rows = 1 .. n
      BY <2>1
  <2>3. \A i \in 1 .. n : rows[i] \in Nodes \X (EventNames \cup {"none"})
      BY <1>1, <2>1, <2>2 DEF OracleRows
  <2>4. \A i \in 1 .. n : rows[i][1] \in Nodes
      BY <2>3
  <2>5. losers \in [1 .. n -> Nodes]
      BY <1>5, <2>2, <2>4
  <2> QED
      BY <2>5
<1>7. PICK t : t = Penalty(losers, call[k].outcome)
    OBVIOUS
<1>8. /\ t \in Seq(Step) /\ Shaped(t) /\ t[1].do \in {"read", "check", "commit"}
      /\ \A i \in DOMAIN t : t[i].do \in {"read", "write", "count", "check", "slash", "commit"}
      /\ call[k].outcome = "failure" => \A i \in DOMAIN losers : Slashes(t, losers[i])
      /\ call[k].outcome # "failure" => \A i \in DOMAIN t : t[i].do # "slash"
    BY <1>6, <1>7, PenaltyFacts
<1>9. Range(losers) \subseteq Nodes
    BY <1>6 DEF Range
<1>10. PICK c : c = [call[k] EXCEPT !.todo = t, !.seen = Range(losers)]
    OBVIOUS
<1>11. /\ c \in CallRow /\ c.todo = t /\ c.seen = Range(losers) /\ c.outcome = call[k].outcome
       /\ c.dispute = call[k].dispute
  <2>1. PICK b \in CallRow : b = [call[k] EXCEPT !.todo = t]
      BY <1>2, <1>8 DEF CallRow
  <2>2. c = [b EXCEPT !.seen = Range(losers)]
      BY <1>10, <2>1
  <2>3. c \in CallRow
      BY <1>9, <2>2 DEF CallRow
  <2>4. c.seen = Range(losers) /\ c.todo = b.todo /\ c.outcome = b.outcome /\ c.dispute = b.dispute
      BY <2>2 DEF CallRow
  <2>5. b.todo = t /\ b.outcome = call[k].outcome /\ b.dispute = call[k].dispute
      BY <1>2, <2>1 DEF CallRow
  <2> QED
      BY <2>3, <2>4, <2>5
<1>12. call' = [call EXCEPT ![k] = c]
  <2>1. call' = [call EXCEPT ![k].todo = t, ![k].seen = Range(losers)]
      BY <1>4, <1>5, <1>7 DEF UpdateDispute
  <2> QED
      BY <1>1, <1>10, <2>1 DEF OracleRows
<1>13. RowSound(c, signed, cost)
  <2>1. ASSUME c.outcome = "failure", NEW o \in c.seen PROVE Slashes(c.todo, o)
    <3>1. PICK i \in DOMAIN losers : o = losers[i]
        BY <1>11, <2>1 DEF Range
    <3> QED
        BY <1>8, <1>11, <2>1, <3>1
  <2> QED
      BY <1>3, <1>8, <1>11, <2>1 DEF RowSound
<1>14. \A o \in Nodes : ~Heads(c, "confirm", o) /\ ~Heads(c, "slash", o) /\ ~Owes(call[k], o)
    BY <1>2, <1>8, <1>11 DEF Heads, Owes
<1> QED
    BY <1>1, <1>11, <1>12, <1>13, <1>14, SilentKeeps

----------------------------------------------------------------------------

LEMMA StartKeeps ==
    ASSUME OracleInv, NEW k \in Calls, NEW c \in CallRow, Start(k, c), RowSound(c, signed, cost),
           c.todo[1].do \notin {"confirm", "slash", "read", "write", "count"}
    PROVE  OracleInv'
<1>1. call[k] = NoCall /\ call' = [call EXCEPT ![k] = c] /\ UNCHANGED dataVars
    BY DEF Start
<1>2. \A o \in Nodes : ~Heads(c, "confirm", o) /\ ~Heads(c, "slash", o) /\ ~Owes(call[k], o)
    BY <1>1, NoCallFacts DEF Heads
<1> QED
    BY <1>1, <1>2, SilentKeeps

\* The row of a call with a list of steps.
LEMMA BusyRow ==
    ASSUME NEW t \in Seq(Step)
    PROVE  \E b \in CallRow :
             /\ b = [NoCall EXCEPT !.todo = t] /\ b.todo = t
             /\ b.outcome = "none" /\ b.dispute = "none" /\ b.seen = {}
<1>1. NoCall \in CallRow /\ NoCall.outcome = "none" /\ NoCall.dispute = "none" /\ NoCall.seen = {}
    BY NoCallFacts DEF NoCall
<1>2. PICK b : b = [NoCall EXCEPT !.todo = t]
    OBVIOUS
<1>3. b \in CallRow
    BY <1>1, <1>2 DEF CallRow
<1>4. b.todo = t /\ b.outcome = NoCall.outcome /\ b.dispute = NoCall.dispute /\ b.seen = NoCall.seen
    BY <1>1, <1>2 DEF CallRow
<1> QED
    BY <1>1, <1>2, <1>3, <1>4

\* A list of one step, or of a check and what it guards.
LEMMA ShortLists ==
    ASSUME NEW o \in Nodes
    PROVE  /\ \A s \in {"create", "reactivate", "sign"} :
                <<Do(s, o)>> \in Seq(Step) /\ Shaped(<<Do(s, o)>>)
           /\ <<Do("limit", o), Do("confirm", o)>> \in Seq(Step)
           /\ Shaped(<<Do("limit", o), Do("confirm", o)>>)
<1>1. \A s, x : Do(s, x).do = s /\ Do(s, x).node = x
    BY DEF Do
<1>2. \A s \in {"create", "reactivate", "sign", "limit", "confirm"} : Do(s, o) \in Step
    BY DEF Do, Step
<1>3. ASSUME NEW s \in {"create", "reactivate", "sign"}
      PROVE  <<Do(s, o)>> \in Seq(Step) /\ Shaped(<<Do(s, o)>>)
  <2>1. PICK t : t = <<Do(s, o)>>
      OBVIOUS
  <2>2. t \in Seq(Step) /\ Len(t) = 1 /\ DOMAIN t = {1} /\ t[1].do = s /\ t[1].node = o
      BY <1>1, <1>2, <2>1
  <2>3. Shaped(t)
      BY <2>2 DEF Shaped
  <2> QED
      BY <2>1, <2>2, <2>3
<1>4. PICK t : t = <<Do("limit", o), Do("confirm", o)>>
    OBVIOUS
<1>5. t \in Seq(Step) /\ Len(t) = 2 /\ DOMAIN t = {1, 2} /\ t[1] = Do("limit", o) /\ t[2] = Do("confirm", o)
    BY <1>2, <1>4
<1>6. Shaped(t)
  <2>1. Follows(t, 2)
    <3>1. t[2 - 1] = Do("limit", o)
        BY <1>5
    <3> QED
        BY <1>1, <1>5, <3>1 DEF Follows
  <2> QED
      BY <1>1, <1>5, <2>1 DEF Shaped
<1> QED
    BY <1>3, <1>4, <1>5, <1>6

LEMMA RegisterStarts ==
    ASSUME OracleInv, NEW k \in Calls, NEW o \in Nodes, NEW n \in StakeAmounts, registerOracle(k, o, n)
    PROVE  OracleInv'
<1>1. PICK s \in {"create", "reactivate"} :
        Start(k, [NoCall EXCEPT !.todo = <<Do(s, o)>>, !.stake = n])
    BY DEF registerOracle
<1>2. PICK t : t = <<Do(s, o)>>
    OBVIOUS
<1>3. t \in Seq(Step) /\ Shaped(t)
    BY <1>2, ShortLists
<1>4. DOMAIN t = {1} /\ t[1].do = s
    BY <1>2 DEF Do
<1>5. PICK b \in CallRow : b = [NoCall EXCEPT !.todo = t] /\ b.todo = t
    BY <1>3, BusyRow
<1>6. PICK c : c = [b EXCEPT !.stake = n]
    OBVIOUS
<1>7. Start(k, c)
  <2>1. c = [NoCall EXCEPT !.todo = t, !.stake = n]
      BY <1>5, <1>6
  <2> QED
      BY <1>1, <1>2, <2>1
<1>8. c \in CallRow /\ c.todo = t
  <2>1. n \in Nat
      BY OracleAssumption
  <2>2. c \in CallRow
      BY <1>6, <2>1 DEF CallRow
  <2> QED
      BY <1>5, <1>6, <2>2 DEF CallRow
<1>9. RowSound(c, signed, cost)
    BY <1>3, <1>4, <1>8 DEF RowSound
<1> QED
    BY <1>4, <1>7, <1>8, <1>9, StartKeeps

LEMMA ConfirmStarts ==
    ASSUME OracleInv, NEW k \in Calls, NEW o \in Nodes, NEW ev \in EventNames,
           confirmOracleEvent(k, o, ev)
    PROVE  OracleInv'
<1>1. PICK t : t = <<Do("limit", o), Do("confirm", o)>>
    OBVIOUS
<1>2. t \in Seq(Step) /\ Shaped(t)
    BY <1>1, ShortLists
<1>3. DOMAIN t = {1, 2} /\ t[1].do = "limit" /\ t[2].do = "confirm"
    BY <1>1 DEF Do
<1>4. PICK b \in CallRow : b = [NoCall EXCEPT !.todo = t] /\ b.todo = t
    BY <1>2, BusyRow
<1>5. PICK c : c = [b EXCEPT !.event = ev]
    OBVIOUS
<1>6. Start(k, c)
  <2>1. c = [NoCall EXCEPT !.todo = t, !.event = ev]
      BY <1>4, <1>5
  <2> QED
      BY <1>1, <2>1 DEF confirmOracleEvent
<1>7. c \in CallRow /\ c.todo = t
  <2>1. c \in CallRow
      BY <1>5 DEF CallRow
  <2> QED
      BY <1>4, <1>5, <2>1 DEF CallRow
<1>8. RowSound(c, signed, cost)
    BY <1>2, <1>3, <1>7 DEF RowSound
<1> QED
    BY <1>3, <1>6, <1>7, <1>8, StartKeeps

LEMMA SlashStarts ==
    ASSUME OracleInv, NEW k \in Calls, NEW o \in Nodes, SlashCall(k, o)
    PROVE  OracleInv'
<1>1. PICK t : t = slashStake(o)
    OBVIOUS
<1>2. Penalties(t)
    BY <1>1, SlashSteps
<1>3. /\ t \in Seq(Step) /\ Shaped(t)
      /\ \A i \in DOMAIN t : t[i].do \in {"read", "write", "count", "check", "slash"}
    BY <1>2 DEF Penalties, Shaped
<1>4. t[1].do = "check"
  <2>1. t = <<Do("check", o), Do("slash", o)>> \o <<Do("read", o), Do("write", o), Do("count", o)>>
      BY <1>1 DEF slashStake, updateReputation
  <2>2. t[1] = Do("check", o)
      BY <2>1
  <2> QED
      BY <2>2 DEF Do
<1>5. PICK b \in CallRow : b = [NoCall EXCEPT !.todo = t] /\ b.todo = t
    BY <1>3, BusyRow
<1>6. PICK c : c = [b EXCEPT !.outcome = "failure"]
    OBVIOUS
<1>7. Start(k, c)
  <2>1. c = [NoCall EXCEPT !.todo = t, !.outcome = "failure"]
      BY <1>5, <1>6
  <2> QED
      BY <1>1, <2>1 DEF SlashCall
<1>8. c \in CallRow /\ c.todo = t /\ c.outcome = "failure"
  <2>1. c \in CallRow
      BY <1>6 DEF CallRow
  <2> QED
      BY <1>5, <1>6, <2>1 DEF CallRow
<1>9. RowSound(c, signed, cost)
    BY <1>3, <1>8 DEF RowSound
<1> QED
    BY <1>4, <1>7, <1>8, <1>9, StartKeeps

LEMMA ResolveStarts ==
    ASSUME OracleInv, NEW k \in Calls, NEW d \in DisputeIds, NEW outcome \in {"success", "failure"},
           resolveDispute(k, d, outcome)
    PROVE  OracleInv'
<1>1. PICK t : t = <<Do("update", "none")>>
    OBVIOUS
<1>2. Do("update", "none") \in Step /\ Do("update", "none").do = "update"
    BY DEF Do, Step
<1>3. t \in Seq(Step) /\ Len(t) = 1 /\ DOMAIN t = {1} /\ t[1].do = "update"
    BY <1>1, <1>2
<1>4. Shaped(t)
    BY <1>3 DEF Shaped
<1>5. PICK b \in CallRow : b = [NoCall EXCEPT !.todo = t] /\ b.todo = t
    BY <1>3, BusyRow
<1>6. PICK e \in CallRow : e = [b EXCEPT !.dispute = d] /\ e.dispute = d /\ e.todo = t
  <2>1. [b EXCEPT !.dispute = d] \in CallRow
      BY DEF CallRow
  <2> QED
      BY <1>5, <2>1 DEF CallRow
<1>7. PICK c : c = [e EXCEPT !.outcome = outcome]
    OBVIOUS
<1>8. Start(k, c)
  <2>1. c = [NoCall EXCEPT !.todo = t, !.dispute = d, !.outcome = outcome]
      BY <1>5, <1>6, <1>7
  <2> QED
      BY <1>1, <2>1 DEF resolveDispute
<1>9. c \in CallRow /\ c.todo = t /\ c.outcome # "none" /\ c.dispute \in DisputeIds
  <2>1. c \in CallRow
      BY <1>7 DEF CallRow
  <2> QED
      BY <1>6, <1>7, <2>1 DEF CallRow
<1>10. RowSound(c, signed, cost)
    BY <1>3, <1>4, <1>9 DEF RowSound
<1> QED
    BY <1>3, <1>8, <1>9, <1>10, StartKeeps

LEMMA SignStarts ==
    ASSUME OracleInv, NEW k \in Calls, NEW o \in Nodes, addThresholdSignature(k, o)
    PROVE  OracleInv'
<1>1. PICK t : t = <<Do("sign", o)>>
    OBVIOUS
<1>2. t \in Seq(Step) /\ Shaped(t)
    BY <1>1, ShortLists
<1>3. DOMAIN t = {1} /\ t[1].do = "sign"
    BY <1>1 DEF Do
<1>4. PICK b \in CallRow : b = [NoCall EXCEPT !.todo = t] /\ b.todo = t
    BY <1>2, BusyRow
<1>5. PICK c : c = [b EXCEPT !.seen = threshold]
    OBVIOUS
<1>6. Start(k, c)
  <2>1. c = [NoCall EXCEPT !.todo = t, !.seen = threshold]
      BY <1>4, <1>5
  <2> QED
      BY <1>1, <2>1 DEF addThresholdSignature
<1>7. threshold \subseteq signed /\ threshold \subseteq Nodes
    BY DEF OracleInv, SignaturesSound, OracleRows
<1>8. c \in CallRow /\ c.todo = t /\ c.seen = threshold
  <2>1. c \in CallRow
      BY <1>5, <1>7 DEF CallRow
  <2> QED
      BY <1>4, <1>5, <2>1 DEF CallRow
<1>9. RowSound(c, signed, cost)
    BY <1>2, <1>3, <1>7, <1>8 DEF RowSound
<1> QED
    BY <1>3, <1>6, <1>8, <1>9, StartKeeps

----------------------------------------------------------------------------

LEMMA OracleInitial == OracleInit => OracleInv
<1> SUFFICES ASSUME OracleInit PROVE OracleInv
    OBVIOUS
<1>1. NoVotes \in Counts /\ NoVotes.failure = 0
    BY DEF NoVotes, Counts
<1>2. NoStake \in StakeRow /\ NoStake.amount = 0 /\ NoStake.slashed = 0
    BY DEF NoStake, StakeRow
<1>3. \A k \in Calls : call[k] = NoCall
    BY DEF OracleInit
<1>4. OracleRows
  <2>1. call \in [Calls -> CallRow]
      BY NoCallFacts DEF OracleInit
  <2>2. confirmed = {} /\ IsFiniteSet(confirmed)
      BY FS_EmptySet DEF OracleInit
  <2>3. cost \in [DisputeIds -> [Nodes -> Nat]]
      BY DEF OracleInit
  <2> QED
      BY <1>1, <1>2, <2>1, <2>2, <2>3 DEF OracleRows, OracleInit
<1>5. SignaturesSound
    BY DEF SignaturesSound, OracleInit
<1>6. \A k \in Calls : RowSound(call[k], signed, cost)
    BY <1>3, NoCallFacts
<1>7. Cardinality(Calls) \in Nat /\ Cardinality(Calls) # 0 /\ Cardinality({}) = 0
    BY OracleAssumption, FS_CardinalityType, FS_EmptySet
<1>8. ASSUME NEW o \in Nodes PROVE RateSound(o) /\ StakeSound(o) /\ DebtSound(o)
  <2>1. AtStep("confirm", o) = {} /\ AtStep("slash", o) = {} /\ Owing(o) = {}
      BY <1>3, NoCallFacts DEF AtStep, Owing
  <2>2. rate[o] = 0 /\ stake[o] = NoStake /\ outcomes[o] = NoVotes
      BY DEF OracleInit
  <2>3. MAX_CONFIRMATIONS_PER_MINUTE \in Nat \ {0}
      BY OracleAssumption
  <2>4. RateSound(o)
      BY <1>7, <2>1, <2>2, <2>3 DEF RateSound
  <2>5. StakeSound(o)
    <3>1. 0 - 0 >= 1 - Cardinality(Calls)
        BY <1>7
    <3> QED
        BY <1>2, <1>7, <2>1, <2>2, <3>1 DEF StakeSound
  <2>6. DebtSound(o)
    <3>1. stake[o].slashed = 0 /\ outcomes[o].failure = 0
        BY <1>1, <1>2, <2>2
    <3> QED
        BY <1>7, <2>1, <3>1 DEF DebtSound
  <2> QED
      BY <2>4, <2>5, <2>6
<1> QED
    BY <1>4, <1>5, <1>6, <1>8 DEF OracleInv

\* Steps of no call.
LEMMA OtherKeeps ==
    ASSUME OracleInv,
           UNCHANGED <<stake, votes, outcomes, confirmed, threshold, call, cost, signed, collided>>,
           rate' = rate \/ rate' = [o \in Nodes |-> 0]
    PROVE  OracleInv'
<1>1. OracleRows' /\ SignaturesSound'
  <2>1. rate' \in [Nodes -> Nat]
      BY DEF OracleInv, OracleRows
  <2> QED
      BY <2>1 DEF OracleInv, OracleRows, SignaturesSound
<1>2. \A k \in Calls : RowSound(call'[k], signed', cost')
    BY DEF OracleInv
<1>3. ASSUME NEW o \in Nodes PROVE (RateSound(o) /\ StakeSound(o) /\ DebtSound(o))'
  <2>1. RateSound(o) /\ StakeSound(o) /\ DebtSound(o)
      BY DEF OracleInv
  <2>2. AtStep("slash", o)' = AtStep("slash", o) /\ Owing(o)' = Owing(o)
      BY DEF AtStep, Owing
  <2>3. (StakeSound(o) /\ DebtSound(o))'
      BY <2>1, <2>2 DEF StakeSound, DebtSound
  <2>4. PICK T \in SUBSET Calls : T = AtStep("confirm", o) /\ T = AtStep("confirm", o)'
      BY DEF AtStep
  <2>5. Cardinality(T) \in Nat /\ Cardinality(Calls) \in Nat /\ Cardinality(T) <= Cardinality(Calls)
    <3>1. IsFiniteSet(Calls) /\ IsFiniteSet(T) /\ Cardinality(T) <= Cardinality(Calls)
        BY OracleAssumption, FS_Subset
    <3> QED
        BY <3>1, FS_CardinalityType
  <2>6. MAX_CONFIRMATIONS_PER_MINUTE \in Nat \ {0}
      BY OracleAssumption
  <2>7. rate'[o] = rate[o] \/ rate'[o] = 0
      OBVIOUS
  <2>8. RateSound(o)'
      BY <2>1, <2>4, <2>5, <2>6, <2>7 DEF RateSound
  <2> QED
      BY <2>3, <2>8
<1> QED
    BY <1>1, <1>2, <1>3 DEF OracleInv

LEMMA OracleStep == OracleInv /\ [OracleNext]_oracleVars => OracleInv'
<1> SUFFICES ASSUME OracleInv, [OracleNext]_oracleVars PROVE OracleInv'
    OBVIOUS
<1>1. ASSUME NEW k \in Calls, CallStep(k) PROVE OracleInv'
    BY <1>1, RegisterKeeps, ChecksKeep, ConfirmKeeps, ReputationKeeps, CountKeeps, SlashKeeps,
       ResolutionKeeps, CommitKeeps, SignKeeps DEF CallStep
<1>2. ASSUME NEW k \in Calls, NEW o \in Nodes,
             \/ \E amount \in StakeAmounts : registerOracle(k, o, amount)
             \/ \E ev \in EventNames : confirmOracleEvent(k, o, ev)
             \/ SlashCall(k, o)
             \/ addThresholdSignature(k, o)
      PROVE  OracleInv'
    BY <1>2, RegisterStarts, ConfirmStarts, SlashStarts, SignStarts
<1>3. ASSUME NEW k \in Calls, NEW d \in DisputeIds, NEW outcome \in {"success", "failure"},
             resolveDispute(k, d, outcome)
      PROVE  OracleInv'
    BY <1>3, ResolveStarts
<1>4. ASSUME NEW o \in Nodes, deactivateOracle(o) PROVE OracleInv'
    BY <1>4, OtherKeeps DEF deactivateOracle
<1>5. ASSUME NEW d \in DisputeIds, FlagDispute(d) PROVE OracleInv'
    BY <1>5, OtherKeeps DEF FlagDispute
<1>6. CASE NextMinute
    BY <1>6, OtherKeeps DEF NextMinute
<1>7. CASE UNCHANGED oracleVars
    BY <1>7, OtherKeeps DEF oracleVars
<1> QED
    BY <1>1, <1>2, <1>3, <1>4, <1>5, <1>6, <1>7 DEF OracleNext

\* However calls of the oracle service overlap: the limit of a minute is exceeded by
\* no more than the other calls (checkRateLimitAtomic), a stake is overdrawn by no
\* more than a slash of each other call (slashStake), and a signature is lost only to
\* one that overlapped (addThresholdSignature).
THEOREM OverlapsAreBounded == OracleSpec => []OverlapsBounded
<1>1. OracleInv => OverlapsBounded
  <2> SUFFICES ASSUME OracleInv PROVE OverlapsBounded
      OBVIOUS
  <2>1. ASSUME NEW o \in Nodes
        PROVE  /\ rate[o] <= MAX_CONFIRMATIONS_PER_MINUTE + Cardinality(Calls) - 1
               /\ stake[o].amount >= 1 - Cardinality(Calls)
    <3>1. RateSound(o) /\ StakeSound(o)
        BY DEF OracleInv
    <3>2. /\ rate[o] \in Nat /\ stake[o].amount \in Int /\ MAX_CONFIRMATIONS_PER_MINUTE \in Nat
      <4>1. rate[o] \in Nat /\ stake[o] \in StakeRow
          BY DEF OracleInv, OracleRows
      <4> QED
          BY <4>1, OracleAssumption DEF StakeRow
    <3>3. PICK S \in SUBSET Calls, T \in SUBSET Calls :
            S = AtStep("confirm", o) /\ T = AtStep("slash", o)
        BY DEF AtStep
    <3>4. Cardinality(S) \in Nat /\ Cardinality(T) \in Nat /\ Cardinality(Calls) \in Nat
      <4>1. IsFiniteSet(Calls) /\ IsFiniteSet(S) /\ IsFiniteSet(T)
          BY OracleAssumption, FS_Subset
      <4> QED
          BY <4>1, FS_CardinalityType
    <3> QED
        BY <3>1, <3>2, <3>3, <3>4 DEF RateSound, StakeSound
  <2> QED
      BY <2>1 DEF OverlapsBounded, OracleInv, SignaturesSound
<1> QED
    BY <1>1, OracleInitial, OracleStep, PTL DEF OracleSpec

\* No interleaving of slashes and resolutions loses a slash from the failure counts
\* (slashStake, updateReputation).
THEOREM SlashesCounted == OracleSpec => []SlashesAreFailures
<1>1. OracleInv => SlashesAreFailures
  <2> SUFFICES ASSUME OracleInv, NEW o \in Nodes
               PROVE  stake[o].slashed <= outcomes[o].failure
                        + Cardinality({k \in Calls :
                             /\ call[k].outcome = "failure" /\ call[k].todo # <<>>
                             /\ NextStep(k).node = o
                             /\ NextStep(k).do \in {"read", "write", "count"}})
      BY DEF SlashesAreFailures
  <2>1. ASSUME NEW k \in Calls, call[k].todo # <<>> PROVE NextStep(k) = call[k].todo[1]
    <3>1. call[k].todo \in Seq(Step)
        BY DEF OracleInv, OracleRows, CallRow
    <3> QED
        BY <2>1, <3>1 DEF NextStep
  <2>2. Owing(o) = {k \in Calls : /\ call[k].outcome = "failure" /\ call[k].todo # <<>>
                                  /\ NextStep(k).node = o
                                  /\ NextStep(k).do \in {"read", "write", "count"}}
      BY <2>1 DEF Owing, Owes
  <2>3. DebtSound(o)
      BY DEF OracleInv
  <2> QED
      BY <2>2, <2>3 DEF DebtSound
<1> QED
    BY <1>1, OracleInitial, OracleStep, PTL DEF OracleSpec

\* A dispute is recorded as lost for the oracles only after each of those whose
\* confirmation the resolution read has been slashed (resolveDispute).
THEOREM VerdictAfterPenalties == OracleSpec => PenaltiesBeforeVerdict
<1>1. ASSUME OracleInv, NEW k \in Calls, At(k, "commit"), call[k].outcome = "failure",
             NEW o \in call[k].seen
      PROVE  cost[call[k].dispute][o] >= 1
  <2>1. /\ RowSound(call[k], signed, cost) /\ call[k].todo \in Seq(Step) /\ 1 \in DOMAIN call[k].todo
        /\ call[k].todo[1].do = "commit"
      BY <1>1, HeadFacts
  <2>2. Len(call[k].todo) = 1
      BY <2>1 DEF RowSound, Shaped
  <2>3. DOMAIN call[k].todo = {1}
      BY <2>1, <2>2
  <2>4. ~Slashes(call[k].todo, o)
      BY <2>1, <2>3 DEF Slashes, Do
  <2> QED
      BY <1>1, <2>1, <2>4 DEF RowSound
<1>2. OracleInv /\ [OracleNext]_oracleVars =>
        [\A k \in Calls :
           At(k, "commit") /\ call'[k] # call[k] /\ call[k].outcome = "failure" =>
              \A o \in call[k].seen : cost[call[k].dispute][o] >= 1]_oracleVars
    BY <1>1
<1> QED
    BY <1>2, OracleInitial, OracleStep, PTL DEF OracleSpec, PenaltiesBeforeVerdict

----------------------------------------------------------------------------
(* What a call has left to do concerns oracles that are registered, and a     *)
(* slash that has passed its check finds a stake: rows are never removed.     *)

Unregistered == {"create", "sign", "update", "commit"}

KnownCall(c, n, s) ==
    /\ \A i \in DOMAIN c.todo : c.todo[i].do \notin Unregistered => n[c.todo[i].node] # "none"
    /\ \A i \in DOMAIN c.todo : c.todo[i].do = "confirm" => c.event \in EventNames
    /\ c.todo # <<>> /\ c.todo[1].do = "slash" => s[c.todo[1].node].held

Known(o) ==
    /\ stake[o] = NoStake \/ stake[o].held
    /\ node[o] = "none" => stake[o] = NoStake /\ outcomes[o] = NoVotes

KnownInv ==
    /\ node \in [Nodes -> {"none", "active", "inactive"}]
    /\ dispute \in [DisputeIds -> {"none", "OPEN", "success", "failure"}]
    /\ made \in 0 .. MaxCalls
    /\ \A o \in Nodes : Known(o)
    /\ \A new \in confirmed : node[new[1]] # "none" /\ new[2] \in EventNames
    /\ \A k \in Calls : KnownCall(call[k], node, stake)

\* Rows stay.
Lasting ==
    /\ \A o \in Nodes : node[o] # "none" => node'[o] # "none"
    /\ \A o \in Nodes : stake[o].held => stake'[o].held

LEMMA LastingCall ==
    ASSUME NEW c \in CallRow, NEW sigs, NEW fines, RowSound(c, sigs, fines), Lasting,
           KnownCall(c, node, stake)
    PROVE  KnownCall(c, node', stake')
<1>1. c.todo \in Seq(Step)
    BY DEF CallRow
<1>2. \A i \in DOMAIN c.todo : c.todo[i].do \notin {"commit", "update"} => c.todo[i].node \in Nodes
    BY DEF RowSound, Shaped
<1>3. c.todo # <<>> => 1 \in DOMAIN c.todo
    BY <1>1
<1> QED
    BY <1>2, <1>3 DEF KnownCall, Lasting, Unregistered

LEMMA KnownAfter ==
    ASSUME NEW c \in CallRow, c.todo # <<>>, NEW sigs, NEW fines, RowSound(c, sigs, fines),
           NEW n, NEW s, KnownCall(c, n, s), c.todo[1].do = "check" => s[c.todo[1].node].held
    PROVE  KnownCall(After(c), n, s)
<1>1. PICK a : a = After(c)
    OBVIOUS
<1>2. \A i \in DOMAIN a.todo : i + 1 \in DOMAIN c.todo /\ a.todo[i] = c.todo[i + 1]
    BY <1>1, AfterFacts
<1>3. a.todo # <<>> => a.event = c.event
    BY <1>1, NoCallFacts DEF After, CallRow
<1>4. DOMAIN a.todo # {} => a.todo # <<>>
    OBVIOUS
<1>5. ASSUME a.todo # <<>>, a.todo[1].do = "slash" PROVE s[a.todo[1].node].held
  <2>1. PICK o : o = a.todo[1].node
      OBVIOUS
  <2>2. Heads(a, "slash", o)
      BY <1>5, <2>1 DEF Heads
  <2>3. c.todo[1] = Do("check", o)
      BY <1>1, <2>2, HeadAfter
  <2>4. c.todo[1].do = "check" /\ c.todo[1].node = o
      BY <2>3 DEF Do
  <2> QED
      BY <2>1, <2>4
<1>6. \A i \in DOMAIN a.todo : a.todo[i].do \notin Unregistered => n[a.todo[i].node] # "none"
    BY <1>2 DEF KnownCall
<1>7. \A i \in DOMAIN a.todo : a.todo[i].do = "confirm" => a.event \in EventNames
    BY <1>2, <1>3, <1>4 DEF KnownCall
<1>8. KnownCall(a, n, s)
    BY <1>5, <1>6, <1>7 DEF KnownCall
<1> QED
    BY <1>1, <1>8

LEMMA IdleKnown == ASSUME NEW n, NEW s PROVE KnownCall(NoCall, n, s)
    BY NoCallFacts DEF KnownCall

\* One call goes on, and the others know what they knew.
LEMMA KnownCalls ==
    ASSUME OracleInv, KnownInv, Lasting, NEW k \in Calls, NEW c, call' = [call EXCEPT ![k] = c],
           KnownCall(c, node', stake')
    PROVE  \A j \in Calls : KnownCall(call'[j], node', stake')
<1> SUFFICES ASSUME NEW j \in Calls PROVE KnownCall(call'[j], node', stake')
    OBVIOUS
<1>1. call \in [Calls -> CallRow]
    BY DEF OracleInv, OracleRows
<1>2. CASE j = k
    BY <1>1, <1>2
<1>3. CASE j # k
  <2>1. call'[j] = call[j] /\ call[j] \in CallRow /\ RowSound(call[j], signed, cost)
      BY <1>1, <1>3 DEF OracleInv
  <2>2. KnownCall(call[j], node, stake)
      BY DEF KnownInv
  <2> QED
      BY <2>1, <2>2, LastingCall
<1> QED
    BY <1>2, <1>3

LEMMA GoesKnown ==
    ASSUME OracleInv, KnownInv, Lasting, NEW k \in Calls, NEW step, At(k, step),
           Throws(k) \/ (Goes(k) /\ (step = "check" => stake[NextStep(k).node].held))
    PROVE  \A j \in Calls : KnownCall(call'[j], node', stake')
<1>1. /\ call[k] \in CallRow /\ call[k].todo # <<>> /\ RowSound(call[k], signed, cost)
      /\ NextStep(k) = call[k].todo[1] /\ call[k].todo[1].do = step
      /\ step \notin {"commit", "update"} => call[k].todo[1].node \in Nodes
    BY HeadFacts
<1>2. CASE Throws(k)
    BY <1>2, IdleKnown, KnownCalls DEF Throws
<1>3. CASE Goes(k) /\ (step = "check" => stake[NextStep(k).node].held)
  <2>1. call' = [call EXCEPT ![k] = After(call[k])]
      BY <1>3, GoesAfter
  <2>2. KnownCall(call[k], node', stake')
      BY <1>1, LastingCall DEF KnownInv
  <2>3. call[k].todo[1].do = "check" => stake'[call[k].todo[1].node].held
      BY <1>1, <1>3 DEF Lasting
  <2>4. KnownCall(After(call[k]), node', stake')
      BY <1>1, <2>2, <2>3, KnownAfter
  <2> QED
      BY <2>1, <2>4, KnownCalls
<1> QED
    BY <1>2, <1>3

LEMMA SameKnown ==
    ASSUME KnownInv, UNCHANGED <<node, stake, outcomes, confirmed, dispute>>, made' \in 0 .. MaxCalls,
           \A j \in Calls : KnownCall(call'[j], node', stake')
    PROVE  KnownInv'
    BY DEF KnownInv, Known

LEMMA RegisterKnown ==
    ASSUME OracleInv, KnownInv, NEW k \in Calls, Register(k), made' = made
    PROVE  KnownInv'
<1>1. PICK o : o = NextStep(k).node
    OBVIOUS
<1>2. PICK step \in {"create", "reactivate"} : At(k, step)
    BY DEF Register
<1>3. o \in Nodes /\ call[k] \in CallRow
    BY <1>1, <1>2, HeadFacts
<1>4. UNCHANGED <<outcomes, confirmed, dispute>>
    BY DEF Register
<1>5. CASE Throws(k) /\ UNCHANGED <<node, stake>>
  <2>1. \A j \in Calls : KnownCall(call'[j], node', stake')
    <3>1. Lasting
        BY <1>5 DEF Lasting
    <3> QED
        BY <1>2, <1>5, <3>1, GoesKnown
  <2> QED
      BY <1>4, <1>5, <2>1, SameKnown DEF KnownInv
<1>6. CASE /\ node' = [node EXCEPT ![o] = "active"]
           /\ stake' = IF call[k].stake = 0 THEN stake
                       ELSE [stake EXCEPT ![o].held = TRUE, ![o].amount = call[k].stake]
           /\ Goes(k)
  <2>1. node \in [Nodes -> {"none", "active", "inactive"}] /\ stake \in [Nodes -> StakeRow]
      BY DEF KnownInv, OracleInv, OracleRows
  <2>2. /\ node' \in [Nodes -> {"none", "active", "inactive"}] /\ node'[o] = "active"
        /\ \A x \in Nodes : x # o => node'[x] = node[x] /\ stake'[x] = stake[x]
        /\ stake'[o] = stake[o] \/ stake'[o].held
      BY <1>3, <1>6, <2>1 DEF StakeRow
  <2>3. Lasting
      BY <2>2 DEF Lasting
  <2>4. \A j \in Calls : KnownCall(call'[j], node', stake')
    <3>1. step # "check"
        OBVIOUS
    <3> QED
        BY <1>2, <1>6, <2>3, <3>1, GoesKnown
  <2>5. \A x \in Nodes : Known(x)'
      BY <1>4, <2>2 DEF KnownInv, Known
  <2>6. \A new \in confirmed : new[1] \in Nodes
      BY DEF OracleInv, OracleRows
  <2>7. \A new \in confirmed' : node'[new[1]] # "none" /\ new[2] \in EventNames
      BY <1>4, <2>3, <2>6 DEF KnownInv, Lasting
  <2> QED
      BY <1>4, <2>2, <2>4, <2>5, <2>7 DEF KnownInv
<1> QED
    BY <1>1, <1>5, <1>6 DEF Register

LEMMA ConfirmKnown ==
    ASSUME OracleInv, KnownInv, NEW k \in Calls, Confirm(k), made' = made
    PROVE  KnownInv'
<1>1. PICK o : o = NextStep(k).node
    OBVIOUS
<1>2. /\ o \in Nodes /\ 1 \in DOMAIN call[k].todo /\ call[k].todo[1].node = o
      /\ call[k].todo[1].do = "confirm" /\ At(k, "confirm")
    BY <1>1, HeadFacts DEF Confirm
<1>3. node[o] # "none" /\ call[k].event \in EventNames
    BY <1>2 DEF KnownInv, KnownCall, Unregistered
<1>4. UNCHANGED <<node, stake, outcomes, dispute>> /\ (Goes(k) \/ Throws(k))
    BY DEF Confirm
<1>5. confirmed' = confirmed \/ confirmed' = confirmed \cup {<<o, call[k].event>>}
    BY <1>1 DEF Confirm
<1>6. \A j \in Calls : KnownCall(call'[j], node', stake')
  <2>1. Lasting
      BY <1>4 DEF Lasting
  <2> QED
      BY <1>2, <1>4, <2>1, GoesKnown
<1> QED
    BY <1>3, <1>4, <1>5, <1>6 DEF KnownInv, Known

LEMMA SlashKnown ==
    ASSUME OracleInv, KnownInv, NEW k \in Calls, Slash(k), made' = made
    PROVE  KnownInv'
<1>1. PICK o : o = NextStep(k).node
    OBVIOUS
<1>2. /\ o \in Nodes /\ 1 \in DOMAIN call[k].todo /\ call[k].todo[1].node = o /\ call[k].todo # <<>>
      /\ call[k].todo[1].do = "slash" /\ At(k, "slash")
    BY <1>1, HeadFacts DEF Slash
<1>3. node[o] # "none" /\ stake[o].held
    BY <1>2 DEF KnownInv, KnownCall, Unregistered
<1>4. UNCHANGED <<node, outcomes, confirmed, dispute>> /\ Goes(k)
    BY DEF Slash
<1>5. /\ \A x \in Nodes : x # o => stake'[x] = stake[x]
      /\ stake'[o].held
  <2>1. stake \in [Nodes -> StakeRow] /\ stake' = [stake EXCEPT ![o].amount = @ - 1, ![o].slashed = @ + 1]
      BY <1>1 DEF Slash, OracleInv, OracleRows
  <2> QED
      BY <1>2, <1>3, <2>1 DEF StakeRow
<1>6. Lasting
    BY <1>4, <1>5 DEF Lasting
<1>7. \A j \in Calls : KnownCall(call'[j], node', stake')
    BY <1>2, <1>4, <1>6, GoesKnown
<1>8. \A x \in Nodes : Known(x)'
    BY <1>3, <1>4, <1>5 DEF KnownInv, Known
<1> QED
    BY <1>4, <1>7, <1>8 DEF KnownInv

LEMMA CountKnown ==
    ASSUME OracleInv, KnownInv, NEW k \in Calls, CountOutcome(k), made' = made
    PROVE  KnownInv'
<1>1. PICK o : o = NextStep(k).node
    OBVIOUS
<1>2. /\ o \in Nodes /\ 1 \in DOMAIN call[k].todo /\ call[k].todo[1].node = o
      /\ call[k].todo[1].do = "count" /\ At(k, "count")
    BY <1>1, HeadFacts DEF CountOutcome
<1>3. node[o] # "none"
    BY <1>2 DEF KnownInv, KnownCall, Unregistered
<1>4. UNCHANGED <<node, stake, confirmed, dispute>> /\ Goes(k)
    BY DEF CountOutcome
<1>5. \A x \in Nodes : x # o => outcomes'[x] = outcomes[x]
    BY <1>1 DEF CountOutcome, OracleInv, OracleRows
<1>6. \A j \in Calls : KnownCall(call'[j], node', stake')
  <2>1. Lasting
      BY <1>4 DEF Lasting
  <2> QED
      BY <1>2, <1>4, <2>1, GoesKnown
<1>7. \A x \in Nodes : Known(x)'
    BY <1>3, <1>4, <1>5 DEF KnownInv, Known
<1> QED
    BY <1>4, <1>6, <1>7 DEF KnownInv

LEMMA ReputationKnown ==
    ASSUME OracleInv, KnownInv, NEW k \in Calls, ReadReputation(k) \/ WriteReputation(k), made' = made
    PROVE  KnownInv'
<1>1. PICK s \in {"read", "write"} : At(k, s)
    BY DEF ReadReputation, WriteReputation
<1>2. /\ call[k] \in CallRow /\ call[k].todo # <<>> /\ RowSound(call[k], signed, cost)
      /\ call[k].todo \in Seq(Step) /\ 1 \in DOMAIN call[k].todo /\ call[k].todo[1].do = s
    BY <1>1, HeadFacts
<1>3. UNCHANGED <<node, stake, outcomes, confirmed, dispute>> /\ call \in [Calls -> CallRow]
    BY DEF ReadReputation, WriteReputation, dataVars, OracleInv, OracleRows
<1>4. PICK v : call' = [call EXCEPT ![k].todo = Tail(@), ![k].read = v]
    BY DEF ReadReputation, WriteReputation
<1>5. PICK a : a = After(call[k])
    OBVIOUS
<1>6. PICK c : c = [call[k] EXCEPT !.todo = Tail(@), !.read = v]
    OBVIOUS
<1>7. call' = [call EXCEPT ![k] = c]
    BY <1>3, <1>4, <1>6
<1>8. Len(call[k].todo) # 1
  <2>1. 1 < Len(call[k].todo)
      BY <1>2 DEF RowSound, Shaped
  <2>2. \A n \in Nat : 1 < n => n # 1
      OBVIOUS
  <2>3. Len(call[k].todo) \in Nat
      BY <1>2
  <2> QED
      BY <2>1, <2>2, <2>3
<1>9. c.todo = a.todo /\ c.event = a.event
  <2>1. a = [call[k] EXCEPT !.todo = Tail(@)]
      BY <1>5, <1>8 DEF After
  <2> QED
      BY <1>2, <1>6, <2>1 DEF CallRow
<1>10. KnownCall(a, node, stake)
    BY <1>2, <1>5, KnownAfter DEF KnownInv
<1>11. KnownCall(c, node', stake') /\ Lasting
    BY <1>3, <1>9, <1>10 DEF KnownCall, Lasting
<1>12. \A j \in Calls : KnownCall(call'[j], node', stake')
    BY <1>7, <1>11, KnownCalls
<1> QED
    BY <1>3, <1>12, SameKnown DEF KnownInv

LEMMA ResolutionKnown ==
    ASSUME OracleInv, KnownInv, NEW k \in Calls, UpdateDispute(k), made' = made
    PROVE  KnownInv'
<1>1. UNCHANGED <<node, stake, outcomes, confirmed, dispute>> /\ call \in [Calls -> CallRow] /\ OracleRows
    BY DEF UpdateDispute, dataVars, OracleInv, OracleRows
<1>2. PICK rows : rows = SetToSeq(confirmed) /\ rows \in Seq(confirmed)
    BY <1>1, ListOf DEF OracleRows
<1>3. PICK losers : losers = [i \in DOMAIN rows |-> rows[i][1]]
    OBVIOUS
<1>4. losers \in Seq(Nodes) /\ \A i \in DOMAIN losers : node[losers[i]] # "none"
  <2>1. PICK n \in Nat : DOMAIN rows = 1 .. n
      BY <1>2
  <2>2. \A i \in 1 .. n : rows[i] \in confirmed /\ rows[i][1] \in Nodes
    <3>1. \A i \in 1 .. n : rows[i] \in confirmed
        BY <1>2, <2>1
    <3> QED
        BY <1>1, <3>1 DEF OracleRows
  <2>3. losers \in [1 .. n -> Nodes]
      BY <1>3, <2>1, <2>2
  <2>4. \A i \in 1 .. n : node[losers[i]] # "none"
      BY <1>3, <2>1, <2>2 DEF KnownInv
  <2> QED
      BY <2>3, <2>4
<1>5. PICK t : t = Penalty(losers, call[k].outcome)
    OBVIOUS
<1>6. /\ t \in Seq(Step) /\ t[1].do \in {"read", "check", "commit"}
      /\ \A i \in DOMAIN t : t[i].do \in {"read", "write", "count", "check", "slash", "commit"}
      /\ \A i \in DOMAIN t : t[i].do = "commit" \/ \E j \in DOMAIN losers : t[i].node = losers[j]
    BY <1>4, <1>5, PenaltyFacts
<1>7. PICK c : c = [call[k] EXCEPT !.todo = t, !.seen = Range(losers)]
    OBVIOUS
<1>8. call' = [call EXCEPT ![k] = c]
  <2>1. call' = [call EXCEPT ![k].todo = t, ![k].seen = Range(losers)]
      BY <1>2, <1>3, <1>5 DEF UpdateDispute
  <2> QED
      BY <1>1, <1>7, <2>1
<1>9. c.todo = t
    BY <1>1, <1>7 DEF CallRow
<1>10. KnownCall(c, node', stake')
    BY <1>1, <1>4, <1>6, <1>9 DEF KnownCall, Unregistered
<1>11. Lasting
    BY <1>1 DEF Lasting
<1>12. \A j \in Calls : KnownCall(call'[j], node', stake')
    BY <1>8, <1>10, <1>11, KnownCalls
<1> QED
    BY <1>1, <1>12, SameKnown DEF KnownInv

LEMMA OtherCallsKnown ==
    ASSUME OracleInv, KnownInv, NEW k \in Calls, made' = made,
           CheckLimit(k) \/ CheckStake(k) \/ Commit(k) \/ Sign(k)
    PROVE  KnownInv'
<1>1. UNCHANGED <<node, stake, outcomes, confirmed>>
    BY DEF CheckLimit, CheckStake, Commit, Sign, dataVars
<1>2. Lasting
    BY <1>1 DEF Lasting
<1>3. PICK step : /\ At(k, step)
                  /\ Throws(k) \/ (Goes(k) /\ (step = "check" => stake[NextStep(k).node].held))
  <2>1. CASE CheckLimit(k)
      BY <2>1 DEF CheckLimit
  <2>2. CASE CheckStake(k)
      BY <2>2 DEF CheckStake, EnoughStake
  <2>3. CASE Commit(k)
      BY <2>3 DEF Commit
  <2>4. CASE Sign(k)
      BY <2>4 DEF Sign
  <2> QED
      BY <2>1, <2>2, <2>3, <2>4
<1>4. \A j \in Calls : KnownCall(call'[j], node', stake')
    BY <1>2, <1>3, GoesKnown
<1>5. dispute' \in [DisputeIds -> {"none", "OPEN", "success", "failure"}]
  <2>1. CASE Commit(k)
    <3>1. /\ call[k] \in CallRow /\ RowSound(call[k], signed, cost) /\ 1 \in DOMAIN call[k].todo
          /\ call[k].todo[1].do = "commit"
        BY <2>1, HeadFacts DEF Commit
    <3>2. call[k].outcome \in {"none", "success", "failure"}
        BY <3>1 DEF CallRow
    <3> QED
        BY <2>1, <3>2 DEF Commit, KnownInv
  <2>2. CASE ~Commit(k)
      BY <2>2 DEF CheckLimit, CheckStake, Sign, dataVars, KnownInv
  <2> QED
      BY <2>1, <2>2
<1> QED
    BY <1>1, <1>4, <1>5 DEF KnownInv, Known

LEMMA StartKnown ==
    ASSUME OracleInv, KnownInv, NEW k \in Calls, NEW c, Start(k, c), KnownCall(c, node, stake)
    PROVE  KnownInv'
<1>1. UNCHANGED <<node, stake, outcomes, confirmed, dispute>> /\ call' = [call EXCEPT ![k] = c]
    BY DEF Start, dataVars
<1>2. made' \in 0 .. MaxCalls
    BY OracleAssumption DEF Start, KnownInv
<1>3. KnownCall(c, node', stake') /\ Lasting
    BY <1>1 DEF Lasting
<1>4. \A j \in Calls : KnownCall(call'[j], node', stake')
    BY <1>1, <1>3, KnownCalls
<1> QED
    BY <1>1, <1>2, <1>4, SameKnown

LEMMA StartsKnown ==
    ASSUME OracleInv, KnownInv, NEW k \in Calls, NEW o \in Nodes,
           \/ \E amount \in StakeAmounts : registerOracle(k, o, amount)
           \/ \E ev \in EventNames : confirmOracleEvent(k, o, ev)
           \/ SlashCall(k, o)
           \/ addThresholdSignature(k, o)
    PROVE  KnownInv'
<1>1. ASSUME NEW amount \in StakeAmounts, registerOracle(k, o, amount) PROVE KnownInv'
  <2>1. PICK s \in {"create", "reactivate"} :
          /\ Start(k, [NoCall EXCEPT !.todo = <<Do(s, o)>>, !.stake = amount])
          /\ s = "reactivate" => node[o] # "none"
      BY <1>1 DEF registerOracle
  <2>2. PICK t : t = <<Do(s, o)>>
      OBVIOUS
  <2>3. t \in Seq(Step)
      BY <2>2, ShortLists
  <2>4. DOMAIN t = {1} /\ t[1].do = s /\ t[1].node = o
      BY <2>2 DEF Do
  <2>5. PICK c : c = [NoCall EXCEPT !.todo = t, !.stake = amount] /\ c.todo = t
    <3>1. PICK c : c = [NoCall EXCEPT !.todo = t, !.stake = amount]
        OBVIOUS
    <3>2. c.todo = t
        BY <2>3, <3>1, NoCallFacts DEF CallRow
    <3> QED
        BY <3>1, <3>2
  <2>6. KnownCall(c, node, stake)
      BY <2>1, <2>4, <2>5 DEF KnownCall, Unregistered
  <2> QED
      BY <2>1, <2>2, <2>5, <2>6, StartKnown
<1>2. ASSUME NEW ev \in EventNames, confirmOracleEvent(k, o, ev) PROVE KnownInv'
  <2>1. /\ Start(k, [NoCall EXCEPT !.todo = <<Do("limit", o), Do("confirm", o)>>, !.event = ev])
        /\ node[o] # "none"
      BY <1>2 DEF confirmOracleEvent
  <2>2. PICK t : t = <<Do("limit", o), Do("confirm", o)>>
      OBVIOUS
  <2>3. t \in Seq(Step)
      BY <2>2, ShortLists
  <2>4. /\ DOMAIN t = {1, 2} /\ t[1].do = "limit" /\ t[1].node = o
        /\ t[2].do = "confirm" /\ t[2].node = o
      BY <2>2 DEF Do
  <2>5. PICK c : c = [NoCall EXCEPT !.todo = t, !.event = ev] /\ c.todo = t /\ c.event = ev
    <3>1. PICK c : c = [NoCall EXCEPT !.todo = t, !.event = ev]
        OBVIOUS
    <3>2. c.todo = t /\ c.event = ev
        BY <2>3, <3>1, NoCallFacts DEF CallRow
    <3> QED
        BY <3>1, <3>2
  <2>6. KnownCall(c, node, stake)
      BY <2>1, <2>4, <2>5 DEF KnownCall, Unregistered
  <2> QED
      BY <2>1, <2>2, <2>5, <2>6, StartKnown
<1>3. CASE SlashCall(k, o)
  <2>1. Start(k, [NoCall EXCEPT !.todo = slashStake(o), !.outcome = "failure"]) /\ node[o] # "none"
      BY <1>3 DEF SlashCall
  <2>2. PICK t : t = slashStake(o)
      OBVIOUS
  <2>3. /\ t \in Seq(Step) /\ \A i \in DOMAIN t : t[i].node = o
        /\ \A i \in DOMAIN t : t[i].do \in {"read", "write", "count", "check", "slash"}
        /\ t[1].do \in {"read", "check"}
    <3>1. Penalties(t) /\ Concerns(t, o)
        BY <2>2, SlashSteps
    <3> QED
        BY <3>1 DEF Penalties, Concerns
  <2>4. PICK c : c = [NoCall EXCEPT !.todo = t, !.outcome = "failure"] /\ c.todo = t
    <3>1. PICK c : c = [NoCall EXCEPT !.todo = t, !.outcome = "failure"]
        OBVIOUS
    <3>2. c.todo = t
        BY <2>3, <3>1, NoCallFacts DEF CallRow
    <3> QED
        BY <3>1, <3>2
  <2>5. KnownCall(c, node, stake)
      BY <2>1, <2>3, <2>4 DEF KnownCall
  <2> QED
      BY <2>1, <2>2, <2>4, <2>5, StartKnown
<1>4. CASE addThresholdSignature(k, o)
  <2>1. Start(k, [NoCall EXCEPT !.todo = <<Do("sign", o)>>, !.seen = threshold])
      BY <1>4 DEF addThresholdSignature
  <2>2. PICK t : t = <<Do("sign", o)>>
      OBVIOUS
  <2>3. t \in Seq(Step)
      BY <2>2, ShortLists
  <2>4. DOMAIN t = {1} /\ t[1].do = "sign"
      BY <2>2 DEF Do
  <2>5. PICK c : c = [NoCall EXCEPT !.todo = t, !.seen = threshold] /\ c.todo = t
    <3>1. PICK c : c = [NoCall EXCEPT !.todo = t, !.seen = threshold]
        OBVIOUS
    <3>2. c.todo = t
        BY <2>3, <3>1, NoCallFacts DEF CallRow
    <3> QED
        BY <3>1, <3>2
  <2>6. KnownCall(c, node, stake)
      BY <2>4, <2>5 DEF KnownCall, Unregistered
  <2> QED
      BY <2>1, <2>2, <2>5, <2>6, StartKnown
<1> QED
    BY <1>1, <1>2, <1>3, <1>4

LEMMA ResolveKnown ==
    ASSUME OracleInv, KnownInv, NEW k \in Calls, NEW d, NEW outcome, resolveDispute(k, d, outcome)
    PROVE  KnownInv'
<1>1. Start(k, [NoCall EXCEPT !.todo = <<Do("update", "none")>>, !.dispute = d, !.outcome = outcome])
    BY DEF resolveDispute
<1>2. PICK t : t = <<Do("update", "none")>>
    OBVIOUS
<1>3. t \in Seq(Step) /\ DOMAIN t = {1} /\ t[1].do = "update"
    BY <1>2 DEF Do, Step
<1>4. PICK c : c = [NoCall EXCEPT !.todo = t, !.dispute = d, !.outcome = outcome] /\ c.todo = t
  <2>1. PICK c : c = [NoCall EXCEPT !.todo = t, !.dispute = d, !.outcome = outcome]
      OBVIOUS
  <2>2. c.todo = t
      BY <1>3, <2>1, NoCallFacts DEF CallRow
  <2> QED
      BY <2>1, <2>2
<1>5. KnownCall(c, node, stake)
    BY <1>3, <1>4 DEF KnownCall, Unregistered
<1> QED
    BY <1>1, <1>2, <1>4, <1>5, StartKnown

LEMMA KnownStep == OracleInv /\ KnownInv /\ [OracleNext]_oracleVars => KnownInv'
<1> SUFFICES ASSUME OracleInv, KnownInv, [OracleNext]_oracleVars PROVE KnownInv'
    OBVIOUS
<1>1. ASSUME NEW k \in Calls, CallStep(k) PROVE KnownInv'
    BY <1>1, RegisterKnown, ConfirmKnown, SlashKnown, CountKnown, ReputationKnown, ResolutionKnown,
       OtherCallsKnown DEF CallStep
<1>2. ASSUME NEW k \in Calls, NEW o \in Nodes,
             \/ \E amount \in StakeAmounts : registerOracle(k, o, amount)
             \/ \E ev \in EventNames : confirmOracleEvent(k, o, ev)
             \/ SlashCall(k, o)
             \/ addThresholdSignature(k, o)
      PROVE  KnownInv'
    BY <1>2, StartsKnown
<1>3. ASSUME NEW k \in Calls, NEW d, NEW outcome, resolveDispute(k, d, outcome) PROVE KnownInv'
    BY <1>3, ResolveKnown
<1>4. ASSUME UNCHANGED <<stake, outcomes, confirmed, call, made>>, Lasting,
             node' \in [Nodes -> {"none", "active", "inactive"}],
             dispute' \in [DisputeIds -> {"none", "OPEN", "success", "failure"}],
             \A o \in Nodes : node'[o] = "none" => node[o] = "none"
      PROVE  KnownInv'
  <2>1. \A j \in Calls : KnownCall(call[j], node', stake')
    <3> SUFFICES ASSUME NEW j \in Calls PROVE KnownCall(call[j], node', stake')
        OBVIOUS
    <3>1. call[j] \in CallRow /\ RowSound(call[j], signed, cost) /\ KnownCall(call[j], node, stake)
        BY DEF OracleInv, OracleRows, KnownInv
    <3> QED
        BY <1>4, <3>1, LastingCall
  <2>2. \A new \in confirmed : new[1] \in Nodes
      BY DEF OracleInv, OracleRows
  <2> QED
      BY <1>4, <2>1, <2>2 DEF KnownInv, Known, Lasting
<1>5. ASSUME NEW o \in Nodes, deactivateOracle(o) PROVE KnownInv'
  <2>1. node' \in [Nodes -> {"none", "active", "inactive"}] /\ Lasting
        /\ \A x \in Nodes : node'[x] = "none" => node[x] = "none"
      BY <1>5 DEF deactivateOracle, KnownInv, Lasting
  <2> QED
      BY <1>4, <1>5, <2>1 DEF deactivateOracle, KnownInv
<1>6. ASSUME NEW d \in DisputeIds, FlagDispute(d) PROVE KnownInv'
    BY <1>4, <1>6 DEF FlagDispute, KnownInv, Lasting
<1>7. CASE NextMinute
    BY <1>4, <1>7 DEF NextMinute, KnownInv, Lasting
<1>8. CASE UNCHANGED oracleVars
    BY <1>4, <1>8 DEF oracleVars, KnownInv, Lasting
<1> QED
    BY <1>1, <1>2, <1>3, <1>5, <1>6, <1>7, <1>8 DEF OracleNext

LEMMA KnownInitial == OracleInit => KnownInv
<1> SUFFICES ASSUME OracleInit PROVE KnownInv
    OBVIOUS
<1>1. \A k \in Calls : KnownCall(call[k], node, stake)
    BY IdleKnown DEF OracleInit
<1>2. made \in 0 .. MaxCalls
    BY OracleAssumption DEF OracleInit
<1> QED
    BY <1>1, <1>2 DEF OracleInit, KnownInv, Known

\* However calls overlap, only registered oracles hold stakes, have outcomes counted
\* and have confirmed events (oracle.service.ts).
THEOREM OracleTypeCorrect == OracleSpec => []OracleTypeOK
<1>1. OracleInv /\ KnownInv => OracleTypeOK
  <2> SUFFICES ASSUME OracleInv, KnownInv PROVE OracleTypeOK
      OBVIOUS
  <2>1. ASSUME NEW o \in Nodes
        PROVE  /\ stake[o] = NoStake \/ stake[o].held
               /\ votes[o] \in Counts /\ outcomes[o] \in Counts /\ rate[o] \in Nat
               /\ node[o] = "none" => stake[o] = NoStake /\ outcomes[o] = NoVotes
      BY DEF OracleInv, OracleRows, KnownInv, Known
  <2> QED
      BY <2>1 DEF OracleTypeOK, OracleInv, OracleRows, KnownInv
<1>2. OracleInit => OracleInv /\ KnownInv
    BY OracleInitial, KnownInitial
<1>3. OracleInv /\ KnownInv /\ [OracleNext]_oracleVars => (OracleInv /\ KnownInv)'
    BY OracleStep, KnownStep
<1> QED
    BY <1>1, <1>2, <1>3, PTL DEF OracleSpec

----------------------------------------------------------------------------
(* The four together: they share no variables, so what holds of each holds    *)
(* of all side by side.                                                       *)

\* However the steps of the four parts interleave: rows refer to rows that exist,
\* nobody unregistered holds a stake or an outcome, and counters and states stay in
\* their ranges (auth.service.ts, oracle.service.ts, escrow.service.ts and the sockets).
THEOREM ServicesTypeCorrect == Services => []ServicesTypeOK
<1>1. MirrorSpec => []MirrorTypeOK
    BY SettlementsKept, PTL
<1>2. SocketSpec => []SocketTypeOK
    BY PagesMatchSockets, PTL
<1>3. AuthTypeOK /\ OracleTypeOK /\ MirrorTypeOK /\ SocketTypeOK => ServicesTypeOK
    BY DEF ServicesTypeOK
<1> QED
    BY <1>1, <1>2, <1>3, AuthTypeCorrect, OracleTypeCorrect, PTL DEF Services
=============================================================================
