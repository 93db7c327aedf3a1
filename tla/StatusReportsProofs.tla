-------------------------- MODULE StatusReportsProofs --------------------------
(* Proofs about StatusReports: it is Station with more state, so what is proved *)
(* of Station holds of it, and no step forgets to tell a status it changes.     *)
EXTENDS StatusReports, StationProofs

-----------------------------------------------------------------------------
(* Station underneath.                                                      *)

\* A handler, goroutine or tick that tells something does to the station what
\* Station says it does; a notification does nothing to it.
LEMMA ReportStepIsStationStep == [ReportNext]_allVars => [Next]_vars
<1> SUFFICES ASSUME [ReportNext]_allVars PROVE [Next]_vars
  OBVIOUS
<1>1. CASE ReportRequest
  <2>1. ASSUME NEW k \in {0} \cup Connector, NEW type \in Availability, OnChangeAvailability(k, type)
        PROVE  Request
    BY <2>1 DEF OnChangeAvailability, Request
  <2>2. ASSUME NEW value \in BOOLEAN, OnChangeConfiguration(value) PROVE Request
    BY <2>2 DEF OnChangeConfiguration, Request
  <2>3. ASSUME NEW r \in ReservationId, NEW k \in 0 .. (NumConnectors + 1), NEW tag \in IdTag,
               NEW parent \in IdTag, OnReserveNow(r, k, tag, {tag, parent})
        PROVE  Request
    BY <2>3 DEF OnReserveNow, Request
  <2>4. ASSUME NEW r \in ReservationId, OnCancelReservation(r) PROVE Request
    BY <2>4 DEF OnCancelReservation, Request
  <2>5. ASSUME NEW tag \in IdTag, NEW given \in ProfileChoice, OnRemoteStartTransaction(tag, given)
        PROVE  Request
    BY <2>5 DEF OnRemoteStartTransaction, Request
  <2>6. ASSUME NEW i \in 1 .. issued, OnRemoteStopTransaction(FirstTransaction + i - 1)
        PROVE  Request
    BY <2>6 DEF OnRemoteStopTransaction, Request
  <2>7. ASSUME OnReset PROVE Request
    BY <2>7 DEF OnReset, Request
  <2>8. ASSUME NEW c \in Connector, Triggered(c) PROVE UNCHANGED vars
    BY <2>8 DEF Triggered
  <2> QED
    BY <1>1, <2>1, <2>2, <2>3, <2>4, <2>5, <2>6, <2>7, <2>8 DEF ReportRequest, Next
<1>2. ASSUME NEW t \in Task, ReportTaskStep(t) PROVE Next
  <2>1. TaskStep(t)
    BY <1>2 DEF ReportTaskStep, BeginPrepared, BeginCalls, BeginConfirmed, BeginAbandoned,
                FinishConfirmed, FinishFailed, TaskStep
  <2> QED
    BY <2>1 DEF Next
<1>3. ASSUME NEW r \in ReservationId, TickExpiryOf(r) PROVE Next
  BY <1>3 DEF TickExpiryOf, TickExpiry, Sweep, Next
<1>4. ASSUME NEW r \in ReservationId, Lapse(r) PROVE Next
  BY <1>4 DEF Next
<1>5. ASSUME NEW c \in Connector, NEW s \in Sender, Settle(c, s) PROVE UNCHANGED vars
  BY <1>5 DEF Settle, Deliver, Lose
<1>6. CASE UNCHANGED allVars
  BY <1>6 DEF allVars
<1> QED
  BY <1>1, <1>2, <1>3, <1>4, <1>5, <1>6 DEF ReportNext

\* What is proved of Station holds with notifications, too.
THEOREM ReportsImplementStation == ReportSpec => Spec
<1>1. ReportInit => Init
  BY DEF ReportInit
<1> QED
  BY <1>1, ReportStepIsStationStep, PTL DEF ReportSpec, Spec

-----------------------------------------------------------------------------
(* What the critical sections tell.                                         *)

Told == [status : Status \cup {"none", Unknown}, latest : BOOLEAN]

ReportTypeOK ==
    /\ notices \in [Connector -> [Sender -> Told]]
    /\ view \in [Connector -> Told]

ReportInv == ReportTypeOK /\ LatestTellsStatus

LEMMA ReportInvInit == ReportInit => ReportInv
BY DEF ReportInit, Init, ReportInv, ReportTypeOK, LatestTellsStatus, Told, None, Status

\* Connectors whose status a step changes.
Changed == {c \in Connector : status'[c] # status[c]}

\* A critical section that leaves a notification for every connector it changes
\* keeps the latest notifications true.
LEMMA PublishKeepsReportInv ==
    ASSUME ReportInv, TypeOK', NEW senders, Publish(senders), Changed \subseteq DOMAIN senders
    PROVE  ReportInv'
<1> USE DEF ReportInv, ReportTypeOK, Publish
<1>1. \A c \in Connector : status'[c] \in Status
  BY DEF TypeOK
<1>2. \A told \in Told : Superseded(told) \in Told /\ ~Superseded(told).latest
  BY DEF Superseded, Told
<1>3. ASSUME NEW c \in Connector, c \notin DOMAIN senders
      PROVE  /\ notices'[c] = notices[c] /\ view'[c] = view[c]
             /\ status'[c] = status[c]
  BY <1>3 DEF Changed
<1>4. ASSUME NEW c \in Connector, c \in DOMAIN senders
      PROVE  /\ view'[c] = Superseded(view[c])
             /\ notices'[c] = [s \in Sender |->
                                 IF s = senders[c] THEN [status |-> status'[c], latest |-> TRUE]
                                 ELSE Superseded(notices[c][s])]
  BY <1>4
<1>5. ReportTypeOK'
  <2>1. ASSUME NEW c \in Connector PROVE notices'[c] \in [Sender -> Told] /\ view'[c] \in Told
    <3>1. CASE c \notin DOMAIN senders
      BY <1>3, <3>1
    <3>2. CASE c \in DOMAIN senders
      <4>1. [status |-> status'[c], latest |-> TRUE] \in Told
        BY <1>1 DEF Told
      <4> QED
        BY <1>2, <1>4, <3>2, <4>1
    <3> QED
      BY <3>1, <3>2
  <2>2. /\ notices' = [c \in Connector |-> notices'[c]]
        /\ view' = [c \in Connector |-> view'[c]]
    OBVIOUS
  <2> QED
    BY <2>1, <2>2
<1>6. LatestTellsStatus'
  <2>1. ASSUME NEW c \in Connector
        PROVE  /\ \A s \in Sender : notices'[c][s].latest => notices'[c][s].status = status'[c]
               /\ view'[c].latest => view'[c].status = status'[c]
    <3>1. CASE c \notin DOMAIN senders
      BY <1>3, <3>1 DEF LatestTellsStatus
    <3>2. CASE c \in DOMAIN senders
      BY <1>2, <1>4, <3>2
    <3> QED
      BY <3>1, <3>2
  <2> QED
    BY <2>1 DEF LatestTellsStatus
<1> QED
  BY <1>5, <1>6

LEMMA NotifyAsyncKeepsReportInv ==
    ASSUME ReportInv, TypeOK', NEW cs, NotifyAsync(cs), Changed \subseteq cs
    PROVE  ReportInv'
BY PublishKeepsReportInv DEF NotifyAsync

LEMMA NotifyKeepsReportInv ==
    ASSUME ReportInv, TypeOK', NEW cs, NEW s, Notify(cs, s), Changed \subseteq cs
    PROVE  ReportInv'
BY PublishKeepsReportInv DEF Notify

\* Without a notification there is no change of status.
LEMMA QuietKeepsReportInv ==
    ASSUME ReportInv, UNCHANGED reportVars, Changed = {}
    PROVE  ReportInv'
<1>1. \A c \in Connector : status'[c] = status[c]
  BY DEF Changed
<1> QED
  BY <1>1 DEF ReportInv, ReportTypeOK, LatestTellsStatus, reportVars

-----------------------------------------------------------------------------
(* What each handler changes.                                               *)

LEMMA RequestKeepsReportInv ==
    ASSUME ReportInv, TypeOK, TypeOK', ReportRequest
    PROVE  ReportInv'
<1> USE DEF Changed
<1>1. ASSUME NEW k \in {0} \cup Connector, NEW type \in Availability, OnChangeAvailability(k, type)
      PROVE  ReportInv'
  <2>1. Changed \subseteq {c \in (IF k = 0 THEN Connector ELSE {k}) : transactionID[c] = 0}
    BY <1>1 DEF OnChangeAvailability, ChangeAvailability
  <2> QED
    BY <1>1, <2>1, NotifyAsyncKeepsReportInv DEF OnChangeAvailability
<1>2. ASSUME NEW value \in BOOLEAN, OnChangeConfiguration(value) PROVE ReportInv'
  BY <1>2, QuietKeepsReportInv DEF OnChangeConfiguration, ChangeConfiguration, connectorVars
<1>3. ASSUME NEW r \in ReservationId, NEW k \in 0 .. (NumConnectors + 1), NEW tag \in IdTag,
             NEW parent \in IdTag, OnReserveNow(r, k, tag, {tag, parent})
      PROVE  ReportInv'
  <2> DEFINE book == [reservations EXCEPT ![r] = NoReservation]
             current == Refreshed({reservations[r].connector}, book)
  <2>1. PICK granted \in (IF k = 0 THEN GrantsStation(book, tag)
                          ELSE {GrantsConnector(k, book, current)}) :
          /\ reservations' = IF granted
                             THEN [book EXCEPT ![r] = [connector |-> k, admits |-> {tag, parent}, live |-> TRUE]]
                             ELSE book
          /\ status' = IF granted /\ k # 0 THEN [current EXCEPT ![k] = "Reserved"] ELSE current
    BY <1>3 DEF OnReserveNow, ReserveNow
  <2>2. \A c \in Connector : c # reservations[r].connector => current[c] = status[c]
    BY DEF Refreshed
  <2>3. granted => reservations'[r].connector = k
    BY <2>1 DEF TypeOK
  <2>4. Changed \subseteq {reservations[r].connector, reservations'[r].connector} \cap Connector
    <3> SUFFICES ASSUME NEW c \in Connector, status'[c] # status[c],
                        c # reservations[r].connector
                 PROVE  c = reservations'[r].connector
      OBVIOUS
    <3>1. current \in [Connector -> Status]
      BY RefreshedType DEF Changed
    <3> QED
      BY <2>1, <2>2, <2>3, <3>1
  <2> QED
    BY <1>3, <2>4, NotifyAsyncKeepsReportInv DEF OnReserveNow
<1>4. ASSUME NEW r \in ReservationId, OnCancelReservation(r) PROVE ReportInv'
  <2>1. Changed \subseteq {reservations[r].connector} \cap Connector
    BY <1>4 DEF OnCancelReservation, CancelReservation, Drop, Refreshed
  <2> QED
    BY <1>4, <2>1, NotifyAsyncKeepsReportInv DEF OnCancelReservation
<1>5. ASSUME NEW tag \in IdTag, NEW given \in ProfileChoice, OnRemoteStartTransaction(tag, given)
      PROVE  ReportInv'
  <2>1. PICK c \in Connector : \E r : BeginStart(c, tag, r, given)
    BY <1>5 DEF OnRemoteStartTransaction, RemoteStartAny, RemoteStartOn
  <2>2. PICK t \in Task : Started(t) /\ Notify({tasks'[t].connector}, t)
    BY <1>5 DEF OnRemoteStartTransaction
  <2>3. tasks'[t].connector = c
    BY <2>1, <2>2 DEF BeginStart, Spawn, Started, TypeOK, Idle
  <2>4. Changed \subseteq {c}
    BY <2>1 DEF BeginStart, TypeOK
  <2> QED
    BY <2>2, <2>3, <2>4, NotifyKeepsReportInv
<1>6. ASSUME NEW i \in 1 .. issued, OnRemoteStopTransaction(FirstTransaction + i - 1)
      PROVE  ReportInv'
  <2> DEFINE tx == FirstTransaction + i - 1
  <2>1. PICK c \in Connector :
          /\ status' = [status EXCEPT ![c] = "Finishing"]
          /\ Spawn([pc |-> "finishing", connector |-> c, reservationID |-> 0, tx |-> tx])
    BY <1>6 DEF OnRemoteStopTransaction, RemoteStop
  <2>2. PICK t \in Task : Started(t) /\ Notify({tasks'[t].connector}, t)
    BY <1>6 DEF OnRemoteStopTransaction
  <2>3. tasks'[t].connector = c
    BY <2>1, <2>2 DEF Spawn, Started, TypeOK, Idle
  <2>4. Changed \subseteq {c}
    BY <2>1 DEF TypeOK
  <2> QED
    BY <2>2, <2>3, <2>4, NotifyKeepsReportInv
<1>7. ASSUME OnReset PROVE ReportInv'
  BY <1>7, NotifyAsyncKeepsReportInv DEF OnReset
<1>8. ASSUME NEW c \in Connector, Triggered(c) PROVE ReportInv'
  BY <1>8, NotifyAsyncKeepsReportInv DEF Triggered, vars, connectorVars
<1> QED
  BY <1>1, <1>2, <1>3, <1>4, <1>5, <1>6, <1>7, <1>8 DEF ReportRequest

LEMMA TaskStepKeepsReportInv ==
    ASSUME ReportInv, TypeOK, TypeOK', NEW t \in Task, ReportTaskStep(t)
    PROVE  ReportInv'
<1> USE DEF Changed
<1>1. CASE BeginPrepared(t) \/ BeginCalls(t) \/ FinishFailed(t)
  BY <1>1, QuietKeepsReportInv
     DEF BeginPrepared, BeginCalls, FinishFailed, Prepared, Authorized, CentralSystemStarts,
         StopFailed, connectorVars
<1>2. CASE BeginConfirmed(t)
  <2>1. Changed \subseteq {tasks[t].connector}
    BY <1>2 DEF BeginConfirmed, StartConfirmed, TypeOK
  <2> QED
    BY <1>2, <2>1, NotifyKeepsReportInv DEF BeginConfirmed
<1>3. CASE BeginAbandoned(t)
  <2>1. Changed \subseteq {tasks[t].connector}
    BY <1>3 DEF BeginAbandoned, StartAbandoned, Refreshed
  <2> QED
    BY <1>3, <2>1, NotifyKeepsReportInv DEF BeginAbandoned
<1>4. CASE FinishConfirmed(t)
  <2>1. Changed \subseteq {tasks[t].connector}
    BY <1>4 DEF FinishConfirmed, StopConfirmed, Refreshed
  <2> QED
    BY <1>4, <2>1, NotifyKeepsReportInv DEF FinishConfirmed
<1> QED
  BY <1>1, <1>2, <1>3, <1>4 DEF ReportTaskStep

\* The run loop, and the clock, which changes no status.
LEMMA LoopKeepsReportInv ==
    ASSUME ReportInv, TypeOK', NEW r \in ReservationId,
           TickExpiryOf(r) \/ (Lapse(r) /\ UNCHANGED reportVars)
    PROVE  ReportInv'
<1> USE DEF Changed
<1>1. ASSUME NEW swept \in SUBSET ReservationId, TickExpiry(swept) PROVE ReportInv'
  <2>1. Changed \subseteq {reservations[q].connector : q \in swept} \cap Connector
    BY <1>1 DEF TickExpiry, ExpireReservations, Drop, Refreshed
  <2> QED
    BY <1>1, <2>1, NotifyKeepsReportInv DEF TickExpiry
<1>2. CASE Lapse(r) /\ UNCHANGED reportVars
  BY <1>2, QuietKeepsReportInv DEF Lapse, connectorVars
<1> QED
  BY <1>1, <1>2 DEF TickExpiryOf

\* A notification that arrives, or fails, was true if it was the latest.
LEMMA SettleKeepsReportInv ==
    ASSUME ReportInv, NEW c \in Connector, NEW s \in Sender, Settle(c, s)
    PROVE  ReportInv'
<1> USE DEF ReportInv, ReportTypeOK
<1>1. /\ notices' = [notices EXCEPT ![c][s] = None]
      /\ view' = view \/ view' = [view EXCEPT ![c] = notices[c][s]]
      /\ status' = status
  BY DEF Settle, Deliver, Lose, vars, connectorVars
<1>2. None \in Told /\ ~None.latest
  BY DEF None, Told
<1>3. ReportTypeOK'
  BY <1>1, <1>2
<1>4. LatestTellsStatus'
  BY <1>1, <1>2 DEF LatestTellsStatus
<1> QED
  BY <1>3, <1>4

\* No handler, goroutine or tick changes a status without leaving a notification of
\* it behind, for any number of connectors, goroutines and notifications under way:
\* the central system's view is wrong only by a failed or an overtaken one.
THEOREM ChangesAreTold == ReportSpec => []LatestTellsStatus
<1>1. TypeOK /\ TypeOK' /\ ReportInv /\ [ReportNext]_allVars => ReportInv'
  <2> SUFFICES ASSUME TypeOK, TypeOK', ReportInv, [ReportNext]_allVars PROVE ReportInv'
    OBVIOUS
  <2>1. CASE UNCHANGED allVars
    BY <2>1 DEF allVars, vars, connectorVars, reportVars, ReportInv, ReportTypeOK, LatestTellsStatus
  <2> QED
    BY <2>1, RequestKeepsReportInv, TaskStepKeepsReportInv, LoopKeepsReportInv,
       SettleKeepsReportInv DEF ReportNext
<1>2. ReportSpec => []TypeOK
  BY ReportsImplementStation, TypeCorrect, PTL
<1>3. ReportInv => LatestTellsStatus
  BY DEF ReportInv
<1> QED
  BY <1>1, <1>2, <1>3, ReportInvInit, PTL DEF ReportSpec
=============================================================================
