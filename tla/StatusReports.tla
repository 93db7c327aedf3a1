----------------------------- MODULE StatusReports -----------------------------
(***************************************************************************)
(* Station together with the status notifications it sends and with what   *)
(* the central system believes of each connector.                          *)
(*                                                                         *)
(* A critical section that assigns a status leaves a notification behind   *)
(* that is sent after the mutex is released: by a goroutine of its own     *)
(* (notifyStatusAsync), by the goroutine of a transaction, which waits for *)
(* the reply, or by the run loop, which waits too.  The notifications of   *)
(* different senders arrive in any order.  One may fail, or find no        *)
(* connection and never be sent; nobody retries.                           *)
(*                                                                         *)
(* The announcement of the first statuses says "Available" whatever has    *)
(* happened meanwhile: it is a notification as old as the simulator, which *)
(* the loop sends connector by connector before its first tick.            *)
(*                                                                         *)
(* The actions are the handlers of Station, under the names they have in   *)
(* the code where Station's differ.  Connector 0, of which only the        *)
(* constant "Available" is ever told, is left out.                         *)
(* Definitions marked "faulty variant" are no part of the specification.   *)
(***************************************************************************)
EXTENDS Station

CONSTANTS
    Courier,  \* bound: goroutines of notifyStatusAsync at a time, per connector
    Loop,     \* the run loop, as a sender
    Unknown   \* what the central system believes before it is told

ASSUME SenderAssumption == Loop \notin Task \cup Courier /\ Task \cap Courier = {}
ASSUME UnknownAssumption == Unknown \notin Status

VARIABLES
    announced, \* connectors whose first status the loop has told
    notices,   \* the notification each sender has under way, per connector
    view,      \* the status the central system was told last, per connector
    lost       \* connectors of whose present status a notification failed

reportVars == <<announced, notices, view, lost>>
allVars == <<vars, reportVars>>

Sender == Task \cup Courier \cup {Loop}

\* latest: no later critical section has left a notification for the connector.
Notice == [status : Status, latest : BOOLEAN]
None == [status |-> "none", latest |-> FALSE]

ReportInit ==
    /\ Init
    /\ announced = 0
    /\ notices = [c \in Connector |-> [s \in Sender |->
                     IF s = Loop THEN [status |-> "Available", latest |-> TRUE] ELSE None]]
    /\ view = [c \in Connector |-> [status |-> Unknown, latest |-> FALSE]]
    /\ lost = {}

Superseded(notice) == [notice EXCEPT !.latest = FALSE]

\* Nothing of the sender is under way.
Sent(s) == \A c \in Connector : notices[c][s] = None

\* The critical section leaves a notification of the present status behind, for
\* each connector in the domain of senders.
Publish(senders) ==
    /\ \A c \in DOMAIN senders : notices[c][senders[c]] = None
    /\ notices' = [c \in Connector |->
                     IF c \notin DOMAIN senders THEN notices[c]
                     ELSE [s \in Sender |->
                             IF s = senders[c] THEN [status |-> status'[c], latest |-> TRUE]
                             ELSE Superseded(notices[c][s])]]
    /\ view' = [c \in Connector |->
                  IF c \in DOMAIN senders THEN Superseded(view[c]) ELSE view[c]]
    /\ lost' = lost \ DOMAIN senders
    /\ UNCHANGED announced

\* notifyStatusAsync, for connectors in cs, and notifyStatus by a waiting sender.
NotifyAsync(cs) ==
    LET free(c) == {d \in Courier : notices[c][d] = None}
    IN  /\ \A c \in cs : free(c) # {}
        /\ Publish([c \in cs |-> CHOOSE d \in free(c) : TRUE])
Notify(cs, s) == Publish([c \in cs |-> s])

\* The task that an action of Station has just started; its goroutine is new.
Started(t) == tasks[t] = Idle /\ tasks'[t] # Idle /\ Sent(t)

-----------------------------------------------------------------------------
(* The handlers.                                                            *)

OnChangeAvailability(k, type) ==
    /\ ChangeAvailability(k, type)
    /\ NotifyAsync({c \in (IF k = 0 THEN Connector ELSE {k}) : transactionID[c] = 0})

OnChangeConfiguration(value) == ChangeConfiguration(value) /\ UNCHANGED reportVars

\* Faulty variant: only the connector that is reserved now is reported.
OnReserveNowForgettingOld(r, k, tag, admits) ==
    /\ ReserveNow(r, k, tag, admits)
    /\ NotifyAsync({reservations'[r].connector} \cap Connector)
\* The connector of the replaced reservation, and the one reserved now.
OnReserveNow(r, k, tag, admits) ==
    /\ ReserveNow(r, k, tag, admits)
    /\ NotifyAsync({reservations[r].connector, reservations'[r].connector} \cap Connector)

OnCancelReservation(r) ==
    /\ CancelReservation(r)
    /\ NotifyAsync({reservations[r].connector} \cap Connector)

\* The goroutine of the task tells Preparing, or Finishing, first of all.
OnRemoteStartTransaction(tag, given) ==
    /\ RemoteStartAny(tag, given) \/ \E c \in Connector : RemoteStartOn(c, tag, given)
    /\ \E t \in Task : Started(t) /\ Notify({tasks'[t].connector}, t)

OnRemoteStopTransaction(tx) ==
    /\ RemoteStop(tx)
    /\ \E t \in Task : Started(t) /\ Notify({tasks'[t].connector}, t)

OnReset == Reset /\ NotifyAsync(Connector)

\* sendTriggeredStatuses: reads a status in a critical section and sends it.
Triggered(c) ==
    /\ UNCHANGED vars
    /\ NotifyAsync({c})

-----------------------------------------------------------------------------
(* The goroutines of transactions and the run loop.                         *)

BeginPrepared(t) == Sent(t) /\ Prepared(t) /\ UNCHANGED reportVars

BeginCalls(t) == (Authorized(t) \/ CentralSystemStarts(t)) /\ UNCHANGED reportVars

BeginConfirmed(t) == StartConfirmed(t) /\ Notify({tasks[t].connector}, t)

BeginAbandoned(t) == StartAbandoned(t) /\ Notify({tasks[t].connector}, t)

FinishConfirmed(t) == Sent(t) /\ StopConfirmed(t) /\ Notify({tasks[t].connector}, t)

FinishFailed(t) == Sent(t) /\ StopFailed(t) /\ UNCHANGED reportVars

\* A tick of the loop, which has sent what the one before left behind.
TickExpiry(swept) ==
    /\ Sent(Loop)
    /\ ExpireReservations(swept)
    /\ Notify({reservations[r].connector : r \in swept} \cap Connector, Loop)

-----------------------------------------------------------------------------
(* The notifications.                                                       *)

\* Faulty variant: a connector waits for its own announcement.
DueAfterItself(c, s) == s = Loop /\ announced < NumConnectors => c <= announced
\* sendInitialStatuses: the first statuses are told in the order of connectors.
Due(c, s) == s = Loop /\ announced < NumConnectors => c = announced + 1

\* notifyStatus: the central system is told.
Deliver(c, s) ==
    /\ notices[c][s] # None
    /\ Due(c, s)
    /\ announced' = IF s = Loop /\ announced < NumConnectors THEN announced + 1 ELSE announced
    /\ view' = [view EXCEPT ![c] = notices[c][s]]
    /\ notices' = [notices EXCEPT ![c][s] = None]
    /\ UNCHANGED <<vars, lost>>

\* There is no connection, or the call fails.  A run whose announcement fails
\* is over, which is left to RunSession.
Lose(c, s) ==
    /\ notices[c][s] # None
    /\ s = Loop => announced = NumConnectors
    /\ lost' = IF notices[c][s].status = status[c] THEN lost \cup {c} ELSE lost
    /\ notices' = [notices EXCEPT ![c][s] = None]
    /\ UNCHANGED <<vars, announced, view>>

Settle(c, s) == Deliver(c, s) \/ Lose(c, s)

-----------------------------------------------------------------------------
ReportRequest ==
    \/ \E k \in {0} \cup Connector, type \in Availability : OnChangeAvailability(k, type)
    \/ \E value \in BOOLEAN : OnChangeConfiguration(value)
    \/ \E r \in ReservationId, k \in 0 .. (NumConnectors + 1), tag \in IdTag, parent \in IdTag :
          OnReserveNow(r, k, tag, {tag, parent})
    \/ \E r \in ReservationId : OnCancelReservation(r)
    \/ \E tag \in IdTag, given \in ProfileChoice : OnRemoteStartTransaction(tag, given)
    \/ \E i \in 1 .. issued : OnRemoteStopTransaction(FirstTransaction + i - 1)
    \/ OnReset
    \/ \E c \in Connector : Triggered(c)

ReportTaskStep(t) ==
    \/ BeginPrepared(t) \/ BeginCalls(t) \/ BeginConfirmed(t) \/ BeginAbandoned(t)
    \/ FinishConfirmed(t) \/ FinishFailed(t)

TickExpiryOf(r) == \E swept \in SUBSET ReservationId : r \in swept /\ TickExpiry(swept)

ReportNext ==
    \/ ReportRequest
    \/ \E t \in Task : ReportTaskStep(t)
    \/ \E r \in ReservationId : TickExpiryOf(r)
    \/ \E r \in ReservationId : Lapse(r) /\ UNCHANGED reportVars
    \/ \E c \in Connector, s \in Sender : Settle(c, s)

\* As in Station, and every notification is sent or fails: a call ends with the
\* reply, an error or the timeout of the library.
ReportFairness ==
    /\ \A t \in Task : WF_allVars(ReportTaskStep(t))
    /\ \A r \in ReservationId : WF_allVars(TickExpiryOf(r))
    /\ \A c \in Connector, s \in Sender : WF_allVars(Settle(c, s))

ReportSpec == ReportInit /\ [][ReportNext]_allVars
FairReportSpec == ReportSpec /\ ReportFairness

-----------------------------------------------------------------------------
(* Properties.                                                              *)

\* No handler, goroutine or tick leaves a connector with a status that nobody
\* was told to tell: the latest notification, as long as it is under way, and
\* what the central system believes after it, is the present status.  Only a
\* failed notification, or an older one that overtakes, comes in between.
LatestTellsStatus ==
    \A c \in Connector :
        /\ \A s \in Sender : notices[c][s].latest => notices[c][s].status = status[c]
        /\ view[c].latest => view[c].status = status[c]

\* A status whose notification is under way is told, unless it changes again or a
\* notification of it fails: the replies a goroutine waits for, triggers, resets
\* and expiry do not starve it.
ChangedStatusIsTold ==
    \A c \in Connector, x \in Status :
        (status[c] = x /\ \E s \in Sender : notices[c][s].latest)
            ~> view[c].status = x \/ status[c] # x \/ c \in lost
=============================================================================
