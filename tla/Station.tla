------------------------------- MODULE Station -------------------------------
(***************************************************************************)
(* The connectors, reservations and remotely started transactions of the   *)
(* charge-point simulator (internal/ocppclient).                           *)
(*                                                                         *)
(* Requests of the central system are handled one after the other, each    *)
(* under the simulator's mutex, so a handler is one action.  An accepted   *)
(* RemoteStart or RemoteStop leaves a goroutine behind (beginRemote-       *)
(* Transaction, finishRemoteTransaction) that waits for replies of the     *)
(* central system between its critical sections: a task, whose critical    *)
(* sections and outstanding calls are actions of their own.  A request     *)
(* that is rejected without a change of state is a stuttering step.        *)
(*                                                                         *)
(* Abstracted: meters, the status notifications on the wire, the event     *)
(* stream, and the clock, of which only "the expiry of reservation r has   *)
(* passed" is kept (the field live).  "Faulted" is tested by OnReserveNow  *)
(* but no code assigns it, so it is no status here.                        *)
(*                                                                         *)
(* A definition marked "faulty variant" is no part of the specification:   *)
(* it is what the definition below it would be after a plausible slip, and *)
(* is there to see which property notices.                                 *)
(***************************************************************************)
EXTENDS ReservationBook, FiniteSets

CONSTANTS
    NumConnectors,    \* opts.Connectors
    IdTag,            \* the idTags and parent idTags in play
    NoTag,            \* the empty idTag of an idle connector
    ChargingProfile,  \* profiles a RemoteStart may carry, records with an id
    Task,             \* bound: goroutines in flight at a time
    FirstTransaction, \* the first transaction id the central system issues
    MaxTransactions   \* bound: transactions the central system starts

ASSUME NumConnectorsAssumption == NumConnectors \in Nat \ {0}
ASSUME NoTagAssumption == NoTag \notin IdTag
ASSUME ReservationIdAssumption == ReservationId \subseteq Nat
ASSUME TransactionsAssumption == FirstTransaction \in Nat /\ MaxTransactions \in Nat

VARIABLES
    availability,     \* connectorState.availability, per connector
    status,           \* connectorState.status
    transactionID,    \* connectorState.transactionID, 0 for none
    idTag,            \* connectorState.idTag
    reservations,     \* simulator.reservations
    chargingProfiles, \* simulator.chargingProfiles
    authorizeRemote,  \* configuration key AuthorizeRemoteTxRequests
    tasks,            \* goroutines of accepted remote starts and stops
    issued            \* transactions the central system has started

connectorVars == <<availability, status, transactionID, idTag>>
vars == <<connectorVars, reservations, chargingProfiles, authorizeRemote, tasks, issued>>

Connector == 1 .. NumConnectors
Availability == {"Operative", "Inoperative"}
Status == {"Available", "Preparing", "Charging", "Finishing", "Reserved", "Unavailable"}

\* admits holds the idTag and, when it is not empty, the parentIdTag.
Reservation == [connector : {0} \cup Connector, admits : SUBSET IdTag, live : BOOLEAN]
NoReservation == [connector |-> -1, admits |-> {}, live |-> FALSE]

\* A transaction id the central system hands out, in the order of issue.
TransactionId == FirstTransaction .. (FirstTransaction + MaxTransactions - 1)

\* The phases of a task before its outcome is known.
StartPhase == {"preparing", "authorizing", "starting", "started"}
TaskState == [pc : StartPhase \cup {"finishing"}, connector : Connector,
              reservationID : {0} \cup ReservationId, tx : {0} \cup TransactionId]
Idle == [pc |-> "idle"]

StoredProfile == [connector : {0} \cup Connector, profile : ChargingProfile]

TypeOK ==
    /\ availability \in [Connector -> Availability]
    /\ status \in [Connector -> Status]
    /\ transactionID \in [Connector -> {0} \cup TransactionId]
    /\ idTag \in [Connector -> IdTag \cup {NoTag}]
    /\ reservations \in [ReservationId -> Reservation \cup {NoReservation}]
    /\ chargingProfiles \subseteq StoredProfile
    /\ authorizeRemote \in BOOLEAN
    /\ tasks \in [Task -> TaskState \cup {Idle}]
    /\ issued \in 0 .. MaxTransactions

-----------------------------------------------------------------------------
(* The reservation book.                                                    *)

Held(r) == reservations[r] # NoReservation

\* Faulty variant: the book is not looked into.
IdleStatusIgnoringBook(c, book) ==
    IF availability[c] = "Inoperative" THEN "Unavailable" ELSE "Available"
\* idleStatusLocked
IdleStatus(c, book) ==
    IF availability[c] = "Inoperative" THEN "Unavailable"
    ELSE IF LiveAt(book, c) # {} THEN "Reserved" ELSE "Available"

\* status after the connectors in cs were refreshed against book
Refreshed(cs, book) ==
    [c \in Connector |-> IF c \in cs THEN IdleStatus(c, book) ELSE status[c]]

\* One call per connector, each with an iteration order of its own.
AccessMaps(book, tag) ==
    LET results == UNION {Access(book, c, tag) : c \in Connector}
    IN  {f \in [Connector -> results] : \A c \in Connector : f[c] \in Access(book, c, tag)}

-----------------------------------------------------------------------------
Init ==
    /\ availability = [c \in Connector |-> "Operative"]
    /\ status = [c \in Connector |-> "Available"]
    /\ transactionID = [c \in Connector |-> 0]
    /\ idTag = [c \in Connector |-> NoTag]
    /\ reservations = [r \in ReservationId |-> NoReservation]
    /\ chargingProfiles = {}
    /\ authorizeRemote = FALSE
    /\ tasks = [t \in Task |-> Idle]
    /\ issued = 0

Spawn(task) ==
    \E t \in Task : tasks[t] = Idle /\ tasks' = [tasks EXCEPT ![t] = task]

-----------------------------------------------------------------------------
(* Requests of the central system.                                          *)

\* Faulty variant: reservations outlive the connector's service.
ChangeAvailabilityKeepingBook(k, type) ==
    LET cs == IF k = 0 THEN Connector ELSE {k}
    IN  /\ availability' = [c \in Connector |-> IF c \in cs THEN type ELSE availability[c]]
        /\ UNCHANGED <<transactionID, idTag, reservations, chargingProfiles,
                       authorizeRemote, tasks, issued>>
        /\ status' = [c \in Connector |->
                         IF c \in cs /\ transactionID[c] = 0
                         THEN IdleStatus(c, reservations)' ELSE status[c]]
\* OnChangeAvailability; connector 0 stands for all of them.  A connector
\* with a transaction keeps its status, the change is scheduled.
ChangeAvailability(k, type) ==
    LET cs == IF k = 0 THEN Connector ELSE {k}
    IN  /\ availability' = [c \in Connector |-> IF c \in cs THEN type ELSE availability[c]]
        /\ reservations' = [r \in ReservationId |->
                               IF type = "Inoperative" /\ reservations[r].connector \in cs
                               THEN NoReservation ELSE reservations[r]]
        /\ status' = [c \in Connector |->
                         IF c \in cs /\ transactionID[c] = 0
                         THEN IdleStatus(c, reservations)' ELSE status[c]]
        /\ UNCHANGED <<transactionID, idTag, chargingProfiles, authorizeRemote, tasks, issued>>

\* OnChangeConfiguration, for the one key whose value steers this module.
ChangeConfiguration(value) ==
    /\ authorizeRemote' = value
    /\ UNCHANGED <<connectorVars, reservations, chargingProfiles, tasks, issued>>

\* Faulty variants: a Reserved connector is granted again, an unknown one too.
GrantsConnectorTrustingStatus(k, book, current) ==
    /\ k \in Connector
    /\ availability[k] = "Operative"
    /\ transactionID[k] = 0
    /\ current[k] \in {"Available", "Reserved"}
GrantsUnknownConnector(k, book, current) ==
    k \in Connector =>
        /\ availability[k] = "Operative"
        /\ transactionID[k] = 0
        /\ current[k] \in {"Available", "Reserved"}
        /\ \A r \in ReservationId : book[r].connector # k

\* OnReserveNow, whether a reservation is granted: on a connector, and for the
\* station as a whole, where the answers of reservationAccessLocked vary.
GrantsConnector(k, book, current) ==
    /\ k \in Connector
    /\ availability[k] = "Operative"
    /\ transactionID[k] = 0
    /\ current[k] \in {"Available", "Reserved"}
    /\ \A r \in ReservationId : book[r].connector # k

GrantsStation(book, tag) ==
    {\E c \in Connector :
        availability[c] = "Operative" /\ transactionID[c] = 0 /\ access[c].ok
     : access \in AccessMaps(book, tag)}

\* OnReserveNow with an expiry that lies ahead.  A reservation with the same id
\* is dropped first, and stays dropped when the request is then turned down.
ReserveNow(r, k, tag, admits) ==
    LET book == [reservations EXCEPT ![r] = NoReservation]
        current == Refreshed({reservations[r].connector}, book)
        grants == IF k = 0 THEN GrantsStation(book, tag)
                  ELSE {GrantsConnector(k, book, current)}
    IN  \E granted \in grants :
        /\ reservations' = IF granted
                           THEN [book EXCEPT ![r] = [connector |-> k, admits |-> admits, live |-> TRUE]]
                           ELSE book
        /\ status' = IF granted /\ k # 0
                     THEN [current EXCEPT ![k] = "Reserved"] ELSE current
        /\ UNCHANGED <<availability, transactionID, idTag, chargingProfiles,
                       authorizeRemote, tasks, issued>>

\* OnCancelReservation and expireReservations drop entries and refresh the
\* connectors they were for.
Drop(dropped) ==
    LET book == [r \in ReservationId |->
                    IF r \in dropped THEN NoReservation ELSE reservations[r]]
    IN  /\ reservations' = book
        /\ status' = Refreshed({reservations[r].connector : r \in dropped}, book)
        /\ UNCHANGED <<availability, transactionID, idTag, chargingProfiles,
                       authorizeRemote, tasks, issued>>

CancelReservation(r) == Held(r) /\ Drop({r})

\* OnRemoteStartTransaction once connector c and reservation r are selected;
\* given is the set of the profiles in the request, one at most.
BeginStart(c, tag, r, given) ==
    /\ status' = [status EXCEPT ![c] = "Preparing"]
    /\ idTag' = [idTag EXCEPT ![c] = tag]
    /\ chargingProfiles' =
          {s \in chargingProfiles : \A p \in given : s.profile.id # p.id}
          \cup {[connector |-> c, profile |-> p] : p \in given}
    /\ Spawn([pc |-> "preparing", connector |-> c, reservationID |-> r, tx |-> 0])
    /\ UNCHANGED <<availability, transactionID, reservations, authorizeRemote, issued>>

\* Faulty variant: the answer of reservationAccessLocked is ignored.
MayStartIgnoringReservations(c, access) ==
    /\ availability[c] = "Operative"
    /\ transactionID[c] = 0
    /\ status[c] \in {"Available", "Reserved"}
\* selectRemoteStartConnectorLocked: what is asked of a connector.
MayStart(c, access) ==
    /\ availability[c] = "Operative"
    /\ transactionID[c] = 0
    /\ access.ok
    /\ status[c] \in {"Available", "Reserved"}

RemoteStartOn(c, tag, given) ==
    \E access \in Access(reservations, c, tag) :
        MayStart(c, access) /\ BeginStart(c, tag, access.id, given)

\* The station picks the connector: the first the tag has a reservation for,
\* else the first that is free.  The two scans ask for access separately.
RemoteStartAny(tag, given) ==
    \E first, second \in AccessMaps(reservations, tag), c \in Connector :
        LET matched == {d \in Connector : MayStart(d, first[d]) /\ first[d].id > 0}
            free == {d \in Connector : MayStart(d, second[d]) /\ status[d] = "Available"}
            access == IF matched # {} THEN first[c] ELSE second[c]
            eligible == IF matched # {} THEN matched ELSE free
        IN  /\ c \in eligible
            /\ \A d \in eligible : c <= d
            /\ BeginStart(c, tag, access.id, given)

\* Faulty variant: the stop is left to the connector the loop saw last.
RemoteStopOnLast(tx) ==
    \E c \in Connector :
        /\ transactionID[c] = tx
        /\ status' = [status EXCEPT ![c] = "Finishing"]
        /\ Spawn([pc |-> "finishing", connector |-> NumConnectors, reservationID |-> 0, tx |-> tx])
        /\ UNCHANGED <<availability, transactionID, idTag, reservations,
                       chargingProfiles, authorizeRemote, issued>>
\* OnRemoteStopTransaction: some connector whose transaction has that id.
RemoteStop(tx) ==
    \E c \in Connector :
        /\ transactionID[c] = tx
        /\ status' = [status EXCEPT ![c] = "Finishing"]
        /\ Spawn([pc |-> "finishing", connector |-> c, reservationID |-> 0, tx |-> tx])
        /\ UNCHANGED <<availability, transactionID, idTag, reservations,
                       chargingProfiles, authorizeRemote, issued>>

\* OnReset
Reset ==
    /\ transactionID' = [c \in Connector |-> 0]
    /\ idTag' = [c \in Connector |-> NoTag]
    /\ status' = Refreshed(Connector, reservations)
    /\ UNCHANGED <<availability, reservations, chargingProfiles, authorizeRemote, tasks, issued>>

-----------------------------------------------------------------------------
(* The goroutines.                                                          *)

End(t) == tasks' = [tasks EXCEPT ![t] = Idle]

\* beginRemoteTransaction after its Preparing notification, whatever became of
\* it, reads the configuration.
Prepared(t) ==
    /\ tasks[t].pc = "preparing"
    /\ tasks' = [tasks EXCEPT ![t].pc = IF authorizeRemote THEN "authorizing" ELSE "starting"]
    /\ UNCHANGED <<connectorVars, reservations, chargingProfiles, authorizeRemote, issued>>

\* The central system accepts the idTag.
Authorized(t) ==
    /\ tasks[t].pc = "authorizing"
    /\ tasks' = [tasks EXCEPT ![t].pc = "starting"]
    /\ UNCHANGED <<connectorVars, reservations, chargingProfiles, authorizeRemote, issued>>

\* The central system handles StartTransaction under a fresh id.
CentralSystemStarts(t) ==
    /\ tasks[t].pc = "starting"
    /\ issued < MaxTransactions
    /\ issued' = issued + 1
    /\ tasks' = [tasks EXCEPT ![t].pc = "started", ![t].tx = FirstTransaction + issued]
    /\ UNCHANGED <<connectorVars, reservations, chargingProfiles, authorizeRemote>>

\* Faulty variant: the confirmation stays around and is handled again.
StartConfirmedAgain(t) ==
    LET c == tasks[t].connector
    IN  /\ tasks[t].pc = "started"
        /\ transactionID' = [transactionID EXCEPT ![c] = tasks[t].tx]
        /\ status' = [status EXCEPT ![c] = "Charging"]
        /\ UNCHANGED <<availability, idTag, reservations, chargingProfiles,
                       authorizeRemote, tasks, issued>>
\* Its acceptance reaches the station.
StartConfirmed(t) ==
    LET c == tasks[t].connector
        consumed == {tasks[t].reservationID} \ {0}
    IN  /\ tasks[t].pc = "started"
        /\ transactionID' = [transactionID EXCEPT ![c] = tasks[t].tx]
        /\ status' = [status EXCEPT ![c] = "Charging"]
        /\ reservations' = [r \in ReservationId |->
                               IF r \in consumed THEN NoReservation ELSE reservations[r]]
        /\ End(t)
        /\ UNCHANGED <<availability, idTag, chargingProfiles, authorizeRemote, issued>>

\* Faulty variants: the status is not restored, or the tag is not.
StartAbandonedKeepingStatus(t) ==
    /\ tasks[t].pc \in {"authorizing", "starting", "started"}
    /\ idTag' = [idTag EXCEPT ![tasks[t].connector] = NoTag]
    /\ End(t)
    /\ UNCHANGED <<availability, status, transactionID, reservations, chargingProfiles,
                   authorizeRemote, issued>>
StartAbandonedKeepingTag(t) ==
    /\ tasks[t].pc \in {"authorizing", "starting", "started"}
    /\ status' = Refreshed({tasks[t].connector}, reservations)
    /\ End(t)
    /\ UNCHANGED <<availability, transactionID, idTag, reservations, chargingProfiles,
                   authorizeRemote, issued>>
\* The tag or the transaction is refused, a call fails or times out (then the
\* central system may have started the transaction nevertheless), or the run
\* is over: restoreConnectorAfterFailedStart, or the same in place.
StartAbandoned(t) ==
    /\ tasks[t].pc \in {"authorizing", "starting", "started"}
    /\ status' = Refreshed({tasks[t].connector}, reservations)
    /\ idTag' = [idTag EXCEPT ![tasks[t].connector] = NoTag]
    /\ End(t)
    /\ UNCHANGED <<availability, transactionID, reservations, chargingProfiles,
                   authorizeRemote, issued>>

\* Faulty variant: the status is left as it is.
StopConfirmedKeepingStatus(t) ==
    LET c == tasks[t].connector
    IN  /\ tasks[t].pc = "finishing"
        /\ transactionID' = [transactionID EXCEPT ![c] = 0]
        /\ idTag' = [idTag EXCEPT ![c] = NoTag]
        /\ End(t)
        /\ UNCHANGED <<availability, status, reservations, chargingProfiles, authorizeRemote, issued>>
\* finishRemoteTransaction: StopTransaction is answered, whatever the answer.
StopConfirmed(t) ==
    LET c == tasks[t].connector
    IN  /\ tasks[t].pc = "finishing"
        /\ transactionID' = [transactionID EXCEPT ![c] = 0]
        /\ idTag' = [idTag EXCEPT ![c] = NoTag]
        /\ status' = Refreshed({c}, reservations)
        /\ End(t)
        /\ UNCHANGED <<availability, reservations, chargingProfiles, authorizeRemote, issued>>

\* Faulty variant: a stop that fails is rolled back.
StopFailedRollingBack(t) ==
    LET c == tasks[t].connector
    IN  /\ tasks[t].pc = "finishing"
        /\ transactionID' = [transactionID EXCEPT ![c] = tasks[t].tx]
        /\ status' = [status EXCEPT ![c] = "Charging"]
        /\ End(t)
        /\ UNCHANGED <<availability, idTag, reservations, chargingProfiles, authorizeRemote, issued>>
\* finishRemoteTransaction: StopTransaction fails or times out.
StopFailed(t) ==
    /\ tasks[t].pc = "finishing"
    /\ End(t)
    /\ UNCHANGED <<connectorVars, reservations, chargingProfiles, authorizeRemote, issued>>

-----------------------------------------------------------------------------
(* The clock and the run loop.                                              *)

\* The expiry of a reservation passes.
Lapse(r) ==
    /\ reservations[r].live
    /\ reservations' = [reservations EXCEPT ![r].live = FALSE]
    /\ UNCHANGED <<connectorVars, chargingProfiles, authorizeRemote, tasks, issued>>

\* Faulty variant: the loop passes over what has no connector to refresh.
ExpireConnectorReservations(swept) ==
    /\ swept # {}
    /\ \A r \in swept : reservations[r].connector > 0 /\ ~reservations[r].live
    /\ Drop(swept)
\* expireReservations, at a tick of the run loop.  It reads the clock before it
\* takes the lock, so it may miss what lapsed in between.
ExpireReservations(swept) ==
    /\ swept # {}
    /\ \A r \in swept : Held(r) /\ ~reservations[r].live
    /\ Drop(swept)

-----------------------------------------------------------------------------
NoProfile == {{}}
ProfileChoice == NoProfile \cup {{p} : p \in ChargingProfile}

Request ==
    \/ \E k \in {0} \cup Connector, type \in Availability : ChangeAvailability(k, type)
    \/ \E value \in BOOLEAN : ChangeConfiguration(value)
    \/ \E r \in ReservationId, k \in 0 .. (NumConnectors + 1), tag \in IdTag, parent \in IdTag :
          ReserveNow(r, k, tag, {tag, parent})
    \/ \E r \in ReservationId : CancelReservation(r)
    \/ \E c \in Connector, tag \in IdTag, given \in ProfileChoice : RemoteStartOn(c, tag, given)
    \/ \E tag \in IdTag, given \in ProfileChoice : RemoteStartAny(tag, given)
    \/ \E i \in 1 .. issued : RemoteStop(FirstTransaction + i - 1)
    \/ Reset

TaskStep(t) ==
    \/ Prepared(t) \/ Authorized(t) \/ CentralSystemStarts(t)
    \/ StartConfirmed(t) \/ StartAbandoned(t)
    \/ StopConfirmed(t) \/ StopFailed(t)

Sweep(r) == \E swept \in SUBSET ReservationId : r \in swept /\ ExpireReservations(swept)

Next ==
    \/ Request
    \/ \E t \in Task : TaskStep(t)
    \/ \E r \in ReservationId : Lapse(r) \/ Sweep(r)

Spec == Init /\ [][Next]_vars

\* Every call ends: await returns with the reply, the call's own error or the
\* end of the run, and the library gives a call 30 seconds.  The run loop ticks
\* twice a second and each tick reads the clock anew.
Fairness ==
    /\ \A t \in Task : WF_vars(TaskStep(t))
    /\ \A r \in ReservationId : WF_vars(Sweep(r))

FairSpec == Spec /\ Fairness

-----------------------------------------------------------------------------
(* Safety.                                                                  *)

StartingOn(c) == {t \in Task : tasks[t].pc \in StartPhase /\ tasks[t].connector = c}

\* No handler leaves two reservations for one connector in the book, though
\* one request may move, replace or give up another's reservation.
OneReservationPerConnector ==
    \A r, s \in ReservationId :
        r # s /\ Held(r) /\ reservations[r].connector = reservations[s].connector
            => reservations[r].connector = 0

\* Going inoperative empties the connector's book, and nobody refills it.
InoperativeHoldsNoReservation ==
    \A c \in Connector, r \in ReservationId :
        reservations[r].connector = c => availability[c] = "Operative"

\* A connector shown as Available is not promised to anyone: whoever refreshes a
\* status, a late answer to an abandoned start included, looks into the book.
AvailableIsUnpromised ==
    \A c \in Connector : status[c] = "Available" => LiveAt(reservations, c) = {}

\* A connector never stays in Preparing for a start that is over: some start
\* task still is to settle it.  It also has no transaction and is in service.
PreparingHasStarter ==
    \A c \in Connector : status[c] = "Preparing" =>
        /\ StartingOn(c) # {}
        /\ transactionID[c] = 0
        /\ availability[c] = "Operative"

\* Without a transaction a connector shows Unavailable exactly when it is out of
\* service, and never the statuses of a transaction; with one it may show
\* another status, when a reservation was dropped meanwhile.
IdleStatusIsHonest ==
    \A c \in Connector : transactionID[c] = 0 =>
        /\ status[c] = "Unavailable" <=> availability[c] = "Inoperative"
        /\ status[c] \notin {"Charging", "Finishing"}

\* The tag of a connector belongs to its transaction or to a start in flight; it
\* is never left behind by a start or a stop that is over.
TagIsInUse ==
    \A c \in Connector : idTag[c] # NoTag => transactionID[c] # 0 \/ StartingOn(c) # {}

\* No transaction of the central system is held by two connectors, and none is
\* held while its confirmation still is on the way to some task.
TransactionHeldOnce ==
    \A c \in Connector : transactionID[c] # 0 =>
        /\ \A d \in Connector : transactionID[d] = transactionID[c] => d = c
        /\ \A t \in Task : tasks[t].pc = "started" => tasks[t].tx # transactionID[c]

\* A stop is carried out on the connector that holds the transaction, if one
\* still does.
StopsAimAtHolder ==
    \A t \in Task, c \in Connector :
        /\ tasks[t].pc = "finishing"
        /\ transactionID[c] = tasks[t].tx
        => tasks[t].connector = c

\* The reservation book and the connectors agree.
BookInv == OneReservationPerConnector /\ InoperativeHoldsNoReservation /\ AvailableIsUnpromised

\* Ids are issued in order, no two confirmations carry the same one, and what is
\* being stopped was confirmed before.
IssuedInOrder ==
    /\ \A c \in Connector : transactionID[c] < FirstTransaction + issued
    /\ \A t \in Task : tasks[t].pc \in {"started", "finishing"} =>
          FirstTransaction <= tasks[t].tx /\ tasks[t].tx < FirstTransaction + issued
    /\ \A t, u \in Task :
          /\ tasks[t].pc = "started" /\ tasks[u].pc \in {"started", "finishing"}
          /\ tasks[t].tx = tasks[u].tx
          => t = u

\* The inductive invariant about transactions: what connectors, tags, tasks and
\* the ids the central system has issued have to do with each other.
TransactionInv ==
    /\ PreparingHasStarter /\ IdleStatusIsHonest /\ TagIsInUse
    /\ IssuedInOrder /\ TransactionHeldOnce /\ StopsAimAtHolder

\* The book with one more reservation, for the station: one may decide for the
\* connector, one for the station, and one may come in between.
ExtraId == CHOOSE r \in 1 .. (Cardinality(ReservationId) + 1) : r \notin ReservationId
Walks == INSTANCE ReservationWalk WITH ReservationId <- ReservationId \cup {ExtraId}
StationWide == {[connector |-> 0, admits |-> {tag}, live |-> TRUE] : tag \in IdTag}
BookWith(extra) ==
    [r \in ReservationId \cup {ExtraId} |-> IF r \in ReservationId THEN reservations[r] ELSE extra]

\* The closed form used here is exact, for every book that comes about and one
\* reservation more: the answers of reservationAccessLocked, over all orders in
\* which the map yields its entries and all early returns, are those of Access, no
\* more and no fewer.
AccessIsExact ==
    \A extra \in StationWide \cup {NoReservation}, c \in Connector, tag \in IdTag :
        Walks!Answers(BookWith(extra), c, tag) = Walks!Access(BookWith(extra), c, tag)

\* A start is let onto a connector only if the connector's live reservations
\* admit the tag, and, if it has none, every live reservation for the station.
StartHonoursReservations ==
    [][\A c \in Connector :
        StartingOn(c)' \ StartingOn(c) # {} =>
            LET own == LiveAt(reservations, c)
                promised == IF own # {} THEN own ELSE LiveAt(reservations, 0)
            IN  \A r \in promised : idTag'[c] \in reservations[r].admits]_vars

-----------------------------------------------------------------------------
(* The abstract specification it implements.                                *)

CarriedBy(x) == {t \in Task : tasks[t].pc = "started" /\ tasks[t].tx = x}
HeldBy(x) == {c \in Connector : transactionID[c] = x}

LedgerPhase ==
    [x \in TransactionId |->
        IF HeldBy(x) # {} THEN "held"
        ELSE IF CarriedBy(x) # {} THEN "issued"
        ELSE IF x < FirstTransaction + issued THEN "over" ELSE "unissued"]

AnyOf(cs) == IF cs = {} THEN 0 ELSE CHOOSE c \in cs : TRUE
LedgerHolder == [x \in TransactionId |-> AnyOf(HeldBy(x))]

Ledger == INSTANCE TransactionLedger WITH phase <- LedgerPhase, holder <- LedgerHolder

\* The transactions of the station behave as TransactionLedger says: late
\* confirmations, repeated stops, overwritten connectors and resets may lose a
\* transaction, but never revive or duplicate one.
ImplementsLedger == Ledger!Spec

-----------------------------------------------------------------------------
(* Liveness, under Fairness.                                                *)

\* Every start is settled: Preparing is left again, though the calls of the start
\* may fail and further starts, cancellations and resets interfere.
PreparingIsLeft ==
    \A c \in Connector : status[c] = "Preparing" ~> status[c] # "Preparing"

\* A reservation whose expiry has passed leaves the book, or is renewed.
LapsedIsSwept ==
    \A r \in ReservationId :
        Held(r) /\ ~reservations[r].live ~> ~Held(r) \/ reservations[r].live

=============================================================================
