----------------------------- MODULE StationProofs -----------------------------
(***************************************************************************)
(* Theorems about Station, for every number of connectors, every set of    *)
(* reservation ids, tags, profiles and tasks, and every bound on the       *)
(* transactions.                                                           *)
(***************************************************************************)
EXTENDS Station, SequencesExt, FiniteSetTheorems, WellFoundedInduction, TLAPS

\* What a walk over the book answers: the id of some reservation, or 0.
LEMMA AccessResult ==
    ASSUME NEW book, NEW c, NEW tag, NEW access \in Access(book, c, tag)
    PROVE  access.id \in {0} \cup ReservationId
<1>. DEFINE own == LiveAt(book, c)
            anywhere == LiveAt(book, 0)
            refusing == {r \in own \cup anywhere : tag \notin book[r].admits}
<1>1. own \subseteq ReservationId /\ anywhere \subseteq ReservationId
  BY DEF LiveAt
<1>2. \/ \E r \in own \cup anywhere : access = [id |-> r, ok |-> TRUE]
      \/ access = [id |-> 0, ok |-> FALSE]
      \/ access = [id |-> 0, ok |-> TRUE]
  <2>. HIDE DEF own, anywhere
  <2>. QED BY DEF Access, own, anywhere
<1>. QED BY <1>1, <1>2

\* Both ways to start a transaction remotely come down to BeginStart on a
\* connector that the walk over the book lets the tag onto.
LEMMA RemoteStartSelects ==
    ASSUME NEW tag \in IdTag, NEW given \in ProfileChoice,
           \/ \E c \in Connector : RemoteStartOn(c, tag, given)
           \/ RemoteStartAny(tag, given)
    PROVE  \E c \in Connector : \E access \in Access(reservations, c, tag) :
              MayStart(c, access) /\ BeginStart(c, tag, access.id, given)
<1>1. CASE \E c \in Connector : RemoteStartOn(c, tag, given)
  BY <1>1 DEF RemoteStartOn
<1>2. CASE RemoteStartAny(tag, given)
  <2>1. PICK first \in AccessMaps(reservations, tag), second \in AccessMaps(reservations, tag),
             c \in Connector :
          LET matched == {d \in Connector : MayStart(d, first[d]) /\ first[d].id > 0}
              free == {d \in Connector : MayStart(d, second[d]) /\ status[d] = "Available"}
              access == IF matched # {} THEN first[c] ELSE second[c]
              eligible == IF matched # {} THEN matched ELSE free
          IN  /\ c \in eligible
              /\ \A d \in eligible : c <= d
              /\ BeginStart(c, tag, access.id, given)
    BY <1>2 DEF RemoteStartAny
  <2>2. first[c] \in Access(reservations, c, tag) /\ second[c] \in Access(reservations, c, tag)
    BY DEF AccessMaps
  <2>. QED BY <2>1, <2>2
<1>. QED BY <1>1, <1>2

\* What Refreshed makes of a well-typed station.
LEMMA RefreshedType ==
    ASSUME TypeOK, NEW cs, NEW book
    PROVE  Refreshed(cs, book) \in [Connector -> Status]
  BY DEF Refreshed, IdleStatus, TypeOK, Status

\* A new task is well typed and the rest stay.
LEMMA SpawnType ==
    ASSUME TypeOK, NEW task \in TaskState, Spawn(task)
    PROVE  tasks' \in [Task -> TaskState \cup {Idle}]
  BY DEF Spawn, TypeOK

LEMMA BusyTask ==
    ASSUME TypeOK, NEW t \in Task, tasks[t].pc # "idle"
    PROVE  tasks[t] \in TaskState
  BY DEF TypeOK, Idle

LEMMA EndType ==
    ASSUME TypeOK, NEW t \in Task, End(t)
    PROVE  tasks' \in [Task -> TaskState \cup {Idle}]
  BY DEF TypeOK, End

-----------------------------------------------------------------------------
(* Type correctness, one step per action.                                   *)

LEMMA TypeOKInit == Init => TypeOK
<1>. SUFFICES ASSUME Init PROVE TypeOK
  OBVIOUS
<1>1. availability \in [Connector -> Availability] /\ status \in [Connector -> Status]
  BY DEF Init, Availability, Status
<1>2. transactionID \in [Connector -> {0} \cup TransactionId] /\ idTag \in [Connector -> IdTag \cup {NoTag}]
  BY DEF Init
<1>3. reservations \in [ReservationId -> Reservation \cup {NoReservation}]
  BY DEF Init
<1>4. tasks \in [Task -> TaskState \cup {Idle}]
  BY DEF Init
<1>5. issued \in 0 .. MaxTransactions
  BY TransactionsAssumption DEF Init
<1>6. authorizeRemote \in BOOLEAN /\ chargingProfiles \subseteq StoredProfile
  BY Zenon DEF Init
<1>. QED BY <1>1, <1>2, <1>3, <1>4, <1>5, <1>6 DEF TypeOK

LEMMA TypeOKRequest == TypeOK /\ Request => TypeOK'
<1>. SUFFICES ASSUME TypeOK, Request PROVE TypeOK'
  OBVIOUS
<1>. USE DEF TypeOK
<1>1. ASSUME NEW k \in {0} \cup Connector, NEW type \in Availability, ChangeAvailability(k, type)
      PROVE TypeOK'
  <2>1. availability' \in [Connector -> Availability]
    BY <1>1 DEF ChangeAvailability
  <2>2. status' \in [Connector -> Status]
    BY <1>1 DEF ChangeAvailability, IdleStatus, Status
  <2>3. reservations' \in [ReservationId -> Reservation \cup {NoReservation}]
    BY <1>1 DEF ChangeAvailability
  <2>. QED BY <1>1, <2>1, <2>2, <2>3 DEF ChangeAvailability
<1>2. ASSUME NEW value \in BOOLEAN, ChangeConfiguration(value) PROVE TypeOK'
  BY <1>2 DEF ChangeConfiguration, connectorVars
<1>3. ASSUME NEW r \in ReservationId, NEW k \in 0 .. (NumConnectors + 1), NEW tag \in IdTag,
             NEW parent \in IdTag, ReserveNow(r, k, tag, {tag, parent})
      PROVE TypeOK'
  <2>. DEFINE book == [reservations EXCEPT ![r] = NoReservation]
              current == Refreshed({reservations[r].connector}, book)
              grants == IF k = 0 THEN GrantsStation(book, tag)
                        ELSE {GrantsConnector(k, book, current)}
  <2>1. current \in [Connector -> Status]
    BY RefreshedType
  <2>2. book \in [ReservationId -> Reservation \cup {NoReservation}]
    OBVIOUS
  <2>3. PICK granted \in grants :
          /\ reservations' = IF granted
                             THEN [book EXCEPT ![r] = [connector |-> k, admits |-> {tag, parent}, live |-> TRUE]]
                             ELSE book
          /\ status' = IF granted /\ k # 0
                       THEN [current EXCEPT ![k] = "Reserved"] ELSE current
    BY <1>3 DEF ReserveNow
  <2>4. granted => k \in {0} \cup Connector
    BY <2>3 DEF GrantsConnector
  <2>5. granted => [connector |-> k, admits |-> {tag, parent}, live |-> TRUE] \in Reservation
    BY <2>4 DEF Reservation
  <2>6. reservations' \in [ReservationId -> Reservation \cup {NoReservation}]
    BY <2>2, <2>3, <2>5
  <2>7. status' \in [Connector -> Status]
    BY <2>1, <2>3 DEF Status
  <2>. QED BY <1>3, <2>6, <2>7 DEF ReserveNow
<1>4. ASSUME NEW r \in ReservationId, CancelReservation(r) PROVE TypeOK'
  BY <1>4, RefreshedType DEF CancelReservation, Drop
<1>5. ASSUME NEW tag \in IdTag, NEW given \in ProfileChoice, NEW c \in Connector,
             NEW access \in Access(reservations, c, tag), BeginStart(c, tag, access.id, given)
      PROVE TypeOK'
  <2>1. [pc |-> "preparing", connector |-> c, reservationID |-> access.id, tx |-> 0] \in TaskState
    BY AccessResult DEF TaskState, StartPhase
  <2>2. tasks' \in [Task -> TaskState \cup {Idle}]
    BY <1>5, <2>1, SpawnType DEF BeginStart
  <2>3. given \subseteq ChargingProfile
    BY DEF ProfileChoice, NoProfile
  <2>4. chargingProfiles' \subseteq StoredProfile
    BY <1>5, <2>3 DEF BeginStart, StoredProfile
  <2>5. status' \in [Connector -> Status] /\ idTag' \in [Connector -> IdTag \cup {NoTag}]
    BY <1>5 DEF BeginStart, Status
  <2>. QED BY <1>5, <2>2, <2>4, <2>5 DEF BeginStart
<1>6. ASSUME NEW i \in 1 .. issued, RemoteStop(FirstTransaction + i - 1) PROVE TypeOK'
  <2>. DEFINE tx == FirstTransaction + i - 1
  <2>1. tx \in TransactionId
    BY TransactionsAssumption DEF TransactionId
  <2>2. PICK c \in Connector :
          /\ status' = [status EXCEPT ![c] = "Finishing"]
          /\ Spawn([pc |-> "finishing", connector |-> c, reservationID |-> 0, tx |-> tx])
    BY <1>6 DEF RemoteStop
  <2>3. [pc |-> "finishing", connector |-> c, reservationID |-> 0, tx |-> tx] \in TaskState
    BY <2>1 DEF TaskState
  <2>4. tasks' \in [Task -> TaskState \cup {Idle}]
    BY <2>2, <2>3, SpawnType
  <2>5. status' \in [Connector -> Status]
    BY <2>2 DEF Status
  <2>. QED BY <1>6, <2>4, <2>5 DEF RemoteStop
<1>7. ASSUME Reset PROVE TypeOK'
  BY <1>7, RefreshedType DEF Reset
<1>. QED BY <1>1, <1>2, <1>3, <1>4, <1>5, <1>6, <1>7, RemoteStartSelects DEF Request

LEMMA TypeOKTaskStep == TypeOK /\ (\E t \in Task : TaskStep(t)) => TypeOK'
<1>. SUFFICES ASSUME TypeOK, NEW t \in Task, TaskStep(t) PROVE TypeOK'
  OBVIOUS
<1>. USE DEF TypeOK
<1>1. CASE Prepared(t)
  <2>1. tasks[t] \in TaskState
    BY <1>1, BusyTask DEF Prepared
  <2>2. [tasks[t] EXCEPT !.pc = IF authorizeRemote THEN "authorizing" ELSE "starting"] \in TaskState
    BY <2>1 DEF TaskState, StartPhase
  <2>. QED BY <1>1, <2>2 DEF Prepared, connectorVars
<1>2. CASE Authorized(t)
  <2>1. tasks[t] \in TaskState
    BY <1>2, BusyTask DEF Authorized
  <2>2. [tasks[t] EXCEPT !.pc = "starting"] \in TaskState
    BY <2>1 DEF TaskState, StartPhase
  <2>. QED BY <1>2, <2>2 DEF Authorized, connectorVars
<1>3. CASE CentralSystemStarts(t)
  <2>1. tasks[t] \in TaskState
    BY <1>3, BusyTask DEF CentralSystemStarts
  <2>2. FirstTransaction + issued \in TransactionId /\ issued + 1 \in 0 .. MaxTransactions
    BY <1>3, TransactionsAssumption DEF CentralSystemStarts, TransactionId
  <2>3. [tasks[t] EXCEPT !.pc = "started", !.tx = FirstTransaction + issued] \in TaskState
    BY <2>1, <2>2 DEF TaskState, StartPhase
  <2>. QED BY <1>3, <2>2, <2>3 DEF CentralSystemStarts, connectorVars
<1>4. CASE StartConfirmed(t)
  <2>1. tasks[t] \in TaskState
    BY <1>4, BusyTask DEF StartConfirmed
  <2>2. tasks[t].connector \in Connector /\ tasks[t].tx \in {0} \cup TransactionId
    BY <2>1 DEF TaskState
  <2>3. status' \in [Connector -> Status]
    BY <1>4, <2>2 DEF StartConfirmed, Status
  <2>. QED BY <1>4, <2>2, <2>3, EndType DEF StartConfirmed
<1>5. CASE StartAbandoned(t)
  BY <1>5, RefreshedType, EndType DEF StartAbandoned
<1>6. CASE StopConfirmed(t)
  BY <1>6, RefreshedType, EndType DEF StopConfirmed
<1>7. CASE StopFailed(t)
  BY <1>7, EndType DEF StopFailed, connectorVars
<1>. QED BY <1>1, <1>2, <1>3, <1>4, <1>5, <1>6, <1>7 DEF TaskStep

LEMMA TypeOKClock ==
    ASSUME TypeOK, NEW r \in ReservationId, Lapse(r) \/ Sweep(r)
    PROVE  TypeOK'
<1>. USE DEF TypeOK
<1>1. CASE Lapse(r)
  <2>1. reservations[r] \in Reservation
    BY <1>1 DEF Lapse, NoReservation
  <2>2. [reservations[r] EXCEPT !.live = FALSE] \in Reservation
    BY <2>1 DEF Reservation
  <2>. QED BY <1>1, <2>2 DEF Lapse, connectorVars
<1>2. CASE Sweep(r)
  BY <1>2, RefreshedType DEF Sweep, ExpireReservations, Drop
<1>. QED BY <1>1, <1>2

\* Every variable keeps its type, whatever requests, replies and failures
\* interleave.
THEOREM TypeCorrect == Spec => []TypeOK
<1>1. TypeOK /\ UNCHANGED vars => TypeOK'
  BY DEF TypeOK, vars, connectorVars
<1>2. TypeOK /\ Next => TypeOK'
  BY TypeOKRequest, TypeOKTaskStep, TypeOKClock DEF Next
<1>. QED BY <1>1, <1>2, TypeOKInit, PTL DEF Spec

-----------------------------------------------------------------------------
(* The reservation book.                                                    *)

\* Refreshing any connectors after entries were dropped leaves no connector
\* Available that the book promises to someone.
LEMMA RefreshedUnpromised ==
    ASSUME TypeOK, AvailableIsUnpromised, NEW cs, NEW book,
           \A r \in ReservationId : book[r] = reservations[r] \/ book[r] = NoReservation,
           NEW c \in Connector, Refreshed(cs, book)[c] = "Available"
    PROVE  LiveAt(book, c) = {}
<1>1. CASE c \in cs
  BY <1>1 DEF Refreshed, IdleStatus
<1>2. CASE c \notin cs
  <2>1. LiveAt(reservations, c) = {}
    BY <1>2 DEF Refreshed, AvailableIsUnpromised
  <2>. QED BY <2>1 DEF LiveAt, NoReservation
<1>. QED BY <1>1, <1>2

\* A held reservation is for the station or for a connector.
LEMMA HeldConnector ==
    ASSUME TypeOK, NEW r \in ReservationId, reservations[r] # NoReservation
    PROVE  reservations[r].connector # NoReservation.connector
  BY DEF TypeOK, Reservation, NoReservation, Connector

\* Dropping entries cannot make two reservations clash.
LEMMA DroppingKeepsOne ==
    ASSUME TypeOK, OneReservationPerConnector,
           \A r \in ReservationId : reservations'[r] = reservations[r] \/ reservations'[r] = NoReservation
    PROVE  OneReservationPerConnector'
<1>. SUFFICES ASSUME NEW r \in ReservationId, NEW s \in ReservationId, r # s,
                     reservations'[r] # NoReservation,
                     reservations'[r].connector = reservations'[s].connector
              PROVE  reservations'[r].connector = 0
  BY DEF OneReservationPerConnector, Held
<1>1. reservations'[r] = reservations[r] /\ Held(r)
  BY DEF Held
<1>2. reservations'[s] = reservations[s]
  BY <1>1, HeldConnector DEF Held
<1>. QED BY <1>1, <1>2 DEF OneReservationPerConnector

\* Cancelling and expiring.
LEMMA BookInvDrop ==
    ASSUME TypeOK, BookInv, NEW dropped, Drop(dropped)
    PROVE  BookInv'
<1>. DEFINE book == [r \in ReservationId |->
                        IF r \in dropped THEN NoReservation ELSE reservations[r]]
<1>1. /\ reservations' = book
      /\ status' = Refreshed({reservations[r].connector : r \in dropped}, book)
      /\ UNCHANGED availability
  BY DEF Drop
<1>2. \A r \in ReservationId : book[r] = reservations[r] \/ book[r] = NoReservation
  OBVIOUS
<1>3. OneReservationPerConnector'
  BY <1>1, <1>2, DroppingKeepsOne DEF BookInv
<1>4. InoperativeHoldsNoReservation'
  BY <1>1, <1>2 DEF BookInv, InoperativeHoldsNoReservation, NoReservation, Connector
<1>5. AvailableIsUnpromised'
  <2>. SUFFICES ASSUME NEW c \in Connector, status'[c] = "Available"
                PROVE  LiveAt(reservations', c) = {}
    BY DEF AvailableIsUnpromised, LiveAt
  <2>. HIDE DEF book
  <2>. QED BY <1>1, <1>2, RefreshedUnpromised DEF BookInv
<1>. QED BY <1>3, <1>4, <1>5 DEF BookInv

\* Where the book and the availabilities stay, only statuses matter.
LEMMA BookInvStatus ==
    ASSUME TypeOK, BookInv, UNCHANGED <<availability, reservations>>,
           \A c \in Connector : status'[c] = "Available" =>
              status[c] = "Available" \/ LiveAt(reservations, c) = {}
    PROVE  BookInv'
<1>1. OneReservationPerConnector'
  BY DEF BookInv, OneReservationPerConnector, Held
<1>2. InoperativeHoldsNoReservation'
  BY DEF BookInv, InoperativeHoldsNoReservation
<1>3. AvailableIsUnpromised'
  BY DEF BookInv, AvailableIsUnpromised, LiveAt
<1>. QED BY <1>1, <1>2, <1>3 DEF BookInv

\* A connector that is refreshed and comes out Available has no reservation.
LEMMA IdleAvailable ==
    ASSUME NEW cs, NEW c \in Connector, Refreshed(cs, reservations)[c] = "Available"
    PROVE  status[c] = "Available" \/ LiveAt(reservations, c) = {}
  BY DEF Refreshed, IdleStatus

LEMMA BookInvChangeAvailability ==
    ASSUME TypeOK, BookInv, NEW k \in {0} \cup Connector, NEW type \in Availability,
           ChangeAvailability(k, type)
    PROVE  BookInv'
<1>. DEFINE cs == IF k = 0 THEN Connector ELSE {k}
<1>1. /\ availability' = [c \in Connector |-> IF c \in cs THEN type ELSE availability[c]]
      /\ reservations' = [r \in ReservationId |->
                             IF type = "Inoperative" /\ reservations[r].connector \in cs
                             THEN NoReservation ELSE reservations[r]]
      /\ status' = [c \in Connector |->
                       IF c \in cs /\ transactionID[c] = 0
                       THEN IdleStatus(c, reservations)' ELSE status[c]]
  BY DEF ChangeAvailability
<1>. HIDE DEF cs
<1>2. \A r \in ReservationId : reservations'[r] = reservations[r] \/ reservations'[r] = NoReservation
  BY <1>1
<1>3. OneReservationPerConnector'
  BY <1>1, <1>2, DroppingKeepsOne DEF BookInv
<1>4. InoperativeHoldsNoReservation'
  <2>. SUFFICES ASSUME NEW c \in Connector, NEW r \in ReservationId,
                       reservations'[r].connector = c
                PROVE  availability'[c] = "Operative"
    BY DEF InoperativeHoldsNoReservation
  <2>1. reservations'[r] # NoReservation
    BY DEF NoReservation, Connector
  <2>2. reservations'[r] = reservations[r] /\ availability[c] = "Operative"
    BY <1>2, <2>1 DEF BookInv, InoperativeHoldsNoReservation
  <2>3. CASE c \in cs
    BY <1>1, <2>1, <2>2, <2>3 DEF Availability
  <2>4. CASE c \notin cs
    BY <1>1, <2>2, <2>4
  <2>. QED BY <2>3, <2>4
<1>5. AvailableIsUnpromised'
  <2>. SUFFICES ASSUME NEW c \in Connector, status'[c] = "Available"
                PROVE  LiveAt(reservations, c)' = {}
    BY DEF AvailableIsUnpromised
  <2>1. CASE c \in cs /\ transactionID[c] = 0
    BY <1>1, <2>1 DEF IdleStatus
  <2>2. CASE ~(c \in cs /\ transactionID[c] = 0)
    <3>1. LiveAt(reservations, c) = {}
      BY <1>1, <2>2 DEF BookInv, AvailableIsUnpromised
    <3>. QED BY <1>2, <3>1 DEF LiveAt, NoReservation
  <2>. QED BY <2>1, <2>2
<1>. QED BY <1>3, <1>4, <1>5 DEF BookInv

LEMMA BookInvReserveNow ==
    ASSUME TypeOK, BookInv, NEW r \in ReservationId, NEW k \in 0 .. (NumConnectors + 1),
           NEW tag, NEW admits, ReserveNow(r, k, tag, admits)
    PROVE  BookInv'
<1>. DEFINE book == [reservations EXCEPT ![r] = NoReservation]
            current == Refreshed({reservations[r].connector}, book)
            grants == IF k = 0 THEN GrantsStation(book, tag)
                      ELSE {GrantsConnector(k, book, current)}
            entry == [connector |-> k, admits |-> admits, live |-> TRUE]
<1>1. UNCHANGED availability
  BY DEF ReserveNow
<1>2. PICK granted \in grants :
        /\ reservations' = IF granted THEN [book EXCEPT ![r] = entry] ELSE book
        /\ status' = IF granted /\ k # 0
                     THEN [current EXCEPT ![k] = "Reserved"] ELSE current
  BY DEF ReserveNow
<1>3. /\ book \in [ReservationId -> Reservation \cup {NoReservation}]
      /\ \A s \in ReservationId : book[s] = reservations[s] \/ book[s] = NoReservation
      /\ book[r] = NoReservation
  BY DEF TypeOK
<1>4. current \in [Connector -> Status]
  BY RefreshedType
<1>5. granted /\ k # 0 => /\ k \in Connector
                          /\ availability[k] = "Operative"
                          /\ \A s \in ReservationId : book[s].connector # k
  BY <1>2 DEF GrantsConnector
<1>6. \A c \in Connector : current[c] = "Available" => LiveAt(book, c) = {}
  BY <1>3, RefreshedUnpromised DEF BookInv
<1>. HIDE DEF book, current, grants
<1>7. /\ \A s \in ReservationId : s # r => reservations'[s] = book[s]
      /\ reservations'[r] = IF granted THEN entry ELSE NoReservation
  BY <1>2, <1>3
<1>8. OneReservationPerConnector'
  <2>. SUFFICES ASSUME NEW s1 \in ReservationId, NEW s2 \in ReservationId, s1 # s2,
                       reservations'[s1] # NoReservation,
                       reservations'[s1].connector = reservations'[s2].connector
                PROVE  reservations'[s1].connector = 0
    BY DEF OneReservationPerConnector, Held
  <2>1. CASE s1 # r /\ s2 # r
    <3>1. reservations'[s1] = reservations[s1] /\ Held(s1)
      BY <1>3, <1>7, <2>1 DEF Held
    <3>2. reservations'[s2] = reservations[s2]
      BY <1>3, <1>7, <2>1, <3>1, HeldConnector DEF Held
    <3>. QED BY <3>1, <3>2 DEF BookInv, OneReservationPerConnector
  <2>2. CASE s1 = r
    <3>1. granted /\ reservations'[s1] = entry
      BY <1>7, <2>2
    <3>2. reservations'[s2] = book[s2]
      BY <1>7, <2>2
    <3>. QED BY <1>5, <3>1, <3>2
  <2>3. CASE s2 = r
    <3>1. reservations'[s1] = book[s1] /\ book[s1] # NoReservation
      BY <1>7, <2>3
    <3>2. book[s1].connector \in {0} \cup Connector
      BY <1>3, <3>1 DEF Reservation
    <3>3. CASE granted
      BY <1>5, <1>7, <2>3, <3>1, <3>3
    <3>4. CASE ~granted
      BY <1>7, <2>3, <3>1, <3>2, <3>4 DEF NoReservation, Connector
    <3>. QED BY <3>3, <3>4
  <2>. QED BY <2>1, <2>2, <2>3
<1>9. InoperativeHoldsNoReservation'
  <2>. SUFFICES ASSUME NEW c \in Connector, NEW s \in ReservationId,
                       reservations'[s].connector = c
                PROVE  availability[c] = "Operative"
    BY <1>1 DEF InoperativeHoldsNoReservation
  <2>1. c # 0 /\ NoReservation.connector # c
    BY DEF Connector, NoReservation
  <2>2. CASE s = r
    BY <1>5, <1>7, <2>1, <2>2
  <2>3. CASE s # r
    BY <1>3, <1>7, <2>1, <2>3 DEF BookInv, InoperativeHoldsNoReservation
  <2>. QED BY <2>2, <2>3
<1>10. AvailableIsUnpromised'
  <2>. SUFFICES ASSUME NEW c \in Connector, status'[c] = "Available"
                PROVE  LiveAt(reservations, c)' = {}
    BY DEF AvailableIsUnpromised
  <2>1. current[c] = "Available" /\ (granted => k # c)
    BY <1>2, <1>4 DEF Connector
  <2>2. LiveAt(book, c) = {}
    BY <1>6, <2>1
  <2>3. \A s \in ReservationId : ~(reservations'[s].connector = c /\ reservations'[s].live)
    BY <1>7, <2>1, <2>2 DEF LiveAt, NoReservation
  <2>. QED BY <2>3 DEF LiveAt
<1>. QED BY <1>8, <1>9, <1>10 DEF BookInv

LEMMA BookInvRequest == TypeOK /\ BookInv /\ Request => BookInv'
<1>. SUFFICES ASSUME TypeOK, BookInv, Request PROVE BookInv'
  OBVIOUS
<1>1. ASSUME NEW value \in BOOLEAN, ChangeConfiguration(value) PROVE BookInv'
  BY <1>1, BookInvStatus DEF ChangeConfiguration, connectorVars
<1>2. ASSUME NEW r \in ReservationId, CancelReservation(r) PROVE BookInv'
  BY <1>2, BookInvDrop DEF CancelReservation
<1>3. ASSUME NEW tag \in IdTag, NEW given \in ProfileChoice, NEW c \in Connector, NEW id,
             BeginStart(c, tag, id, given)
      PROVE BookInv'
  <2>1. \A d \in Connector : status'[d] = "Available" => status[d] = "Available"
    BY <1>3 DEF BeginStart, TypeOK
  <2>. QED BY <1>3, <2>1, BookInvStatus DEF BeginStart
<1>4. ASSUME NEW tx, RemoteStop(tx) PROVE BookInv'
  <2>1. \A d \in Connector : status'[d] = "Available" => status[d] = "Available"
    BY <1>4 DEF RemoteStop, TypeOK
  <2>. QED BY <1>4, <2>1, BookInvStatus DEF RemoteStop
<1>5. ASSUME Reset PROVE BookInv'
  BY <1>5, IdleAvailable, BookInvStatus DEF Reset
<1>6. ASSUME NEW tag \in IdTag, NEW given \in ProfileChoice,
             \/ \E c \in Connector : RemoteStartOn(c, tag, given)
             \/ RemoteStartAny(tag, given)
      PROVE BookInv'
  BY <1>3, <1>6, RemoteStartSelects
<1>. QED BY <1>1, <1>2, <1>4, <1>5, <1>6, BookInvChangeAvailability, BookInvReserveNow DEF Request

LEMMA BookInvTaskStep == TypeOK /\ BookInv /\ (\E t \in Task : TaskStep(t)) => BookInv'
<1>. SUFFICES ASSUME TypeOK, BookInv, NEW t \in Task, TaskStep(t) PROVE BookInv'
  OBVIOUS
<1>1. CASE Prepared(t) \/ Authorized(t) \/ CentralSystemStarts(t) \/ StopFailed(t)
  BY <1>1, BookInvStatus
  DEF Prepared, Authorized, CentralSystemStarts, StopFailed, connectorVars
<1>2. CASE StartConfirmed(t)
  <2>1. \A r \in ReservationId : reservations'[r] = reservations[r] \/ reservations'[r] = NoReservation
    BY <1>2 DEF StartConfirmed
  <2>2. OneReservationPerConnector'
    BY <2>1, DroppingKeepsOne DEF BookInv
  <2>3. InoperativeHoldsNoReservation'
    BY <1>2, <2>1
    DEF StartConfirmed, BookInv, InoperativeHoldsNoReservation, NoReservation, Connector
  <2>4. \A c \in Connector : status'[c] = "Available" => status[c] = "Available"
    BY <1>2 DEF StartConfirmed, TypeOK
  <2>5. AvailableIsUnpromised'
    BY <2>1, <2>4 DEF BookInv, AvailableIsUnpromised, LiveAt, NoReservation
  <2>. QED BY <2>2, <2>3, <2>5 DEF BookInv
<1>3. CASE StartAbandoned(t)
  BY <1>3, IdleAvailable, BookInvStatus DEF StartAbandoned
<1>4. CASE StopConfirmed(t)
  BY <1>4, IdleAvailable, BookInvStatus DEF StopConfirmed
<1>. QED BY <1>1, <1>2, <1>3, <1>4 DEF TaskStep

LEMMA BookInvLapse ==
    ASSUME TypeOK, BookInv, NEW r \in ReservationId, Lapse(r)
    PROVE  BookInv'
<1>1. \A s \in ReservationId : /\ reservations'[s].connector = reservations[s].connector
                               /\ reservations'[s].live => reservations[s].live
                               /\ Held(s)' => Held(s)
  <2>1. \A s \in ReservationId : s # r => reservations'[s] = reservations[s]
    BY DEF Lapse, TypeOK
  <2>2. reservations'[r] = [reservations[r] EXCEPT !.live = FALSE] /\ reservations[r] \in Reservation
    BY DEF Lapse, TypeOK, NoReservation
  <2>3. reservations[r] # NoReservation
    BY DEF Lapse, NoReservation
  <2>. QED BY <2>1, <2>2, <2>3 DEF Held, Reservation
<1>2. UNCHANGED <<availability, status>>
  BY DEF Lapse, connectorVars
<1>3. OneReservationPerConnector'
  BY <1>1 DEF BookInv, OneReservationPerConnector
<1>4. InoperativeHoldsNoReservation'
  BY <1>1, <1>2 DEF BookInv, InoperativeHoldsNoReservation
<1>5. AvailableIsUnpromised'
  BY <1>1, <1>2 DEF BookInv, AvailableIsUnpromised, LiveAt
<1>. QED BY <1>3, <1>4, <1>5 DEF BookInv

\* The reservation book agrees with the connectors at all times: one reservation
\* per connector, none on a connector out of service, and no connector shown as
\* Available that is promised to someone.
THEOREM BookAgrees ==
    Spec => [](OneReservationPerConnector /\ InoperativeHoldsNoReservation /\ AvailableIsUnpromised)
<1>. USE DEF BookInv
<1>1. Init => BookInv
  BY DEF Init, BookInv, OneReservationPerConnector, InoperativeHoldsNoReservation,
         AvailableIsUnpromised, Held, LiveAt, NoReservation, Connector
<1>2. TypeOK /\ BookInv /\ Next => BookInv'
  <2>. SUFFICES ASSUME TypeOK, BookInv, Next PROVE BookInv'
    OBVIOUS
  <2>1. ASSUME NEW r \in ReservationId, Sweep(r) PROVE BookInv'
    BY <2>1, BookInvDrop DEF Sweep, ExpireReservations
  <2>. QED BY <2>1, BookInvRequest, BookInvTaskStep, BookInvLapse DEF Next
<1>3. TypeOK /\ BookInv /\ UNCHANGED vars => BookInv'
  BY BookInvStatus DEF vars, connectorVars
<1>4. Spec => []BookInv
  BY <1>1, <1>2, <1>3, TypeCorrect, PTL DEF Spec
<1>. QED BY <1>4, PTL

\* However reservations are replaced, moved, used and refused, the book holds one
\* at most for each connector.
THEOREM OnePerConnector == Spec => []OneReservationPerConnector
BY BookAgrees, PTL

\* A connector out of service is promised to nobody.
THEOREM InoperativeIsFree == Spec => []InoperativeHoldsNoReservation
BY BookAgrees, PTL

-----------------------------------------------------------------------------
(* Transactions.  A central system that issues the id 0 is not covered.     *)

\* A connector whose status says no more than its availability and its book.
Settled(c) ==
    /\ status[c] \in {"Available", "Reserved", "Unavailable"}
    /\ status[c] = "Unavailable" <=> availability[c] = "Inoperative"

\* Refreshing settles a connector.
LEMMA RefreshedSettles ==
    ASSUME NEW cs, NEW book, NEW c \in Connector, c \in cs
    PROVE  /\ Refreshed(cs, book)[c] \in {"Available", "Reserved", "Unavailable"}
           /\ Refreshed(cs, book)[c] = "Unavailable" <=> availability[c] = "Inoperative"
  BY DEF Refreshed, IdleStatus

LEMMA RefreshedElsewhere ==
    ASSUME NEW cs, NEW book, NEW c \in Connector, c \notin cs
    PROVE  Refreshed(cs, book)[c] = status[c]
  BY DEF Refreshed

\* Requests that leave transactions and tasks alone settle connectors or leave
\* them as they are.
LEMMA TransactionInvQuiet ==
    ASSUME TransactionInv, UNCHANGED <<transactionID, idTag, tasks, issued>>,
           \A c \in Connector : \/ status'[c] = status[c] /\ availability'[c] = availability[c]
                                \/ status'[c] = status[c] /\ transactionID[c] # 0
                                \/ Settled(c)'
    PROVE  TransactionInv'
<1>. USE DEF TransactionInv
<1>1. \A c \in Connector : StartingOn(c)' = StartingOn(c)
  BY DEF StartingOn
<1>2. PreparingHasStarter'
  BY <1>1 DEF PreparingHasStarter, Settled
<1>3. IdleStatusIsHonest'
  BY DEF IdleStatusIsHonest, Settled
<1>4. TagIsInUse'
  BY <1>1 DEF TagIsInUse
<1>5. IssuedInOrder' /\ TransactionHeldOnce' /\ StopsAimAtHolder'
  BY DEF IssuedInOrder, TransactionHeldOnce, StopsAimAtHolder
<1>. QED BY <1>2, <1>3, <1>4, <1>5

LEMMA TransactionInvChangeAvailability ==
    ASSUME TypeOK, TransactionInv, NEW k \in {0} \cup Connector, NEW type \in Availability,
           ChangeAvailability(k, type)
    PROVE  TransactionInv'
<1>. DEFINE cs == IF k = 0 THEN Connector ELSE {k}
<1>1. /\ availability' = [c \in Connector |-> IF c \in cs THEN type ELSE availability[c]]
      /\ status' = [c \in Connector |->
                       IF c \in cs /\ transactionID[c] = 0
                       THEN IdleStatus(c, reservations)' ELSE status[c]]
      /\ UNCHANGED <<transactionID, idTag, tasks, issued>>
  BY DEF ChangeAvailability
<1>. HIDE DEF cs
<1>2. ASSUME NEW c \in Connector
      PROVE  \/ status'[c] = status[c] /\ availability'[c] = availability[c]
             \/ status'[c] = status[c] /\ transactionID[c] # 0
             \/ Settled(c)'
  <2>1. CASE c \notin cs
    BY <1>1, <2>1
  <2>2. CASE c \in cs /\ transactionID[c] # 0
    BY <1>1, <2>2
  <2>3. CASE c \in cs /\ transactionID[c] = 0
    BY <1>1, <2>3 DEF Settled, IdleStatus
  <2>. QED BY <2>1, <2>2, <2>3
<1>. QED BY <1>1, <1>2, TransactionInvQuiet

LEMMA TransactionInvDrop ==
    ASSUME TypeOK, TransactionInv, NEW dropped, Drop(dropped)
    PROVE  TransactionInv'
<1>. DEFINE book == [r \in ReservationId |->
                        IF r \in dropped THEN NoReservation ELSE reservations[r]]
            cs == {reservations[r].connector : r \in dropped}
<1>1. status' = Refreshed(cs, book) /\ UNCHANGED <<availability, transactionID, idTag, tasks, issued>>
  BY DEF Drop
<1>. HIDE DEF book, cs
<1>2. ASSUME NEW c \in Connector
      PROVE  \/ status'[c] = status[c] /\ availability'[c] = availability[c]
             \/ Settled(c)'
  BY <1>1, RefreshedSettles, RefreshedElsewhere DEF Settled
<1>. QED BY <1>1, <1>2, TransactionInvQuiet

LEMMA TransactionInvReserveNow ==
    ASSUME TypeOK, TransactionInv, NEW r \in ReservationId, NEW k \in 0 .. (NumConnectors + 1),
           NEW tag, NEW admits, ReserveNow(r, k, tag, admits)
    PROVE  TransactionInv'
<1>. DEFINE book == [reservations EXCEPT ![r] = NoReservation]
            current == Refreshed({reservations[r].connector}, book)
            grants == IF k = 0 THEN GrantsStation(book, tag)
                      ELSE {GrantsConnector(k, book, current)}
<1>1. PICK granted \in grants :
        status' = IF granted /\ k # 0 THEN [current EXCEPT ![k] = "Reserved"] ELSE current
  BY DEF ReserveNow
<1>2. granted /\ k # 0 => k \in Connector /\ availability[k] = "Operative"
  BY <1>1 DEF GrantsConnector
<1>3. UNCHANGED <<availability, transactionID, idTag, tasks, issued>>
  BY DEF ReserveNow
<1>4. current \in [Connector -> Status]
  BY RefreshedType
<1>5. \A c \in Connector : \/ current[c] = status[c]
                           \/ /\ current[c] \in {"Available", "Reserved", "Unavailable"}
                              /\ current[c] = "Unavailable" <=> availability[c] = "Inoperative"
  BY RefreshedSettles, RefreshedElsewhere
<1>. HIDE DEF current, grants
<1>6. ASSUME NEW c \in Connector
      PROVE  \/ status'[c] = status[c] /\ availability'[c] = availability[c]
             \/ Settled(c)'
  <2>1. CASE granted /\ k # 0 /\ c = k
    BY <1>1, <1>2, <1>3, <1>4, <2>1 DEF Settled
  <2>2. CASE ~(granted /\ k # 0 /\ c = k)
    <3>1. status'[c] = current[c]
      BY <1>1, <1>4, <2>2
    <3>. QED BY <1>3, <1>5, <3>1 DEF Settled
  <2>. QED BY <2>1, <2>2
<1>. QED BY <1>3, <1>6, TransactionInvQuiet

LEMMA TransactionInvBeginStart ==
    ASSUME TypeOK, TransactionInv, NEW c \in Connector, NEW tag, NEW id, NEW given,
           transactionID[c] = 0, availability[c] = "Operative", BeginStart(c, tag, id, given)
    PROVE  TransactionInv'
<1>. USE DEF TransactionInv
<1>. DEFINE task == [pc |-> "preparing", connector |-> c, reservationID |-> id, tx |-> 0]
<1>1. PICK t \in Task : tasks[t] = Idle /\ tasks' = [tasks EXCEPT ![t] = task]
  BY DEF BeginStart, Spawn
<1>2. /\ status' = [status EXCEPT ![c] = "Preparing"]
      /\ idTag' = [idTag EXCEPT ![c] = tag]
      /\ UNCHANGED <<availability, transactionID, issued>>
  BY DEF BeginStart
<1>3. /\ tasks'[t].pc = "preparing" /\ tasks'[t].connector = c
      /\ \A u \in Task : u # t => tasks'[u] = tasks[u]
  BY <1>1 DEF TypeOK
<1>4. t \in StartingOn(c)' /\ \A d \in Connector : StartingOn(d) \subseteq StartingOn(d)'
  BY <1>1, <1>3 DEF StartingOn, StartPhase, Idle
<1>5. PreparingHasStarter'
  BY <1>2, <1>4 DEF PreparingHasStarter, TypeOK
<1>6. IdleStatusIsHonest'
  BY <1>2 DEF IdleStatusIsHonest, TypeOK
<1>7. TagIsInUse'
  BY <1>2, <1>4 DEF TagIsInUse, TypeOK
<1>8. IssuedInOrder' /\ TransactionHeldOnce' /\ StopsAimAtHolder'
  BY <1>2, <1>3 DEF IssuedInOrder, TransactionHeldOnce, StopsAimAtHolder
<1>. QED BY <1>5, <1>6, <1>7, <1>8

LEMMA TransactionInvRemoteStop ==
    ASSUME TypeOK, TransactionInv, NEW tx \in Nat, 0 < tx, FirstTransaction <= tx, RemoteStop(tx)
    PROVE  TransactionInv'
<1>. USE DEF TransactionInv
<1>1. PICK c \in Connector :
        /\ transactionID[c] = tx
        /\ status' = [status EXCEPT ![c] = "Finishing"]
        /\ Spawn([pc |-> "finishing", connector |-> c, reservationID |-> 0, tx |-> tx])
        /\ UNCHANGED <<availability, transactionID, idTag, issued>>
  BY DEF RemoteStop
<1>2. PICK t \in Task : /\ tasks[t] = Idle
                        /\ tasks' = [tasks EXCEPT ![t] =
                              [pc |-> "finishing", connector |-> c, reservationID |-> 0, tx |-> tx]]
  BY <1>1 DEF Spawn
<1>3. /\ tasks'[t].pc = "finishing" /\ tasks'[t].connector = c /\ tasks'[t].tx = tx
      /\ \A u \in Task : u # t => tasks'[u] = tasks[u]
  BY <1>2 DEF TypeOK
<1>4. \A d \in Connector : StartingOn(d)' = StartingOn(d)
  BY <1>2, <1>3 DEF StartingOn, StartPhase, Idle
<1>5. PreparingHasStarter'
  BY <1>1, <1>4 DEF PreparingHasStarter, TypeOK
<1>6. IdleStatusIsHonest'
  BY <1>1 DEF IdleStatusIsHonest, TypeOK
<1>7. TagIsInUse'
  BY <1>1, <1>4 DEF TagIsInUse
<1>8. IssuedInOrder'
  BY <1>1, <1>3 DEF IssuedInOrder, TransactionHeldOnce
<1>9. TransactionHeldOnce' /\ StopsAimAtHolder'
  BY <1>1, <1>3 DEF TransactionHeldOnce, StopsAimAtHolder
<1>. QED BY <1>5, <1>6, <1>7, <1>8, <1>9

LEMMA TransactionInvReset ==
    ASSUME TypeOK, TransactionInv, 0 < FirstTransaction, Reset
    PROVE  TransactionInv'
<1>. USE DEF TransactionInv
<1>1. \A c \in Connector : transactionID'[c] = 0 /\ idTag'[c] = NoTag
  BY DEF Reset
<1>2. \A c \in Connector : Settled(c)'
  <2>1. status' = Refreshed(Connector, reservations) /\ UNCHANGED availability
    BY DEF Reset
  <2>. QED BY <2>1, RefreshedSettles DEF Settled
<1>3. UNCHANGED <<tasks, issued>>
  BY DEF Reset
<1>4. PreparingHasStarter' /\ IdleStatusIsHonest'
  BY <1>2 DEF PreparingHasStarter, IdleStatusIsHonest, Settled
<1>5. TagIsInUse'
  BY <1>1 DEF TagIsInUse
<1>6. IssuedInOrder'
  BY <1>1, <1>3, TransactionsAssumption DEF IssuedInOrder, TypeOK
<1>7. TransactionHeldOnce'
  BY <1>1 DEF TransactionHeldOnce
<1>8. StopsAimAtHolder'
  <2>1. \A t \in Task : tasks[t].pc = "finishing" => tasks[t] \in TaskState
    BY BusyTask
  <2>2. \A t \in Task : tasks[t].pc = "finishing" => tasks[t].tx \in Nat
    BY <2>1, TransactionsAssumption DEF TaskState, TransactionId
  <2>3. \A t \in Task : tasks[t].pc = "finishing" => tasks[t].tx # 0
    BY <2>2, TransactionsAssumption DEF IssuedInOrder
  <2>. QED BY <1>1, <1>3, <2>3 DEF StopsAimAtHolder
<1>. QED BY <1>4, <1>5, <1>6, <1>7, <1>8

\* A task that ends leaves the others alone and occupies no connector.
LEMMA EndedTask ==
    ASSUME TypeOK, NEW t \in Task, End(t)
    PROVE  /\ tasks'[t].pc = "idle"
           /\ \A u \in Task : u # t => tasks'[u] = tasks[u]
           /\ \A c \in Connector : StartingOn(c)' = StartingOn(c) \ {t}
<1>1. tasks'[t] = Idle /\ \A u \in Task : u # t => tasks'[u] = tasks[u]
  BY DEF End, TypeOK
<1>2. tasks'[t].pc = "idle"
  BY <1>1 DEF Idle
<1>3. ASSUME NEW c \in Connector PROVE StartingOn(c)' = StartingOn(c) \ {t}
  BY <1>1, <1>2 DEF StartingOn, StartPhase
<1>. QED BY <1>1, <1>2, <1>3

\* A start that goes on to its next call.
LEMMA TransactionInvProceed ==
    ASSUME TypeOK, TransactionInv, NEW t \in Task, Prepared(t) \/ Authorized(t)
    PROVE  TransactionInv'
<1>. USE DEF TransactionInv
<1>1. UNCHANGED <<connectorVars, issued>>
  BY DEF Prepared, Authorized
<1>2. /\ tasks[t].pc \in StartPhase
      /\ tasks'[t].pc \in {"authorizing", "starting"}
      /\ tasks'[t].connector = tasks[t].connector
      /\ \A u \in Task : u # t => tasks'[u] = tasks[u]
  <2>1. tasks[t] \in TaskState
    BY BusyTask DEF Prepared, Authorized
  <2>2. CASE Prepared(t)
    <3>1. PICK pc \in {"authorizing", "starting"} : tasks' = [tasks EXCEPT ![t].pc = pc]
      BY <2>2 DEF Prepared
    <3>. QED BY <2>1, <2>2, <3>1 DEF Prepared, StartPhase, TypeOK, TaskState
  <2>3. CASE Authorized(t)
    BY <2>1, <2>3 DEF Authorized, StartPhase, TypeOK, TaskState
  <2>. QED BY <2>2, <2>3
<1>3. \A c \in Connector : StartingOn(c)' = StartingOn(c)
  BY <1>2 DEF StartingOn, StartPhase
<1>4. PreparingHasStarter' /\ IdleStatusIsHonest' /\ TagIsInUse'
  BY <1>1, <1>3 DEF PreparingHasStarter, IdleStatusIsHonest, TagIsInUse, connectorVars
<1>5. IssuedInOrder' /\ TransactionHeldOnce' /\ StopsAimAtHolder'
  BY <1>1, <1>2 DEF IssuedInOrder, TransactionHeldOnce, StopsAimAtHolder, connectorVars
<1>. QED BY <1>4, <1>5

LEMMA TransactionInvCentralSystemStarts ==
    ASSUME TypeOK, TransactionInv, NEW t \in Task, CentralSystemStarts(t)
    PROVE  TransactionInv'
<1>. USE DEF TransactionInv
<1>. DEFINE tx == FirstTransaction + issued
<1>1. UNCHANGED connectorVars /\ issued' = issued + 1
  BY DEF CentralSystemStarts
<1>2. /\ tasks[t].pc = "starting"
      /\ tasks'[t].pc = "started" /\ tasks'[t].tx = tx
      /\ tasks'[t].connector = tasks[t].connector
      /\ \A u \in Task : u # t => tasks'[u] = tasks[u]
  <2>1. tasks[t] \in TaskState
    BY BusyTask DEF CentralSystemStarts
  <2>. QED BY <2>1 DEF CentralSystemStarts, TypeOK, TaskState
<1>3. \A c \in Connector : StartingOn(c)' = StartingOn(c)
  BY <1>2 DEF StartingOn, StartPhase
<1>4. PreparingHasStarter' /\ IdleStatusIsHonest' /\ TagIsInUse'
  BY <1>1, <1>3 DEF PreparingHasStarter, IdleStatusIsHonest, TagIsInUse, connectorVars
<1>5. issued \in Nat /\ tx \in Nat /\ FirstTransaction \in Nat
  BY TransactionsAssumption DEF TypeOK
<1>6. /\ \A c \in Connector : transactionID[c] \in Nat /\ transactionID[c] < tx
      /\ \A u \in Task : tasks[u].pc \in {"started", "finishing"} =>
            tasks[u].tx \in Nat /\ FirstTransaction <= tasks[u].tx /\ tasks[u].tx < tx
  <2>1. \A u \in Task : tasks[u].pc \in {"started", "finishing"} => tasks[u] \in TaskState
    BY BusyTask
  <2>. QED BY <2>1, TransactionsAssumption DEF IssuedInOrder, TypeOK, TaskState, TransactionId
<1>7. IssuedInOrder'
  <2>1. \A c \in Connector : transactionID'[c] < tx + 1
    BY <1>1, <1>5, <1>6 DEF connectorVars
  <2>2. \A u \in Task : tasks'[u].pc \in {"started", "finishing"} =>
           FirstTransaction <= tasks'[u].tx /\ tasks'[u].tx < tx + 1
    BY <1>2, <1>5, <1>6
  <2>3. \A u, v \in Task :
           /\ tasks'[u].pc = "started" /\ tasks'[v].pc \in {"started", "finishing"}
           /\ tasks'[u].tx = tasks'[v].tx
           => u = v
    BY <1>2, <1>5, <1>6 DEF IssuedInOrder
  <2>4. FirstTransaction + issued' = tx + 1
    BY <1>1, <1>5
  <2>. QED BY <2>1, <2>2, <2>3, <2>4 DEF IssuedInOrder
<1>8. TransactionHeldOnce'
  BY <1>1, <1>2, <1>5, <1>6 DEF TransactionHeldOnce, connectorVars
<1>9. StopsAimAtHolder'
  BY <1>1, <1>2 DEF StopsAimAtHolder, connectorVars
<1>. QED BY <1>4, <1>7, <1>8, <1>9

LEMMA TransactionInvStartConfirmed ==
    ASSUME TypeOK, TransactionInv, 0 < FirstTransaction, NEW t \in Task, StartConfirmed(t)
    PROVE  TransactionInv'
<1>. USE DEF TransactionInv
<1>. DEFINE c == tasks[t].connector
            tx == tasks[t].tx
<1>1. /\ tasks[t].pc = "started" /\ End(t)
      /\ transactionID' = [transactionID EXCEPT ![c] = tx]
      /\ status' = [status EXCEPT ![c] = "Charging"]
      /\ UNCHANGED <<availability, idTag, issued>>
  BY DEF StartConfirmed
<1>2. c \in Connector /\ tx \in Nat /\ tx # 0
  <2>1. tasks[t] \in TaskState
    BY <1>1, BusyTask
  <2>2. c \in Connector /\ tx \in Nat
    BY <2>1, TransactionsAssumption DEF TaskState, TransactionId
  <2>. QED BY <1>1, <2>2, TransactionsAssumption DEF IssuedInOrder
<1>3. /\ tasks'[t].pc = "idle"
      /\ \A u \in Task : u # t => tasks'[u] = tasks[u]
      /\ \A d \in Connector : StartingOn(d)' = StartingOn(d) \ {t}
  BY <1>1, EndedTask
<1>4. \A d \in Connector : d # c => t \notin StartingOn(d)
  BY DEF StartingOn
<1>. HIDE DEF c, tx
<1>5. /\ transactionID'[c] = tx /\ status'[c] = "Charging"
      /\ \A d \in Connector : d # c =>
            transactionID'[d] = transactionID[d] /\ status'[d] = status[d]
  BY <1>1, <1>2 DEF TypeOK
<1>6. PreparingHasStarter'
  BY <1>1, <1>3, <1>4, <1>5 DEF PreparingHasStarter
<1>7. IdleStatusIsHonest'
  BY <1>1, <1>2, <1>5 DEF IdleStatusIsHonest
<1>8. TagIsInUse'
  BY <1>1, <1>2, <1>3, <1>4, <1>5 DEF TagIsInUse
<1>9. IssuedInOrder'
  BY <1>1, <1>3, <1>5 DEF IssuedInOrder, tx
<1>10. TransactionHeldOnce'
  <2>1. \A d \in Connector : d # c => transactionID[d] # tx
    BY <1>1, <1>2 DEF TransactionHeldOnce, tx
  <2>2. \A u \in Task : u # t /\ tasks[u].pc = "started" => tasks[u].tx # tx
    BY <1>1 DEF IssuedInOrder, tx
  <2>. QED BY <1>3, <1>5, <2>1, <2>2 DEF TransactionHeldOnce
<1>11. StopsAimAtHolder'
  <2>1. \A u \in Task : u # t /\ tasks[u].pc = "finishing" => tasks[u].tx # tx
    BY <1>1 DEF IssuedInOrder, tx
  <2>. QED BY <1>3, <1>5, <2>1 DEF StopsAimAtHolder
<1>. QED BY <1>6, <1>7, <1>8, <1>9, <1>10, <1>11

\* A start or a stop that ends and leaves its connector refreshed and untagged.
LEMMA TransactionInvSettle ==
    ASSUME TypeOK, TransactionInv, 0 < FirstTransaction, NEW t \in Task, End(t),
           tasks[t].pc # "idle",
           status' = Refreshed({tasks[t].connector}, reservations),
           idTag' = [idTag EXCEPT ![tasks[t].connector] = NoTag],
           \/ UNCHANGED transactionID
           \/ transactionID' = [transactionID EXCEPT ![tasks[t].connector] = 0],
           UNCHANGED <<availability, issued>>
    PROVE  TransactionInv'
<1>. USE DEF TransactionInv
<1>. DEFINE c == tasks[t].connector
<1>1. c \in Connector
  BY BusyTask DEF TaskState
<1>2. /\ tasks'[t].pc = "idle"
      /\ \A u \in Task : u # t => tasks'[u] = tasks[u]
      /\ \A d \in Connector : StartingOn(d)' = StartingOn(d) \ {t}
  BY EndedTask
<1>3. \A d \in Connector : d # c => t \notin StartingOn(d)
  BY DEF StartingOn
<1>4. /\ \A d \in Connector : d # c => idTag'[d] = idTag[d] /\ transactionID'[d] = transactionID[d]
      /\ idTag'[c] = NoTag
      /\ transactionID'[c] \in {0, transactionID[c]}
  BY <1>1 DEF TypeOK
<1>5. /\ status'[c] \in {"Available", "Reserved", "Unavailable"}
      /\ status'[c] = "Unavailable" <=> availability'[c] = "Inoperative"
      /\ \A d \in Connector : d # c => status'[d] = status[d]
  <2>. DEFINE refreshed == Refreshed({c}, reservations)
  <2>1. status' = refreshed /\ availability' = availability
    OBVIOUS
  <2>2. /\ refreshed[c] \in {"Available", "Reserved", "Unavailable"}
        /\ refreshed[c] = "Unavailable" <=> availability[c] = "Inoperative"
    BY <1>1, RefreshedSettles
  <2>3. \A d \in Connector : d # c => refreshed[d] = status[d]
    BY RefreshedElsewhere
  <2>. HIDE DEF refreshed, c
  <2>. QED BY <2>1, <2>2, <2>3
<1>. HIDE DEF c
<1>6. PreparingHasStarter'
  <2>. SUFFICES ASSUME NEW d \in Connector, status'[d] = "Preparing"
                PROVE  StartingOn(d)' # {} /\ transactionID'[d] = 0 /\ availability'[d] = "Operative"
    BY DEF PreparingHasStarter
  <2>1. d # c
    BY <1>5
  <2>2. StartingOn(d) # {} /\ transactionID[d] = 0 /\ availability[d] = "Operative"
    BY <1>5, <2>1 DEF PreparingHasStarter
  <2>. QED BY <1>2, <1>3, <1>4, <2>1, <2>2
<1>7. IdleStatusIsHonest'
  BY <1>4, <1>5 DEF IdleStatusIsHonest
<1>8. TagIsInUse'
  BY <1>2, <1>3, <1>4 DEF TagIsInUse
<1>9. IssuedInOrder'
  <2>1. \A d \in Connector : transactionID'[d] < FirstTransaction + issued
    BY <1>4, TransactionsAssumption DEF IssuedInOrder, TypeOK
  <2>. QED BY <1>2, <2>1 DEF IssuedInOrder
<1>10. \A d \in Connector : transactionID'[d] # 0 => transactionID'[d] = transactionID[d]
  BY <1>4
<1>11. TransactionHeldOnce'
  BY <1>2, <1>10 DEF TransactionHeldOnce
<1>12. StopsAimAtHolder'
  <2>1. \A u \in Task : tasks[u].pc = "finishing" => tasks[u] \in TaskState
    BY BusyTask
  <2>2. \A u \in Task : tasks[u].pc = "finishing" => tasks[u].tx # 0
    BY <2>1, TransactionsAssumption DEF TaskState, TransactionId, IssuedInOrder
  <2>. QED BY <1>2, <1>10, <2>2 DEF StopsAimAtHolder
<1>. QED BY <1>6, <1>7, <1>8, <1>9, <1>11, <1>12

LEMMA TransactionInvStopFailed ==
    ASSUME TypeOK, TransactionInv, NEW t \in Task, StopFailed(t)
    PROVE  TransactionInv'
<1>. USE DEF TransactionInv
<1>1. tasks[t].pc = "finishing" /\ End(t) /\ UNCHANGED <<connectorVars, issued>>
  BY DEF StopFailed
<1>2. /\ tasks'[t].pc = "idle"
      /\ \A u \in Task : u # t => tasks'[u] = tasks[u]
      /\ \A c \in Connector : StartingOn(c)' = StartingOn(c)
  BY <1>1, EndedTask DEF StartingOn, StartPhase
<1>3. PreparingHasStarter' /\ IdleStatusIsHonest' /\ TagIsInUse'
  BY <1>1, <1>2 DEF PreparingHasStarter, IdleStatusIsHonest, TagIsInUse, connectorVars
<1>4. IssuedInOrder' /\ TransactionHeldOnce' /\ StopsAimAtHolder'
  BY <1>1, <1>2 DEF IssuedInOrder, TransactionHeldOnce, StopsAimAtHolder, connectorVars
<1>. QED BY <1>3, <1>4

LEMMA TransactionInvRequest ==
    ASSUME TypeOK, TransactionInv, 0 < FirstTransaction, Request
    PROVE  TransactionInv'
<1>1. ASSUME NEW value \in BOOLEAN, ChangeConfiguration(value) PROVE TransactionInv'
  BY <1>1, TransactionInvQuiet DEF ChangeConfiguration, connectorVars
<1>2. ASSUME NEW r \in ReservationId, CancelReservation(r) PROVE TransactionInv'
  BY <1>2, TransactionInvDrop DEF CancelReservation
<1>3. ASSUME NEW tag \in IdTag, NEW given \in ProfileChoice,
             \/ \E c \in Connector : RemoteStartOn(c, tag, given)
             \/ RemoteStartAny(tag, given)
      PROVE TransactionInv'
  BY <1>3, RemoteStartSelects, TransactionInvBeginStart DEF MayStart
<1>4. ASSUME NEW i \in 1 .. issued, RemoteStop(FirstTransaction + i - 1) PROVE TransactionInv'
  <2>1. /\ FirstTransaction + i - 1 \in Nat
        /\ 0 < FirstTransaction + i - 1
        /\ FirstTransaction <= FirstTransaction + i - 1
    BY TransactionsAssumption DEF TypeOK
  <2>. QED BY <1>4, <2>1, TransactionInvRemoteStop
<1>. QED BY <1>1, <1>2, <1>3, <1>4, TransactionInvChangeAvailability, TransactionInvReserveNow,
            TransactionInvReset DEF Request

LEMMA TransactionInvTaskStep ==
    ASSUME TypeOK, TransactionInv, 0 < FirstTransaction, NEW t \in Task, TaskStep(t)
    PROVE  TransactionInv'
<1>1. CASE StartAbandoned(t)
  BY <1>1, TransactionInvSettle DEF StartAbandoned
<1>2. CASE StopConfirmed(t)
  BY <1>2, TransactionInvSettle DEF StopConfirmed
<1>. QED BY <1>1, <1>2, TransactionInvProceed, TransactionInvCentralSystemStarts,
            TransactionInvStartConfirmed, TransactionInvStopFailed DEF TaskStep

LEMMA TransactionInvClock ==
    ASSUME TypeOK, TransactionInv, NEW r \in ReservationId, Lapse(r) \/ Sweep(r)
    PROVE  TransactionInv'
<1>1. CASE Lapse(r)
  BY <1>1, TransactionInvQuiet DEF Lapse, connectorVars
<1>2. CASE Sweep(r)
  BY <1>2, TransactionInvDrop DEF Sweep, ExpireReservations
<1>. QED BY <1>1, <1>2

LEMMA TransactionInvInit == 0 < FirstTransaction /\ Init => TransactionInv
<1>. SUFFICES ASSUME 0 < FirstTransaction, Init PROVE TransactionInv
  OBVIOUS
<1>1. \A t \in Task : tasks[t].pc = "idle"
  BY DEF Init, Idle
<1>2. /\ availability = [c \in Connector |-> "Operative"] /\ status = [c \in Connector |-> "Available"]
      /\ transactionID = [c \in Connector |-> 0] /\ idTag = [c \in Connector |-> NoTag]
      /\ issued = 0
  BY DEF Init
<1>3. PreparingHasStarter /\ IdleStatusIsHonest /\ TagIsInUse
  BY <1>2 DEF PreparingHasStarter, IdleStatusIsHonest, TagIsInUse
<1>4. IssuedInOrder
  BY <1>1, <1>2, TransactionsAssumption DEF IssuedInOrder
<1>5. TransactionHeldOnce /\ StopsAimAtHolder
  BY <1>1, <1>2 DEF TransactionHeldOnce, StopsAimAtHolder
<1>. QED BY <1>3, <1>4, <1>5 DEF TransactionInv

\* Whatever starts, stops, resets and failures interleave: Preparing has a start
\* behind it, an idle connector's status is honest, no tag is left behind, and no
\* transaction is on two connectors, if the central system issues no id 0.
THEOREM TransactionsAgree ==
    ASSUME 0 < FirstTransaction
    PROVE  Spec => []TransactionInv
<1>1. TypeOK /\ TransactionInv /\ Next => TransactionInv'
  BY TransactionInvRequest, TransactionInvTaskStep, TransactionInvClock DEF Next
<1>2. TypeOK /\ TransactionInv /\ UNCHANGED vars => TransactionInv'
  BY TransactionInvQuiet DEF vars, connectorVars
<1>. QED BY <1>1, <1>2, TransactionInvInit, TypeCorrect, PTL DEF Spec

-----------------------------------------------------------------------------
(* What the inductive invariant says of each part, by itself.               *)

\* A connector is in Preparing only while a start task still is to settle it,
\* whatever fails, overlaps or is reset in between.
THEOREM PreparingIsBacked ==
    ASSUME 0 < FirstTransaction
    PROVE  Spec => []PreparingHasStarter
<1>1. TransactionInv => PreparingHasStarter
  BY DEF TransactionInv
<1>. QED BY <1>1, TransactionsAgree, PTL

\* A connector without a transaction shows Unavailable exactly when it is out of
\* service, and no status of a transaction.
THEOREM IdleIsHonest ==
    ASSUME 0 < FirstTransaction
    PROVE  Spec => []IdleStatusIsHonest
<1>1. TransactionInv => IdleStatusIsHonest
  BY DEF TransactionInv
<1>. QED BY <1>1, TransactionsAgree, PTL

\* No start or stop that is over leaves its tag on a connector.
THEOREM TagsAreInUse ==
    ASSUME 0 < FirstTransaction
    PROVE  Spec => []TagIsInUse
<1>1. TransactionInv => TagIsInUse
  BY DEF TransactionInv
<1>. QED BY <1>1, TransactionsAgree, PTL

\* No transaction is held by two connectors, or held while its confirmation still
\* is on the way.
THEOREM HeldOnce ==
    ASSUME 0 < FirstTransaction
    PROVE  Spec => []TransactionHeldOnce
<1>1. TransactionInv => TransactionHeldOnce
  BY DEF TransactionInv
<1>. QED BY <1>1, TransactionsAgree, PTL

\* A stop is carried out on the connector that holds the transaction.
THEOREM StopsAim ==
    ASSUME 0 < FirstTransaction
    PROVE  Spec => []StopsAimAtHolder
<1>1. TransactionInv => StopsAimAtHolder
  BY DEF TransactionInv
<1>. QED BY <1>1, TransactionsAgree, PTL

-----------------------------------------------------------------------------
(* Reservations are honoured, from the agreement of the book.               *)

\* Only BeginStart puts a new start on a connector.
LEMMA OnlyBeginStartStarts ==
    ASSUME TypeOK, Next, NEW c \in Connector, NEW t \in Task,
           t \in StartingOn(c)', t \notin StartingOn(c)
    PROVE  \E tag \in IdTag, given \in ProfileChoice :
              \E access \in Access(reservations, c, tag) :
                 MayStart(c, access) /\ BeginStart(c, tag, access.id, given)
<1>1. tasks'[t].pc \in StartPhase /\ tasks'[t].connector = c
      /\ ~(tasks[t].pc \in StartPhase /\ tasks[t].connector = c)
  BY DEF StartingOn
<1>2. tasks' # tasks
  BY <1>1
<1>3. ASSUME NEW u \in Task, TaskStep(u) PROVE FALSE
  <2>1. ASSUME Prepared(u) \/ Authorized(u) \/ CentralSystemStarts(u) PROVE FALSE
    <3>1. tasks[u] \in TaskState /\ tasks[u].pc \in StartPhase
      BY <2>1, BusyTask DEF Prepared, Authorized, CentralSystemStarts, StartPhase
    <3>2. tasks'[u].connector = tasks[u].connector /\ \A v \in Task : v # u => tasks'[v] = tasks[v]
      <4>1. CASE Prepared(u)
        <5>1. PICK pc : tasks' = [tasks EXCEPT ![u].pc = pc]
          BY <4>1 DEF Prepared
        <5>. QED BY <3>1, <5>1 DEF TypeOK, TaskState
      <4>2. CASE Authorized(u) \/ CentralSystemStarts(u)
        BY <3>1, <4>2 DEF Authorized, CentralSystemStarts, TypeOK, TaskState
      <4>. QED BY <2>1, <4>1, <4>2
    <3>. QED BY <1>1, <3>1, <3>2
  <2>2. ASSUME End(u) PROVE FALSE
    BY <1>1, <2>2, EndedTask DEF StartPhase
  <2>. QED BY <1>3, <2>1, <2>2
       DEF TaskStep, StartConfirmed, StartAbandoned, StopConfirmed, StopFailed
<1>4. ASSUME NEW r \in ReservationId, Lapse(r) \/ Sweep(r) PROVE FALSE
  BY <1>2, <1>4 DEF Lapse, Sweep, ExpireReservations, Drop
<1>5. Request
  BY <1>3, <1>4 DEF Next
<1>6. ASSUME NEW tx, RemoteStop(tx) PROVE FALSE
  <2>1. PICK d \in Connector, u \in Task :
          tasks' = [tasks EXCEPT ![u] =
                       [pc |-> "finishing", connector |-> d, reservationID |-> 0, tx |-> tx]]
    BY <1>6 DEF RemoteStop, Spawn
  <2>. QED BY <1>1, <2>1 DEF StartPhase, TypeOK
<1>7. PICK tag \in IdTag, given \in ProfileChoice :
        \/ \E d \in Connector : RemoteStartOn(d, tag, given)
        \/ RemoteStartAny(tag, given)
  BY <1>2, <1>5, <1>6
  DEF Request, ChangeAvailability, ChangeConfiguration, ReserveNow, CancelReservation, Drop, Reset
<1>8. PICK d \in Connector : \E access \in Access(reservations, d, tag) :
        MayStart(d, access) /\ BeginStart(d, tag, access.id, given)
  BY <1>7, RemoteStartSelects
<1>9. PICK access \in Access(reservations, d, tag) :
        MayStart(d, access) /\ BeginStart(d, tag, access.id, given)
  BY <1>8
<1>10. d = c
  <2>1. PICK u \in Task :
          tasks' = [tasks EXCEPT ![u] =
                       [pc |-> "preparing", connector |-> d, reservationID |-> access.id, tx |-> 0]]
    BY <1>9 DEF BeginStart, Spawn
  <2>. QED BY <1>1, <2>1 DEF TypeOK
<1>. QED BY <1>9, <1>10

\* When the walk over the book lets a tag onto a connector, the reservation of
\* the connector admits it and, if there is none, those for the station all do.
LEMMA AccessHonours ==
    ASSUME TypeOK, OneReservationPerConnector, NEW c \in Connector, NEW tag,
           NEW access \in Access(reservations, c, tag), access.ok
    PROVE  LET own == LiveAt(reservations, c)
               promised == IF own # {} THEN own ELSE LiveAt(reservations, 0)
           IN  \A r \in promised : tag \in reservations[r].admits
<1>. DEFINE own == LiveAt(reservations, c)
            anywhere == LiveAt(reservations, 0)
            refusing == {r \in own \cup anywhere : tag \notin reservations[r].admits}
<1>1. \A r, s \in own : r = s
  BY DEF LiveAt, OneReservationPerConnector, Held, NoReservation, Connector
<1>2. \/ \E r \in own \ refusing : access = [id |-> r, ok |-> TRUE]
      \/ access = [id |-> 0, ok |-> FALSE]
      \/ own \cup refusing = {}
  <2>. HIDE DEF own, anywhere
  <2>. QED BY DEF Access, own, anywhere
<1>. HIDE DEF own, anywhere
<1>3. \/ \E r \in own : tag \in reservations[r].admits
      \/ own = {} /\ refusing = {}
  BY <1>2
<1>4. CASE \E r \in own : tag \in reservations[r].admits
  <2>1. own # {} /\ \A r \in own : tag \in reservations[r].admits
    BY <1>1, <1>4
  <2>. QED BY <2>1 DEF own
<1>5. CASE own = {} /\ refusing = {}
  <2>1. \A r \in anywhere : tag \in reservations[r].admits
    BY <1>5
  <2>. QED BY <1>5, <2>1 DEF own, anywhere
<1>. QED BY <1>3, <1>4, <1>5

\* No start is let onto a connector against its reservation, whatever order the
\* walk over the book takes.
THEOREM ReservationsHonoured == Spec => StartHonoursReservations
<1>. DEFINE honoured ==
        \A c \in Connector :
            StartingOn(c)' \ StartingOn(c) # {} =>
                LET own == LiveAt(reservations, c)
                    promised == IF own # {} THEN own ELSE LiveAt(reservations, 0)
                IN  \A r \in promised : idTag'[c] \in reservations[r].admits
<1>1. TypeOK /\ OneReservationPerConnector /\ [Next]_vars => [honoured]_vars
  <2>. SUFFICES ASSUME TypeOK, OneReservationPerConnector, Next,
                       NEW c \in Connector, StartingOn(c)' \ StartingOn(c) # {}
                PROVE  LET own == LiveAt(reservations, c)
                           promised == IF own # {} THEN own ELSE LiveAt(reservations, 0)
                       IN  \A r \in promised : idTag'[c] \in reservations[r].admits
    OBVIOUS
  <2>1. PICK t \in Task : t \in StartingOn(c)' /\ t \notin StartingOn(c)
    BY DEF StartingOn
  <2>2. PICK tag \in IdTag, given \in ProfileChoice :
          \E access \in Access(reservations, c, tag) :
             MayStart(c, access) /\ BeginStart(c, tag, access.id, given)
    BY <2>1, OnlyBeginStartStarts
  <2>3. PICK access \in Access(reservations, c, tag) :
          MayStart(c, access) /\ BeginStart(c, tag, access.id, given)
    BY <2>2
  <2>4. idTag'[c] = tag /\ access.ok
    BY <2>3 DEF BeginStart, MayStart, TypeOK
  <2>. QED BY <2>4, AccessHonours
<1>. QED BY <1>1, TypeCorrect, BookAgrees, PTL DEF Spec, StartHonoursReservations

-----------------------------------------------------------------------------
(* The station implements TransactionLedger: each of its steps is a step of  *)
(* the ledger, or none.                                                      *)

\* The ids in play are positive.
LEMMA PositiveIds ==
    ASSUME 0 < FirstTransaction
    PROVE  \A x \in TransactionId : x \in Nat /\ x # 0 /\ FirstTransaction <= x
  BY TransactionsAssumption DEF TransactionId

\* A transaction on a connector is held by that connector alone and carried by
\* no task, one that a task carries is held by none, and both were issued.
LEMMA HeldFacts ==
    ASSUME TypeOK, TransactionInv, 0 < FirstTransaction,
           NEW c \in Connector, transactionID[c] # 0
    PROVE  /\ transactionID[c] \in TransactionId
           /\ HeldBy(transactionID[c]) = {c} /\ CarriedBy(transactionID[c]) = {}
           /\ transactionID[c] < FirstTransaction + issued
           /\ LedgerPhase[transactionID[c]] = "held" /\ LedgerHolder[transactionID[c]] = c
<1>1. transactionID[c] \in TransactionId
  BY DEF TypeOK
<1>2. HeldBy(transactionID[c]) = {c} /\ CarriedBy(transactionID[c]) = {}
  BY DEF TransactionInv, TransactionHeldOnce, HeldBy, CarriedBy
<1>3. transactionID[c] < FirstTransaction + issued
  BY DEF TransactionInv, IssuedInOrder
<1>. QED BY <1>1, <1>2, <1>3 DEF LedgerPhase, LedgerHolder, AnyOf

LEMMA CarriedFacts ==
    ASSUME TypeOK, TransactionInv, 0 < FirstTransaction, NEW t \in Task, tasks[t].pc = "started"
    PROVE  /\ tasks[t].tx \in TransactionId
           /\ HeldBy(tasks[t].tx) = {} /\ CarriedBy(tasks[t].tx) = {t}
           /\ tasks[t].tx < FirstTransaction + issued
           /\ LedgerPhase[tasks[t].tx] = "issued"
<1>1. tasks[t].tx \in TransactionId /\ tasks[t].tx # 0
  <2>1. tasks[t] \in TaskState
    BY BusyTask
  <2>. QED BY <2>1, TransactionsAssumption DEF TaskState, TransactionId, TransactionInv, IssuedInOrder
<1>2. HeldBy(tasks[t].tx) = {}
  BY <1>1 DEF TransactionInv, TransactionHeldOnce, HeldBy
<1>3. CarriedBy(tasks[t].tx) = {t}
  BY DEF TransactionInv, IssuedInOrder, CarriedBy
<1>4. tasks[t].tx < FirstTransaction + issued
  BY DEF TransactionInv, IssuedInOrder
<1>. QED BY <1>1, <1>2, <1>3, <1>4 DEF LedgerPhase

\* A step that moves no transaction is a stutter of the ledger.
LEMMA LedgerStutter ==
    ASSUME \A x \in TransactionId : /\ HeldBy(x)' = HeldBy(x)
                                    /\ CarriedBy(x)' = {} <=> CarriedBy(x) = {},
           issued' = issued
    PROVE  UNCHANGED <<LedgerPhase, LedgerHolder>>
<1>1. ASSUME NEW x \in TransactionId PROVE LedgerPhase[x]' = LedgerPhase[x]
  BY DEF LedgerPhase
<1>2. ASSUME NEW x \in TransactionId PROVE LedgerHolder[x]' = LedgerHolder[x]
  BY DEF LedgerHolder
<1>3. LedgerPhase' = LedgerPhase
  BY <1>1 DEF LedgerPhase
<1>4. LedgerHolder' = LedgerHolder
  BY <1>2 DEF LedgerHolder
<1>. QED BY <1>3, <1>4

LEMMA CarriedElsewhere ==
    ASSUME TypeOK, NEW t \in Task, \A u \in Task : u # t => tasks'[u] = tasks[u],
           tasks[t].pc # "started", tasks'[t].pc # "started", NEW x
    PROVE  CarriedBy(x)' = CarriedBy(x)
  BY DEF CarriedBy

-----------------------------------------------------------------------------
(* The steps that the ledger sees.                                          *)

LEMMA LedgerIssue ==
    ASSUME TypeOK, TransactionInv, 0 < FirstTransaction, NEW t \in Task, CentralSystemStarts(t)
    PROVE  Ledger!Next
<1>0. PICK x : x = FirstTransaction + issued
  OBVIOUS
<1>1. x \in TransactionId /\ x \in Nat
  BY <1>0, TransactionsAssumption DEF CentralSystemStarts, TransactionId, TypeOK
<1>2. /\ tasks[t].pc = "starting" /\ tasks'[t].pc = "started" /\ tasks'[t].tx = x
      /\ \A u \in Task : u # t => tasks'[u] = tasks[u]
  <2>1. tasks[t] \in TaskState
    BY BusyTask DEF CentralSystemStarts
  <2>. QED BY <1>0, <2>1 DEF CentralSystemStarts, TypeOK, TaskState
<1>3. \A y \in TransactionId : HeldBy(y)' = HeldBy(y)
  BY DEF CentralSystemStarts, connectorVars, HeldBy
<1>4. \A y \in TransactionId : y # x => CarriedBy(y)' = CarriedBy(y)
  BY <1>2 DEF CarriedBy
<1>5. HeldBy(x) = {} /\ CarriedBy(x) = {} /\ CarriedBy(x)' # {}
  <2>1. HeldBy(x) = {}
    <3>1. \A c \in Connector : transactionID[c] \in Nat /\ transactionID[c] < x
      BY <1>0, TransactionsAssumption DEF TransactionInv, IssuedInOrder, TypeOK, TransactionId
    <3>. QED BY <1>1, <3>1 DEF HeldBy
  <2>2. CarriedBy(x) = {}
    <3>1. \A u \in Task : tasks[u].pc = "started" => tasks[u] \in TaskState
      BY BusyTask
    <3>2. \A u \in Task : tasks[u].pc = "started" => tasks[u].tx \in Nat /\ tasks[u].tx < x
      BY <1>0, <3>1, TransactionsAssumption DEF TransactionInv, IssuedInOrder, TaskState, TransactionId
    <3>. QED BY <1>1, <3>2 DEF CarriedBy
  <2>3. t \in CarriedBy(x)'
    BY <1>2 DEF CarriedBy
  <2>. QED BY <2>1, <2>2, <2>3
<1>6. issued' = issued + 1 /\ issued \in Nat
  BY DEF CentralSystemStarts, TypeOK
<1>7. LedgerPhase[x] = "unissued"
  <2>1. ~(x < FirstTransaction + issued)
    BY <1>0, <1>6, TransactionsAssumption
  <2>. QED BY <1>1, <1>5, <2>1 DEF LedgerPhase
<1>8. LedgerPhase' = [LedgerPhase EXCEPT ![x] = "issued"]
  <2>1. LedgerPhase'[x] = "issued"
    BY <1>1, <1>3, <1>5 DEF LedgerPhase
  <2>2. ASSUME NEW y \in TransactionId, y # x PROVE LedgerPhase'[y] = LedgerPhase[y]
    <3>1. y < FirstTransaction + issued' <=> y < FirstTransaction + issued
      BY <1>0, <1>6, <2>2, TransactionsAssumption DEF TransactionId
    <3>. QED BY <1>3, <1>4, <2>2, <3>1 DEF LedgerPhase
  <2>. QED BY <2>1, <2>2 DEF LedgerPhase
<1>9. LedgerHolder' = LedgerHolder
  BY <1>3 DEF LedgerHolder
<1>10. Ledger!Issue(x)
  BY <1>7, <1>8, <1>9 DEF Ledger!Issue
<1>. QED BY <1>1, <1>10 DEF Ledger!Next

LEMMA LedgerTake ==
    ASSUME TypeOK, TransactionInv, 0 < FirstTransaction, NEW t \in Task, StartConfirmed(t)
    PROVE  Ledger!Next
<1>0. PICK c, x : c = tasks[t].connector /\ x = tasks[t].tx
  OBVIOUS
<1>1. /\ tasks[t].pc = "started" /\ End(t)
      /\ transactionID' = [transactionID EXCEPT ![c] = x]
      /\ issued' = issued
  BY <1>0 DEF StartConfirmed
<1>2. /\ x \in TransactionId /\ HeldBy(x) = {} /\ CarriedBy(x) = {t}
      /\ LedgerPhase[x] = "issued"
  BY <1>0, <1>1, CarriedFacts
<1>3. c \in Connector /\ c # 0 /\ x # 0
  <2>1. c \in Connector
    BY <1>0, <1>1, BusyTask DEF TaskState
  <2>. QED BY <1>2, <2>1, PositiveIds DEF Connector
<1>4. tasks'[t].pc = "idle" /\ \A u \in Task : u # t => tasks'[u] = tasks[u]
  BY <1>1, EndedTask
<1>5. \A y \in TransactionId : y # x => CarriedBy(y)' = CarriedBy(y)
  BY <1>0, <1>4 DEF CarriedBy
<1>6. transactionID'[c] = x /\ \A d \in Connector : d # c => transactionID'[d] = transactionID[d]
  BY <1>1, <1>3 DEF TypeOK
<1>7. HeldBy(x)' = {c}
  <2>1. \A d \in Connector : transactionID'[d] = x <=> d = c
    BY <1>2, <1>6 DEF HeldBy
  <2>. QED BY <1>3, <2>1 DEF HeldBy
<1>8. ASSUME NEW y \in TransactionId, y # x
      PROVE  HeldBy(y)' = HeldBy(y) \ {c}
  BY <1>3, <1>6, <1>8 DEF HeldBy
<1>9. ASSUME NEW y \in TransactionId, y # x, LedgerHolder[y] = c
      PROVE  LedgerPhase'[y] = "over" /\ LedgerHolder'[y] = 0
  <2>1. c \in HeldBy(y)
    BY <1>3, <1>9 DEF LedgerHolder, AnyOf
  <2>2. transactionID[c] = y
    BY <2>1 DEF HeldBy
  <2>3. HeldBy(y) = {c} /\ CarriedBy(y) = {} /\ y < FirstTransaction + issued
    BY <1>3, <1>9, <2>2, HeldFacts, PositiveIds
  <2>4. HeldBy(y)' = {} /\ CarriedBy(y)' = {}
    BY <1>5, <1>8, <1>9, <2>3
  <2>. QED BY <1>1, <1>9, <2>3, <2>4 DEF LedgerPhase, LedgerHolder, AnyOf
<1>10. ASSUME NEW y \in TransactionId, y # x, LedgerHolder[y] # c
      PROVE  LedgerPhase'[y] = LedgerPhase[y] /\ LedgerHolder'[y] = LedgerHolder[y]
  <2>1. c \notin HeldBy(y)
    <3>1. ASSUME c \in HeldBy(y) PROVE FALSE
      <4>1. transactionID[c] = y
        BY <3>1 DEF HeldBy
      <4>. QED BY <1>3, <1>10, <4>1, HeldFacts, PositiveIds
    <3>. QED BY <3>1
  <2>2. HeldBy(y)' = HeldBy(y) /\ CarriedBy(y)' = CarriedBy(y)
    BY <1>5, <1>8, <1>10, <2>1
  <2>3. LedgerPhase'[y] = LedgerPhase[y]
    BY <1>1, <2>2 DEF LedgerPhase
  <2>4. LedgerHolder'[y] = LedgerHolder[y]
    BY <2>2 DEF LedgerHolder
  <2>. QED BY <2>3, <2>4
<1>11. LedgerPhase'[x] = "held" /\ LedgerHolder'[x] = c
  BY <1>2, <1>7 DEF LedgerPhase, LedgerHolder, AnyOf
<1>12. LedgerPhase' = [y \in TransactionId |->
                          IF y = x THEN "held" ELSE IF LedgerHolder[y] = c THEN "over" ELSE LedgerPhase[y]]
  BY <1>9, <1>10, <1>11 DEF LedgerPhase
<1>13. LedgerHolder' = [y \in TransactionId |->
                           IF y = x THEN c ELSE IF LedgerHolder[y] = c THEN 0 ELSE LedgerHolder[y]]
  BY <1>9, <1>10, <1>11 DEF LedgerHolder
<1>14. Ledger!Take(x, c)
  BY <1>2, <1>12, <1>13 DEF Ledger!Take
<1>. QED BY <1>2, <1>3, <1>14 DEF Ledger!Next

\* Steps after which some transactions, held or carried before, are neither.
LEMMA LedgerGiveUp ==
    ASSUME TypeOK, TransactionInv, 0 < FirstTransaction, NEW xs \in SUBSET TransactionId,
           \A x \in xs : LedgerPhase[x] \in {"issued", "held"} /\ x < FirstTransaction + issued,
           \A x \in xs : HeldBy(x)' = {} /\ CarriedBy(x)' = {},
           \A x \in TransactionId \ xs : HeldBy(x)' = HeldBy(x) /\ CarriedBy(x)' = CarriedBy(x),
           issued' = issued
    PROVE  [Ledger!Next]_(Ledger!ledger)
<1>1. CASE xs = {}
  <2>1. \A x \in TransactionId : HeldBy(x)' = HeldBy(x) /\ CarriedBy(x)' = CarriedBy(x)
    BY <1>1
  <2>2. UNCHANGED <<LedgerPhase, LedgerHolder>>
    BY <2>1, LedgerStutter
  <2>. QED BY <2>2 DEF Ledger!ledger
<1>2. CASE xs # {}
  <2>1. LedgerPhase' = [y \in TransactionId |-> IF y \in xs THEN "over" ELSE LedgerPhase[y]]
    BY DEF LedgerPhase
  <2>2. LedgerHolder' = [y \in TransactionId |-> IF y \in xs THEN 0 ELSE LedgerHolder[y]]
    <3>1. ASSUME NEW y \in xs PROVE LedgerHolder'[y] = 0
      BY DEF LedgerHolder, AnyOf
    <3>2. ASSUME NEW y \in TransactionId \ xs PROVE LedgerHolder'[y] = LedgerHolder[y]
      BY DEF LedgerHolder
    <3>. QED BY <3>1, <3>2 DEF LedgerHolder
  <2>3. Ledger!GiveUp(xs)
    BY <1>2, <2>1, <2>2 DEF Ledger!GiveUp
  <2>. QED BY <2>3 DEF Ledger!Next
<1>. QED BY <1>1, <1>2

LEMMA LedgerAbandoned ==
    ASSUME TypeOK, TransactionInv, 0 < FirstTransaction, NEW t \in Task, StartAbandoned(t)
    PROVE  [Ledger!Next]_(Ledger!ledger)
<1>1. End(t) /\ UNCHANGED <<transactionID, issued>> /\ tasks[t].pc \in {"authorizing", "starting", "started"}
  BY DEF StartAbandoned
<1>2. tasks'[t].pc = "idle" /\ \A u \in Task : u # t => tasks'[u] = tasks[u]
  BY <1>1, EndedTask
<1>3. \A x \in TransactionId : HeldBy(x)' = HeldBy(x)
  BY <1>1 DEF HeldBy
<1>4. CASE tasks[t].pc # "started"
  <2>1. \A x \in TransactionId : CarriedBy(x)' = CarriedBy(x)
    BY <1>2, <1>4 DEF CarriedBy
  <2>2. UNCHANGED <<LedgerPhase, LedgerHolder>>
    BY <1>1, <1>3, <2>1, LedgerStutter
  <2>. QED BY <2>2 DEF Ledger!ledger
<1>5. CASE tasks[t].pc = "started"
  <2>1. PICK x : x = tasks[t].tx
    OBVIOUS
  <2>2. /\ x \in TransactionId /\ HeldBy(x) = {} /\ CarriedBy(x) = {t}
        /\ LedgerPhase[x] = "issued" /\ x < FirstTransaction + issued
    BY <1>5, <2>1, CarriedFacts
  <2>3. CarriedBy(x)' = {}
    BY <1>2, <2>2 DEF CarriedBy
  <2>4. \A y \in TransactionId \ {x} : CarriedBy(y)' = CarriedBy(y)
    BY <1>2, <2>1 DEF CarriedBy
  <2>5. PICK xs \in SUBSET TransactionId : xs = {x}
    BY <2>2
  <2>6. /\ \A y \in xs : LedgerPhase[y] \in {"issued", "held"} /\ y < FirstTransaction + issued
        /\ \A y \in xs : HeldBy(y)' = {} /\ CarriedBy(y)' = {}
        /\ \A y \in TransactionId \ xs : HeldBy(y)' = HeldBy(y) /\ CarriedBy(y)' = CarriedBy(y)
    BY <1>3, <2>2, <2>3, <2>4, <2>5
  <2>. QED BY <1>1, <2>6, LedgerGiveUp
<1>. QED BY <1>4, <1>5

LEMMA LedgerStopped ==
    ASSUME TypeOK, TransactionInv, 0 < FirstTransaction, NEW t \in Task, StopConfirmed(t)
    PROVE  [Ledger!Next]_(Ledger!ledger)
<1>1. PICK c : c = tasks[t].connector
  OBVIOUS
<1>2. /\ tasks[t].pc = "finishing" /\ End(t) /\ issued' = issued
      /\ transactionID' = [transactionID EXCEPT ![c] = 0]
  BY <1>1 DEF StopConfirmed
<1>3. c \in Connector
  BY <1>1, <1>2, BusyTask DEF TaskState
<1>4. transactionID'[c] = 0 /\ \A d \in Connector : d # c => transactionID'[d] = transactionID[d]
  BY <1>2, <1>3 DEF TypeOK
<1>5. \A x \in TransactionId : CarriedBy(x)' = CarriedBy(x)
  <2>1. tasks'[t].pc = "idle" /\ \A u \in Task : u # t => tasks'[u] = tasks[u]
    BY <1>2, EndedTask
  <2>. QED BY <1>2, <2>1 DEF CarriedBy
<1>6. \A x \in TransactionId : HeldBy(x)' = HeldBy(x) \ {c}
  BY <1>3, <1>4, PositiveIds DEF HeldBy
<1>7. CASE transactionID[c] = 0
  <2>1. \A x \in TransactionId : HeldBy(x)' = HeldBy(x)
    BY <1>6, <1>7, PositiveIds DEF HeldBy
  <2>2. UNCHANGED <<LedgerPhase, LedgerHolder>>
    BY <1>2, <1>5, <2>1, LedgerStutter
  <2>. QED BY <2>2 DEF Ledger!ledger
<1>8. CASE transactionID[c] # 0
  <2>1. PICK x : x = transactionID[c]
    OBVIOUS
  <2>2. /\ x \in TransactionId /\ HeldBy(x) = {c} /\ CarriedBy(x) = {}
        /\ LedgerPhase[x] = "held" /\ x < FirstTransaction + issued
    BY <1>3, <1>8, <2>1, HeldFacts
  <2>3. HeldBy(x)' = {} /\ CarriedBy(x)' = {}
    BY <1>5, <1>6, <2>2
  <2>4. \A y \in TransactionId \ {x} : c \notin HeldBy(y)
    BY <2>1 DEF HeldBy
  <2>5. \A y \in TransactionId \ {x} : HeldBy(y)' = HeldBy(y)
    BY <1>6, <2>4
  <2>6. PICK xs \in SUBSET TransactionId : xs = {x}
    BY <2>2
  <2>7. /\ \A y \in xs : LedgerPhase[y] \in {"issued", "held"} /\ y < FirstTransaction + issued
        /\ \A y \in xs : HeldBy(y)' = {} /\ CarriedBy(y)' = {}
        /\ \A y \in TransactionId \ xs : HeldBy(y)' = HeldBy(y) /\ CarriedBy(y)' = CarriedBy(y)
    BY <1>5, <2>2, <2>3, <2>5, <2>6
  <2>. QED BY <1>2, <2>7, LedgerGiveUp
<1>. QED BY <1>7, <1>8

LEMMA LedgerReset ==
    ASSUME TypeOK, TransactionInv, 0 < FirstTransaction, Reset
    PROVE  [Ledger!Next]_(Ledger!ledger)
<1>1. PICK xs : xs = {x \in TransactionId : HeldBy(x) # {}}
  OBVIOUS
<1>2. \A c \in Connector : transactionID'[c] = 0
  BY DEF Reset
<1>3. UNCHANGED <<tasks, issued>>
  BY DEF Reset
<1>4. \A x \in TransactionId : HeldBy(x)' = {} /\ CarriedBy(x)' = CarriedBy(x)
  BY <1>2, <1>3, PositiveIds DEF HeldBy, CarriedBy
<1>5. ASSUME NEW x \in xs
      PROVE  LedgerPhase[x] = "held" /\ x < FirstTransaction + issued /\ CarriedBy(x) = {}
  <2>1. PICK c \in Connector : transactionID[c] = x
    BY <1>1 DEF HeldBy
  <2>. QED BY <1>1, <2>1, HeldFacts, PositiveIds
<1>6. xs \in SUBSET TransactionId
  BY <1>1
<1>7. \A x \in xs : HeldBy(x)' = {} /\ CarriedBy(x)' = {}
  BY <1>4, <1>5, <1>6
<1>8. \A x \in TransactionId \ xs : HeldBy(x)' = HeldBy(x) /\ CarriedBy(x)' = CarriedBy(x)
  BY <1>1, <1>4
<1>. QED BY <1>3, <1>5, <1>6, <1>7, <1>8, LedgerGiveUp

-----------------------------------------------------------------------------
(* The steps it does not see.                                               *)

\* Steps that change neither the transactions on connectors nor a "started" task.
LEMMA LedgerQuiet ==
    ASSUME TypeOK, UNCHANGED <<transactionID, issued>>,
           \A t \in Task : \/ tasks'[t] = tasks[t]
                           \/ tasks[t].pc # "started" /\ tasks'[t].pc # "started"
    PROVE  UNCHANGED Ledger!ledger
<1>1. \A x \in TransactionId : HeldBy(x)' = HeldBy(x) /\ CarriedBy(x)' = CarriedBy(x)
  BY DEF HeldBy, CarriedBy
<1>2. UNCHANGED <<LedgerPhase, LedgerHolder>>
  BY <1>1, LedgerStutter
<1>. QED BY <1>2 DEF Ledger!ledger

LEMMA LedgerSpawn ==
    ASSUME TypeOK, UNCHANGED <<transactionID, issued>>, NEW task, task.pc # "started", Spawn(task)
    PROVE  UNCHANGED Ledger!ledger
<1>1. PICK t \in Task : tasks[t] = Idle /\ tasks' = [tasks EXCEPT ![t] = task]
  BY DEF Spawn
<1>2. tasks[t].pc # "started" /\ tasks'[t].pc # "started" /\ \A u \in Task : u # t => tasks'[u] = tasks[u]
  BY <1>1 DEF Idle, TypeOK
<1>. QED BY <1>2, LedgerQuiet

LEMMA LedgerRequest ==
    ASSUME TypeOK, TransactionInv, 0 < FirstTransaction, Request
    PROVE  [Ledger!Next]_(Ledger!ledger)
<1>1. ASSUME NEW c \in Connector, NEW tag, NEW id, NEW given, BeginStart(c, tag, id, given)
      PROVE  UNCHANGED Ledger!ledger
  BY <1>1, LedgerSpawn DEF BeginStart
<1>2. ASSUME NEW tag \in IdTag, NEW given \in ProfileChoice,
             \/ \E c \in Connector : RemoteStartOn(c, tag, given)
             \/ RemoteStartAny(tag, given)
      PROVE UNCHANGED Ledger!ledger
  BY <1>1, <1>2, RemoteStartSelects
<1>3. ASSUME NEW tx, RemoteStop(tx) PROVE UNCHANGED Ledger!ledger
  BY <1>3, LedgerSpawn DEF RemoteStop
<1>4. ASSUME UNCHANGED <<transactionID, tasks, issued>> PROVE UNCHANGED Ledger!ledger
  BY <1>4, LedgerQuiet
<1>. QED BY <1>2, <1>3, <1>4, LedgerReset
     DEF Request, ChangeAvailability, ChangeConfiguration, connectorVars, ReserveNow,
         CancelReservation, Drop

LEMMA LedgerTaskStep ==
    ASSUME TypeOK, TransactionInv, 0 < FirstTransaction, NEW t \in Task, TaskStep(t)
    PROVE  [Ledger!Next]_(Ledger!ledger)
<1>1. CASE Prepared(t) \/ Authorized(t)
  <2>1. UNCHANGED <<transactionID, issued>> /\ tasks[t].pc # "started"
    BY <1>1 DEF Prepared, Authorized, connectorVars
  <2>2. tasks[t] \in TaskState
    BY <1>1, BusyTask DEF Prepared, Authorized
  <2>3. PICK pc \in {"authorizing", "starting"} : tasks' = [tasks EXCEPT ![t].pc = pc]
    BY <1>1 DEF Prepared, Authorized
  <2>4. tasks'[t].pc # "started" /\ \A u \in Task : u # t => tasks'[u] = tasks[u]
    BY <2>2, <2>3 DEF TypeOK, TaskState
  <2>. QED BY <2>1, <2>4, LedgerQuiet
<1>2. CASE StopFailed(t)
  <2>1. UNCHANGED <<transactionID, issued>> /\ tasks[t].pc # "started" /\ End(t)
    BY <1>2 DEF StopFailed, connectorVars
  <2>. QED BY <2>1, EndedTask, LedgerQuiet
<1>. QED BY <1>1, <1>2, LedgerIssue, LedgerTake, LedgerAbandoned, LedgerStopped DEF TaskStep

LEMMA LedgerInit == Init /\ 0 < FirstTransaction => Ledger!Init
<1>. SUFFICES ASSUME Init, 0 < FirstTransaction PROVE Ledger!Init
  OBVIOUS
<1>1. \A x \in TransactionId : HeldBy(x) = {}
  BY PositiveIds DEF Init, HeldBy
<1>2. \A x \in TransactionId : CarriedBy(x) = {} /\ ~(x < FirstTransaction + issued)
  BY PositiveIds, TransactionsAssumption DEF Init, CarriedBy, Idle
<1>3. LedgerPhase = [x \in TransactionId |-> "unissued"]
  BY <1>1, <1>2 DEF LedgerPhase
<1>4. LedgerHolder = [x \in TransactionId |-> 0]
  BY <1>1 DEF LedgerHolder, AnyOf
<1>. QED BY <1>3, <1>4 DEF Ledger!Init

\* A step of the station is a step of the ledger, or none.
LEMMA LedgerNext ==
    ASSUME TypeOK, TransactionInv, 0 < FirstTransaction, [Next]_vars
    PROVE  [Ledger!Next]_(Ledger!ledger)
<1>1. CASE UNCHANGED vars
  BY <1>1, LedgerQuiet DEF vars, connectorVars
<1>2. ASSUME NEW r \in ReservationId, Lapse(r) \/ Sweep(r) PROVE UNCHANGED Ledger!ledger
  BY <1>2, LedgerQuiet DEF Lapse, Sweep, ExpireReservations, Drop, connectorVars
<1>. QED BY <1>1, <1>2, LedgerRequest, LedgerTaskStep DEF Next

\* No interleaving of requests, replies, failures and resets revives, duplicates
\* or moves a transaction: the station is an implementation of the ledger.
THEOREM StationImplementsLedger ==
    ASSUME 0 < FirstTransaction
    PROVE  Spec => ImplementsLedger
<1>1. Init => Ledger!Init
  BY LedgerInit
<1>2. TypeOK /\ TransactionInv /\ [Next]_vars => [Ledger!Next]_(Ledger!ledger)
  BY LedgerNext
<1>. QED BY <1>1, <1>2, TypeCorrect, TransactionsAgree, PTL DEF Spec, ImplementsLedger, Ledger!Spec

-----------------------------------------------------------------------------
(* Counting up.                                                             *)

\* A set of naturals has a least element: induction, as a fact of the first order.
LEMMA LeastElement ==
    ASSUME NEW S \in SUBSET Nat, S # {}
    PROVE  \E m \in S : \A n \in S : m <= n
<1> DEFINE R == {ss \in Nat \X Nat : ss[1] < ss[2]}
<1>1. R = OpToRel(<, Nat)
  BY DEF OpToRel
<1>2. IsWellFoundedOn(R, Nat)
  BY <1>1, NatLessThanWellFounded
<1>3. \E x \in S : \A y \in S : <<y, x>> \notin R
  <2> HIDE DEF R
  <2> QED
    BY <1>2, WFMin
<1>4. \A x, y \in Nat : <<y, x>> \in R <=> y < x
  OBVIOUS
<1> HIDE DEF R
<1>5. PICK x \in S : \A y \in S : ~(y < x)
  BY <1>3, <1>4
<1> QED
  BY <1>5

\* What holds of 0 and of the next of everything it holds of, up to N, holds of
\* all up to N; good is the set of what it holds of.
LEMMA CountingUp ==
    ASSUME NEW N \in Nat, NEW good, 0 \in good,
           \A n \in 0 .. N : n < N /\ n \in good => n + 1 \in good
    PROVE  0 .. N \subseteq good
<1> SUFFICES ASSUME ~(0 .. N \subseteq good) PROVE FALSE
  OBVIOUS
<1>1. PICK m \in (0 .. N) \ good : \A n \in (0 .. N) \ good : m <= n
  <2>1. (0 .. N) \ good \in SUBSET Nat /\ (0 .. N) \ good # {}
    OBVIOUS
  <2> QED
    BY <2>1, LeastElement
<1>2. m # 0 /\ m - 1 \in 0 .. N /\ m - 1 < N /\ ~(m <= m - 1) /\ (m - 1) + 1 = m
  BY <1>1
<1>3. m - 1 \in good
  BY <1>1, <1>2
<1> QED
  BY <1>1, <1>2, <1>3

-----------------------------------------------------------------------------
(* The order in which a map yields its entries.                             *)

\* It is a sequence in which every entry has its place.
LEMMA OrderOfAll ==
    ASSUME NEW S, IsFiniteSet(S), NEW order \in SetToSeqs(S)
    PROVE  /\ Len(order) \in Nat
           /\ {order[i] : i \in 1 .. Len(order)} = S
<1> DEFINE N == Cardinality(S)
<1>1. N \in Nat
  BY FS_CardinalityType
<1>2. order \in [1 .. N -> S] /\ \A i, j \in 1 .. N : i # j => order[i] # order[j]
  BY DEF SetToSeqs
<1>3. Len(order) = N
  BY <1>1, <1>2
<1>4. order \in Injection(1 .. N, S)
  BY <1>2 DEF Injection, IsInjective
<1>5. Cardinality(1 .. N) = N
  BY <1>1, FS_Interval
<1>6. order \in Surjection(1 .. N, S)
  BY <1>4, <1>5, FS_Injection
<1> QED
  BY <1>1, <1>2, <1>3, <1>6 DEF Surjection

\* Any entry may have any place.
LEMMA OrderWithPlace ==
    ASSUME NEW S, IsFiniteSet(S), NEW r \in S, NEW place \in 1 .. Cardinality(S)
    PROVE  \E order \in SetToSeqs(S) : Len(order) = Cardinality(S) /\ order[place] = r
<1> DEFINE N == Cardinality(S)
<1>1. N \in Nat /\ ExistsBijection(1 .. N, S)
  BY FS_CardinalityType
<1>2. PICK f \in Bijection(1 .. N, S) : TRUE
  BY <1>1 DEF ExistsBijection
<1>3. /\ f \in [1 .. N -> S] /\ \A i, j \in 1 .. N : f[i] = f[j] => i = j
      /\ \A x \in S : \E i \in 1 .. N : f[i] = x
  BY <1>2 DEF Bijection, Injection, Surjection, IsInjective
<1>4. PICK at \in 1 .. N : f[at] = r
  BY <1>3
<1> DEFINE order == [i \in 1 .. N |-> IF i = place THEN r ELSE IF i = at THEN f[place] ELSE f[i]]
<1>5. order \in [1 .. N -> S] /\ order[place] = r
  BY <1>3
<1>6. \A i, j \in 1 .. N : i # j => order[i] # order[j]
  BY <1>3, <1>4
<1>7. Len(order) = N
  BY <1>1, <1>5
<1> HIDE DEF order
<1>8. order \in SetToSeqs(S)
  BY <1>5, <1>6 DEF SetToSeqs
<1> QED
  BY <1>5, <1>7, <1>8

LEMMA OrderExists ==
    ASSUME NEW S, IsFiniteSet(S)
    PROVE  \E order \in SetToSeqs(S) : Len(order) = Cardinality(S)
<1>1. Cardinality(S) \in Nat /\ ExistsBijection(1 .. Cardinality(S), S)
  BY FS_CardinalityType
<1>2. PICK f \in Bijection(1 .. Cardinality(S), S) : TRUE
  BY <1>1 DEF ExistsBijection
<1>3. f \in [1 .. Cardinality(S) -> S] /\ \A i, j \in 1 .. Cardinality(S) : f[i] = f[j] => i = j
  BY <1>2 DEF Bijection, Injection, IsInjective
<1>4. Len(f) = Cardinality(S)
  BY <1>1, <1>3
<1> QED
  BY <1>3, <1>4 DEF SetToSeqs


-----------------------------------------------------------------------------
(* The walk over the book, round by round.                                  *)

BookId == ReservationId \cup {ExtraId}

\* The loop of reservationAccessLocked after each of the first N rounds.
IsCall(w, order, book, c, tag, N) ==
    w = [n \in 0 .. N |->
           IF n = 0 THEN Walks!Looping(0) ELSE Walks!Visit(w[n - 1], order[n], book, c, tag)]

LEMMA CallsExist ==
    ASSUME NEW order, NEW book, NEW c, NEW tag, NEW N \in Nat
    PROVE  \E w : IsCall(w, order, book, c, tag, N)
<1> DEFINE good == {n \in 0 .. N : \E w : IsCall(w, order, book, c, tag, n)}
<1>1. 0 \in good
  <2> DEFINE w == [n \in 0 .. 0 |-> Walks!Looping(0)]
  <2>1. IsCall(w, order, book, c, tag, 0)
    BY DEF IsCall
  <2> QED
    BY <2>1
<1>2. ASSUME NEW n \in 0 .. N, n < N, n \in good PROVE n + 1 \in good
  <2>1. PICK w : IsCall(w, order, book, c, tag, n)
    BY <1>2
  <2> DEFINE v == [i \in 0 .. (n + 1) |->
                     IF i = n + 1 THEN Walks!Visit(w[n], order[n + 1], book, c, tag) ELSE w[i]]
  <2>2. \A i \in 0 .. n : v[i] = w[i]
    BY <1>2
  <2>3. ASSUME NEW i \in 0 .. (n + 1)
        PROVE  v[i] = IF i = 0 THEN Walks!Looping(0) ELSE Walks!Visit(v[i - 1], order[i], book, c, tag)
    <3>1. CASE i = n + 1
      <4>1. i # 0 /\ i - 1 = n /\ v[n] = w[n]
        BY <1>2, <2>2, <3>1
      <4> QED
        BY <3>1, <4>1
    <3>2. CASE i \in 0 .. n
      <4>1. w[i] = IF i = 0 THEN Walks!Looping(0) ELSE Walks!Visit(w[i - 1], order[i], book, c, tag)
        BY <2>1, <3>2 DEF IsCall
      <4>2. i # 0 => i - 1 \in 0 .. n /\ v[i - 1] = w[i - 1]
        BY <2>2, <3>2
      <4> QED
        BY <2>2, <3>2, <4>1, <4>2
    <3> QED
      BY <3>1, <3>2
  <2>4. IsCall(v, order, book, c, tag, n + 1)
    <3> HIDE DEF v
    <3> QED
      BY <2>3 DEF IsCall, v
  <2>5. n + 1 \in 0 .. N
    BY <1>2
  <2> HIDE DEF v
  <2> QED
    BY <2>4, <2>5
<1> HIDE DEF good
<1>3. N \in good
  BY <1>1, <1>2, CountingUp
<1> QED
  BY <1>3 DEF good

\* Called is where such a loop ends.
LEMMA CalledEndsCall ==
    ASSUME NEW order, NEW book, NEW c, NEW tag, Len(order) \in Nat
    PROVE  \E w : /\ IsCall(w, order, book, c, tag, Len(order))
                  /\ Walks!Called(order, book, c, tag) = w[Len(order)]
<1> DEFINE f == CHOOSE w : w = [n \in 0 .. Len(order) |->
                                  IF n = 0 THEN Walks!Looping(0)
                                  ELSE Walks!Visit(w[n - 1], order[n], book, c, tag)]
<1>1. \E w : w = [n \in 0 .. Len(order) |->
                    IF n = 0 THEN Walks!Looping(0)
                    ELSE Walks!Visit(w[n - 1], order[n], book, c, tag)]
  <2>1. PICK w : IsCall(w, order, book, c, tag, Len(order))
    BY CallsExist
  <2>2. w = [n \in 0 .. Len(order) |->
               IF n = 0 THEN Walks!Looping(0) ELSE Walks!Visit(w[n - 1], order[n], book, c, tag)]
    BY <2>1 DEF IsCall
  <2> QED
    BY <2>2
<1>2. f = [n \in 0 .. Len(order) |->
             IF n = 0 THEN Walks!Looping(0) ELSE Walks!Visit(f[n - 1], order[n], book, c, tag)]
  BY <1>1
<1>3. Walks!Called(order, book, c, tag) = f[Len(order)]
  BY DEF Walks!Called
<1> QED
  BY <1>2, <1>3 DEF IsCall

\* What the entry of r says to the call.
Admits(book, r, tag) == tag \in book[r].admits
Concerns(book, r, c) == Walks!Relevant(book[r], c)
IsOwn(book, r, c) == book[r].connector = c

LEMMA VisitPasses ==
    ASSUME NEW call, NEW r, NEW book, NEW c, NEW tag, call.pc = "returned" \/ ~Concerns(book, r, c)
    PROVE  Walks!Visit(call, r, book, c, tag) = call
BY DEF Walks!Visit, Concerns

LEMMA VisitRefuses ==
    ASSUME NEW call, NEW r, NEW book, NEW c, NEW tag, call.pc = "looping", Concerns(book, r, c),
           ~Admits(book, r, tag)
    PROVE  Walks!Visit(call, r, book, c, tag) = Walks!Refused
BY DEF Walks!Visit, Concerns, Admits

LEMMA VisitLetsThrough ==
    ASSUME NEW call, NEW r, NEW book, NEW c, NEW tag, call.pc = "looping", Concerns(book, r, c),
           Admits(book, r, tag), IsOwn(book, r, c)
    PROVE  Walks!Visit(call, r, book, c, tag) = Walks!LetThrough(r)
BY DEF Walks!Visit, Concerns, Admits, IsOwn

LEMMA VisitMatches ==
    ASSUME NEW call, NEW r, NEW book, NEW c, NEW tag, call.pc = "looping", Concerns(book, r, c),
           Admits(book, r, tag), ~IsOwn(book, r, c)
    PROVE  Walks!Visit(call, r, book, c, tag) = Walks!Looping(r)
BY DEF Walks!Visit, Concerns, Admits, IsOwn

\* What the call is after n rounds: it loops, and every entry so far left it
\* looping, the last that concerned it being matched; or one refused it; or one of
\* the connector let it through.
IsLooping(call, order, n, book, c, tag) ==
    /\ \A i \in 1 .. n :
          Concerns(book, order[i], c) => Admits(book, order[i], tag) /\ ~IsOwn(book, order[i], c)
    /\ \/ call = Walks!Looping(0) /\ \A i \in 1 .. n : ~Concerns(book, order[i], c)
       \/ \E i \in 1 .. n : call = Walks!Looping(order[i]) /\ Concerns(book, order[i], c)
IsRefused(call, order, n, book, c, tag) ==
    \E i \in 1 .. n :
        call = Walks!Refused /\ Concerns(book, order[i], c) /\ ~Admits(book, order[i], tag)
IsLetThrough(call, order, n, book, c, tag) ==
    \E i \in 1 .. n :
        /\ call = Walks!LetThrough(order[i])
        /\ Concerns(book, order[i], c) /\ Admits(book, order[i], tag) /\ IsOwn(book, order[i], c)

LEMMA CallAfterRounds ==
    ASSUME NEW order, NEW book, NEW c, NEW tag, NEW N \in Nat,
           NEW w, IsCall(w, order, book, c, tag, N), NEW rounds \in 0 .. N
    PROVE  \/ IsLooping(w[rounds], order, rounds, book, c, tag)
           \/ IsRefused(w[rounds], order, rounds, book, c, tag)
           \/ IsLetThrough(w[rounds], order, rounds, book, c, tag)
<1> DEFINE Told(n) == \/ IsLooping(w[n], order, n, book, c, tag)
                      \/ IsRefused(w[n], order, n, book, c, tag)
                      \/ IsLetThrough(w[n], order, n, book, c, tag)
           good == {n \in 0 .. N : Told(n)}
<1>1. 0 \in good
  <2>1. w[0] = Walks!Looping(0)
    BY DEF IsCall
  <2>2. 1 .. 0 = {}
    OBVIOUS
  <2>3. IsLooping(w[0], order, 0, book, c, tag)
    BY <2>1, <2>2 DEF IsLooping
  <2> QED
    BY <2>3
<1>2. ASSUME NEW n \in 0 .. N, n < N, Told(n) PROVE Told(n + 1)
  <2>1. n + 1 \in 1 .. N /\ n + 1 \in 0 .. N /\ n + 1 # 0 /\ (n + 1) - 1 = n
    BY <1>2
  <2>2. w[n + 1] = Walks!Visit(w[n], order[n + 1], book, c, tag)
    BY <2>1 DEF IsCall
  <2>3. 1 .. (n + 1) = (1 .. n) \cup {n + 1}
    BY <1>2
  <2> DEFINE r == order[n + 1]
  <2>4. CASE IsRefused(w[n], order, n, book, c, tag) \/ IsLetThrough(w[n], order, n, book, c, tag)
    <3>1. w[n].pc = "returned"
      <4>1. w[n] = Walks!Refused \/ \E id : w[n] = Walks!LetThrough(id)
        BY <2>4 DEF IsRefused, IsLetThrough
      <4>2. Walks!Refused.pc = "returned" /\ \A id : Walks!LetThrough(id).pc = "returned"
        BY DEF Walks!Refused, Walks!LetThrough
      <4> QED
        BY <4>1, <4>2
    <3>2. w[n + 1] = w[n]
      BY <2>2, <3>1, VisitPasses
    <3> QED
      BY <2>3, <2>4, <3>2 DEF IsRefused, IsLetThrough
  <2>5. CASE IsLooping(w[n], order, n, book, c, tag)
    <3>1. w[n].pc = "looping"
      <4>1. PICK id : w[n] = Walks!Looping(id)
        BY <2>5 DEF IsLooping
      <4> QED
        BY <4>1 DEF Walks!Looping
    <3>2. CASE ~Concerns(book, r, c)
      <4>1. w[n + 1] = w[n]
        BY <2>2, <3>2, VisitPasses
      <4> QED
        BY <2>3, <2>5, <3>2, <4>1 DEF IsLooping
    <3>3. CASE Concerns(book, r, c) /\ ~Admits(book, r, tag)
      <4>1. w[n + 1] = Walks!Refused
        BY <2>2, <3>1, <3>3, VisitRefuses
      <4> QED
        BY <2>3, <3>3, <4>1 DEF IsRefused
    <3>4. CASE Concerns(book, r, c) /\ Admits(book, r, tag) /\ IsOwn(book, r, c)
      <4>1. w[n + 1] = Walks!LetThrough(r)
        BY <2>2, <3>1, <3>4, VisitLetsThrough
      <4>2. n + 1 \in 1 .. (n + 1)
        BY <2>3
      <4>3. IsLetThrough(w[n + 1], order, n + 1, book, c, tag)
        BY <3>4, <4>1, <4>2 DEF IsLetThrough
      <4> QED
        BY <4>3
    <3>5. CASE Concerns(book, r, c) /\ Admits(book, r, tag) /\ ~IsOwn(book, r, c)
      <4>1. w[n + 1] = Walks!Looping(r)
        BY <2>2, <3>1, <3>5, VisitMatches
      <4>2. \A i \in 1 .. (n + 1) :
               Concerns(book, order[i], c) => Admits(book, order[i], tag) /\ ~IsOwn(book, order[i], c)
        BY <2>3, <2>5, <3>5 DEF IsLooping
      <4>3. \E i \in 1 .. (n + 1) : w[n + 1] = Walks!Looping(order[i]) /\ Concerns(book, order[i], c)
        BY <2>3, <3>5, <4>1
      <4> QED
        BY <4>2, <4>3 DEF IsLooping
    <3> QED
      BY <3>2, <3>3, <3>4, <3>5
  <2> QED
    BY <1>2, <2>4, <2>5
<1>3. 0 .. N \subseteq good
  <2>1. \A n \in 0 .. N : n < N /\ n \in good => n + 1 \in good
    BY <1>2
  <2> HIDE DEF good
  <2> QED
    BY <1>1, <2>1, CountingUp
<1> QED
  BY <1>3


-----------------------------------------------------------------------------
(* The walk and its closed form.                                            *)

Permission(id) == [id |-> id, ok |-> TRUE]
Refusal == [id |-> 0, ok |-> FALSE]

\* The closed form, said of single entries.
LEMMA AccessSays ==
    ASSUME NEW book, NEW c \in Connector, NEW tag, NEW answer
    PROVE  answer \in Walks!Access(book, c, tag) <=>
             \/ \E r \in BookId : /\ Concerns(book, r, c) /\ IsOwn(book, r, c) /\ Admits(book, r, tag)
                                  /\ answer = Permission(r)
             \/ answer = Refusal /\ \E r \in BookId : Concerns(book, r, c) /\ ~Admits(book, r, tag)
             \/ /\ \A r \in BookId : Concerns(book, r, c) => ~IsOwn(book, r, c) /\ Admits(book, r, tag)
                /\ \/ answer = Permission(0) /\ \A r \in BookId : ~Concerns(book, r, c)
                   \/ \E r \in BookId : Concerns(book, r, c) /\ answer = Permission(r)
<1> DEFINE own == Walks!LiveAt(book, c)
           anywhere == Walks!LiveAt(book, 0)
           refusing == {r \in own \cup anywhere : tag \notin book[r].admits}
<1>1. c # 0
  BY NumConnectorsAssumption DEF Connector
<1>2. /\ own = {r \in BookId : Concerns(book, r, c) /\ IsOwn(book, r, c)}
      /\ anywhere = {r \in BookId : Concerns(book, r, c) /\ ~IsOwn(book, r, c)}
  BY <1>1 DEF Walks!LiveAt, Walks!Relevant, Concerns, IsOwn, BookId
<1>3. refusing = {r \in BookId : Concerns(book, r, c) /\ ~Admits(book, r, tag)}
  BY <1>2 DEF Admits
<1>4. answer \in Walks!Access(book, c, tag) <=>
        \/ \E r \in own \ refusing : answer = Permission(r)
        \/ answer = Refusal /\ refusing # {}
        \/ /\ own \cup refusing = {}
           /\ \/ answer = Permission(0) /\ anywhere = {}
              \/ \E r \in anywhere : answer = Permission(r)
  <2> HIDE DEF own, anywhere
  <2>1. Walks!Access(book, c, tag) =
          {Permission(r) : r \in own \ refusing} \cup {Refusal : r \in refusing}
          \cup (IF own \cup refusing # {} THEN {}
                ELSE IF anywhere = {} THEN {Permission(0)}
                ELSE {Permission(r) : r \in anywhere})
    BY DEF Walks!Access, own, anywhere, Permission, Refusal
  <2> HIDE DEF refusing
  <2> QED
    BY <2>1
<1> HIDE DEF own, anywhere, refusing
<1>5. (\E r \in own \ refusing : answer = Permission(r)) <=>
        \E r \in BookId : /\ Concerns(book, r, c) /\ IsOwn(book, r, c) /\ Admits(book, r, tag)
                          /\ answer = Permission(r)
  BY <1>2, <1>3
<1>6. refusing # {} <=> \E r \in BookId : Concerns(book, r, c) /\ ~Admits(book, r, tag)
  BY <1>3
<1>7. own \cup refusing = {} <=>
        \A r \in BookId : Concerns(book, r, c) => ~IsOwn(book, r, c) /\ Admits(book, r, tag)
  BY <1>2, <1>3
<1>8. own \cup refusing = {} => anywhere = {r \in BookId : Concerns(book, r, c)}
  BY <1>2
<1> QED
  BY <1>4, <1>5, <1>6, <1>7, <1>8

\* Only what the book holds concerns a call.
LEMMA EntriesConcern ==
    ASSUME NEW book, NEW c, NEW r \in BookId, Concerns(book, r, c)
    PROVE  r \in Walks!Entries(book)
<1>1. book[r].live
  BY DEF Concerns, Walks!Relevant
<1>2. ~NoReservation.live
  BY DEF NoReservation
<1> QED
  BY <1>1, <1>2 DEF Walks!Entries, BookId

\* What the call answers in each of the states a loop can end in.
AnswerOf(call) == [id |-> call.id, ok |-> call.ok]

LEMMA AnswerOfStates ==
    /\ \A id : AnswerOf(Walks!Looping(id)) = Permission(id)
    /\ \A id : AnswerOf(Walks!LetThrough(id)) = Permission(id)
    /\ AnswerOf(Walks!Refused) = Refusal
BY DEF AnswerOf, Walks!Looping, Walks!LetThrough, Walks!Refused, Permission, Refusal

\* An answer of the walk is one of the closed form.
LEMMA AnswerIsAccess ==
    ASSUME IsFiniteSet(BookId), NEW book, NEW c \in Connector, NEW tag,
           NEW order \in SetToSeqs(Walks!Entries(book))
    PROVE  AnswerOf(Walks!Called(order, book, c, tag)) \in Walks!Access(book, c, tag)
<1> DEFINE N == Len(order)
           call == Walks!Called(order, book, c, tag)
<1>1. IsFiniteSet(Walks!Entries(book))
  <2>1. Walks!Entries(book) \in SUBSET BookId
    BY DEF Walks!Entries, BookId
  <2> QED
    BY <2>1, FS_Subset
<1>2. N \in Nat /\ {order[i] : i \in 1 .. N} = Walks!Entries(book)
  BY <1>1, OrderOfAll
<1>3. \A i \in 1 .. N : order[i] \in BookId
  BY <1>2 DEF Walks!Entries, BookId
<1>4. \A r \in BookId : Concerns(book, r, c) => \E i \in 1 .. N : r = order[i]
  BY <1>2, EntriesConcern
<1>5. \/ IsLooping(call, order, N, book, c, tag)
      \/ IsRefused(call, order, N, book, c, tag)
      \/ IsLetThrough(call, order, N, book, c, tag)
  <2>1. PICK w : IsCall(w, order, book, c, tag, N) /\ call = w[N]
    BY <1>2, CalledEndsCall
  <2>2. N \in 0 .. N
    BY <1>2
  <2> HIDE DEF call, N
  <2> QED
    BY <1>2, <2>1, <2>2, CallAfterRounds
<1> HIDE DEF call, N
<1>6. CASE IsRefused(call, order, N, book, c, tag)
  <2>1. PICK i \in 1 .. N : /\ call = Walks!Refused
                            /\ Concerns(book, order[i], c) /\ ~Admits(book, order[i], tag)
    BY <1>6 DEF IsRefused
  <2> QED
    BY <1>3, <2>1, AnswerOfStates, AccessSays DEF call
<1>7. CASE IsLetThrough(call, order, N, book, c, tag)
  <2>1. PICK i \in 1 .. N :
          /\ call = Walks!LetThrough(order[i])
          /\ Concerns(book, order[i], c) /\ Admits(book, order[i], tag) /\ IsOwn(book, order[i], c)
    BY <1>7 DEF IsLetThrough
  <2> QED
    BY <1>3, <2>1, AnswerOfStates, AccessSays DEF call
<1>8. CASE IsLooping(call, order, N, book, c, tag)
  <2>1. \A r \in BookId : Concerns(book, r, c) => ~IsOwn(book, r, c) /\ Admits(book, r, tag)
    BY <1>4, <1>8 DEF IsLooping
  <2>2. CASE call = Walks!Looping(0) /\ \A i \in 1 .. N : ~Concerns(book, order[i], c)
    <3>1. \A r \in BookId : ~Concerns(book, r, c)
      BY <1>4, <2>2
    <3> QED
      BY <2>1, <2>2, <3>1, AnswerOfStates, AccessSays DEF call
  <2>3. ASSUME NEW i \in 1 .. N, call = Walks!Looping(order[i]), Concerns(book, order[i], c)
        PROVE  AnswerOf(Walks!Called(order, book, c, tag)) \in Walks!Access(book, c, tag)
    BY <1>3, <2>1, <2>3, AnswerOfStates, AccessSays DEF call
  <2> QED
    BY <1>8, <2>2, <2>3 DEF IsLooping
<1> QED
  BY <1>5, <1>6, <1>7, <1>8


\* Once the call has returned, the rounds that follow change nothing.
LEMMA ReturnedStays ==
    ASSUME NEW order, NEW book, NEW c, NEW tag, NEW N \in Nat,
           NEW w, IsCall(w, order, book, c, tag, N), 1 <= N, w[1].pc = "returned"
    PROVE  w[N] = w[1]
<1> DEFINE good == {n \in 0 .. N : n = 0 \/ w[n] = w[1]}
<1>1. 0 \in good
  OBVIOUS
<1>2. ASSUME NEW n \in 0 .. N, n < N, n \in good PROVE n + 1 \in good
  <2>1. n + 1 \in 0 .. N /\ n + 1 # 0 /\ (n + 1) - 1 = n
    BY <1>2
  <2>2. CASE n = 0
    BY <2>1, <2>2
  <2>3. CASE n # 0
    <3>1. w[n + 1] = Walks!Visit(w[n], order[n + 1], book, c, tag)
      BY <2>1 DEF IsCall
    <3>2. w[n] = w[1]
      BY <1>2, <2>3
    <3>3. w[n + 1] = w[n]
      BY <3>1, <3>2, VisitPasses
    <3> QED
      BY <2>1, <3>2, <3>3
  <2> QED
    BY <2>2, <2>3
<1> HIDE DEF good
<1>3. N \in good
  BY <1>1, <1>2, CountingUp
<1> QED
  BY <1>3 DEF good

\* Every answer of the closed form is one of some walk: the entry that decides may
\* come first, and one that is matched may come last.
LEMMA AccessIsAnswer ==
    ASSUME IsFiniteSet(BookId), NEW book, NEW c \in Connector, NEW tag,
           NEW answer \in Walks!Access(book, c, tag)
    PROVE  \E order \in SetToSeqs(Walks!Entries(book)) :
              answer = AnswerOf(Walks!Called(order, book, c, tag))
<1> DEFINE S == Walks!Entries(book)
           N == Cardinality(S)
<1>1. IsFiniteSet(S) /\ N \in Nat
  <2>1. S \in SUBSET BookId
    BY DEF Walks!Entries, BookId
  <2>2. IsFiniteSet(S)
    BY <2>1, FS_Subset
  <2> QED
    BY <2>2, FS_CardinalityType
<1>2. ASSUME NEW r \in S PROVE 1 \in 1 .. N /\ N \in 1 .. N
  <2>1. N # 0
    BY <1>1, FS_EmptySet
  <2> QED
    BY <1>1, <2>1
<1> HIDE DEF S, N
\* The entry that decides comes first.
<1>3. ASSUME NEW r \in BookId, Concerns(book, r, c), ~Admits(book, r, tag) \/ IsOwn(book, r, c)
      PROVE  \E order \in SetToSeqs(S) :
                AnswerOf(Walks!Called(order, book, c, tag)) =
                  IF Admits(book, r, tag) THEN Permission(r) ELSE Refusal
  <2>1. r \in S
    BY <1>3, EntriesConcern DEF S
  <2>2. PICK order \in SetToSeqs(S) : Len(order) = N /\ order[1] = r
    BY <1>1, <1>2, <2>1, OrderWithPlace DEF N
  <2>3. PICK w : IsCall(w, order, book, c, tag, N) /\ Walks!Called(order, book, c, tag) = w[N]
    BY <1>1, <2>2, CalledEndsCall
  <2>4. 1 <= N /\ 1 \in 0 .. N /\ 0 \in 0 .. N
    BY <1>1, <1>2, <2>1
  <2>5. w[1] = Walks!Visit(Walks!Looping(0), r, book, c, tag)
    <3>1. w[0] = Walks!Looping(0)
      BY <2>3, <2>4 DEF IsCall
    <3>2. w[1] = Walks!Visit(w[1 - 1], order[1], book, c, tag)
      BY <2>3, <2>4 DEF IsCall
    <3> QED
      BY <2>2, <3>1, <3>2
  <2>6. Walks!Looping(0).pc = "looping" /\ Walks!Refused.pc = "returned" /\ Walks!LetThrough(r).pc = "returned"
    BY DEF Walks!Looping, Walks!Refused, Walks!LetThrough
  <2>7. CASE ~Admits(book, r, tag)
    <3>1. w[1] = Walks!Refused
      BY <1>3, <2>5, <2>6, <2>7, VisitRefuses
    <3>2. w[N] = Walks!Refused
      BY <1>1, <2>3, <2>4, <2>6, <3>1, ReturnedStays
    <3>3. AnswerOf(Walks!Called(order, book, c, tag)) = Refusal
      BY <2>3, <3>2, AnswerOfStates
    <3> QED
      BY <2>7, <3>3
  <2>8. CASE Admits(book, r, tag)
    <3>1. w[1] = Walks!LetThrough(r)
      BY <1>3, <2>5, <2>6, <2>8, VisitLetsThrough
    <3>2. w[N] = Walks!LetThrough(r)
      BY <1>1, <2>3, <2>4, <2>6, <3>1, ReturnedStays
    <3>3. AnswerOf(Walks!Called(order, book, c, tag)) = Permission(r)
      BY <2>3, <3>2, AnswerOfStates
    <3> QED
      BY <2>8, <3>3
  <2> QED
    BY <2>7, <2>8
<1>4. ASSUME NEW r \in BookId, Concerns(book, r, c), Admits(book, r, tag), IsOwn(book, r, c),
             answer = Permission(r)
      PROVE  \E order \in SetToSeqs(S) : answer = AnswerOf(Walks!Called(order, book, c, tag))
  BY <1>3, <1>4
<1>5. ASSUME NEW r \in BookId, Concerns(book, r, c), ~Admits(book, r, tag), answer = Refusal
      PROVE  \E order \in SetToSeqs(S) : answer = AnswerOf(Walks!Called(order, book, c, tag))
  BY <1>3, <1>5
\* Nothing concerns the call: the answer is the same for every order.
<1>6. ASSUME \A r \in BookId : ~Concerns(book, r, c), answer = Permission(0)
      PROVE  \E order \in SetToSeqs(S) : answer = AnswerOf(Walks!Called(order, book, c, tag))
  <2>1. PICK order \in SetToSeqs(S) : Len(order) = N
    BY <1>1, OrderExists DEF N
  <2>2. AnswerOf(Walks!Called(order, book, c, tag)) \in Walks!Access(book, c, tag)
    BY <2>1, AnswerIsAccess DEF S
  <2>3. AnswerOf(Walks!Called(order, book, c, tag)) = Permission(0)
    BY <1>6, <2>2, AccessSays
  <2> QED
    BY <1>6, <2>1, <2>3
\* What is matched comes last, and all before it leaves the call looping.
<1>7. ASSUME NEW r \in BookId, Concerns(book, r, c), answer = Permission(r),
             \A q \in BookId : Concerns(book, q, c) => ~IsOwn(book, q, c) /\ Admits(book, q, tag)
      PROVE  \E order \in SetToSeqs(S) : answer = AnswerOf(Walks!Called(order, book, c, tag))
  <2>1. r \in S
    BY <1>7, EntriesConcern DEF S
  <2>2. PICK order \in SetToSeqs(S) : Len(order) = N /\ order[N] = r
    BY <1>1, <1>2, <2>1, OrderWithPlace DEF N
  <2>3. PICK w : IsCall(w, order, book, c, tag, N) /\ Walks!Called(order, book, c, tag) = w[N]
    BY <1>1, <2>2, CalledEndsCall
  <2>4. N \in 0 .. N /\ N # 0 /\ N - 1 \in 0 .. N
    BY <1>1, <1>2, <2>1
  <2>5. w[N] = Walks!Visit(w[N - 1], r, book, c, tag)
    BY <2>2, <2>3, <2>4 DEF IsCall
  <2>6. \A i \in 1 .. (N - 1) : order[i] \in BookId
    <3>1. {order[i] : i \in 1 .. N} = S
      BY <1>1, <2>2, OrderOfAll
    <3>2. \A i \in 1 .. (N - 1) : i \in 1 .. N
      BY <1>1
    <3> QED
      BY <3>1, <3>2 DEF S, Walks!Entries, BookId
  <2>7. w[N - 1].pc = "looping"
    <3>1. \/ IsLooping(w[N - 1], order, N - 1, book, c, tag)
          \/ IsRefused(w[N - 1], order, N - 1, book, c, tag)
          \/ IsLetThrough(w[N - 1], order, N - 1, book, c, tag)
      BY <1>1, <2>3, <2>4, CallAfterRounds
    <3>2. ~IsRefused(w[N - 1], order, N - 1, book, c, tag)
      BY <1>7, <2>6 DEF IsRefused
    <3>3. ~IsLetThrough(w[N - 1], order, N - 1, book, c, tag)
      BY <1>7, <2>6 DEF IsLetThrough
    <3>4. PICK id : w[N - 1] = Walks!Looping(id)
      BY <3>1, <3>2, <3>3 DEF IsLooping
    <3> QED
      BY <3>4 DEF Walks!Looping
  <2>8. w[N] = Walks!Looping(r)
    BY <1>7, <2>5, <2>7, VisitMatches
  <2> QED
    BY <1>7, <2>2, <2>3, <2>8, AnswerOfStates
<1>8. \E order \in SetToSeqs(S) : answer = AnswerOf(Walks!Called(order, book, c, tag))
  BY <1>4, <1>5, <1>6, <1>7, AccessSays
<1> QED
  BY <1>8 DEF S

\* The closed form that Station uses is exact for every finite book, and so for
\* every state it comes to: what reservationAccessLocked can answer, over all
\* orders of its map and all early returns, is what Access says.
THEOREM ClosedFormIsExact ==
    ASSUME IsFiniteSet(ReservationId)
    PROVE  Spec => []AccessIsExact
<1>1. IsFiniteSet(BookId)
  BY FS_AddElement DEF BookId
<1>2. ASSUME NEW book, NEW c \in Connector, NEW tag
      PROVE  Walks!Answers(book, c, tag) = Walks!Access(book, c, tag)
  <2> DEFINE calls == {Walks!Called(order, book, c, tag) : order \in SetToSeqs(Walks!Entries(book))}
  <2>1. Walks!Answers(book, c, tag) = {[id |-> call.id, ok |-> call.ok] : call \in calls}
    <3>1. \A S : Walks!Cardinality(S) = Cardinality(S)
      BY DEF Walks!Cardinality, Cardinality
    <3>2. \A S : Walks!SetToSeqs(S) = SetToSeqs(S)
      BY <3>1 DEF Walks!SetToSeqs, SetToSeqs
    <3> QED
      BY <3>2 DEF Walks!Answers
  <2>2. \A order \in SetToSeqs(Walks!Entries(book)) :
           AnswerOf(Walks!Called(order, book, c, tag)) \in Walks!Access(book, c, tag)
    BY <1>1, AnswerIsAccess
  <2>3. \A answer \in Walks!Access(book, c, tag) : \E order \in SetToSeqs(Walks!Entries(book)) :
           answer = AnswerOf(Walks!Called(order, book, c, tag))
    BY <1>1, AccessIsAnswer
  <2>4. \A answer : answer \in {[id |-> call.id, ok |-> call.ok] : call \in calls}
                      <=> \E call \in calls : answer = AnswerOf(call)
    <3> HIDE DEF calls
    <3> QED
      BY DEF AnswerOf
  <2> QED
    BY <2>1, <2>2, <2>3, <2>4
<1>3. AccessIsExact
  BY <1>2 DEF AccessIsExact
<1> QED
  BY <1>3, PTL
=============================================================================
