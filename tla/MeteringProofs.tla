---------------------------- MODULE MeteringProofs ----------------------------
(* Proofs about Metering: it is Station with more state, and no transaction is *)
(* stopped below its start, nor sampled on another connector.                  *)
EXTENDS Metering, StationProofs, SequenceTheorems

-----------------------------------------------------------------------------
(* Station underneath.                                                      *)

\* What a metered step does to the station is a step of it, or nothing.
LEMMA MeterStepIsStationStep == [MeterNext]_meteringVars => [Next]_vars
<1> SUFFICES ASSUME [MeterNext]_meteringVars PROVE [Next]_vars
  OBVIOUS
<1>1. CASE MeteredRequest
  BY <1>1 DEF MeteredRequest, Next
<1>2. ASSUME NEW t \in Task, MeteredTask(t) PROVE [Next]_vars
  <2>1. TaskStep(t) \/ UNCHANGED vars
    BY <1>2 DEF MeteredTask, StartGoesOn, TaskReads, StartBilled, StartEnds, StopBilled,
                StopUnbilled, TaskStep
  <2> QED
    BY <2>1 DEF Next
<1>3. ASSUME NEW r \in ReservationId, Lapse(r) \/ Sweep(r) PROVE Next
  BY <1>3 DEF Next
<1>4. CASE MeterTick \/ SampleReceived \/ (\E c \in Connector : TriggerReads(c)) \/ TriggerSent
  BY <1>4 DEF MeterTick, SampleReceived, TriggerReads, TriggerSent
<1>5. CASE UNCHANGED meteringVars
  BY <1>5 DEF meteringVars
<1> QED
  BY <1>1, <1>2, <1>3, <1>4, <1>5 DEF MeterNext

\* What is proved of Station holds with meters, too.
THEOREM MeteringImplementsStation == MeterSpec => Spec
<1>1. MeterInit => Init
  BY DEF MeterInit
<1> QED
  BY <1>1, MeterStepIsStationStep, PTL DEF MeterSpec, Spec

-----------------------------------------------------------------------------
(* The inductive invariant.                                                 *)

Reading == [meter : Nat]
Bill == [connector : {0} \cup Connector, start : Nat, stops : SUBSET Nat]
Samples == [connector : Connector, meter : Nat, tx : {0} \cup TransactionId]

MeterTypeOK ==
    /\ meter \in [Connector -> Nat]
    /\ readings \in [Task -> Reading \cup {None}]
    /\ bills \in [TransactionId -> Bill]
    /\ samples \in Seq(Samples)
    /\ triggered \in Samples \cup {None}

\* The central system has started the transaction on that connector, at a reading
\* its meter has passed.
Booked(x, c) == bills[x].connector = c /\ bills[x].start <= meter[c]

HoldersAreBooked == \A c \in Connector : transactionID[c] # 0 => Booked(transactionID[c], c)

TasksAreBooked ==
    \A t \in Task : tasks[t].pc \in {"started", "finishing"} =>
        Booked(tasks[t].tx, tasks[t].connector)

\* A reading waits for StartTransaction or StopTransaction; it was read off the
\* connector, and for a stop since the start.
ReadingsFit ==
    \A t \in Task : readings[t] # None =>
        /\ tasks[t].pc \in {"starting", "finishing"}
        /\ readings[t].meter <= meter[tasks[t].connector]
        /\ tasks[t].pc = "finishing" => bills[tasks[t].tx].start <= readings[t].meter

SamplesAreIssued == \A s \in Underway : s.tx < FirstTransaction + issued

MeterInv ==
    /\ MeterTypeOK
    /\ HoldersAreBooked /\ TasksAreBooked /\ ReadingsFit /\ SamplesAreIssued
    /\ StopsFollowStart /\ SamplesBelongToTransaction

LEMMA UnderwayType ==
    ASSUME MeterTypeOK
    PROVE  Underway \subseteq Samples
<1>1. ASSUME NEW i \in DOMAIN samples PROVE samples[i] \in Samples
  BY <1>1, ElementOfSeq DEF MeterTypeOK
<1> QED
  BY <1>1 DEF Underway, MeterTypeOK

LEMMA BookedTask ==
    ASSUME TypeOK, TransactionInv, 0 < FirstTransaction, NEW t \in Task,
           tasks[t].pc \in {"started", "finishing"}
    PROVE  tasks[t].tx \in TransactionId /\ tasks[t].connector \in Connector
<1>1. tasks[t] \in TaskState
  BY BusyTask
<1>2. tasks[t].tx # 0
  BY TransactionsAssumption DEF TransactionInv, IssuedInOrder
<1> QED
  BY <1>1, <1>2 DEF TaskState

LEMMA MeterInvInit == 0 < FirstTransaction /\ MeterInit => MeterInv
<1> SUFFICES ASSUME 0 < FirstTransaction, MeterInit PROVE MeterInv
  OBVIOUS
<1>1. MeterTypeOK
  BY MeterAssumption DEF MeterInit, MeterTypeOK, Bill, NoBill
<1>2. Underway = {}
  BY DEF MeterInit, Underway
<1>3. HoldersAreBooked /\ TasksAreBooked /\ ReadingsFit
  BY DEF MeterInit, Init, HoldersAreBooked, TasksAreBooked, ReadingsFit, Idle
<1>4. StopsFollowStart
  BY DEF MeterInit, StopsFollowStart, NoBill
<1> QED
  BY <1>1, <1>2, <1>3, <1>4 DEF MeterInv, SamplesAreIssued, SamplesBelongToTransaction

-----------------------------------------------------------------------------
(* Steps of the station that bill nothing.                                  *)

\* Connectors and tasks get no transaction that is not booked for them, and a
\* reading stays with its task or is forgotten.
LEMMA UnbilledKeepsMeterInv ==
    ASSUME MeterInv, UNCHANGED <<meter, bills, samples, triggered, issued>>,
           readings' \in [Task -> Reading \cup {None}],
           \A c \in Connector : transactionID'[c] # 0 => Booked(transactionID'[c], c),
           \A t \in Task : tasks'[t].pc \in {"started", "finishing"} =>
              Booked(tasks'[t].tx, tasks'[t].connector),
           \A t \in Task : readings'[t] # None =>
              readings'[t] = readings[t] /\ tasks'[t] = tasks[t]
    PROVE  MeterInv'
<1> USE DEF MeterInv
<1>1. MeterTypeOK'
  BY DEF MeterTypeOK
<1>2. Underway' = Underway
  BY DEF Underway
<1>3. HoldersAreBooked' /\ TasksAreBooked'
  BY DEF HoldersAreBooked, TasksAreBooked, Booked
<1>4. ReadingsFit'
  BY DEF ReadingsFit
<1>5. StopsFollowStart'
  BY DEF StopsFollowStart
<1>6. SamplesAreIssued' /\ SamplesBelongToTransaction'
  BY <1>2 DEF SamplesAreIssued, SamplesBelongToTransaction
<1> QED
  BY <1>1, <1>3, <1>4, <1>5, <1>6

\* A request starts at most one task: a start that carries no transaction yet, or
\* the stop of a transaction on the connector that holds it.
RequestEffect ==
    /\ UNCHANGED issued
    /\ \A c \in Connector : transactionID'[c] \in {0, transactionID[c]}
    /\ \A t \in Task :
          \/ tasks'[t] = tasks[t]
          \/ tasks[t] = Idle /\ tasks'[t].pc = "preparing"
          \/ tasks[t] = Idle /\ \E c \in Connector :
                /\ tasks'[t].connector = c /\ tasks'[t].tx = transactionID[c]
                /\ transactionID[c] # 0

LEMMA RequestHasEffect ==
    ASSUME TypeOK, 0 < FirstTransaction, Request
    PROVE  RequestEffect
<1> USE DEF TypeOK, RequestEffect
<1>1. ASSUME UNCHANGED <<transactionID, tasks, issued>> PROVE RequestEffect
  BY <1>1
<1>2. ASSUME NEW k \in {0} \cup Connector, NEW type \in Availability, ChangeAvailability(k, type)
      PROVE  RequestEffect
  BY <1>1, <1>2 DEF ChangeAvailability
<1>3. ASSUME NEW value \in BOOLEAN, ChangeConfiguration(value) PROVE RequestEffect
  BY <1>1, <1>3 DEF ChangeConfiguration, connectorVars
<1>4. ASSUME NEW r \in ReservationId, NEW k \in 0 .. (NumConnectors + 1), NEW tag \in IdTag,
             NEW parent \in IdTag, ReserveNow(r, k, tag, {tag, parent})
      PROVE  RequestEffect
  BY <1>1, <1>4 DEF ReserveNow
<1>5. ASSUME NEW r \in ReservationId, CancelReservation(r) PROVE RequestEffect
  BY <1>1, <1>5 DEF CancelReservation, Drop
<1>6. ASSUME NEW tag \in IdTag, NEW given \in ProfileChoice,
             (\E c \in Connector : RemoteStartOn(c, tag, given)) \/ RemoteStartAny(tag, given)
      PROVE  RequestEffect
  <2>1. PICK c \in Connector : \E access \in Access(reservations, c, tag) :
           BeginStart(c, tag, access.id, given)
    BY <1>6, RemoteStartSelects
  <2> QED
    BY <2>1 DEF BeginStart, Spawn
<1>7. ASSUME NEW i \in 1 .. issued, RemoteStop(FirstTransaction + i - 1) PROVE RequestEffect
  <2>1. FirstTransaction + i - 1 # 0
    BY TransactionsAssumption
  <2> QED
    BY <1>7, <2>1 DEF RemoteStop, Spawn
<1>8. ASSUME Reset PROVE RequestEffect
  BY <1>8 DEF Reset
<1> QED
  BY <1>2, <1>3, <1>4, <1>5, <1>6, <1>7, <1>8 DEF Request

LEMMA MeteredRequestKeepsMeterInv ==
    ASSUME TypeOK, 0 < FirstTransaction, MeterInv, MeteredRequest
    PROVE  MeterInv'
<1>1. RequestEffect /\ UNCHANGED meterVars
  BY RequestHasEffect DEF MeteredRequest
<1>2. UNCHANGED <<meter, bills, samples, triggered, issued>> /\ UNCHANGED readings
  BY <1>1 DEF RequestEffect, meterVars
<1>3. readings' \in [Task -> Reading \cup {None}]
  BY <1>2 DEF MeterInv, MeterTypeOK
<1>4. ASSUME NEW c \in Connector, transactionID'[c] # 0 PROVE Booked(transactionID'[c], c)
  BY <1>1, <1>4 DEF RequestEffect, MeterInv, HoldersAreBooked
<1>5. ASSUME NEW t \in Task, tasks'[t].pc \in {"started", "finishing"}
      PROVE  Booked(tasks'[t].tx, tasks'[t].connector)
  BY <1>1, <1>5 DEF RequestEffect, MeterInv, HoldersAreBooked, TasksAreBooked
<1>6. ASSUME NEW t \in Task, readings'[t] # None
      PROVE  readings'[t] = readings[t] /\ tasks'[t] = tasks[t]
  <2>1. tasks[t].pc \in {"starting", "finishing"}
    BY <1>2, <1>6 DEF MeterInv, ReadingsFit
  <2> QED
    BY <1>1, <1>2, <2>1 DEF RequestEffect, Idle
<1> QED
  BY <1>2, <1>3, <1>4, <1>5, <1>6, UnbilledKeepsMeterInv

\* A start goes on with its configuration or its authorization.
LEMMA StartGoesOnKeepsMeterInv ==
    ASSUME TypeOK, MeterInv, NEW t \in Task, StartGoesOn(t)
    PROVE  MeterInv'
<1>1. /\ UNCHANGED <<meter, bills, samples, triggered, issued, transactionID, readings>>
      /\ tasks[t].pc \in {"preparing", "authorizing"}
      /\ tasks'[t].pc \in {"authorizing", "starting"}
      /\ \A u \in Task : u # t => tasks'[u] = tasks[u]
  <2>1. tasks[t] \in TaskState /\ tasks[t].pc \in {"preparing", "authorizing"}
    BY BusyTask DEF StartGoesOn, Prepared, Authorized
  <2> QED
    BY <2>1 DEF StartGoesOn, Prepared, Authorized, TypeOK, TaskState, connectorVars, meterVars
<1>2. readings[t] = None
  BY <1>1 DEF MeterInv, ReadingsFit
<1> QED
  BY <1>1, <1>2, UnbilledKeepsMeterInv
     DEF MeterInv, MeterTypeOK, HoldersAreBooked, TasksAreBooked

\* A task that ends without a bill, and forgets what it has read.
LEMMA EndKeepsMeterInv ==
    ASSUME TypeOK, MeterInv, NEW t \in Task, End(t), Forget(t),
           UNCHANGED <<meter, bills, samples, triggered, issued>>,
           \A c \in Connector : transactionID'[c] # 0 => Booked(transactionID'[c], c)
    PROVE  MeterInv'
<1>1. /\ tasks'[t].pc = "idle"
      /\ \A u \in Task : u # t => tasks'[u] = tasks[u]
  BY EndedTask
<1>2. /\ readings' \in [Task -> Reading \cup {None}]
      /\ readings'[t] = None
      /\ \A u \in Task : u # t => readings'[u] = readings[u]
  BY DEF Forget, MeterInv, MeterTypeOK
<1> QED
  BY <1>1, <1>2, UnbilledKeepsMeterInv DEF MeterInv, TasksAreBooked

LEMMA StartEndsKeepsMeterInv ==
    ASSUME TypeOK, MeterInv, NEW t \in Task, StartEnds(t)
    PROVE  MeterInv'
<1>1. End(t) /\ Forget(t) /\ UNCHANGED <<meter, bills, samples, triggered, issued>>
  BY DEF StartEnds, StartConfirmed, StartAbandoned
<1>2. ASSUME NEW c \in Connector, transactionID'[c] # 0 PROVE Booked(transactionID'[c], c)
  <2>1. CASE StartConfirmed(t)
    BY <1>2, <2>1 DEF StartConfirmed, TypeOK, MeterInv, HoldersAreBooked, TasksAreBooked
  <2>2. CASE StartAbandoned(t)
    BY <1>2, <2>2 DEF StartAbandoned, MeterInv, HoldersAreBooked
  <2> QED
    BY <2>1, <2>2 DEF StartEnds
<1> QED
  BY <1>1, <1>2, EndKeepsMeterInv

\* What a stop, answered or not, leaves on the connectors.
LEMMA StopKeepsHolders ==
    ASSUME TypeOK, MeterInv, NEW t \in Task, StopConfirmed(t) \/ StopFailed(t)
    PROVE  /\ End(t) /\ UNCHANGED issued
           /\ \A c \in Connector : transactionID'[c] # 0 => transactionID'[c] = transactionID[c]
BY DEF StopConfirmed, StopFailed, TypeOK, connectorVars

LEMMA StopUnbilledKeepsMeterInv ==
    ASSUME TypeOK, MeterInv, NEW t \in Task, StopUnbilled(t)
    PROVE  MeterInv'
<1>1. Forget(t) /\ StopFailed(t) /\ UNCHANGED <<meter, bills, samples, triggered>>
  BY DEF StopUnbilled
<1> QED
  BY <1>1, StopKeepsHolders, EndKeepsMeterInv DEF MeterInv, HoldersAreBooked

-----------------------------------------------------------------------------
(* Readings and bills.                                                      *)

\* A reading is taken off the connector of its task.
LEMMA TaskReadsKeepsMeterInv ==
    ASSUME TypeOK, MeterInv, NEW t \in Task, TaskReads(t)
    PROVE  MeterInv'
<1> USE DEF MeterInv
<1>1. UNCHANGED <<vars, meter, bills, samples, triggered>>
  BY DEF TaskReads
<1>2. tasks[t].pc \in {"starting", "finishing"} /\ tasks[t].connector \in Connector
  BY BusyTask DEF TaskReads, TaskState
<1>3. /\ readings'[t] = [meter |-> meter[tasks[t].connector]]
      /\ \A u \in Task : u # t => readings'[u] = readings[u]
      /\ readings' \in [Task -> Reading \cup {None}]
  BY <1>2 DEF TaskReads, MeterTypeOK, Reading
<1>4. MeterTypeOK'
  BY <1>1, <1>3 DEF MeterTypeOK
<1>5. Underway' = Underway
  BY <1>1 DEF Underway
<1>6. HoldersAreBooked' /\ TasksAreBooked'
  BY <1>1 DEF HoldersAreBooked, TasksAreBooked, Booked, vars, connectorVars
<1>7. ReadingsFit'
  <2>1. meter[tasks[t].connector] <= meter[tasks[t].connector]
    BY <1>2 DEF MeterTypeOK
  <2>2. tasks[t].pc = "finishing" => bills[tasks[t].tx].start <= meter[tasks[t].connector]
    BY DEF TasksAreBooked, Booked
  <2> QED
    BY <1>1, <1>2, <1>3, <2>1, <2>2 DEF ReadingsFit, vars
<1>8. StopsFollowStart' /\ SamplesAreIssued' /\ SamplesBelongToTransaction'
  BY <1>1, <1>5 DEF StopsFollowStart, SamplesAreIssued, SamplesBelongToTransaction, vars
<1> QED
  BY <1>4, <1>6, <1>7, <1>8

\* The bill of a fresh transaction is nobody else's.
LEMMA StartBilledKeepsMeterInv ==
    ASSUME TypeOK, TransactionInv, 0 < FirstTransaction, MeterInv, NEW t \in Task, StartBilled(t)
    PROVE  MeterInv'
<1> USE DEF MeterInv
<1> DEFINE x == FirstTransaction + issued
           c == tasks[t].connector
           new == [connector |-> c, start |-> readings[t].meter, stops |-> {}]
<1>1. /\ UNCHANGED <<transactionID, meter, samples, triggered>>
      /\ issued' = issued + 1
      /\ tasks[t].pc = "starting" /\ readings[t] # None
  BY DEF StartBilled, CentralSystemStarts, connectorVars
<1>2. tasks[t] \in TaskState /\ c \in Connector
  BY <1>1, BusyTask DEF TaskState
<1>3. /\ tasks'[t].pc = "started" /\ tasks'[t].tx = x /\ tasks'[t].connector = c
      /\ \A u \in Task : u # t => tasks'[u] = tasks[u]
  BY <1>2 DEF StartBilled, CentralSystemStarts, TypeOK, TaskState
<1>4. x \in TransactionId /\ x \in Nat
  BY TransactionsAssumption DEF StartBilled, CentralSystemStarts, TypeOK, TransactionId
<1>5. readings[t].meter \in Nat /\ readings[t].meter <= meter[c]
  BY <1>1 DEF MeterTypeOK, ReadingsFit, Reading
<1>6. new \in Bill
  BY <1>2, <1>5 DEF Bill
<1>7. bills' = [bills EXCEPT ![x] = new]
  BY DEF StartBilled
<1>8. bills'[x] = new /\ \A y : y \in TransactionId /\ y # x => bills'[y] = bills[y]
  BY <1>4, <1>7 DEF MeterTypeOK
<1>9. /\ readings'[t] = None
      /\ \A u \in Task : u # t => readings'[u] = readings[u]
      /\ readings' \in [Task -> Reading \cup {None}]
  BY DEF StartBilled, Forget, MeterTypeOK
<1>10. MeterTypeOK'
  <2>1. bills' \in [TransactionId -> Bill]
    BY <1>6, <1>7 DEF MeterTypeOK
  <2> QED
    BY <1>1, <1>9, <2>1 DEF MeterTypeOK
<1>11. Underway' = Underway
  BY <1>1 DEF Underway
<1> HIDE DEF x, c, new
<1>12. HoldersAreBooked'
  <2>1. ASSUME NEW d \in Connector, transactionID[d] # 0
        PROVE  bills'[transactionID[d]] = bills[transactionID[d]]
    <3>1. transactionID[d] \in TransactionId /\ transactionID[d] < x
      BY <2>1 DEF TypeOK, TransactionInv, IssuedInOrder, x
    <3> QED
      BY <1>4, <1>8, <3>1 DEF TransactionId
  <2> QED
    BY <1>1, <2>1 DEF HoldersAreBooked, Booked
<1>13. \A u \in Task : tasks[u].pc \in {"started", "finishing"} =>
          bills'[tasks[u].tx] = bills[tasks[u].tx]
  <2> SUFFICES ASSUME NEW u \in Task, tasks[u].pc \in {"started", "finishing"}
               PROVE  bills'[tasks[u].tx] = bills[tasks[u].tx]
    OBVIOUS
  <2>1. FirstTransaction <= tasks[u].tx /\ tasks[u].tx < x
    BY DEF TransactionInv, IssuedInOrder, x
  <2>2. tasks[u].tx \in TransactionId
    BY BookedTask
  <2> QED
    BY <1>4, <1>8, <2>1, <2>2 DEF TransactionId
<1>14. TasksAreBooked'
  BY <1>1, <1>3, <1>5, <1>8, <1>13 DEF TasksAreBooked, Booked, new
<1>15. ReadingsFit'
  BY <1>1, <1>3, <1>9, <1>13 DEF ReadingsFit
<1>16. StopsFollowStart'
  BY <1>8 DEF StopsFollowStart, new
<1>17. SamplesAreIssued' /\ SamplesBelongToTransaction'
  <2> SUFFICES ASSUME NEW s \in Underway
               PROVE  /\ s.tx < FirstTransaction + issued'
                      /\ s.tx # 0 => /\ bills'[s.tx].connector = s.connector
                                     /\ bills'[s.tx].start <= s.meter
                                     /\ s.meter <= meter[s.connector]
    BY <1>1, <1>11 DEF SamplesAreIssued, SamplesBelongToTransaction
  <2>1. s.tx \in {0} \cup TransactionId /\ s.tx < x /\ s.tx \in Int
    BY UnderwayType, TransactionsAssumption DEF SamplesAreIssued, Samples, x, TransactionId
  <2>2. s.tx # 0 => bills'[s.tx] = bills[s.tx]
    BY <1>4, <1>8, <2>1
  <2>3. s.tx < FirstTransaction + issued'
    BY <1>1, <1>4, <2>1, TransactionsAssumption DEF TypeOK, x
  <2> QED
    BY <2>2, <2>3 DEF SamplesBelongToTransaction
<1> QED
  BY <1>10, <1>12, <1>14, <1>15, <1>16, <1>17

\* A stop adds the reading it was taken for, which is not below the start.
LEMMA StopBilledKeepsMeterInv ==
    ASSUME TypeOK, TransactionInv, 0 < FirstTransaction, MeterInv, NEW t \in Task, StopBilled(t)
    PROVE  MeterInv'
<1> USE DEF MeterInv
<1> DEFINE x == tasks[t].tx
<1>1. /\ StopConfirmed(t) \/ StopFailed(t)
      /\ UNCHANGED <<meter, samples, triggered>>
      /\ tasks[t].pc = "finishing" /\ readings[t] # None
  BY DEF StopBilled
<1>2. /\ End(t) /\ UNCHANGED issued
      /\ \A c \in Connector : transactionID'[c] # 0 => transactionID'[c] = transactionID[c]
  BY <1>1, StopKeepsHolders
<1>3. /\ tasks'[t].pc = "idle"
      /\ \A u \in Task : u # t => tasks'[u] = tasks[u]
  BY <1>2, EndedTask
<1>4. x \in TransactionId
  BY <1>1, BookedTask
<1>5. /\ readings[t].meter \in Nat /\ bills[x].start <= readings[t].meter
  BY <1>1 DEF MeterTypeOK, ReadingsFit, Reading
<1>6. bills' = [bills EXCEPT ![x].stops = @ \cup {readings[t].meter}]
  BY DEF StopBilled
<1>7. /\ readings'[t] = None
      /\ \A u \in Task : u # t => readings'[u] = readings[u]
      /\ readings' \in [Task -> Reading \cup {None}]
  BY DEF StopBilled, Forget, MeterTypeOK
<1> HIDE DEF x
<1>8. bills' \in [TransactionId -> Bill]
  BY <1>4, <1>5, <1>6 DEF MeterTypeOK, Bill
<1>9. \A y \in TransactionId : /\ bills'[y].connector = bills[y].connector
                               /\ bills'[y].start = bills[y].start
                               /\ bills'[y].stops \subseteq bills[y].stops \cup
                                     (IF y = x THEN {readings[t].meter} ELSE {})
  BY <1>4, <1>6 DEF MeterTypeOK, Bill
<1>10. MeterTypeOK'
  BY <1>1, <1>7, <1>8 DEF MeterTypeOK
<1>11. Underway' = Underway
  BY <1>1 DEF Underway
<1>12. HoldersAreBooked'
  <2>1. ASSUME NEW d \in Connector, transactionID'[d] # 0
        PROVE  transactionID'[d] \in TransactionId /\ Booked(transactionID'[d], d)
    BY <1>2, <2>1 DEF HoldersAreBooked, TypeOK
  <2> QED
    BY <1>1, <1>9, <2>1 DEF HoldersAreBooked, Booked
<1>13. ASSUME NEW u \in Task, tasks[u].pc \in {"started", "finishing"}
       PROVE  tasks[u].tx \in TransactionId
  BY <1>13, BookedTask
<1>14. TasksAreBooked'
  BY <1>1, <1>3, <1>9, <1>13 DEF TasksAreBooked, Booked
<1>15. ReadingsFit'
  BY <1>1, <1>3, <1>7, <1>9, <1>13 DEF ReadingsFit
<1>16. StopsFollowStart'
  BY <1>5, <1>9 DEF StopsFollowStart
<1>17. SamplesAreIssued' /\ SamplesBelongToTransaction'
  <2>1. \A s \in Underway : s.tx # 0 => s.tx \in TransactionId
    BY UnderwayType DEF Samples
  <2> QED
    BY <1>1, <1>2, <1>9, <1>11, <2>1 DEF SamplesAreIssued, SamplesBelongToTransaction
<1> QED
  BY <1>10, <1>12, <1>14, <1>15, <1>16, <1>17

-----------------------------------------------------------------------------
(* Samples.                                                                 *)

\* A sample of a connector, by meters that have not gone back.
LEMMA SampleFits ==
    ASSUME TypeOK, TransactionInv, MeterInv, NEW c \in Connector,
           NEW register \in [Connector -> Nat], \A d \in Connector : meter[d] <= register[d]
    PROVE  LET s == Sample(c, register)
           IN  /\ s \in Samples
               /\ s.tx < FirstTransaction + issued
               /\ s.tx # 0 => /\ bills[s.tx].connector = s.connector
                              /\ bills[s.tx].start <= s.meter
               /\ s.meter = register[s.connector]
<1>1. /\ transactionID[c] \in {0} \cup TransactionId
      /\ transactionID[c] < FirstTransaction + issued
  BY DEF TypeOK, TransactionInv, IssuedInOrder
<1>2. ASSUME transactionID[c] # 0
      PROVE  /\ bills[transactionID[c]].connector = c
             /\ bills[transactionID[c]].start <= register[c]
  <2>1. bills[transactionID[c]].start \in Nat /\ meter[c] \in Nat
    BY <1>1, <1>2 DEF MeterInv, MeterTypeOK, Bill
  <2>2. Booked(transactionID[c], c)
    BY <1>2 DEF MeterInv, HoldersAreBooked
  <2> QED
    BY <2>1, <2>2 DEF Booked
<1> QED
  BY <1>1, <1>2 DEF Sample, Samples

\* Meters that do not go back, and samples taken from them.
LEMMA SamplesKeepMeterInv ==
    ASSUME TypeOK, TransactionInv, 0 < FirstTransaction, MeterInv,
           UNCHANGED <<vars, readings, bills>>,
           meter' \in [Connector -> Nat], \A c \in Connector : meter[c] <= meter'[c],
           samples' \in Seq(Samples), triggered' \in Samples \cup {None},
           \A s \in Underway' : s \in Underway \/ \E c \in Connector : s = Sample(c, meter')
    PROVE  MeterInv'
<1> USE DEF MeterInv
<1>1. MeterTypeOK'
  BY DEF MeterTypeOK
<1>2. HoldersAreBooked' /\ TasksAreBooked'
  <2>1. ASSUME NEW x \in TransactionId, NEW c \in Connector, Booked(x, c)
        PROVE  Booked(x, c)'
    BY <2>1 DEF Booked, MeterTypeOK, Bill
  <2>2. \A c \in Connector : transactionID[c] # 0 => transactionID[c] \in TransactionId
    BY DEF TypeOK
  <2> QED
    BY <2>1, <2>2, BookedTask DEF HoldersAreBooked, TasksAreBooked, vars, connectorVars
<1>3. ReadingsFit'
  <2>1. ASSUME NEW t \in Task, readings[t] # None
        PROVE  readings[t].meter <= meter'[tasks[t].connector]
    <3>1. readings[t].meter \in Nat /\ tasks[t].connector \in Connector
      BY <2>1, BusyTask DEF ReadingsFit, MeterTypeOK, Reading, TaskState
    <3> QED
      BY <2>1, <3>1 DEF ReadingsFit, MeterTypeOK
  <2> QED
    BY <2>1 DEF ReadingsFit, vars
<1>4. StopsFollowStart'
  BY DEF StopsFollowStart
<1>5. \A s \in Underway' :
        /\ s.tx < FirstTransaction + issued
        /\ s.tx # 0 => /\ bills[s.tx].connector = s.connector
                       /\ bills[s.tx].start <= s.meter
                       /\ s.meter <= meter'[s.connector]
  <2>1. ASSUME NEW s \in Underway, s.tx # 0
        PROVE  s.meter <= meter'[s.connector]
    <3>1. s \in Samples
      BY UnderwayType
    <3>2. s.connector \in Connector /\ s.meter \in Nat
      BY <3>1 DEF Samples
    <3>3. s.meter <= meter[s.connector]
      BY <2>1 DEF SamplesBelongToTransaction
    <3>4. meter[s.connector] \in Nat /\ meter'[s.connector] \in Nat
      BY <3>2 DEF MeterTypeOK
    <3> QED
      BY <3>2, <3>3, <3>4
  <2>2. ASSUME NEW c \in Connector
        PROVE  Sample(c, meter').meter <= meter'[Sample(c, meter').connector]
    BY <2>2 DEF Sample
  <2>3. ASSUME NEW s \in Underway'
        PROVE  s \in Underway \/ \E c \in Connector : s = Sample(c, meter')
    BY <2>3
  <2> QED
    BY <2>1, <2>2, <2>3, SampleFits DEF SamplesAreIssued, SamplesBelongToTransaction
<1>6. SamplesAreIssued' /\ SamplesBelongToTransaction'
  BY <1>5 DEF SamplesAreIssued, SamplesBelongToTransaction, vars
<1> QED
  BY <1>1, <1>2, <1>3, <1>4, <1>6

LEMMA MeterTickKeepsMeterInv ==
    ASSUME TypeOK, TransactionInv, 0 < FirstTransaction, MeterInv, MeterTick
    PROVE  MeterInv'
<1>1. /\ UNCHANGED <<vars, readings, bills, triggered>>
      /\ meter' \in [Connector -> Nat] /\ \A c \in Connector : meter[c] <= meter'[c]
      /\ samples' = [c \in Connector |-> Sample(c, meter')]
  BY MeterAssumption DEF MeterTick, MeterInv, MeterTypeOK
<1>2. samples' \in Seq(Samples)
  <2>1. samples' \in [1 .. NumConnectors -> Samples]
    BY <1>1, SampleFits DEF Connector
  <2> QED
    BY <2>1, NumConnectorsAssumption
<1>3. DOMAIN samples' = Connector /\ \A c \in Connector : samples'[c] = Sample(c, meter')
  BY <1>1
<1>4. \A s \in Underway' : s \in Underway \/ \E c \in Connector : s = Sample(c, meter')
  BY <1>1, <1>3 DEF Underway
<1> QED
  BY <1>1, <1>2, <1>4, SamplesKeepMeterInv DEF MeterInv, MeterTypeOK

LEMMA SampleReceivedKeepsMeterInv ==
    ASSUME TypeOK, TransactionInv, 0 < FirstTransaction, MeterInv, SampleReceived
    PROVE  MeterInv'
<1>1. /\ UNCHANGED <<vars, meter, readings, bills, triggered>>
      /\ samples \in Seq(Samples) /\ samples # <<>> /\ samples' = Tail(samples)
  BY DEF SampleReceived, MeterInv, MeterTypeOK
<1>2. /\ samples' \in Seq(Samples) /\ Len(samples') = Len(samples) - 1
      /\ \A i \in 1 .. Len(samples') : samples'[i] = samples[i + 1]
  BY <1>1, HeadTailProperties
<1>3. ASSUME NEW i \in DOMAIN samples' PROVE samples'[i] \in Underway
  <2>1. i \in 1 .. Len(samples') /\ i + 1 \in DOMAIN samples
    BY <1>1, <1>2, <1>3, LenProperties
  <2> QED
    BY <1>2, <2>1 DEF Underway
<1>4. \A s \in Underway' : s \in Underway
  BY <1>1, <1>3 DEF Underway
<1>5. meter' \in [Connector -> Nat] /\ \A c \in Connector : meter[c] <= meter'[c]
  BY <1>1 DEF MeterInv, MeterTypeOK
<1> QED
  BY <1>1, <1>2, <1>4, <1>5, SamplesKeepMeterInv DEF MeterInv, MeterTypeOK

LEMMA TriggerKeepsMeterInv ==
    ASSUME TypeOK, TransactionInv, 0 < FirstTransaction, MeterInv,
           TriggerSent \/ \E c \in Connector : TriggerReads(c)
    PROVE  MeterInv'
<1>1. UNCHANGED <<vars, meter, readings, bills, samples>>
  BY DEF TriggerSent, TriggerReads
<1>2. meter' \in [Connector -> Nat] /\ \A c \in Connector : meter[c] <= meter'[c]
  BY <1>1 DEF MeterInv, MeterTypeOK
<1>3. triggered' = None \/ \E c \in Connector : triggered' = Sample(c, meter')
  BY <1>1 DEF TriggerSent, TriggerReads
<1>4. triggered' \in Samples \cup {None}
  BY <1>2, <1>3, SampleFits
<1>5. \A s \in Underway' : s \in Underway \/ \E c \in Connector : s = Sample(c, meter')
  BY <1>1, <1>3 DEF Underway
<1> QED
  BY <1>1, <1>2, <1>4, <1>5, SamplesKeepMeterInv DEF MeterInv, MeterTypeOK

\* The clock, and a step of nobody, leave everything it is about alone.
LEMMA QuietKeepsMeterInv ==
    ASSUME TypeOK, TransactionInv, MeterInv,
           UNCHANGED <<transactionID, tasks, issued, meterVars>>
    PROVE  MeterInv'
<1>1. UNCHANGED <<meter, bills, samples, triggered, readings>>
  BY DEF meterVars
<1> QED
  BY <1>1, UnbilledKeepsMeterInv DEF MeterInv, MeterTypeOK, HoldersAreBooked, TasksAreBooked

-----------------------------------------------------------------------------
(* The theorems.                                                            *)

LEMMA MeterNextKeepsMeterInv ==
    ASSUME TypeOK, TransactionInv, 0 < FirstTransaction, MeterInv, [MeterNext]_meteringVars
    PROVE  MeterInv'
<1>1. ASSUME NEW t \in Task, MeteredTask(t) PROVE MeterInv'
  BY <1>1, StartGoesOnKeepsMeterInv, TaskReadsKeepsMeterInv, StartBilledKeepsMeterInv,
     StartEndsKeepsMeterInv, StopBilledKeepsMeterInv, StopUnbilledKeepsMeterInv DEF MeteredTask
<1>2. ASSUME NEW r \in ReservationId, Lapse(r) \/ Sweep(r), UNCHANGED meterVars PROVE MeterInv'
  <2>1. UNCHANGED <<transactionID, tasks, issued>>
    BY <1>2 DEF Lapse, Sweep, ExpireReservations, Drop, connectorVars
  <2> QED
    BY <1>2, <2>1, QuietKeepsMeterInv
<1>3. CASE UNCHANGED meteringVars
  BY <1>3, QuietKeepsMeterInv DEF meteringVars, vars, connectorVars
<1> QED
  BY <1>1, <1>2, <1>3, MeteredRequestKeepsMeterInv, MeterTickKeepsMeterInv,
     SampleReceivedKeepsMeterInv, TriggerKeepsMeterInv DEF MeterNext

LEMMA MeterInvHolds ==
    ASSUME 0 < FirstTransaction
    PROVE  MeterSpec => []MeterInv
<1>1. TypeOK /\ TransactionInv /\ MeterInv /\ [MeterNext]_meteringVars => MeterInv'
  BY MeterNextKeepsMeterInv
<1>2. Spec => []TransactionInv
  BY TransactionsAgree
<1>3. MeterInit => MeterInv
  BY MeterInvInit
<1> QED
  BY <1>1, <1>2, <1>3, TypeCorrect, MeteringImplementsStation, PTL DEF MeterSpec

\* No transaction is stopped below the reading it was started with, whatever
\* resets, late replies and other starts come between the two readings.
THEOREM NoNegativeConsumption ==
    ASSUME 0 < FirstTransaction
    PROVE  MeterSpec => []StopsFollowStart
<1>1. MeterInv => StopsFollowStart
  BY DEF MeterInv
<1> QED
  BY <1>1, MeterInvHolds, PTL

\* A sample that names a transaction was taken on its connector, after its start.
THEOREM SamplesAreBilled ==
    ASSUME 0 < FirstTransaction
    PROVE  MeterSpec => []SamplesBelongToTransaction
<1>1. MeterInv => SamplesBelongToTransaction
  BY DEF MeterInv
<1> QED
  BY <1>1, MeterInvHolds, PTL
=============================================================================
