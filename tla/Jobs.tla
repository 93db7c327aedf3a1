---------------------------------- MODULE Jobs ----------------------------------
(***************************************************************************)
(* The simulated uploads and updates of the charge point: GetDiagnostics,  *)
(* UpdateFirmware, GetLog and SignedUpdateFirmware.  Each accepted request  *)
(* leaves a goroutine behind that climbs a ladder of statuses, records     *)
(* every one in the simulator's state and reports it to the central        *)
(* system.  Log and signed firmware jobs carry a request id, by which a    *)
(* newer job silences an older one.  TriggerMessage and ExtendedTrigger-   *)
(* Message start goroutines that report the recorded status again, by      *)
(* recording it again.                                                     *)
(*                                                                         *)
(* A goroutine records a status under the mutex and sends it afterwards,   *)
(* so reports of two goroutines may arrive in either order.  Delays are    *)
(* abstracted: a goroutine that waits may go on at any time.  The end of   *)
(* the run is left to RunSession.                                          *)
(* Definitions marked "faulty variant" are no part of the specification.   *)
(***************************************************************************)
EXTENDS Integers, Sequences, FiniteSets

CONSTANTS
    Kind,        \* bound: the jobs looked at
    RequestId,   \* request ids of GetLog and SignedUpdateFirmware
    Worker,      \* bound: goroutines at a time
    MaxRequests, \* bound: requests for jobs, of all kinds
    MaxTriggers, \* bound: triggers
    Repeats      \* bound: whether a request id may come twice

Ladder ==
    [diagnostics |-> <<"Uploading", "Uploaded">>,
     firmware |-> <<"Downloading", "Downloaded", "Installing", "Installed">>,
     log |-> <<"Uploading", "Uploaded">>,
     signed |-> <<"Downloading", "Downloaded", "SignatureVerified", "Installing", "Installed">>]

Guarded == Kind \cap {"log", "signed"}
Triggerable == Kind \cap {"diagnostics", "firmware", "log"}

ASSUME KindAssumption == Kind \subseteq DOMAIN Ladder
ASSUME RequestIdAssumption == RequestId \subseteq Nat
ASSUME BoundsAssumption == MaxRequests \in Nat /\ MaxTriggers \in Nat /\ Repeats \in BOOLEAN

VARIABLES
    status,   \* diagnosticsStatus, firmwareStatus, logStatus, signedFirmwareStatus
    active,   \* activeLogRequestID, signedFirmwareRequestID
    workers,  \* the goroutines
    asked,    \* the request ids seen, in order
    answer,   \* the last answer to a GetLog or SignedUpdateFirmware
    triggers, \* triggers so far
    failed    \* the kinds of which a report failed

vars == <<status, active, workers, asked, answer, triggers, failed>>

Rungs(k) == 1 .. Len(Ladder[k])
Statuses(k) == {Ladder[k][i] : i \in Rungs(k)}
Final(k) == Ladder[k][Len(Ladder[k])]

\* What may be recorded, a signed update that waits for its date included.
Recordable(k) == Statuses(k) \cup {"Idle"} \cup (IF k = "signed" THEN {"DownloadScheduled"} ELSE {})

\* Reports of jobs without a request id are booked under 0.
Ids == RequestId \cup {0}
Idle == [pc |-> "idle"]

\* A job is at step 1, 2, ... of its ladder, a trigger at step 0.
WorkerState(k) ==
    [pc : {"timer", "ready", "read", "calling", "received"}, kind : {k}, id : Ids,
     step : {0} \cup Rungs(k), status : Recordable(k)]

TypeOK ==
    /\ status \in [Kind -> UNION {Recordable(k) : k \in Kind}]
    /\ \A k \in Kind : status[k] \in Recordable(k)
    /\ active \in [Guarded -> Ids]
    /\ workers \in [Worker -> {Idle} \cup UNION {WorkerState(k) : k \in Kind}]
    /\ asked \in [Kind -> Seq(Ids)] /\ \A k \in Kind : Len(asked[k]) <= MaxRequests
    /\ answer \in [Guarded -> {"none", "Accepted", "AcceptedCanceled"}]
    /\ triggers \in 0 .. MaxTriggers
    /\ failed \subseteq Kind

Init ==
    /\ status = [k \in Kind |-> "Idle"]
    /\ active = [k \in Guarded |-> 0]
    /\ workers = [w \in Worker |-> Idle]
    /\ asked = [k \in Kind |-> <<>>]
    /\ answer = [k \in Guarded |-> "none"]
    /\ triggers = 0
    /\ failed = {}

-----------------------------------------------------------------------------
(* Requests.                                                                *)

Spawn(worker) ==
    \E w \in Worker : workers[w] = Idle /\ workers' = [workers EXCEPT ![w] = worker]

Job(k, id) == [pc |-> "ready", kind |-> k, id |-> id, step |-> 1, status |-> Ladder[k][1]]

Asked == {a \in Kind \X (1 .. MaxRequests) : a[2] <= Len(asked[a[1]])}

\* The request is one the bounds allow.
Ask(k, id) ==
    /\ Cardinality(Asked) < MaxRequests
    /\ Repeats \/ \A i \in 1 .. Len(asked[k]) : asked[k][i] # id \/ k \notin Guarded
    /\ asked' = [asked EXCEPT ![k] = Append(@, id)]

\* OnGetDiagnostics and OnUpdateFirmware
GetDiagnostics ==
    /\ "diagnostics" \in Kind
    /\ Ask("diagnostics", 0)
    /\ Spawn(Job("diagnostics", 0))
    /\ UNCHANGED <<status, active, answer, triggers, failed>>

UpdateFirmware ==
    /\ "firmware" \in Kind
    /\ Ask("firmware", 0)
    /\ Spawn(Job("firmware", 0))
    /\ UNCHANGED <<status, active, answer, triggers, failed>>

\* Faulty variant: the recorded status is left as it was.
TakeOverKeepingStatus(k, id, busy, scheduled) ==
    /\ k \in Kind
    /\ Ask(k, id)
    /\ answer' = [answer EXCEPT ![k] =
                    IF busy /\ active[k] # id THEN "AcceptedCanceled" ELSE "Accepted"]
    /\ active' = [active EXCEPT ![k] = id]
    /\ Spawn(Job(k, id))
    /\ UNCHANGED <<status, triggers, failed>>
\* The shared part of OnGetLog and OnSignedUpdateFirmware: the newer request
\* takes over, at once and in one critical section.
TakeOver(k, id, busy, scheduled) ==
    /\ k \in Kind
    /\ Ask(k, id)
    /\ answer' = [answer EXCEPT ![k] =
                    IF busy /\ active[k] # id THEN "AcceptedCanceled" ELSE "Accepted"]
    /\ active' = [active EXCEPT ![k] = id]
    /\ status' = [status EXCEPT ![k] = scheduled]
    /\ Spawn(Job(k, id))
    /\ UNCHANGED <<triggers, failed>>

\* OnGetLog
GetLog(id) == TakeOver("log", id, status["log"] = "Uploading", "Uploading")

\* Faulty variant: the verified update is no longer taken for active.
ActiveUntilVerified(s) == s \in {"DownloadScheduled", "Downloading", "Downloaded", "Installing"}
\* signedFirmwareActive
SignedFirmwareActive(s) ==
    s \in {"DownloadScheduled", "Downloading", "Downloaded", "SignatureVerified", "Installing"}

\* OnSignedUpdateFirmware with location, date, certificate and signature.
SignedUpdateFirmware(id) ==
    TakeOver("signed", id, SignedFirmwareActive(status["signed"]), "DownloadScheduled")

\* OnTriggerMessage and OnExtendedTriggerMessage: a timer is started.
Trigger(k) ==
    /\ k \in Triggerable
    /\ triggers < MaxTriggers
    /\ triggers' = triggers + 1
    /\ Spawn([pc |-> "timer", kind |-> k, id |-> 0, step |-> 0, status |-> "Idle"])
    /\ UNCHANGED <<status, active, asked, answer, failed>>

-----------------------------------------------------------------------------
(* The goroutines.                                                          *)

\* Faulty variant: the last step is left out.
OnwardsToLastButOne(w) ==
    LET worker == workers[w]
    IN  IF worker.step \in 1 .. (Len(Ladder[worker.kind]) - 2)
        THEN [worker EXCEPT !.pc = "ready", !.step = @ + 1,
                            !.status = Ladder[worker.kind][worker.step + 1]]
        ELSE Idle
\* The worker w after its report: the next step, or the end.
Onwards(w) ==
    LET worker == workers[w]
    IN  IF worker.step \in 1 .. (Len(Ladder[worker.kind]) - 1)
        THEN [worker EXCEPT !.pc = "ready", !.step = @ + 1,
                            !.status = Ladder[worker.kind][worker.step + 1]]
        ELSE Idle

\* executeTrigger and executeExtendedTrigger read what is recorded.
Reading(k) == [pc |-> "read", kind |-> k, id |-> IF k \in Guarded THEN active[k] ELSE 0,
               step |-> 0, status |-> status[k]]

TriggerReads(w) ==
    LET k == workers[w].kind
    IN  /\ workers[w].pc = "timer"
        /\ workers' = [workers EXCEPT ![w] = Reading(k)]
        /\ UNCHANGED <<status, active, asked, answer, triggers, failed>>

\* Faulty variant: a newer request does not silence the worker.
SilencedNever(w) == FALSE
\* sendLogStatus and sendSignedFirmwareStatus: a newer request has taken over.
Silenced(w) ==
    /\ workers[w].kind \in Guarded
    /\ active[workers[w].kind] \notin {0, workers[w].id}

\* The critical section of the send...Status operations; the report follows.
Record(w) ==
    LET k == workers[w].kind
    IN  /\ workers[w].pc \in {"ready", "read"}
        /\ ~Silenced(w)
        /\ status' = [status EXCEPT ![k] = workers[w].status]
        /\ active' = [j \in Guarded |-> IF j = k THEN workers[w].id ELSE active[j]]
        /\ workers' = [workers EXCEPT ![w].pc = "calling"]
        /\ UNCHANGED <<asked, answer, triggers, failed>>

\* A silenced worker reports nothing and takes that for success.
Skip(w) ==
    /\ workers[w].pc \in {"ready", "read"}
    /\ Silenced(w)
    /\ workers' = [workers EXCEPT ![w] = Onwards(w)]
    /\ UNCHANGED <<status, active, asked, answer, triggers, failed>>

\* The central system receives the report.
Receive(w) ==
    LET worker == workers[w]
    IN  /\ worker.pc = "calling"
        /\ workers' = [workers EXCEPT ![w].pc = "received"]
        /\ UNCHANGED <<status, active, asked, answer, triggers, failed>>

\* Its reply arrives.
Replied(w) ==
    /\ workers[w].pc = "received"
    /\ workers' = [workers EXCEPT ![w] = Onwards(w)]
    /\ UNCHANGED <<status, active, asked, answer, triggers, failed>>

\* The report or its reply is lost, refused or times out: the goroutine ends,
\* and what it recorded stays.
CallFailed(w) ==
    /\ workers[w].pc \in {"calling", "received"}
    /\ workers' = [workers EXCEPT ![w] = Idle]
    /\ failed' = failed \cup {workers[w].kind}
    /\ UNCHANGED <<status, active, asked, answer, triggers>>

\* sendLogStatus and sendSignedFirmwareStatus while the connection is down: the
\* status is recorded and nobody is told.
RecordOffline(w) ==
    LET k == workers[w].kind
    IN  /\ workers[w].pc \in {"ready", "read"}
        /\ k \in Guarded
        /\ ~Silenced(w)
        /\ status' = [status EXCEPT ![k] = workers[w].status]
        /\ active' = [active EXCEPT ![k] = workers[w].id]
        /\ workers' = [workers EXCEPT ![w] = Onwards(w)]
        /\ failed' = failed \cup {k}
        /\ UNCHANGED <<asked, answer, triggers>>

-----------------------------------------------------------------------------
Request ==
    \/ GetDiagnostics \/ UpdateFirmware
    \/ \E id \in RequestId : GetLog(id) \/ SignedUpdateFirmware(id)
    \/ \E k \in Kind : Trigger(k)

WorkerStep(w) ==
    \/ TriggerReads(w) \/ Record(w) \/ RecordOffline(w) \/ Skip(w)
    \/ Receive(w) \/ Replied(w) \/ CallFailed(w)

Next == Request \/ \E w \in Worker : WorkerStep(w)

Spec == Init /\ [][Next]_vars

\* Timers fire, and a call ends with a reply, an error or the library's timeout.
Fairness == \A w \in Worker : WF_vars(WorkerStep(w))
FairSpec == Spec /\ Fairness

-----------------------------------------------------------------------------
(* Safety.                                                                  *)

Newest(k) == asked[k][Len(asked[k])]
JobsOf(k) == {w \in Worker : workers[w] # Idle /\ workers[w].kind = k /\ workers[w].step > 0}

\* The newest request is the active one: neither a job it has silenced nor a
\* trigger that read the state before can bring an older one back.
NewestIsActive == \A k \in Guarded : asked[k] # <<>> => active[k] = Newest(k)

\* What is recorded is where the newest job is, although older jobs go on
\* climbing their ladders.  A trigger that reports the recorded status may set it
\* back, so logs are held to this until the first one.
StatusFollowsJob ==
    \A k \in {j \in Guarded : triggers = 0 \/ j \notin Triggerable} : \A w \in JobsOf(k) : workers[w].id = Newest(k) =>
        status[k] = IF workers[w].pc # "ready" THEN Ladder[k][workers[w].step]
                    ELSE IF workers[w].step > 1 THEN Ladder[k][workers[w].step - 1]
                    ELSE IF k = "log" THEN "Uploading" ELSE "DownloadScheduled"

\* A request that cuts another job short says so: it is answered Accepted only
\* if no other job still had something to record.
CancellationIsAnnounced ==
    [][\A k \in Guarded : Len(asked'[k]) > Len(asked[k]) /\ answer'[k] = "Accepted" =>
        \A w \in JobsOf(k) :
            \/ workers[w].id # active[k]
            \/ workers[w].id = active'[k]
            \/ workers[w].step = Len(Ladder[k]) /\ workers[w].pc # "ready"]_vars

-----------------------------------------------------------------------------
(* Liveness, under Fairness.                                                *)

\* A job is seen through to its last report, unless a report fails or a newer
\* request takes over; triggers in between do not stop it.
JobsAreSeenThrough ==
    \A w \in Worker :
        (workers[w].pc = "ready" /\ workers[w].step = 1)
            ~> \/ workers[w].pc = "received" /\ workers[w].status = Final(workers[w].kind)
               \/ failed # {}
               \/ workers[w] # Idle /\ Silenced(w)
=============================================================================
