------------------------------- MODULE JobsProofs -------------------------------
(* Proofs about Jobs: the newest request stays the active one, what is         *)
(* recorded follows its job, and a request that cuts a job short says so.      *)
EXTENDS Jobs, SequenceTheorems, FiniteSetTheorems, TLAPS

-----------------------------------------------------------------------------
(* The ladders.                                                             *)

LEMMA Ladders ==
    ASSUME NEW k \in Kind
    PROVE  /\ Len(Ladder[k]) \in Nat \ {0, 1}
           /\ Rungs(k) = 1 .. Len(Ladder[k])
           /\ \A i \in Rungs(k) : Ladder[k][i] \in Recordable(k)
           /\ "Idle" \in Recordable(k)
<1>1. k \in {"diagnostics", "firmware", "log", "signed"}
  BY KindAssumption DEF Ladder
<1>2. Len(Ladder[k]) \in Nat \ {0, 1}
  BY <1>1 DEF Ladder
<1>3. \A i \in Rungs(k) : Ladder[k][i] \in Statuses(k)
  BY DEF Statuses
<1> QED
  BY <1>2, <1>3 DEF Rungs, Recordable

\* Whether a request finds the job of its kind still busy.
Busy(k, s) == IF k = "log" THEN s = "Uploading" ELSE SignedFirmwareActive(s)

\* What a request records by itself.
Scheduled(k) == IF k = "log" THEN "Uploading" ELSE "DownloadScheduled"

\* A status below the last one of a ladder is one a newer request cuts short.
LEMMA LowerRungsAreBusy ==
    ASSUME NEW k \in Guarded
    PROVE  /\ \A i \in Rungs(k) : i < Len(Ladder[k]) => Busy(k, Ladder[k][i])
           /\ Busy(k, Scheduled(k))
           /\ Scheduled(k) \in Recordable(k)
<1>1. CASE k = "log"
  BY <1>1 DEF Ladder, Rungs, Busy, Scheduled, Recordable, Statuses
<1>2. CASE k = "signed"
  <2>1. Ladder[k] = <<"Downloading", "Downloaded", "SignatureVerified", "Installing", "Installed">>
    BY <1>2 DEF Ladder
  <2>2. \A i \in Rungs(k) : i < Len(Ladder[k]) => i \in 1 .. 4
    BY <2>1 DEF Rungs
  <2> QED
    BY <1>2, <2>1, <2>2 DEF Busy, Scheduled, Recordable, SignedFirmwareActive
<1> QED
  BY <1>1, <1>2 DEF Guarded

\* A worker after its report is gone or one step further.
LEMMA OnwardsClimbs ==
    ASSUME NEW w \in Worker, NEW k \in Kind, workers[w] \in WorkerState(k)
    PROVE  \/ Onwards(w) = Idle
           \/ /\ Onwards(w) \in WorkerState(k)
              /\ Onwards(w).pc = "ready"
              /\ Onwards(w).kind = k
              /\ Onwards(w).id = workers[w].id
              /\ workers[w].step \in Rungs(k)
              /\ workers[w].step < Len(Ladder[k])
              /\ Onwards(w).step = workers[w].step + 1
              /\ Onwards(w).status = Ladder[k][workers[w].step + 1]
<1> DEFINE W == workers[w]
<1>1. /\ W.kind = k /\ W.step \in {0} \cup Rungs(k) /\ W.id \in Ids
      /\ W = [pc |-> W.pc, kind |-> W.kind, id |-> W.id, step |-> W.step, status |-> W.status]
  BY DEF WorkerState
<1>2. CASE W.step \in 1 .. (Len(Ladder[k]) - 1)
  <2>1. Onwards(w) = [W EXCEPT !.pc = "ready", !.step = @ + 1, !.status = Ladder[k][W.step + 1]]
    BY <1>1, <1>2 DEF Onwards
  <2>2. Onwards(w) = [pc |-> "ready", kind |-> k, id |-> W.id, step |-> W.step + 1,
                      status |-> Ladder[k][W.step + 1]]
    BY <1>1, <2>1
  <2>3. /\ W.step \in Rungs(k) /\ W.step < Len(Ladder[k]) /\ W.step + 1 \in Rungs(k)
    BY <1>2, Ladders
  <2>4. Onwards(w) \in WorkerState(k)
    BY <1>1, <2>2, <2>3, Ladders DEF WorkerState
  <2> QED
    BY <2>2, <2>3, <2>4
<1>3. CASE ~(W.step \in 1 .. (Len(Ladder[k]) - 1))
  BY <1>1, <1>3 DEF Onwards
<1> QED
  BY <1>2, <1>3
-----------------------------------------------------------------------------
(* The inductive invariant.                                                 *)

Seen(k) == {asked[k][i] : i \in 1 .. Len(asked[k])}

\* Requests with an id are asked by their id, and what is active was asked for.
AskedById ==
    \A k \in Guarded : asked[k] \in Seq(RequestId) /\ active[k] \in Seen(k) \cup {0}

\* A worker that reports the step of a job, or what a trigger has read.
Purposeful(w) ==
    LET worker == workers[w]
    IN  /\ worker.pc = "ready" => worker.step > 0
        /\ worker.pc \in {"timer", "read"} => worker.step = 0
        /\ worker.step > 0 => worker.status = Ladder[worker.kind][worker.step]
        /\ worker.step = 0 => triggers > 0 /\ worker.kind \in Triggerable
        /\ worker.kind \in Guarded =>
              worker.id \in Seen(worker.kind) \cup (IF worker.step = 0 THEN {0} ELSE {})

WorkersHavePurpose == \A w \in Worker : workers[w] # Idle => Purposeful(w)

JobInv == TypeOK /\ AskedById /\ NewestIsActive /\ WorkersHavePurpose

\* Where request ids are not used again, a request has one job.
JobsAreDistinct ==
    \A k \in Guarded : \A v, w \in JobsOf(k) : workers[v].id = workers[w].id => v = w

Unfinished(w) == workers[w].pc = "ready" \/ workers[w].step < Len(Ladder[workers[w].kind])

\* A job with something left to record keeps the recorded status busy, and so
\* does any trigger about to record it again.
UnfinishedIsBusy ==
    \A k \in Guarded : \A w \in JobsOf(k) : workers[w].id = Newest(k) /\ Unfinished(w) =>
        /\ Busy(k, status[k])
        /\ \A v \in Worker :
              workers[v] # Idle /\ workers[v].kind = k /\ workers[v].pc = "read" /\ workers[v].id = Newest(k) =>
                  Busy(k, workers[v].status)

FollowInv == JobsAreDistinct /\ StatusFollowsJob /\ UnfinishedIsBusy

-----------------------------------------------------------------------------
(* Types.                                                                   *)

WorkerStates == {Idle} \cup UNION {WorkerState(k) : k \in Kind}

\* Every worker that is not idle is one of a kind.
LEMMA WorkerIsOfAKind ==
    ASSUME NEW W \in WorkerStates, W.pc # "idle"
    PROVE  /\ W.kind \in Kind /\ W \in WorkerState(W.kind)
           /\ W # Idle
<1>1. W # Idle
  BY DEF Idle
<1>2. PICK k \in Kind : W \in WorkerState(k)
  BY <1>1 DEF WorkerStates
<1> QED
  BY <1>1, <1>2 DEF WorkerState

LEMMA StatesOfAKind ==
    ASSUME NEW k \in Kind, NEW W \in WorkerState(k)
    PROVE  /\ W \in WorkerStates /\ W # Idle /\ W.kind = k
           /\ W.pc \in {"timer", "ready", "read", "calling", "received"}
           /\ W.id \in Ids /\ W.step \in {0} \cup Rungs(k) /\ W.status \in Recordable(k)
BY DEF WorkerStates, WorkerState, Idle

\* A step of one worker.
LEMMA OneWorkerMoves ==
    ASSUME TypeOK, NEW w \in Worker, NEW W \in WorkerStates,
           workers' = [workers EXCEPT ![w] = W]
    PROVE  /\ workers' \in [Worker -> WorkerStates]
           /\ workers'[w] = W
           /\ \A v \in Worker \ {w} : workers'[v] = workers[v]
BY DEF TypeOK, WorkerStates

\* A status of its kind is recorded.
LEMMA RecordingIsTyped ==
    ASSUME TypeOK, NEW k \in Kind, NEW s \in Recordable(k), status' = [status EXCEPT ![k] = s]
    PROVE  /\ status' \in [Kind -> UNION {Recordable(j) : j \in Kind}]
           /\ \A j \in Kind : status'[j] \in Recordable(j)
BY DEF TypeOK

\* A request is appended to those of its kind.
LEMMA AskAppends ==
    ASSUME TypeOK, NEW k \in Kind, NEW id \in Ids, Ask(k, id)
    PROVE  /\ asked' \in [Kind -> Seq(Ids)]
           /\ asked'[k] = Append(asked[k], id)
           /\ Len(asked'[k]) = Len(asked[k]) + 1
           /\ \A i \in 1 .. Len(asked[k]) : asked'[k][i] = asked[k][i]
           /\ asked'[k][Len(asked[k]) + 1] = id
           /\ \A j \in Kind \ {k} : asked'[j] = asked[j]
           /\ \A j \in Kind : Len(asked'[j]) <= MaxRequests
<1>1. asked \in [Kind -> Seq(Ids)] /\ asked[k] \in Seq(Ids) /\ Len(asked[k]) \in Nat
  BY LenProperties DEF TypeOK
<1>2. /\ Append(asked[k], id) \in Seq(Ids)
      /\ Len(Append(asked[k], id)) = Len(asked[k]) + 1
      /\ \A i \in 1 .. Len(asked[k]) : Append(asked[k], id)[i] = asked[k][i]
      /\ Append(asked[k], id)[Len(asked[k]) + 1] = id
  BY <1>1, AppendProperties
<1>3. asked' = [asked EXCEPT ![k] = Append(asked[k], id)]
  BY DEF Ask
<1>4. Len(asked[k]) < MaxRequests
  <2>1. IsFiniteSet(Asked)
    <3>1. IsFiniteSet(Kind)
      <4>1. DOMAIN Ladder = {"diagnostics", "firmware", "log", "signed"}
        BY DEF Ladder
      <4>2. IsFiniteSet({"diagnostics"} \cup {"firmware"} \cup {"log"} \cup {"signed"})
        BY FS_Singleton, FS_Union
      <4>3. Kind \subseteq {"diagnostics"} \cup {"firmware"} \cup {"log"} \cup {"signed"}
        BY <4>1, KindAssumption
      <4> QED
        BY <4>2, <4>3, FS_Subset
    <3>2. IsFiniteSet(1 .. MaxRequests)
      BY FS_Interval, BoundsAssumption
    <3>3. IsFiniteSet(Kind \X (1 .. MaxRequests))
      BY <3>1, <3>2, FS_Product
    <3> QED
      BY <3>3, FS_Subset DEF Asked
  <2>2. DEFINE f == [i \in 1 .. Len(asked[k]) |-> <<k, i>>]
  <2>3. f \in Injection(1 .. Len(asked[k]), Asked)
    <3>1. \A i \in 1 .. Len(asked[k]) : <<k, i>> \in Asked
      BY <1>1, BoundsAssumption DEF TypeOK, Asked
    <3> QED
      BY <3>1 DEF Injection, IsInjective
  <2>4. Cardinality(1 .. Len(asked[k])) <= Cardinality(Asked)
    BY <2>1, <2>3, FS_Injection
  <2>5. Cardinality(1 .. Len(asked[k])) = Len(asked[k])
    BY <1>1, FS_Interval
  <2>6. Cardinality(Asked) \in Nat /\ Cardinality(Asked) < MaxRequests
    BY <2>1, FS_CardinalityType DEF Ask
  <2> QED
    BY <1>1, <2>4, <2>5, <2>6, BoundsAssumption
<1>5. Len(asked[k]) + 1 <= MaxRequests
  BY <1>1, <1>4, BoundsAssumption
<1> QED
  BY <1>1, <1>2, <1>3, <1>5 DEF TypeOK

LEMMA TypeOKInit == Init => TypeOK
<1> SUFFICES ASSUME Init PROVE TypeOK
  OBVIOUS
<1>1. \A k \in Kind : "Idle" \in Recordable(k)
  BY Ladders
<1>2. \A k \in Kind : <<>> \in Seq(Ids) /\ Len(<<>>) = 0
  BY EmptySeq
<1> QED
  BY <1>1, <1>2, BoundsAssumption DEF Init, TypeOK, Ids, Guarded

\* The first step of a job, as a request leaves it behind.
LEMMA JobIsAWorker ==
    ASSUME NEW k \in Kind, NEW id \in Ids
    PROVE  /\ Job(k, id) \in WorkerState(k)
           /\ Job(k, id).pc = "ready" /\ Job(k, id).id = id /\ Job(k, id).step = 1
           /\ Job(k, id).status = Ladder[k][1]
BY Ladders DEF Job, WorkerState

\* A request for a job of kind k: what is asked grows by one, and one idle worker
\* takes the job.
Requested(k, id, w) ==
    /\ workers[w] = Idle
    /\ Ask(k, id)
    /\ workers' = [workers EXCEPT ![w] = Job(k, id)]
    /\ UNCHANGED <<triggers, failed>>

LEMMA RequestsAreTyped ==
    ASSUME TypeOK, Request
    PROVE  TypeOK'
<1>1. ASSUME NEW k \in Kind, NEW id \in Ids, NEW w \in Worker, Requested(k, id, w)
      PROVE  /\ workers' \in [Worker -> WorkerStates]
             /\ asked' \in [Kind -> Seq(Ids)] /\ \A j \in Kind : Len(asked'[j]) <= MaxRequests
             /\ UNCHANGED <<triggers, failed>>
  BY <1>1, AskAppends, JobIsAWorker, StatesOfAKind, OneWorkerMoves DEF Requested
<1>2. ASSUME NEW k \in Guarded, NEW id \in RequestId, NEW busy,
             TakeOver(k, id, busy, Scheduled(k))
      PROVE  TypeOK'
  <2>1. PICK w \in Worker : Requested(k, id, w)
    BY <1>2 DEF TakeOver, Spawn, Requested
  <2>2. /\ id \in Ids /\ k \in Kind /\ Scheduled(k) \in Recordable(k)
    BY LowerRungsAreBusy DEF Ids, Guarded
  <2>3. /\ status' \in [Kind -> UNION {Recordable(j) : j \in Kind}]
        /\ \A j \in Kind : status'[j] \in Recordable(j)
    BY <1>2, <2>2 DEF TakeOver, TypeOK
  <2>4. /\ active' \in [Guarded -> Ids]
        /\ answer' \in [Guarded -> {"none", "Accepted", "AcceptedCanceled"}]
    BY <1>2, <2>2 DEF TakeOver, TypeOK
  <2> QED
    BY <1>1, <2>1, <2>2, <2>3, <2>4 DEF TypeOK, WorkerStates
<1>3. CASE GetDiagnostics
  <2>1. PICK w \in Worker : Requested("diagnostics", 0, w)
    BY <1>3 DEF GetDiagnostics, Spawn, Requested
  <2> QED
    BY <1>1, <1>3, <2>1 DEF GetDiagnostics, TypeOK, WorkerStates, Ids
<1>4. CASE UpdateFirmware
  <2>1. PICK w \in Worker : Requested("firmware", 0, w)
    BY <1>4 DEF UpdateFirmware, Spawn, Requested
  <2> QED
    BY <1>1, <1>4, <2>1 DEF UpdateFirmware, TypeOK, WorkerStates, Ids
<1>5. ASSUME NEW id \in RequestId, GetLog(id) PROVE TypeOK'
  BY <1>2, <1>5 DEF GetLog, TakeOver, Guarded, Scheduled
<1>6. ASSUME NEW id \in RequestId, SignedUpdateFirmware(id) PROVE TypeOK'
  BY <1>2, <1>6 DEF SignedUpdateFirmware, TakeOver, Guarded, Scheduled
<1>7. ASSUME NEW k \in Kind, Trigger(k) PROVE TypeOK'
  <2> DEFINE W == [pc |-> "timer", kind |-> k, id |-> 0, step |-> 0, status |-> "Idle"]
  <2>1. PICK w \in Worker : workers' = [workers EXCEPT ![w] = W]
    BY <1>7 DEF Trigger, Spawn
  <2>2. W \in WorkerState(k)
    BY Ladders DEF WorkerState, Ids
  <2>3. workers' \in [Worker -> WorkerStates]
    BY <2>1, <2>2, StatesOfAKind, OneWorkerMoves
  <2>4. triggers' \in 0 .. MaxTriggers
    BY <1>7, BoundsAssumption DEF Trigger, TypeOK
  <2> QED
    BY <1>7, <2>3, <2>4 DEF Trigger, TypeOK, WorkerStates
<1> QED
  BY <1>3, <1>4, <1>5, <1>6, <1>7 DEF Request

\* What a step of a worker does to it.
LEMMA WorkerStepsAreTyped ==
    ASSUME TypeOK, NEW w \in Worker, WorkerStep(w)
    PROVE  TypeOK'
<1> DEFINE W == workers[w]
           k == W.kind
<1>1. /\ W \in WorkerStates /\ W.pc # "idle"
      /\ k \in Kind /\ W \in WorkerState(k)
  <2>1. W \in WorkerStates /\ W.pc # "idle"
    BY DEF TypeOK, WorkerStates, WorkerStep, TriggerReads, Record, RecordOffline, Skip, Receive,
           Replied, CallFailed
  <2> QED
    BY <2>1, WorkerIsOfAKind
<1>2. /\ W.id \in Ids /\ W.status \in Recordable(k)
  BY <1>1, StatesOfAKind
<1>3. /\ Onwards(w) \in WorkerStates
      /\ Idle \in WorkerStates
  BY <1>1, OnwardsClimbs, StatesOfAKind DEF WorkerStates
<1>4. /\ status' \in [Kind -> UNION {Recordable(j) : j \in Kind}]
      /\ \A j \in Kind : status'[j] \in Recordable(j)
  <2>1. \/ status' = status
        \/ status' = [status EXCEPT ![k] = W.status]
    BY DEF WorkerStep, TriggerReads, Record, RecordOffline, Skip, Receive, Replied, CallFailed
  <2>2. CASE status' = status
    BY <2>2 DEF TypeOK
  <2>3. CASE status' = [status EXCEPT ![k] = W.status]
    BY <1>1, <1>2, <2>3, RecordingIsTyped
  <2> QED
    BY <2>1, <2>2, <2>3
<1>5. active' \in [Guarded -> Ids]
  <2>1. CASE Record(w)
    BY <1>2, <2>1 DEF Record, TypeOK
  <2>2. CASE RecordOffline(w)
    BY <1>2, <2>2 DEF RecordOffline, TypeOK
  <2>3. CASE UNCHANGED active
    BY <2>3 DEF TypeOK
  <2>4. Record(w) \/ RecordOffline(w) \/ UNCHANGED active
    BY DEF WorkerStep, TriggerReads, Skip, Receive, Replied, CallFailed
  <2> QED
    BY <2>1, <2>2, <2>3, <2>4
<1>6. workers' \in [Worker -> WorkerStates]
  <2>1. PICK X : X \in WorkerStates /\ workers' = [workers EXCEPT ![w] = X]
    <3>1. CASE TriggerReads(w)
      <4>1. Reading(k) \in WorkerState(k)
        BY <1>1 DEF TypeOK, WorkerState, Ids, Reading
      <4> QED
        BY <1>1, <3>1, <4>1, StatesOfAKind DEF TriggerReads
    <3>2. CASE \E pc \in {"calling", "received"} : workers' = [workers EXCEPT ![w].pc = pc]
      <4>1. PICK pc \in {"calling", "received"} : workers' = [workers EXCEPT ![w].pc = pc]
        BY <3>2
      <4>2. [W EXCEPT !.pc = pc] \in WorkerState(k)
        BY <1>1 DEF WorkerState
      <4>3. workers' = [workers EXCEPT ![w] = [W EXCEPT !.pc = pc]]
        BY <4>1
      <4> QED
        BY <1>1, <4>2, <4>3, StatesOfAKind
    <3>3. CASE \/ workers' = [workers EXCEPT ![w] = Onwards(w)]
               \/ workers' = [workers EXCEPT ![w] = Idle]
      BY <1>3, <3>3
    <3> QED
      BY <3>1, <3>2, <3>3
         DEF WorkerStep, Record, RecordOffline, Skip, Receive, Replied, CallFailed
  <2> QED
    BY <2>1, OneWorkerMoves
<1>7. failed' \subseteq Kind
  BY <1>1 DEF TypeOK, WorkerStep, TriggerReads, Record, RecordOffline, Skip, Receive, Replied, CallFailed
<1>8. UNCHANGED <<asked, answer, triggers>>
  BY DEF WorkerStep, TriggerReads, Record, RecordOffline, Skip, Receive, Replied, CallFailed
<1> QED
  BY <1>4, <1>5, <1>6, <1>7, <1>8 DEF TypeOK, WorkerStates

LEMMA TypeOKNext == TypeOK /\ [Next]_vars => TypeOK'
<1> SUFFICES ASSUME TypeOK, [Next]_vars PROVE TypeOK'
  OBVIOUS
<1>1. CASE UNCHANGED vars
  BY <1>1 DEF vars, TypeOK
<1> QED
  BY <1>1, RequestsAreTyped, WorkerStepsAreTyped DEF Next

\* Whatever is recorded, asked, answered or under way has the type the model
\* gives it; no more is asked than the bound allows.
THEOREM TypeCorrect == Spec => []TypeOK
BY TypeOKInit, TypeOKNext, PTL DEF Spec

-----------------------------------------------------------------------------
(* What a step of a worker does.                                            *)

\* The worker w at another point of its report.
At(w, pc) ==
    [pc |-> pc, kind |-> workers[w].kind, id |-> workers[w].id, step |-> workers[w].step,
     status |-> workers[w].status]

\* Nothing is recorded.
Unrecorded == UNCHANGED <<status, active>>

\* The worker w records its status and the id it works for.
Recorded(w) ==
    LET k == workers[w].kind
    IN  /\ workers[w].pc \in {"ready", "read"} /\ ~Silenced(w)
        /\ status'[k] = workers[w].status
        /\ k \in Guarded => active'[k] = workers[w].id
        /\ \A j \in Kind \ {k} : status'[j] = status[j]
        /\ \A j \in Guarded \ {k} : active'[j] = active[j]

LEMMA WorkerMoves ==
    ASSUME TypeOK, NEW w \in Worker, WorkerStep(w)
    PROVE  /\ workers[w].kind \in Kind /\ workers[w] \in WorkerState(workers[w].kind)
           /\ workers[w] # Idle
           /\ UNCHANGED <<asked, answer, triggers>>
           /\ \A v \in Worker \ {w} : workers'[v] = workers[v]
           /\ \/ /\ Unrecorded /\ workers[w].pc = "timer"
                 /\ workers'[w] = Reading(workers[w].kind)
              \/ Recorded(w) /\ workers'[w] = At(w, "calling")
              \/ Recorded(w) /\ workers'[w] = Onwards(w)
              \/ /\ Unrecorded /\ workers[w].pc \in {"ready", "read"} /\ Silenced(w)
                 /\ workers'[w] = Onwards(w)
              \/ Unrecorded /\ workers[w].pc = "calling" /\ workers'[w] = At(w, "received")
              \/ Unrecorded /\ workers[w].pc = "received" /\ workers'[w] = Onwards(w)
              \/ Unrecorded /\ workers'[w] = Idle
<1> DEFINE W == workers[w]
           k == W.kind
<1>1. /\ k \in Kind /\ W \in WorkerState(k) /\ W # Idle
  <2>1. W \in WorkerStates /\ W.pc # "idle"
    BY DEF TypeOK, WorkerStates, WorkerStep, TriggerReads, Record, RecordOffline, Skip, Receive,
           Replied, CallFailed
  <2> QED
    BY <2>1, WorkerIsOfAKind
<1>2. UNCHANGED <<asked, answer, triggers>>
  BY DEF WorkerStep, TriggerReads, Record, RecordOffline, Skip, Receive, Replied, CallFailed
<1>3. DOMAIN workers = Worker /\ status \in [Kind -> UNION {Recordable(j) : j \in Kind}]
      /\ active \in [Guarded -> Ids]
  BY DEF TypeOK
<1>4. ASSUME NEW X, workers' = [workers EXCEPT ![w] = X]
      PROVE  workers'[w] = X /\ \A v \in Worker \ {w} : workers'[v] = workers[v]
  BY <1>3, <1>4
<1>5. ASSUME NEW pc, workers' = [workers EXCEPT ![w].pc = pc]
      PROVE  workers'[w] = At(w, pc) /\ \A v \in Worker \ {w} : workers'[v] = workers[v]
  <2>1. [W EXCEPT !.pc = pc] = At(w, pc)
    BY <1>1 DEF WorkerState, At
  <2> QED
    BY <1>3, <1>5, <2>1
<1>6. CASE TriggerReads(w)
  BY <1>1, <1>2, <1>4, <1>6 DEF TriggerReads, Unrecorded
<1>7. CASE Record(w)
  <2>1. Recorded(w)
    BY <1>1, <1>3, <1>7 DEF Record, Recorded
  <2> QED
    BY <1>1, <1>2, <1>5, <1>7, <2>1 DEF Record
<1>8. CASE RecordOffline(w)
  <2>1. Recorded(w)
    BY <1>1, <1>3, <1>8 DEF RecordOffline, Recorded
  <2> QED
    BY <1>1, <1>2, <1>4, <1>8, <2>1 DEF RecordOffline
<1>9. CASE Skip(w)
  BY <1>1, <1>2, <1>4, <1>9 DEF Skip, Unrecorded
<1>10. CASE Receive(w)
  BY <1>1, <1>2, <1>5, <1>10 DEF Receive, Unrecorded
<1>11. CASE Replied(w)
  BY <1>1, <1>2, <1>4, <1>11 DEF Replied, Unrecorded
<1>12. CASE CallFailed(w)
  BY <1>1, <1>2, <1>4, <1>12 DEF CallFailed, Unrecorded
<1> QED
  BY <1>6, <1>7, <1>8, <1>9, <1>10, <1>11, <1>12 DEF WorkerStep

\* A request of kind k, or a timer: one idle worker is taken.
LEMMA RequestMoves ==
    ASSUME TypeOK, Request
    PROVE  \E w \in Worker :
             /\ workers[w] = Idle
             /\ \A v \in Worker \ {w} : workers'[v] = workers[v]
             /\ \/ \E k \in Kind \ Guarded :
                     /\ workers'[w] = Job(k, 0) /\ Unrecorded
                     /\ \A j \in Guarded : asked'[j] = asked[j]
                     /\ UNCHANGED <<triggers, answer>>
                \/ \E k \in Triggerable :
                     /\ workers'[w].pc = "timer" /\ workers'[w].kind = k /\ workers'[w].step = 0
                     /\ workers'[w].id = 0
                     /\ Unrecorded /\ UNCHANGED <<asked, answer>> /\ triggers' = triggers + 1
                \/ \E k \in Guarded : \E id \in RequestId :
                     /\ TakeOver(k, id, Busy(k, status[k]), Scheduled(k))
                     /\ workers'[w] = Job(k, id)
                     /\ \A j \in Guarded \ {k} : asked'[j] = asked[j]
                     /\ UNCHANGED triggers
<1>1. DOMAIN workers = Worker /\ DOMAIN asked = Kind
  BY DEF TypeOK
<1>2. ASSUME NEW k \in Kind, NEW id, Ask(k, id)
      PROVE  \A j \in Kind \ {k} : asked'[j] = asked[j]
  BY <1>1, <1>2 DEF Ask
<1>3. ASSUME NEW X, Spawn(X)
      PROVE  \E w \in Worker : /\ workers[w] = Idle /\ workers'[w] = X
                               /\ \A v \in Worker \ {w} : workers'[v] = workers[v]
  BY <1>1, <1>3 DEF Spawn
<1>4. ASSUME NEW k \in Guarded, NEW id \in RequestId, TakeOver(k, id, Busy(k, status[k]), Scheduled(k))
      PROVE  \E w \in Worker :
             /\ workers[w] = Idle /\ workers'[w] = Job(k, id)
             /\ \A v \in Worker \ {w} : workers'[v] = workers[v]
             /\ \A j \in Guarded \ {k} : asked'[j] = asked[j]
             /\ UNCHANGED triggers
  BY <1>2, <1>3, <1>4 DEF TakeOver, Guarded
<1>5. CASE GetDiagnostics
  <2>1. "diagnostics" \in Kind \ Guarded
    BY <1>5 DEF GetDiagnostics, Guarded
  <2> QED
    BY <1>2, <1>3, <1>5, <2>1 DEF GetDiagnostics, Unrecorded, Guarded
<1>6. CASE UpdateFirmware
  <2>1. "firmware" \in Kind \ Guarded
    BY <1>6 DEF UpdateFirmware, Guarded
  <2> QED
    BY <1>2, <1>3, <1>6, <2>1 DEF UpdateFirmware, Unrecorded, Guarded
<1>7. ASSUME NEW id \in RequestId, GetLog(id)
      PROVE  "log" \in Guarded /\ TakeOver("log", id, Busy("log", status["log"]), Scheduled("log"))
  BY <1>7 DEF GetLog, TakeOver, Guarded, Busy, Scheduled
<1>8. ASSUME NEW id \in RequestId, SignedUpdateFirmware(id)
      PROVE  /\ "signed" \in Guarded
             /\ TakeOver("signed", id, Busy("signed", status["signed"]), Scheduled("signed"))
  BY <1>8 DEF SignedUpdateFirmware, TakeOver, Guarded, Busy, Scheduled
<1>9. ASSUME NEW k \in Kind, Trigger(k)
      PROVE  \E w \in Worker :
             /\ workers[w] = Idle
             /\ \A v \in Worker \ {w} : workers'[v] = workers[v]
             /\ k \in Triggerable
             /\ workers'[w].pc = "timer" /\ workers'[w].kind = k /\ workers'[w].step = 0
             /\ workers'[w].id = 0
             /\ Unrecorded /\ UNCHANGED <<asked, answer>> /\ triggers' = triggers + 1
  BY <1>3, <1>9 DEF Trigger, Unrecorded
<1> QED
  BY <1>4, <1>5, <1>6, <1>7, <1>8, <1>9 DEF Request

-----------------------------------------------------------------------------
(* The newest request is the active one.                                    *)

\* 0 is the simulator's "no request": no request comes with it.
ZeroIsNoRequest == 0 \notin RequestId

LEMMA NewestIsARequest ==
    ASSUME JobInv, ZeroIsNoRequest, NEW k \in Guarded
    PROVE  /\ asked[k] # <<>> => Newest(k) \in RequestId /\ Newest(k) \in Seen(k) /\ Newest(k) # 0
           /\ Seen(k) # {} => asked[k] # <<>>
           /\ Seen(k) \subseteq RequestId
<1>1. asked[k] \in Seq(RequestId)
  BY DEF JobInv, AskedById
<1>2. Len(asked[k]) \in Nat /\ \A i \in 1 .. Len(asked[k]) : asked[k][i] \in RequestId
  BY <1>1, LenProperties, ElementOfSeq
<1>3. asked[k] # <<>> => Len(asked[k]) \in 1 .. Len(asked[k])
  BY <1>1, EmptySeq
<1>4. Len(<<>>) = 0
  OBVIOUS
<1> QED
  BY <1>2, <1>3, <1>4 DEF Newest, Seen, ZeroIsNoRequest

\* Only the newest request's workers record: the others are silenced.
LEMMA RecorderIsNewest ==
    ASSUME JobInv, ZeroIsNoRequest, NEW w \in Worker, workers[w].kind \in Guarded,
           ~Silenced(w), asked[workers[w].kind] # <<>>
    PROVE  workers[w].id = Newest(workers[w].kind)
BY NewestIsARequest DEF Silenced, JobInv, NewestIsActive

LEMMA JobInvInit == Init => JobInv
<1> SUFFICES ASSUME Init PROVE JobInv
  OBVIOUS
<1>1. TypeOK
  BY TypeOKInit
<1>2. \A k \in Guarded : asked[k] = <<>> /\ active[k] = 0
  BY DEF Init, Guarded
<1>3. <<>> \in Seq(RequestId)
  BY EmptySeq
<1> QED
  BY <1>1, <1>2, <1>3 DEF Init, JobInv, AskedById, NewestIsActive, WorkersHavePurpose

LEMMA WorkersKeepJobInv ==
    ASSUME JobInv, ZeroIsNoRequest, NEW w \in Worker, WorkerStep(w)
    PROVE  JobInv'
<1> DEFINE W == workers[w]
           k == W.kind
<1>1. TypeOK /\ TypeOK'
  BY WorkerStepsAreTyped DEF JobInv
<1>2. /\ k \in Kind /\ W \in WorkerState(k) /\ W # Idle
      /\ UNCHANGED <<asked, answer, triggers>>
      /\ \A v \in Worker \ {w} : workers'[v] = workers[v]
  BY <1>1, WorkerMoves
<1>3. Purposeful(w)
  BY <1>2 DEF JobInv, WorkersHavePurpose
<1>4. \A j \in Guarded : Seen(j)' = Seen(j) /\ Newest(j)' = Newest(j)
  BY <1>2 DEF Seen, Newest
<1>5. \/ Unrecorded
      \/ Recorded(w)
  BY <1>1, WorkerMoves
<1>6. \A j \in Guarded : asked[j] = <<>> => Seen(j) = {}
  <2>1. Len(<<>>) = 0
    OBVIOUS
  <2> QED
    BY <2>1 DEF Seen
<1>7. AskedById' /\ NewestIsActive'
  <2>1. CASE Unrecorded
    BY <1>2, <1>4, <2>1 DEF Unrecorded, JobInv, AskedById, NewestIsActive
  <2>2. CASE Recorded(w)
    <3>1. ASSUME NEW j \in Guarded
          PROVE  /\ active'[j] \in Seen(j) \cup {0}
                 /\ asked[j] # <<>> => active'[j] = Newest(j)
      <4>1. CASE j = k
        BY <1>3, <2>2, <3>1, <4>1, RecorderIsNewest DEF Recorded, Purposeful
      <4>2. CASE j # k
        BY <2>2, <4>2 DEF Recorded, JobInv, AskedById, NewestIsActive
      <4> QED
        BY <4>1, <4>2
    <3> QED
      BY <1>2, <1>4, <3>1 DEF JobInv, AskedById, NewestIsActive
  <2> QED
    BY <1>5, <2>1, <2>2
<1>8. WorkersHavePurpose'
  <2> SUFFICES ASSUME NEW v \in Worker, workers'[v] # Idle PROVE Purposeful(v)'
    BY DEF WorkersHavePurpose
  <2>1. CASE v # w
    <3>1. workers'[v] = workers[v]
      BY <1>2, <2>1
    <3>2. Purposeful(v)
      BY <3>1 DEF JobInv, WorkersHavePurpose
    <3> QED
      BY <1>2, <3>1, <3>2 DEF Purposeful, Seen
  <2>2. CASE v = w
    <3>1. CASE workers'[w] = Onwards(w)
      <4>1. /\ workers'[w].pc = "ready" /\ workers'[w].kind = k /\ workers'[w].id = W.id
            /\ W.step \in Rungs(k) /\ workers'[w].step = W.step + 1
            /\ workers'[w].status = Ladder[k][W.step + 1]
        BY <1>2, <2>2, <3>1, OnwardsClimbs
      <4>2. W.step > 0 /\ W.step + 1 > 0 /\ W.step # 0 /\ W.step + 1 # 0
        BY <4>1, Ladders, <1>2
      <4> QED
        BY <1>2, <1>3, <2>2, <4>1, <4>2 DEF Purposeful, Seen
    <3>2. ASSUME NEW pc \in {"calling", "received"}, workers'[w] = At(w, pc)
          PROVE  Purposeful(v)'
      BY <1>2, <1>3, <1>4, <2>2, <3>2 DEF Purposeful, At
    <3>3. CASE workers'[w] = Reading(k) /\ W.pc = "timer" /\ Unrecorded
      <4>1. W.step = 0
        BY <1>3, <3>3 DEF Purposeful
      <4>2. k \in Guarded => active[k] \in Seen(k) \cup {0}
        BY DEF JobInv, AskedById
      <4> QED
        BY <1>2, <1>3, <1>4, <2>2, <3>3, <4>1, <4>2 DEF Purposeful, Reading
    <3> QED
      BY <1>1, <2>2, <3>1, <3>2, <3>3, WorkerMoves
  <2> QED
    BY <2>1, <2>2
<1> QED
  BY <1>1, <1>7, <1>8 DEF JobInv

\* A request takes over: it is the newest, and the others of its kind stay seen.
LEMMA TakeOverAsks ==
    ASSUME JobInv, NEW k \in Guarded, NEW id \in RequestId, NEW busy, NEW s, TakeOver(k, id, busy, s)
    PROVE  /\ asked'[k] \in Seq(RequestId) /\ asked'[k] # <<>>
           /\ Newest(k)' = id /\ Seen(k)' = Seen(k) \cup {id}
           /\ ~Repeats => id \notin Seen(k)
           /\ active'[k] = id /\ status'[k] = s
           /\ answer'[k] = IF busy /\ active[k] # id THEN "AcceptedCanceled" ELSE "Accepted"
           /\ \A j \in Guarded \ {k} :
                /\ asked'[j] = asked[j] /\ active'[j] = active[j] /\ status'[j] = status[j]
                /\ Seen(j)' = Seen(j) /\ Newest(j)' = Newest(j)
<1>1. /\ TypeOK /\ k \in Kind /\ id \in Ids /\ Ask(k, id)
      /\ asked[k] \in Seq(RequestId)
  BY DEF JobInv, AskedById, Ids, TakeOver, Guarded
<1>2. /\ asked'[k] = Append(asked[k], id)
      /\ Len(asked'[k]) = Len(asked[k]) + 1
      /\ \A i \in 1 .. Len(asked[k]) : asked'[k][i] = asked[k][i]
      /\ asked'[k][Len(asked[k]) + 1] = id
      /\ \A j \in Kind \ {k} : asked'[j] = asked[j]
  BY <1>1, AskAppends
<1>3. /\ Append(asked[k], id) \in Seq(RequestId) /\ Append(asked[k], id) # <<>>
      /\ Len(asked[k]) \in Nat
  BY <1>1, AppendProperties, LenProperties
<1>4. Seen(k)' = Seen(k) \cup {id}
  <2>1. 1 .. Len(asked'[k]) = (1 .. Len(asked[k])) \cup {Len(asked[k]) + 1}
    BY <1>2, <1>3
  <2> QED
    BY <1>2, <2>1 DEF Seen
<1>5. ~Repeats => id \notin Seen(k)
  BY <1>1 DEF Ask, Seen
<1>6. /\ active'[k] = id /\ status'[k] = s
      /\ \A j \in Guarded \ {k} : active'[j] = active[j] /\ status'[j] = status[j]
  BY <1>1 DEF TakeOver, TypeOK, Guarded
<1>7. answer'[k] = IF busy /\ active[k] # id THEN "AcceptedCanceled" ELSE "Accepted"
  BY <1>1 DEF TakeOver, TypeOK
<1>8. \A j \in Guarded \ {k} : asked'[j] = asked[j] /\ Seen(j)' = Seen(j) /\ Newest(j)' = Newest(j)
  BY <1>2 DEF Seen, Newest, Guarded
<1>9. Newest(k)' = id
  BY <1>2 DEF Newest
<1> QED
  BY <1>2, <1>3, <1>4, <1>5, <1>6, <1>7, <1>8, <1>9

LEMMA RequestsKeepJobInv ==
    ASSUME JobInv, Request
    PROVE  JobInv'
<1>1. TypeOK /\ TypeOK'
  BY RequestsAreTyped DEF JobInv
<1>0. triggers \in Nat
  BY <1>1, BoundsAssumption DEF TypeOK
<1>2. ASSUME \A j \in Guarded : asked'[j] = asked[j], Unrecorded
      PROVE  AskedById' /\ NewestIsActive'
  BY <1>2 DEF Unrecorded, JobInv, AskedById, NewestIsActive, Seen, Newest
<1>3. ASSUME NEW w \in Worker, \A v \in Worker \ {w} : workers'[v] = workers[v],
             \A j \in Guarded : Seen(j) \subseteq Seen(j)',
             triggers' \in {triggers, triggers + 1},
             Purposeful(w)'
      PROVE  WorkersHavePurpose'
  <2> SUFFICES ASSUME NEW v \in Worker, workers'[v] # Idle, v # w PROVE Purposeful(v)'
    BY <1>3 DEF WorkersHavePurpose
  <2>1. workers'[v] = workers[v] /\ Purposeful(v)
    BY <1>3 DEF JobInv, WorkersHavePurpose
  <2>2. triggers > 0 => triggers' > 0
    BY <1>0, <1>3
  <2> QED
    BY <1>3, <2>1, <2>2 DEF Purposeful, Seen
<1>4. PICK w \in Worker :
             /\ workers[w] = Idle
             /\ \A v \in Worker \ {w} : workers'[v] = workers[v]
             /\ \/ \E k \in Kind \ Guarded :
                     /\ workers'[w] = Job(k, 0) /\ Unrecorded
                     /\ \A j \in Guarded : asked'[j] = asked[j]
                     /\ UNCHANGED triggers
                \/ \E k \in Triggerable :
                     /\ workers'[w].pc = "timer" /\ workers'[w].kind = k /\ workers'[w].step = 0
                     /\ workers'[w].id = 0
                     /\ Unrecorded /\ UNCHANGED asked /\ triggers' = triggers + 1
                \/ \E k \in Guarded : \E id \in RequestId :
                     /\ TakeOver(k, id, Busy(k, status[k]), Scheduled(k))
                     /\ workers'[w] = Job(k, id)
                     /\ UNCHANGED triggers
  BY <1>1, RequestMoves
<1>5. ASSUME NEW k \in Kind \ Guarded, workers'[w] = Job(k, 0), Unrecorded,
             \A j \in Guarded : asked'[j] = asked[j], UNCHANGED triggers
      PROVE  JobInv'
  <2>1. Purposeful(w)'
    BY <1>5, Ladders DEF Purposeful, Job
  <2>2. \A j \in Guarded : Seen(j) \subseteq Seen(j)'
    BY <1>5 DEF Seen
  <2> QED
    BY <1>1, <1>2, <1>3, <1>4, <1>5, <2>1, <2>2 DEF JobInv
<1>6. ASSUME NEW k \in Triggerable, workers'[w].pc = "timer", workers'[w].kind = k,
             workers'[w].step = 0, workers'[w].id = 0, Unrecorded, UNCHANGED asked,
             triggers' = triggers + 1
      PROVE  JobInv'
  <2>1. Purposeful(w)'
    <3>1. triggers' > 0
      BY <1>0, <1>6
    <3> QED
      BY <1>6, <3>1 DEF Purposeful
  <2>2. \A j \in Guarded : Seen(j) \subseteq Seen(j)'
    BY <1>6 DEF Seen
  <2> QED
    BY <1>1, <1>2, <1>3, <1>4, <1>6, <2>1, <2>2 DEF JobInv
<1>7. ASSUME NEW k \in Guarded, NEW id \in RequestId,
             TakeOver(k, id, Busy(k, status[k]), Scheduled(k)), workers'[w] = Job(k, id),
             UNCHANGED triggers
      PROVE  JobInv'
  <2>1. Purposeful(w)'
    <3>1. id \in Seen(k)'
      BY <1>7, TakeOverAsks
    <3> QED
      BY <1>7, <3>1 DEF Purposeful, Job, Seen
  <2>2. \A j \in Guarded : Seen(j) \subseteq Seen(j)'
    BY <1>7, TakeOverAsks
  <2>3. AskedById' /\ NewestIsActive'
    <3>1. \A j \in Guarded \ {k} :
             /\ asked'[j] \in Seq(RequestId) /\ active'[j] \in Seen(j)' \cup {0}
             /\ asked'[j] # <<>> => active'[j] = Newest(j)'
      BY <1>7, TakeOverAsks DEF JobInv, AskedById, NewestIsActive
    <3>2. /\ asked'[k] \in Seq(RequestId) /\ active'[k] \in Seen(k)' \cup {0}
          /\ active'[k] = Newest(k)'
      BY <1>7, TakeOverAsks
    <3> QED
      BY <3>1, <3>2 DEF AskedById, NewestIsActive
  <2> QED
    BY <1>1, <1>3, <1>4, <1>7, <2>1, <2>2, <2>3 DEF JobInv
<1> QED
  BY <1>4, <1>5, <1>6, <1>7

LEMMA JobInvNext == ZeroIsNoRequest /\ JobInv /\ [Next]_vars => JobInv'
<1> SUFFICES ASSUME ZeroIsNoRequest, JobInv, [Next]_vars PROVE JobInv'
  OBVIOUS
<1>1. CASE UNCHANGED vars
  <2>1. TypeOK'
    BY <1>1, TypeOKNext DEF JobInv
  <2> QED
    BY <1>1, <2>1 DEF vars, JobInv, AskedById, NewestIsActive, WorkersHavePurpose, Purposeful, Seen,
                      Newest
<1> QED
  BY <1>1, RequestsKeepJobInv, WorkersKeepJobInv DEF Next

LEMMA JobInvHolds ==
    ASSUME ZeroIsNoRequest
    PROVE  Spec => []JobInv
<1>1. Init => JobInv
  BY JobInvInit
<1>2. JobInv /\ [Next]_vars => JobInv'
  BY JobInvNext
<1> QED
  BY <1>1, <1>2, PTL DEF Spec

\* The newest request for a log or a signed update is the active one, whatever
\* the older jobs and the triggers do: they find themselves silenced before they
\* record.  Request ids are taken to be other than 0, which the code keeps for
\* "no request".
THEOREM NewestStaysActive ==
    ASSUME ZeroIsNoRequest
    PROVE  Spec => []NewestIsActive
<1>1. JobInv => NewestIsActive
  BY DEF JobInv
<1> QED
  BY <1>1, JobInvHolds, PTL

-----------------------------------------------------------------------------
(* What is recorded follows the newest job.                                 *)

LEMMA FollowInvInit == Init => FollowInv
<1> SUFFICES ASSUME Init PROVE FollowInv
  OBVIOUS
<1>1. \A k \in Guarded : JobsOf(k) = {}
  BY DEF Init, JobsOf
<1> QED
  BY <1>1 DEF FollowInv, JobsAreDistinct, StatusFollowsJob, UnfinishedIsBusy

\* What JobInv says of a job.
LEMMA JobFacts ==
    ASSUME JobInv, ZeroIsNoRequest, NEW k \in Guarded, NEW v \in JobsOf(k)
    PROVE  /\ v \in Worker /\ k \in Kind /\ workers[v] \in WorkerState(k) /\ workers[v].kind = k
           /\ workers[v].step \in Rungs(k) /\ Len(Ladder[k]) \in Nat
           /\ Rungs(k) = 1 .. Len(Ladder[k])
           /\ workers[v].status = Ladder[k][workers[v].step]
           /\ workers[v].pc \in {"ready", "calling", "received"}
           /\ workers[v].id \in Seen(k) /\ asked[k] # <<>> /\ active[k] = Newest(k)
<1>1. v \in Worker /\ workers[v] # Idle /\ workers[v].kind = k /\ workers[v].step > 0
  BY DEF JobsOf
<1>2. workers[v] \in WorkerStates /\ k \in Kind
  BY <1>1 DEF JobInv, TypeOK, WorkerStates, Guarded
<1>3. PICK j \in Kind : workers[v] \in WorkerState(j)
  BY <1>1, <1>2 DEF WorkerStates
<1>4. j = k
  BY <1>1, <1>3, StatesOfAKind
<1>5. Purposeful(v)
  BY <1>1 DEF JobInv, WorkersHavePurpose
<1>6. workers[v].step # 0
  BY <1>1
<1>7. /\ workers[v].id \in Seen(k) /\ workers[v].status = Ladder[k][workers[v].step]
      /\ workers[v].pc \notin {"timer", "read"}
  BY <1>1, <1>5, <1>6 DEF Purposeful
<1>8. /\ workers[v].step \in Rungs(k)
      /\ workers[v].pc \in {"timer", "ready", "read", "calling", "received"}
  BY <1>2, <1>3, <1>4, <1>6, StatesOfAKind
<1>9. asked[k] # <<>> /\ active[k] = Newest(k)
  BY <1>7, NewestIsARequest DEF JobInv, NewestIsActive
<1> QED
  BY <1>1, <1>2, <1>3, <1>4, <1>7, <1>8, <1>9, Ladders

\* A step of a worker makes no job: what is one after it was one before, with
\* something left to record if it still has.
LEMMA JobsStay ==
    ASSUME JobInv, ZeroIsNoRequest, NEW w \in Worker, WorkerStep(w), NEW k \in Guarded,
           NEW v \in JobsOf(k)'
    PROVE  /\ v \in JobsOf(k) /\ workers'[v].id = workers[v].id
           /\ Unfinished(v)' => Unfinished(v)
<1> DEFINE W == workers[w]
<1>1. v \in Worker /\ workers'[v] # Idle /\ workers'[v].kind = k /\ workers'[v].step > 0
  BY DEF JobsOf
<1>2. TypeOK
  BY DEF JobInv
<1>3. /\ W.kind \in Kind /\ W \in WorkerState(W.kind) /\ W # Idle
      /\ \A u \in Worker \ {w} : workers'[u] = workers[u]
  BY <1>2, WorkerMoves
<1>4. CASE v # w
  BY <1>1, <1>3, <1>4 DEF JobsOf, Unfinished
<1>5. CASE v = w
  <2>1. Purposeful(w)
    BY <1>3 DEF JobInv, WorkersHavePurpose
  <2>2. CASE workers'[w] = Onwards(w)
    <3>1. /\ workers'[w].kind = W.kind /\ workers'[w].id = W.id
          /\ W.step \in Rungs(W.kind) /\ W.step < Len(Ladder[W.kind])
      BY <1>1, <1>3, <1>5, <2>2, OnwardsClimbs
    <3>2. W.step > 0
      BY <1>3, <3>1, Ladders
    <3> QED
      BY <1>1, <1>3, <1>5, <3>1, <3>2 DEF JobsOf, Unfinished
  <2>3. CASE workers'[w] = At(w, "calling") /\ W.pc \in {"ready", "read"}
    <3>1. W.step > 0 /\ W.step # 0
      BY <1>1, <1>5, <2>3 DEF At
    <3>2. W.pc = "ready"
      BY <2>1, <2>3, <3>1 DEF Purposeful
    <3> QED
      BY <1>1, <1>3, <1>5, <2>3, <3>1, <3>2 DEF JobsOf, Unfinished, At
  <2>4. CASE workers'[w] = At(w, "received")
    BY <1>1, <1>3, <1>5, <2>4 DEF JobsOf, Unfinished, At
  <2>5. workers'[w] = Reading(W.kind) => workers'[w].step = 0
    BY DEF Reading
  <2> QED
    BY <1>1, <1>2, <1>5, <2>2, <2>3, <2>4, <2>5, WorkerMoves DEF Recorded
<1> QED
  BY <1>4, <1>5

LEMMA WorkersKeepFollowInv ==
    ASSUME JobInv, JobInv', FollowInv, ZeroIsNoRequest, NEW w \in Worker, WorkerStep(w)
    PROVE  FollowInv'
<1> DEFINE W == workers[w]
           kw == W.kind
<1>1. TypeOK
  BY DEF JobInv
<1>2. /\ kw \in Kind /\ W \in WorkerState(kw) /\ W # Idle
      /\ UNCHANGED <<asked, answer, triggers>>
      /\ \A v \in Worker \ {w} : workers'[v] = workers[v]
      /\ Unrecorded \/ Recorded(w)
  BY <1>1, WorkerMoves
<1>3. Purposeful(w)
  BY <1>2 DEF JobInv, WorkersHavePurpose
<1>4. \A k \in Guarded : Newest(k)' = Newest(k)
  BY <1>2 DEF Newest
<1>5. JobsAreDistinct'
  BY JobsStay DEF FollowInv, JobsAreDistinct
\* A worker that records for a kind with a job is the newest job's, or a trigger's.
<1>6. ASSUME NEW k \in Guarded, NEW v \in JobsOf(k), workers[v].id = Newest(k), Recorded(w), kw = k
      PROVE  /\ W.id = Newest(k) /\ status'[k] = W.status
             /\ W.step = 0 => triggers > 0 /\ k \in Triggerable /\ W.pc = "read"
             /\ W.step # 0 => w = v
  <2>1. W.id = Newest(k) /\ status'[k] = W.status
    BY <1>6, JobFacts, RecorderIsNewest DEF Recorded
  <2>2. W.step = 0 => triggers > 0 /\ k \in Triggerable /\ W.pc = "read"
    BY <1>3, <1>6 DEF Recorded, Purposeful
  <2>3. ASSUME W.step # 0 PROVE w = v
    <3>1. W.step > 0
      BY <1>2, <2>3, StatesOfAKind, Ladders
    <3>2. w \in JobsOf(k)
      BY <1>2, <1>6, <3>1 DEF JobsOf
    <3> QED
      BY <1>6, <2>1, <3>2 DEF FollowInv, JobsAreDistinct
  <2> QED
    BY <2>1, <2>2, <2>3
<1>7. StatusFollowsJob'
  <2> DEFINE Expected(worker, k) ==
               IF worker.pc # "ready" THEN Ladder[k][worker.step]
               ELSE IF worker.step > 1 THEN Ladder[k][worker.step - 1]
               ELSE IF k = "log" THEN "Uploading" ELSE "DownloadScheduled"
  <2> SUFFICES ASSUME NEW k \in Guarded, triggers' = 0 \/ k \notin Triggerable,
                      NEW v \in JobsOf(k)', workers'[v].id = Newest(k)'
               PROVE  status'[k] = Expected(workers'[v], k)
    BY DEF StatusFollowsJob
  <2>1. /\ v \in JobsOf(k) /\ workers[v].id = Newest(k)
    BY <1>4, JobsStay
  <2>2. /\ v \in Worker /\ k \in Kind /\ workers[v].kind = k /\ workers[v].step \in Nat
        /\ workers[v].status = Ladder[k][workers[v].step]
        /\ active[k] = Newest(k) /\ workers'[v] # Idle
    BY <2>1, JobFacts DEF JobsOf
  <2>3. status[k] = Expected(workers[v], k)
    BY <1>2, <2>1 DEF FollowInv, StatusFollowsJob
  \* The worker w is this job, and goes on to its next report.
  <2>4. ASSUME v = w, workers'[w] = Onwards(w)
        PROVE  Expected(workers'[v], k) = Ladder[k][W.step]
    <3>1. workers'[v].pc = "ready" /\ workers'[v].step = W.step + 1 /\ W.step \in Rungs(k)
      BY <1>2, <2>2, <2>4, OnwardsClimbs
    <3>2. W.step + 1 > 1 /\ (W.step + 1) - 1 = W.step
      BY <2>2, <3>1, Ladders
    <3> QED
      BY <3>1, <3>2
  <2>5. CASE Unrecorded
    <3>1. status'[k] = status[k]
      BY <2>5 DEF Unrecorded
    <3>2. CASE v # w
      BY <1>2, <2>2, <2>3, <3>1, <3>2
    <3>3. CASE v = w
      <4>1. ~Silenced(w)
        BY <2>1, <2>2, <3>3 DEF Silenced
      <4>2. CASE W.pc = "received" /\ workers'[w] = Onwards(w)
        BY <2>3, <2>4, <3>1, <3>3, <4>2
      <4>3. CASE W.pc = "calling" /\ workers'[w] = At(w, "received")
        BY <2>3, <3>1, <3>3, <4>3 DEF At
      <4>4. W.pc # "timer"
        BY <2>1, <3>3, JobFacts
      <4>5. ~Recorded(w) \/ W.pc \in {"ready", "read"}
        BY DEF Recorded
      <4>6. \/ workers'[w] = Onwards(w) /\ Recorded(w)
            \/ workers'[w] = At(w, "calling") /\ Recorded(w)
            \/ W.pc = "received" /\ workers'[w] = Onwards(w)
            \/ W.pc = "calling" /\ workers'[w] = At(w, "received")
        BY <1>1, <2>2, <3>3, <4>1, <4>4, WorkerMoves
      <4>7. CASE Recorded(w)
        <5>1. status'[k] = W.status
          BY <2>2, <3>3, <4>7 DEF Recorded
        <5>2. W.status = Ladder[k][W.step]
          BY <2>2, <3>3
        <5>3. CASE workers'[w] = Onwards(w)
          BY <2>4, <3>3, <5>1, <5>2, <5>3
        <5>4. CASE workers'[w] = At(w, "calling")
          BY <3>3, <5>1, <5>2, <5>4 DEF At
        <5> QED
          BY <4>2, <4>3, <4>6, <5>3, <5>4
      <4> QED
        BY <4>2, <4>3, <4>6, <4>7
    <3> QED
      BY <3>2, <3>3
  <2>6. CASE Recorded(w)
    <3>1. CASE kw # k
      <4>1. status'[k] = status[k] /\ v # w
        BY <2>2, <2>6, <3>1 DEF Recorded
      <4> QED
        BY <1>2, <2>2, <2>3, <4>1
    <3>2. CASE kw = k
      <4>1. w = v /\ status'[k] = W.status
        BY <1>2, <1>6, <2>1, <2>6, <3>2, JobFacts
      <4>2. status'[k] = Ladder[k][W.step]
        BY <2>2, <4>1
      <4>3. CASE workers'[w] = Onwards(w)
        BY <2>4, <4>1, <4>2, <4>3
      <4>4. CASE workers'[w] = At(w, "calling")
        BY <4>1, <4>2, <4>4 DEF At
      <4>5. W.pc \in {"ready", "read"}
        BY <2>6 DEF Recorded
      <4>6. W.pc = "ready"
        BY <2>1, <4>1, <4>5, JobFacts
      <4>7. workers'[w] = Onwards(w) \/ workers'[w] = At(w, "calling")
        BY <1>1, <2>2, <4>1, <4>6, WorkerMoves
      <4> QED
        BY <4>3, <4>4, <4>7
    <3> QED
      BY <3>1, <3>2
  <2> QED
    BY <1>2, <2>5, <2>6
<1>8. UnfinishedIsBusy'
  <2> SUFFICES ASSUME NEW k \in Guarded, NEW v \in JobsOf(k)', workers'[v].id = Newest(k)',
                      Unfinished(v)'
               PROVE  /\ Busy(k, status'[k])
                      /\ \A u \in Worker :
                           (/\ workers'[u] # Idle /\ workers'[u].kind = k
                            /\ workers'[u].pc = "read" /\ workers'[u].id = Newest(k)') =>
                             Busy(k, workers'[u].status)
    BY DEF UnfinishedIsBusy, Busy
  <2>1. v \in JobsOf(k) /\ workers[v].id = Newest(k) /\ Unfinished(v)
    BY <1>4, JobsStay
  <2>2. /\ Busy(k, status[k])
        /\ \A u \in Worker :
             (/\ workers[u] # Idle /\ workers[u].kind = k
              /\ workers[u].pc = "read" /\ workers[u].id = Newest(k)) => Busy(k, workers[u].status)
    BY <2>1 DEF FollowInv, UnfinishedIsBusy
  <2>3. Busy(k, status'[k])
    <3>1. CASE status'[k] = status[k]
      BY <2>2, <3>1
    <3>2. CASE Recorded(w) /\ kw = k
      <4>1. CASE W.step = 0
        BY <1>2, <1>6, <2>1, <2>2, <3>2, <4>1
      <4>2. CASE W.step # 0
        <5>1. w = v /\ status'[k] = W.status
          BY <1>6, <2>1, <3>2, <4>2
        <5>2. W.status = Ladder[k][W.step] /\ W.step \in Rungs(k)
          BY <2>1, <5>1, JobFacts
        <5>3. W.step < Len(Ladder[k])
          <6>1. W.pc \in {"ready", "read"} /\ workers'[w] # Idle
            BY <3>2, <5>1 DEF Recorded, JobsOf
          <6>2. CASE workers'[w] = Onwards(w)
            BY <1>2, <3>2, <6>1, <6>2, OnwardsClimbs
          <6>3. CASE workers'[w] = At(w, "calling")
            BY <3>2, <5>1, <6>3 DEF At, Unfinished
          <6>4. W.pc = "ready"
            BY <2>1, <5>1, <6>1, JobFacts
          <6>5. workers'[w] = Onwards(w) \/ workers'[w] = At(w, "calling")
            BY <1>1, <6>1, <6>4, WorkerMoves
          <6> QED
            BY <6>2, <6>3, <6>5
        <5> QED
          BY <5>1, <5>2, <5>3, LowerRungsAreBusy
      <4> QED
        BY <4>1, <4>2
    <3> QED
      BY <1>2, <3>1, <3>2 DEF Unrecorded, Recorded, Guarded
  <2>4. ASSUME NEW u \in Worker, workers'[u] # Idle, workers'[u].kind = k,
               workers'[u].pc = "read", workers'[u].id = Newest(k)'
        PROVE  Busy(k, workers'[u].status)
    <3>1. CASE u # w
      BY <1>2, <1>4, <2>2, <2>4, <3>1
    <3>2. CASE u = w
      <4>1. workers'[w] # Onwards(w)
        BY <1>2, <2>4, <3>2, OnwardsClimbs
      <4>2. workers'[w] # At(w, "calling") /\ workers'[w] # At(w, "received")
        BY <2>4, <3>2 DEF At
      <4>3. workers'[w] = Reading(kw)
        BY <1>1, <2>4, <3>2, <4>1, <4>2, WorkerMoves
      <4> QED
        BY <2>2, <2>4, <3>2, <4>3 DEF Reading
    <3> QED
      BY <3>1, <3>2
  <2> QED
    BY <2>3, <2>4
<1> QED
  BY <1>5, <1>7, <1>8 DEF FollowInv

\* Requests that leave the log and signed update jobs alone.
LEMMA OtherRequestsKeepFollowInv ==
    ASSUME JobInv, FollowInv, Unrecorded, \A j \in Guarded : asked'[j] = asked[j],
           triggers' \in {triggers, triggers + 1}, NEW w \in Worker,
           \A v \in Worker \ {w} : workers'[v] = workers[v],
           workers'[w].pc # "read",
           workers'[w].kind \in Guarded => workers'[w].step = 0
    PROVE  FollowInv'
<1>1. triggers \in Nat
  BY BoundsAssumption DEF JobInv, TypeOK
<1>2. triggers' = 0 => triggers = 0
  BY <1>1
<1>3. ASSUME NEW k \in Guarded, NEW v \in JobsOf(k)' PROVE v \in JobsOf(k) /\ workers'[v] = workers[v]
  BY <1>3 DEF JobsOf
<1>4. \A k \in Guarded : Newest(k)' = Newest(k) /\ status'[k] = status[k]
  BY DEF Newest, Unrecorded
<1>5. JobsAreDistinct'
  BY <1>3 DEF FollowInv, JobsAreDistinct
<1>6. StatusFollowsJob'
  <2> SUFFICES ASSUME NEW k \in Guarded, triggers' = 0 \/ k \notin Triggerable,
                      NEW v \in JobsOf(k)', workers'[v].id = Newest(k)'
               PROVE  status'[k] = IF workers'[v].pc # "ready" THEN Ladder[k][workers'[v].step]
                         ELSE IF workers'[v].step > 1 THEN Ladder[k][workers'[v].step - 1]
                         ELSE IF k = "log" THEN "Uploading" ELSE "DownloadScheduled"
    BY DEF StatusFollowsJob
  <2> QED
    BY <1>2, <1>3, <1>4 DEF FollowInv, StatusFollowsJob
<1>7. UnfinishedIsBusy'
  <2> SUFFICES ASSUME NEW k \in Guarded, NEW v \in JobsOf(k)', workers'[v].id = Newest(k)',
                      Unfinished(v)'
               PROVE  /\ Busy(k, status'[k])
                      /\ \A u \in Worker :
                           (/\ workers'[u] # Idle /\ workers'[u].kind = k
                            /\ workers'[u].pc = "read" /\ workers'[u].id = Newest(k)') =>
                             Busy(k, workers'[u].status)
    BY DEF UnfinishedIsBusy, Busy
  <2>1. v \in JobsOf(k) /\ workers[v].id = Newest(k) /\ Unfinished(v)
    BY <1>3, <1>4 DEF Unfinished
  <2> QED
    BY <1>4, <2>1 DEF FollowInv, UnfinishedIsBusy
<1> QED
  BY <1>5, <1>6, <1>7 DEF FollowInv

\* A request with a fresh id makes the job it leaves behind the only newest one.
LEMMA TakeOverKeepsFollowInv ==
    ASSUME JobInv, FollowInv, ZeroIsNoRequest, ~Repeats, NEW k \in Guarded, NEW id \in RequestId,
           TakeOver(k, id, Busy(k, status[k]), Scheduled(k)), UNCHANGED triggers,
           NEW w \in Worker, \A v \in Worker \ {w} : workers'[v] = workers[v],
           workers'[w] = Job(k, id)
    PROVE  FollowInv'
<1>1. /\ Newest(k)' = id /\ id \notin Seen(k) /\ id # 0
      /\ status'[k] = Scheduled(k)
      /\ \A j \in Guarded \ {k} : status'[j] = status[j] /\ Newest(j)' = Newest(j)
  BY TakeOverAsks DEF ZeroIsNoRequest
<1>2. /\ workers'[w].pc = "ready" /\ workers'[w].kind = k /\ workers'[w].id = id
      /\ workers'[w].step = 1
  BY DEF Job
<1>3. ASSUME NEW j \in Guarded, NEW v \in JobsOf(j)', v # w
      PROVE  /\ v \in JobsOf(j) /\ workers'[v] = workers[v]
             /\ j = k => workers'[v].id # id
  <2>1. v \in JobsOf(j) /\ workers'[v] = workers[v]
    BY <1>3 DEF JobsOf
  <2>2. workers[v].id \in Seen(j)
    BY <2>1, JobFacts
  <2> QED
    BY <1>1, <2>1, <2>2
<1>4. JobsAreDistinct'
  <2> SUFFICES ASSUME NEW j \in Guarded, NEW u \in JobsOf(j)', NEW v \in JobsOf(j)',
                      workers'[u].id = workers'[v].id, u # v
               PROVE  FALSE
    BY DEF JobsAreDistinct
  <2>1. CASE u # w /\ v # w
    BY <1>3, <2>1 DEF FollowInv, JobsAreDistinct
  <2>2. CASE u = w \/ v = w
    <3>1. j = k
      BY <1>2, <2>2 DEF JobsOf
    <3> QED
      BY <1>2, <1>3, <2>2, <3>1
  <2> QED
    BY <2>1, <2>2
\* The newest job of a kind after the request.
<1>5. ASSUME NEW j \in Guarded, NEW v \in JobsOf(j)', workers'[v].id = Newest(j)'
      PROVE  \/ j = k /\ v = w
             \/ /\ j # k /\ v # w /\ v \in JobsOf(j) /\ workers'[v] = workers[v]
                /\ workers[v].id = Newest(j)
  <2>1. v = w => j = k
    BY <1>2, <1>5 DEF JobsOf
  <2> QED
    BY <1>1, <1>3, <1>5, <2>1
<1>6. StatusFollowsJob'
  <2> SUFFICES ASSUME NEW j \in Guarded, triggers' = 0 \/ j \notin Triggerable,
                      NEW v \in JobsOf(j)', workers'[v].id = Newest(j)'
               PROVE  status'[j] = IF workers'[v].pc # "ready" THEN Ladder[j][workers'[v].step]
                         ELSE IF workers'[v].step > 1 THEN Ladder[j][workers'[v].step - 1]
                         ELSE IF j = "log" THEN "Uploading" ELSE "DownloadScheduled"
    BY DEF StatusFollowsJob
  <2>1. CASE j = k /\ v = w
    BY <1>1, <1>2, <2>1 DEF Scheduled
  <2>2. CASE j # k /\ v \in JobsOf(j) /\ workers'[v] = workers[v] /\ workers[v].id = Newest(j)
    BY <1>1, <2>2 DEF FollowInv, StatusFollowsJob
  <2> QED
    BY <1>5, <2>1, <2>2
<1>7. UnfinishedIsBusy'
  <2> SUFFICES ASSUME NEW j \in Guarded, NEW v \in JobsOf(j)', workers'[v].id = Newest(j)',
                      Unfinished(v)'
               PROVE  /\ Busy(j, status'[j])
                      /\ \A u \in Worker :
                           (/\ workers'[u] # Idle /\ workers'[u].kind = j
                            /\ workers'[u].pc = "read" /\ workers'[u].id = Newest(j)') =>
                             Busy(j, workers'[u].status)
    BY DEF UnfinishedIsBusy, Busy
  <2>1. CASE j = k /\ v = w
    <3>1. Busy(j, status'[j])
      BY <1>1, <2>1, LowerRungsAreBusy
    <3>2. ASSUME NEW u \in Worker, workers'[u] # Idle, workers'[u].kind = k, workers'[u].pc = "read",
                 workers'[u].id = id
          PROVE  FALSE
      <4>1. u # w /\ workers'[u] = workers[u]
        BY <1>2, <3>2
      <4>2. Purposeful(u)
        BY <3>2, <4>1 DEF JobInv, WorkersHavePurpose
      <4>3. workers[u].id \in Seen(k) \cup {0}
        BY <3>2, <4>1, <4>2 DEF Purposeful
      <4> QED
        BY <1>1, <3>2, <4>1, <4>3
    <3> QED
      BY <1>1, <2>1, <3>1, <3>2
  <2>2. CASE j # k /\ v \in JobsOf(j) /\ workers'[v] = workers[v] /\ workers[v].id = Newest(j)
    <3>1. Unfinished(v)
      BY <2>2 DEF Unfinished
    <3>2. /\ Busy(j, status[j])
          /\ \A u \in Worker :
               (/\ workers[u] # Idle /\ workers[u].kind = j
                /\ workers[u].pc = "read" /\ workers[u].id = Newest(j)) => Busy(j, workers[u].status)
      BY <2>2, <3>1 DEF FollowInv, UnfinishedIsBusy
    <3> QED
      BY <1>1, <1>2, <2>2, <3>2
  <2> QED
    BY <1>5, <2>1, <2>2
<1> QED
  BY <1>4, <1>6, <1>7 DEF FollowInv

LEMMA FollowInvNext ==
    ASSUME ZeroIsNoRequest, ~Repeats, JobInv, FollowInv, [Next]_vars
    PROVE  FollowInv'
<1>1. JobInv' /\ TypeOK
  BY JobInvNext DEF JobInv
<1>2. CASE UNCHANGED vars
  BY <1>2 DEF vars, FollowInv, JobsAreDistinct, StatusFollowsJob, UnfinishedIsBusy, JobsOf,
              Unfinished, Newest, Busy
<1>3. CASE Request
  <2>1. PICK w \in Worker :
             /\ workers[w] = Idle
             /\ \A v \in Worker \ {w} : workers'[v] = workers[v]
             /\ \/ \E k \in Kind \ Guarded :
                     /\ workers'[w] = Job(k, 0) /\ Unrecorded
                     /\ \A j \in Guarded : asked'[j] = asked[j]
                     /\ UNCHANGED triggers
                \/ \E k \in Triggerable :
                     /\ workers'[w].pc = "timer" /\ workers'[w].kind = k /\ workers'[w].step = 0
                     /\ Unrecorded /\ UNCHANGED asked /\ triggers' = triggers + 1
                \/ \E k \in Guarded : \E id \in RequestId :
                     /\ TakeOver(k, id, Busy(k, status[k]), Scheduled(k))
                     /\ workers'[w] = Job(k, id)
                     /\ UNCHANGED triggers
    BY <1>1, <1>3, RequestMoves
  <2>2. ASSUME NEW k \in Kind \ Guarded, workers'[w] = Job(k, 0), Unrecorded,
               \A j \in Guarded : asked'[j] = asked[j], UNCHANGED triggers
        PROVE  FollowInv'
    <3>1. workers'[w].pc # "read" /\ workers'[w].kind \notin Guarded
      BY <2>2 DEF Job
    <3> QED
      BY <2>1, <2>2, <3>1, OtherRequestsKeepFollowInv
  <2>3. ASSUME NEW k \in Triggerable, workers'[w].pc = "timer", workers'[w].step = 0, Unrecorded,
               UNCHANGED asked, triggers' = triggers + 1
        PROVE  FollowInv'
    BY <2>1, <2>3, OtherRequestsKeepFollowInv
  <2>4. ASSUME NEW k \in Guarded, NEW id \in RequestId,
               TakeOver(k, id, Busy(k, status[k]), Scheduled(k)),
               workers'[w] = Job(k, id), UNCHANGED triggers
        PROVE  FollowInv'
    BY <2>1, <2>4, TakeOverKeepsFollowInv
  <2> QED
    BY <2>1, <2>2, <2>3, <2>4
<1>4. ASSUME NEW w \in Worker, WorkerStep(w) PROVE FollowInv'
  BY <1>1, <1>4, WorkersKeepFollowInv
<1> QED
  BY <1>2, <1>3, <1>4 DEF Next

LEMMA FollowInvHolds ==
    ASSUME ZeroIsNoRequest, ~Repeats
    PROVE  Spec => [](JobInv /\ FollowInv)
<1>1. Init => JobInv /\ FollowInv
  BY JobInvInit, FollowInvInit
<1>2. JobInv /\ FollowInv /\ [Next]_vars => (JobInv /\ FollowInv)'
  BY JobInvNext, FollowInvNext
<1> QED
  BY <1>1, <1>2, PTL DEF Spec

\* What is recorded of logs and signed updates is where the newest job is, however
\* far the older jobs have come: if a request id is used once.
THEOREM RecordedFollowsJob ==
    ASSUME ZeroIsNoRequest, ~Repeats
    PROVE  Spec => []StatusFollowsJob
<1>1. FollowInv => StatusFollowsJob
  BY DEF FollowInv
<1> QED
  BY <1>1, FollowInvHolds, PTL

-----------------------------------------------------------------------------
(* A request that cuts a job short says so.                                 *)

LEMMA AcceptedCutsNoneShort ==
    ASSUME ZeroIsNoRequest, JobInv, FollowInv, Next, NEW k \in Guarded,
           Len(asked'[k]) > Len(asked[k]), answer'[k] = "Accepted",
           NEW v \in JobsOf(k), workers[v].id = active[k], workers[v].id # active'[k]
    PROVE  workers[v].step = Len(Ladder[k]) /\ workers[v].pc # "ready"
<1>1. TypeOK /\ Len(asked[k]) \in Nat
  <2>1. asked[k] \in Seq(RequestId)
    BY DEF JobInv, AskedById
  <2> QED
    BY <2>1, LenProperties DEF JobInv
<1>2. asked'[k] # asked[k]
  BY <1>1
<1>3. PICK id \in RequestId : TakeOver(k, id, Busy(k, status[k]), Scheduled(k))
  <2>1. \A w \in Worker : ~WorkerStep(w)
    BY <1>1, <1>2, WorkerMoves
  <2>2. Request
    BY <2>1 DEF Next
  <2> QED
    BY <1>1, <1>2, <2>2, RequestMoves
<1>4. /\ active'[k] = id
      /\ answer'[k] = IF Busy(k, status[k]) /\ active[k] # id THEN "AcceptedCanceled" ELSE "Accepted"
  BY <1>3, TakeOverAsks
<1>5. ~Busy(k, status[k])
  BY <1>4
<1>6. workers[v].id = Newest(k)
  BY JobFacts
<1>7. ~Unfinished(v)
  BY <1>5, <1>6 DEF FollowInv, UnfinishedIsBusy
<1> QED
  BY <1>7, JobFacts DEF Unfinished

\* A request is answered Accepted only if no other job still has something to
\* record: if it cuts one short, the answer is AcceptedCanceled.
THEOREM CutShortIsTold ==
    ASSUME ZeroIsNoRequest, ~Repeats
    PROVE  Spec => CancellationIsAnnounced
<1>1. ASSUME JobInv, FollowInv, [Next]_vars
      PROVE  [\A k \in Guarded : Len(asked'[k]) > Len(asked[k]) /\ answer'[k] = "Accepted" =>
                \A w \in JobsOf(k) :
                    \/ workers[w].id # active[k]
                    \/ workers[w].id = active'[k]
                    \/ workers[w].step = Len(Ladder[k]) /\ workers[w].pc # "ready"]_vars
  BY <1>1, AcceptedCutsNoneShort
<1> QED
  BY <1>1, FollowInvHolds, PTL DEF Spec, CancellationIsAnnounced
=============================================================================
