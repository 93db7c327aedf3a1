------------------------------ MODULE RunSession ------------------------------
(***************************************************************************)
(* One invocation of "ocpp-cli run": the command (App.runSimulator), the   *)
(* goroutine of simulator.Run it starts, the goroutines that emit events   *)
(* meanwhile (handlers, remote transactions, simulated uploads), and the   *)
(* channel of events between them.                                         *)
(*                                                                         *)
(* Run waits for a reply of the central system in await, which gives up    *)
(* when the context is done.  The emitters hold the read lock eventMu      *)
(* around a check of eventsClosed and a send that never blocks; close      *)
(* takes the write lock.                                                   *)
(*                                                                         *)
(* An event is only counted, a call only ends well or with a kind of       *)
(* error.  The process ends when the command returns, so no step follows.  *)
(* Definitions marked "faulty variant" are no part of the specification.   *)
(***************************************************************************)
EXTENDS Integers, FiniteSets, Classification

CONSTANTS
    NumConnectors, \* opts.Connectors
    Emitter,       \* goroutines that emit next to Run
    Capacity,      \* the buffer of the event channel, 256 in the code
    CallError,     \* bound: the kinds of errors calls end with
    WriteErrors    \* bound: whether writing an event may fail

ASSUME NumConnectorsAssumption == NumConnectors \in Nat \ {0}
ASSUME CapacityAssumption == Capacity \in Nat
ASSUME CallErrorAssumption == CallError \subseteq ErrorKind
ASSUME WriteErrorsAssumption == WriteErrors \in BOOLEAN

VARIABLES
    ctx,       \* "live", or "done" after a signal or the end of --duration
    pc,        \* where simulator.Run is
    left,      \* notifications or samples left in its present loop
    listening, \* errorC # nil
    outcome,   \* the error Run returns, "nil" for none
    result,    \* runResult, a channel with room for one value
    queue,     \* number of events in the channel
    closed,    \* eventsClosed, and the channel is closed
    sending,   \* emitters past the check of eventsClosed, holding the read lock
    cli,       \* where App.runSimulator is
    exit       \* the error it returns

runVars == <<pc, left, listening, outcome>>
vars == <<ctx, runVars, result, queue, closed, sending, cli, exit>>

Failure == {"ErrTimeout", "ErrProtocol", "ErrConnection", "ErrAuthSecurity", "ErrRejected", "ErrOutput"}
RunPC == {"begin", "connecting", "booting", "announcing", "looping", "beating",
          "metering", "expiring", "stopping", "closing", "returning", "returned"}

TypeOK ==
    /\ ctx \in {"live", "done"}
    /\ pc \in RunPC
    /\ left \in 0 .. (NumConnectors + 1)
    /\ pc \in {"announcing", "metering", "expiring"} => left > 0
    /\ listening \in BOOLEAN
    /\ outcome \in {"nil"} \cup (Failure \ {"ErrOutput"})
    /\ result \in {"empty", "nil"} \cup (Failure \ {"ErrOutput"})
    /\ queue \in 0 .. Capacity
    /\ closed \in BOOLEAN
    /\ sending \subseteq Emitter
    /\ cli \in {"selecting", "awaitingResult", "draining", "exited"}
    /\ exit \in {"nil"} \cup Failure

Init ==
    /\ ctx = "live"
    /\ pc = "begin"
    /\ left = 0
    /\ listening = TRUE
    /\ outcome = "nil"
    /\ result = "empty"
    /\ queue = 0
    /\ closed = FALSE
    /\ sending = {}
    /\ cli = "selecting"
    /\ exit = "nil"

-----------------------------------------------------------------------------
(* simulator.Run.                                                           *)

\* emit in Run's own goroutine, n times: what does not fit is dropped.
Emit(n) == queue' = IF queue + n < Capacity THEN queue + n ELSE Capacity

\* Faulty variant: the deferred close is missing.
FinishUnclosed(failure) == pc' = "returning" /\ outcome' = failure
\* A return statement of Run after the deferred close is set up.
Finish(failure) == pc' = "stopping" /\ outcome' = failure

GoTo(p, n) == pc' = p /\ left' = n /\ UNCHANGED outcome

\* Before anything is set up: the context may be done already.
RunBegin ==
    /\ pc = "begin"
    /\ pc' = IF ctx = "done" THEN "returning" ELSE "connecting"
    /\ UNCHANGED <<ctx, left, listening, outcome, result, queue, closed, sending, cli, exit>>

\* cp.Start succeeds, or fails and Run returns before close is deferred.
Connected ==
    /\ pc = "connecting"
    /\ GoTo("booting", 0)
    /\ Emit(1)
    /\ UNCHANGED <<ctx, listening, result, closed, sending, cli, exit>>

ConnectFailed(kind) ==
    /\ pc = "connecting"
    /\ pc' = "returning"
    /\ outcome' = Classify(kind, "ErrConnection")
    /\ UNCHANGED <<ctx, left, listening, result, queue, closed, sending, cli, exit>>

\* sendBootNotification is answered; anything but Rejected lets Run go on.
Booted(status) ==
    /\ pc = "booting"
    /\ Emit(1)
    /\ IF status = "Rejected"
       THEN Finish("ErrRejected") /\ UNCHANGED left
       ELSE GoTo("announcing", NumConnectors + 1)
    /\ UNCHANGED <<ctx, listening, result, closed, sending, cli, exit>>

\* sendInitialStatuses, connector 0 first, and sendMeterValues, one call each.
Answered ==
    /\ pc \in {"announcing", "metering"}
    /\ Emit(1)
    /\ IF left = 1 THEN GoTo("looping", 0) ELSE GoTo(pc, left - 1)
    /\ UNCHANGED <<ctx, listening, result, closed, sending, cli, exit>>

\* sendHeartbeat is answered.
HeartbeatAnswered ==
    /\ pc = "beating"
    /\ Emit(1)
    /\ GoTo("looping", 0)
    /\ UNCHANGED <<ctx, listening, result, closed, sending, cli, exit>>

\* One of these calls fails: Run ends with the error.
CallFailed(kind) ==
    /\ pc \in {"booting", "announcing", "beating", "metering"}
    /\ Finish(Classify(kind, "ErrProtocol"))
    /\ UNCHANGED <<ctx, left, listening, result, queue, closed, sending, cli, exit>>

\* await finds the context done and reports ErrTimeout, whatever the reply.
CallCancelled ==
    /\ ctx = "done"
    /\ pc \in {"booting", "announcing", "beating", "metering"}
    /\ Finish(Classify("timeout", "ErrProtocol"))
    /\ UNCHANGED <<ctx, left, listening, result, queue, closed, sending, cli, exit>>

\* The cases of the select in the loop.
HeartbeatTick ==
    /\ pc = "looping"
    /\ GoTo("beating", 0)
    /\ UNCHANGED <<ctx, listening, result, queue, closed, sending, cli, exit>>

MeterTick ==
    /\ pc = "looping"
    /\ GoTo("metering", NumConnectors)
    /\ UNCHANGED <<ctx, listening, result, queue, closed, sending, cli, exit>>

\* expireReservations drops n reservations and tells of k connectors.
ExpiryTick(n, k) ==
    /\ pc = "looping"
    /\ k <= n
    /\ Emit(n)
    /\ IF k = 0 THEN GoTo("looping", 0) ELSE GoTo("expiring", k)
    /\ UNCHANGED <<ctx, listening, result, closed, sending, cli, exit>>

\* Its notifications may fail, be cancelled or be left out when the connection
\* is down, all without consequence.
ExpiryNotified(answered) ==
    /\ pc = "expiring"
    /\ Emit(IF answered THEN 1 ELSE 0)
    /\ IF left = 1 THEN GoTo("looping", 0) ELSE GoTo(pc, left - 1)
    /\ UNCHANGED <<ctx, listening, result, closed, sending, cli, exit>>

\* Faulty variant: the end of the error channel is taken for the end of the run.
TransportErrorEnding(kind) ==
    /\ pc = "looping"
    /\ listening
    /\ Finish(IF kind = "none" THEN "nil" ELSE Classify(kind, "ErrConnection"))
    /\ UNCHANGED <<ctx, left, listening, result, queue, closed, sending, cli, exit>>
\* cp.Errors() delivers an error, or nil or its end, which closes the case.
TransportError(kind) ==
    /\ pc = "looping"
    /\ listening
    /\ IF kind = "none"
       THEN listening' = FALSE /\ UNCHANGED <<pc, outcome>>
       ELSE Finish(Classify(kind, "ErrConnection")) /\ UNCHANGED listening
    /\ UNCHANGED <<ctx, left, result, queue, closed, sending, cli, exit>>

Interrupted ==
    /\ pc = "looping"
    /\ ctx = "done"
    /\ Emit(1)
    /\ Finish("nil")
    /\ UNCHANGED <<ctx, left, listening, result, closed, sending, cli, exit>>

\* close: the connection is stopped, then the write lock is asked for, ...
StopConnection ==
    /\ pc = "stopping"
    /\ pc' = "closing"
    /\ UNCHANGED <<ctx, left, listening, outcome, result, queue, closed, sending, cli, exit>>

\* Faulty variant: close without the write lock.
CloseEventsUnlocked ==
    /\ pc = "closing"
    /\ closed' = TRUE
    /\ pc' = "returning"
    /\ UNCHANGED <<ctx, left, listening, outcome, result, queue, sending, cli, exit>>
\* ... which is granted when no emitter is left inside.
CloseEvents ==
    /\ pc = "closing"
    /\ sending = {}
    /\ closed' = TRUE
    /\ pc' = "returning"
    /\ UNCHANGED <<ctx, left, listening, outcome, result, queue, sending, cli, exit>>

\* The goroutine of the command passes the outcome on.
Deliver ==
    /\ pc = "returning"
    /\ result' = outcome
    /\ pc' = "returned"
    /\ UNCHANGED <<ctx, left, listening, outcome, queue, closed, sending, cli, exit>>

-----------------------------------------------------------------------------
(* The other emitters.  There are none before cp.Start has succeeded.       *)

Started == closed \/ pc \notin {"begin", "connecting", "returning", "returned"}

\* emit takes the read lock, for which it waits behind a pending close, and
\* finds the events open; once they are closed it does nothing.
EmitterEnters(e) ==
    /\ Started
    /\ pc # "closing"
    /\ ~closed
    /\ sending' = sending \cup {e}
    /\ UNCHANGED <<ctx, runVars, result, queue, closed, cli, exit>>

EmitterSends(e) ==
    /\ e \in sending
    /\ Emit(1)
    /\ sending' = sending \ {e}
    /\ UNCHANGED <<ctx, runVars, result, closed, cli, exit>>

-----------------------------------------------------------------------------
(* App.runSimulator.                                                        *)

\* A signal arrives or --duration is over.
Interrupt ==
    /\ ctx = "live"
    /\ ctx' = "done"
    /\ UNCHANGED <<runVars, result, queue, closed, sending, cli, exit>>

Return(error) == cli' = "exited" /\ exit' = error

\* An event is taken from the channel and written.
WriteEvent ==
    /\ cli \in {"selecting", "draining"}
    /\ queue > 0
    /\ queue' = queue - 1
    /\ UNCHANGED <<ctx, runVars, result, closed, sending, cli, exit>>

\* Writing fails: in the select loop the context is cancelled as well.
WriteFails ==
    /\ WriteErrors
    /\ cli \in {"selecting", "draining"}
    /\ queue > 0
    /\ queue' = queue - 1
    /\ ctx' = IF cli = "selecting" THEN "done" ELSE ctx
    /\ Return("ErrOutput")
    /\ UNCHANGED <<runVars, result, closed, sending>>

\* Faulty variant: the command returns as soon as the events end.
EventsEndAtOnce ==
    /\ cli = "selecting"
    /\ closed /\ queue = 0
    /\ Return("nil")
    /\ UNCHANGED <<ctx, runVars, result, queue, closed, sending>>
\* The select loop finds the channel closed and empty, and waits for the result.
EventsEnd ==
    /\ cli = "selecting"
    /\ closed /\ queue = 0
    /\ cli' = "awaitingResult"
    /\ UNCHANGED <<ctx, runVars, result, queue, closed, sending, exit>>

TakeResult ==
    /\ cli = "awaitingResult"
    /\ result # "empty"
    /\ Return(result)
    /\ UNCHANGED <<ctx, runVars, result, queue, closed, sending>>

\* Faulty variant: what is left in the channel is not written.
ResultReturned ==
    /\ cli = "selecting"
    /\ result # "empty"
    /\ Return(result)
    /\ UNCHANGED <<ctx, runVars, result, queue, closed, sending>>
\* The select loop receives the result: the rest of the events is read ...
ResultArrives ==
    /\ cli = "selecting"
    /\ result # "empty"
    /\ cli' = "draining"
    /\ UNCHANGED <<ctx, runVars, result, queue, closed, sending, exit>>

\* ... until the channel is closed and empty.
Drained ==
    /\ cli = "draining"
    /\ closed /\ queue = 0
    /\ Return(result)
    /\ UNCHANGED <<ctx, runVars, result, queue, closed, sending>>

-----------------------------------------------------------------------------
RunStep ==
    \/ RunBegin \/ Connected \/ Answered \/ HeartbeatAnswered \/ CallCancelled
    \/ \E kind \in CallError : ConnectFailed(kind) \/ CallFailed(kind)
    \/ \E status \in {"Accepted", "Pending", "Rejected"} : Booted(status)
    \/ HeartbeatTick \/ MeterTick \/ Interrupted
    \/ \E n, k \in 0 .. NumConnectors : ExpiryTick(n, k)
    \/ \E answered \in BOOLEAN : ExpiryNotified(answered)
    \/ \E kind \in CallError \cup {"none"} : TransportError(kind)
    \/ StopConnection \/ CloseEvents \/ Deliver

CliStep == WriteEvent \/ WriteFails \/ EventsEnd \/ TakeResult \/ ResultArrives \/ Drained

Next ==
    /\ cli # "exited"
    /\ \/ RunStep
       \/ \E e \in Emitter : EmitterEnters(e) \/ EmitterSends(e)
       \/ Interrupt
       \/ CliStep

Spec == Init /\ [][Next]_vars

\* Every goroutine keeps running, every call and every write ends.  Among the
\* cases that are ready select picks one at random, so it does not pass over
\* the end of the context for ever.
Fairness ==
    /\ WF_vars(cli # "exited" /\ RunStep)
    /\ SF_vars(cli # "exited" /\ Interrupted)
    /\ \A e \in Emitter : WF_vars(cli # "exited" /\ EmitterSends(e))
    /\ WF_vars(cli # "exited" /\ CliStep)

FairSpec == Spec /\ Fairness

-----------------------------------------------------------------------------
(* Safety.                                                                  *)

\* No goroutine sends on the channel after close closed it, which would panic,
\* although the emitters outlive Run.
SendsPrecedeClose == closed => sending = {}

\* The command leaves no event behind that emit accepted, in whichever order the
\* end of the events and the result of Run reach its select, unless its own
\* output fails.
AcceptedIsWritten == cli = "exited" /\ exit # "ErrOutput" => queue = 0 /\ sending = {}

\* What the command returns is what Run returned, unless its own output fails.
ExitTellsOutcome == cli = "exited" /\ exit # "ErrOutput" => exit = outcome /\ pc = "returned"

\* The station stops without an error only because it was asked to: neither an
\* answer of the central system nor the end of the error channel does it.
SuccessNeedsInterrupt ==
    pc \in {"stopping", "closing", "returning", "returned"} /\ outcome = "nil" => ctx = "done"

\* How the two goroutines hand over: the outcome is delivered once, as it was
\* returned, and the command moves on to drain or to wait only when the events
\* have ended or the outcome is there.
HandOver ==
    /\ closed => pc \in {"returning", "returned"}
    /\ result # "empty" => result = outcome /\ pc = "returned"
    /\ cli = "draining" => result # "empty"
    /\ cli = "awaitingResult" => closed /\ queue = 0

\* The inductive invariant.
SafetyInv ==
    SendsPrecedeClose /\ AcceptedIsWritten /\ ExitTellsOutcome /\ SuccessNeedsInterrupt /\ HandOver

-----------------------------------------------------------------------------
(* Liveness, under Fairness.                                                *)

\* Once connected, a signal, the end of --duration or a return of Run ends the
\* process, whatever the central system answers or leaves unanswered, and
\* whatever other goroutines emit meanwhile.
EndIsReached == Started /\ (ctx = "done" \/ pc = "stopping") ~> cli = "exited"
=============================================================================
