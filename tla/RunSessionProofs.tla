--------------------------- MODULE RunSessionProofs ---------------------------
(* The shutdown of "ocpp-cli run" is safe for any number of connectors and    *)
(* emitters, any capacity of the channel and every kind of error.             *)
EXTENDS RunSession, TLAPS

(* Adding events to the channel never overfills it.                           *)
LEMMA EmitBounded ==
    ASSUME NEW n \in Nat, queue \in 0 .. Capacity, Emit(n)
    PROVE  queue' \in 0 .. Capacity
  BY CapacityAssumption DEF Emit

(* classify always names a failure.                                           *)
LEMMA ClassifyFails ==
    ASSUME NEW kind \in ErrorKind, NEW fallback \in {"ErrProtocol", "ErrConnection"}
    PROVE  Classify(kind, fallback) \in Failure \ {"ErrOutput", "nil"}
  BY DEF Classify, ErrorKind, Failure

(* The error classes of this run are known to classify.                       *)
LEMMA KnownErrors == CallError \subseteq ErrorKind
  BY CallErrorAssumption

LEMMA InitTyped == Init => TypeOK
  <1> SUFFICES ASSUME Init PROVE TypeOK
    OBVIOUS
  <1>1. left \in 0 .. (NumConnectors + 1) /\ queue \in 0 .. Capacity
    BY NumConnectorsAssumption, CapacityAssumption DEF Init
  <1> QED BY <1>1 DEF Init, TypeOK, RunPC

(* Each step of Run keeps the types.                                          *)
LEMMA RunStepTyped ==
    ASSUME TypeOK, RunStep
    PROVE  TypeOK'
  <1> USE NumConnectorsAssumption, CapacityAssumption
  <1> DEFINE Ordinary == {"nil"} \cup (Failure \ {"ErrOutput"})
  <1>1. CASE RunBegin
    BY <1>1 DEF TypeOK, RunBegin, RunPC
  <1>2. CASE Connected
    BY <1>2, EmitBounded DEF TypeOK, Connected, GoTo, RunPC
  <1>3. CASE Answered
    <2>1. queue' \in 0 .. Capacity
      BY <1>3, EmitBounded DEF TypeOK, Answered
    <2>2. /\ left' \in 0 .. (NumConnectors + 1)
          /\ pc' \in RunPC
          /\ pc' \in {"announcing", "metering", "expiring"} => left' > 0
      BY <1>3 DEF TypeOK, Answered, GoTo, RunPC
    <2> QED BY <1>3, <2>1, <2>2 DEF TypeOK, Answered, GoTo
  <1>4. CASE HeartbeatAnswered
    BY <1>4, EmitBounded DEF TypeOK, HeartbeatAnswered, GoTo, RunPC
  <1>5. CASE CallCancelled
    BY <1>5, ClassifyFails DEF TypeOK, CallCancelled, Finish, RunPC, ErrorKind
  <1>6. ASSUME NEW kind \in CallError, ConnectFailed(kind) PROVE TypeOK'
    BY <1>6, ClassifyFails, KnownErrors DEF TypeOK, ConnectFailed, RunPC
  <1>7. ASSUME NEW kind \in CallError, CallFailed(kind) PROVE TypeOK'
    BY <1>7, ClassifyFails, KnownErrors DEF TypeOK, CallFailed, Finish, RunPC
  <1>8. ASSUME NEW status \in {"Accepted", "Pending", "Rejected"}, Booted(status) PROVE TypeOK'
    BY <1>8, EmitBounded DEF TypeOK, Booted, Finish, GoTo, RunPC, Failure
  <1>9. CASE HeartbeatTick
    BY <1>9 DEF TypeOK, HeartbeatTick, GoTo, RunPC
  <1>10. CASE MeterTick
    BY <1>10 DEF TypeOK, MeterTick, GoTo, RunPC
  <1>11. CASE Interrupted
    BY <1>11, EmitBounded DEF TypeOK, Interrupted, Finish, RunPC
  <1>12. ASSUME NEW n \in 0 .. NumConnectors, NEW k \in 0 .. NumConnectors, ExpiryTick(n, k)
         PROVE  TypeOK'
    <2>1. queue' \in 0 .. Capacity
      BY <1>12, EmitBounded DEF TypeOK, ExpiryTick
    <2> QED BY <1>12, <2>1 DEF TypeOK, ExpiryTick, GoTo, RunPC
  <1>13. ASSUME NEW answered \in BOOLEAN, ExpiryNotified(answered) PROVE TypeOK'
    <2>1. queue' \in 0 .. Capacity
      BY <1>13 DEF TypeOK, ExpiryNotified, Emit
    <2>2. /\ left' \in 0 .. (NumConnectors + 1)
          /\ pc' \in RunPC
          /\ pc' \in {"announcing", "metering", "expiring"} => left' > 0
      BY <1>13 DEF TypeOK, ExpiryNotified, GoTo, RunPC
    <2> QED BY <1>13, <2>1, <2>2 DEF TypeOK, ExpiryNotified, GoTo
  <1>14. ASSUME NEW kind \in CallError \cup {"none"}, TransportError(kind) PROVE TypeOK'
    <2>1. CASE kind = "none"
      BY <1>14, <2>1 DEF TypeOK, TransportError
    <2>2. CASE kind # "none"
      BY <1>14, <2>2, ClassifyFails, KnownErrors DEF TypeOK, TransportError, Finish, RunPC
    <2> QED BY <2>1, <2>2
  <1>15. CASE StopConnection
    BY <1>15 DEF TypeOK, StopConnection, RunPC
  <1>16. CASE CloseEvents
    BY <1>16 DEF TypeOK, CloseEvents, RunPC
  <1>17. CASE Deliver
    BY <1>17 DEF TypeOK, Deliver, RunPC
  <1> QED BY <1>1, <1>2, <1>3, <1>4, <1>5, <1>6, <1>7, <1>8, <1>9, <1>10, <1>11, <1>12,
             <1>13, <1>14, <1>15, <1>16, <1>17 DEF RunStep

(* So do the emitters and the command, which drains once there is a result.   *)
LEMMA NextTyped == TypeOK /\ HandOver /\ [Next]_vars => TypeOK'
  <1> SUFFICES ASSUME TypeOK, HandOver, [Next]_vars PROVE TypeOK'
    OBVIOUS
  <1> USE CapacityAssumption
  <1>1. CASE RunStep
    BY <1>1, RunStepTyped
  <1>2. ASSUME NEW e \in Emitter, EmitterEnters(e) \/ EmitterSends(e) PROVE TypeOK'
    <2>1. CASE EmitterEnters(e)
      BY <2>1 DEF TypeOK, EmitterEnters, runVars
    <2>2. CASE EmitterSends(e)
      BY <2>2, EmitBounded DEF TypeOK, EmitterSends, runVars
    <2> QED BY <1>2, <2>1, <2>2
  <1>3. CASE Interrupt
    BY <1>3 DEF TypeOK, Interrupt, runVars
  <1>4. CASE CliStep
    <2>1. CASE WriteEvent
      BY <2>1 DEF TypeOK, WriteEvent, runVars
    <2>2. CASE WriteFails
      BY <2>2 DEF TypeOK, WriteFails, Return, Failure, runVars
    <2>3. CASE EventsEnd
      BY <2>3 DEF TypeOK, EventsEnd, runVars
    <2>4. CASE TakeResult
      BY <2>4 DEF TypeOK, TakeResult, Return, Failure, runVars
    <2>5. CASE ResultArrives
      BY <2>5 DEF TypeOK, ResultArrives, runVars
    <2>6. CASE Drained
      <3>1. result # "empty"
        BY <2>6 DEF Drained, HandOver
      <3> QED BY <2>6, <3>1 DEF TypeOK, Drained, Return, Failure, runVars
    <2> QED BY <1>4, <2>1, <2>2, <2>3, <2>4, <2>5, <2>6 DEF CliStep
  <1>5. CASE UNCHANGED vars
    BY <1>5 DEF TypeOK, vars, runVars
  <1> QED BY <1>1, <1>2, <1>3, <1>4, <1>5 DEF Next

(* Nothing is closed, delivered or returned at the start.                     *)
LEMMA InitSafe == Init => SafetyInv
  BY DEF Init, SafetyInv, SendsPrecedeClose, AcceptedIsWritten, ExitTellsOutcome,
         SuccessNeedsInterrupt, HandOver

(* A step of Run, while the command has not returned.                         *)
LEMMA RunStepSafe ==
    ASSUME TypeOK, SafetyInv, cli # "exited", RunStep
    PROVE  SafetyInv'
  <1> USE DEF SafetyInv, SendsPrecedeClose, AcceptedIsWritten, ExitTellsOutcome,
              SuccessNeedsInterrupt, HandOver
  <1> USE DEF TypeOK
  <1>1. CASE RunBegin
    BY <1>1 DEF RunBegin
  <1>2. CASE Connected
    BY <1>2 DEF Connected, GoTo
  <1>3. CASE Answered
    BY <1>3 DEF Answered, GoTo
  <1>4. CASE HeartbeatAnswered
    BY <1>4 DEF HeartbeatAnswered, GoTo
  <1>5. CASE CallCancelled
    BY <1>5 DEF CallCancelled, Finish
  <1>6. ASSUME NEW kind \in CallError, ConnectFailed(kind) PROVE SafetyInv'
    <2>1. outcome' # "nil"
      BY <1>6, ClassifyFails, KnownErrors DEF ConnectFailed
    <2> QED BY <1>6, <2>1 DEF ConnectFailed
  <1>7. ASSUME NEW kind \in CallError, CallFailed(kind) PROVE SafetyInv'
    <2>1. outcome' # "nil"
      BY <1>7, ClassifyFails, KnownErrors DEF CallFailed, Finish
    <2> QED BY <1>7, <2>1 DEF CallFailed, Finish
  <1>8. ASSUME NEW status \in {"Accepted", "Pending", "Rejected"}, Booted(status) PROVE SafetyInv'
    BY <1>8 DEF Booted, Finish, GoTo
  <1>9. CASE HeartbeatTick
    BY <1>9 DEF HeartbeatTick, GoTo
  <1>10. CASE MeterTick
    BY <1>10 DEF MeterTick, GoTo
  <1>11. CASE Interrupted
    BY <1>11 DEF Interrupted, Finish
  <1>12. ASSUME NEW n \in 0 .. NumConnectors, NEW k \in 0 .. NumConnectors, ExpiryTick(n, k)
         PROVE  SafetyInv'
    BY <1>12 DEF ExpiryTick, GoTo
  <1>13. ASSUME NEW answered \in BOOLEAN, ExpiryNotified(answered) PROVE SafetyInv'
    BY <1>13 DEF ExpiryNotified, GoTo
  <1>14. ASSUME NEW kind \in CallError \cup {"none"}, TransportError(kind) PROVE SafetyInv'
    <2>1. CASE kind = "none"
      BY <1>14, <2>1 DEF TransportError
    <2>2. CASE kind # "none"
      <3>1. outcome' # "nil"
        BY <1>14, <2>2, ClassifyFails, KnownErrors DEF TransportError, Finish
      <3> QED BY <1>14, <2>2, <3>1 DEF TransportError, Finish
    <2> QED BY <2>1, <2>2
  <1>15. CASE StopConnection
    BY <1>15 DEF StopConnection
  <1>16. CASE CloseEvents
    BY <1>16 DEF CloseEvents
  <1>17. CASE Deliver
    BY <1>17 DEF Deliver
  <1> QED BY <1>1, <1>2, <1>3, <1>4, <1>5, <1>6, <1>7, <1>8, <1>9, <1>10, <1>11, <1>12,
             <1>13, <1>14, <1>15, <1>16, <1>17 DEF RunStep

(* A step of the emitters, the environment or the command.                    *)
LEMMA NextSafe == TypeOK /\ SafetyInv /\ [Next]_vars => SafetyInv'
  <1> SUFFICES ASSUME TypeOK, SafetyInv, [Next]_vars PROVE SafetyInv'
    OBVIOUS
  <1>1. CASE cli # "exited" /\ RunStep
    BY <1>1, RunStepSafe
  <1> USE DEF SafetyInv, SendsPrecedeClose, AcceptedIsWritten, ExitTellsOutcome,
              SuccessNeedsInterrupt, HandOver, runVars
  <1>2. ASSUME NEW e \in Emitter, cli # "exited", EmitterEnters(e) \/ EmitterSends(e)
        PROVE  SafetyInv'
    <2>1. CASE EmitterEnters(e)
      BY <1>2, <2>1 DEF EmitterEnters
    <2>2. CASE EmitterSends(e)
      BY <1>2, <2>2 DEF EmitterSends
    <2> QED BY <1>2, <2>1, <2>2
  <1>3. CASE cli # "exited" /\ Interrupt
    BY <1>3 DEF Interrupt
  <1>4. CASE cli # "exited" /\ CliStep
    <2> USE <1>4
    <2>1. CASE WriteEvent
      BY <2>1 DEF WriteEvent, TypeOK
    <2>2. CASE WriteFails
      BY <2>2 DEF WriteFails, Return
    <2>3. CASE EventsEnd
      BY <2>3 DEF EventsEnd
    <2>4. CASE TakeResult
      BY <2>4 DEF TakeResult, Return
    <2>5. CASE ResultArrives
      BY <2>5 DEF ResultArrives
    <2>6. CASE Drained
      BY <2>6 DEF Drained, Return
    <2> QED BY <1>4, <2>1, <2>2, <2>3, <2>4, <2>5, <2>6 DEF CliStep
  <1>5. CASE UNCHANGED vars
    BY <1>5 DEF vars
  <1> QED BY <1>1, <1>2, <1>3, <1>4, <1>5 DEF Next

(* Types and hand-over need each other: the command drains only what has a     *)
(* result, and a result is an outcome.                                        *)
LEMMA Inductive == Spec => [](TypeOK /\ SafetyInv)
  <1>1. Init => TypeOK /\ SafetyInv
    BY InitTyped, InitSafe
  <1>2. (TypeOK /\ SafetyInv) /\ [Next]_vars => (TypeOK /\ SafetyInv)'
    BY NextTyped, NextSafe DEF SafetyInv
  <1> QED BY <1>1, <1>2, PTL DEF Spec

(* emit never sends on the closed channel (a panic in Go): close waits for the *)
(* emitters inside, and later ones see eventsClosed.                          *)
THEOREM NoSendAfterClose == Spec => []SendsPrecedeClose
  <1>1. SafetyInv => SendsPrecedeClose
    BY DEF SafetyInv
  <1> QED BY Inductive, <1>1, PTL

(* When runSimulator returns, every event that emit accepted has been written, *)
(* unless writing one of them failed.                                         *)
THEOREM NothingAcceptedIsLost == Spec => []AcceptedIsWritten
  <1>1. SafetyInv => AcceptedIsWritten
    BY DEF SafetyInv
  <1> QED BY Inductive, <1>1, PTL

(* runSimulator returns the outcome of Run, or the error of its output.        *)
THEOREM OutcomeIsReported == Spec => []ExitTellsOutcome
  <1>1. SafetyInv => ExitTellsOutcome
    BY DEF SafetyInv
  <1> QED BY Inductive, <1>1, PTL

(* A run that ends without an error was interrupted: a lost connection or a    *)
(* failing call is never taken for success.                                   *)
THEOREM SuccessIsInterrupted == Spec => []SuccessNeedsInterrupt
  <1>1. SafetyInv => SuccessNeedsInterrupt
    BY DEF SafetyInv
  <1> QED BY Inductive, <1>1, PTL
=============================================================================
