-------------------------------- MODULE Metering --------------------------------
(***************************************************************************)
(* Station together with its energy meters and with what the central       *)
(* system is told of them: StartTransaction and StopTransaction carry a    *)
(* reading, MeterValues carry samples with the id of the transaction.      *)
(*                                                                         *)
(* A reading is taken in a critical section of its own and sent after it:  *)
(* by the goroutine of the transaction, by the run loop, which samples all *)
(* connectors at once and then sends the samples one by one, or by the     *)
(* goroutine of a trigger.  Between the reading and the message anything   *)
(* may happen to the connector.                                            *)
(*                                                                         *)
(* The tag that StopTransaction carries, timestamps and units are left     *)
(* out.  A sample that cannot be sent ends the run, see RunSession.        *)
(* Definitions marked "faulty variant" are no part of the specification.   *)
(***************************************************************************)
EXTENDS Station, Sequences

CONSTANTS
    MeterStart,  \* opts.MeterStart
    MeterStep,   \* opts.MeterStep
    MaxMeter     \* bound: the reading at which the meters stop

ASSUME MeterAssumption == MeterStart \in Nat /\ MeterStep \in Nat /\ MaxMeter \in Nat

VARIABLES
    meter,     \* connectorState.meter
    readings,  \* what the goroutine of a task has read to send
    bills,     \* what the central system knows of a transaction
    samples,   \* the samples of the last tick, still to be sent
    triggered  \* the sample of a trigger, still to be sent

meterVars == <<meter, readings, bills, samples, triggered>>
meteringVars == <<vars, meterVars>>

None == [meter |-> -1]
NoBill == [connector |-> 0, start |-> 0, stops |-> {}]

MeterInit ==
    /\ Init
    /\ meter = [c \in Connector |-> MeterStart]
    /\ readings = [t \in Task |-> None]
    /\ bills = [x \in TransactionId |-> NoBill]
    /\ samples = <<>>
    /\ triggered = None

Sample(c, register) == [connector |-> c, meter |-> register[c], tx |-> transactionID[c]]

-----------------------------------------------------------------------------
(* The run loop and the triggers.                                           *)

\* sendMeterValues: the meters advance and are sampled in one critical section.
MeterTick ==
    /\ samples = <<>>
    /\ \A c \in Connector : meter[c] + MeterStep <= MaxMeter
    /\ meter' = [c \in Connector |-> meter[c] + MeterStep]
    /\ samples' = [c \in Connector |-> Sample(c, meter')]
    /\ UNCHANGED <<vars, readings, bills, triggered>>

\* sendMeterSample: the next one is received.
SampleReceived ==
    /\ samples # <<>>
    /\ samples' = Tail(samples)
    /\ UNCHANGED <<vars, meter, readings, bills, triggered>>

\* sendTriggeredMeterValues for a connector: reads and does not advance.  It
\* asks for several connectors one after the other.
TriggerReads(c) ==
    /\ triggered = None
    /\ triggered' = Sample(c, meter)
    /\ UNCHANGED <<vars, meter, readings, bills, samples>>

TriggerSent ==
    /\ triggered # None
    /\ triggered' = None
    /\ UNCHANGED <<vars, meter, readings, bills, samples>>

-----------------------------------------------------------------------------
(* The goroutines of transactions.                                          *)

\* beginRemoteTransaction reads meterStart, finishRemoteTransaction meterStop.
TaskReads(t) ==
    /\ tasks[t].pc \in {"starting", "finishing"}
    /\ readings[t] = None
    /\ readings' = [readings EXCEPT ![t] = [meter |-> meter[tasks[t].connector]]]
    /\ UNCHANGED <<vars, meter, bills, samples, triggered>>

Forget(t) == readings' = [readings EXCEPT ![t] = None]

\* The central system handles StartTransaction.
StartBilled(t) ==
    /\ readings[t] # None
    /\ CentralSystemStarts(t)
    /\ bills' = [bills EXCEPT ![FirstTransaction + issued] =
                   [connector |-> tasks[t].connector, start |-> readings[t].meter, stops |-> {}]]
    /\ Forget(t)
    /\ UNCHANGED <<meter, samples, triggered>>

\* The central system handles StopTransaction; the reply follows, or is lost.
StopBilled(t) ==
    /\ tasks[t].pc = "finishing"
    /\ readings[t] # None
    /\ bills' = [bills EXCEPT ![tasks[t].tx].stops = @ \cup {readings[t].meter}]
    /\ \/ StopConfirmed(t)
       \/ StopFailed(t)
    /\ Forget(t)
    /\ UNCHANGED <<meter, samples, triggered>>

\* StopTransaction is not handled.
StopUnbilled(t) ==
    /\ readings[t] # None
    /\ StopFailed(t)
    /\ Forget(t)
    /\ UNCHANGED <<meter, bills, samples, triggered>>

StartEnds(t) ==
    /\ StartConfirmed(t) \/ StartAbandoned(t)
    /\ Forget(t)
    /\ UNCHANGED <<meter, bills, samples, triggered>>

StartGoesOn(t) == (Prepared(t) \/ Authorized(t)) /\ UNCHANGED meterVars

-----------------------------------------------------------------------------
\* Faulty variant: a reset also clears the registers.
RequestClearingMeters ==
    /\ \/ Request /\ UNCHANGED meter
       \/ Reset /\ meter' = [c \in Connector |-> MeterStart]
    /\ UNCHANGED <<readings, bills, samples, triggered>>
\* No request touches a meter.
MeteredRequest == Request /\ UNCHANGED meterVars

MeteredTask(t) ==
    \/ StartGoesOn(t) \/ TaskReads(t) \/ StartBilled(t) \/ StartEnds(t)
    \/ StopBilled(t) \/ StopUnbilled(t)

MeterNext ==
    \/ MeteredRequest
    \/ \E t \in Task : MeteredTask(t)
    \/ \E r \in ReservationId : (Lapse(r) \/ Sweep(r)) /\ UNCHANGED meterVars
    \/ MeterTick \/ SampleReceived
    \/ \E c \in Connector : TriggerReads(c)
    \/ TriggerSent

MeterSpec == MeterInit /\ [][MeterNext]_meteringVars

-----------------------------------------------------------------------------
(* Safety.                                                                  *)

\* A transaction is never stopped below the reading it was started with, however
\* often it is stopped, and whatever resets, late replies and other starts on its
\* connector come between the two readings.
StopsFollowStart ==
    \A x \in TransactionId : \A reading \in bills[x].stops : bills[x].start <= reading

Underway == {samples[i] : i \in DOMAIN samples} \cup ({triggered} \ {None})

\* A sample that names a transaction was taken on the connector the central system
\* started it on and after it was started, by the meter as well; a sample that
\* waits while its transaction is stopped still is one of it.
SamplesBelongToTransaction ==
    \A s \in Underway : s.tx # 0 =>
        /\ bills[s.tx].connector = s.connector
        /\ bills[s.tx].start <= s.meter /\ s.meter <= meter[s.connector]
=============================================================================
