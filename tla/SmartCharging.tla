----------------------------- MODULE SmartCharging -----------------------------
(***************************************************************************)
(* Station together with the smart-charging profile: the charging profiles *)
(* the central system installs and clears, and the composite schedules it  *)
(* asks for (internal/ocppclient/simulator_optional_profiles.go).          *)
(*                                                                         *)
(* The profiles are a Go map by profile id.  A request that reads them all *)
(* walks the map in any order, so an answer is a set of possible ones.     *)
(* Nothing ever removes a profile but ClearChargingProfile and a profile   *)
(* with the same id: what was installed for a transaction stays when the   *)
(* transaction is over, and a composite schedule has to pass over it.      *)
(*                                                                         *)
(* A profile is a record; its schedule is reduced to the rate unit.  A     *)
(* request without a profile and a profile without a schedule do not pass  *)
(* the validation of the OCPP library.  The clock is reduced to the        *)
(* moments at which windows of validity open and close.                    *)
(* Definitions marked "faulty variant" are no part of the specification.   *)
(***************************************************************************)
EXTENDS Station, SequencesExt

CONSTANT LastMoment  \* bound: the clock stops there

ASSUME LastMomentAssumption == LastMoment \in Nat

VARIABLES
    now,    \* the clock, in moments of interest
    ended   \* transactions a connector held once and none holds any more

chargingVars == <<vars, now, ended>>

Purpose == {"ChargePointMaxProfile", "TxDefaultProfile", "TxProfile"}
RateUnit == {"A", "W"}
Moment == 0 .. LastMoment
Unset == -1  \* a field of a request or a profile that is not given

ASSUME ChargingProfileAssumption ==
    \A p \in ChargingProfile :
        /\ p.id \in Nat /\ p.stackLevel \in Nat /\ p.purpose \in Purpose
        /\ p.transactionId \in {0} \cup TransactionId
        /\ p.validFrom \in {Unset} \cup Moment /\ p.validTo \in {Unset} \cup Moment
        /\ p.unit \in RateUnit

ChargingInit == Init /\ now = 0 /\ ended = {}

-----------------------------------------------------------------------------
(* Requests about profiles.                                                 *)

\* OnSetChargingProfile, for a connector the station has.
SetChargingProfile(k, p) ==
    /\ k \in {0} \cup Connector
    /\ chargingProfiles' = {s \in chargingProfiles : s.profile.id # p.id}
                           \cup {[connector |-> k, profile |-> p]}
    /\ UNCHANGED <<connectorVars, reservations, authorizeRemote, tasks, issued, now, ended>>

\* chargingProfileMatchesClear
MatchesClear(s, request) ==
    /\ request.id \in {Unset, s.profile.id}
    /\ request.connector \in {Unset, s.connector}
    /\ request.stackLevel \in {Unset, s.profile.stackLevel}
    /\ request.purpose \in {"", s.profile.purpose}

\* OnClearChargingProfile, when it removes something.
ClearChargingProfile(request) ==
    /\ \E s \in chargingProfiles : MatchesClear(s, request)
    /\ chargingProfiles' = {s \in chargingProfiles : ~MatchesClear(s, request)}
    /\ UNCHANGED <<connectorVars, reservations, authorizeRemote, tasks, issued, now, ended>>

ClearRequest ==
    [id : {Unset} \cup {p.id : p \in ChargingProfile},
     connector : {Unset, 0} \cup Connector,
     stackLevel : {Unset} \cup {p.stackLevel : p \in ChargingProfile},
     purpose : {""} \cup Purpose]

-----------------------------------------------------------------------------
(* Composite schedules.                                                     *)

\* The window of validity, which includes its first moment and not its last.
Valid(p) ==
    /\ p.validFrom # Unset => p.validFrom <= now
    /\ p.validTo # Unset => now < p.validTo

\* Faulty variant: any transaction of the connector will do.
AppliesToAnyTransaction(s, k) ==
    /\ s.connector \in {0, k}
    /\ Valid(s.profile)
    /\ s.profile.purpose = "TxProfile" /\ k > 0 => transactionID[k] # 0
\* What activeChargingProfileLocked passes over for connector k, and what not.
\* The station itself, connector 0, has no transaction to compare with.
Applies(s, k) ==
    /\ s.connector \in {0, k}
    /\ Valid(s.profile)
    /\ s.profile.purpose = "TxProfile" /\ k > 0 =>
          /\ transactionID[k] # 0
          /\ s.profile.transactionId \in {0, transactionID[k]}

\* Faulty variant: the first profile that applies is taken.
SelectFirst(selected, s, k) ==
    IF Applies(s, k) /\ selected = {} THEN {s.profile} ELSE selected
\* What the loop of activeChargingProfileLocked keeps when it comes to s: the
\* profile selected so far, as a set of one, or {} for none.
Select(selected, s, k) ==
    IF Applies(s, k) /\ \A p \in selected : s.profile.stackLevel > p.stackLevel
    THEN {s.profile} ELSE selected

\* activeChargingProfileLocked: what is selected after one walk of the map, and
\* what may be after any.
Selected(order, k) ==
    LET selected[n \in 0 .. Len(order)] ==
            IF n = 0 THEN {} ELSE Select(selected[n - 1], order[n], k)
    IN  selected[Len(order)]

Active(k) == {Selected(order, k) : order \in SetToSeqs(chargingProfiles)}

Rejected == [status |-> "Rejected"]
Accepted(unit, profile) == [status |-> "Accepted", unit |-> unit, profile |-> profile]

\* OnGetCompositeSchedule: the possible answers to a request in a unit, or in
\* none ("").  Where no profile is active there is a default for either unit.
CompositeSchedule(k, unit) ==
    IF k \notin {0} \cup Connector THEN {Rejected}
    ELSE {IF profile = {}
          THEN Accepted(IF unit = "" THEN "A" ELSE unit, {})
          ELSE LET p == CHOOSE p \in profile : TRUE
               IN  IF unit \in {"", p.unit} THEN Accepted(p.unit, profile) ELSE Rejected
          : profile \in Active(k)}

-----------------------------------------------------------------------------
\* What a step of the station ends, by a confirmed stop, a reset, or a
\* confirmation that overwrites the connector.
Ending == {x \in TransactionId : HeldBy(x) # {} /\ HeldBy(x)' = {}}

StationStep ==
    /\ Request \/ (\E t \in Task : TaskStep(t))
    /\ ended' = ended \cup Ending
    /\ UNCHANGED now

Tick ==
    /\ now < LastMoment
    /\ now' = now + 1
    /\ UNCHANGED <<vars, ended>>

ChargingNext ==
    \/ StationStep
    \/ \E r \in ReservationId : (Lapse(r) \/ Sweep(r)) /\ UNCHANGED <<now, ended>>
    \/ \E k \in 0 .. (NumConnectors + 1), p \in ChargingProfile : SetChargingProfile(k, p)
    \/ \E request \in ClearRequest : ClearChargingProfile(request)
    \/ Tick

ChargingSpec == ChargingInit /\ [][ChargingNext]_chargingVars

-----------------------------------------------------------------------------
(* Safety.                                                                  *)

\* Whatever the order of the walk, a composite schedule is that of an applicable
\* profile of the highest stack level, in the unit asked for, and the default only
\* where no profile applies; profiles that do not apply never get in the way.
CompositeIsHighest ==
    \A k \in {0} \cup Connector, unit \in {""} \cup RateUnit :
        LET applying == {s.profile : s \in {t \in chargingProfiles : Applies(t, k)}}
            highest == {p \in applying : \A q \in applying : q.stackLevel <= p.stackLevel}
        IN  \A answer \in CompositeSchedule(k, unit) :
                IF answer = Rejected THEN \E p \in highest : unit \notin {"", p.unit}
                ELSE /\ unit \in {"", answer.unit}
                     /\ IF answer.profile = {} THEN applying = {}
                        ELSE \E p \in highest : answer.profile = {p} /\ answer.unit = p.unit

\* A profile installed for one transaction does not govern a connector once the
\* transaction has ended there: neither the next transaction, nor a stop that is
\* answered late or fails, nor a reset gives its limit back.
EndedTransactionGovernsNothing ==
    \A c \in Connector, unit \in {""} \cup RateUnit :
        \A answer \in CompositeSchedule(c, unit) \ {Rejected} :
            \A p \in answer.profile : p.purpose = "TxProfile" => p.transactionId \notin ended
=============================================================================
