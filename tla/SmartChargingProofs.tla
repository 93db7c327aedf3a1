-------------------------- MODULE SmartChargingProofs --------------------------
(* Proofs about SmartCharging: whatever the order of the walk over the profiles, *)
(* a composite schedule is that of the highest profile that applies, and none    *)
(* is left over from a transaction that has ended.                               *)
EXTENDS SmartCharging, StationProofs

-----------------------------------------------------------------------------
(* The walk over the profiles.                                              *)

\* The loop of activeChargingProfileLocked after each step of the walk.
IsWalk(w, order, k, N) ==
    w = [n \in 0 .. N |-> IF n = 0 THEN {} ELSE Select(w[n - 1], order[n], k)]

LEMMA WalksExist ==
    ASSUME NEW order, NEW k, NEW N \in Nat
    PROVE  \E w : IsWalk(w, order, k, N)
<1> DEFINE good == {n \in 0 .. N : \E w : IsWalk(w, order, k, n)}
<1>1. 0 \in good
  <2> DEFINE w == [n \in 0 .. 0 |-> {}]
  <2>1. IsWalk(w, order, k, 0)
    BY DEF IsWalk
  <2> QED
    BY <2>1
<1>2. ASSUME NEW n \in 0 .. N, n < N, n \in good PROVE n + 1 \in good
  <2>1. PICK w : IsWalk(w, order, k, n)
    BY <1>2
  <2> DEFINE v == [i \in 0 .. (n + 1) |-> IF i = n + 1 THEN Select(w[n], order[n + 1], k) ELSE w[i]]
  <2>2. \A i \in 0 .. n : v[i] = w[i]
    BY <1>2
  <2>3. ASSUME NEW i \in 0 .. (n + 1)
        PROVE  v[i] = IF i = 0 THEN {} ELSE Select(v[i - 1], order[i], k)
    <3>1. CASE i = n + 1
      <4>1. i # 0 /\ i - 1 = n /\ v[n] = w[n]
        BY <1>2, <2>2, <3>1
      <4> QED
        BY <3>1, <4>1
    <3>2. CASE i \in 0 .. n
      <4>1. w[i] = IF i = 0 THEN {} ELSE Select(w[i - 1], order[i], k)
        BY <2>1, <3>2 DEF IsWalk
      <4>2. i # 0 => i - 1 \in 0 .. n /\ v[i - 1] = w[i - 1]
        BY <2>2, <3>2
      <4> QED
        BY <2>2, <3>2, <4>1, <4>2
    <3> QED
      BY <3>1, <3>2
  <2>4. IsWalk(v, order, k, n + 1)
    <3> HIDE DEF v
    <3> QED
      BY <2>3 DEF IsWalk, v
  <2>5. n + 1 \in 0 .. N
    BY <1>2
  <2> HIDE DEF v
  <2> QED
    BY <2>4, <2>5
<1> HIDE DEF good
<1>3. N \in good
  BY <1>1, <1>2, CountingUp
<1> QED
  BY <1>3 DEF good

\* Selected is where such a walk ends.
LEMMA SelectedEndsWalk ==
    ASSUME NEW order, NEW k, Len(order) \in Nat
    PROVE  \E w : IsWalk(w, order, k, Len(order)) /\ Selected(order, k) = w[Len(order)]
<1> DEFINE f == CHOOSE w : w = [n \in 0 .. Len(order) |->
                                  IF n = 0 THEN {} ELSE Select(w[n - 1], order[n], k)]
<1>1. \E w : w = [n \in 0 .. Len(order) |-> IF n = 0 THEN {} ELSE Select(w[n - 1], order[n], k)]
  <2>1. PICK w : IsWalk(w, order, k, Len(order))
    BY WalksExist
  <2>2. w = [n \in 0 .. Len(order) |-> IF n = 0 THEN {} ELSE Select(w[n - 1], order[n], k)]
    BY <2>1 DEF IsWalk
  <2> QED
    BY <2>2
<1>2. f = [n \in 0 .. Len(order) |-> IF n = 0 THEN {} ELSE Select(f[n - 1], order[n], k)]
  BY <1>1
<1>3. Selected(order, k) = f[Len(order)]
  BY DEF Selected
<1> QED
  BY <1>2, <1>3 DEF IsWalk

\* What applies to connector k, and of that what has the highest stack level.
Applying(k) == {s.profile : s \in {t \in chargingProfiles : Applies(t, k)}}
Highest(k) == {p \in Applying(k) : \A q \in Applying(k) : q.stackLevel <= p.stackLevel}

\* A walk ends with the highest profile that applies, the first it comes to; or
\* with none, if none applies.
LEMMA SelectedIsHighest ==
    ASSUME TypeOK, IsFiniteSet(chargingProfiles), NEW k, NEW order \in SetToSeqs(chargingProfiles)
    PROVE  \/ Selected(order, k) = {} /\ Applying(k) = {}
           \/ \E p \in Highest(k) : Selected(order, k) = {p}
<1> DEFINE N == Len(order)
           Level(i) == order[i].profile.stackLevel
           IsBest(x, n) ==
               \/ x = {} /\ \A i \in 1 .. n : ~Applies(order[i], k)
               \/ \E j \in 1 .. n :
                     /\ Applies(order[j], k) /\ x = {order[j].profile}
                     /\ \A i \in 1 .. n : Applies(order[i], k) => Level(i) <= Level(j)
<1>1. N \in Nat /\ {order[i] : i \in 1 .. N} = chargingProfiles
  BY OrderOfAll
<1>2. ASSUME NEW i \in 1 .. N PROVE order[i] \in chargingProfiles /\ Level(i) \in Nat
  BY <1>1, ChargingProfileAssumption DEF TypeOK, StoredProfile
<1>3. PICK w : IsWalk(w, order, k, N) /\ Selected(order, k) = w[N]
  BY <1>1, SelectedEndsWalk
<1> DEFINE good == {n \in 0 .. N : IsBest(w[n], n)}
<1>4. 0 \in good
  <2>1. w[0] = {}
    BY <1>1, <1>3 DEF IsWalk
  <2> QED
    BY <1>1, <2>1
<1>5. ASSUME NEW n \in 0 .. N, n < N, n \in good PROVE n + 1 \in good
  <2>1. n + 1 \in 1 .. N /\ n + 1 \in 0 .. N /\ n + 1 # 0 /\ (n + 1) - 1 = n
    BY <1>1, <1>5
  <2>2. w[n + 1] = Select(w[n], order[n + 1], k)
    BY <1>3, <2>1 DEF IsWalk
  <2>3. 1 .. (n + 1) = (1 .. n) \cup {n + 1} /\ \A i \in 1 .. n : i \in 1 .. N
    BY <1>1, <1>5
  <2>4. \A i \in 1 .. (n + 1) : Level(i) \in Nat
    BY <1>2, <2>1, <2>3
  <2> HIDE DEF Level
  <2>5. CASE ~Applies(order[n + 1], k)
    <3>1. w[n + 1] = w[n]
      BY <2>2, <2>5 DEF Select
    <3> QED
      BY <1>5, <2>1, <2>3, <2>5, <3>1
  <2>6. CASE Applies(order[n + 1], k)
    <3>1. CASE w[n] = {} /\ \A i \in 1 .. n : ~Applies(order[i], k)
      <4>1. w[n + 1] = {order[n + 1].profile}
        BY <2>2, <2>6, <3>1 DEF Select
      <4>2. Level(n + 1) <= Level(n + 1)
        BY <2>3, <2>4
      <4> QED
        BY <2>1, <2>3, <2>6, <3>1, <4>1, <4>2
    <3>2. CASE \E j \in 1 .. n :
                 /\ Applies(order[j], k) /\ w[n] = {order[j].profile}
                 /\ \A i \in 1 .. n : Applies(order[i], k) => Level(i) <= Level(j)
      <4>1. PICK j \in 1 .. n :
                 /\ Applies(order[j], k) /\ w[n] = {order[j].profile}
                 /\ \A i \in 1 .. n : Applies(order[i], k) => Level(i) <= Level(j)
        BY <3>2
      <4>2. Level(j) \in Nat /\ Level(n + 1) \in Nat
        BY <2>3, <2>4
      <4>3. CASE Level(n + 1) > Level(j)
        <5>1. w[n + 1] = {order[n + 1].profile}
          BY <2>2, <2>6, <4>1, <4>3 DEF Select, Level
        <5>2. \A i \in 1 .. (n + 1) : Applies(order[i], k) => Level(i) <= Level(n + 1)
          <6>1. \A i \in 1 .. n : Applies(order[i], k) => Level(i) <= Level(n + 1)
            BY <2>3, <2>4, <4>1, <4>2, <4>3
          <6>2. Level(n + 1) <= Level(n + 1)
            BY <4>2
          <6> QED
            BY <2>3, <6>1, <6>2
        <5>3. n + 1 \in 1 .. (n + 1)
          BY <2>3
        <5>4. \E m \in 1 .. (n + 1) :
                 /\ Applies(order[m], k) /\ w[n + 1] = {order[m].profile}
                 /\ \A i \in 1 .. (n + 1) : Applies(order[i], k) => Level(i) <= Level(m)
          BY <2>6, <5>1, <5>2, <5>3, Zenon
        <5> QED
          BY <2>1, <5>4 DEF good
      <4>4. CASE ~(Level(n + 1) > Level(j))
        <5>1. w[n + 1] = w[n]
          BY <2>2, <4>1, <4>4 DEF Select, Level
        <5>2. \A i \in 1 .. (n + 1) : Applies(order[i], k) => Level(i) <= Level(j)
          <6>1. Level(n + 1) <= Level(j)
            BY <4>2, <4>4
          <6>2. \A i \in 1 .. n : Applies(order[i], k) => Level(i) <= Level(j)
            BY <4>1
          <6> QED
            BY <2>3, <6>1, <6>2
        <5>3. j \in 1 .. (n + 1)
          BY <2>3, <4>1
        <5>4. \E m \in 1 .. (n + 1) :
                 /\ Applies(order[m], k) /\ w[n + 1] = {order[m].profile}
                 /\ \A i \in 1 .. (n + 1) : Applies(order[i], k) => Level(i) <= Level(m)
          BY <4>1, <5>1, <5>2, <5>3, Zenon
        <5> QED
          BY <2>1, <5>4 DEF good
      <4> QED
        BY <4>3, <4>4
    <3> QED
      BY <1>5, <3>1, <3>2
  <2> QED
    BY <2>5, <2>6
<1> HIDE DEF good
<1>6. N \in good
  <2> HIDE DEF N
  <2>1. 0 .. N \subseteq good
    BY <1>1, <1>4, <1>5, CountingUp
  <2> QED
    BY <1>1, <2>1
<1>7. IsBest(Selected(order, k), N)
  BY <1>3, <1>6 DEF good
<1>8. CASE Selected(order, k) = {} /\ \A i \in 1 .. N : ~Applies(order[i], k)
  BY <1>1, <1>8 DEF Applying
<1>9. ASSUME NEW j \in 1 .. N, Applies(order[j], k), Selected(order, k) = {order[j].profile},
             \A i \in 1 .. N : Applies(order[i], k) => Level(i) <= Level(j)
      PROVE  order[j].profile \in Highest(k)
  <2>1. order[j].profile \in Applying(k)
    BY <1>2, <1>9 DEF Applying
  <2>2. ASSUME NEW q \in Applying(k) PROVE q.stackLevel <= order[j].profile.stackLevel
    <3>1. PICK s \in chargingProfiles : Applies(s, k) /\ q = s.profile
      BY DEF Applying
    <3>2. PICK i \in 1 .. N : s = order[i]
      BY <1>1
    <3> QED
      BY <1>9, <3>1, <3>2
  <2> QED
    BY <2>1, <2>2 DEF Highest
<1> QED
  BY <1>7, <1>8, <1>9

-----------------------------------------------------------------------------
(* Composite schedules.                                                     *)

\* An answer is the default, or that of a highest profile, or a refusal of its unit.
IsDefault(answer, unit) ==
    answer # Rejected /\ unit \in {"", answer.unit} /\ answer.profile = {}
IsAnswerOf(p, answer, unit) ==
    answer # Rejected /\ unit \in {"", answer.unit} /\ answer.profile = {p} /\ answer.unit = p.unit
IsRefusalOf(p, answer, unit) ==
    answer = Rejected /\ unit \notin {"", p.unit}

LEMMA CompositeAnswers ==
    ASSUME TypeOK, IsFiniteSet(chargingProfiles), NEW k \in {0} \cup Connector,
           NEW unit \in {""} \cup RateUnit, NEW answer \in CompositeSchedule(k, unit)
    PROVE  \/ Applying(k) = {} /\ IsDefault(answer, unit)
           \/ \E p \in Highest(k) : IsAnswerOf(p, answer, unit) \/ IsRefusalOf(p, answer, unit)
<1>1. PICK order \in SetToSeqs(chargingProfiles) :
        answer = IF Selected(order, k) = {}
                 THEN Accepted(IF unit = "" THEN "A" ELSE unit, {})
                 ELSE LET p == CHOOSE p \in Selected(order, k) : TRUE
                      IN  IF unit \in {"", p.unit} THEN Accepted(p.unit, Selected(order, k))
                          ELSE Rejected
  BY DEF CompositeSchedule, Active
<1>2. CASE Selected(order, k) = {} /\ Applying(k) = {}
  <2>1. PICK u : answer = Accepted(u, {}) /\ unit \in {"", u}
    BY <1>1, <1>2
  <2>2. answer # Rejected /\ answer.unit = u /\ answer.profile = {}
    BY <2>1 DEF Accepted, Rejected
  <2> QED
    BY <1>2, <2>1, <2>2 DEF IsDefault
<1>3. ASSUME NEW p \in Highest(k), Selected(order, k) = {p}
      PROVE  IsAnswerOf(p, answer, unit) \/ IsRefusalOf(p, answer, unit)
  <2>1. (CHOOSE q \in {p} : TRUE) = p
    OBVIOUS
  <2>2. answer = IF unit \in {"", p.unit} THEN Accepted(p.unit, {p}) ELSE Rejected
    BY <1>1, <1>3, <2>1
  <2>3. CASE unit \in {"", p.unit}
    <3>1. answer # Rejected /\ answer.unit = p.unit /\ answer.profile = {p}
      BY <2>2, <2>3 DEF Accepted, Rejected
    <3> QED
      BY <2>3, <3>1 DEF IsAnswerOf
  <2>4. CASE unit \notin {"", p.unit}
    BY <2>2, <2>4 DEF IsRefusalOf
  <2> QED
    BY <2>3, <2>4
<1>4. \/ Selected(order, k) = {} /\ Applying(k) = {}
      \/ \E p \in Highest(k) : Selected(order, k) = {p}
  BY SelectedIsHighest
<1> QED
  BY <1>2, <1>3, <1>4

LEMMA CompositeNames ==
    ASSUME TypeOK, IsFiniteSet(chargingProfiles), NEW k \in Connector,
           NEW unit \in {""} \cup RateUnit, NEW answer \in CompositeSchedule(k, unit),
           answer # Rejected, answer.profile # {}
    PROVE  \E q \in Highest(k) : answer.profile = {q}
<1>1. k \in {0} \cup Connector
  OBVIOUS
<1>2. \E q \in Highest(k) : IsAnswerOf(q, answer, unit)
  <2>1. ~IsDefault(answer, unit) /\ \A q : ~IsRefusalOf(q, answer, unit)
    BY DEF IsDefault, IsRefusalOf
  <2> QED
    BY <1>1, <2>1, CompositeAnswers
<1> QED
  BY <1>2 DEF IsAnswerOf

LEMMA CompositeFollowsHighest ==
    ASSUME TypeOK, IsFiniteSet(chargingProfiles)
    PROVE  CompositeIsHighest
<1> SUFFICES ASSUME NEW k \in {0} \cup Connector, NEW unit \in {""} \cup RateUnit,
                    NEW answer \in CompositeSchedule(k, unit)
             PROVE  IF answer = Rejected THEN \E p \in Highest(k) : unit \notin {"", p.unit}
                    ELSE /\ unit \in {"", answer.unit}
                         /\ IF answer.profile = {} THEN Applying(k) = {}
                            ELSE \E p \in Highest(k) : answer.profile = {p} /\ answer.unit = p.unit
  BY DEF CompositeIsHighest, Highest, Applying
<1>1. CASE Applying(k) = {} /\ IsDefault(answer, unit)
  BY <1>1 DEF IsDefault
<1>2. ASSUME NEW p \in Highest(k), IsAnswerOf(p, answer, unit)
      PROVE  /\ answer # Rejected /\ unit \in {"", answer.unit} /\ answer.profile # {}
             /\ \E q \in Highest(k) : answer.profile = {q} /\ answer.unit = q.unit
  BY <1>2 DEF IsAnswerOf
<1>3. ASSUME NEW p \in Highest(k), IsRefusalOf(p, answer, unit)
      PROVE  answer = Rejected /\ \E q \in Highest(k) : unit \notin {"", q.unit}
  BY <1>3 DEF IsRefusalOf
<1> QED
  BY <1>1, <1>2, <1>3, CompositeAnswers

-----------------------------------------------------------------------------
(* What has ended.                                                          *)

\* A transaction counted as ended is over for the ledger, too.
EndedIsOver == ended \subseteq TransactionId /\ \A x \in ended : LedgerPhase[x] = "over"

ChargingInv == TypeOK /\ TransactionInv /\ IsFiniteSet(chargingProfiles) /\ EndedIsOver

\* Over stays over, and what a connector gives up is over.
LEMMA LedgerGoesOn ==
    ASSUME [Ledger!Next]_(Ledger!ledger), NEW x \in TransactionId
    PROVE  /\ LedgerPhase[x] = "over" => LedgerPhase'[x] = "over"
           /\ LedgerPhase[x] = "held" => LedgerPhase'[x] \in {"held", "over"}
<1>1. CASE UNCHANGED Ledger!ledger
  BY <1>1 DEF Ledger!ledger
<1>2. ASSUME NEW y \in TransactionId, Ledger!Issue(y)
      PROVE  /\ LedgerPhase[x] = "over" => LedgerPhase'[x] = "over"
             /\ LedgerPhase[x] = "held" => LedgerPhase'[x] \in {"held", "over"}
  BY <1>2 DEF Ledger!Issue, LedgerPhase
<1>3. ASSUME NEW y \in TransactionId, NEW c \in Connector, Ledger!Take(y, c)
      PROVE  /\ LedgerPhase[x] = "over" => LedgerPhase'[x] = "over"
             /\ LedgerPhase[x] = "held" => LedgerPhase'[x] \in {"held", "over"}
  BY <1>3 DEF Ledger!Take
<1>4. ASSUME NEW xs \in SUBSET TransactionId, Ledger!GiveUp(xs)
      PROVE  /\ LedgerPhase[x] = "over" => LedgerPhase'[x] = "over"
             /\ LedgerPhase[x] = "held" => LedgerPhase'[x] \in {"held", "over"}
  BY <1>4 DEF Ledger!GiveUp
<1> QED
  BY <1>1, <1>2, <1>3, <1>4 DEF Ledger!Next

LEMMA HeldIsHeld ==
    ASSUME NEW x \in TransactionId
    PROVE  HeldBy(x) # {} <=> LedgerPhase[x] = "held"
BY DEF LedgerPhase

\* A step of the station installs one profile at most.
LEMMA StationStepsStayFinite ==
    ASSUME IsFiniteSet(chargingProfiles), Next
    PROVE  IsFiniteSet(chargingProfiles')
<1>1. ASSUME NEW c, NEW tag, NEW r, NEW given \in ProfileChoice, BeginStart(c, tag, r, given)
      PROVE  IsFiniteSet(chargingProfiles')
  <2> DEFINE kept == {s \in chargingProfiles : \A p \in given : s.profile.id # p.id}
  <2>1. IsFiniteSet(kept)
    BY FS_Subset
  <2>2. chargingProfiles' = kept \cup {[connector |-> c, profile |-> p] : p \in given}
    BY <1>1 DEF BeginStart
  <2>3. CASE given = {}
    <3>1. chargingProfiles' = kept
      BY <2>2, <2>3
    <3> QED
      BY <2>1, <3>1
  <2>4. ASSUME NEW p \in ChargingProfile, given = {p} PROVE IsFiniteSet(chargingProfiles')
    <3>1. chargingProfiles' = kept \cup {[connector |-> c, profile |-> p]}
      BY <2>2, <2>4
    <3> HIDE DEF kept
    <3> QED
      BY <2>1, <3>1, FS_AddElement
  <2> QED
    BY <2>3, <2>4 DEF ProfileChoice, NoProfile
<1>2. ASSUME NEW tag \in IdTag, NEW given \in ProfileChoice,
             \/ \E c \in Connector : RemoteStartOn(c, tag, given)
             \/ RemoteStartAny(tag, given)
      PROVE  IsFiniteSet(chargingProfiles')
  BY <1>1, <1>2, RemoteStartSelects
<1>3. CASE Request
  BY <1>2, <1>3 DEF Request, ChangeAvailability, ChangeConfiguration, ReserveNow, CancelReservation,
                    Drop, RemoteStop, Reset
<1>4. ASSUME NEW t \in Task, TaskStep(t) PROVE IsFiniteSet(chargingProfiles')
  BY <1>4 DEF TaskStep, Prepared, Authorized, CentralSystemStarts, StartConfirmed, StartAbandoned,
              StopConfirmed, StopFailed
<1>5. ASSUME NEW r \in ReservationId, Lapse(r) \/ Sweep(r) PROVE IsFiniteSet(chargingProfiles')
  BY <1>5 DEF Lapse, Sweep, ExpireReservations, Drop
<1> QED
  BY <1>3, <1>4, <1>5 DEF Next

LEMMA StationStepKeepsChargingInv ==
    ASSUME ChargingInv, 0 < FirstTransaction, Next, ended' \subseteq ended \cup Ending
    PROVE  ChargingInv'
<1>1. TypeOK'
  BY TypeOKRequest, TypeOKTaskStep, TypeOKClock DEF Next, ChargingInv
<1>2. TransactionInv'
  BY TransactionInvRequest, TransactionInvTaskStep, TransactionInvClock DEF Next, ChargingInv
<1>3. IsFiniteSet(chargingProfiles')
  BY StationStepsStayFinite DEF ChargingInv
<1>4. [Ledger!Next]_(Ledger!ledger)
  BY LedgerNext DEF ChargingInv
<1>5. ASSUME NEW x \in ended' PROVE x \in TransactionId /\ LedgerPhase'[x] = "over"
  <2>1. CASE x \in ended
    BY <1>4, <2>1, LedgerGoesOn DEF ChargingInv, EndedIsOver
  <2>2. CASE x \in Ending
    <3>1. x \in TransactionId /\ HeldBy(x) # {} /\ HeldBy(x)' = {}
      BY <2>2 DEF Ending
    <3>2. LedgerPhase[x] = "held" /\ LedgerPhase'[x] # "held"
      BY <3>1, HeldIsHeld DEF LedgerPhase
    <3> QED
      BY <1>4, <3>1, <3>2, LedgerGoesOn
  <2> QED
    BY <1>5, <2>1, <2>2
<1> QED
  BY <1>1, <1>2, <1>3, <1>5 DEF ChargingInv, EndedIsOver

\* Requests about profiles leave the station and its transactions alone.
LEMMA ProfilesKeepChargingInv ==
    ASSUME ChargingInv, chargingProfiles' \subseteq StoredProfile, IsFiniteSet(chargingProfiles'),
           UNCHANGED <<connectorVars, reservations, authorizeRemote, tasks, issued, ended>>
    PROVE  ChargingInv'
<1>1. TypeOK'
  BY DEF ChargingInv, TypeOK, connectorVars
<1>2. TransactionInv'
  BY TransactionInvQuiet DEF ChargingInv, connectorVars
<1>3. UNCHANGED Ledger!ledger
  BY LedgerQuiet DEF ChargingInv, connectorVars
<1>4. LedgerPhase' = LedgerPhase
  BY <1>3 DEF Ledger!ledger
<1> QED
  BY <1>1, <1>2, <1>4 DEF ChargingInv, EndedIsOver

LEMMA ChargingInvNext ==
    ASSUME ChargingInv, 0 < FirstTransaction, [ChargingNext]_chargingVars
    PROVE  ChargingInv'
<1>1. CASE StationStep
  BY <1>1, StationStepKeepsChargingInv DEF StationStep, Next
<1>2. ASSUME NEW r \in ReservationId, Lapse(r) \/ Sweep(r), UNCHANGED <<now, ended>>
      PROVE  ChargingInv'
  BY <1>2, StationStepKeepsChargingInv DEF Next
<1>3. ASSUME NEW k \in 0 .. (NumConnectors + 1), NEW p \in ChargingProfile, SetChargingProfile(k, p)
      PROVE  ChargingInv'
  <2> DEFINE kept == {s \in chargingProfiles : s.profile.id # p.id}
             new == [connector |-> k, profile |-> p]
  <2>1. chargingProfiles' = kept \cup {new} /\ k \in {0} \cup Connector
    BY <1>3 DEF SetChargingProfile
  <2>2. IsFiniteSet(kept)
    BY FS_Subset DEF ChargingInv
  <2>3. kept \subseteq StoredProfile /\ new \in StoredProfile
    BY <2>1 DEF ChargingInv, TypeOK, StoredProfile
  <2> HIDE DEF kept, new
  <2>4. IsFiniteSet(chargingProfiles') /\ chargingProfiles' \subseteq StoredProfile
    BY <2>1, <2>2, <2>3, FS_AddElement
  <2> QED
    BY <1>3, <2>4, ProfilesKeepChargingInv DEF SetChargingProfile
<1>4. ASSUME NEW request \in ClearRequest, ClearChargingProfile(request) PROVE ChargingInv'
  <2>1. chargingProfiles' \subseteq chargingProfiles
    BY <1>4 DEF ClearChargingProfile
  <2>2. IsFiniteSet(chargingProfiles')
    BY <2>1, FS_Subset DEF ChargingInv
  <2>3. chargingProfiles' \subseteq StoredProfile
    BY <2>1 DEF ChargingInv, TypeOK
  <2> QED
    BY <1>4, <2>2, <2>3, ProfilesKeepChargingInv DEF ClearChargingProfile
<1>5. CASE Tick \/ UNCHANGED chargingVars
  <2>1. UNCHANGED <<vars, ended>>
    BY <1>5 DEF Tick, chargingVars
  <2> QED
    BY <2>1, ProfilesKeepChargingInv DEF vars, ChargingInv, TypeOK
<1> QED
  BY <1>1, <1>2, <1>3, <1>4, <1>5 DEF ChargingNext

LEMMA ChargingInvInit == 0 < FirstTransaction /\ ChargingInit => ChargingInv
<1> SUFFICES ASSUME 0 < FirstTransaction, ChargingInit PROVE ChargingInv
  OBVIOUS
<1>1. TypeOK /\ TransactionInv
  BY TypeOKInit, TransactionInvInit DEF ChargingInit
<1>2. IsFiniteSet(chargingProfiles)
  BY FS_EmptySet DEF ChargingInit, Init
<1> QED
  BY <1>1, <1>2 DEF ChargingInv, EndedIsOver, ChargingInit

LEMMA ChargingInvHolds ==
    ASSUME 0 < FirstTransaction
    PROVE  ChargingSpec => []ChargingInv
<1>1. ChargingInit => ChargingInv
  BY ChargingInvInit
<1>2. ChargingInv /\ [ChargingNext]_chargingVars => ChargingInv'
  BY ChargingInvNext
<1> QED
  BY <1>1, <1>2, PTL DEF ChargingSpec

\* Whatever profiles are installed and cleared and in whatever order the map is
\* walked, a composite schedule is that of a profile that applies with the highest
\* stack level, in the unit asked for.
THEOREM ScheduleIsHighest ==
    ASSUME 0 < FirstTransaction
    PROVE  ChargingSpec => []CompositeIsHighest
<1>1. ChargingInv => CompositeIsHighest
  BY CompositeFollowsHighest DEF ChargingInv
<1> QED
  BY <1>1, ChargingInvHolds, PTL

LEMMA ConnectorsArePositive == \A c \in Connector : c > 0
BY NumConnectorsAssumption DEF Connector

LEMMA EndedGovernsNothing ==
    ASSUME ChargingInv, 0 < FirstTransaction
    PROVE  EndedTransactionGovernsNothing
<1> SUFFICES ASSUME NEW c \in Connector, NEW unit \in {""} \cup RateUnit,
                    NEW answer \in CompositeSchedule(c, unit) \ {Rejected},
                    NEW p \in answer.profile, p.purpose = "TxProfile"
             PROVE  p.transactionId \notin ended
  BY DEF EndedTransactionGovernsNothing
<1>1. p \in Applying(c)
  <2>1. PICK q \in Highest(c) : answer.profile = {q}
    BY CompositeNames DEF ChargingInv
  <2> QED
    BY <2>1 DEF Highest
<1>2. PICK s \in chargingProfiles : Applies(s, c) /\ p = s.profile
  BY <1>1 DEF Applying
<1>3. c > 0
  BY ConnectorsArePositive
<1>4. transactionID[c] # 0 /\ p.transactionId \in {0, transactionID[c]}
  BY <1>2, <1>3 DEF Applies
<1>5. \A x \in ended : x \in TransactionId /\ HeldBy(x) = {}
  BY HeldIsHeld DEF ChargingInv, EndedIsOver
<1>6. 0 \notin ended
  BY <1>5, PositiveIds
<1>7. transactionID[c] \notin ended
  BY <1>5 DEF HeldBy
<1> QED
  BY <1>4, <1>6, <1>7

\* A profile for one transaction governs no connector once that transaction has
\* ended, however it ended: a transaction that is over is on no connector again,
\* and a profile for another transaction is passed over.
THEOREM EndedProfileIsPassedOver ==
    ASSUME 0 < FirstTransaction
    PROVE  ChargingSpec => []EndedTransactionGovernsNothing
BY EndedGovernsNothing, ChargingInvHolds, PTL
=============================================================================
