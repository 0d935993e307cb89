-------------------------- MODULE UpsBatteryProofs --------------------------
(***************************************************************************)
(* The verdicts are as far apart as the thresholds, for every battery,     *)
(* load and thresholds.                                                    *)
(***************************************************************************)
EXTENDS UpsBattery, TLAPS

BatteryTypeOK ==
  /\ mains \in BOOLEAN /\ charge \in 0..Full /\ loadOn \in BOOLEAN
  /\ verdict \in SourceState
  /\ shedAt \in {None} \cup 0..Full /\ healthyAt \in {None} \cup 0..Full

(* Every charge a verdict was recorded at is one the verdict is right for. *)
Justified ==
  /\ shedAt # None =>
       \E on \in BOOLEAN : BelowFloor(Thresholds, Reading(shedAt, FALSE, on))
  /\ healthyAt # None => Decimal \/ healthyAt >= Thresholds.recoverCharge

(* A reading carries what was reported.                                    *)
LEMMA ReadingIs ==
  ASSUME NEW c \in 0..Full, NEW online \in BOOLEAN, NEW on \in BOOLEAN
  PROVE  /\ Reading(c, online, on).ok
         /\ Reading(c, online, on).onLine <=> online
         /\ Reading(c, online, on).onBattery <=> ~online
         /\ Reading(c, online, on).charge = IF Decimal THEN -1 ELSE c
  BY BatteryAssumption DEF BatteryAssumption, Reading, Vars, TelemetryFromVars, Atoi

(* The floor does not depend on mains.                                     *)
LEMMA FloorIsTheBatterys ==
  ASSUME NEW c \in 0..Full, NEW online \in BOOLEAN, NEW on \in BOOLEAN
  PROVE  BelowFloor(Thresholds, Reading(c, online, on))
           <=> BelowFloor(Thresholds, Reading(c, FALSE, on))
  BY DEF BelowFloor, Reading, Vars, TelemetryFromVars

LEMMA ClassifyShed ==
  ASSUME NEW t, Classify(Thresholds, t) = "shed"
  PROVE  BelowFloor(Thresholds, t)
  BY DEF Classify

LEMMA ClassifyHealthy ==
  ASSUME NEW t, Classify(Thresholds, t) = "healthy"
  PROVE  Recharged(Thresholds, t)
  BY DEF Classify

LEMMA ClassifyType ==
  ASSUME NEW t PROVE Classify(Thresholds, t) \in SourceState
  BY DEF Classify, SourceState

(* Every variable keeps its type.                                          *)
THEOREM BatteryTypeCorrect == Spec => []BatteryTypeOK
<1>1. Init => BatteryTypeOK
  BY BatteryAssumption DEF BatteryAssumption, Init, BatteryTypeOK, SourceState, None
<1>2. BatteryTypeOK /\ [Next]_batteryVars => BatteryTypeOK'
  <2> SUFFICES ASSUME BatteryTypeOK, [Next]_batteryVars PROVE BatteryTypeOK'
    OBVIOUS
  <2> USE BatteryAssumption
  <2>1. CASE MainsTurns
    BY <2>1 DEF MainsTurns, BatteryTypeOK
  <2>2. CASE Drain
    BY <2>2 DEF Drain, BatteryTypeOK, BatteryAssumption
  <2>3. CASE Charge
    BY <2>3 DEF Charge, BatteryTypeOK, BatteryAssumption
  <2>4. CASE PollOK
    BY <2>4, ClassifyType DEF PollOK, BatteryTypeOK
  <2>5. CASE PollFail
    BY <2>5, ClassifyType DEF PollFail, BatteryTypeOK
  <2>6. CASE LoadFollows
    BY <2>6 DEF LoadFollows, BatteryTypeOK
  <2>7. CASE UNCHANGED batteryVars
    BY <2>7 DEF batteryVars, BatteryTypeOK
  <2> QED BY <2>1, <2>2, <2>3, <2>4, <2>5, <2>6, <2>7 DEF Next
<1> QED BY <1>1, <1>2, PTL DEF Spec

(* Only a poll that was answered records a charge.                         *)
THEOREM VerdictsAreJustified == Spec => []Justified
<1>1. Init => Justified
  BY DEF Init, Justified
<1>2. BatteryTypeOK /\ Justified /\ [Next]_batteryVars => Justified'
  <2> SUFFICES ASSUME BatteryTypeOK, Justified, [Next]_batteryVars PROVE Justified'
    OBVIOUS
  <2>1. CASE PollOK
    <3> DEFINE t == Reading(charge, mains, loadOn)
    <3> charge \in 0..Full /\ mains \in BOOLEAN /\ loadOn \in BOOLEAN
      BY DEF BatteryTypeOK
    <3>1. CASE verdict' = "shed"
      <4>1. BelowFloor(Thresholds, Reading(charge, FALSE, loadOn))
        BY <2>1, <3>1, ClassifyShed, FloorIsTheBatterys DEF PollOK
      <4>2. shedAt' = charge /\ healthyAt' = healthyAt
        BY <2>1, <3>1 DEF PollOK
      <4> QED BY <4>1, <4>2 DEF Justified
    <3>2. CASE verdict' = "healthy"
      <4>1. Recharged(Thresholds, t)
        BY <2>1, <3>2, ClassifyHealthy DEF PollOK
      <4>2. Decimal \/ charge >= Thresholds.recoverCharge
        BY <4>1, ReadingIs DEF Recharged
      <4>3. shedAt' = shedAt /\ healthyAt' = charge
        BY <2>1, <3>2 DEF PollOK
      <4> QED BY <4>2, <4>3 DEF Justified
    <3>3. CASE verdict' \notin {"shed", "healthy"}
      BY <2>1, <3>3 DEF PollOK, Justified
    <3> QED BY <3>1, <3>2, <3>3
  <2>2. CASE UNCHANGED <<shedAt, healthyAt>>
    BY <2>2 DEF Justified
  <2>3. [Next]_batteryVars => PollOK \/ UNCHANGED <<shedAt, healthyAt>>
    BY DEF Next, MainsTurns, Drain, Charge, PollFail, LoadFollows, batteryVars
  <2> QED BY <2>1, <2>2, <2>3
<1> QED BY <1>1, <1>2, BatteryTypeCorrect, PTL DEF Spec

(* Thresholds that are separated by the deadband keep the charges at which *)
(* a load is shed and recovered apart by it.                               *)
THEOREM SeparatedStaysApart == Spec => []SeparatedIsApart
<1>1. BatteryTypeOK /\ Justified => SeparatedIsApart
  <2> SUFFICES ASSUME BatteryTypeOK, Justified, Separated, shedAt # None, healthyAt # None
               PROVE  shedAt + Deadband <= healthyAt
    BY DEF SeparatedIsApart, Apart
  <2>1. shedAt \in 0..Full /\ healthyAt \in 0..Full
    BY DEF BatteryTypeOK
  <2>2. PICK on \in BOOLEAN : BelowFloor(Thresholds, Reading(shedAt, FALSE, on))
    BY DEF Justified
  <2>3. shedAt + Deadband <= Thresholds.recoverCharge
    BY <2>1, <2>2 DEF Separated
  <2>4. healthyAt >= Thresholds.recoverCharge
    BY DEF Justified, Separated
  <2>5. Thresholds.recoverCharge \in Int /\ Deadband \in Nat /\ Full \in Nat
    BY BatteryAssumption DEF BatteryAssumption, UPSConfig
  <2> QED BY <2>1, <2>3, <2>4, <2>5
<1> QED BY <1>1, BatteryTypeCorrect, VerdictsAreJustified, PTL
=============================================================================
