---------------------------- MODULE UpsBattery -----------------------------
(***************************************************************************)
(* One UPS, its battery and the load nut-dog sheds for it, closed into a   *)
(* loop: the charge falls while the mains is gone and rises when it is     *)
(* back, the UPS reports it, nut-dog classifies what was reported, and the *)
(* load that is shed or powered on changes the runtime that is left.       *)
(*                                                                         *)
(* In NutDog a UPS may report anything at any time.  Here a reading is     *)
(* that of a battery, and the question is whether the verdicts alternate   *)
(* faster than the battery does.                                           *)
(***************************************************************************)
EXTENDS Control, Nut

CONSTANTS Thresholds,  \* the UPS's UPSConfig
          Full, Unit,  \* bound: the charge moves in units of Unit, up to Full
          RuntimeOn, RuntimeOff,  \* seconds per percent, with the load on and off
          LowAt,       \* the UPS raises LB at this charge and below
          Decimal,     \* the UPS writes its charge as "87.5" or "100.0"
          Deadband     \* what the thresholds are meant to keep apart

ASSUME BatteryAssumption ==
  /\ Thresholds \in UPSConfig
  /\ Full \in Nat /\ Unit \in Nat \ {0} /\ LowAt \in Int
  /\ RuntimeOn \in Nat /\ RuntimeOff \in Nat
  /\ Decimal \in BOOLEAN /\ Deadband \in Nat

None == -1

VARIABLES
  mains, charge,  \* the world
  loadOn,
  verdict,        \* what the last poll was classified as
  shedAt,         \* history: the charge at the last verdict "shed"
  healthyAt       \* history: the charge at the last verdict "healthy"

batteryVars == <<mains, charge, loadOn, verdict, shedAt, healthyAt>>

Init ==
  /\ mains = TRUE /\ charge = Full /\ loadOn = TRUE
  /\ verdict = "unknown" /\ shedAt = None /\ healthyAt = None

-----------------------------------------------------------------------------
(* What the UPS reports at a charge.                                       *)
Vars(c, online, on) ==
  [hasStatus |-> TRUE,
   status    |-> {IF online THEN "OL" ELSE "OB"} \cup {f \in {"LB"} : c <= LowAt},
   runtime   |-> {c * (IF on THEN RuntimeOn ELSE RuntimeOff)},
   charge    |-> {n \in {c} : ~Decimal}]

Reading(c, online, on) == TelemetryFromVars(Vars(c, online, on))

(* Mains fails and returns, and the battery follows.                       *)
MainsTurns == mains' = ~mains /\ UNCHANGED <<charge, loadOn, verdict, shedAt, healthyAt>>

Drain ==
  /\ ~mains /\ charge >= Unit /\ charge' = charge - Unit
  /\ UNCHANGED <<mains, loadOn, verdict, shedAt, healthyAt>>

Charge ==
  /\ mains /\ charge + Unit <= Full /\ charge' = charge + Unit
  /\ UNCHANGED <<mains, loadOn, verdict, shedAt, healthyAt>>

PollOK ==
  /\ verdict' = Classify(Thresholds, Reading(charge, mains, loadOn))
  /\ shedAt' = IF verdict' = "shed" THEN charge ELSE shedAt
  /\ healthyAt' = IF verdict' = "healthy" THEN charge ELSE healthyAt
  /\ UNCHANGED <<mains, charge, loadOn>>

PollFail ==
  /\ verdict' = Classify(Thresholds, NoTelemetry)
  /\ UNCHANGED <<mains, charge, loadOn, shedAt, healthyAt>>

(* The load follows what the verdict makes of it, some time after.         *)
LoadFollows ==
  LET d == DesiredForLoad({verdict}, "none")
  IN /\ d # "hold" /\ loadOn' = (d = "on")
     /\ UNCHANGED <<mains, charge, verdict, shedAt, healthyAt>>

Next == MainsTurns \/ Drain \/ Charge \/ PollOK \/ PollFail \/ LoadFollows

Spec == Init /\ [][Next]_batteryVars

(* The battery charges and drains, the loop polls, and the load is         *)
(* eventually moved by the verdicts it keeps getting (NutDog's Converges). *)
FairSpec ==
  /\ Spec /\ WF_batteryVars(Drain) /\ WF_batteryVars(Charge)
  /\ WF_batteryVars(PollOK) /\ SF_batteryVars(LoadFollows)

-----------------------------------------------------------------------------
(* The thresholds keep shedding and recovery apart: every charge at which  *)
(* the load is shed lies the deadband below recoverCharge, with the load   *)
(* on or off.  Nothing in validate asks for it.                            *)
Separated ==
  /\ ~Decimal
  /\ \A c \in 0..Full, on \in BOOLEAN :
       BelowFloor(Thresholds, Reading(c, FALSE, on)) => c + Deadband <= Thresholds.recoverCharge

(* The charge at which a load was last shed and the charge at which it was *)
(* last found healthy are never closer than the deadband.                  *)
Apart == shedAt # None /\ healthyAt # None => shedAt + Deadband <= healthyAt

(* Given thresholds that are separated, the verdicts are, whatever mains   *)
(* and the load do (control: "a charge deadband in between").              *)
SeparatedIsApart == Separated => Apart

(* The load follows mains: off in an outage that lasts, on again when it   *)
(* is over for good, also with recoverCharge at a full battery.            *)
FollowsMains == (<>[]~mains => <>[]~loadOn) /\ (<>[]mains => <>[]loadOn)

(* UPSConfig: "only recover when online AND charge >= this".               *)
HealthyIsRecharged == healthyAt # None => healthyAt >= Thresholds.recoverCharge
=============================================================================
