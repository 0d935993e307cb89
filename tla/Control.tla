------------------------------ MODULE Control ------------------------------
(***************************************************************************)
(* Package internal/control: the pure decision core.  Every operator here  *)
(* is a function of its arguments; the state the arguments are read from   *)
(* is kept by module NutDog.                                               *)
(*                                                                         *)
(* Two slices are represented by sets.  The states of a load's governing   *)
(* UPSes are only tested with "any" and "all", so their order and          *)
(* multiplicity are irrelevant.  The actions ReconcileLoad returns for one *)
(* load hold each kind at most once, and the only pair it ever returns is  *)
(* <<ReleaseServerShed, WakeServer>> in that order, which First recovers.  *)
(***************************************************************************)
EXTENDS Integers

SourceState == {"unknown", "shed", "hold", "healthy"}
Desired     == {"hold", "off", "on"}
Request     == {"none", "hold", "off", "on"}
ActualState == {"unknown", "up", "down"}
ShedState   == {"unknown", "asserted", "released"}
LoadTypes   == {"chassis", "nut-server"}

ChassisKinds == {"ChassisShutdown", "ChassisPowerUp"}
ServerKinds  == {"AssertServerShed", "ReleaseServerShed", "WakeServer"}
ActionKind   == ChassisKinds \cup ServerKinds

(* A UPS reading and the thresholds it is classified against.              *)
Telemetry == [ok: BOOLEAN, onLine: BOOLEAN, onBattery: BOOLEAN,
              lowBattery: BOOLEAN, runtime: Int, charge: Int]
UPSConfig == [shedRuntime: Int, shedCharge: Int, recoverCharge: Int]

(* The zero Telemetry a failed poll returns.                               *)
NoTelemetry == [ok |-> FALSE, onLine |-> FALSE, onBattery |-> FALSE,
                lowBattery |-> FALSE, runtime |-> 0, charge |-> 0]

BelowFloor(c, t) ==
  \/ t.lowBattery
  \/ t.runtime >= 0 /\ t.runtime <= c.shedRuntime
  \/ c.shedCharge > 0 /\ t.charge >= 0 /\ t.charge <= c.shedCharge

(* Mutant: recovers one percent too early.                                 *)
RechargedEarly(c, t) == t.charge < 0 \/ t.charge >= c.recoverCharge - 1

(* Mutant: recovers above the floor only.                                  *)
RechargedAbove(c, t) == t.charge < 0 \/ t.charge > c.recoverCharge

Recharged(c, t) == t.charge < 0 \/ t.charge >= c.recoverCharge

(* Mutant: sheds on a low reading even while on line.                      *)
ClassifyIgnoringLine(c, t) ==
  CASE ~t.ok                                  -> "unknown"
    [] t.ok /\ BelowFloor(c, t)               -> "shed"
    [] t.ok /\ ~BelowFloor(c, t) /\ t.onLine /\ Recharged(c, t) -> "healthy"
    [] OTHER                                  -> "hold"

Classify(c, t) ==
  CASE ~t.ok                                  -> "unknown"
    [] t.ok /\ t.onBattery /\ BelowFloor(c, t) -> "shed"
    [] t.ok /\ ~t.onBattery /\ t.onLine /\ Recharged(c, t) -> "healthy"
    [] OTHER                                  -> "hold"

(* Mutants: any healthy source suffices; an unreadable source sheds.       *)
desiredFromAnySource(states) ==
  CASE "shed" \in states                                 -> "off"
    [] "shed" \notin states /\ "healthy" \in states       -> "on"
    [] OTHER                                             -> "hold"

desiredShedOnUnknown(states) ==
  CASE states \cap {"shed", "unknown"} # {} -> "off"
    [] states \subseteq {"healthy"}         -> "on"
    [] OTHER                                -> "hold"

desiredFromSources(states) ==
  CASE "shed" \in states                               -> "off"
    [] "shed" \notin states /\ states \subseteq {"healthy"} -> "on"
    [] OTHER                                           -> "hold"

(* Mutants: the request outranks the sources; "hold" is not looked at.     *)
DesiredRequestFirst(states, req) ==
  IF req = "none" THEN desiredFromSources(states) ELSE req

DesiredIgnoringHold(states, req) ==
  IF req = "off" THEN "off" ELSE desiredFromSources(states)

(* A critical UPS outranks the request; below it "off" always wins and     *)
(* "on" only confirms what healthy sources already imply.                  *)
DesiredForLoad(states, req) ==
  LET d == desiredFromSources(states)
  IN  CASE d = "off" \/ req = "off"              -> "off"
        [] d = "on" /\ req \in {"none", "on"}    -> "on"
        [] OTHER                                 -> "hold"

ReconcileChassis(d, actual) ==
  CASE d = "off" /\ actual = "up"  -> {"ChassisShutdown"}
    [] d = "on" /\ actual = "down" -> {"ChassisPowerUp"}
    [] OTHER                       -> {}

(* Mutants: an unreadable signal is taken for released; the wake is sent   *)
(* with the release only, never again; a held server's signal is released. *)
ReconcileServerTrusting(d, actual, shed) ==
  CASE d = "off" -> {k \in {"AssertServerShed"} : shed # "asserted"}
    [] d = "on"  -> {k \in {"ReleaseServerShed"} : shed = "asserted"}
                      \cup {k \in {"WakeServer"} : actual = "down"}
    [] OTHER     -> {}

ReconcileServerWakeOnce(d, actual, shed) ==
  CASE d = "off" -> {k \in {"AssertServerShed"} : shed # "asserted"}
    [] d = "on"  -> {k \in {"ReleaseServerShed"} : shed # "released"}
                      \cup {k \in {"WakeServer"} : actual = "down" /\ shed # "released"}
    [] OTHER     -> {}

ReconcileServerLettingGo(d, actual, shed) ==
  CASE d = "off" -> {k \in {"AssertServerShed"} : shed # "asserted"}
    [] OTHER     -> {k \in {"ReleaseServerShed"} : shed # "released"}
                      \cup {k \in {"WakeServer"} : actual = "down" /\ d = "on"}

ReconcileServer(d, actual, shed) ==
  CASE d = "off" -> {k \in {"AssertServerShed"} : shed # "asserted"}
    [] d = "on"  -> {k \in {"ReleaseServerShed"} : shed # "released"}
                      \cup {k \in {"WakeServer"} : actual = "down"}
    [] OTHER     -> {}

(* Mutant: the two load types are swapped.                                 *)
ReconcileLoadSwapped(lt, d, actual, shed) ==
  IF lt = "chassis" THEN ReconcileServer(d, actual, shed)
                    ELSE ReconcileChassis(d, actual)

ReconcileLoad(lt, d, actual, shed) ==
  IF lt = "chassis" THEN ReconcileChassis(d, actual)
                    ELSE ReconcileServer(d, actual, shed)

(* The next action of one load's slice: the release precedes the wake.     *)
First(acts, k) == k \in acts /\ (k = "WakeServer" => "ReleaseServerShed" \notin acts)

(* Decide, one load at a time: the slice Decide returns is the             *)
(* concatenation of these over the loads in name order.                    *)
Decide(cfgs, tel, lt, governedBy, actual, shed, req) ==
  ReconcileLoad(lt,
                DesiredForLoad({Classify(cfgs[u], tel[u]) : u \in governedBy}, req),
                actual, shed)

isPowerOn(k) == k \in {"WakeServer", "ChassisPowerUp"}
=============================================================================
