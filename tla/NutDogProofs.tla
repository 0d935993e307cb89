---------------------------- MODULE NutDogProofs ----------------------------
(***************************************************************************)
(* Theorems about NutDog for every configuration its assumptions allow.    *)
(***************************************************************************)
EXTENDS NutDog, TLAPS

USE DEF Request, ActualState, ShedState, Power

(* Whatever variables a UPS serves, the reading made of them is a          *)
(* Telemetry: an absent or unparseable number becomes -1.                  *)
LEMMA TelemetryType ==
  ASSUME NEW v, IsVars(v)
  PROVE  TelemetryFromVars(v) \in Telemetry
<1>1. ASSUME NEW opt, opt = {} \/ \E n \in opt : n \in Int /\ opt = {n}
      PROVE  Atoi(opt) \in Int
  BY <1>1 DEF Atoi
<1>2. Atoi(v.runtime) \in Int /\ Atoi(v.charge) \in Int
  BY <1>1 DEF IsVars
<1> QED
  BY <1>2 DEF IsVars, TelemetryFromVars, Telemetry

LEMMA NoTelemetryType == NoTelemetry \in Telemetry
  BY DEF NoTelemetry, Telemetry

(* The actions reconciled for a load are of the load's own type.           *)
LEMMA DecideType ==
  ASSUME NEW cfgs, NEW t, NEW gov, NEW a, NEW s, NEW req, NEW lt \in LoadTypes
  PROVE  /\ Decide(cfgs, t, lt, gov, a, s, req) \subseteq ActionKind
         /\ lt = "nut-server" => Decide(cfgs, t, lt, gov, a, s, req) \subseteq ServerKinds
         /\ lt # "nut-server" => Decide(cfgs, t, lt, gov, a, s, req) \subseteq ChassisKinds
<1>1. \A d : ReconcileChassis(d, a) \subseteq ChassisKinds
  BY DEF ReconcileChassis, ChassisKinds
<1>2. \A d : ReconcileServer(d, a, s) \subseteq ServerKinds
  BY DEF ReconcileServer, ServerKinds
<1> QED
  BY <1>1, <1>2 DEF Decide, ReconcileLoad, LoadTypes, ActionKind

(* The readings a probe may return are power states.                       *)
LEMMA ProbeType ==
  ASSUME NEW l \in Loads
  PROVE  Probe(l) \subseteq ActualState /\ ReadShed(l) \subseteq ShedState
<1>1. \A r : parseChassisPower(r) \in ActualState
  BY DEF parseChassisPower
<1>2. \A p : Dial(p) \subseteq DialOutcome
  BY DEF Dial, DialOutcome
<1>3. \A d \in DialOutcome : tcpProbe(d) \in ActualState
  BY DEF tcpProbe, DialOutcome
<1>4. \A s : ParseShedStatus(s) \in ShedState
  BY DEF ParseShedStatus
<1> QED
  BY <1>1, <1>2, <1>3, <1>4 DEF Probe, ReadShed

LEMMA OlderType ==
  ASSUME NEW cap \in Nat, NEW n \in 0..cap
  PROVE  Older(n, cap) \in 0..cap
  BY DEF Older

(* The type invariant is inductive.  The actions fall into those that only *)
(* move the program counter and the tick's locals, those that touch the    *)
(* API's maps, and the world's.                                            *)
LEMMA TypeInit == Init => TypeOK
<1> USE ApiAssumption, NoTelemetryType
<1> SUFFICES ASSUME Init PROVE TypeOK
  OBVIOUS
<1>1. ApiTypeOK
  BY DEF Init, New, ApiTypeOK, Entry, Observation, NoEntry, NoObservation
<1>2. probeAge \in [Loads -> 0..ObsAgeCap]
  BY DEF Init
<1>3. signal \in [Loads -> Signals]
  BY DEF Init, Signals
<1>4. pc \in PC /\ cur \in Nat \ {0} /\ uptime \in 0..StartupGrace
  BY ConfigAssumption DEF Init, PC
<1>5. hw \in [UPS -> Vars]
  BY DEF Init
<1>6. power \in [Loads -> Power]
  BY DEF Init
<1>7. /\ plan \in [Loads -> SUBSET ActionKind]
      /\ \A l \in Loads : plan[l] = {}
  BY DEF Init
<1> QED
  BY <1>1, <1>2, <1>3, <1>4, <1>5, <1>6, <1>7 DEF Init, TypeOK

(* Fresh locals and an empty history have their types.                     *)
LEMMA FreshType ==
  ASSUME FreshTick
  PROVE  /\ tel' \in [UPS -> Telemetry]
         /\ actual' \in [Loads -> ActualState] /\ shed' \in [Loads -> ShedState]
         /\ ext' \in [Loads -> Request]
         /\ plan' \in [Loads -> SUBSET ActionKind]
         /\ \A l \in Loads : plan'[l] = {}
  BY NoTelemetryType DEF FreshTick

LEMMA TypeStep == TypeOK /\ [Next]_vars => TypeOK'
<1> USE ApiAssumption
<1> SUFFICES ASSUME TypeOK, [Next]_vars PROVE TypeOK'
  OBVIOUS
<1>a. \A i \in 1..Len(UPSOrder) : UPSOrder[i] \in UPS
  BY ConfigAssumption
<1>b. \A i \in 1..Len(LoadOrder) : LoadOrder[i] \in Loads
  BY ConfigAssumption
<1>c. StartupGrace \in Nat /\ \A v \in Vars : IsVars(v)
  BY ConfigAssumption
<1>w. \A l \in Loads : WokenBy(l) \in [Loads -> Power]
  BY DEF WokenBy, TypeOK
<1>1. CASE Boot
  <2>1. signal' \in [Loads -> Signals]
    BY <1>1 DEF Boot, Signals
  <2> QED
    BY <1>1, <2>1, <1>c DEF Boot, TypeOK, ApiTypeOK, apiVars, tickVars, histVars, PC, Servers
<1>2. CASE PreflightProbe
  <2>1. pc' \in PC /\ cur' \in Nat \ {0}
    BY <1>2 DEF PreflightProbe, TypeOK, PC
  <2> QED
    BY <1>2, <2>1
    DEF PreflightProbe, TypeOK, ApiTypeOK, apiVars, worldVars, tickVars, histVars
<1>3. CASE PreflightWake
  <2>1. pc' \in PC /\ cur' \in Nat \ {0}
    BY <1>3 DEF PreflightWake, TypeOK, PC
  <2>2. power' \in [Loads -> Power]
    BY <1>3 DEF PreflightWake, WokenBy, TypeOK
  <2> QED
    BY <1>3, <2>1, <2>2 DEF PreflightWake, TypeOK, ApiTypeOK, apiVars, tickVars, histVars
<1>4. CASE Serve
  BY <1>4, <1>c DEF Serve, TypeOK, ApiTypeOK, apiVars, worldVars, tickVars, histVars, PC, Serving
<1>5. CASE StartTick
  <2>1. wasRestored' \subseteq UPS /\ wasCritical' \subseteq UPS
    BY <1>5 DEF StartTick, RestoredNow, CriticalNow
  <2>2. pc' \in PC /\ cur' \in Nat \ {0} /\ late' \subseteq Loads /\ lost' \subseteq Loads
    BY <1>5 DEF StartTick, PC, Serving, InTick
  <2>3. FreshTick
    BY <1>5 DEF StartTick
  <2> QED
    BY <1>5, <2>1, <2>2, <2>3, FreshType
    DEF StartTick, TypeOK, ApiTypeOK, apiVars, worldVars
<1>6. CASE PollOK
  <2>1. UPSOrder[cur] \in UPS
    BY <1>6, <1>a DEF PollOK, TypeOK
  <2>2. TelemetryFromVars(hw[UPSOrder[cur]]) \in Telemetry
    BY <2>1, <1>c, TelemetryType DEF TypeOK
  <2>3. tel' \in [UPS -> Telemetry]
    BY <1>6, <2>2 DEF PollOK, TypeOK
  <2>4. pc' \in PC /\ cur' \in Nat \ {0}
    BY <1>6 DEF PollOK, NextUPS, TypeOK, PC, Serving, InTick
  <2> QED
    BY <1>6, <2>3, <2>4 DEF PollOK, TypeOK, ApiTypeOK, apiVars, worldVars, histVars
<1>7. CASE PollFail
  <2>1. tel' \in [UPS -> Telemetry]
    BY <1>7, NoTelemetryType DEF PollFail, TypeOK
  <2>2. pc' \in PC /\ cur' \in Nat \ {0}
    BY <1>7 DEF PollFail, NextUPS, TypeOK, PC, Serving, InTick
  <2> QED
    BY <1>7, <2>1, <2>2 DEF PollFail, TypeOK, ApiTypeOK, apiVars, worldVars, histVars
<1>8. CASE ProbeLoad
  <2>1. LoadOrder[cur] \in Loads
    BY <1>8, <1>b DEF ProbeLoad, TypeOK
  <2>2. PICK a \in Probe(LoadOrder[cur]), s \in ReadShed(LoadOrder[cur]) :
          /\ actual' = [actual EXCEPT ![LoadOrder[cur]] = a]
          /\ shed' = [shed EXCEPT ![LoadOrder[cur]] = s]
    BY <1>8 DEF ProbeLoad
  <2>3. a \in ActualState /\ s \in ShedState
    BY <2>1, <2>2, ProbeType
  <2>4. actual' \in [Loads -> ActualState] /\ shed' \in [Loads -> ShedState]
    BY <2>2, <2>3 DEF TypeOK
  <2>5. probeAge' \in [Loads -> 0..ObsAgeCap]
    <3>1. 0 \in 0..ObsAgeCap
      OBVIOUS
    <3>2. probeAge' = [probeAge EXCEPT ![LoadOrder[cur]] = 0]
      BY <1>8 DEF ProbeLoad
    <3> QED
      BY <3>1, <3>2 DEF TypeOK
  <2>6. pc' \in PC /\ cur' \in Nat \ {0}
    BY <1>8 DEF ProbeLoad, TypeOK, PC, Serving, InTick
  <2> QED
    BY <1>8, <2>4, <2>5, <2>6
    DEF ProbeLoad, TypeOK, ApiTypeOK, apiVars, worldVars, histVars
<1>9. CASE Publish
  <2>1. seen' \in [ApiLoads -> Observation] /\ want' = want
    BY <1>9 DEF Publish, PublishActual, TypeOK, Observation
  <2> QED
    BY <1>9, <2>1
    DEF Publish, TypeOK, ApiTypeOK, worldVars, tickVars, histVars, PC, Serving, InTick
<1>10. CASE ReadRequests
  <2>1. want' \in [Loads -> Entry] /\ seen' = seen
    BY <1>10 DEF ReadRequests, DropExpired, NoEntry, TypeOK, ApiTypeOK, Entry
  <2>2. ext' \in [Loads -> Request]
    BY <1>10 DEF ReadRequests, Live, TypeOK, ApiTypeOK, Entry
  <2> QED
    BY <1>10, <2>1, <2>2
    DEF ReadRequests, TypeOK, ApiTypeOK, worldVars, histVars, PC, Serving, InTick
<1>11. CASE DecideStep
  <2>1. \A l \in Loads :
           plan'[l] \subseteq Decide(UPSConfigs, tel, LoadType[l], GovernedBy[l],
                                     actual[l], shed[l], ext[l])
    BY <1>11 DEF DecideStep, holdStartupWakes
  <2>2. \A l \in Loads :
           /\ plan'[l] \subseteq ActionKind
           /\ plan'[l] \subseteq IF l \in Servers THEN ServerKinds ELSE ChassisKinds
    <3> TAKE l \in Loads
    <3>1. LoadType[l] \in LoadTypes
      BY ConfigAssumption
    <3> QED
      BY <2>1, <3>1, DecideType DEF Servers
  <2>3. plan' \in [Loads -> SUBSET ActionKind]
    BY <1>11, <2>2 DEF DecideStep
  <2> QED
    BY <1>11, <2>2, <2>3
    DEF DecideStep, TypeOK, ApiTypeOK, apiVars, worldVars, histVars, PC, Serving, InTick
<1>12. CASE ApplyOK
  <2>1. PICK l \in Loads, k \in ActionKind : Effect(l, k) /\ Done(l, k)
    BY <1>12 DEF ApplyOK
  <2>2. power' \in [Loads -> Power] /\ signal' \in [Loads -> Signals]
    <3>1. signal \in [Loads -> Signals] /\ power \in [Loads -> Power]
      BY DEF TypeOK
    <3>2. CASE k \in {"AssertServerShed", "ReleaseServerShed"}
      BY <2>1, <3>1, <3>2 DEF Effect, Signals
    <3>3. CASE k = "ChassisShutdown"
      BY <2>1, <3>1, <3>3 DEF Effect
    <3>4. CASE k \in {"WakeServer", "ChassisPowerUp"}
      BY <2>1, <3>1, <3>4, <1>w DEF Effect
    <3> QED
      BY <3>2, <3>3, <3>4 DEF ActionKind, ServerKinds, ChassisKinds
  <2>3. /\ plan' \in [Loads -> SUBSET ActionKind]
        /\ \A m \in Loads : plan'[m] \subseteq plan[m]
    BY <2>1 DEF Done, TypeOK
  <2> QED
    BY <1>12, <2>2, <2>3 DEF ApplyOK, TypeOK, ApiTypeOK, apiVars, histVars
<1>13. CASE ApplyLost
  <2>1. PICK l \in Loads, k \in ActionKind : Done(l, k) /\ lost' = lost \cup {l}
    BY <1>13 DEF ApplyLost
  <2>2. /\ plan' \in [Loads -> SUBSET ActionKind]
        /\ \A m \in Loads : plan'[m] \subseteq plan[m]
    BY <2>1 DEF Done, TypeOK
  <2> QED
    BY <1>13, <2>1, <2>2 DEF ApplyLost, TypeOK, ApiTypeOK, apiVars, worldVars
<1>14. CASE ApplyDry
  <2>1. PICK l \in Loads, k \in ActionKind : Done(l, k)
    BY <1>14 DEF ApplyDry
  <2>2. /\ plan' \in [Loads -> SUBSET ActionKind]
        /\ \A m \in Loads : plan'[m] \subseteq plan[m]
    BY <2>1 DEF Done, TypeOK
  <2> QED
    BY <1>14, <2>2 DEF ApplyDry, TypeOK, ApiTypeOK, apiVars, worldVars, histVars
<1>15. CASE EndTick
  BY <1>15, FreshType
  DEF EndTick, NoHistory, TypeOK, ApiTypeOK, apiVars, worldVars, PC, Serving
<1>16. CASE Crash
  <2>1. ApiTypeOK'
    BY <1>16 DEF Crash, NewServer, ApiTypeOK, Entry, Observation, NoEntry, NoObservation
  <2> QED
    BY <1>16, <1>c, <2>1, FreshType DEF Crash, NoHistory, TypeOK, worldVars, PC
<1>17. CASE Clock
  <2>1. want' \in [Loads -> Entry]
    <3>1. \A l \in Loads : [want[l] EXCEPT !.age = Older(want[l].age, RequestTTL)] \in Entry
      BY OlderType DEF TypeOK, ApiTypeOK, Entry
    <3> QED
      BY <1>17, <3>1 DEF Clock, ApiClock, TypeOK, ApiTypeOK
  <2>2. seen' \in [ApiLoads -> Observation]
    <3>1. \A l \in ApiLoads : [seen[l] EXCEPT !.age = Older(seen[l].age, ObsAgeCap)] \in Observation
      BY OlderType DEF TypeOK, ApiTypeOK, Observation
    <3> QED
      BY <1>17, <3>1 DEF Clock, ApiClock, TypeOK, ApiTypeOK
  <2>3. uptime' \in 0..StartupGrace
    BY <1>17, <1>c, OlderType DEF Clock, TypeOK
  <2>4. probeAge' \in [Loads -> 0..ObsAgeCap]
    BY <1>17, OlderType DEF Clock, TypeOK
  <2> QED
    BY <1>17, <2>1, <2>2, <2>3, <2>4
    DEF Clock, TypeOK, ApiTypeOK, worldVars, tickVars, histVars
<1>18. ASSUME NEW u \in UPS, UpsChanges(u) PROVE TypeOK'
  <2>2. hw' \in [UPS -> Vars]
    BY <1>18 DEF UpsChanges, TypeOK
  <2>3. wasRestored' \subseteq UPS /\ wasCritical' \subseteq UPS
    BY <1>18, <2>2 DEF UpsChanges, RestoredNow, CriticalNow, TypeOK
  <2> QED
    BY <1>18, <2>2, <2>3 DEF UpsChanges, TypeOK, ApiTypeOK, apiVars, tickVars
<1>19. ASSUME NEW l \in Loads, Put(l) PROVE TypeOK'
  <2>1. want' \in [Loads -> Entry] /\ seen' = seen
    <3>1. PICK a \in BOOLEAN, b \in Body : handlePower(a, l, b)
      BY <1>19 DEF Put
    <3>2. b \in Request
      BY <3>1 DEF handlePower, PowerStatus, Body, requestByName
    <3> QED
      BY <3>1, <3>2 DEF handlePower, TypeOK, ApiTypeOK, Entry
  <2> QED
    BY <1>19, <2>1 DEF Put, TypeOK, ApiTypeOK, worldVars, tickVars
<1>20. ASSUME NEW l \in Loads, NEW from \in Power, NEW to \in Power, Turn(l, from, to)
       PROVE TypeOK'
  BY <1>20 DEF Turn, TypeOK, ApiTypeOK, apiVars, tickVars, histVars
<1>21. ASSUME NEW l \in Loads,
              UpsmonShutdown(l) \/ PoweredOff(l) \/ Booted(l) \/ Operator(l)
       PROVE TypeOK'
  BY <1>20, <1>21 DEF UpsmonShutdown, PoweredOff, Booted, Operator
<1>22. CASE UNCHANGED vars
  BY <1>22 DEF vars, TypeOK, ApiTypeOK
<1> QED
  BY <1>1, <1>2, <1>3, <1>4, <1>5, <1>6, <1>7, <1>8, <1>9, <1>10, <1>11, <1>12,
     <1>13, <1>14, <1>15, <1>16, <1>17, <1>18, <1>19, <1>21, <1>22
  DEF Next, Tick

(* Whatever the configuration, the interleaving and the faults, every      *)
(* variable keeps its type.                                                *)
THEOREM TypeCorrect == Spec => []TypeOK
  BY TypeInit, TypeStep, PTL DEF Spec

-----------------------------------------------------------------------------
(* The safety properties are not inductive: a plan is only as good as the  *)
(* readings, requests and signals it was made from.  SafetyInv adds what   *)
(* each of those still says about the world when it is used.               *)

Verdict(u) == Classify(UPSConfigs[u], tel[u])

(* During a tick the history covers the present, and a reading is of       *)
(* something that happened in this tick; between ticks there is none.      *)
ReadingsInv ==
  /\ pc \in InTick => RestoredNow(hw) \subseteq wasRestored /\ CriticalNow(hw) \subseteq wasCritical
  /\ pc \notin InTick => \A u \in UPS : tel[u] = NoTelemetry
  /\ \A u \in UPS : /\ Verdict(u) = "healthy" => u \in wasRestored
                    /\ Verdict(u) = "shed" => u \in wasCritical
                    /\ tel[u].onBattery => tel[u].ok

(* Until Apply starts to drive it, a signal is as it was read; between     *)
(* ticks nothing is remembered of it.                                      *)
SignalInv ==
  /\ pc # "apply" => \A l \in Loads : /\ shed[l] = "asserted" => signal[l] = statusShed
                                      /\ shed[l] = "released" => signal[l] = statusOK
  /\ pc \notin InTick => \A l \in Loads : shed[l] = "unknown"

(* Only a load of the API has a request, and unless it was given one since *)
(* the tick works with the standing one.                                   *)
RequestInv ==
  \A l \in Loads :
    /\ want[l].req # "none" => l \in ApiLoads
    /\ ext[l] # "none" => l \in ApiLoads
    /\ pc \in {"decide", "apply"} /\ want[l].req \in {"off", "hold"} /\ l \notin late
         => ext[l] = want[l].req

(* A plan never mixes shedding with waking, and a wake whose release is no *)
(* longer to come finds the signal at OL.                                  *)
PlanInv ==
  pc = "apply" => \A l \in Loads :
    /\ "AssertServerShed" \in plan[l] => plan[l] = {"AssertServerShed"}
    /\ (\E u \in GovernedBy[l] : CriticalRead(u)) => "ReleaseServerShed" \notin plan[l]
    /\ "WakeServer" \in plan[l] /\ "ReleaseServerShed" \notin plan[l]
         => signal[l] = statusOK \/ l \in lost \/ DryRun

SafetyInv ==
  /\ TypeOK /\ ReadingsInv /\ SignalInv /\ RequestInv /\ PlanInv
  /\ WakeInterlock /\ ShedJustified /\ ShedFollowsCritical /\ RequestHonoured

(* A number that is there parses to itself, a missing one to -1.           *)
LEMMA AtoiFacts ==
  ASSUME NEW opt, opt = {} \/ \E n \in opt : n \in Int /\ opt = {n}
  PROVE  /\ Atoi(opt) \in Int
         /\ \A n \in opt : n = Atoi(opt)
         /\ Atoi(opt) >= 0 => Atoi(opt) \in opt
  BY DEF Atoi

(* What Classify says of a reading was true of the UPS it was read from.   *)
LEMMA ReadingTrue ==
  ASSUME NEW c \in UPSConfig, NEW v, IsVars(v)
  PROVE  /\ Classify(c, TelemetryFromVars(v)) = "healthy" => Restored(c, v)
         /\ Classify(c, TelemetryFromVars(v)) = "shed" => Critical(c, v)
         /\ TelemetryFromVars(v).onBattery => TelemetryFromVars(v).ok
<1> DEFINE t == TelemetryFromVars(v)
<1>2. /\ Atoi(v.runtime) \in Int /\ (Atoi(v.runtime) >= 0 => Atoi(v.runtime) \in v.runtime)
      /\ Atoi(v.charge) \in Int /\ (Atoi(v.charge) >= 0 => Atoi(v.charge) \in v.charge)
      /\ \A n \in v.charge : n = Atoi(v.charge)
  BY AtoiFacts DEF IsVars
<1>3. /\ t.ok = v.hasStatus
      /\ t.onLine = (v.hasStatus /\ "OL" \in v.status)
      /\ t.onBattery = (v.hasStatus /\ "OB" \in v.status)
      /\ t.lowBattery = (v.hasStatus /\ "LB" \in v.status)
      /\ t.runtime = Atoi(v.runtime) /\ t.charge = Atoi(v.charge)
  BY DEF TelemetryFromVars
<1>4. v.hasStatus \in BOOLEAN
  BY DEF IsVars
<1>5. c.shedRuntime \in Int /\ c.shedCharge \in Int /\ c.recoverCharge \in Int
  BY DEF UPSConfig
<1> HIDE DEF t
<1>6. ASSUME Classify(c, t) = "healthy" PROVE Restored(c, v)
  <2>1. t.ok /\ ~t.onBattery /\ t.onLine /\ Recharged(c, t)
    BY <1>6 DEF Classify
  <2> QED
    BY <2>1, <1>2, <1>3, <1>4, <1>5 DEF Recharged, Restored
<1>7. ASSUME Classify(c, t) = "shed" PROVE Critical(c, v)
  <2>1. t.ok /\ t.onBattery /\ BelowFloor(c, t)
    BY <1>7 DEF Classify
  <2>2. OnBattery(v)
    BY <2>1, <1>3, <1>4 DEF OnBattery
  <2>3. CASE t.lowBattery
    BY <2>2, <2>3, <1>3 DEF Critical
  <2>4. CASE t.runtime >= 0 /\ t.runtime <= c.shedRuntime
    <3>1. Atoi(v.runtime) \in v.runtime \cap 0..c.shedRuntime
      BY <2>4, <1>2, <1>3, <1>5
    <3> QED
      BY <2>2, <3>1 DEF Critical
  <2>5. CASE c.shedCharge > 0 /\ t.charge >= 0 /\ t.charge <= c.shedCharge
    <3>1. Atoi(v.charge) \in v.charge \cap 0..c.shedCharge
      BY <2>5, <1>2, <1>3, <1>5
    <3> QED
      BY <2>2, <2>5, <3>1 DEF Critical
  <2> QED
    BY <2>1, <2>3, <2>4, <2>5 DEF BelowFloor
<1> QED
  BY <1>3, <1>4, <1>6, <1>7 DEF t

(* And the other way round: for any thresholds and any variables a UPS may *)
(* serve, missing, unparseable and negative numbers included, the parser   *)
(* and the classification together find healthy and shed exactly what is   *)
(* restored and critical (TelemetryFromVars, Classify).                    *)
THEOREM ReadingExact ==
  ASSUME NEW c \in UPSConfig, NEW v, IsVars(v)
  PROVE  /\ Classify(c, TelemetryFromVars(v)) = "healthy" <=> Restored(c, v)
         /\ Classify(c, TelemetryFromVars(v)) = "shed" <=> Critical(c, v)
<1> DEFINE t == TelemetryFromVars(v)
<1>2. /\ Atoi(v.runtime) \in Int /\ (\A n \in v.runtime : n = Atoi(v.runtime))
      /\ Atoi(v.charge) \in Int /\ (Atoi(v.charge) >= 0 => Atoi(v.charge) \in v.charge)
      /\ \A n \in v.charge : n = Atoi(v.charge)
  BY AtoiFacts DEF IsVars
<1>3. /\ t.ok = v.hasStatus
      /\ t.onLine = (v.hasStatus /\ "OL" \in v.status)
      /\ t.onBattery = (v.hasStatus /\ "OB" \in v.status)
      /\ t.lowBattery = (v.hasStatus /\ "LB" \in v.status)
      /\ t.runtime = Atoi(v.runtime) /\ t.charge = Atoi(v.charge)
  BY DEF TelemetryFromVars
<1>4. v.hasStatus \in BOOLEAN
  BY DEF IsVars
<1>5. c.shedRuntime \in Int /\ c.shedCharge \in Int /\ c.recoverCharge \in Int
  BY DEF UPSConfig
<1> HIDE DEF t
<1>6. ASSUME Restored(c, v) PROVE Classify(c, t) = "healthy"
  <2>1. t.ok /\ ~t.onBattery /\ t.onLine
    BY <1>6, <1>3, <1>4 DEF Restored
  <2>2. Recharged(c, t)
    BY <1>6, <1>2, <1>3, <1>5 DEF Restored, Recharged
  <2> QED
    BY <2>1, <2>2 DEF Classify
<1>7. ASSUME Critical(c, v) PROVE Classify(c, t) = "shed"
  <2>1. t.ok /\ t.onBattery
    BY <1>7, <1>3, <1>4 DEF Critical, OnBattery
  <2>2. CASE "LB" \in v.status
    BY <2>1, <2>2, <1>3, <1>4 DEF BelowFloor, Classify
  <2>3. CASE v.runtime \cap 0..c.shedRuntime # {}
    BY <2>1, <2>3, <1>2, <1>3, <1>5 DEF BelowFloor, Classify
  <2>4. CASE c.shedCharge > 0 /\ v.charge \cap 0..c.shedCharge # {}
    BY <2>1, <2>4, <1>2, <1>3, <1>5 DEF BelowFloor, Classify
  <2> QED
    BY <1>7, <2>2, <2>3, <2>4 DEF Critical
<1> QED
  BY <1>6, <1>7, ReadingTrue DEF t

(* A failed poll supports no verdict.                                      *)
LEMMA NoReading ==
  ASSUME NEW c
  PROVE  Classify(c, NoTelemetry) = "unknown" /\ ~NoTelemetry.onBattery
  BY DEF Classify, NoTelemetry

(* What the verdicts and the request must have been for an action to be    *)
(* decided, and what is decided when one verdict is "shed".                *)
LEMMA DecideFacts ==
  ASSUME TypeOK, NEW l \in Loads,
         NEW acts, acts = Decide(UPSConfigs, tel, LoadType[l], GovernedBy[l],
                                 actual[l], shed[l], ext[l])
  PROVE  /\ acts \cap PowerOnKinds # {} =>
              /\ \A u \in GovernedBy[l] : Verdict(u) = "healthy"
              /\ ext[l] \in {"none", "on"}
         /\ acts \cap ShedKinds # {} =>
              (\E u \in GovernedBy[l] : Verdict(u) = "shed") \/ ext[l] = "off"
         /\ (\E u \in GovernedBy[l] : Verdict(u) = "shed") /\ l \in Servers =>
              acts = {k \in {"AssertServerShed"} : shed[l] # "asserted"}
         /\ "AssertServerShed" \in acts => acts = {"AssertServerShed"}
         /\ "WakeServer" \in acts /\ "ReleaseServerShed" \notin acts => shed[l] = "released"
<1> DEFINE states == {Verdict(u) : u \in GovernedBy[l]}
           d == DesiredForLoad(states, ext[l])
<1>t. ext[l] \in Request /\ LoadType[l] \in LoadTypes
  BY ConfigAssumption DEF TypeOK
<1>1. acts = ReconcileLoad(LoadType[l], d, actual[l], shed[l])
  BY DEF Decide, Verdict
<1> HIDE DEF d
<1>2. acts \cap PowerOnKinds # {} => d = "on"
  BY <1>1, <1>t DEF ReconcileLoad, ReconcileChassis, ReconcileServer, PowerOnKinds, LoadTypes
<1>3. acts \cap ShedKinds # {} => d = "off"
  BY <1>1, <1>t DEF ReconcileLoad, ReconcileChassis, ReconcileServer, ShedKinds, LoadTypes
<1>4. d = "off" /\ l \in Servers => acts = {k \in {"AssertServerShed"} : shed[l] # "asserted"}
  BY <1>1 DEF ReconcileLoad, ReconcileServer, Servers
<1>5. "AssertServerShed" \in acts => acts = {"AssertServerShed"}
  BY <1>1, <1>t DEF ReconcileLoad, ReconcileChassis, ReconcileServer, LoadTypes
<1>6. "WakeServer" \in acts /\ "ReleaseServerShed" \notin acts => shed[l] = "released"
  BY <1>1, <1>t DEF ReconcileLoad, ReconcileChassis, ReconcileServer, LoadTypes
<1> HIDE DEF states
<1>7. d = "on" => states \subseteq {"healthy"} /\ ext[l] \in {"none", "on"}
  BY DEF d, DesiredForLoad, desiredFromSources
<1>8. d = "off" => "shed" \in states \/ ext[l] = "off"
  BY DEF d, DesiredForLoad, desiredFromSources
<1>9. "shed" \in states => d = "off"
  BY DEF d, DesiredForLoad, desiredFromSources
<1> QED
  BY <1>2, <1>3, <1>4, <1>5, <1>6, <1>7, <1>8, <1>9 DEF states

(* What the property calls a critical reading, Classify calls "shed".      *)
LEMMA CriticalReadVerdict ==
  ASSUME TypeOK, ReadingsInv, NEW u \in UPS, CriticalRead(u)
  PROVE  Verdict(u) = "shed"
<1>1. UPSConfigs[u] \in UPSConfig /\ tel[u] \in Telemetry
  BY ConfigAssumption DEF TypeOK
<1>2. /\ UPSConfigs[u].shedRuntime \in Int /\ UPSConfigs[u].shedCharge \in Int
      /\ tel[u].runtime \in Int /\ tel[u].charge \in Int
  BY <1>1 DEF UPSConfig, Telemetry
<1>3. BelowFloor(UPSConfigs[u], tel[u])
  BY <1>2 DEF CriticalRead, BelowFloor
<1>4. tel[u].ok /\ tel[u].onBattery
  BY DEF CriticalRead, ReadingsInv
<1> QED
  BY <1>3, <1>4 DEF Verdict, Classify

(* A step that leaves alone all that SafetyInv speaks of preserves it, if  *)
(* it stays at its place in the tick or outside of it.                     *)
LEMMA Frame ==
  ASSUME SafetyInv, TypeOK',
         UNCHANGED <<hw, signal, tel, shed, ext, plan>>, UNCHANGED histVars,
         \A l \in Loads : want'[l].req = want[l].req,
         pc' = pc \/ (pc \notin InTick /\ pc' \notin InTick)
  PROVE  SafetyInv'
<1>1. ReadingsInv'
  BY DEF SafetyInv, ReadingsInv, Verdict, RestoredNow, CriticalNow, histVars
<1>2. SignalInv'
  BY DEF SafetyInv, SignalInv, InTick
<1>3. RequestInv'
  BY DEF SafetyInv, RequestInv, InTick, histVars
<1>4. pc' = "apply" => pc = "apply"
  BY DEF InTick
<1>6. PlanInv'
  BY <1>4 DEF SafetyInv, PlanInv, CriticalRead, histVars
<1>7. WakeInterlock' /\ ShedJustified' /\ RequestHonoured'
  BY <1>4 DEF SafetyInv, WakeInterlock, ShedJustified, RequestHonoured, Planned, histVars
<1>8. ShedFollowsCritical'
  BY <1>4 DEF SafetyInv, ShedFollowsCritical, CriticalRead, histVars
<1> QED
  BY <1>1, <1>2, <1>3, <1>6, <1>7, <1>8 DEF SafetyInv

(* The parts of SafetyInv about a plan hold wherever there is none.        *)
LEMMA NoPlan ==
  ASSUME pc' # "apply"
  PROVE  (PlanInv /\ WakeInterlock /\ ShedJustified /\ ShedFollowsCritical /\ RequestHonoured)'
  BY DEF PlanInv, WakeInterlock, ShedJustified, ShedFollowsCritical, RequestHonoured, Planned

LEMMA SafetyInit == Init => SafetyInv
<1> SUFFICES ASSUME Init PROVE SafetyInv
  OBVIOUS
<1>1. TypeOK
  BY TypeInit
<1>2. ReadingsInv
  BY NoReading DEF Init, ReadingsInv, Verdict, InTick
<1>3. SignalInv /\ RequestInv
  BY DEF Init, New, NoEntry, SignalInv, RequestInv
<1>4. PlanInv /\ WakeInterlock /\ ShedJustified /\ ShedFollowsCritical /\ RequestHonoured
  BY DEF Init, PlanInv, WakeInterlock, ShedJustified, ShedFollowsCritical,
         RequestHonoured, Planned
<1> QED
  BY <1>1, <1>2, <1>3, <1>4 DEF SafetyInv

(* The steps of a tick up to the decision.                                 *)
LEMMA ReadStep ==
  ASSUME SafetyInv, TypeOK',
         StartTick \/ PollOK \/ PollFail \/ ProbeLoad \/ Publish \/ ReadRequests
  PROVE  SafetyInv'
<1>a. pc' # "apply"
  BY DEF StartTick, PollOK, PollFail, NextUPS, ProbeLoad, Publish, ReadRequests
<1>b. TypeOK /\ ReadingsInv /\ SignalInv /\ RequestInv
  BY DEF SafetyInv
<1>1. CASE StartTick
  <2>1. ReadingsInv'
    BY <1>1, NoReading
    DEF StartTick, FreshTick, worldVars, ReadingsInv, Verdict, RestoredNow, CriticalNow
  <2>2. SignalInv' /\ RequestInv'
    BY <1>1, <1>b DEF StartTick, FreshTick, worldVars, apiVars, SignalInv, RequestInv, InTick
  <2> QED
    BY <1>a, <2>1, <2>2, NoPlan DEF SafetyInv
<1>2. CASE PollOK \/ PollFail
  <2>1. PICK u \in UPS : \E t \in {TelemetryFromVars(hw[u]), NoTelemetry} :
          tel' = [tel EXCEPT ![u] = t]
    <3>1. UPSOrder[cur] \in UPS
      BY <1>2, <1>b, ConfigAssumption DEF PollOK, PollFail, TypeOK
    <3> QED
      BY <1>2, <3>1 DEF PollOK, PollFail
  <2>t. PICK t \in {TelemetryFromVars(hw[u]), NoTelemetry} : tel' = [tel EXCEPT ![u] = t]
    BY <2>1
  <2>2. /\ Classify(UPSConfigs[u], t) = "healthy" => u \in wasRestored
        /\ Classify(UPSConfigs[u], t) = "shed" => u \in wasCritical
        /\ t.onBattery => t.ok
    <3>1. IsVars(hw[u]) /\ UPSConfigs[u] \in UPSConfig
      BY <1>b, ConfigAssumption DEF TypeOK
    <3>2. /\ Restored(UPSConfigs[u], hw[u]) => u \in wasRestored
          /\ Critical(UPSConfigs[u], hw[u]) => u \in wasCritical
      BY <1>2, <1>b DEF PollOK, PollFail, ReadingsInv, RestoredNow, CriticalNow, InTick
    <3> QED
      BY <2>t, <3>1, <3>2, ReadingTrue, NoReading
  <2>3. pc \in InTick /\ pc' \in InTick
    BY <1>2 DEF PollOK, PollFail, NextUPS, InTick
  <2>4. \A x \in UPS : tel'[x] = IF x = u THEN t ELSE tel[x]
    BY <2>t, <1>b DEF TypeOK
  <2>5. UNCHANGED <<want, hw, signal, shed, ext, wasRestored, wasCritical, late>>
    BY <1>2 DEF PollOK, PollFail, apiVars, worldVars, histVars
  <2>6. ReadingsInv'
    BY <1>b, <2>2, <2>3, <2>4, <2>5 DEF ReadingsInv, Verdict, RestoredNow, CriticalNow
  <2>7. SignalInv' /\ RequestInv'
    BY <1>2, <1>a, <1>b, <2>3, <2>5
    DEF PollOK, PollFail, NextUPS, SignalInv, RequestInv
  <2> QED
    BY <1>a, <2>6, <2>7, NoPlan DEF SafetyInv
<1>3. CASE ProbeLoad
  <2>1. LoadOrder[cur] \in Loads
    BY <1>3, <1>b, ConfigAssumption DEF ProbeLoad, TypeOK
  <2>2. PICK s \in ReadShed(LoadOrder[cur]) : shed' = [shed EXCEPT ![LoadOrder[cur]] = s]
    BY <1>3 DEF ProbeLoad
  <2>3. /\ s = "asserted" => signal[LoadOrder[cur]] = statusShed
        /\ s = "released" => signal[LoadOrder[cur]] = statusOK
    <3>1. signal[LoadOrder[cur]] \in {statusShed, statusOK}
      BY <1>b, <2>1 DEF TypeOK, Signals
    <3>2. ParseShedStatus(statusShed) = "asserted" /\ ParseShedStatus(statusOK) = "released"
      BY DEF ParseShedStatus, statusShed, statusOK
    <3> QED
      BY <2>2, <3>1, <3>2 DEF ReadShed
  <2>4. UNCHANGED <<want, hw, signal, tel, ext, wasRestored, wasCritical, late>>
    BY <1>3 DEF ProbeLoad, apiVars, worldVars, histVars
  <2>5. pc = "probe" /\ pc' \in {"probe", "publish"}
    BY <1>3 DEF ProbeLoad
  <2>6. SignalInv'
    BY <1>b, <2>1, <2>2, <2>3, <2>4, <2>5 DEF SignalInv, TypeOK, InTick
  <2>7. ReadingsInv' /\ RequestInv'
    BY <1>b, <2>4, <2>5 DEF ReadingsInv, RequestInv, Verdict, RestoredNow, CriticalNow, InTick
  <2> QED
    BY <1>a, <2>6, <2>7, NoPlan DEF SafetyInv
<1>4. CASE Publish
  <2>1. UNCHANGED <<want, hw, signal, tel, shed, ext, wasRestored, wasCritical, late>>
    BY <1>4 DEF Publish, PublishActual, worldVars, tickVars, histVars
  <2>2. pc = "publish" /\ pc' = "requests"
    BY <1>4 DEF Publish
  <2>3. SignalInv' /\ ReadingsInv' /\ RequestInv'
    BY <1>b, <2>1, <2>2
    DEF SignalInv, ReadingsInv, RequestInv, Verdict, RestoredNow, CriticalNow, InTick
  <2> QED
    BY <1>a, <2>3, NoPlan DEF SafetyInv
<1>5. CASE ReadRequests
  <2>1. UNCHANGED <<hw, signal, tel, shed, wasRestored, wasCritical, late>>
    BY <1>5 DEF ReadRequests, worldVars, histVars
  <2>2. pc = "requests" /\ pc' = "decide"
    BY <1>5 DEF ReadRequests
  <2>3. \A l \in Loads : /\ want'[l].req = ext'[l]
                         /\ ext'[l] \in {want[l].req, "none"}
    BY <1>5, <1>b DEF ReadRequests, DropExpired, Live, NoEntry, TypeOK, ApiTypeOK, Entry
  <2>4. RequestInv'
    BY <1>b, <2>3 DEF RequestInv
  <2>5. SignalInv' /\ ReadingsInv'
    BY <1>b, <2>1, <2>2
    DEF SignalInv, ReadingsInv, Verdict, RestoredNow, CriticalNow, InTick
  <2> QED
    BY <1>a, <2>4, <2>5, NoPlan DEF SafetyInv
<1> QED
  BY <1>1, <1>2, <1>3, <1>4, <1>5

(* The decision: what the readings, the signal and the request still say   *)
(* of the world carries over to the plan.                                  *)
LEMMA PlanStep ==
  ASSUME SafetyInv, TypeOK', DecideStep
  PROVE  SafetyInv'
<1> USE DEF DecideStep
<1>a. TypeOK /\ ReadingsInv /\ SignalInv /\ RequestInv
  BY DEF SafetyInv
<1>b. UNCHANGED <<want, hw, signal, tel, shed, ext, wasRestored, wasCritical, late, lost>>
  BY DEF apiVars, worldVars, histVars
<1>c. pc = "decide" /\ pc' = "apply"
  OBVIOUS
<1>1. ReadingsInv' /\ RequestInv' /\ SignalInv'
  BY <1>a, <1>b, <1>c
  DEF ReadingsInv, RequestInv, SignalInv, Verdict, RestoredNow, CriticalNow, InTick
<1> DEFINE acts(l) == Decide(UPSConfigs, tel, LoadType[l], GovernedBy[l],
                             actual[l], shed[l], ext[l])
<1>2. \A l \in Loads : plan'[l] = {k \in acts(l) : StartupGrace <= 0 \/ uptime >= StartupGrace
                                                     \/ ~isPowerOn(k)}
  BY DEF holdStartupWakes
<1>3. ASSUME NEW l \in Loads
      PROVE  /\ acts(l) \cap PowerOnKinds # {} =>
                  /\ \A u \in GovernedBy[l] : Verdict(u) = "healthy"
                  /\ ext[l] \in {"none", "on"}
             /\ acts(l) \cap ShedKinds # {} =>
                  (\E u \in GovernedBy[l] : Verdict(u) = "shed") \/ ext[l] = "off"
             /\ (\E u \in GovernedBy[l] : Verdict(u) = "shed") /\ l \in Servers =>
                  acts(l) = {k \in {"AssertServerShed"} : shed[l] # "asserted"}
             /\ "AssertServerShed" \in acts(l) => acts(l) = {"AssertServerShed"}
             /\ "WakeServer" \in acts(l) /\ "ReleaseServerShed" \notin acts(l) => shed[l] = "released"
  <2> HIDE DEF DecideStep
  <2> QED
    BY <1>a, DecideFacts
<1> HIDE DEF acts, DecideStep
<1>4. \A l \in Loads : /\ plan'[l] \subseteq acts(l)
                       /\ \A k \in acts(l) : ~isPowerOn(k) => k \in plan'[l]
  BY <1>2
<1>5. ~isPowerOn("AssertServerShed") /\ ~isPowerOn("ReleaseServerShed")
  BY DEF isPowerOn
<1>g. \A l \in Loads : GovernedBy[l] \subseteq UPS
  BY ConfigAssumption
<1>6. ASSUME NEW l \in Loads, \E u \in GovernedBy[l] : CriticalRead(u)
      PROVE  \E u \in GovernedBy[l] : Verdict(u) = "shed"
  BY <1>6, <1>a, <1>g, CriticalReadVerdict
<1>7. \A u \in UPS : CriticalRead(u)' <=> CriticalRead(u)
  BY <1>b DEF CriticalRead
<1>8. PlanInv'
  <2> SUFFICES ASSUME NEW l \in Loads
      PROVE  /\ "AssertServerShed" \in plan'[l] => plan'[l] = {"AssertServerShed"}
             /\ (\E u \in GovernedBy[l] : CriticalRead(u)') => "ReleaseServerShed" \notin plan'[l]
             /\ "WakeServer" \in plan'[l] /\ "ReleaseServerShed" \notin plan'[l]
                  => signal'[l] = statusOK
    BY DEF PlanInv
  <2>1. "AssertServerShed" \in plan'[l] => plan'[l] = {"AssertServerShed"}
    BY <1>3, <1>4
  <2>2. (\E u \in GovernedBy[l] : CriticalRead(u)') => "ReleaseServerShed" \notin plan'[l]
    <3>1. SUFFICES ASSUME \E u \in GovernedBy[l] : CriticalRead(u)
                   PROVE  "ReleaseServerShed" \notin plan'[l]
      BY <1>7, <1>g
    <3>2. \E u \in GovernedBy[l] : Verdict(u) = "shed"
      BY <1>6, <3>1
    <3>3. CASE l \in Servers
      BY <1>3, <1>4, <3>2, <3>3
    <3>4. CASE l \notin Servers
      BY <3>4 DEF TypeOK, Servers, ChassisKinds
    <3> QED
      BY <3>3, <3>4
  <2>3. "WakeServer" \in plan'[l] /\ "ReleaseServerShed" \notin plan'[l] => signal'[l] = statusOK
    BY <1>3, <1>4, <1>5, <1>a, <1>b, <1>c DEF SignalInv
  <2> QED
    BY <2>1, <2>2, <2>3
<1>9. WakeInterlock'
  BY <1>3, <1>4, <1>a, <1>b, <1>g DEF WakeInterlock, Planned, ReadingsInv
<1>10. ShedJustified'
  <2> SUFFICES ASSUME NEW l \in Loads, plan'[l] \cap ShedKinds # {}
               PROVE  GovernedBy[l] \cap wasCritical # {} \/ (l \in ApiLoads /\ ext[l] = "off")
    BY <1>b DEF ShedJustified, Planned
  <2>1. acts(l) \cap ShedKinds # {}
    BY <1>4
  <2>2. CASE \E u \in GovernedBy[l] : Verdict(u) = "shed"
    BY <2>2, <1>a, <1>g DEF ReadingsInv
  <2>3. CASE ext[l] = "off"
    BY <2>3, <1>a DEF RequestInv
  <2> QED
    BY <2>1, <2>2, <2>3, <1>3
<1>11. ShedFollowsCritical'
  <2> SUFFICES ASSUME NEW l \in Servers, \E u \in GovernedBy[l] : CriticalRead(u)
               PROVE  signal[l] = statusShed \/ "AssertServerShed" \in plan'[l]
    BY <1>7, <1>b, <1>g DEF ShedFollowsCritical, Servers
  <2>1. l \in Loads
    BY DEF Servers
  <2>2. acts(l) = {k \in {"AssertServerShed"} : shed[l] # "asserted"}
    BY <1>3, <1>6, <2>1
  <2>3. CASE shed[l] = "asserted"
    BY <2>1, <2>3, <1>a, <1>c DEF SignalInv
  <2>4. CASE shed[l] # "asserted"
    BY <2>1, <2>2, <2>4, <1>4, <1>5
  <2> QED
    BY <2>3, <2>4
<1>12. RequestHonoured'
  BY <1>3, <1>4, <1>a, <1>b, <1>c DEF RequestHonoured, Planned, RequestInv
<1> QED
  BY <1>1, <1>8, <1>9, <1>10, <1>11, <1>12 DEF SafetyInv

(* One action of Apply, executed, lost or only logged.                     *)
LEMMA ApplyStep ==
  ASSUME SafetyInv, TypeOK', ApplyOK \/ ApplyLost \/ ApplyDry
  PROVE  SafetyInv'
<1>a. TypeOK /\ ReadingsInv /\ SignalInv /\ RequestInv /\ PlanInv
  BY DEF SafetyInv
<1>b. WakeInterlock /\ ShedJustified /\ ShedFollowsCritical /\ RequestHonoured
  BY DEF SafetyInv
<1>c. /\ pc = "apply" /\ pc' = "apply"
      /\ UNCHANGED <<want, hw, tel, shed, ext, wasRestored, wasCritical, late>>
      /\ lost \subseteq lost'
  BY DEF ApplyOK, ApplyLost, ApplyDry, apiVars, worldVars, histVars
<1>1. PICK m \in Loads, k \in ActionKind :
        /\ First(plan[m], k) /\ Done(m, k)
        /\ \/ Effect(m, k)
           \/ signal' = signal /\ m \in lost'
           \/ signal' = signal /\ DryRun
  BY DEF ApplyOK, ApplyLost, ApplyDry, NextAction, worldVars
<1>2. /\ \A l \in Loads : l # m => plan'[l] = plan[l] /\ signal'[l] = signal[l]
      /\ plan'[m] = plan[m] \ {k}
      /\ k \in plan[m]
    BY <1>1, <1>a DEF Done, Effect, First, TypeOK
<1>3. \/ /\ k = "AssertServerShed" => signal'[m] = statusShed
         /\ k = "ReleaseServerShed" => signal'[m] = statusOK
         /\ k \notin {"AssertServerShed", "ReleaseServerShed"} => signal'[m] = signal[m]
      \/ signal'[m] = signal[m] /\ (m \in lost' \/ DryRun)
  BY <1>1, <1>a DEF Effect, TypeOK
<1>4. \A l \in Loads : plan'[l] \subseteq plan[l]
  BY <1>2
<1>5. ReadingsInv' /\ SignalInv' /\ RequestInv'
  BY <1>a, <1>c
  DEF ReadingsInv, SignalInv, RequestInv, Verdict, RestoredNow, CriticalNow, InTick
<1>6. WakeInterlock' /\ ShedJustified' /\ RequestHonoured'
  BY <1>b, <1>c, <1>4 DEF WakeInterlock, ShedJustified, RequestHonoured, Planned
<1>g. \A l \in Loads : GovernedBy[l] \subseteq UPS
  BY ConfigAssumption
<1>7. \A u \in UPS : CriticalRead(u)' <=> CriticalRead(u)
  BY <1>c DEF CriticalRead
<1>8. PlanInv'
  <2> SUFFICES ASSUME NEW l \in Loads
      PROVE  /\ "AssertServerShed" \in plan'[l] => plan'[l] = {"AssertServerShed"}
             /\ (\E u \in GovernedBy[l] : CriticalRead(u)') => "ReleaseServerShed" \notin plan'[l]
             /\ "WakeServer" \in plan'[l] /\ "ReleaseServerShed" \notin plan'[l]
                  => signal'[l] = statusOK \/ l \in lost' \/ DryRun
    BY DEF PlanInv
  <2>1. /\ "AssertServerShed" \in plan[l] => plan[l] = {"AssertServerShed"}
        /\ (\E u \in GovernedBy[l] : CriticalRead(u)) => "ReleaseServerShed" \notin plan[l]
        /\ "WakeServer" \in plan[l] /\ "ReleaseServerShed" \notin plan[l]
             => signal[l] = statusOK \/ l \in lost \/ DryRun
    BY <1>a, <1>c DEF PlanInv
  <2>2. "AssertServerShed" \in plan'[l] => plan'[l] = {"AssertServerShed"}
    BY <1>4, <2>1
  <2>3. (\E u \in GovernedBy[l] : CriticalRead(u)') => "ReleaseServerShed" \notin plan'[l]
    BY <1>4, <1>7, <1>g, <2>1
  <2>4. "WakeServer" \in plan'[l] /\ "ReleaseServerShed" \notin plan'[l]
          => signal'[l] = statusOK \/ l \in lost' \/ DryRun
    BY <1>2, <1>3, <1>c, <2>1
  <2> QED
    BY <2>2, <2>3, <2>4
<1>9. ShedFollowsCritical'
  <2> SUFFICES ASSUME NEW l \in Servers, ~DryRun, \E u \in GovernedBy[l] : CriticalRead(u)
      PROVE  signal'[l] = statusShed \/ "AssertServerShed" \in plan'[l] \/ l \in lost'
    BY <1>7, <1>g DEF ShedFollowsCritical, Servers
  <2>1. l \in Loads
    BY DEF Servers
  <2>2. signal[l] = statusShed \/ "AssertServerShed" \in plan[l] \/ l \in lost
    BY <1>b, <1>c DEF ShedFollowsCritical
  <2>3. "ReleaseServerShed" \notin plan[l]
    BY <1>a, <1>c, <2>1 DEF PlanInv
  <2> QED
    BY <1>2, <1>3, <1>c, <2>1, <2>2, <2>3
<1> QED
  BY <1>5, <1>6, <1>8, <1>9 DEF SafetyInv

(* The steps of the world, the clock and the API that SafetyInv can notice.*)
LEMMA WorldStep ==
  ASSUME SafetyInv, TypeOK',
         \/ \E u \in UPS : UpsChanges(u)
         \/ \E l \in Loads : Put(l)
  PROVE  SafetyInv'
<1>a. TypeOK /\ ReadingsInv /\ SignalInv /\ RequestInv /\ PlanInv
  BY DEF SafetyInv
<1>b. WakeInterlock /\ ShedJustified /\ ShedFollowsCritical /\ RequestHonoured
  BY DEF SafetyInv
<1>1. ASSUME NEW v \in UPS, UpsChanges(v) PROVE SafetyInv'
  <2>1. UNCHANGED <<want, signal, pc, tel, shed, ext, plan, late, lost>>
    BY <1>1 DEF UpsChanges, apiVars, tickVars
  <2>2. CASE pc \in InTick
    <3>1. /\ wasRestored' = wasRestored \cup RestoredNow(hw)'
          /\ wasCritical' = wasCritical \cup CriticalNow(hw)'
      BY <1>1, <2>2 DEF UpsChanges, RestoredNow, CriticalNow
    <3>2. ReadingsInv' /\ SignalInv' /\ RequestInv' /\ PlanInv'
      BY <1>a, <2>1, <2>2, <3>1
      DEF ReadingsInv, SignalInv, RequestInv, PlanInv, Verdict, CriticalRead
    <3>3. WakeInterlock' /\ ShedJustified' /\ RequestHonoured'
      BY <1>b, <2>1, <3>1 DEF WakeInterlock, ShedJustified, RequestHonoured, Planned
    <3>4. ShedFollowsCritical'
      BY <1>b, <2>1 DEF ShedFollowsCritical, CriticalRead
    <3> QED
      BY <3>2, <3>3, <3>4 DEF SafetyInv
  <2>3. CASE pc \notin InTick
    <3>1. pc' \notin InTick /\ pc' # "apply"
      BY <2>1, <2>3 DEF InTick
    <3>2. ReadingsInv'
      BY <1>a, <2>1, <2>3, <3>1, NoReading DEF ReadingsInv, Verdict
    <3>3. SignalInv' /\ RequestInv'
      BY <1>a, <2>1 DEF SignalInv, RequestInv
    <3> QED
      BY <3>1, <3>2, <3>3, NoPlan DEF SafetyInv
  <2> QED
    BY <2>2, <2>3
<1>2. ASSUME NEW m \in Loads, Put(m) PROVE SafetyInv'
  <2>1. /\ UNCHANGED <<hw, signal, pc, tel, shed, ext, plan, wasRestored, wasCritical, lost>>
        /\ late' = IF pc \in {"decide", "apply"} THEN late \cup {m} ELSE late
    BY <1>2 DEF Put, worldVars, tickVars
  <2>2. /\ m \in ApiLoads
        /\ \A l \in Loads : l # m => want'[l] = want[l]
    <3>1. PICK au \in BOOLEAN, body \in Body : handlePower(au, m, body)
      BY <1>2 DEF Put
    <3> QED
      BY <3>1, <1>a DEF handlePower, PowerStatus, TypeOK, ApiTypeOK
  <2>3. RequestInv'
    BY <1>a, <2>1, <2>2 DEF RequestInv
  <2>4. ReadingsInv' /\ SignalInv' /\ PlanInv'
    BY <1>a, <2>1
    DEF ReadingsInv, SignalInv, PlanInv, Verdict, CriticalRead, RestoredNow, CriticalNow
  <2>5. WakeInterlock' /\ ShedJustified'
    BY <1>b, <2>1 DEF WakeInterlock, ShedJustified, Planned
  <2>6. RequestHonoured'
    BY <1>b, <2>1, <2>2 DEF RequestHonoured, Planned
  <2>7. ShedFollowsCritical'
    BY <1>b, <2>1 DEF ShedFollowsCritical, CriticalRead
  <2> QED
    BY <2>3, <2>4, <2>5, <2>6, <2>7 DEF SafetyInv
<1> QED
  BY <1>1, <1>2

(* The steps that begin and end the process and its ticks.                 *)
LEMMA ProcessStep ==
  ASSUME SafetyInv, TypeOK', Boot \/ EndTick \/ Crash
  PROVE  SafetyInv'
<1>a. TypeOK /\ ReadingsInv /\ SignalInv /\ RequestInv
  BY DEF SafetyInv
<1>b. pc' \notin InTick /\ pc' # "apply"
  BY DEF Boot, EndTick, Crash, InTick
<1>1. CASE Boot
  <2>1. pc \notin InTick /\ UNCHANGED <<want, tel, shed, ext, wasRestored, wasCritical, late>>
    BY <1>1 DEF Boot, apiVars, tickVars, histVars, InTick
  <2>2. ReadingsInv' /\ SignalInv' /\ RequestInv'
    BY <1>a, <1>b, <2>1, NoReading DEF ReadingsInv, SignalInv, RequestInv, Verdict, InTick
  <2> QED
    BY <1>b, <2>2, NoPlan DEF SafetyInv
<1>2. CASE EndTick \/ Crash
  <2>1. /\ \A u \in UPS : tel'[u] = NoTelemetry
        /\ \A l \in Loads : shed'[l] = "unknown" /\ ext'[l] = "none"
    BY <1>2 DEF EndTick, Crash, FreshTick
  <2>2. \A l \in Loads : want'[l].req \in {want[l].req, "none"}
    BY <1>2 DEF EndTick, Crash, NewServer, NoEntry, apiVars
  <2>3. ReadingsInv'
    BY <1>b, <2>1, NoReading DEF ReadingsInv, Verdict
  <2>4. SignalInv' /\ RequestInv'
    BY <1>a, <1>b, <2>1, <2>2 DEF SignalInv, RequestInv, InTick
  <2> QED
    BY <1>b, <2>3, <2>4, NoPlan DEF SafetyInv
<1> QED
  BY <1>1, <1>2

LEMMA SafetyStep == SafetyInv /\ [Next]_vars => SafetyInv'
<1> SUFFICES ASSUME SafetyInv, [Next]_vars PROVE SafetyInv'
  OBVIOUS
<1>a. TypeOK'
  BY TypeStep DEF SafetyInv
<1>1. CASE PreflightProbe \/ PreflightWake \/ Serve
  <2>1. /\ UNCHANGED <<hw, signal, tel, shed, ext, plan>> /\ UNCHANGED histVars
        /\ want' = want /\ pc \notin InTick /\ pc' \notin InTick
    BY <1>1 DEF PreflightProbe, PreflightWake, Serve, apiVars, worldVars, tickVars, InTick
  <2> QED
    BY <1>a, <2>1, Frame
<1>2. CASE Clock
  <2>1. /\ UNCHANGED <<hw, signal, tel, shed, ext, plan>> /\ UNCHANGED histVars
        /\ pc' = pc
    BY <1>2 DEF Clock, worldVars, tickVars
  <2>p. pc' = pc \/ (pc \notin InTick /\ pc' \notin InTick)
    BY <2>1
  <2>2. \A l \in Loads : want'[l].req = want[l].req
    BY <1>2 DEF Clock, ApiClock, SafetyInv, TypeOK, ApiTypeOK, Entry
  <2> QED
    BY <1>a, <2>1, <2>2, <2>p, Frame
<1>3. ASSUME NEW l \in Loads,
             UpsmonShutdown(l) \/ PoweredOff(l) \/ Booted(l) \/ Operator(l)
      PROVE  SafetyInv'
  <2>1. /\ UNCHANGED <<hw, signal, tel, shed, ext, plan>> /\ UNCHANGED histVars
        /\ want' = want /\ pc' = pc
    BY <1>3 DEF UpsmonShutdown, PoweredOff, Booted, Operator, Turn, apiVars, tickVars
  <2>p. pc' = pc \/ (pc \notin InTick /\ pc' \notin InTick)
    BY <2>1
  <2> QED
    BY <1>a, <2>1, <2>p, Frame
<1>4. CASE UNCHANGED vars
  <2>1. /\ UNCHANGED <<hw, signal, tel, shed, ext, plan>> /\ UNCHANGED histVars
        /\ want' = want /\ pc' = pc
    BY <1>4 DEF vars, histVars
  <2>p. pc' = pc \/ (pc \notin InTick /\ pc' \notin InTick)
    BY <2>1
  <2> QED
    BY <1>a, <2>1, <2>p, Frame
<1> QED
  BY <1>a, <1>1, <1>2, <1>3, <1>4, ReadStep, PlanStep, ApplyStep, WorldStep, ProcessStep
  DEF Next, Tick

LEMMA Safety == Spec => []SafetyInv
  BY SafetyInit, SafetyStep, PTL DEF Spec

(* For every configuration: no load is powered on unless each UPS that     *)
(* governs it was restored during the tick.                                *)
THEOREM WakeIsInterlocked == Spec => []WakeInterlock
<1>1. SafetyInv => WakeInterlock
  BY DEF SafetyInv
<1> QED
  BY <1>1, Safety, PTL

(* For every configuration: no load is shed without a UPS that was         *)
(* critical during the tick or a caller that asked for it.                 *)
THEOREM ShedIsJustified == Spec => []ShedJustified
<1>1. SafetyInv => ShedJustified
  BY DEF SafetyInv
<1> QED
  BY <1>1, Safety, PTL

(* For every configuration: a critical reading is followed by the shed     *)
(* signal of every server it governs, in the same tick, unless driving     *)
(* that signal failed.                                                     *)
THEOREM CriticalIsShed == Spec => []ShedFollowsCritical
<1>1. SafetyInv => ShedFollowsCritical
  BY DEF SafetyInv
<1> QED
  BY <1>1, Safety, PTL

(* For every configuration: a standing "off" or "hold" that the tick could *)
(* have read keeps the load from being powered on.                         *)
THEOREM RequestIsHonoured == Spec => []RequestHonoured
<1>1. SafetyInv => RequestHonoured
  BY DEF SafetyInv
<1> QED
  BY <1>1, Safety, PTL

(* For every configuration: a server is never sent its wake under an       *)
(* asserted shed signal, unless the release before it failed.              *)
THEOREM WakeFollowsRelease == Spec => WakeAfterRelease
<1> DEFINE A == \A l \in Loads : /\ pc = "apply" /\ pc' = "apply"
                                 /\ "WakeServer" \in plan[l] \ plan'[l]
                   => signal[l] = statusOK \/ l \in lost \/ DryRun
<1>1. SafetyInv /\ [Next]_vars => [A]_vars
  <2> SUFFICES ASSUME SafetyInv, Next, NEW l \in Loads, pc = "apply", pc' = "apply",
                      "WakeServer" \in plan[l], "WakeServer" \notin plan'[l]
               PROVE  signal[l] = statusOK \/ l \in lost \/ DryRun
    BY DEF vars
  <2>1. ApplyOK \/ ApplyLost \/ ApplyDry
    BY DEF Next, Tick, Boot, PreflightProbe, PreflightWake, Serve, StartTick, PollOK, PollFail,
           ProbeLoad, Publish, ReadRequests, DecideStep, EndTick, Crash, Clock, UpsChanges, Put,
           UpsmonShutdown, PoweredOff, Booted, Operator, Turn, tickVars
  <2>2. PICK m \in Loads, k \in ActionKind : First(plan[m], k) /\ Done(m, k)
    BY <2>1 DEF ApplyOK, ApplyLost, ApplyDry, NextAction
  <2>3. m = l /\ k = "WakeServer"
    BY <2>2 DEF Done, SafetyInv, TypeOK
  <2>4. "ReleaseServerShed" \notin plan[l]
    BY <2>2, <2>3 DEF First
  <2> QED
    BY <2>4 DEF SafetyInv, PlanInv
<1> QED
  BY <1>1, Safety, PTL DEF Spec, WakeAfterRelease

(* For every configuration: with dryRun no step of a tick changes a load   *)
(* or a shed signal.                                                       *)
THEOREM DryRunIsInert == Spec => DryRunInert
<1> DEFINE A == DryRun /\ pc \in InTick /\ <<pc, cur, plan>>' # <<pc, cur, plan>>
                  => UNCHANGED <<power, signal>>
<1>1. [Next]_vars => [A]_vars
  <2> SUFFICES ASSUME Next, DryRun, pc \in InTick, <<pc, cur, plan>>' # <<pc, cur, plan>>
               PROVE  UNCHANGED <<power, signal>>
    BY DEF vars
  <2>1. ~Boot /\ ~PreflightWake /\ ~ApplyOK
    BY DEF InTick, Boot, PreflightWake, ApplyOK
  <2>2. \A l \in Loads : ~UpsmonShutdown(l) /\ ~PoweredOff(l) /\ ~Booted(l) /\ ~Operator(l)
    BY DEF UpsmonShutdown, PoweredOff, Booted, Operator, Turn, tickVars
  <2> QED
    BY <2>1, <2>2
    DEF Next, Tick, PreflightProbe, Serve, StartTick, PollOK, PollFail, ProbeLoad, Publish,
        ReadRequests, DecideStep, ApplyLost, ApplyDry, EndTick, Crash, Clock, UpsChanges, Put,
        worldVars
<1> QED
  BY <1>1, PTL DEF Spec, DryRunInert

-----------------------------------------------------------------------------
(* NutDog implements Guardian.  Guardian's grounds, in terms of the tick's *)
(* locals, and what of the plan is still to come while a server's signal   *)
(* does not stand yet as they call for.                                    *)

Going(l)     == (\E u \in GovernedBy[l] : Verdict(u) = "shed") \/ ext[l] = "off"
Returning(l) == (\A u \in GovernedBy[l] : Verdict(u) = "healthy") /\ ext[l] \in {"none", "on"}

GroundsInv ==
  pc = "apply" => \A l \in Loads :
    /\ Going(l) => "ReleaseServerShed" \notin plan[l]
    /\ Returning(l) => "AssertServerShed" \notin plan[l]

SignalsInv ==
  pc = "apply" /\ ~DryRun => \A l \in Servers \ lost :
    /\ Going(l) => signal[l] = statusShed \/ "AssertServerShed" \in plan[l]
    /\ Returning(l) => signal[l] = statusOK \/ "ReleaseServerShed" \in plan[l]

PromiseInv == SafetyInv /\ GroundsInv /\ SignalsInv /\ (pc = "wol" => cur <= Len(LoadOrder))

(* What is decided for a load whose grounds are known, and without any.    *)
LEMMA DecideGrounds ==
  ASSUME TypeOK, NEW l \in Loads,
         NEW acts, acts = Decide(UPSConfigs, tel, LoadType[l], GovernedBy[l],
                                 actual[l], shed[l], ext[l])
  PROVE  /\ Going(l) => /\ acts \subseteq Guard!Sheds(l)
                        /\ l \in Servers => acts = {k \in {"AssertServerShed"} : shed[l] # "asserted"}
         /\ Returning(l) => /\ acts \subseteq Guard!Returns(l)
                            /\ l \in Servers /\ shed[l] # "released" => "ReleaseServerShed" \in acts
         /\ ~Going(l) /\ ~Returning(l) => acts = {}
         /\ Going(l) => ~Returning(l)
<1> DEFINE states == {Verdict(u) : u \in GovernedBy[l]}
           d == DesiredForLoad(states, ext[l])
<1>t. ext[l] \in Request /\ LoadType[l] \in LoadTypes /\ GovernedBy[l] # {}
  BY ConfigAssumption DEF TypeOK
<1>1. acts = ReconcileLoad(LoadType[l], d, actual[l], shed[l])
  BY DEF Decide, Verdict
<1>2. l \in Servers <=> LoadType[l] # "chassis"
  BY <1>t DEF Servers, LoadTypes
<1> HIDE DEF d
<1>3. d = "off" => /\ acts \subseteq Guard!Sheds(l)
                   /\ l \in Servers => acts = {k \in {"AssertServerShed"} : shed[l] # "asserted"}
  BY <1>1, <1>2 DEF ReconcileLoad, ReconcileChassis, ReconcileServer, Guard!Sheds
<1>4. d = "on" => /\ acts \subseteq Guard!Returns(l)
                  /\ l \in Servers /\ shed[l] # "released" => "ReleaseServerShed" \in acts
  BY <1>1, <1>2 DEF ReconcileLoad, ReconcileChassis, ReconcileServer, Guard!Returns
<1>5. d \notin {"off", "on"} => acts = {}
  BY <1>1 DEF ReconcileLoad, ReconcileChassis, ReconcileServer
<1>6. /\ "shed" \in states <=> \E u \in GovernedBy[l] : Verdict(u) = "shed"
      /\ states \subseteq {"healthy"} <=> \A u \in GovernedBy[l] : Verdict(u) = "healthy"
      /\ states # {}
  BY <1>t
<1> HIDE DEF states
<1>7. /\ "shed" \in states \/ ext[l] = "off" => d = "off"
      /\ states \subseteq {"healthy"} /\ ext[l] \in {"none", "on"} => d = "on"
      /\ d = "off" => "shed" \in states \/ ext[l] = "off"
      /\ d = "on" => states \subseteq {"healthy"} /\ ext[l] \in {"none", "on"}
  BY <1>6 DEF d, DesiredForLoad, desiredFromSources
<1>8. Going(l) <=> d = "off"
  BY <1>6, <1>7 DEF Going
<1>9. Returning(l) <=> d = "on"
  BY <1>6, <1>7 DEF Returning
<1> QED
  BY <1>3, <1>4, <1>5, <1>8, <1>9

LEMMA PromiseInit == Init => PromiseInv
  BY SafetyInit DEF Init, PromiseInv, GroundsInv, SignalsInv

(* A step that leaves the tick's findings and the signals alone.           *)
LEMMA PromiseFrame ==
  ASSUME PromiseInv, SafetyInv', UNCHANGED <<tel, ext, plan, signal, lost>>,
         pc' = "apply" => pc = "apply", pc' = "wol" => pc = "wol" /\ cur' = cur
  PROVE  PromiseInv'
<1>1. \A l : (Going(l)' <=> Going(l)) /\ (Returning(l)' <=> Returning(l))
  BY DEF Going, Returning, Verdict
<1>2. GroundsInv'
  BY <1>1 DEF PromiseInv, GroundsInv
<1>3. SignalsInv'
  BY <1>1 DEF PromiseInv, SignalsInv
<1> QED
  BY <1>2, <1>3 DEF PromiseInv

LEMMA PromiseDecide ==
  ASSUME PromiseInv, SafetyInv', DecideStep
  PROVE  PromiseInv'
<1> USE DEF DecideStep
<1>a. TypeOK /\ SignalInv /\ pc = "decide" /\ pc' = "apply"
  BY DEF PromiseInv, SafetyInv
<1>b. UNCHANGED <<tel, ext, signal, lost>>
  BY DEF worldVars, histVars
<1>c. \A l : (Going(l)' <=> Going(l)) /\ (Returning(l)' <=> Returning(l))
  BY <1>b DEF Going, Returning, Verdict
<1> DEFINE acts(l) == Decide(UPSConfigs, tel, LoadType[l], GovernedBy[l],
                             actual[l], shed[l], ext[l])
<1>1. \A l \in Loads : plan'[l] = {k \in acts(l) : StartupGrace <= 0 \/ uptime >= StartupGrace
                                                     \/ ~isPowerOn(k)}
  BY DEF holdStartupWakes
<1>2. \A l \in Loads : /\ plan'[l] \subseteq acts(l)
                       /\ "AssertServerShed" \in acts(l) => "AssertServerShed" \in plan'[l]
                       /\ "ReleaseServerShed" \in acts(l) => "ReleaseServerShed" \in plan'[l]
  BY <1>1 DEF isPowerOn
<1> HIDE DEF acts
<1>3. ASSUME NEW l \in Loads
      PROVE  /\ Going(l) => /\ acts(l) \subseteq Guard!Sheds(l)
                            /\ l \in Servers => acts(l) = {k \in {"AssertServerShed"} : shed[l] # "asserted"}
             /\ Returning(l) => /\ acts(l) \subseteq Guard!Returns(l)
                                /\ l \in Servers /\ shed[l] # "released"
                                     => "ReleaseServerShed" \in acts(l)
  BY <1>a, DecideGrounds DEF acts
<1>4. ASSUME NEW l \in Loads
      PROVE  /\ Going(l) => "ReleaseServerShed" \notin plan'[l]
             /\ Returning(l) => "AssertServerShed" \notin plan'[l]
  BY <1>2, <1>3 DEF Guard!Sheds, Guard!Returns
<1>5. ASSUME NEW l \in Servers
      PROVE  /\ Going(l) => signal[l] = statusShed \/ "AssertServerShed" \in plan'[l]
             /\ Returning(l) => signal[l] = statusOK \/ "ReleaseServerShed" \in plan'[l]
  <2>1. /\ shed[l] = "asserted" => signal[l] = statusShed
        /\ shed[l] = "released" => signal[l] = statusOK
    BY <1>a DEF SignalInv, Servers
  <2>2. Going(l) /\ shed[l] # "asserted" => "AssertServerShed" \in acts(l)
    BY <1>3 DEF Servers
  <2>3. Returning(l) /\ shed[l] # "released" => "ReleaseServerShed" \in acts(l)
    BY <1>3 DEF Servers
  <2> QED
    BY <2>1, <2>2, <2>3, <1>2 DEF Servers
<1>6. GroundsInv'
  BY <1>c, <1>4 DEF GroundsInv
<1>7. SignalsInv'
  BY <1>b, <1>c, <1>5 DEF SignalsInv
<1> QED
  BY <1>a, <1>6, <1>7 DEF PromiseInv

LEMMA PromiseApply ==
  ASSUME PromiseInv, SafetyInv', ApplyOK \/ ApplyLost \/ ApplyDry
  PROVE  PromiseInv'
<1>a. TypeOK /\ TypeOK' /\ GroundsInv /\ SignalsInv
  BY DEF PromiseInv, SafetyInv
<1>b. UNCHANGED <<pc, tel, ext>> /\ pc = "apply"
  BY DEF ApplyOK, ApplyLost, ApplyDry, tickVars
<1>c. \A l : (Going(l)' <=> Going(l)) /\ (Returning(l)' <=> Returning(l))
  BY <1>b DEF Going, Returning, Verdict
<1>1. PICK m \in Loads, k \in ActionKind :
        /\ k \in plan[m] /\ Done(m, k)
        /\ \/ Effect(m, k) /\ lost' = lost
           \/ signal' = signal /\ lost' = lost \cup {m}
           \/ DryRun
  BY DEF ApplyOK, ApplyLost, ApplyDry, NextAction, First, worldVars, histVars
<1>2. /\ \A l \in Loads : l # m => plan'[l] = plan[l]
      /\ plan'[m] = plan[m] \ {k}
  BY <1>1, <1>a DEF Done, TypeOK
<1>3. GroundsInv'
  BY <1>a, <1>b, <1>c, <1>2 DEF GroundsInv
<1>4. SignalsInv'
  <2> SUFFICES ASSUME ~DryRun, NEW l \in Servers, l \notin lost'
      PROVE  /\ Going(l) => signal'[l] = statusShed \/ "AssertServerShed" \in plan'[l]
             /\ Returning(l) => signal'[l] = statusOK \/ "ReleaseServerShed" \in plan'[l]
    BY <1>c DEF SignalsInv, Servers
  <2>1. l \in Loads /\ l \notin lost
    BY <1>1 DEF Servers
  <2>2. /\ Going(l) => signal[l] = statusShed \/ "AssertServerShed" \in plan[l]
        /\ Returning(l) => signal[l] = statusOK \/ "ReleaseServerShed" \in plan[l]
        /\ Going(l) => "ReleaseServerShed" \notin plan[l]
        /\ Returning(l) => "AssertServerShed" \notin plan[l]
    BY <1>a, <1>b, <2>1 DEF SignalsInv, GroundsInv
  <2>3. CASE l # m
    <3>1. signal'[l] = signal[l]
      BY <1>1, <1>a, <2>1, <2>3 DEF Effect, TypeOK
    <3> QED
      BY <3>1, <1>2, <2>1, <2>2, <2>3
  <2>4. CASE l = m
    <3>1. Effect(m, k)
      BY <1>1, <2>4
    <3>2. /\ k = "AssertServerShed" => signal'[l] = statusShed
          /\ k = "ReleaseServerShed" => signal'[l] = statusOK
          /\ k \notin {"AssertServerShed", "ReleaseServerShed"} => signal'[l] = signal[l]
      BY <3>1, <1>a, <2>1, <2>4 DEF Effect, TypeOK
    <3> QED
      BY <3>2, <1>1, <1>2, <2>2, <2>4
  <2> QED
    BY <2>3, <2>4
<1> QED
  BY <1>b, <1>3, <1>4 DEF PromiseInv

LEMMA PromiseStep == PromiseInv /\ [Next]_vars => PromiseInv'
<1> SUFFICES ASSUME PromiseInv, [Next]_vars PROVE PromiseInv'
  OBVIOUS
<1>s. SafetyInv'
  BY SafetyStep DEF PromiseInv
<1>1. ASSUME pc' \notin {"apply", "wol"} PROVE PromiseInv'
  BY <1>1, <1>s DEF PromiseInv, GroundsInv, SignalsInv
<1>2. CASE Boot \/ Serve \/ PreflightWake \/ StartTick \/ PollOK \/ PollFail \/ ProbeLoad \/ Publish
           \/ ReadRequests \/ EndTick \/ Crash
  BY <1>1, <1>2 DEF Boot, Serve, PreflightWake, StartTick, PollOK, PollFail, NextUPS, ProbeLoad,
     Publish, ReadRequests, EndTick, Crash
<1>3. CASE PreflightProbe
  <2>1. pc' # "apply" /\ (pc' = "wol" => cur' <= Len(LoadOrder))
    BY <1>3 DEF PreflightProbe
  <2> QED
    BY <1>s, <2>1 DEF PromiseInv, GroundsInv, SignalsInv
<1>4. CASE Clock
  BY <1>4, <1>s, PromiseFrame DEF Clock, worldVars, tickVars, histVars
<1>5. ASSUME NEW u \in UPS, UpsChanges(u) PROVE PromiseInv'
  BY <1>5, <1>s, PromiseFrame DEF UpsChanges, tickVars
<1>6. ASSUME NEW l \in Loads, Put(l) PROVE PromiseInv'
  BY <1>6, <1>s, PromiseFrame DEF Put, worldVars, tickVars
<1>7. ASSUME NEW l \in Loads,
             UpsmonShutdown(l) \/ PoweredOff(l) \/ Booted(l) \/ Operator(l)
      PROVE  PromiseInv'
  BY <1>7, <1>s, PromiseFrame
     DEF UpsmonShutdown, PoweredOff, Booted, Operator, Turn, tickVars, histVars
<1>8. CASE UNCHANGED vars
  BY <1>8, <1>s, PromiseFrame DEF vars
<1> QED
  BY <1>2, <1>3, <1>4, <1>5, <1>6, <1>7, <1>8, <1>s, PromiseDecide, PromiseApply
  DEF Next, Tick

(* What the mapping makes of variables that do not change.                 *)
LEMMA MapFrame ==
  /\ hw' = hw => RestoredNow(hw)' = RestoredNow(hw) /\ CriticalNow(hw)' = CriticalNow(hw)
  /\ signal' = signal => Told' = Told
  /\ want' = want => Wanted' = Wanted
  /\ tel' = tel => SawRestored' = SawRestored /\ SawCritical' = SawCritical
  /\ pc' = pc => Phase' = Phase
  BY DEF RestoredNow, CriticalNow, Told, Wanted, SawRestored, SawCritical, Phase

LEMMA MapFresh ==
  ASSUME FreshTick, lost' = {}
  PROVE  Guard!Forget
<1>1. SawRestored' = {} /\ SawCritical' = {}
  BY NoReading DEF FreshTick, SawRestored, SawCritical
<1> QED
  BY <1>1 DEF FreshTick, Guard!Forget, Guard!NoRequests

(* No UPS is restored and critical at once.                                *)
LEMMA Apart == ASSUME NEW h PROVE RestoredNow(h) \cap CriticalNow(h) = {}
  BY DEF RestoredNow, CriticalNow, Restored, Critical, OnBattery

LEMMA GuardInit == Init => Guard!Init
<1> SUFFICES ASSUME Init PROVE Guard!Init
  OBVIOUS
<1>1. Told = {} /\ Wanted = Guard!NoRequests
  BY DEF Init, New, NoEntry, Told, Wanted, Guard!NoRequests, statusOK, statusShed, Servers
<1>2. SawRestored = {} /\ SawCritical = {}
  BY NoReading DEF Init, SawRestored, SawCritical
<1>3. RestoredNow(hw) \in SUBSET UPS /\ CriticalNow(hw) \in SUBSET (UPS \ RestoredNow(hw))
  BY Apart DEF RestoredNow, CriticalNow
<1>4. Phase = "away"
  BY DEF Init, Phase
<1> QED
  BY <1>1, <1>2, <1>3, <1>4 DEF Init, Guard!Init, Guard!NoRequests

(* The process: starts, the end of start-up, ticks beginning and ending,   *)
(* and crashes.                                                            *)
LEMMA ProcessGuarded ==
  ASSUME PromiseInv, Boot \/ Serve \/ StartTick \/ EndTick \/ Crash
  PROVE  Guard!Next
<1>1. CASE Boot
  <2>1. Told' = {} /\ Phase = "away" /\ Phase' = "starting"
    BY <1>1 DEF Boot, Told, Phase, statusOK, statusShed, Servers
  <2>2. UNCHANGED <<power, hw, want, ext, lost, plan, tel>>
    BY <1>1 DEF Boot, apiVars, tickVars, histVars
  <2> QED
    BY <2>1, <2>2, MapFrame DEF Guard!Next, Guard!Boot, Guard!round, Guard!found
<1>2. CASE Serve
  <2>1. Phase = "starting" /\ Phase' = "idle"
    BY <1>2 DEF Serve, Phase
  <2>2. UNCHANGED <<power, hw, want, ext, lost, plan, tel, signal>>
    BY <1>2 DEF Serve, apiVars, tickVars, histVars, worldVars
  <2> QED
    BY <2>1, <2>2, MapFrame DEF Guard!Next, Guard!Serve, Guard!round, Guard!found, Guard!world
<1>3. CASE StartTick
  <2>1. Phase = "idle" /\ Phase' = "look"
    BY <1>3 DEF StartTick, Phase
  <2>2. UNCHANGED <<power, hw, want, signal>> /\ FreshTick /\ lost' = {}
    BY <1>3 DEF StartTick, apiVars, worldVars
  <2> QED
    BY <2>1, <2>2, MapFrame, MapFresh DEF Guard!Next, Guard!StartRound, Guard!world
<1>4. CASE EndTick
  <2>1. Phase = "act" /\ Phase' = "idle"
    BY <1>4 DEF EndTick, Phase
  <2>2. UNCHANGED <<power, hw, want, signal>> /\ FreshTick /\ lost' = {}
    BY <1>4 DEF EndTick, apiVars, worldVars, NoHistory
  <2>3. \A l \in Loads : plan[l] = {}
    BY <1>4 DEF EndTick
  <2>4. ASSUME ~DryRun, NEW l \in Servers \ lost
        PROVE  /\ Guard!MustGo(l) => l \in Told
               /\ Guard!MayReturn(l) => l \notin Told
    <3>1. /\ Going(l) => signal[l] = statusShed
          /\ Returning(l) => signal[l] = statusOK
      BY <1>4, <2>3, <2>4 DEF EndTick, PromiseInv, SignalsInv, Servers
    <3>2. GovernedBy[l] \subseteq UPS
      BY <2>4, ConfigAssumption DEF Servers
    <3>3. Guard!MustGo(l) => Going(l)
      BY <3>2 DEF Guard!MustGo, Going, SawCritical, Verdict
    <3>4. Guard!MayReturn(l) => Returning(l)
      BY <3>2 DEF Guard!MayReturn, Returning, SawRestored, Verdict
    <3> QED
      BY <3>1, <3>3, <3>4, <2>4 DEF Told, statusOK, statusShed
  <2> QED
    BY <2>1, <2>2, <2>3, <2>4, MapFrame, MapFresh DEF Guard!Next, Guard!EndRound, Guard!world
<1>5. CASE Crash
  <2>1. Phase # "away" /\ Phase' = "away"
    BY <1>5 DEF Crash, Phase, PromiseInv, SafetyInv, TypeOK, PC, Serving, InTick
  <2>2. UNCHANGED <<power, hw, signal>> /\ FreshTick /\ lost' = {}
    BY <1>5 DEF Crash, worldVars, NoHistory
  <2>3. Wanted' = Guard!NoRequests
    BY <1>5 DEF Crash, NewServer, NoEntry, Wanted, Guard!NoRequests
  <2> QED
    BY <2>1, <2>2, <2>3, MapFrame, MapFresh DEF Guard!Next, Guard!Die, Guard!world
<1> QED
  BY <1>1, <1>2, <1>3, <1>4, <1>5

(* A poll is a look, and the decision's inputs are what Guardian goes by.  *)
LEMMA ReadingGuarded ==
  ASSUME PromiseInv, PollOK \/ PollFail
  PROVE  Guard!Next
<1>a. TypeOK
  BY DEF PromiseInv, SafetyInv
<1> DEFINE u == UPSOrder[cur]
<1>1. u \in UPS
  BY <1>a, ConfigAssumption DEF PollOK, PollFail, TypeOK
<1>2. PICK t \in {TelemetryFromVars(hw[u]), NoTelemetry} : tel' = [tel EXCEPT ![u] = t]
  BY DEF PollOK, PollFail
<1> HIDE DEF u
<1>3. \A x \in UPS : tel'[x] = IF x = u THEN t ELSE tel[x]
  BY <1>1, <1>2, <1>a DEF TypeOK
<1>4. IsVars(hw[u]) /\ UPSConfigs[u] \in UPSConfig
  BY <1>1, <1>a, ConfigAssumption DEF TypeOK
<1>5. /\ Classify(UPSConfigs[u], t) = "healthy" => u \in RestoredNow(hw)
      /\ Classify(UPSConfigs[u], t) = "shed" => u \in CriticalNow(hw)
  BY <1>1, <1>2, <1>4, ReadingTrue, NoReading DEF RestoredNow, CriticalNow
<1>6. RestoredNow(hw) \cap CriticalNow(hw) = {}
  BY Apart
<1>7. \E got \in {{u}, {}} :
        /\ SawRestored' = (SawRestored \ {u}) \cup (got \cap RestoredNow(hw))
        /\ SawCritical' = (SawCritical \ {u}) \cup (got \cap CriticalNow(hw))
  <2>1. CASE Classify(UPSConfigs[u], t) = "healthy"
    <3>1. SawRestored' = (SawRestored \ {u}) \cup ({u} \cap RestoredNow(hw))
      BY <1>1, <1>3, <1>5, <2>1 DEF SawRestored
    <3>2. SawCritical' = (SawCritical \ {u}) \cup ({u} \cap CriticalNow(hw))
      BY <1>1, <1>3, <1>5, <1>6, <2>1 DEF SawCritical
    <3> QED
      BY <3>1, <3>2
  <2>2. CASE Classify(UPSConfigs[u], t) = "shed"
    <3>1. SawRestored' = (SawRestored \ {u}) \cup ({u} \cap RestoredNow(hw))
      BY <1>1, <1>3, <1>5, <1>6, <2>2 DEF SawRestored
    <3>2. SawCritical' = (SawCritical \ {u}) \cup ({u} \cap CriticalNow(hw))
      BY <1>1, <1>3, <1>5, <2>2 DEF SawCritical
    <3> QED
      BY <3>1, <3>2
  <2>3. CASE Classify(UPSConfigs[u], t) \notin {"healthy", "shed"}
    <3>1. SawRestored' = (SawRestored \ {u}) \cup ({} \cap RestoredNow(hw))
      BY <1>1, <1>3, <2>3 DEF SawRestored
    <3>2. SawCritical' = (SawCritical \ {u}) \cup ({} \cap CriticalNow(hw))
      BY <1>1, <1>3, <2>3 DEF SawCritical
    <3> QED
      BY <3>1, <3>2
  <2> QED
    BY <2>1, <2>2, <2>3
<1>8. Phase = "look" /\ Phase' = "look"
  BY DEF PollOK, PollFail, NextUPS, Phase
<1>9. UNCHANGED <<power, hw, signal, want, ext, plan, lost>>
  BY DEF PollOK, PollFail, apiVars, worldVars, histVars
<1>10. Guard!Look(u)
  BY <1>7, <1>8, <1>9, MapFrame DEF Guard!Look, Guard!world
<1> QED
  BY <1>1, <1>10 DEF Guard!Next

LEMMA RequestsGuarded ==
  ASSUME PromiseInv, ReadRequests
  PROVE  Guard!Next
<1>a. TypeOK /\ RequestInv
  BY DEF PromiseInv, SafetyInv
<1>1. Phase = "look" /\ Phase' = "decide"
  BY DEF ReadRequests, Phase
<1>2. UNCHANGED <<power, hw, signal, tel, plan, lost>>
  BY DEF ReadRequests, worldVars, histVars
<1> DEFINE lapsed == {l \in ApiLoads : expired(l)}
<1>3. \A l \in Loads : Wanted[l] = want[l].req /\ Wanted'[l] = want'[l].req
  BY DEF Wanted
<1>4. ASSUME NEW l \in Loads
      PROVE  want'[l].req = IF l \in lapsed THEN "none" ELSE want[l].req
  <2>1. want'[l] = IF expired(l) THEN NoEntry ELSE want[l]
    BY DEF ReadRequests, DropExpired
  <2>2. l \notin ApiLoads => want[l].req = "none"
    BY <1>a DEF RequestInv
  <2> QED
    BY <2>1, <2>2 DEF NoEntry
<1>5. Wanted' = [l \in Loads |-> IF l \in lapsed THEN "none" ELSE Wanted[l]]
  BY <1>3, <1>4 DEF Wanted
<1>6. ext' = Wanted'
  <2>1. \A l \in Loads : want'[l].req = Live(l)
    BY DEF ReadRequests, DropExpired, Live, NoEntry
  <2> QED
    BY <2>1 DEF ReadRequests, Wanted
<1>7. lapsed \in SUBSET ApiLoads
  OBVIOUS
<1> HIDE DEF lapsed
<1>8. Guard!ReadRequests
  BY <1>1, <1>2, <1>5, <1>6, <1>7, MapFrame DEF Guard!ReadRequests, Guard!world
<1> QED
  BY <1>8 DEF Guard!Next

LEMMA GroundsMap ==
  ASSUME NEW l \in Loads
  PROVE  (Going(l) => Guard!MustGo(l)) /\ (Returning(l) => Guard!MayReturn(l))
<1>1. GovernedBy[l] \subseteq UPS
  BY ConfigAssumption
<1>2. Going(l) => Guard!MustGo(l)
  BY <1>1 DEF Guard!MustGo, Going, SawCritical, Verdict
<1>3. Returning(l) => Guard!MayReturn(l)
  BY <1>1 DEF Guard!MayReturn, Returning, SawRestored, Verdict
<1> QED
  BY <1>2, <1>3

LEMMA DecisionGuarded ==
  ASSUME PromiseInv, DecideStep
  PROVE  Guard!Next
<1>a. TypeOK
  BY DEF PromiseInv, SafetyInv
<1>1. Phase = "decide" /\ Phase' = "act"
  BY DEF DecideStep, Phase
<1>2. UNCHANGED <<power, hw, signal, tel, want, ext, lost>>
  BY DEF DecideStep, worldVars, histVars, apiVars
<1> DEFINE acts(l) == Decide(UPSConfigs, tel, LoadType[l], GovernedBy[l],
                             actual[l], shed[l], ext[l])
<1>3. \A l \in Loads : plan'[l] \subseteq acts(l)
  BY DEF DecideStep, holdStartupWakes
<1> HIDE DEF acts
<1>4. ASSUME NEW l \in Loads
      PROVE  /\ \/ plan'[l] = {}
                \/ Guard!MustGo(l) /\ plan'[l] \subseteq Guard!Sheds(l)
                \/ Guard!MayReturn(l) /\ plan'[l] \subseteq Guard!Returns(l)
             /\ plan'[l] \in (SUBSET Guard!Sheds(l)) \cup (SUBSET Guard!Returns(l))
  <2>1. /\ Going(l) => acts(l) \subseteq Guard!Sheds(l)
        /\ Returning(l) => acts(l) \subseteq Guard!Returns(l)
        /\ ~Going(l) /\ ~Returning(l) => acts(l) = {}
    BY <1>a, DecideGrounds DEF acts
  <2>2. CASE Going(l)
    <3>1. Guard!MustGo(l) /\ plan'[l] \subseteq Guard!Sheds(l)
      BY <2>1, <2>2, <1>3, GroundsMap
    <3>2. plan'[l] \in (SUBSET Guard!Sheds(l)) \cup (SUBSET Guard!Returns(l))
      BY <3>1
    <3> QED
      BY <3>1, <3>2
  <2>3. CASE Returning(l)
    <3>1. Guard!MayReturn(l) /\ plan'[l] \subseteq Guard!Returns(l)
      BY <2>1, <2>3, <1>3, GroundsMap
    <3>2. plan'[l] \in (SUBSET Guard!Sheds(l)) \cup (SUBSET Guard!Returns(l))
      BY <3>1
    <3> QED
      BY <3>1, <3>2
  <2>4. CASE ~Going(l) /\ ~Returning(l)
    <3>1. plan'[l] = {}
      BY <2>1, <2>4, <1>3
    <3>2. plan'[l] \in (SUBSET Guard!Sheds(l)) \cup (SUBSET Guard!Returns(l))
      BY <3>1
    <3> QED
      BY <3>1, <3>2
  <2> QED
    BY <2>2, <2>3, <2>4
<1>5. plan' = [l \in Loads |-> plan'[l]]
  BY DEF DecideStep
<1>6. plan' \in [Loads -> UNION {(SUBSET Guard!Sheds(l)) \cup (SUBSET Guard!Returns(l)) : l \in Loads}]
  <2> DEFINE S == UNION {(SUBSET Guard!Sheds(l)) \cup (SUBSET Guard!Returns(l)) : l \in Loads}
  <2>1. \A l \in Loads : plan'[l] \in S
    BY <1>4
  <2> HIDE DEF S
  <2>2. plan' \in [Loads -> S]
    BY <2>1, <1>5
  <2> QED
    BY <2>2 DEF S
<1>7. Guard!Resolve
  BY <1>1, <1>2, <1>4, <1>6, MapFrame DEF Guard!Resolve, Guard!world, Guard!found
<1> QED
  BY <1>7 DEF Guard!Next

(* An action of the plan, carried out, lost or passed over in a dry run.   *)
LEMMA ActionGuarded ==
  ASSUME PromiseInv, ApplyOK \/ ApplyLost \/ ApplyDry
  PROVE  Guard!Next
<1>a. TypeOK /\ PlanInv /\ pc = "apply" /\ pc' = pc
  BY DEF PromiseInv, SafetyInv, ApplyOK, ApplyLost, ApplyDry
<1>1. PICK m \in Loads, k \in ActionKind :
        /\ First(plan[m], k) /\ Done(m, k)
        /\ \/ ~DryRun /\ Effect(m, k) /\ lost' = lost
           \/ ~DryRun /\ UNCHANGED <<power, signal>> /\ lost' = lost \cup {m}
           \/ DryRun /\ UNCHANGED <<power, signal, lost>>
  BY DEF ApplyOK, ApplyLost, ApplyDry, NextAction, worldVars, histVars
<1>2. Phase = "act" /\ Phase' = "act"
  BY <1>a DEF Phase
<1>3. UNCHANGED <<hw, tel, want, ext>>
  BY DEF ApplyOK, ApplyLost, ApplyDry, worldVars, apiVars
<1>4. k \in plan[m] /\ plan' = [plan EXCEPT ![m] = @ \ {k}]
  BY <1>1 DEF First, Done
<1>5. k \in Guard!Sheds(m) \cup Guard!Returns(m)
  BY <1>4, <1>a DEF TypeOK, ServerKinds, ChassisKinds, Guard!Sheds, Guard!Returns
<1>6. ASSUME ~DryRun, Effect(m, k), lost' = lost PROVE Guard!Effect(m, k)
  <2>1. signal \in [Loads -> Signals] /\ power \in [Loads -> Power] /\ statusOK # statusShed
    BY <1>a DEF TypeOK, statusOK, statusShed
  <2>2. CASE k = "AssertServerShed"
    <3>1. m \in Servers
      BY <1>5, <2>2 DEF Guard!Sheds, Guard!Returns
    <3>2. signal' = [signal EXCEPT ![m] = statusShed] /\ power' = power
      BY <1>6, <2>2 DEF Effect
    <3>3. Told' = Told \cup {m}
      BY <3>1, <3>2, <2>1 DEF Told, Servers
    <3> QED
      BY <2>2, <3>2, <3>3 DEF Guard!Effect
  <2>3. CASE k = "ReleaseServerShed"
    <3>1. signal' = [signal EXCEPT ![m] = statusOK] /\ power' = power
      BY <1>6, <2>3 DEF Effect
    <3>2. Told' = Told \ {m}
      BY <3>1, <2>1 DEF Told, Servers
    <3> QED
      BY <2>3, <3>1, <3>2 DEF Guard!Effect
  <2>4. CASE k = "ChassisShutdown"
    <3>1. signal' = signal
      BY <1>6, <2>4 DEF Effect
    <3>2. power' = [power EXCEPT ![m] = IF @ = "off" THEN @ ELSE "stopping"]
      BY <1>6, <2>1, <2>4 DEF Effect
    <3> QED
      BY <2>4, <3>1, <3>2, MapFrame DEF Guard!Effect
  <2>5. CASE k \in {"WakeServer", "ChassisPowerUp"}
    <3>1. signal' = signal /\ power' = WokenBy(m)
      BY <1>6, <2>5 DEF Effect
    <3>2. power' = [power EXCEPT ![m] = IF @ = "off" THEN "starting" ELSE @]
      BY <3>1, <2>1 DEF WokenBy
    <3>3. m \notin Told \ lost
      <4>1. CASE k = "WakeServer"
        <5>1. "WakeServer" \in plan[m] /\ "ReleaseServerShed" \notin plan[m]
          BY <1>1, <4>1 DEF First
        <5>2. signal[m] = statusOK \/ m \in lost
          BY <5>1, <1>a, <1>6 DEF PlanInv
        <5> QED
          BY <5>2, <2>1 DEF Told
      <4>2. CASE k = "ChassisPowerUp"
        BY <1>5, <4>2 DEF Told, Guard!Sheds, Guard!Returns
      <4> QED
        BY <2>5, <4>1, <4>2
    <3> QED
      BY <2>5, <3>1, <3>2, <3>3, MapFrame DEF Guard!Effect
  <2> QED
    BY <1>5, <2>2, <2>3, <2>4, <2>5 DEF Guard!Sheds, Guard!Returns
<1>7. \/ ~DryRun /\ Guard!Effect(m, k) /\ lost' = lost
      \/ ~DryRun /\ lost' = lost \cup {m} /\ UNCHANGED <<power, Told>>
      \/ DryRun /\ UNCHANGED <<power, Told, lost>>
  BY <1>1, <1>6, MapFrame
<1>8. Guard!Act(m, k)
  BY <1>2, <1>3, <1>4, <1>7, MapFrame DEF Guard!Act, Guard!found
<1> QED
  BY <1>5, <1>8 DEF Guard!Next

(* The world, the API's caller, and the packet preflight sends.            *)
LEMMA WorldGuarded ==
  ASSUME PromiseInv, Next,
         \/ PreflightWake
         \/ \E u \in UPS : UpsChanges(u)
         \/ \E l \in Loads : \/ Put(l) \/ UpsmonShutdown(l)
                             \/ PoweredOff(l) \/ Booted(l) \/ Operator(l)
  PROVE  [Guard!Next]_(Guard!vars)
<1>a. TypeOK /\ RequestInv /\ power \in [Loads -> Power]
  BY DEF PromiseInv, SafetyInv, TypeOK
<1>1. ASSUME NEW l \in Loads, NEW t \in Guard!Turns, power[l] = t[1],
             power' = [power EXCEPT ![l] = t[2]],
             UNCHANGED <<hw, signal, tel, want, ext, plan, lost>>, Phase' = Phase
      PROVE  Guard!Next
  BY <1>1, MapFrame DEF Guard!Next, Guard!LoadMoves, Guard!round, Guard!found
<1>2. CASE PreflightWake
  <2>1. UNCHANGED <<hw, signal, tel, want, ext, plan, lost>> /\ Phase' = Phase
    BY <1>2 DEF PreflightWake, apiVars, tickVars, histVars, Phase
  <2>2. LoadOrder[cur] \in Loads
    BY <1>2, <1>a, ConfigAssumption DEF PreflightWake, PromiseInv, TypeOK
  <2>3. CASE power[LoadOrder[cur]] = "off" /\ power' = WokenBy(LoadOrder[cur])
    <3>1. power' = [power EXCEPT ![LoadOrder[cur]] = "starting"]
      BY <2>3 DEF WokenBy
    <3>2. <<"off", "starting">> \in Guard!Turns
      BY DEF Guard!Turns
    <3> DEFINE t == <<"off", "starting">>
    <3>3. t \in Guard!Turns /\ t[1] = "off" /\ t[2] = "starting"
      BY <3>2
    <3> HIDE DEF t
    <3> QED
      BY <1>1, <2>1, <2>2, <2>3, <3>1, <3>3
  <2>4. CASE power' = power
    BY <2>1, <2>4, MapFrame DEF Guard!vars
  <2>5. \/ power[LoadOrder[cur]] = "off" /\ power' = WokenBy(LoadOrder[cur])
        \/ power' = power
    BY <1>2 DEF PreflightWake, WokenBy
  <2> QED
    BY <2>3, <2>4, <2>5
<1>3. ASSUME NEW u \in UPS, UpsChanges(u) PROVE Guard!Next
  <2>1. UNCHANGED <<power, signal, tel, want, ext, plan, lost, pc>>
    BY <1>3 DEF UpsChanges, apiVars, tickVars
  <2>2. RestoredNow(hw)' \in SUBSET UPS /\ CriticalNow(hw)' \in SUBSET (UPS \ RestoredNow(hw)')
    <3>1. RestoredNow(hw') \cap CriticalNow(hw') = {}
      BY Apart
    <3> QED
      BY <3>1 DEF RestoredNow, CriticalNow
  <2> QED
    BY <2>1, <2>2, MapFrame DEF Guard!Next, Guard!UpsMoves, Guard!round, Guard!found
<1>4. ASSUME NEW l \in Loads, Put(l) PROVE Guard!Next
  <2>1. PICK au \in BOOLEAN, r \in Body : handlePower(au, l, r)
    BY <1>4 DEF Put
  <2>2. l \in ApiLoads /\ r \in {"on", "off", "hold"}
    BY <2>1 DEF handlePower, PowerStatus, requestByName
  <2>3. Wanted' = [Wanted EXCEPT ![l] = r]
    BY <2>1, <1>4, <1>a DEF handlePower, Wanted, TypeOK, ApiTypeOK
  <2>4. /\ Phase \in {"idle", "look", "decide", "act"}
        /\ UNCHANGED <<power, hw, signal, tel, ext, plan, lost, pc>>
    BY <1>4 DEF Put, worldVars, tickVars, Phase, Serving, InTick
  <2>5. Guard!Ask(l, r)
    BY <2>3, <2>4, MapFrame DEF Guard!Ask, Guard!world, Guard!round, Guard!found
  <2> QED
    BY <2>2, <2>5 DEF Guard!Next
<1>5. ASSUME NEW l \in Loads,
             UpsmonShutdown(l) \/ PoweredOff(l) \/ Booted(l) \/ Operator(l)
      PROVE  Guard!Next
  <2>1. UNCHANGED <<hw, signal, tel, want, ext, plan, lost>> /\ Phase' = Phase
    BY <1>5, MapFrame
       DEF UpsmonShutdown, PoweredOff, Booted, Operator, Turn, apiVars, tickVars, histVars
  <2>2. PICK from, to : Turn(l, from, to) /\ <<from, to>> \in Guard!Turns
    BY <1>5 DEF UpsmonShutdown, PoweredOff, Booted, Operator, Guard!Turns
  <2> DEFINE t == <<from, to>>
  <2>3. t \in Guard!Turns /\ t[1] = from /\ t[2] = to
    BY <2>2
  <2> HIDE DEF t
  <2> QED
    BY <1>1, <2>1, <2>2, <2>3 DEF Turn
<1> QED
  BY <1>2, <1>3, <1>4, <1>5

(* What Guardian does not see: probes, publications and the clock.         *)
LEMMA UnseenGuarded ==
  ASSUME PromiseInv, PreflightProbe \/ ProbeLoad \/ Publish \/ Clock \/ UNCHANGED vars
  PROVE  UNCHANGED Guard!vars
<1>1. UNCHANGED <<hw, power, signal, tel, ext, plan, lost>>
  BY DEF PreflightProbe, ProbeLoad, Publish, Clock, worldVars, tickVars, histVars, vars
<1>2. Phase' = Phase
  BY DEF PreflightProbe, ProbeLoad, Publish, Clock, vars, Phase
<1>3. Wanted' = Wanted
  <2>1. CASE Clock
    <3>1. \A l \in Loads : want'[l].req = want[l].req
      BY <2>1 DEF Clock, ApiClock, PromiseInv, SafetyInv, TypeOK, ApiTypeOK, Entry
    <3> QED
      BY <3>1 DEF Wanted
  <2>2. CASE want' = want
    BY <2>2, MapFrame
  <2> QED
    BY <2>1, <2>2
    DEF PreflightProbe, ProbeLoad, Publish, PublishActual, apiVars, vars
<1> QED
  BY <1>1, <1>2, <1>3, MapFrame DEF Guard!vars

(* For every configuration, over any faults, restarts and requests: the    *)
(* daemon keeps the promise of Guardian.                                   *)
THEOREM PromiseIsKept == Spec => KeepsPromise
<1>1. Init => PromiseInv /\ Guard!Init
  BY PromiseInit, GuardInit
<1>2. PromiseInv /\ [Next]_vars => PromiseInv'
  BY PromiseStep
<1>3. PromiseInv /\ [Next]_vars => [Guard!Next]_(Guard!vars)
  BY ProcessGuarded, ReadingGuarded, RequestsGuarded, DecisionGuarded, ActionGuarded,
     WorldGuarded, UnseenGuarded
  DEF Next, Tick
<1> QED
  BY <1>1, <1>2, <1>3, PTL DEF Spec, KeepsPromise, Guard!Spec
=============================================================================
