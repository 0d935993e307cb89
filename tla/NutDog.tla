------------------------------- MODULE NutDog -------------------------------
(***************************************************************************)
(* The daemon and the world around it: the reconcile loop of internal/app  *)
(* with the effects it applies, the power API it shares state with, the    *)
(* start-up sequence of cmd/nut-dog, pod restarts, and the UPSes, hosts    *)
(* and operators it acts on.                                               *)
(*                                                                         *)
(* A tick is not atomic in the code: it polls every UPS, probes every      *)
(* load, publishes, reads the requests, decides and then applies its       *)
(* actions one by one, each over the network.  Every such call is a step   *)
(* here, so the world, the clock and the API may move between any two.     *)
(***************************************************************************)
EXTENDS PowerApi, Nut, Effects, Sequences

CONSTANTS UPS,           \* the configured UPSes
          UPSOrder,      \* c.upsNames: the UPSes in name order
          LoadOrder,     \* c.loadNames: the loads in name order
          LoadType,      \* the type of each load
          GovernedBy,    \* the UPSes that govern each load
          UPSConfigs,    \* the thresholds of each UPS
          Vars,          \* the NUT variable sets a UPS may serve
          StartupGrace,  \* startupGrace in clock units; 0 disables it
          DryRun         \* dryRun: log the actions, execute none

(* config.validate: at least one UPS per load, and known names only.  A    *)
(* map's keys are distinct, so each name occurs once in its order.         *)
ASSUME ConfigAssumption ==
  /\ UPSOrder \in Seq(UPS) /\ \A u \in UPS : \E i \in DOMAIN UPSOrder : UPSOrder[i] = u
  /\ LoadOrder \in Seq(Loads) /\ \A l \in Loads : \E i \in DOMAIN LoadOrder : LoadOrder[i] = l
  /\ LoadType \in [Loads -> LoadTypes]
  /\ GovernedBy \in [Loads -> (SUBSET UPS) \ {{}}]
  /\ UPSConfigs \in [UPS -> UPSConfig]
  /\ \A v \in Vars : IsVars(v)
  /\ StartupGrace \in Nat
  /\ DryRun \in BOOLEAN

VARIABLES
  (* The world. *)
  hw,      \* the variables each UPS reports when asked now
  power,   \* the power state of each load
  signal,  \* ups.status of each load's shed dummy-ups in the pod's upsd
  stable,  \* TRUE once the world and the network stop misbehaving
  (* The controller and the locals of the running Tick. *)
  pc,      \* where the process is
  cur,     \* index of the UPS or load the current loop is at
  uptime,  \* now - startedAt, saturated at StartupGrace
  tel, actual, shed, ext,
  plan,    \* the actions still to apply, by load
  (* History, for the properties only. *)
  wasRestored,  \* UPSes that were restored at some moment of this tick
  wasCritical,  \* UPSes that were critical at some moment of this tick
  late,         \* loads given a request since this tick read the requests
  lost,         \* loads that lost an effect in this tick
  probeAge      \* time since each load was last probed, saturated

worldVars == <<hw, power, signal, stable>>
tickVars  == <<tel, actual, shed, ext, plan>>
histVars  == <<wasRestored, wasCritical, late, lost>>
vars == <<want, seen, hw, power, signal, stable, pc, cur, uptime,
          tel, actual, shed, ext, plan,
          wasRestored, wasCritical, late, lost, probeAge>>

Power == {"off", "starting", "on", "stopping"}
InTick == {"poll", "probe", "publish", "requests", "decide", "apply"}
Serving == InTick \cup {"idle"}
PC == Serving \cup {"down", "preflight", "wol"}

Servers == {l \in Loads : LoadType[l] = "nut-server"}

-----------------------------------------------------------------------------
(* What the properties mean by a UPS being critical or restored, stated on *)
(* the variables it serves and independently of Classify.                  *)

OnBattery(v) == v.hasStatus /\ "OB" \in v.status

Critical(c, v) ==
  OnBattery(v) /\ \/ "LB" \in v.status
                  \/ v.runtime \cap 0..c.shedRuntime # {}
                  \/ c.shedCharge > 0 /\ v.charge \cap 0..c.shedCharge # {}

Restored(c, v) ==
  /\ v.hasStatus /\ "OL" \in v.status /\ "OB" \notin v.status
  /\ \A n \in v.charge : 0 <= n => n >= c.recoverCharge

CriticalNow(h) == {u \in UPS : Critical(UPSConfigs[u], h[u])}
RestoredNow(h) == {u \in UPS : Restored(UPSConfigs[u], h[u])}

-----------------------------------------------------------------------------
(* The locals of Tick are fresh maps on every call: a key that has not     *)
(* been written reads as the zero value of its type.                       *)
FreshTick ==
  /\ tel'    = [u \in UPS |-> NoTelemetry]
  /\ actual' = [l \in Loads |-> "unknown"]
  /\ shed'   = [l \in Loads |-> "unknown"]
  /\ ext'    = [l \in Loads |-> "none"]
  /\ plan'   = [l \in Loads |-> {}]

NoHistory == wasRestored' = {} /\ wasCritical' = {} /\ late' = {} /\ lost' = {}

Init ==
  /\ New
  /\ hw \in [UPS -> Vars]
  /\ power \in [Loads -> {"off", "on"}]
  /\ signal = [l \in Loads |-> statusOK]
  /\ stable = FALSE
  /\ pc = "down" /\ cur = 1 /\ uptime = 0
  /\ tel = [u \in UPS |-> NoTelemetry]
  /\ actual = [l \in Loads |-> "unknown"]
  /\ shed = [l \in Loads |-> "unknown"]
  /\ ext = [l \in Loads |-> "none"]
  /\ plan = [l \in Loads |-> {}]
  /\ wasRestored = {} /\ wasCritical = {} /\ late = {} /\ lost = {}
  /\ probeAge = [l \in Loads |-> ObsAgeCap]

-----------------------------------------------------------------------------
(* What the network may answer.  While it misbehaves any read may fail;    *)
(* a stable network reports the truth as far as the host's state fixes it. *)

Dial(p) ==
  CASE p = "on"  -> IF stable THEN {"connected", "refused"} ELSE DialOutcome
    [] p = "off" -> IF stable THEN {"failed"} ELSE {"refused", "failed"}
    [] OTHER     -> DialOutcome

Blade(isOn) == {[present |-> TRUE, on |-> isOn], [present |-> FALSE, on |-> FALSE]}

(* The empty set is a getmodinfo that failed or printed no Server row.     *)
Getmodinfo(p) ==
  (IF stable THEN {} ELSE {{}}) \cup
  CASE p = "on"  -> {Blade(TRUE)}
    [] p = "off" -> {Blade(FALSE)}
    [] OTHER     -> {Blade(TRUE), Blade(FALSE)}

(* The readings Probe may return for a load.                               *)
Probe(l) ==
  IF LoadType[l] = "chassis" THEN {parseChassisPower(r) : r \in Getmodinfo(power[l])}
                             ELSE {tcpProbe(d) : d \in Dial(power[l])}

(* ReadShed answers for NUT servers only; a failed read is unknown.        *)
ReadShed(l) ==
  IF l \in Servers
  THEN {ParseShedStatus(signal[l])} \cup (IF stable THEN {} ELSE {"unknown"})
  ELSE {"unknown"}

-----------------------------------------------------------------------------
(* Start-up.  The entrypoint renders the shed devices afresh, at OL, and   *)
(* starts upsd before nut-dog; preflight then exercises each path once.    *)

Boot ==
  /\ pc = "down"
  /\ signal' = [l \in Loads |-> statusOK]
  /\ pc' = "preflight" /\ cur' = 1 /\ uptime' = 0
  /\ UNCHANGED <<apiVars, hw, power, stable, tickVars, histVars, probeAge>>

(* Preflight's UPS polls, login check and CMC read change nothing.         *)
PreflightProbe ==
  /\ pc = "preflight" /\ cur <= Len(LoadOrder)
  /\ \E a \in Probe(LoadOrder[cur]) :
       IF LoadOrder[cur] \in Servers /\ a = "up"
       THEN pc' = "wol" /\ cur' = cur
       ELSE pc' = pc /\ cur' = cur + 1
  /\ UNCHANGED <<apiVars, worldVars, uptime, tickVars, histVars, probeAge>>

(* A magic packet starts a host that is off and is ignored by any other.   *)
WokenBy(l) == IF power[l] = "off" THEN [power EXCEPT ![l] = "starting"] ELSE power

(* Reported if it fails, and not tried again.                              *)
PreflightWake ==
  /\ pc = "wol"
  /\ \/ power' = WokenBy(LoadOrder[cur])
     \/ ~stable /\ power' = power
  /\ pc' = "preflight" /\ cur' = cur + 1
  /\ UNCHANGED <<apiVars, hw, signal, stable, uptime, tickVars, histVars, probeAge>>

(* The API starts to listen, StartClock, and the loop is entered.          *)
Serve ==
  /\ pc = "preflight" /\ cur > Len(LoadOrder)
  /\ pc' = "idle" /\ cur' = 1
  /\ uptime' = 0
  /\ UNCHANGED <<apiVars, worldVars, tickVars, histVars, probeAge>>

-----------------------------------------------------------------------------
(* Tick.                                                                   *)

StartTick ==
  /\ pc = "idle"
  /\ pc' = "poll" /\ cur' = 1
  /\ FreshTick
  /\ wasRestored' = RestoredNow(hw) /\ wasCritical' = CriticalNow(hw)
  /\ late' = {} /\ lost' = {}
  /\ UNCHANGED <<apiVars, worldVars, uptime, probeAge>>

(* The loop over upsNames; Poll returns the zero Telemetry on any error.   *)
NextUPS == IF cur < Len(UPSOrder) THEN pc' = "poll" /\ cur' = cur + 1
                                  ELSE pc' = "probe" /\ cur' = 1

PollOK ==
  /\ pc = "poll" /\ cur <= Len(UPSOrder)
  /\ tel' = [tel EXCEPT ![UPSOrder[cur]] = TelemetryFromVars(hw[UPSOrder[cur]])]
  /\ NextUPS
  /\ UNCHANGED <<apiVars, worldVars, uptime, actual, shed, ext, plan, histVars, probeAge>>

PollFail ==
  /\ pc = "poll" /\ cur <= Len(UPSOrder) /\ ~stable
  /\ tel' = [tel EXCEPT ![UPSOrder[cur]] = NoTelemetry]
  /\ NextUPS
  /\ UNCHANGED <<apiVars, worldVars, uptime, actual, shed, ext, plan, histVars, probeAge>>

ProbeLoad ==
  /\ pc = "probe" /\ cur <= Len(LoadOrder)
  /\ \E a \in Probe(LoadOrder[cur]), s \in ReadShed(LoadOrder[cur]) :
       /\ actual' = [actual EXCEPT ![LoadOrder[cur]] = a]
       /\ shed' = [shed EXCEPT ![LoadOrder[cur]] = s]
  /\ probeAge' = [probeAge EXCEPT ![LoadOrder[cur]] = 0]
  /\ IF cur < Len(LoadOrder) THEN pc' = pc /\ cur' = cur + 1
                             ELSE pc' = "publish" /\ cur' = 1
  /\ UNCHANGED <<apiVars, worldVars, uptime, tel, ext, plan, histVars>>

Publish ==
  /\ pc = "publish"
  /\ PublishActual(actual)
  /\ pc' = "requests"
  /\ UNCHANGED <<worldVars, cur, uptime, tickVars, histVars, probeAge>>

ReadRequests ==
  /\ pc = "requests"
  /\ ext' = [l \in Loads |-> Live(l)]
  /\ DropExpired
  /\ pc' = "decide"
  /\ UNCHANGED <<worldVars, cur, uptime, tel, actual, shed, plan, histVars, probeAge>>

(* Mutant: nothing is held.                                                *)
holdNothing(acts) == acts

(* Power-on actions are dropped until the grace has passed; all others     *)
(* are kept.                                                               *)
holdStartupWakes(acts) ==
  {k \in acts : StartupGrace <= 0 \/ uptime >= StartupGrace \/ ~isPowerOn(k)}

DecideStep ==
  /\ pc = "decide"
  /\ plan' = [l \in Loads |->
                holdStartupWakes(Decide(UPSConfigs, tel, LoadType[l], GovernedBy[l],
                                        actual[l], shed[l], ext[l]))]
  /\ pc' = "apply"
  /\ UNCHANGED <<apiVars, worldVars, cur, uptime, tel, actual, shed, ext, histVars, probeAge>>

(* The effect of one action on the load it names.                          *)
Effect(l, k) ==
  CASE k = "AssertServerShed"  -> power' = power /\ signal' = [signal EXCEPT ![l] = statusShed]
    [] k = "ReleaseServerShed" -> power' = power /\ signal' = [signal EXCEPT ![l] = statusOK]
    [] k = "ChassisShutdown"   -> /\ power' = IF power[l] = "off" THEN power
                                              ELSE [power EXCEPT ![l] = "stopping"]
                                  /\ signal' = signal
    [] OTHER                   -> power' = WokenBy(l) /\ signal' = signal

(* Apply walks the slice: the loads in name order, each load's actions in  *)
(* the order ReconcileLoad returned them.                                  *)
NextAction(l, k) ==
  /\ \E i \in DOMAIN LoadOrder : /\ LoadOrder[i] = l
                                 /\ \A j \in 1..(i - 1) : plan[LoadOrder[j]] = {}
  /\ First(plan[l], k)

Done(l, k) == plan' = [plan EXCEPT ![l] = @ \ {k}]

(* Mutant: dryRun is not looked at.                                        *)
ApplyAlways ==
  /\ pc = "apply"
  /\ \E l \in Loads, k \in ActionKind : NextAction(l, k) /\ Effect(l, k) /\ Done(l, k)
  /\ UNCHANGED <<apiVars, hw, stable, pc, cur, uptime, tel, actual, shed, ext, histVars, probeAge>>

ApplyOK ==
  /\ pc = "apply" /\ ~DryRun
  /\ \E l \in Loads, k \in ActionKind : NextAction(l, k) /\ Effect(l, k) /\ Done(l, k)
  /\ UNCHANGED <<apiVars, hw, stable, pc, cur, uptime, tel, actual, shed, ext, histVars, probeAge>>

(* Mutant: the first failure ends the loop.                                *)
ApplyStopsAtFailure ==
  /\ pc = "apply" /\ ~DryRun /\ ~stable
  /\ \E l \in Loads, k \in ActionKind :
       /\ NextAction(l, k) /\ lost' = lost \cup {l}
       /\ plan' = [m \in Loads |-> {}]
  /\ UNCHANGED <<apiVars, worldVars, pc, cur, uptime, tel, actual, shed, ext,
                 wasRestored, wasCritical, late, probeAge>>

(* A failed effect is logged and the loop goes on to the next action.  A   *)
(* magic packet may also be lost without an error.                         *)
ApplyLost ==
  /\ pc = "apply" /\ ~DryRun /\ ~stable
  /\ \E l \in Loads, k \in ActionKind :
       NextAction(l, k) /\ Done(l, k) /\ lost' = lost \cup {l}
  /\ UNCHANGED <<apiVars, worldVars, pc, cur, uptime, tel, actual, shed, ext,
                 wasRestored, wasCritical, late, probeAge>>

ApplyDry ==
  /\ pc = "apply" /\ DryRun
  /\ \E l \in Loads, k \in ActionKind : NextAction(l, k) /\ Done(l, k)
  /\ UNCHANGED <<apiVars, worldVars, pc, cur, uptime, tel, actual, shed, ext, histVars, probeAge>>

(* Tick returns and its locals are gone.                                   *)
EndTick ==
  /\ pc = "apply" /\ \A l \in Loads : plan[l] = {}
  /\ pc' = "idle"
  /\ FreshTick /\ NoHistory
  /\ UNCHANGED <<apiVars, worldVars, cur, uptime, probeAge>>

Tick == \/ StartTick \/ PollOK \/ PollFail \/ ProbeLoad \/ Publish
        \/ ReadRequests \/ DecideStep \/ ApplyOK \/ ApplyLost \/ ApplyDry \/ EndTick

-----------------------------------------------------------------------------
(* The environment.                                                        *)

(* The pod dies or is stopped, anywhere; its requests, observations and    *)
(* locals are in memory only.                                              *)
Crash ==
  /\ pc # "down" /\ ~stable
  /\ pc' = "down" /\ cur' = 1 /\ uptime' = 0
  /\ NewServer /\ FreshTick /\ NoHistory
  /\ UNCHANGED <<worldVars, probeAge>>

(* A PUT that is accepted.  Nothing says that one ever comes through: the  *)
(* listener may have failed, which main logs and outlives (SharedLoad).    *)
Put(l) ==
  /\ pc \in Serving /\ ~stable
  /\ \E authorised \in BOOLEAN, body \in Body : handlePower(authorised, l, body)
  /\ late' = IF pc \in {"decide", "apply"} THEN late \cup {l} ELSE late
  /\ UNCHANGED <<worldVars, pc, cur, uptime, tickVars, wasRestored, wasCritical, lost, probeAge>>

Clock ==
  /\ ApiClock
  /\ uptime' = IF pc \in Serving THEN Older(uptime, StartupGrace) ELSE uptime
  /\ probeAge' = [l \in Loads |-> Older(probeAge[l], ObsAgeCap)]
  /\ UNCHANGED <<worldVars, pc, cur, tickVars, histVars>>

(* Mains, battery or reporting of a UPS change.                            *)
UpsChanges(u) ==
  /\ ~stable
  /\ \E v \in Vars : hw' = [hw EXCEPT ![u] = v]
  /\ wasRestored' = IF pc \in InTick THEN wasRestored \cup RestoredNow(hw') ELSE {}
  /\ wasCritical' = IF pc \in InTick THEN wasCritical \cup CriticalNow(hw') ELSE {}
  /\ UNCHANGED <<apiVars, power, signal, stable, pc, cur, uptime, tickVars, late, lost, probeAge>>

Turn(l, from, to) ==
  /\ power[l] = from
  /\ power' = [power EXCEPT ![l] = to]
  /\ UNCHANGED <<apiVars, hw, signal, stable, pc, cur, uptime, tickVars, histVars, probeAge>>

(* upsmon on a server shuts it down when the pod's upsd serves it FSD.     *)
UpsmonShutdown(l) ==
  l \in Servers /\ pc # "down" /\ "FSD" \in signal[l] /\ Turn(l, "on", "stopping")

PoweredOff(l) == Turn(l, "stopping", "off")
Booted(l)     == Turn(l, "starting", "on")

(* Someone else starts or stops the load.                                  *)
Operator(l) ==
  ~stable /\ (Turn(l, "off", "starting") \/ Turn(l, "on", "stopping"))

Next ==
  \/ Boot \/ PreflightProbe \/ PreflightWake \/ Serve \/ Tick
  \/ Crash \/ Clock
  \/ \E u \in UPS : UpsChanges(u)
  \/ \E l \in Loads : \/ Put(l) \/ UpsmonShutdown(l)
                      \/ PoweredOff(l) \/ Booted(l) \/ Operator(l)

Spec == Init /\ [][Next]_vars

-----------------------------------------------------------------------------
(* From some moment on the network, the UPSes and the other actors behave, *)
(* for good.  Only the liveness specification has this step.               *)
Stabilise ==
  /\ ~stable /\ stable' = TRUE
  /\ UNCHANGED <<apiVars, hw, power, signal, pc, cur, uptime, tickVars, histVars, probeAge>>

(* Time passes, hosts finish what they began, the kubelet restarts a pod   *)
(* that ended, and main never stops looping while it is up: its NUT calls  *)
(* and probes carry deadlines (module NutSession), and of its SSH calls,   *)
(* which have none past the dial, it is assumed that a CMC answers or      *)
(* drops the connection (module Sshexec shows the tick when one does not). *)
Daemon == Boot \/ PreflightProbe \/ PreflightWake \/ Serve \/ Tick

Fairness ==
  /\ WF_vars(Daemon) /\ WF_vars(Clock)
  /\ \A l \in Loads : /\ WF_vars(UpsmonShutdown(l))
                      /\ WF_vars(PoweredOff(l)) /\ WF_vars(Booted(l))

LiveSpec == Init /\ [][Next \/ Stabilise]_vars /\ Fairness

-----------------------------------------------------------------------------
(* Every variable keeps its type: the maps are total over the configured   *)
(* names, and a load is only ever planned actions of its own type.         *)
TypeOK ==
  /\ ApiTypeOK
  /\ hw \in [UPS -> Vars]
  /\ power \in [Loads -> Power]
  /\ signal \in [Loads -> Signals]
  /\ stable \in BOOLEAN
  /\ pc \in PC /\ cur \in Nat \ {0} /\ uptime \in 0..StartupGrace
  /\ tel \in [UPS -> Telemetry]
  /\ actual \in [Loads -> ActualState] /\ shed \in [Loads -> ShedState]
  /\ ext \in [Loads -> Request]
  /\ plan \in [Loads -> SUBSET ActionKind]
  /\ \A l \in Loads : plan[l] \subseteq IF l \in Servers THEN ServerKinds ELSE ChassisKinds
  /\ wasRestored \subseteq UPS /\ wasCritical \subseteq UPS
  /\ late \subseteq Loads /\ lost \subseteq Loads
  /\ probeAge \in [Loads -> 0..ObsAgeCap]

Planned(l, kinds) == pc = "apply" /\ plan[l] \cap kinds # {}
PowerOnKinds == {"WakeServer", "ChassisPowerUp"}
ShedKinds    == {"AssertServerShed", "ChassisShutdown"}

(* A load is only powered on when every UPS that governs it was restored   *)
(* at some moment since the tick began, whatever the polls, failed polls   *)
(* and restarts before it: a reading is never carried over, and a UPS that *)
(* cannot be read blocks the power-on (control.Decide over app.Tick).      *)
WakeInterlock ==
  \A l \in Loads : Planned(l, PowerOnKinds) => GovernedBy[l] \subseteq wasRestored

(* A load is only shed for a UPS that really was critical during the tick, *)
(* or because the API's caller asked for it: losing sight of a UPS, of a   *)
(* load or of the shed signal is never a reason.                           *)
ShedJustified ==
  \A l \in Loads : Planned(l, ShedKinds) =>
     \/ GovernedBy[l] \cap wasCritical # {}
     \/ l \in ApiLoads /\ ext[l] = "off"

(* Once a tick has read a critical UPS, each server it governs has its     *)
(* shed signal asserted, or the assertion is still to come in this Apply,  *)
(* or it was attempted and failed - in spite of the edge-triggered skip,   *)
(* of other loads' failures and of any request (ReconcileLoad, Apply).     *)
CriticalRead(u) ==
  /\ tel[u].onBattery
  /\ \/ tel[u].lowBattery
     \/ tel[u].runtime \in 0..UPSConfigs[u].shedRuntime
     \/ UPSConfigs[u].shedCharge > 0 /\ tel[u].charge \in 0..UPSConfigs[u].shedCharge

ShedFollowsCritical ==
  \A l \in Servers : pc = "apply" /\ ~DryRun /\ (\E u \in GovernedBy[l] : CriticalRead(u)) =>
     \/ signal[l] = statusShed \/ "AssertServerShed" \in plan[l] \/ l \in lost

(* When Apply sends a server its wake, the shed signal reads OL, unless    *)
(* the release failed: a server woken under an asserted signal would shut  *)
(* itself down again (the release-then-wake order of ReconcileLoad).       *)
WakeAfterRelease ==
  [][\A l \in Loads : /\ pc = "apply" /\ pc' = "apply"
                      /\ "WakeServer" \in plan[l] \ plan'[l]
       => signal[l] = statusOK \/ l \in lost \/ DryRun]_vars

(* With dryRun no step of a tick touches a load or a shed signal, however  *)
(* many actions it plans (Executor.do).                                    *)
DryRunInert ==
  [][DryRun /\ pc \in InTick /\ <<pc, cur, plan>>' # <<pc, cur, plan>>
       => UNCHANGED <<power, signal>>]_vars

(* While a caller's "off" or "hold" stands, a tick that read the requests  *)
(* after it was made does not power the load on.                           *)
RequestHonoured ==
  \A l \in Loads : Planned(l, PowerOnKinds) /\ want[l].req \in {"off", "hold"} => l \in late

(* The promise all of this amounts to, module Guardian: a look finds a UPS *)
(* as it is or finds nothing, shedding and powering on have no grounds but *)
(* what this tick's looks and the requests it read give, no server is      *)
(* woken under its own signal, and when a tick ends each server's signal   *)
(* stands as its grounds call for, unless an effect on it was lost.        *)
Told   == {l \in Servers : signal[l] = statusShed}
Wanted == [l \in Loads |-> want[l].req]

SawRestored == {u \in UPS : Classify(UPSConfigs[u], tel[u]) = "healthy"}
SawCritical == {u \in UPS : Classify(UPSConfigs[u], tel[u]) = "shed"}

Phase == CASE pc = "down"                                      -> "away"
           [] pc \in {"preflight", "wol"}                      -> "starting"
           [] pc \in {"poll", "probe", "publish", "requests"}  -> "look"
           [] pc = "apply"                                     -> "act"
           [] OTHER                                            -> pc

Guard == INSTANCE Guardian
  WITH told <- Told, wanted <- Wanted, asked <- ext, phase <- Phase, failed <- lost,
       restored <- RestoredNow(hw), critical <- CriticalNow(hw),
       sawRestored <- SawRestored, sawCritical <- SawCritical

KeepsPromise == Guard!Spec

(* Where a load belongs, given its UPSes and the standing request.         *)
MustBeOff(l) == GovernedBy[l] \cap CriticalNow(hw) # {} \/ want[l].req = "off"
MustBeOn(l)  == /\ GovernedBy[l] \subseteq RestoredNow(hw)
                /\ want[l].req \in {"none", "on"}

Settled(l) ==
  /\ MustBeOff(l) => power[l] = "off" /\ (l \in Servers => signal[l] = statusShed)
  /\ MustBeOn(l)  => power[l] = "on"  /\ (l \in Servers => signal[l] = statusOK)

(* Whatever was lost, restarted or half done before, once the world holds  *)
(* still every load reaches the state its UPSes and the standing request   *)
(* call for, and stays there.                                              *)
Converges == <>stable => <>[](\A l \in Loads : Settled(l))

(* A caller that dies pins nothing: once the world holds still and nobody  *)
(* restates a request, each load whose UPSes are restored ends up on, also *)
(* when its last request was "off" or "hold" (Desired's expiry).           *)
DeadCallerPinsNothing ==
  RequestTTL > 0 /\ <>stable =>
    <>[](\A l \in Loads : GovernedBy[l] \subseteq RestoredNow(hw) => power[l] = "on")

(* powerapi: "hold" stops nut-dog powering the load on by itself while the *)
(* caller is mid-operation - from the moment the PUT is answered.          *)
HoldPins ==
  [][\A l \in Loads : want[l].req = "hold" /\ pc = "apply" /\ pc' = pc /\ plan' # plan
                       => ~(power[l] = "off" /\ power'[l] = "starting")]_vars

(* control: a restart re-reads the world and continues, with nothing to    *)
(* lose - in particular a server told to stay down is still told so while  *)
(* a UPS that governs it has not recovered.                                *)
RestartLosesNothing ==
  [][\A l \in Servers : pc = "down" /\ ~(GovernedBy[l] \subseteq RestoredNow(hw))
                        => signal'[l] = signal[l]]_vars

(* powerapi: an observation is the last probed state and when it was       *)
(* taken, so the age served is not less than the time since the probe.     *)
ServedAgeCoversProbe ==
  \A l \in ApiLoads : seen[l].ok => handleState(l).age >= probeAge[l]

(* main: preflight sends its magic packet to an up host only, as a no-op,  *)
(* and never wakes a down host at start-up.                                *)
PreflightWakesNothing ==
  [][pc = "wol" /\ pc' = "preflight" => power' = power]_vars
=============================================================================
