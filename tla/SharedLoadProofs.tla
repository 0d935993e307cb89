-------------------------- MODULE SharedLoadProofs --------------------------
(***************************************************************************)
(* For every configuration, period of the caller and grace longer than it: *)
(* a load whose caller keeps asking for it to be left alone is not planned *)
(* to be powered on before the caller has met a failed listener.           *)
(***************************************************************************)
EXTENDS SharedLoad, NutDogProofs

(* A request is as old as the caller's last word or younger; while the API *)
(* serves and has none, the process is as young.  Neither can be said once *)
(* words of the caller have been lost to a failed listener.                *)
HeardInv ==
  \A l \in ApiLoads :
    /\ want[l].req \in {"none", "off", "hold"}
    /\ l \notin cutOff /\ want[l].req # "none" => want[l].age <= due[l]
    /\ l \notin cutOff /\ pc \in Serving /\ want[l].req = "none" => uptime <= due[l]
    /\ pc \notin Serving => want[l].req = "none"

(* Words lost before there is a listener are lost at the very start.       *)
OpeningInv == api = "opening" => uptime = 0 /\ \A l \in ApiLoads : want[l].req = "none"

(* What the tick read: the caller's wish, or a grace that still runs.      *)
ReadInv ==
  \A l \in ApiLoads \ cutOff :
    pc = "decide" => ext[l] \in {"off", "hold"} \/ uptime <= Gap + lag

SharedInv ==
  TypeOK /\ SharedTypeOK /\ HeardInv /\ OpeningInv /\ ReadInv /\ CallerIsHeeded

-----------------------------------------------------------------------------
LEMMA SharedIsNutDog == SharedNext => Next \/ UNCHANGED vars
  BY ApiAssumption DEF SharedNext, TimePasses, StartPowerAPI, ListenAndServe, Die, Restate, Unheard,
     Otherwise, Next

LEMMA SharedStart == SharedInit => SharedInv
<1> SUFFICES ASSUME SharedInit PROVE SharedInv
  OBVIOUS
<1>1. TypeOK
  BY TypeInit DEF SharedInit
<1>2. SharedTypeOK
  BY CallerAssumption DEF SharedInit, SharedTypeOK, Init, Listener, Serving, InTick
<1>3. HeardInv /\ OpeningInv /\ ReadInv /\ CallerIsHeeded
  BY ApiAssumption
     DEF SharedInit, Init, New, NoEntry, HeardInv, OpeningInv, ReadInv, CallerIsHeeded, Planned,
         Serving, InTick
<1> QED BY <1>1, <1>2, <1>3 DEF SharedInv

LEMMA SharedBounds == SharedInv /\ SharedNext => SharedTypeOK'
<1> SUFFICES ASSUME SharedInv, SharedNext PROVE SharedTypeOK'
  OBVIOUS
<1> USE CallerAssumption DEF SharedInv, SharedTypeOK, Listener
<1>1. CASE TimePasses
  BY <1>1 DEF TimePasses, Clock
<1>2. CASE \E l \in ApiLoads : Restate(l) \/ Unheard(l)
  BY <1>2 DEF Restate, Unheard, Put, vars
<1>3. CASE StartPowerAPI
  BY <1>3 DEF StartPowerAPI, Serve, Serving, InTick
<1>4. CASE ListenAndServe
  BY <1>4 DEF ListenAndServe, vars
<1>5. CASE Die
  BY <1>5 DEF Die, Crash, Serving, InTick
<1>6. ASSUME Otherwise, lag' = (IF pc' = "decide" THEN lag ELSE 0), UNCHANGED <<due, api, cutOff>>
      PROVE  SharedTypeOK'
  <2>1. pc' \in Serving <=> pc \in Serving
    BY <1>6 DEF Otherwise, Boot, PreflightProbe, PreflightWake, Tick, StartTick, PollOK, PollFail,
       NextUPS, ProbeLoad, Publish, ReadRequests, DecideStep, ApplyOK, ApplyLost, ApplyDry, EndTick,
       UpsChanges, UpsmonShutdown, PoweredOff, Booted, Operator, Turn, Serving, InTick
  <2> QED BY <1>6, <2>1
<1> QED BY <1>1, <1>2, <1>3, <1>4, <1>5, <1>6 DEF SharedNext

(* A standing request outlives the gap, so Desired returns it.             *)
LEMMA NotExpired ==
  ASSUME SharedInv, NEW l \in ApiLoads \ cutOff, want[l].req # "none"
  PROVE  ~expired(l)
<1>1. want[l].age \in Nat /\ due[l] \in 0..Gap /\ want[l].age <= due[l]
  BY ApiAssumption DEF SharedInv, SharedTypeOK, HeardInv, TypeOK, ApiTypeOK, Entry
<1> QED BY <1>1, CallerAssumption, ApiAssumption DEF expired

(* The steps that leave the requests, the clocks and the tick's request    *)
(* and plan alone, but for actions done.                                   *)
LEMMA SharedFrame ==
  ASSUME SharedInv, TypeOK', SharedTypeOK',
         UNCHANGED <<want, uptime, ext, due, api, cutOff>>,
         \A l \in Loads : plan'[l] \subseteq plan[l],
         pc' # "decide" \/ (pc' = pc /\ lag' = lag),
         pc' # "apply" \/ pc' = pc,
         pc' \in Serving <=> pc \in Serving
  PROVE  SharedInv'
<1>1. HeardInv' /\ OpeningInv'
  BY DEF SharedInv, HeardInv, OpeningInv
<1>2. ReadInv'
  BY DEF SharedInv, ReadInv
<1>3. CallerIsHeeded'
  BY ApiAssumption DEF SharedInv, CallerIsHeeded, Planned
<1> QED BY <1>1, <1>2, <1>3 DEF SharedInv

(* Time: the request and the caller's clock age together.                  *)
LEMMA SharedClock ==
  ASSUME SharedInv, TypeOK', SharedTypeOK', TimePasses
  PROVE  SharedInv'
<1>1. /\ UNCHANGED <<pc, ext, plan, api, cutOff>> /\ api # "opening"
      /\ \A l \in ApiLoads : due'[l] = due[l] + 1
      /\ pc = "decide" => lag' = lag + 1
      /\ uptime \in 0..StartupGrace
      /\ uptime' <= uptime + 1 /\ (pc \notin Serving => uptime' = uptime)
  BY ConfigAssumption DEF TimePasses, Clock, Older, tickVars, SharedInv, TypeOK
<1>2. \A l \in ApiLoads : /\ want'[l].req = want[l].req
                          /\ want[l].req # "none" => want'[l].age <= want[l].age + 1
                          /\ want[l].req # "none" => want[l].age \in Nat /\ want'[l].age \in Nat
                          /\ due[l] \in Nat
  BY ApiAssumption, CallerAssumption
     DEF TimePasses, Clock, ApiClock, Older, SharedInv, TypeOK, ApiTypeOK, Entry, SharedTypeOK
<1>3. uptime' \in Nat /\ lag \in Nat /\ Gap \in Nat
  BY ConfigAssumption, CallerAssumption DEF TypeOK, SharedInv, SharedTypeOK
<1>4. HeardInv' /\ OpeningInv'
  BY <1>1, <1>2, <1>3 DEF SharedInv, HeardInv, OpeningInv
<1>5. ReadInv'
  BY <1>1, <1>3 DEF SharedInv, ReadInv
<1>6. CallerIsHeeded'
  BY <1>1, ApiAssumption DEF SharedInv, CallerIsHeeded, Planned
<1> QED BY <1>4, <1>5, <1>6 DEF SharedInv

(* A decision made while the caller's wish is known powers nothing on, and *)
(* one made without it falls into the grace.                               *)
LEMMA SharedDecide ==
  ASSUME SharedInv, TypeOK', SharedTypeOK', DecideStep, UNCHANGED <<due, api, cutOff>>
  PROVE  SharedInv'
<1>1. HeardInv' /\ OpeningInv'
  BY DEF DecideStep, apiVars, SharedInv, HeardInv, OpeningInv, Serving, InTick
<1>2. ReadInv'
  BY DEF DecideStep, ReadInv
<1>3. ASSUME NEW l \in ApiLoads \ cutOff PROVE plan'[l] \cap PowerOnKinds = {}
  <2> DEFINE acts == Decide(UPSConfigs, tel, LoadType[l], GovernedBy[l], actual[l], shed[l], ext[l])
  <2>1. l \in Loads /\ plan'[l] = holdStartupWakes(acts)
    BY ApiAssumption DEF DecideStep
  <2>2. CASE ext[l] \in {"off", "hold"}
    <3>1. acts \cap PowerOnKinds = {}
      BY <2>1, <2>2, DecideFacts DEF SharedInv
    <3> QED BY <2>1, <3>1 DEF holdStartupWakes
  <2>3. CASE uptime <= Gap + lag
    <3>1. uptime < StartupGrace /\ StartupGrace > 0
      BY <2>3, CallerAssumption, ConfigAssumption DEF SharedInv, SharedTypeOK, TypeOK
    <3>2. \A k \in plan'[l] : ~isPowerOn(k)
      BY <2>1, <3>1, ConfigAssumption DEF holdStartupWakes, SharedInv, TypeOK
    <3> QED BY <3>2 DEF isPowerOn, PowerOnKinds
  <2> QED BY <2>2, <2>3 DEF SharedInv, ReadInv, DecideStep
<1>4. CallerIsHeeded'
  BY <1>3 DEF CallerIsHeeded, Planned
<1> QED BY <1>1, <1>2, <1>4 DEF SharedInv

LEMMA SharedStep == SharedInv /\ [SharedNext]_sharedVars => SharedInv'
<1> SUFFICES ASSUME SharedInv, [SharedNext]_sharedVars PROVE SharedInv'
  OBVIOUS
<1>1. CASE UNCHANGED sharedVars
  BY <1>1 DEF sharedVars, vars, apiVars, worldVars, tickVars, histVars, SharedInv, TypeOK, ApiTypeOK,
     SharedTypeOK, HeardInv, OpeningInv, ReadInv, CallerIsHeeded, Planned
<1>a. ASSUME SharedNext PROVE TypeOK' /\ SharedTypeOK'
  BY <1>a, SharedIsNutDog, TypeStep, SharedBounds DEF SharedInv
<1>2. CASE TimePasses
  BY <1>2, <1>a, SharedClock DEF SharedNext
<1>3. ASSUME NEW l \in ApiLoads, Restate(l) PROVE SharedInv'
  <2>a. l \in Loads /\ want \in [Loads -> Entry] /\ due \in [ApiLoads -> 0..Gap]
    BY ApiAssumption DEF SharedInv, TypeOK, ApiTypeOK, SharedTypeOK
  <2>b. PICK authorised \in BOOLEAN, body \in Body : handlePower(authorised, l, body)
    BY <1>3 DEF Restate, Put
  <2>c. want' = [want EXCEPT ![l] = [req |-> body, age |-> 0]]
    BY <2>b DEF handlePower
  <2>d. body \in {"off", "hold"}
    BY <2>a, <2>c, <1>3 DEF Restate
  <2>1. /\ due' = [due EXCEPT ![l] = 0] /\ api = "open"
        /\ UNCHANGED <<pc, uptime, ext, plan, lag, api, cutOff>> /\ pc \in Serving
    BY <1>3 DEF Restate, Put, tickVars
  <2>2. HeardInv' /\ OpeningInv'
    BY <2>1, <2>a, <2>c, <2>d, ApiAssumption DEF SharedInv, HeardInv, OpeningInv
  <2>3. ReadInv' /\ CallerIsHeeded'
    BY <2>1 DEF SharedInv, ReadInv, CallerIsHeeded, Planned
  <2> QED BY <2>2, <2>3, <1>3, <1>a DEF SharedInv, SharedNext
<1>4. ASSUME NEW l \in ApiLoads, Unheard(l) PROVE SharedInv'
  <2>a. due \in [ApiLoads -> 0..Gap] /\ uptime \in Nat
    BY <1>4, ConfigAssumption DEF SharedInv, SharedTypeOK, TypeOK
  <2>1. /\ UNCHANGED <<want, pc, uptime, ext, plan, lag, api>> /\ cutOff \subseteq cutOff'
        /\ due' = [due EXCEPT ![l] = 0] /\ (api = "failed" => l \in cutOff') /\ api # "open"
    BY <1>4 DEF Unheard, vars, apiVars
  <2>2. CASE api = "failed"
    BY <2>a, <2>1, <2>2, <1>4, <1>a DEF SharedInv, SharedNext, HeardInv, OpeningInv, ReadInv, CallerIsHeeded, Planned
  <2>3. CASE api = "opening"
    BY <2>a, <2>1, <2>3, <1>4, <1>a DEF SharedInv, SharedNext, HeardInv, OpeningInv, ReadInv, CallerIsHeeded, Planned
  <2>4. CASE api = "none"
    <3>1. pc \notin Serving
      BY <2>4 DEF SharedInv, SharedTypeOK
    <3> QED BY <2>a, <2>1, <2>4, <3>1, <1>4, <1>a
            DEF SharedInv, SharedNext, HeardInv, OpeningInv, ReadInv, CallerIsHeeded, Planned, Serving, InTick
  <2> QED BY <2>1, <2>2, <2>3, <2>4 DEF SharedInv, SharedTypeOK, Listener
<1>5. CASE StartPowerAPI
  BY <1>5, <1>a, CallerAssumption, ApiAssumption
     DEF SharedNext, StartPowerAPI, Serve, apiVars, tickVars, SharedInv, HeardInv, OpeningInv, ReadInv,
         CallerIsHeeded, Planned, Serving, InTick, SharedTypeOK
<1>6. CASE ListenAndServe
  <2>1. UNCHANGED <<want, pc, uptime, ext, plan, due, lag, cutOff>> /\ api' # "opening"
    BY <1>6 DEF ListenAndServe, vars, apiVars
  <2> QED BY <2>1, <1>6, <1>a DEF SharedNext, SharedInv, HeardInv, OpeningInv, ReadInv, CallerIsHeeded, Planned
<1>7. CASE Die
  BY <1>7, <1>a, ApiAssumption DEF SharedNext, Die, Crash, NewServer, NoEntry, SharedInv, HeardInv,
     OpeningInv, ReadInv, CallerIsHeeded, Planned, Serving, InTick
<1>8. ASSUME Otherwise, lag' = (IF pc' = "decide" THEN lag ELSE 0), UNCHANGED <<due, api, cutOff>>
      PROVE  SharedInv'
  <2>a. TypeOK' /\ SharedTypeOK'
    BY <1>8, <1>a DEF SharedNext
  <2>1. CASE ReadRequests
    <3>1. \A l \in ApiLoads : /\ want'[l].req \in {want[l].req, "none"}
                              /\ l \notin cutOff => ext'[l] = want[l].req /\ want'[l].req = want[l].req
                              /\ l \notin cutOff /\ want[l].req # "none" => want'[l] = want[l]
      BY <2>1, NotExpired, ApiAssumption DEF ReadRequests, DropExpired, Live, NoEntry
    <3>2. pc = "requests" /\ pc' = "decide" /\ uptime' = uptime /\ lag' = lag
      BY <2>1, <1>8 DEF ReadRequests
    <3>3. HeardInv' /\ OpeningInv'
      BY <3>1, <3>2, <1>8 DEF SharedInv, HeardInv, OpeningInv, Serving, InTick
    <3>4. ReadInv'
      <4>1. \A l \in ApiLoads \ cutOff : want[l].req = "none" => uptime <= Gap + lag
        BY <3>2, CallerAssumption, ConfigAssumption DEF SharedInv, HeardInv, Serving, InTick, SharedTypeOK, TypeOK
      <4> QED BY <3>1, <3>2, <4>1, <1>8 DEF SharedInv, HeardInv, ReadInv
    <3> QED BY <2>a, <3>2, <3>3, <3>4 DEF SharedInv, CallerIsHeeded, Planned
  <2>2. CASE DecideStep
    BY <2>2, <2>a, <1>8, SharedDecide
  <2>3. CASE Boot
    BY <2>3, <2>a, <1>8 DEF Boot, apiVars, tickVars, SharedInv, HeardInv, OpeningInv, ReadInv,
       CallerIsHeeded, Planned, Serving, InTick
  <2>4. CASE StartTick \/ EndTick
    BY <2>4, <2>a, <1>8 DEF StartTick, EndTick, apiVars, SharedInv, HeardInv, OpeningInv, ReadInv,
       CallerIsHeeded, Planned, Serving, InTick
  <2>5. CASE \/ PreflightProbe \/ PreflightWake \/ PollOK \/ PollFail \/ ProbeLoad
    BY <2>5, <2>a, <1>8, SharedFrame
       DEF PreflightProbe, PreflightWake, PollOK, PollFail, NextUPS, ProbeLoad, apiVars, tickVars, Serving, InTick
  <2>6. CASE Publish
    BY <2>6, <2>a, <1>8, SharedFrame DEF Publish, PublishActual, tickVars, Serving, InTick
  <2>7. CASE ApplyOK \/ ApplyLost \/ ApplyDry
    <3>1. \A l \in Loads : plan'[l] \subseteq plan[l]
      BY <2>7 DEF ApplyOK, ApplyLost, ApplyDry, Done, SharedInv, TypeOK
    <3>2. /\ UNCHANGED <<want, uptime, ext>> /\ pc' = pc /\ pc = "apply"
      BY <2>7 DEF ApplyOK, ApplyLost, ApplyDry, apiVars
    <3> QED BY <3>1, <3>2, <2>a, <1>8, SharedFrame
  <2>8. CASE \E u \in UPS : UpsChanges(u)
    BY <2>8, <2>a, <1>8, SharedFrame DEF UpsChanges, apiVars, tickVars
  <2>9. CASE \E l \in Loads : UpsmonShutdown(l) \/ PoweredOff(l) \/ Booted(l) \/ Operator(l)
    BY <2>9, <2>a, <1>8, SharedFrame DEF UpsmonShutdown, PoweredOff, Booted, Operator, Turn, apiVars, tickVars
  <2> QED BY <1>8, <2>1, <2>2, <2>3, <2>4, <2>5, <2>6, <2>7, <2>8, <2>9 DEF Otherwise, Tick
<1> QED BY <1>1, <1>2, <1>3, <1>4, <1>5, <1>6, <1>7, <1>8 DEF SharedNext

(* However the pod restarts, no tick plans to power on a load whose caller *)
(* asks within every Gap for it to be left alone, if the grace is longer   *)
(* than Gap and the time between a tick's two looks, until the caller has  *)
(* asked in vain because the listener of this run failed (startPowerAPI).  *)
THEOREM CallerIsAlwaysHeeded == SharedSpec => []CallerIsHeeded
<1>1. SharedInv => CallerIsHeeded
  BY DEF SharedInv
<1> QED BY <1>1, SharedStart, SharedStep, PTL DEF SharedSpec
=============================================================================
