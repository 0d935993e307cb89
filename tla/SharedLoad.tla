----------------------------- MODULE SharedLoad -----------------------------
(***************************************************************************)
(* A load shared with an external controller that wants it left alone      *)
(* (energy-watchdog: "off" or "hold") and says so over the power API in    *)
(* every tick of its own.  Requests are in memory only, so a restart of    *)
(* the pod forgets them; startupGrace is what keeps nut-dog from powering  *)
(* the load on before the caller has spoken again.  This module gives the  *)
(* caller a period and asks how long the grace has to be.                  *)
(*                                                                         *)
(* The API has a listener of its own, started in the background.  When it  *)
(* cannot listen, or stops, main logs it and goes on reconciling: the      *)
(* caller is cut off until the pod restarts.  While it listens, what the   *)
(* caller says arrives, with the right token.                              *)
(*                                                                         *)
(* The requests are read before the grace is looked at (app.go:160, 183),  *)
(* and time may pass between the two: Slack bounds it.                     *)
(***************************************************************************)
EXTENDS NutDog

CONSTANTS Gap,    \* the caller restates its wish within this time
          Slack   \* what may pass between reading the requests and the grace

ASSUME CallerAssumption ==
  /\ Gap \in Nat \ {0} /\ Slack \in Nat
  /\ StartupGrace > Gap + Slack
  /\ RequestTTL > 0 => RequestTTL > Gap

VARIABLES due,  \* time since the caller last spoke for each load
          lag,  \* time since the running tick read the requests
  api,  \* the API's listener
  cutOff  \* history: loads whose caller found the listener of this run failed

Listener == {"none", "opening", "open", "failed"}

sharedVars == <<vars, due, lag, api, cutOff>>

SharedInit ==
  /\ Init /\ due = [l \in ApiLoads |-> 0] /\ lag = 0
  /\ api = "none" /\ cutOff = {}

(* startPowerAPI returns at once; ListenAndServe binds the address in a    *)
(* goroutine, fails to, or fails later on.                                 *)
StartPowerAPI ==
  /\ Serve /\ api' = "opening"
  /\ UNCHANGED <<due, lag, cutOff>>

ListenAndServe ==
  /\ \/ api = "opening" /\ api' \in {"open", "failed"}
     \/ api = "open" /\ api' = "failed"
  /\ UNCHANGED <<vars, due, lag, cutOff>>

(* The caller speaks.  While nothing listens the attempt is lost, and the  *)
(* caller does not try again before its next tick.                         *)
Restate(l) ==
  /\ api = "open" /\ Put(l) /\ want'[l].req \in {"off", "hold"}
  /\ due' = [due EXCEPT ![l] = 0] /\ UNCHANGED <<lag, api, cutOff>>

Unheard(l) ==
  /\ api # "open"
  /\ due' = [due EXCEPT ![l] = 0]
  /\ cutOff' = IF api = "failed" THEN cutOff \cup {l} ELSE cutOff
  /\ UNCHANGED <<vars, lag, api>>

(* Binding an address takes no time that counts.                           *)
TimePasses ==
  /\ Clock /\ api # "opening"
  /\ \A l \in ApiLoads : due[l] < Gap
  /\ pc = "decide" => lag < Slack
  /\ due' = [l \in ApiLoads |-> due[l] + 1]
  /\ lag' = IF pc = "decide" THEN lag + 1 ELSE lag
  /\ UNCHANGED <<api, cutOff>>

Die == Crash /\ due' = due /\ lag' = 0 /\ api' = "none" /\ cutOff' = {}

(* Everything else that happens in NutDog.                                 *)
Otherwise ==
  \/ Boot \/ PreflightProbe \/ PreflightWake \/ Tick
  \/ \E u \in UPS : UpsChanges(u)
  \/ \E l \in Loads : \/ UpsmonShutdown(l) \/ PoweredOff(l) \/ Booted(l) \/ Operator(l)

SharedNext ==
  \/ TimePasses \/ StartPowerAPI \/ ListenAndServe \/ Die
  \/ \E l \in ApiLoads : Restate(l) \/ Unheard(l)
  \/ Otherwise /\ lag' = (IF pc' = "decide" THEN lag ELSE 0) /\ UNCHANGED <<due, api, cutOff>>

SharedSpec == SharedInit /\ [][SharedNext]_sharedVars

-----------------------------------------------------------------------------
(* The caller's and the grace's clocks stay within their bounds, and there *)
(* is a listener while the daemon serves, of which it takes no notice.     *)
SharedTypeOK ==
  /\ due \in [ApiLoads -> 0..Gap] /\ lag \in 0..Slack
  /\ api \in Listener /\ (api # "none" <=> pc \in Serving) /\ cutOff \subseteq ApiLoads

(* However often the pod restarts and wherever in a tick, no tick plans to *)
(* power on a load whose caller keeps asking for it to be left alone,      *)
(* unless the caller has tried in vain since the listener of this run of   *)
(* the daemon failed: until then the request stands whenever a tick reads  *)
(* the requests, or the grace has not passed (holdStartupWakes, Desired).  *)
CallerIsHeeded == \A l \in ApiLoads : Planned(l, PowerOnKinds) => l \in cutOff

(* main, where it exits for want of a token: continuing with the caller's  *)
(* PUTs unheard would power loads against the other controller's intent.   *)
(* It does continue when the listener fails.                               *)
NeverAgainstCaller == \A l \in ApiLoads : ~Planned(l, PowerOnKinds)
=============================================================================
