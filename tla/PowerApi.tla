------------------------------ MODULE PowerApi ------------------------------
(***************************************************************************)
(* Package internal/powerapi: the HTTP endpoint through which an external  *)
(* controller (energy-watchdog) states the power it wants for a load and   *)
(* reads back what nut-dog last probed.  Each operation runs under the     *)
(* server's mutex and is one step.                                         *)
(*                                                                         *)
(* Instants are kept as ages.  The code only ever uses now().Sub(at), so a *)
(* stored instant is represented by the time that has passed since, and    *)
(* ApiClock ages every entry.  An age is saturated at the bound from which *)
(* on no operation can tell it from a larger one.                          *)
(***************************************************************************)
EXTENDS Control

CONSTANTS Loads,       \* every configured load
          ApiLoads,    \* the loads listed under powerAPI.loads
          RequestTTL,  \* powerAPI.requestTTL in clock units; 0 never expires
          ObsAgeCap    \* bound: observation ages are saturated here

ASSUME ApiAssumption == /\ ApiLoads \subseteq Loads
                        /\ RequestTTL \in Nat
                        /\ ObsAgeCap \in Nat

VARIABLES want,  \* Server.want: the standing request of each load
          seen   \* Server.seen: the last published observation of each load

apiVars == <<want, seen>>

(* A load without a map entry has the request "none" / the flag ok FALSE.  *)
NoEntry       == [req |-> "none", age |-> 0]
NoObservation == [ok |-> FALSE, state |-> "unknown", age |-> 0]

Entry       == [req: Request, age: 0..RequestTTL]
Observation == [ok: BOOLEAN, state: ActualState, age: 0..ObsAgeCap]

ApiTypeOK == /\ want \in [Loads -> Entry]
             /\ seen \in [ApiLoads -> Observation]

New == /\ want = [l \in Loads |-> NoEntry]
       /\ seen = [l \in ApiLoads |-> NoObservation]

NewServer == /\ want' = [l \in Loads |-> NoEntry]
             /\ seen' = [l \in ApiLoads |-> NoObservation]

(* The wire vocabulary; "malformed" is every body that does not decode to  *)
(* one of the three words.                                                 *)
requestByName == {"on", "off", "hold"}
Body          == requestByName \cup {"malformed"}

(* The status handlePower answers; the checks are made in this order.      *)
PowerStatus(authorised, l, body) ==
  CASE ~authorised                                             -> 401
    [] authorised /\ l \notin ApiLoads                         -> 404
    [] authorised /\ l \in ApiLoads /\ body \notin requestByName -> 400
    [] OTHER                                                   -> 204

(* A request that is refused changes nothing; an accepted one replaces the *)
(* entry and its instant, whether or not it differs from the last.         *)
handlePower(authorised, l, body) ==
  /\ PowerStatus(authorised, l, body) = 204
  /\ want' = [want EXCEPT ![l] = [req |-> body, age |-> 0]]
  /\ seen' = seen

(* Every load is published; handleState serves those of ApiLoads only, so  *)
(* the observations of the others are not kept here.                       *)
PublishActual(actual) ==
  /\ seen' = [l \in ApiLoads |-> [ok |-> TRUE, state |-> actual[l], age |-> 0]]
  /\ want' = want

(* The same when the mutex was awaited: the instant is taken before it.    *)
PublishAged(actual, age) ==
  /\ seen' = [l \in ApiLoads |-> [ok |-> TRUE, state |-> actual[l], age |-> age]]
  /\ want' = want

(* Mutant: a hold never expires.                                           *)
expiredButHold(l) == RequestTTL > 0 /\ want[l].req # "hold" /\ want[l].age >= RequestTTL

expired(l) == RequestTTL > 0 /\ want[l].age >= RequestTTL

(* Desired drops the expired entries and returns the requests that remain. *)
Live(l)    == IF expired(l) THEN "none" ELSE want[l].req
DropExpired ==
  /\ want' = [l \in Loads |-> IF expired(l) THEN NoEntry ELSE want[l]]
  /\ seen' = seen

(* Desired judges each entry by the clock of the moment it looks at it.    *)
Expire(l) ==
  /\ want[l].req # "none" /\ expired(l)
  /\ want' = [want EXCEPT ![l] = NoEntry]
  /\ seen' = seen

(* What an authorised GET of the load's state is answered.                 *)
handleState(l) == [actual |-> seen[l].state, age |-> seen[l].age]

Older(n, cap) == IF n < cap THEN n + 1 ELSE n

ApiClock ==
  /\ want' = [l \in Loads |-> IF want[l].req = "none" THEN want[l]
                              ELSE [want[l] EXCEPT !.age = Older(@, RequestTTL)]]
  /\ seen' = [l \in ApiLoads |-> IF seen[l].ok
                                 THEN [seen[l] EXCEPT !.age = Older(@, ObsAgeCap)]
                                 ELSE seen[l]]

-----------------------------------------------------------------------------
(* What the API promises by itself: an accepted request replaces the entry *)
(* and its instant, and only expiry and a restart take it away; what is    *)
(* served is one whole publication.  PowerServer implements this.          *)
ApiNext ==
  \/ NewServer
  \/ ApiClock
  \/ \E l \in Loads, body \in Body : handlePower(TRUE, l, body)
  \/ \E l \in Loads : Expire(l)
  \/ \E actual \in [Loads -> ActualState], age \in 0..ObsAgeCap : PublishAged(actual, age)

ApiSpec == New /\ [][ApiNext]_apiVars
=============================================================================
