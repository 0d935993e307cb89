------------------------------ MODULE Guardian ------------------------------
(***************************************************************************)
(* What nut-dog promises the loads it guards, whatever it does to keep the *)
(* promise: on what grounds a shed signal is raised or dropped and a load  *)
(* powered on or off, and how every server's signal has to stand when a    *)
(* round is over.  How the plan is found - thresholds, readings, probes,   *)
(* retries, the order of it all - is up to the implementation.             *)
(***************************************************************************)
CONSTANTS UPS, Loads,
          ApiLoads,    \* the loads whose power a caller may ask for
          Servers,     \* the loads that are told to shut down by a signal
          GovernedBy,  \* the UPSes that govern each load
          DryRun       \* nothing is ever done to a load

VARIABLES
  power,         \* the power state of each load
  told,          \* the servers whose shed signal is raised
  restored,      \* the UPSes that are restored now
  critical,      \* the UPSes that are critical now
  wanted,        \* the standing request of each load
  phase,         \* away, starting, idle, look, decide or act
  sawRestored,   \* the UPSes a look of this round found restored
  sawCritical,   \* the UPSes a look of this round found critical
  asked,         \* the requests this round goes by
  plan,          \* what is still to be done to each load in this round
  failed         \* the loads an effect was lost on in this round

world == <<power, told, restored, critical>>
found == <<sawRestored, sawCritical, asked>>
round == <<found, plan, failed>>
vars  == <<power, told, restored, critical, wanted, phase,
           sawRestored, sawCritical, asked, plan, failed>>

NoRequests == [l \in Loads |-> "none"]

Forget == /\ sawRestored' = {} /\ sawCritical' = {} /\ asked' = NoRequests
          /\ plan' = [l \in Loads |-> {}] /\ failed' = {}

Init ==
  /\ power \in [Loads -> {"off", "on"}] /\ told = {}
  /\ restored \in SUBSET UPS /\ critical \in SUBSET (UPS \ restored)
  /\ wanted = NoRequests /\ phase = "away"
  /\ sawRestored = {} /\ sawCritical = {} /\ asked = NoRequests
  /\ plan = [l \in Loads |-> {}] /\ failed = {}

-----------------------------------------------------------------------------
(* The process.  A start drops every signal, and whatever it forgets is    *)
(* gone; the packet it sends an up server is not told apart from somebody  *)
(* else's hand on the switch.                                              *)

Boot == /\ phase = "away" /\ phase' = "starting" /\ told' = {}
        /\ UNCHANGED <<power, restored, critical, wanted, round>>

Serve == phase = "starting" /\ phase' = "idle" /\ UNCHANGED <<world, wanted, round>>

Die == /\ phase # "away" /\ phase' = "away" /\ wanted' = NoRequests /\ Forget
       /\ UNCHANGED world

-----------------------------------------------------------------------------
(* A round looks at UPSes, reads the requests, and acts on the two.        *)

StartRound == phase = "idle" /\ phase' = "look" /\ Forget /\ UNCHANGED <<world, wanted>>

(* A look at a UPS finds it as it is, or fails and finds nothing.          *)
Look(u) ==
  /\ phase = "look"
  /\ \E got \in {{u}, {}} :
       /\ sawRestored' = (sawRestored \ {u}) \cup (got \cap restored)
       /\ sawCritical' = (sawCritical \ {u}) \cup (got \cap critical)
  /\ UNCHANGED <<world, wanted, phase, asked, plan, failed>>

(* Requests may lapse; the round goes by those that stand.                 *)
ReadRequests ==
  /\ phase = "look" /\ phase' = "decide"
  /\ \E lapsed \in SUBSET ApiLoads :
       wanted' = [l \in Loads |-> IF l \in lapsed THEN "none" ELSE wanted[l]]
  /\ asked' = wanted'
  /\ UNCHANGED <<world, sawRestored, sawCritical, plan, failed>>

(* The only two grounds there are to act on a load, and the actions each   *)
(* is good for.                                                            *)
MustGo(l)    == GovernedBy[l] \cap sawCritical # {} \/ asked[l] = "off"
MayReturn(l) == GovernedBy[l] \subseteq sawRestored /\ asked[l] \in {"none", "on"}

Sheds(l)   == IF l \in Servers THEN {"AssertServerShed"} ELSE {"ChassisShutdown"}
Returns(l) == IF l \in Servers THEN {"ReleaseServerShed", "WakeServer"}
                               ELSE {"ChassisPowerUp"}

Resolve ==
  /\ phase = "decide" /\ phase' = "act"
  /\ plan' \in [Loads -> UNION {(SUBSET Sheds(l)) \cup (SUBSET Returns(l)) : l \in Loads}]
  /\ \A l \in Loads : \/ plan'[l] = {}
                      \/ MustGo(l) /\ plan'[l] \subseteq Sheds(l)
                      \/ MayReturn(l) /\ plan'[l] \subseteq Returns(l)
  /\ UNCHANGED <<world, wanted, found, failed>>

(* What comes of an action that reaches its load.  A server is not woken   *)
(* only for its own signal to shut it down again.                          *)
Effect(l, k) ==
  \/ k = "AssertServerShed" /\ told' = told \cup {l} /\ power' = power
  \/ k = "ReleaseServerShed" /\ told' = told \ {l} /\ power' = power
  \/ /\ k = "ChassisShutdown" /\ told' = told
     /\ power' = [power EXCEPT ![l] = IF @ = "off" THEN @ ELSE "stopping"]
  \/ /\ k \in {"WakeServer", "ChassisPowerUp"} /\ told' = told
     /\ l \notin told \ failed
     /\ power' = [power EXCEPT ![l] = IF @ = "off" THEN "starting" ELSE @]

(* An action is carried out or lost; in a dry run it is passed over.       *)
Act(l, k) ==
  /\ phase = "act" /\ k \in plan[l] /\ plan' = [plan EXCEPT ![l] = @ \ {k}]
  /\ \/ ~DryRun /\ Effect(l, k) /\ failed' = failed
     \/ ~DryRun /\ failed' = failed \cup {l} /\ UNCHANGED <<power, told>>
     \/ DryRun /\ UNCHANGED <<power, told, failed>>
  /\ UNCHANGED <<restored, critical, wanted, phase, found>>

(* A round is over when all is done and every server's signal stands as    *)
(* the round calls for, those apart on which an effect was lost.           *)
EndRound ==
  /\ phase = "act" /\ phase' = "idle" /\ Forget
  /\ \A l \in Loads : plan[l] = {}
  /\ ~DryRun => \A l \in Servers \ failed : /\ MustGo(l) => l \in told
                                            /\ MayReturn(l) => l \notin told
  /\ UNCHANGED <<world, wanted>>

-----------------------------------------------------------------------------
(* The world.                                                              *)

UpsMoves == /\ UNCHANGED <<phase, power, told, wanted, round>>
            /\ restored' \in SUBSET UPS /\ critical' \in SUBSET (UPS \ restored')

Ask(l, r) == /\ phase \in {"idle", "look", "decide", "act"}
             /\ wanted' = [wanted EXCEPT ![l] = r]
             /\ UNCHANGED <<world, phase, round>>

(* A load boots or shuts down, by itself, by hand or because it is told.   *)
Turns == {<<"off", "starting">>, <<"starting", "on">>,
          <<"on", "stopping">>, <<"stopping", "off">>}

LoadMoves(l) ==
  /\ \E t \in Turns : power[l] = t[1] /\ power' = [power EXCEPT ![l] = t[2]]
  /\ UNCHANGED <<told, restored, critical, wanted, phase, round>>

Next ==
  \/ UpsMoves
  \/ \E l \in Loads : \/ LoadMoves(l)
                      \/ \E k \in Sheds(l) \cup Returns(l) : Act(l, k)
  \/ \E l \in ApiLoads, r \in {"on", "off", "hold"} : Ask(l, r)
  \/ \E u \in UPS : Look(u)
  \/ Boot \/ Serve \/ Die \/ StartRound \/ ReadRequests \/ Resolve \/ EndRound

Spec == Init /\ [][Next]_vars
=============================================================================
