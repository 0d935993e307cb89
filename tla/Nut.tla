-------------------------------- MODULE Nut --------------------------------
(***************************************************************************)
(* Package internal/nut: how a NUT server's variables become Telemetry.    *)
(*                                                                         *)
(* A variable set keeps the three variables the controller acts on.        *)
(* hasStatus says whether ups.status is present at all, status is its set  *)
(* of tokens, and battery.runtime / battery.charge are optional: the empty *)
(* set stands for a variable that is absent or that strconv.Atoi rejects   *)
(* ("n/a", but also "87.5"), a singleton for the integer it parses to.     *)
(***************************************************************************)
EXTENDS Integers

Flag == {"OL", "OB", "LB", "FSD"}

IsVars(v) == /\ DOMAIN v = {"hasStatus", "status", "runtime", "charge"}
             /\ v.hasStatus \in BOOLEAN
             /\ v.status \subseteq Flag
             /\ v.runtime = {} \/ \E n \in v.runtime : n \in Int /\ v.runtime = {n}
             /\ v.charge = {} \/ \E n \in v.charge : n \in Int /\ v.charge = {n}

Atoi(opt) == IF opt = {} THEN -1 ELSE CHOOSE n \in opt : TRUE

(* parseStatus is folded in: only OL, OB and LB are kept, and they keep    *)
(* their zero value when ups.status is absent.                             *)
TelemetryFromVars(v) ==
  [ok         |-> v.hasStatus,
   onLine     |-> v.hasStatus /\ "OL" \in v.status,
   onBattery  |-> v.hasStatus /\ "OB" \in v.status,
   lowBattery |-> v.hasStatus /\ "LB" \in v.status,
   runtime    |-> Atoi(v.runtime),
   charge     |-> Atoi(v.charge)]
=============================================================================
