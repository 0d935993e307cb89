---------------------------- MODULE MCUpsBattery ----------------------------
(* A battery that lasts 1000 s from full, and 2000 s with the load off.    *)
EXTENDS UpsBattery

(* Recovery at a full battery, and the thresholds of config.example.yaml.  *)
Careful == [shedRuntime |-> 300, shedCharge |-> 40, recoverCharge |-> 100]
Example == [shedRuntime |-> 300, shedCharge |-> 0, recoverCharge |-> 5]
Rising  == [shedRuntime |-> 300, shedCharge |-> 0, recoverCharge |-> 80]
=============================================================================
