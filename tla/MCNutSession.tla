---------------------------- MODULE MCNutSession ----------------------------
(***************************************************************************)
(* Every kind of call against every kind of server; two variables.         *)
(***************************************************************************)
EXTENDS NutSession

TheNames     == {"ups.status", "battery.charge"}
TwoVariables == <<"ups.status", "battery.charge">>
OneVariable  == <<"ups.status">>
=============================================================================
