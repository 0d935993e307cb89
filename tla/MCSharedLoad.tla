---------------------------- MODULE MCSharedLoad ----------------------------
(***************************************************************************)
(* A server shared with a caller that speaks at least every clock unit.    *)
(***************************************************************************)
EXTENDS SharedLoad

TheServer   == {"p1"}
TheOrder    == <<"p1">>
TheUPS      == {"u1"}
TheUPSOrder == <<"u1">>
ServerType  == [l \in TheServer |-> "nut-server"]
ByUPS       == [l \in TheServer |-> TheUPS]
Config      == [u \in TheUPS |-> [shedRuntime |-> 5, shedCharge |-> 0, recoverCharge |-> 8]]

Good  == [hasStatus |-> TRUE, status |-> {"OL"}, runtime |-> {9}, charge |-> {8}]
Floor == [hasStatus |-> TRUE, status |-> {"OB"}, runtime |-> {5}, charge |-> {9}]
TwoReadings == {Good, Floor}
=============================================================================
