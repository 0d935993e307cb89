------------------------------ MODULE MCNutDog ------------------------------
(***************************************************************************)
(* Instances of NutDog for TLC.  The thresholds and readings are small     *)
(* numbers on the two sides of each comparison Classify makes.             *)
(***************************************************************************)
EXTENDS NutDog

Thresholds == [shedRuntime |-> 5, shedCharge |-> 2, recoverCharge |-> 8]

(* On line and recharged; on line but still below recoverCharge; on        *)
(* battery at the runtime floor; on battery, charge at the floor and no    *)
(* runtime reported; on battery with LB; on battery above every floor.     *)
Good     == [hasStatus |-> TRUE, status |-> {"OL"}, runtime |-> {9}, charge |-> {8}]
Charging == [hasStatus |-> TRUE, status |-> {"OL"}, runtime |-> {9}, charge |-> {7}]
Floor    == [hasStatus |-> TRUE, status |-> {"OB"}, runtime |-> {5}, charge |-> {9}]
Drained  == [hasStatus |-> TRUE, status |-> {"OB"}, runtime |-> {}, charge |-> {2}]
LowBatt  == [hasStatus |-> TRUE, status |-> {"OB", "LB"}, runtime |-> {9}, charge |-> {9}]
Riding   == [hasStatus |-> TRUE, status |-> {"OB"}, runtime |-> {6}, charge |-> {3}]
(* On line with a charge the parser rejects; no ups.status at all.         *)
Odd      == [hasStatus |-> TRUE, status |-> {"OL"}, runtime |-> {0}, charge |-> {}]
Mute     == [hasStatus |-> FALSE, status |-> {}, runtime |-> {0}, charge |-> {0}]

AllVars   == {Good, Charging, Floor, Drained, Riding, Odd, Mute}
HoldVars  == {Good, Floor, Riding}
FewVars   == {Good, LowBatt}

-----------------------------------------------------------------------------
(* One server behind two UPSes.                                            *)
TwoUPS      == {"u1", "u2"}
TwoUPSOrder == <<"u1", "u2">>
OneLoad     == {"p1"}
OneLoadOrder == <<"p1">>
ServerType  == [l \in {"p1"} |-> "nut-server"]
ByBoth      == [l \in {"p1"} |-> {"u1", "u2"}]
TwoConfigs  == [u \in {"u1", "u2"} |-> Thresholds]

(* A chassis and a server behind one UPS; only the server is shared.       *)
OneUPS        == {"u1"}
OneUPSOrder   == <<"u1">>
TwoLoads      == {"bc1", "p1"}
TwoLoadsOrder == <<"bc1", "p1">>
MixedTypes    == [l \in {"bc1", "p1"} |-> IF l = "bc1" THEN "chassis" ELSE "nut-server"]
ByOne         == [l \in {"bc1", "p1"} |-> {"u1"}]
OneConfig     == [u \in {"u1"} |-> Thresholds]

(* One load behind one UPS, for the liveness runs and the findings.        *)
OneChassis      == {"bc1"}
OneChassisOrder == <<"bc1">>
ChassisType     == [l \in {"bc1"} |-> "chassis"]
ServerByOne     == [l \in {"p1"} |-> {"u1"}]
ChassisByOne    == [l \in {"bc1"} |-> {"u1"}]
=============================================================================
