----------------------------- MODULE MCMetrics -----------------------------
(* One UPS over a server or a chassis.                                     *)
EXTENDS Metrics

TheUPSes == <<"ups">>
TheServer  == <<"p1">>
TheChassis == <<"bc1">>
TheTypes == [l \in {"bc1", "p1"} |-> IF l = "p1" THEN "nut-server" ELSE "chassis"]
ByTheUPS == [l \in {"bc1", "p1"} |-> {"ups"}]
TheFlags == <<"OL", "OB">>
TheSpecs == <<"charge", "power">>
TheNames == [s \in {"charge", "power"} |->
               IF s = "power" THEN <<"ups.power", "output.power">> ELSE <<"battery.charge">>]

Vars(charge, ups, output) ==
  [v \in {"battery.charge", "ups.power", "output.power"} |->
     CASE v = "battery.charge" -> charge [] v = "ups.power" -> ups [] OTHER -> output]

TheReadings ==
  {[vars |-> Vars(90, 5, Absent), flags |-> {"OL"}, verdict |-> "healthy"],
   [vars |-> Vars(Absent, Malformed, -4), flags |-> {"OB"}, verdict |-> "shed"]}

NoSeries == {}
ChassisSeries == {<<"desired", "bc1">>}
=============================================================================
