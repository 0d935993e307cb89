--------------------------- MODULE MCPowerServer ---------------------------
(***************************************************************************)
(* Two handlers and the loop; two loads, of which the API controls one or  *)
(* both.                                                                   *)
(***************************************************************************)
EXTENDS PowerServer, TLC

CONSTANTS p1, p2, h1, h2
TwoLoads    == {p1, p2}
OneLoad     == {p1}
TwoHandlers == {h1, h2}
Symmetry    == Permutations(TwoHandlers)
OffAndHold  == {"off", "hold"}
OnlyOff     == {"off"}
UpOrUnknown == {"up", "unknown"}
OnlyUnknown == {"unknown"}
=============================================================================
