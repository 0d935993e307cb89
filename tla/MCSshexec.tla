----------------------------- MODULE MCSshexec -----------------------------
(* A plan over two chassis with a server between them.                     *)
EXTENDS Sshexec

CONSTANTS c1, c2, s

AllLoads   == {c1, c2, s}
TheChassis == {c1, c2}
ThePlan    == <<c1, s, c2>>
=============================================================================
