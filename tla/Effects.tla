------------------------------ MODULE Effects ------------------------------
(***************************************************************************)
(* Package internal/effects and the probes of cmd/nut-dog: the values the  *)
(* controller writes to and reads back from the outside world.             *)
(*                                                                         *)
(* An ups.status string is the set of its tokens.  The output of           *)
(* `racadm getmodinfo` is the set of its Server rows, each saying whether  *)
(* the slot reads "Present" and whether its power column reads "ON"; lines *)
(* that are not Server rows are not in the set.                            *)
(***************************************************************************)

statusShed == {"OB", "LB", "FSD"}
statusOK   == {"OL"}
Signals    == {statusShed, statusOK}

ParseShedStatus(tokens) ==
  CASE "FSD" \in tokens                        -> "asserted"
    [] "FSD" \notin tokens /\ "OL" \in tokens  -> "released"
    [] OTHER                                   -> "unknown"

(* Mutant: a chassis without a powered blade is not recognised.            *)
parseChassisPowerOnOnly(rows) ==
  IF \E r \in rows : r.present /\ r.on THEN "up" ELSE "unknown"

parseChassisPower(rows) ==
  CASE rows = {}                               -> "unknown"
    [] \E r \in rows : r.present /\ r.on       -> "up"
    [] OTHER                                   -> "down"

(* How a TCP dial can end: any error that is not ECONNREFUSED is "failed". *)
DialOutcome == {"connected", "refused", "failed"}

tcpProbe(dial) ==
  CASE dial = "connected" -> "up"
    [] dial = "refused"   -> "unknown"
    [] dial = "failed"    -> "down"
=============================================================================
