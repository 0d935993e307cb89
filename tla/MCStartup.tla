----------------------------- MODULE MCStartup -----------------------------
(* A complete configuration - a local and a remote UPS, two chassis and a  *)
(* server, the power API - and files that differ from it in one place.     *)
EXTENDS Startup

AllNames == {"upsA", "upsB", "bc1", "bc2", "p1"}
AllVars  == {"ADMIN", "SNMP", "P1", "TOKEN"}

UPS(d) == [address |-> TRUE, shedRuntime |-> 600, shedChargePct |-> 0, recoverChargePct |-> 5,
           driver |-> d]
Blades(k) == [type |-> "chassis", governedBy |-> {"upsA"}, cmcHost |-> TRUE, hostKey |-> k,
              wake |-> FALSE, probe |-> FALSE, secondaryUser |-> FALSE, passwordEnv |-> ""]
Proxmox == [type |-> "nut-server", governedBy |-> {"upsA", "upsB"}, cmcHost |-> FALSE, hostKey |-> "",
            wake |-> TRUE, probe |-> TRUE, secondaryUser |-> TRUE, passwordEnv |-> "P1"]

Full ==
  [pollInterval |-> 30, startupGrace |-> {}, dryRun |-> FALSE,
   powerAPI |-> {[listen |-> TRUE, tokenEnv |-> "TOKEN", loads |-> {"p1"}, requestTTL |-> {}]},
   localUpsd |-> [listen |-> "any", adminUser |-> TRUE, adminPasswordEnv |-> "ADMIN"],
   upses |-> [u \in {"upsA", "upsB"} |->
                UPS(IF u = "upsA" THEN {[complete |-> TRUE, secretOptions |-> {"SNMP"}]} ELSE {})],
   loads |-> [l \in {"bc1", "bc2", "p1"} |->
                CASE l = "bc1" -> Blades("k1") [] l = "bc2" -> Blades("") [] l = "p1" -> Proxmox]]

(* Only chassis, and UPSes read from elsewhere.                            *)
ChassisOnly ==
  [Full EXCEPT !.powerAPI = {}, !.upses = [u \in {"upsA"} |-> UPS({})],
               !.loads = [l \in {"bc1"} |-> Blades("k1")],
               !.localUpsd = [listen |-> "", adminUser |-> FALSE, adminPasswordEnv |-> ""]]

(* What validate has to keep out.                                          *)
Invalid ==
  {[Full EXCEPT !.pollInterval = 0],
   [Full EXCEPT !.startupGrace = {-1}],
   [Full EXCEPT !.loads["p1"].governedBy = {"upsA", "bc1"}],
   [Full EXCEPT !.loads["p1"].governedBy = {}],
   [Full EXCEPT !.loads["p1"].type = "other"],
   [Full EXCEPT !.localUpsd.listen = ""],
   [Full EXCEPT !.localUpsd.adminUser = FALSE],
   [Full EXCEPT !.powerAPI = {[listen |-> TRUE, tokenEnv |-> "TOKEN", loads |-> {"upsA"}, requestTTL |-> {}]}],
   [Full EXCEPT !.powerAPI = {[listen |-> TRUE, tokenEnv |-> "TOKEN", loads |-> {}, requestTTL |-> {-1}]}]}

Valid ==
  {Full, ChassisOnly, [ChassisOnly EXCEPT !.localUpsd.listen = "any"],
   [Full EXCEPT !.dryRun = TRUE],
   [Full EXCEPT !.powerAPI = {}, !.startupGrace = {0}],
   [Full EXCEPT !.loads["bc2"].hostKey = "k2"],
   [Full EXCEPT !.loads["bc1"].hostKey = "garbage"],
   [Full EXCEPT !.localUpsd.listen = "malformed"],
   [Full EXCEPT !.localUpsd.listen = "node"],
   [Full EXCEPT !.upses["upsB"].shedRuntime = 1]}

Files == Invalid \cup Valid

Environment(missing, broken, key) ==
  [secrets |-> [v \in AllVars |-> CASE v \in missing -> "" [] v \in broken \ missing -> "lines"
                                    [] v = "ADMIN" -> "pw1" [] OTHER -> "pw2"],
   sshKey |-> key]

Environments ==
  {Environment({}, {}, "pem"), Environment({}, {}, "escaped"), Environment({}, {}, "garbage"),
   Environment({"TOKEN"}, {}, "pem"), Environment({"P1"}, {}, "pem"), Environment({}, {"SNMP"}, "pem"),
   Environment({}, {"ADMIN"}, "")}
=============================================================================
