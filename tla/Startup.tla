------------------------------ MODULE Startup ------------------------------
(***************************************************************************)
(* From config.yaml and the secrets in the environment to a running        *)
(* controller.  The entrypoint runs the binary twice: once to render the   *)
(* configuration of the pod's NUT server, which it then starts, and once   *)
(* as the controller.  Each run loads the file anew, and the ConfigMap     *)
(* behind it may be updated at any time.                                   *)
(*                                                                         *)
(* Names, addresses and passwords are values without structure; a section  *)
(* of which some required field is empty is just incomplete.  Names are    *)
(* taken to be distinct: NUT ignores a second device or user of one name.  *)
(***************************************************************************)
EXTENDS Integers

CONSTANTS Names,    \* names of UPSes and loads
          EnvVars,  \* names of environment variables
          Passwords, \* secrets of one line
          Keys,     \* SSH host keys that parse
          Configs,  \* what config.yaml may say
          Envs      \* what the environment may hold

Second == 2  \* durations are in half seconds

(* A pointer: the empty set is nil.                                        *)
Optional(o, S) == o \subseteq S /\ \A x, y \in o : x = y
EnvRef  == EnvVars \cup {""}
Listen  == {"", "malformed", "any", "loopback", "node"}
Secret  == Passwords \cup {"", "lines"}
SSHKey  == {"", "garbage", "pem", "escaped"}
HostKey == Keys \cup {"", "garbage"}
Types   == {"chassis", "nut-server", "other"}

(* The structs of package config.                                          *)
PowerAPISpec  == [listen: BOOLEAN, tokenEnv: EnvRef, loads: SUBSET Names, requestTTL: SUBSET Int]
LocalUpsdSpec == [listen: Listen, adminUser: BOOLEAN, adminPasswordEnv: EnvRef]
DriverSpec    == [complete: BOOLEAN, secretOptions: SUBSET EnvRef]
UPSSpec       == [address: BOOLEAN, shedRuntime: Int, shedChargePct: Int, recoverChargePct: Int,
                  driver: SUBSET DriverSpec]
LoadSpec      == [type: Types, governedBy: SUBSET Names, cmcHost: BOOLEAN, hostKey: HostKey,
                  wake: BOOLEAN, probe: BOOLEAN, secondaryUser: BOOLEAN, passwordEnv: EnvRef]

Fields == {"pollInterval", "startupGrace", "dryRun", "powerAPI", "localUpsd", "upses", "loads"}

IsConfig(c) ==
  /\ DOMAIN c = Fields
  /\ c.pollInterval \in Int /\ Optional(c.startupGrace, Int) /\ c.dryRun \in BOOLEAN
  /\ Optional(c.powerAPI, PowerAPISpec)
  /\ \A p \in c.powerAPI : Optional(p.requestTTL, Int)
  /\ c.localUpsd \in LocalUpsdSpec
  /\ DOMAIN c.upses \subseteq Names /\ \A u \in DOMAIN c.upses : c.upses[u] \in UPSSpec
  /\ DOMAIN c.loads \subseteq Names /\ \A l \in DOMAIN c.loads : c.loads[l] \in LoadSpec

ASSUME StartupAssumption ==
  /\ \A c \in Configs : IsConfig(c)
  /\ \A e \in Envs : e.secrets \in [EnvVars -> Secret] /\ e.sshKey \in SSHKey

VARIABLES
  file,    \* config.yaml as it is now
  env,     \* the environment of the container
  pc,      \* where the entrypoint is
  nut,     \* {} or the configuration upsd runs on, with the file it came from
  cfg,     \* {} or the controller's cfg
  runner,  \* {} or the key the chassis runner pins ("" for none)
  refused  \* history: {} or the accepted file that was last not rendered

startVars == <<file, env, pc, nut, cfg, runner, refused>>

PC == {"render", "upsd", "load", "ssh", "preflight", "api", "running"}
Controller == {"ssh", "preflight", "api", "running"}

-----------------------------------------------------------------------------
(* Package config.                                                         *)

Chassis(c)    == {l \in DOMAIN c.loads : c.loads[l].type = "chassis"}
nutServers(c) == {l \in DOMAIN c.loads : c.loads[l].type = "nut-server"}
hasLocalDriver(c) == \E u \in DOMAIN c.upses : c.upses[u].driver # {}

Default(o, d) == IF o = {} THEN {d} ELSE o

(* Mutant: the defaults are left to whoever reads the pointers.            *)
NoDefaults(c) == c

Defaults(c) ==
  [c EXCEPT !.startupGrace = Default(@, 180 * Second),
            !.powerAPI = {[p EXCEPT !.requestTTL = Default(@, 36000 * Second)] : p \in @}]

(* Mutant: governedBy is not looked up.                                    *)
ValidLoadUnresolved(c, l) ==
  /\ \/ l.type = "chassis" /\ l.cmcHost
     \/ l.type = "nut-server" /\ l.wake /\ l.probe /\ l.secondaryUser /\ l.passwordEnv # ""
  /\ l.governedBy # {}

ValidLoad(c, l) ==
  /\ \/ l.type = "chassis" /\ l.cmcHost
     \/ l.type = "nut-server" /\ l.wake /\ l.probe /\ l.secondaryUser /\ l.passwordEnv # ""
  /\ l.governedBy # {} /\ l.governedBy \subseteq DOMAIN c.upses

ValidUPS(u) ==
  u.address /\ u.shedRuntime > 0 /\ \A d \in u.driver : d.complete

ValidAPI(c, p) ==
  /\ p.listen /\ p.tokenEnv # "" /\ \A t \in p.requestTTL : t >= 0
  /\ p.loads \subseteq DOMAIN c.loads

validate(c) ==
  /\ c.pollInterval > 0 /\ DOMAIN c.upses # {}
  /\ \A g \in c.startupGrace : g >= 0
  /\ \A p \in c.powerAPI : ValidAPI(c, p)
  /\ \A u \in DOMAIN c.upses : ValidUPS(c.upses[u])
  /\ \A l \in DOMAIN c.loads : ValidLoad(c, c.loads[l])
  /\ nutServers(c) # {} \/ hasLocalDriver(c) => c.localUpsd.listen # ""
  /\ nutServers(c) # {} => c.localUpsd.adminUser /\ c.localUpsd.adminPasswordEnv # ""

(* The configuration of the core: runtimes in whole seconds.               *)
ControlUPS(c) ==
  [u \in DOMAIN c.upses |-> [shedRuntime   |-> c.upses[u].shedRuntime \div Second,
                             shedCharge    |-> c.upses[u].shedChargePct,
                             recoverCharge |-> c.upses[u].recoverChargePct]]

ControlLoads(c) ==
  [l \in DOMAIN c.loads |-> [type       |-> IF c.loads[l].type = "nut-server" THEN "nut-server" ELSE "chassis",
                             governedBy |-> c.loads[l].governedBy]]

-----------------------------------------------------------------------------
(* Package nutconf.                                                        *)

Getenv(v) == IF v = "" THEN "" ELSE env.secrets[v]

(* Mutant: whatever is not empty is rendered.                              *)
ResolvesNonEmpty(v) == Getenv(v) # ""

(* resolveSecret succeeds.                                                 *)
Resolves(v) == Getenv(v) \in Passwords

DriverSecrets(c) == UNION {d.secretOptions : d \in UNION {c.upses[u].driver : u \in DOMAIN c.upses}}
UserSecrets(c)   == {c.loads[l].passwordEnv : l \in nutServers(c)} \cup
                    IF c.localUpsd.adminUser THEN {c.localUpsd.adminPasswordEnv} ELSE {}

SecretsThere(c) == \A v \in DriverSecrets(c) \cup UserSecrets(c) : Resolves(v)

(* Render succeeds: the secrets are there, and net.SplitHostPort finds an  *)
(* address.                                                                *)
Renders(c) == SecretsThere(c) /\ c.localUpsd.listen \notin {"", "malformed"}

shedSection(l)  == [driver |-> "dummy-ups", name |-> l]
localSection(u) == [driver |-> "local", name |-> u]

renderUpsConf(c) ==
  {localSection(u) : u \in {n \in DOMAIN c.upses : c.upses[n].driver # {}}}
    \cup {shedSection(l) : l \in nutServers(c)}

(* Mutant: the admin logs in but may not set anything.                     *)
renderAdminPowerless(c) ==
  IF c.localUpsd.adminUser
  THEN {[user |-> "admin", password |-> Getenv(c.localUpsd.adminPasswordEnv), may |-> "nothing"]}
  ELSE {}

renderAdmin(c) ==
  IF c.localUpsd.adminUser
  THEN {[user |-> "admin", password |-> Getenv(c.localUpsd.adminPasswordEnv), may |-> "SET"]}
  ELSE {}

renderUpsdUsers(c) ==
  renderAdmin(c) \cup
  {[user |-> l, password |-> Getenv(c.loads[l].passwordEnv), may |-> "upsmon"] : l \in nutServers(c)}

Render(c) ==
  [from |-> c, listen |-> c.localUpsd.listen, upsConf |-> renderUpsConf(c),
   secrets |-> {Getenv(v) : v \in DriverSecrets(c)}, users |-> renderUpsdUsers(c)]

-----------------------------------------------------------------------------
(* The entrypoint (set -e: whatever fails stops the container, unless it   *)
(* says otherwise) and main.  A container that stopped is started again,   *)
(* with nothing left of the files and with the environment of that moment. *)

Stop ==
  /\ pc' = "render" /\ env' \in Envs
  /\ nut' = {} /\ cfg' = {} /\ runner' = {}

Goto(p) == pc' = p /\ env' = env

(* nut-dog -render-nut: Load, Render, WriteFiles.                          *)
RenderNut ==
  /\ pc = "render"
  /\ LET c == Defaults(file)
     IN \/ validate(c) /\ Renders(c) /\ Goto("upsd") /\ nut' = {Render(c)}
           /\ refused' = {} /\ UNCHANGED <<cfg, runner>>
        \/ Stop /\ refused' = IF validate(c) /\ ~Renders(c) /\ SecretsThere(c) THEN {c} ELSE {}
  /\ UNCHANGED file

(* The drivers may fail, upsd may not.                                     *)
StartUpsd ==
  /\ pc = "upsd"
  /\ \/ Goto("load") /\ UNCHANGED <<nut, cfg, runner>>
     \/ Stop
  /\ UNCHANGED <<file, refused>>

Load ==
  /\ pc = "load"
  /\ IF validate(Defaults(file))
     THEN Goto("ssh") /\ cfg' = {Defaults(file)} /\ UNCHANGED <<nut, runner>>
     ELSE Stop
  /\ UNCHANGED <<file, refused>>

(* What cmcHostKey may return: a map is ranged over in any order.          *)
cmcHostKey(c) ==
  LET pins == {c.loads[l].hostKey : l \in Chassis(c)} \ {""}
  IN IF pins = {} THEN {""} ELSE pins

NewSSHRunner(key) == env.sshKey \in {"pem", "escaped"} /\ key \in Keys \cup {""}

(* Mutant: no runner is no reason to stop.                                 *)
SetupSSHLenient(c) ==
  IF Chassis(c) = {} THEN Goto("preflight") /\ UNCHANGED <<nut, cfg, runner>>
  ELSE \E key \in cmcHostKey(c) :
         /\ Goto("preflight") /\ UNCHANGED <<nut, cfg>>
         /\ runner' = IF NewSSHRunner(key) THEN {key} ELSE {}

(* Without a runner an armed controller with chassis to shed stops; in a   *)
(* dry run it goes on for the telemetry.                                   *)
SetupSSH(c) ==
  IF Chassis(c) = {} THEN Goto("preflight") /\ UNCHANGED <<nut, cfg, runner>>
  ELSE \E key \in cmcHostKey(c) :
         IF NewSSHRunner(key) \/ c.dryRun
         THEN /\ Goto("preflight") /\ UNCHANGED <<nut, cfg>>
              /\ runner' = IF NewSSHRunner(key) THEN {key} ELSE {}
         ELSE Stop

(* wireLoads, the shedder and its reader: each server's shed signal is     *)
(* looked for under the derived name on the pod's own upsd.                *)
shedUps(c) == {shedSection(l) : l \in nutServers(c)}
Login(c)   == [user |-> "admin", password |-> Getenv(c.localUpsd.adminPasswordEnv), may |-> "SET"]

(* preflight reports and changes nothing here.                             *)
Preflight ==
  /\ pc = "preflight" /\ Goto("api")
  /\ UNCHANGED <<file, nut, cfg, runner, refused>>

TokenSet(c) == \A p \in c.powerAPI : Getenv(p.tokenEnv) # ""

StartPowerAPI(c) ==
  IF TokenSet(c) THEN Goto("running") /\ UNCHANGED <<nut, cfg, runner>> ELSE Stop

Wire ==
  /\ \E c \in cfg : \/ pc = "ssh" /\ SetupSSH(c)
                    \/ pc = "api" /\ StartPowerAPI(c)
  /\ UNCHANGED <<file, refused>>

Crash == Stop /\ UNCHANGED <<file, refused>>

(* Somebody updates the ConfigMap.                                         *)
Edit == file' \in Configs /\ UNCHANGED <<env, pc, nut, cfg, runner, refused>>

Init ==
  /\ file \in Configs /\ env \in Envs
  /\ pc = "render" /\ nut = {} /\ cfg = {} /\ runner = {} /\ refused = {}

Next == RenderNut \/ StartUpsd \/ Load \/ Wire \/ Preflight \/ Crash \/ Edit

Spec == Init /\ [][Next]_startVars

-----------------------------------------------------------------------------
TypeOK ==
  /\ file \in Configs /\ env \in Envs /\ pc \in PC
  /\ \A m, n \in nut : m = n
  /\ cfg # {} <=> pc \in Controller
  /\ \A c, d \in cfg : c = d
  /\ \A c \in cfg : /\ IsConfig(c) /\ c.startupGrace # {}
                    /\ \A p \in c.powerAPI : p.requestTTL # {}
  /\ Optional(runner, HostKey)

(* What the other modules assume of a configuration (ConfigAssumption and  *)
(* ApiAssumption, and thresholds in Nat) holds of whatever the controller  *)
(* starts on: validate has let nothing else through.                       *)
AssumptionsHold ==
  \A c \in cfg :
    /\ DOMAIN ControlLoads(c) = DOMAIN c.loads /\ DOMAIN ControlUPS(c) = DOMAIN c.upses
    /\ \A l \in DOMAIN c.loads :
         /\ ControlLoads(c)[l].type = c.loads[l].type
         /\ ControlLoads(c)[l].governedBy \in (SUBSET DOMAIN ControlUPS(c)) \ {{}}
    /\ \A u \in DOMAIN c.upses : ControlUPS(c)[u].shedRuntime \in Nat
    /\ c.startupGrace # {} /\ c.startupGrace \subseteq Nat
    /\ \A p \in c.powerAPI : /\ p.loads \subseteq DOMAIN ControlLoads(c)
                            /\ p.requestTTL # {} /\ p.requestTTL \subseteq Nat

(* Unless the file was changed between the two times it was loaded, every  *)
(* server the controller may shed has its signal on the NUT server, the    *)
(* controller's login may set it, and the server's upsmon may watch it.    *)
ShedWired ==
  \A c \in cfg, n \in nut :
    n.from = c => /\ shedUps(c) \subseteq n.upsConf
                  /\ nutServers(c) # {} => Login(c) \in n.users
                  /\ \A l \in nutServers(c) :
                       \E x \in n.users : x.user = l /\ x.may = "upsmon"

(* No secret that is empty or breaks the line it is written on reaches a   *)
(* file of the NUT server.                                                 *)
FilesIntact ==
  \A n \in nut : n.secrets \cup {x.password : x \in n.users} \subseteq Passwords

(* A controller that is armed has a runner for its chassis, and one that   *)
(* serves the power API has a token to ask for.                            *)
Equipped ==
  \A c \in cfg :
    /\ (pc \in {"preflight", "api", "running"} /\ Chassis(c) # {} /\ ~c.dryRun) => runner # {}
    /\ pc = "running" => \A p \in c.powerAPI : Getenv(p.tokenEnv) # ""

-----------------------------------------------------------------------------
(* What comments and messages of the code say, and the code does not.      *)

(* config: "shedRuntime must be > 0", for the floor the controller uses.   *)
FloorPositive == \A c \in cfg : \A u \in DOMAIN c.upses : ControlUPS(c)[u].shedRuntime > 0

(* config: "The local upsd only matters once something depends on it": no  *)
(* start fails for localUpsd when nothing does.                            *)
UnneededUpsdIgnored == \A c \in refused : nutServers(c) # {} \/ hasLocalDriver(c)

(* config: "HostKey pins the CMC's SSH host key": of each chassis' CMC.    *)
EachChassisItsKey ==
  \A c \in cfg, key \in runner :
    \A l \in Chassis(c) : c.loads[l].hostKey # "" => c.loads[l].hostKey = key

(* config: listen may be the node's address.  The shedder and its reader   *)
(* dial 127.0.0.1 whatever it is.                                          *)
ShedSignalReachable ==
  \A c \in cfg, n \in nut : nutServers(c) # {} /\ n.from = c => n.listen \in {"any", "loopback"}

(* config: "the single source of truth" for the control core and for what  *)
(* the pod's NUT server runs on: a server the one sheds has its signal on  *)
(* the other.  Each loads the file for itself, and it may change between.  *)
WiredDespiteEdit == \A c \in cfg, n \in nut : shedUps(c) \subseteq n.upsConf
=============================================================================
