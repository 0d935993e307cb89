--------------------------- MODULE StartupProofs ---------------------------
(***************************************************************************)
(* Proofs about module Startup, for every set of configuration files and   *)
(* environments.                                                           *)
(*                                                                         *)
(* What the controller runs on is known through Accepted: a file that      *)
(* passed validate, with its defaults.  What upsd runs on is known through *)
(* Rendered: the secrets in the files are those of the environment, which  *)
(* lasts as long as they do.                                               *)
(***************************************************************************)
EXTENDS Startup, TLAPS

HasDefaults(c) == c.startupGrace # {} /\ \A p \in c.powerAPI : p.requestTTL # {}

Accepted == \A c \in cfg : IsConfig(c) /\ HasDefaults(c) /\ validate(c)
Rendered == \A n \in nut : n = Render(n.from) /\ Renders(n.from)

-----------------------------------------------------------------------------
(* A default makes a pointer to an integer safe to follow.                 *)
LEMMA DefaultSet ==
  ASSUME NEW o, NEW d \in Int, Optional(o, Int)
  PROVE  Optional(Default(o, d), Int) /\ Default(o, d) # {}
BY DEF Optional, Default

(* The defaults leave a configuration one.                                 *)
LEMMA DefaultsComplete ==
  ASSUME NEW c, IsConfig(c)
  PROVE  IsConfig(Defaults(c)) /\ HasDefaults(Defaults(c))
<1> DEFINE d == Defaults(c)
           api(p) == [p EXCEPT !.requestTTL = Default(@, 36000 * Second)]
<1>0. /\ DOMAIN d = Fields
      /\ d.startupGrace = Default(c.startupGrace, 180 * Second)
      /\ d.powerAPI = {api(p) : p \in c.powerAPI}
      /\ d.pollInterval = c.pollInterval /\ d.dryRun = c.dryRun /\ d.localUpsd = c.localUpsd
      /\ d.upses = c.upses /\ d.loads = c.loads
  <2>1. DOMAIN c = Fields
    BY DEF IsConfig
  <2>2. DOMAIN d = Fields
    BY <2>1 DEF Defaults
  <2>3. /\ d.startupGrace = Default(c.startupGrace, 180 * Second)
        /\ d.pollInterval = c.pollInterval /\ d.dryRun = c.dryRun /\ d.localUpsd = c.localUpsd
        /\ d.upses = c.upses /\ d.loads = c.loads
    BY <2>1 DEF Defaults, Fields
  <2>4. d.powerAPI = {api(p) : p \in c.powerAPI}
    BY <2>1 DEF Defaults, Fields
  <2> QED
    BY <2>2, <2>3, <2>4
<1>1. Optional(d.startupGrace, Int) /\ d.startupGrace # {}
  <2>1. Optional(c.startupGrace, Int) /\ 180 * Second \in Int
    BY DEF IsConfig, Second
  <2> QED
    BY <1>0, <2>1, DefaultSet
<1>2. ASSUME NEW p \in c.powerAPI
      PROVE  api(p) \in PowerAPISpec /\ Optional(api(p).requestTTL, Int) /\ api(p).requestTTL # {}
  <2>1. p \in PowerAPISpec /\ Optional(p.requestTTL, Int)
    BY <1>2 DEF IsConfig, Optional
  <2>2. /\ Optional(Default(p.requestTTL, 36000 * Second), Int)
        /\ Default(p.requestTTL, 36000 * Second) # {}
    BY <2>1, DefaultSet DEF Second
  <2>3. api(p) = [p EXCEPT !.requestTTL = Default(p.requestTTL, 36000 * Second)]
    BY <2>1 DEF PowerAPISpec
  <2>4. api(p).requestTTL = Default(p.requestTTL, 36000 * Second) /\ api(p) \in PowerAPISpec
    BY <2>1, <2>2, <2>3 DEF PowerAPISpec, Optional
  <2> QED
    BY <2>2, <2>4 DEF Optional
<1>3. Optional(d.powerAPI, PowerAPISpec)
  <2>1. \A p, q \in c.powerAPI : p = q
    BY DEF IsConfig, Optional
  <2>2. d.powerAPI \subseteq PowerAPISpec
    BY <1>0, <1>2
  <2>3. \A x, y \in d.powerAPI : x = y
    BY <1>0, <2>1
  <2> QED
    BY <2>2, <2>3 DEF Optional
<1> HIDE DEF d, api
<1> QED
  BY <1>0, <1>1, <1>2, <1>3 DEF IsConfig, HasDefaults, d

-----------------------------------------------------------------------------
(* Every variable keeps its type; no pointer of a loaded file is nil.      *)
THEOREM StartupTypeCorrect == Spec => []TypeOK
<1>1. Init => TypeOK
  BY DEF Init, TypeOK, PC, Controller, Optional
<1>2. TypeOK /\ [Next]_startVars => TypeOK'
  <2> SUFFICES ASSUME TypeOK, [Next]_startVars PROVE TypeOK'
    OBVIOUS
  <2>1. CASE Stop /\ file' = file /\ refused' = refused
    BY <2>1 DEF Stop, TypeOK, PC, Controller, Optional
  <2>2. CASE RenderNut
    <3>1. CASE Stop
      BY <2>2, <3>1 DEF RenderNut, Stop, TypeOK, PC, Controller, Optional
    <3>2. CASE ~Stop
      BY <2>2, <3>2 DEF RenderNut, Goto, TypeOK, PC, Controller
    <3> QED
      BY <3>1, <3>2
  <2>3. CASE pc = "upsd" /\ Goto("load") /\ UNCHANGED <<nut, cfg, runner, file, refused>>
    BY <2>3 DEF Goto, TypeOK, PC, Controller
  <2>4. CASE Goto("ssh") /\ cfg' = {Defaults(file)} /\ UNCHANGED <<nut, runner, file, refused>>
    <3>1. IsConfig(file)
      BY StartupAssumption DEF TypeOK
    <3>2. IsConfig(Defaults(file)) /\ HasDefaults(Defaults(file))
      BY <3>1, DefaultsComplete
    <3> QED
      BY <2>4, <3>2 DEF Goto, TypeOK, PC, Controller, HasDefaults
  <2>5. ASSUME NEW c \in cfg, NEW key \in cmcHostKey(c), Goto("preflight"), UNCHANGED <<nut, cfg, file, refused>>,
               runner' = IF NewSSHRunner(key) THEN {key} ELSE {}
        PROVE  TypeOK'
    <3>1. \A l \in DOMAIN c.loads : c.loads[l].hostKey \in HostKey
      <4>1. \A l \in DOMAIN c.loads : c.loads[l] \in LoadSpec
        BY DEF TypeOK, IsConfig
      <4> QED
        BY <4>1 DEF LoadSpec
    <3>2. key \in HostKey
      BY <3>1 DEF cmcHostKey, Chassis, HostKey
    <3>3. Optional(runner', HostKey)
      BY <2>5, <3>2 DEF Optional
    <3> QED
      BY <2>5, <3>3 DEF Goto, TypeOK, PC, Controller
  <2>6. ASSUME NEW p \in {"preflight", "api", "running"}, pc \in Controller, Goto(p),
               UNCHANGED <<nut, cfg, runner, file, refused>>
        PROVE  TypeOK'
    BY <2>6 DEF Goto, TypeOK, PC, Controller
  <2>7. CASE StartUpsd
    BY <2>1, <2>3, <2>7 DEF StartUpsd
  <2>8. CASE Load
    BY <2>1, <2>4, <2>8 DEF Load
  <2>9. CASE Wire
    <3>1. PICK c \in cfg : (pc = "ssh" /\ SetupSSH(c)) \/ (pc = "api" /\ StartPowerAPI(c))
      BY <2>9 DEF Wire
    <3>2. CASE pc = "ssh" /\ SetupSSH(c)
      BY <2>1, <2>5, <2>6, <2>9, <3>2 DEF Wire, SetupSSH, Controller
    <3>3. CASE pc = "api" /\ StartPowerAPI(c)
      BY <2>1, <2>6, <2>9, <3>3 DEF Wire, StartPowerAPI, Controller
    <3> QED
      BY <3>1, <3>2, <3>3
  <2>10. CASE Preflight
    BY <2>6, <2>10 DEF Preflight, Controller
  <2>11. CASE Crash
    BY <2>1, <2>11 DEF Crash
  <2>12. CASE Edit
    BY <2>12 DEF Edit, TypeOK
  <2>13. CASE UNCHANGED startVars
    BY <2>13 DEF startVars, TypeOK
  <2> QED
    BY <2>2, <2>7, <2>8, <2>9, <2>10, <2>11, <2>12, <2>13 DEF Next
<1> QED
  BY <1>1, <1>2, PTL DEF Spec

-----------------------------------------------------------------------------
(* What the controller and upsd run on is left alone by every step but the *)
(* three that load, render and stop.                                       *)
LEMMA SourcesKept ==
  ASSUME [Next]_startVars
  PROVE  \/ cfg' = {} /\ nut' = {}
         \/ validate(Defaults(file)) /\ Renders(Defaults(file)) /\ nut' = {Render(Defaults(file))} /\ UNCHANGED <<env, cfg>>
         \/ validate(Defaults(file)) /\ cfg' = {Defaults(file)} /\ UNCHANGED <<env, nut>>
         \/ UNCHANGED <<env, nut, cfg>>
BY DEF Next, RenderNut, StartUpsd, Load, Wire, SetupSSH, StartPowerAPI, Preflight, Crash, Edit,
       Goto, Stop, startVars

(* The controller runs on an accepted file.                                *)
LEMMA AlwaysAccepted == Spec => []Accepted
<1>1. Init => Accepted
  BY DEF Init, Accepted
<1>2. TypeOK /\ Accepted /\ [Next]_startVars => Accepted'
  <2> SUFFICES ASSUME TypeOK, Accepted, [Next]_startVars PROVE Accepted'
    OBVIOUS
  <2>1. IsConfig(Defaults(file)) /\ HasDefaults(Defaults(file))
    BY StartupAssumption, DefaultsComplete DEF TypeOK
  <2>2. \A c \in cfg' : c \in cfg \/ (c = Defaults(file) /\ validate(c))
    BY SourcesKept
  <2> QED
    BY <2>1, <2>2 DEF Accepted
<1> QED
  BY <1>1, <1>2, StartupTypeCorrect, PTL DEF Spec

(* upsd runs on what Render made of its file in the current environment.   *)
LEMMA AlwaysRendered == Spec => []Rendered
<1>1. Init => Rendered
  BY DEF Init, Rendered
<1>2. Rendered /\ [Next]_startVars => Rendered'
  <2> SUFFICES ASSUME Rendered, [Next]_startVars PROVE Rendered'
    OBVIOUS
  <2>1. CASE nut' = {}
    BY <2>1 DEF Rendered
  <2>2. ASSUME env' = env, NEW n, n = Render(n.from) /\ Renders(n.from)
        PROVE  (n = Render(n.from) /\ Renders(n.from))'
    BY <2>2 DEF Render, Renders, renderUpsdUsers, renderAdmin, renderUpsConf, SecretsThere,
                Resolves, Getenv
  <2>3. Render(Defaults(file)).from = Defaults(file)
    BY DEF Render
  <2>4. CASE env' = env /\ nut' = nut
    BY <2>2, <2>4 DEF Rendered
  <2>5. CASE env' = env /\ nut' = {Render(Defaults(file))} /\ Renders(Defaults(file))
    BY <2>2, <2>3, <2>5 DEF Rendered
  <2> QED
    BY <2>1, <2>4, <2>5, SourcesKept
<1> QED
  BY <1>1, <1>2, PTL DEF Spec

-----------------------------------------------------------------------------
(* What the modules of the controller assume of a configuration holds of   *)
(* every one it starts on.                                                 *)
THEOREM AssumptionsAlwaysHold == Spec => []AssumptionsHold
<1>1. Accepted => AssumptionsHold
  <2> SUFFICES ASSUME NEW c \in cfg, IsConfig(c), HasDefaults(c), validate(c)
               PROVE  /\ DOMAIN ControlLoads(c) = DOMAIN c.loads
                      /\ DOMAIN ControlUPS(c) = DOMAIN c.upses
                      /\ \A l \in DOMAIN c.loads :
                           /\ ControlLoads(c)[l].type = c.loads[l].type
                           /\ ControlLoads(c)[l].governedBy \in (SUBSET DOMAIN ControlUPS(c)) \ {{}}
                      /\ \A u \in DOMAIN c.upses : ControlUPS(c)[u].shedRuntime \in Nat
                      /\ c.startupGrace # {} /\ c.startupGrace \subseteq Nat
                      /\ \A p \in c.powerAPI : /\ p.loads \subseteq DOMAIN ControlLoads(c)
                                              /\ p.requestTTL # {} /\ p.requestTTL \subseteq Nat
    BY DEF Accepted, AssumptionsHold
  <2>1. DOMAIN ControlLoads(c) = DOMAIN c.loads /\ DOMAIN ControlUPS(c) = DOMAIN c.upses
    BY DEF ControlLoads, ControlUPS
  <2>2. ASSUME NEW l \in DOMAIN c.loads
        PROVE  /\ ControlLoads(c)[l].type = c.loads[l].type
               /\ ControlLoads(c)[l].governedBy \in (SUBSET DOMAIN ControlUPS(c)) \ {{}}
    <3>1. ValidLoad(c, c.loads[l])
      BY DEF validate
    <3>2. c.loads[l].type \in {"chassis", "nut-server"}
      BY <3>1 DEF ValidLoad
    <3> QED
      BY <2>1, <3>1, <3>2 DEF ValidLoad, ControlLoads
  <2>3. ASSUME NEW u \in DOMAIN c.upses PROVE ControlUPS(c)[u].shedRuntime \in Nat
    <3>1. c.upses[u] \in UPSSpec /\ ValidUPS(c.upses[u])
      BY DEF IsConfig, validate
    <3>2. c.upses[u].shedRuntime \in Int /\ c.upses[u].shedRuntime > 0
      BY <3>1 DEF UPSSpec, ValidUPS
    <3> QED
      BY <3>2 DEF ControlUPS, Second
  <2>4. c.startupGrace # {} /\ c.startupGrace \subseteq Nat
    <3>1. c.startupGrace \subseteq Int /\ c.startupGrace # {}
      BY DEF IsConfig, HasDefaults, Optional
    <3>2. \A g \in c.startupGrace : g >= 0
      BY DEF validate
    <3> QED
      BY <3>1, <3>2
  <2>5. ASSUME NEW p \in c.powerAPI
        PROVE  p.loads \subseteq DOMAIN c.loads /\ p.requestTTL # {} /\ p.requestTTL \subseteq Nat
    <3>1. ValidAPI(c, p) /\ Optional(p.requestTTL, Int)
      BY DEF validate, IsConfig
    <3>2. p.loads \subseteq DOMAIN c.loads /\ \A t \in p.requestTTL : t >= 0
      BY <3>1 DEF ValidAPI
    <3>3. p.requestTTL \subseteq Int /\ p.requestTTL # {}
      BY <3>1 DEF Optional, HasDefaults
    <3> QED
      BY <3>2, <3>3
  <2> QED
    BY <2>1, <2>2, <2>3, <2>4, <2>5
<1> QED
  BY <1>1, AlwaysAccepted, PTL

-----------------------------------------------------------------------------
(* If both runs of the binary load the same file, every shed signal the    *)
(* controller drives is there, its login may drive it, and the server's    *)
(* upsmon may watch it.                                                    *)
THEOREM ShedIsWired == Spec => []ShedWired
<1>1. Accepted /\ Rendered => ShedWired
  <2> SUFFICES ASSUME NEW c \in cfg, NEW n \in nut, validate(c), n = Render(c)
               PROVE  /\ shedUps(c) \subseteq n.upsConf
                      /\ nutServers(c) # {} => Login(c) \in n.users
                      /\ \A l \in nutServers(c) :
                           \E x \in n.users : x.user = l /\ x.may = "upsmon"
    BY DEF Accepted, Rendered, ShedWired
  <2>1. shedUps(c) \subseteq n.upsConf
    BY DEF Render, renderUpsConf, shedUps
  <2>2. ASSUME nutServers(c) # {} PROVE Login(c) \in n.users
    <3>1. c.localUpsd.adminUser
      BY <2>2 DEF validate
    <3> QED
      BY <3>1 DEF Render, renderUpsdUsers, renderAdmin, Login
  <2>3. ASSUME NEW l \in nutServers(c) PROVE \E x \in n.users : x.user = l /\ x.may = "upsmon"
    <3> DEFINE x == [user |-> l, password |-> Getenv(c.loads[l].passwordEnv), may |-> "upsmon"]
    <3>1. x \in n.users
      BY DEF Render, renderUpsdUsers
    <3> QED
      BY <3>1
  <2> QED
    BY <2>1, <2>2, <2>3
<1> QED
  BY <1>1, AlwaysAccepted, AlwaysRendered, PTL

-----------------------------------------------------------------------------
(* Every secret in the NUT server's files is one line.                     *)
THEOREM FilesAreIntact == Spec => []FilesIntact
<1>1. Rendered => FilesIntact
  <2> SUFFICES ASSUME NEW c, NEW n \in nut, n = Render(c), SecretsThere(c)
               PROVE  n.secrets \cup {x.password : x \in n.users} \subseteq Passwords
    BY DEF Rendered, Renders, FilesIntact
  <2>1. n.secrets \subseteq Passwords
    BY DEF Render, SecretsThere, Resolves
  <2>2. ASSUME NEW x \in n.users PROVE x.password \in Passwords
    <3>1. CASE x \in renderAdmin(c)
      <4>1. c.localUpsd.adminUser /\ x.password = Getenv(c.localUpsd.adminPasswordEnv)
        BY <3>1 DEF renderAdmin
      <4> QED
        BY <4>1 DEF UserSecrets, SecretsThere, Resolves
    <3>2. CASE x \notin renderAdmin(c)
      <4>1. PICK l \in nutServers(c) : x.password = Getenv(c.loads[l].passwordEnv)
        BY <3>2 DEF Render, renderUpsdUsers
      <4> QED
        BY <4>1 DEF UserSecrets, SecretsThere, Resolves
    <3> QED
      BY <3>1, <3>2
  <2> QED
    BY <2>1, <2>2
<1> QED
  BY <1>1, AlwaysRendered, PTL

-----------------------------------------------------------------------------
(* An armed controller with chassis to shed has a runner for them, and a   *)
(* served power API has a token.                                           *)
THEOREM ControllerIsEquipped == Spec => []Equipped
<1>1. Init => Equipped
  BY DEF Init, Equipped
<1>2. TypeOK /\ Equipped /\ [Next]_startVars => Equipped'
  <2> SUFFICES ASSUME TypeOK, Equipped, [Next]_startVars PROVE Equipped'
    OBVIOUS
  <2>1. CASE Stop
    BY <2>1 DEF Stop, Equipped
  <2>2. CASE /\ UNCHANGED <<env, cfg, runner>>
             /\ pc' = pc \/ pc' \in {"upsd", "load"} \/ (pc = "preflight" /\ pc' = "api")
    BY <2>2 DEF Equipped, Getenv
  <2>3. CASE pc' = "ssh"
    BY <2>3 DEF Equipped
  <2>4. CASE Wire /\ ~Stop
    <3>1. PICK c \in cfg : (pc = "ssh" /\ SetupSSH(c)) \/ (pc = "api" /\ StartPowerAPI(c))
      BY <2>4 DEF Wire
    <3>2. cfg' = cfg /\ env' = env
      BY <2>4, <3>1 DEF SetupSSH, StartPowerAPI, Goto
    <3>3. cfg' = {c}
      BY <3>2 DEF TypeOK
    <3>4. CASE pc = "ssh" /\ SetupSSH(c)
      BY <2>4, <3>3, <3>4 DEF SetupSSH, Goto, Equipped
    <3>5. CASE pc = "api" /\ StartPowerAPI(c)
      BY <2>4, <3>2, <3>3, <3>5 DEF StartPowerAPI, TokenSet, Goto, Equipped, Getenv
    <3> QED
      BY <3>1, <3>4, <3>5
  <2>5. CASE RenderNut /\ ~Stop
    BY <2>2, <2>5 DEF RenderNut, Goto
  <2>6. CASE StartUpsd /\ ~Stop
    BY <2>2, <2>6 DEF StartUpsd, Goto
  <2>7. CASE Load /\ ~Stop
    BY <2>3, <2>7 DEF Load, Goto
  <2>8. CASE Preflight
    BY <2>2, <2>8 DEF Preflight, Goto
  <2>9. CASE Edit \/ UNCHANGED startVars
    BY <2>2, <2>9 DEF Edit, startVars
  <2> QED
    BY <2>1, <2>4, <2>5, <2>6, <2>7, <2>8, <2>9 DEF Next, Crash
<1> QED
  BY <1>1, <1>2, StartupTypeCorrect, PTL DEF Spec
=============================================================================
