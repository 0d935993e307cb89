# nut-dog: models, checks and proofs

nut-dog watches UPSes over NUT, shuts loads down when a UPS that governs them
becomes critical, and powers them on again when every UPS that governs them has
recovered. This directory holds TLA+ modules of it, the TLC instances that
check them, and TLAPS proofs.

## The system

| part | state | operations | talks to |
|---|---|---|---|
| decision core (`internal/control`) | none | `Classify`, `DesiredForLoad`, `ReconcileLoad`, `Decide` | called by the loop |
| telemetry mapping (`internal/nut/nut.go`) | none | `TelemetryFromVars` | called by `Poll` |
| reconcile loop (`internal/app`) | `startedAt`; the locals of one `Tick` | `Tick`: poll, probe, publish, read requests, decide, apply | everything below |
| effects (`internal/effects`) | none of its own; the shed signals live in the pod's upsd | `Apply`, `do`, racadm, NUT `SET VAR`, Wake-on-LAN | CMC, upsd, hosts |
| power API (`internal/powerapi`) | `want`, `seen` under one mutex | `PUT power`, `GET state`, `Desired` (with expiry), `PublishActual` | HTTP callers, the loop |
| process (`cmd/nut-dog`, `container/entrypoint.sh`) | whether it runs, start-up progress | render, preflight, start API, loop, stop | all |
| NUT server config (`internal/nutconf`) | the rendered files | `Render`, `WriteFiles` | upsd at boot |
| NUT client (`internal/nut/client.go`) | one connection per call | `Fetch`, `SetVar`, `CheckAuth` | NUT servers |
| configuration (`internal/config`) | none | `Load`, `validate`, `ControlUPS`, `ControlLoads` | main, renderer |
| metrics (`internal/metrics`) | gauges and counters | `Record*` | poller, loop, executor; scrapes |
| SSH runner (`effects/sshexec.go`) | one connection per call | `Run` | CMC |
| nut-probe (`cmd/nut-probe`) | none | one fetch | terminal |

What is hard here:

* A tick is many network calls. Mains, hosts, the clock and the API's caller
  move between any two of them, each of them can fail, and the effects are
  applied one by one on the strength of readings taken before.
* The HTTP handlers run concurrently with the tick and share `want` and `seen`.
* The pod can be stopped anywhere. Requests and observations are in memory, and
  the shed signals are in an upsd that restarts with the pod.
* Other machines are at the far end of every call: they may be slow, silent,
  cut off, refuse in words only, or not be the machine that was meant.
* The configuration is read twice, by two runs of the binary, and parts of it
  must agree with what the NUT server was started on.
* A scrape reads gauges one by one while the tick writes them one by one.
* Nothing is retried inside a tick. Recovery is the next tick's business, so
  whether the system converges depends on what each tick re-reads.

## Modules

* `Control`, `Nut`, `Effects`: pure operators. Slices whose order does not
  matter are sets (the states of the governing UPSes, the actions of one load,
  with `First` for the one order that does matter), `ups.status` is a set of
  tokens, and an optional number is `{}` or `{n}`. Definitions whose comment
  says *mutant* are wrong on purpose. No specification uses them; they exist to
  show that the properties notice.
* `PowerApi`: `want` and `seen` and one step per operation under the mutex.
  Instants are kept as ages, because the code only computes `now - at`. An age
  is saturated where no comparison can tell it from a larger one (`RequestTTL`;
  `ObsAgeCap` for the age that `GET` serves). `NutDog` uses its operations;
  `ApiSpec` is also the abstract specification that `PowerServer` implements.
* `PowerServer`: the same package statement by statement. Any number of handler
  goroutines and the loop take the mutex, touch the maps and release it; instants
  are instants, `Desired` ranges over the map entry by entry and checks each for
  expiry before it deletes it. `Implements` is the refinement: `wantAge` and
  `seenAge` turn instants into ages, and a publication takes effect when its
  thread has the mutex.
* `NutDog`: the process and its world. `pc` is where main or `Tick` is, `cur`
  the loop index, `tel`, `actual`, `shed`, `ext` are the locals of `Tick`, and
  `plan` holds the actions still to apply. `hw`, `power`, `signal` are the
  world: what each UPS would answer now, the power state of each load, the
  status of each shed dummy-ups. `stable` is used by the liveness specification
  only. `wasRestored`, `wasCritical`, `late`, `lost`, `probeAge` are history
  that no action reads except to update it.
* `Guardian`: what the daemon promises its loads, without saying how it keeps the
  promise. A round looks at UPSes, each look finding the UPS as it is or nothing,
  reads the requests, resolves what to do on two grounds only (`MustGo`,
  `MayReturn`), does it, and is over when each server's signal stands as the
  grounds call for, unless an effect on it was lost. Classification, probes, loop
  order, the edge-triggered skips and the grace are left to the implementation.
  `NutDog` implements it (`KeepsPromise`): `Told` is the servers whose signal is
  raised, `SawRestored` and `SawCritical` what the tick's readings are classified
  as, `Phase` the place in the tick. Only a step that takes something from the plan
  counts as the daemon's, so an operator's hand on the switch excuses nothing.
* `SharedLoad` extends `NutDog` with the API's caller and its listener. The caller
  wants a load left alone and says so within every `Gap`; an attempt that nobody
  hears counts as one. The listener (`api`) is started in the background and may
  fail at once or later, which the loop takes no notice of; `cutOff` keeps the
  loads whose caller has tried in vain since. `Slack` bounds the time between a
  tick's reading the requests and its looking at the grace. `CallerAssumption`
  says how long the grace and the TTL must be.
* `NutSession`: one call of the NUT client. `phase` is the command whose answer
  is awaited, `left` the time to the deadline, `inbox` the lines on their way;
  the server may be of any kind in `Server`, and `Cut` ends the connection
  anywhere in what is under way.
* `Sshexec`: `Executor.Apply` over a plan with chassis. A chassis action goes
  through dial, key exchange, authentication, session and command. One runner
  serves all chassis and pins one CMC's key or none (`pin`), as `cmcHostKey`
  leaves it. At each address the CMC that belongs there may answer, or another
  chassis' CMC, or a stranger (`is`); it may refuse, fail with a word only, drop
  the connection or stay silent. Only the chassis' own CMC carries anything out,
  whatever the others say.
* `Startup`: the entrypoint and both runs of the binary, from `config.yaml` and
  the environment to a running controller. Files and sections are records and
  sets. `Edit` is an update of the ConfigMap between the two loads; `Stop` is any
  exit, after which the container starts again.
* `Metrics`: preflight's polls and then ticks as the metric writes they make, one
  per step, against a scrape that reads the states of a gauge one by one in any
  order. Scrapes are served once preflight is over.
* `UpsBattery`: `Classify` in a loop with a battery that drains, charges and
  reports.
* `MC*` modules with their `.cfg` files: instances. `*Proofs`: proofs.

How `NutDog`'s actions correspond to code: `Boot` is the entrypoint's render and
start of upsd; `PreflightProbe` and `PreflightWake` are `preflight`; `Serve`
starts the API and the clock; `StartTick` to `EndTick` are one `Tick`
(`PollOK`/`PollFail` per UPS, `ProbeLoad` per load including the read-back of its
shed signal, `Publish`, `ReadRequests`, `DecideStep` including
`holdStartupWakes`, `ApplyOK`/`ApplyLost`/`ApplyDry` per action). `Put` is an
accepted PUT; a refused one changes nothing and is a stuttering step, and nothing
obliges a PUT to arrive. Preflight's magic packet may be lost, as any other. `Crash` is
any end of the process. `UpsChanges`, `Operator`, `UpsmonShutdown`, `PoweredOff`,
`Booted` are the world outside the repository, modelled from how the code uses
it: a magic packet starts a host that is off and does nothing else, a host with
upsmon shuts down under `FSD`, and a chassis follows its CMC.

*Critical* and *restored* are defined in `NutDog` on the variables a UPS serves,
independently of `Classify`, so the properties also check the classification.

How the modules lean on each other: that a NUT call returns the truth or an
error within its time, which `NutDog` takes for granted, is what `NutSession`
shows; that a CMC action ends at all is an assumption there, and `Sshexec` shows
when it does not hold; that each operation of the API is one step is what
`PowerServer` refines; that a configuration satisfies `ApiAssumption` and
`ConfigAssumption`, and that every server has a shed signal that the controller
may set, is what `Startup` shows.

## Runs

| run | instance | checks |
|---|---|---|
| `server` | 1 shared server, 2 UPSes | `TypeOK`, `WakeInterlock`, `ShedJustified`, `ShedFollowsCritical`, `RequestHonoured`, `WakeAfterRelease` |
| `mixed` | chassis and server, 1 UPS with 7 kinds of reading, no API, no grace | `ShedFollowsCritical`, `KeepsPromise` |
| `dry_run` | as `mixed`, 3 readings, `dryRun` | `DryRunInert` |
| `live_server` | 1 server, 1 UPS, API, fair | `Converges`, `DeadCallerPinsNothing`, `KeepsPromise` |
| `shared_load` | 1 server, 1 UPS, a listener that may fail, caller's period 1, slack 1, grace 3, TTL 2 | `CallerIsHeeded` |
| `power_server` | 2 handlers, 2 loads of which 1 is under the API, fair | `MapsGuarded`, `DesiredIsSnapshot`, `Implements`, `CallsReturn` |
| `session` | every call and server, 2 variables, timeout 2, fair | `SecretsUnderTLS`, `AnswersUnderTLS`, `WholeListing`, `SetDone`, `CallBounded`, `CallReturns` |
| `ssh` | 2 chassis, either's key pinned or none, any host at either, a server between them, fair | `ReportTruthful`, `OnlySilenceStalls` |
| `startup` | 19 files, 7 environments | `TypeOK`, `AssumptionsHold`, `ShedWired`, `FilesIntact`, `Equipped` |
| `metrics` | 2 ticks over a chassis, scrapes of its desired state | `TypeOK`, `OneHotAtRest`, `TelemetryIsLastGood`, `HeartbeatIsHonest`, `DecisionShown`, `GraceShown`, `ScrapeTruthful` |
| `battery` | charges 0 to 100, deadband 60, fair | `SeparatedIsApart`, `FollowsMains` |
| `host_key` | as `startup` | `EachChassisItsKey` is violated |

What they say of the loop:

* `WakeInterlock`: a power-on is planned only if every governing UPS was
  restored at some moment since the tick began. No reading survives a tick, and
  an unreadable UPS blocks the power-on.
* `ShedJustified`: a shed is planned only for a UPS that was critical during
  the tick or for a caller's `off`, never because something could not be read.
* `ShedFollowsCritical`: once a tick has read a critical UPS, each server it
  governs has its signal asserted, or it is still to come, or it failed. Neither
  the edge-triggered skip nor another load's failure nor a request prevents it.
* `WakeAfterRelease`: no server is sent its wake under an asserted signal,
  unless the release failed.
* `RequestHonoured`: a standing `off` or `hold` made before the tick read the
  requests keeps it from powering the load on. A PUT answered later is for the
  next tick, and exempt. `CallerIsHeeded`: with a grace longer than the caller's
  period and the slack, restarts do not change that. What does is a listener that
  has failed: the loop goes on, the caller's last request expires, and once the
  grace is over the load is powered on although the caller keeps asking. The
  property is silent on a load from the caller's first vain attempt in such a run
  on, and only then.
* `KeepsPromise`: the daemon implements `Guardian`. Beyond the properties above it
  says that a shed signal is dropped only when every governing UPS was read
  restored and no request stands against it, that what is read is what was there,
  and that a finished tick leaves each server's signal where its grounds put it,
  for a caller's `off` and for a recovery as well. `mixed` checks it over readings on
  both sides of each threshold, `live_server` over requests, expiry and restarts.
* `Converges`: once the world holds still, each load and its signal reach the
  state the UPSes and the standing request call for, and stay there. In
  `live_server` a request expires soon after the world stands still; in
  the instance `MCLiveStanding` the last one stands for ever.
  `DeadCallerPinsNothing`: with a TTL, no request of a caller that fell silent
  keeps a load down.

And of the rest:

* Power API: no two threads are in the map statements together, `Desired`
  returns one moment's requests, the whole implements `PowerApi` (no request is
  dropped early, half stored or deleted in the place of an older one), and no
  call waits for ever.
* NUT session: with TLS asked for, nothing but `STARTTLS` leaves in the clear and
  no line from outside TLS is believed, the one that answers `STARTTLS` apart; a
  listing is whole or an error; a `SET` reported as done was done; each call ends
  within three timeouts (dial, upgrade, session), whoever is at the other end.
* SSH: a chassis action reported as done was carried out by that chassis, and a
  refusal in words only is not taken for it, except where another machine answered
  and the host-key check let it pass (`Mistaken`): any machine if no key is pinned,
  and otherwise the CMC whose key is pinned, at the address of another chassis.
  The plan is worked off, unless a host that has accepted the connection goes
  silent. The runner's timeout ends with the dial, so such a host holds the tick,
  and every other load, for as long as it is silent.
* Start-up: what passes `validate` satisfies the other modules' assumptions; a
  controller that runs on the file its NUT server was rendered from (not one
  updated between the two loads) finds each shed signal there, with a login that may set it and a user that may watch it;
  no bad secret reaches a file; an armed controller has its runner and token.
* Metrics: between ticks each one-hot gauge shows what the tick found, the
  telemetry is that of the last good poll with its stamp, a heartbeat means the
  plan was worked off, and an unmet desired state means the grace is shown; and a
  state a scrape finds hot was a recorded one at some moment of the scrape.
* Battery: if every charge at which a load is shed lies the deadband below
  `recoverChargePct`, the verdicts keep that distance for any behaviour of the
  mains, and the load follows mains that stay away or stay back.

Bounds. Two UPSes are enough for one to block or outvote the other, two loads
for one's failure to touch the other; one unit of TTL and of grace gives
"before" and "after"; readings lie on both sides of each comparison in `mixed`, and
are one restored and one critical elsewhere (there with `LB`). The clock
of `NutDog` is unbounded: saturated ages make it finite. `PowerServer` has
instants, and `MaxNow` = 2 leaves room for a request to expire and be made again;
two handlers give a PUT against a PUT or a GET. Its loop publishes
"unknown", which differs from nothing published and by its age from what was
published before; `MCPowerServerWide` has other states as well. A listing of two variables can be
cut before, between and after them, and a timeout of 2 lets a server be slow
without being late. The `startup` files are one complete configuration and those
that differ from it in one place, a place for each check of `validate` that the
controller depends on. Two ticks (`MaxTicks`) let a gauge keep something of the
tick before. The battery moves in units of 1 % between readings.

Fairness. `NutDog`'s `LiveSpec`: the daemon keeps taking steps, because every
NUT call and probe has a timeout, a CMC is assumed to answer or hang up, and a
stopped pod is restarted; the clock advances; a host finishes booting and
shutting down, and upsmon acts on `FSD`. `Stabilise` marks the moment from which
polls, probes and effects succeed, nobody else moves a load and readings stop
changing. It may never come, and then nothing is promised. On a stable network
an off host times out rather than refuses, the assumption `tcpProbe` documents.
`PowerServer`: threads are scheduled (weak), and a Go mutex hands itself to a
waiter that has starved for a millisecond (strong, per waiter). `NutSession` and
`Sshexec`: the Go side runs and time passes; the server and the host owe nothing.
`UpsBattery`: the battery follows the mains, polls happen, and a load that is
again and again told to move does so, which is `Converges`.

## Where comments and code disagree

`host_key` is a run: `cmcHostKey` takes the key of whichever chassis the map
yields first and one runner is built from it for all of them, while
`CMCSpec.HostKey` is a field of each. Two chassis with different keys cannot
both be reached, and which one can is decided anew at every start.

The other disagreements have their property in the module and a `.cfg` of their
own in which TLC finds it violated:

| property | `.cfg` (module) | what the code does |
|---|---|---|
| `HoldPins` | `MCHoldPins` (`MCNutDog`) | a `hold` answered while a tick is applying does not stop that tick |
| `RestartLosesNothing` | `MCRestart` (`MCNutDog`) | a restart puts every shed signal back to `OL`; in the deadband nothing asserts it again |
| `ServedAgeCoversProbe` | `MCServedAge` (`MCNutDog`) | an observation's age counts from publication, not from the probe |
| `PreflightWakesNothing` | `MCPreflight` (`MCNutDog`) | preflight's magic packet can reach a host that went off since its probe, in a dry run too |
| `NeverAgainstCaller` | `MCCutOff` (`MCSharedLoad`) | main exits without a token so as not to power loads against the caller's intent, and goes on when the API's listener fails, with that effect |
| `EveryActionCounted` | `MCSshStall` (`MCSshexec`) | a CMC that accepts the connection and then is silent stops Apply for good |
| `FloorPositive` | `MCFloor` (`MCStartup`) | a `shedRuntime` of less than a second passes as > 0 and becomes a floor of 0 s |
| `UnneededUpsdIgnored` | `MCUnneededUpsd` (`MCStartup`) | with chassis and remote UPSes only, an empty `localUpsd.listen` passes `validate` and fails to render |
| `WiredDespiteEdit` | `MCEdit` (`MCStartup`) | the file is read by each run of the binary; a server added between the two has no shed signal |
| `ShedSignalReachable` | `MCListen` (`MCStartup`) | with `listen` on the node's address, upsd does not listen where the shedder dials, 127.0.0.1 |
| `ScrapeOneHot` | `MCScrape` (`MCMetrics`) | between the writes of one series a scrape can find no state hot, or two |
| `Apart` | `MCFlap` (`MCUpsBattery`) | with the thresholds of `config.example.yaml` a load is recovered at the charge it was shed at |
| `HealthyIsRecharged` | `MCDecimal` (`MCUpsBattery`) | a charge written as a decimal reads as missing, and missing counts as recharged |

Further instances, in which everything holds: `MCLiveChassis` (`Converges` for a
chassis through its CMC), `MCLiveStanding` (`Converges` with requests that never
expire), `MCPowerServerWide` (the refinement with both loads
under the API and the handlers interchangeable), `MCMetricsServer` (the metrics
of a server, shed signal included, without a scrape).

## Proofs

All for every value of the constants that satisfies the named assumptions.

`NutDogProofs`, for every set of UPSes and loads, every governance relation,
thresholds, readings, TTL and grace that satisfy `ApiAssumption` and
`ConfigAssumption`: `TypeCorrect`; `WakeIsInterlocked`, `ShedIsJustified`,
`CriticalIsShed`, `RequestIsHonoured`, the four safety invariants; and
`WakeFollowsRelease` and `DryRunIsInert`, the action properties; `PromiseIsKept`,
the refinement of `Guardian`; and `ReadingExact`, that parser and classification find
exactly what the independent definitions call restored and critical.

The invariants are not inductive: what makes a plan right is what the values it
was made from still say about the world. `SafetyInv` adds `ReadingsInv` (a
"healthy" or "shed" verdict is about a UPS that was so during this tick, and
between ticks no reading is left), `SignalInv` (until Apply starts, a signal is
as it was read), `RequestInv` (unless it was given a new one, a load's standing
`off` or `hold` is the request the tick works with) and `PlanInv` (a plan never
mixes shedding with waking, and a wake whose release has been taken from the
plan finds `OL`). The argument follows a tick: `ReadingTrue` shows that
`Classify` of a reading implies the independent definition on the UPS,
`DecideFacts` what must have held for an action to be decided, `ReadStep`,
`PlanStep`, `ApplyStep`, `WorldStep` and `ProcessStep` that each group of steps
preserves `SafetyInv`, with `Frame` for the steps it does not notice. `SafetyInv`
was also checked with TLC on the instances of `server` and `mixed`.

`PromiseIsKept` takes initial states to initial states and every step to a step of
`Guardian` or a stutter, by one lemma for each group of steps (`ProcessGuarded`,
`ReadingGuarded`, `RequestsGuarded`, `DecisionGuarded`, `ActionGuarded`,
`WorldGuarded`, `UnseenGuarded`). Its invariant `PromiseInv` adds two things to
`SafetyInv`. `SignalsInv`: while a plan is being applied, a server's signal stands as
its grounds call for, or the action that will put it there is still in the plan, or
an effect was lost. `GroundsInv`: no plan holds the action that would undo that.
`DecideGrounds` shows both of what `Decide` returns.

`SharedLoadProofs`, under `CallerAssumption`: `CallerIsAlwaysHeeded`, for any
number of loads and any period. Of a load whose caller is not cut off, the
invariant relates three clocks: a load's
request is no older than the caller's last word, and before the caller's first
word since the restart the uptime is no longer than the period plus the slack,
so the grace is not over. `OpeningInv` adds that no time has passed and nothing is
requested while the listener is being opened.

`PowerServerProofs`, for any number of handlers: `MutexGuards` from the invariant
that a thread inside the critical statements is the one `mu` names,
`SnapshotReturned`, and `ServerImplementsApi`, the refinement: initial states map to initial states, and
each step to a step of `PowerApi` or a stutter. `Clock` maps to the abstract clock
because saturation commutes with one tick of it; `Delete` to an expiry because the
entry it looked at is still the one stored. The invariant that carries both is
`Held` (who is inside has the mutex), `Past` (nothing stored lies in the future),
`Ranging` (what `Desired` has yet to visit stands in `want`, what it has visited
agrees with its result) and `Armed` (a handler about to store has its arguments).

`NutSessionProofs`: type correctness and the five safety properties.
`BoundaryInv` ties `secure` to the phase and to the lines that may still be in
the inbox, `BudgetInv` the time spent to the deadlines still to come, and
`ListInv` the variables collected so far to the part of the listing still under
way, for a listing of any length.

`SshexecProofs`, for any chassis and plan: types; `ReportIsTruthful`, from the
invariant that whoever is past the key exchange has passed the host-key check
(`HostPassed`) and that a good answer to the command comes from the chassis or from
a machine that passes for it (`Answered`); and `PinnedReportIsTrue`, which says what
that comes to with one chassis and its key pinned: what is reported was done,
whoever answers.
`StartupProofs`: types and the four invariants, for any set of files and
environments; `Accepted` (a running controller's file passed `validate` with its
defaults) and `Rendered` (the NUT server runs on a rendering of such a file)
carry them. `UpsBatteryProofs`: `SeparatedStaysApart`, from the charges that
justify each verdict, for any battery and thresholds.

`MetricsProofs`, for any UPSes, loads, gauges, variable names and readings, and
any number of ticks: every invariant of `Metrics`. A recorder's writes are carried
out one by one, so nothing about the registry holds at once when a recorder is
called. `Will` is what a child's value is going to be when the writes to come are
through; carrying one out does not change it (`WillWrite`), so it has to be looked
at only where a recorder is called. `MetricsInv` says with it what each stage of
the tick has recorded: `SourcesInv`, `LoadsInv` (one state of each gauge is, or is
going to be, hot), `LastGoodInv`, `GraceInv`, `HeartInv`; with `QuietInv` (after
the plan no one-hot gauge is written until the next tick) and `PlanInv` (what is
left of the plan and what was taken are what the tick's locals call for). A scrape
is covered by `SaidInv`: a hot state is the last one recorded, or the one before
while its own write is still to come. All of it was checked with TLC on the
instances of `metrics` and `MCMetricsServer`, and on one without a load.

Only model-checked: every liveness property (`Converges`,
`DeadCallerPinsNothing`, `CallsReturn`, `CallReturns`, `OnlySilenceStalls`,
`FollowsMains`), since liveness under fairness is beyond the prover.

## Not modelled

`nut-probe`, a diagnostic command that shares no state with the daemon;
`ParseUPSC`, which only debugging uses; flags, log lines, and the orderly shutdown
of the HTTP servers. `cmcUser` makes the choice of `cmcHostKey` once more and adds
nothing to it. The answer of a `GET`, whose ages are computed after the unlock from
what was copied under it, is read by nothing in the repository and is left out of
`PowerServer`. What `CheckAuth`'s success shows depends on when the server looks at
the credentials, which differs between servers, and no property is stated of it. YAML is taken to yield the structs, Prometheus to apply one write at
a time. NUT ignores a second device or user of the same name in its files; names
are taken to be distinct. A monitoring user whose variable is empty makes `Fetch`
go unauthenticated; that is one of the sessions of `NutSession`, but `Startup` does
not follow it. Loss of mains at a host (an abrupt power-off) is not distinguished
from an operator's shutdown.
