------------------------------ MODULE Metrics ------------------------------
(***************************************************************************)
(* What the daemon exports.  The poller, the controller and the executor   *)
(* write their gauges and counters in the course of a tick, child by child *)
(* and without a lock over the whole; a Prometheus scrape reads them child *)
(* by child at the same time.                                              *)
(*                                                                         *)
(* Every recorder is expanded into the writes it makes, which are then     *)
(* carried out one per step.  What a reading means (Classify) is given     *)
(* with the reading.  A time of day is the number of the tick.             *)
(***************************************************************************)
EXTENDS Control, Sequences

CONSTANTS UPSOrder, LoadOrder,  \* c.upsNames and c.loadNames
          LoadType, GovernedBy, \* of each load
          Flags,                \* statusFlags
          Specs,                \* telemetrySpecs: the gauges, in order
          Names,                \* their varNames, in order of preference
          Readings,             \* [vars, flags, verdict]: what a poll may fetch
          Requests,             \* the requests that may stand
          Scraped,              \* the one-hot gauges that are scraped
          Grace, DryRun,        \* startupGrace > 0, and dryRun
          MaxTicks              \* bound of the runs

UPS   == {UPSOrder[i] : i \in DOMAIN UPSOrder}
Loads == {LoadOrder[i] : i \in DOMAIN LoadOrder}

(* A gauge that was not written, and a value that does not parse: both are *)
(* below every number that a UPS reports.                                  *)
Absent    == -1000
Malformed == -1001

sourceStates  == <<"unknown", "shed", "hold", "healthy">>
desiredStates == <<"hold", "off", "on">>
requestStates == <<"none", "hold", "off", "on">>
actualStates  == <<"unknown", "up", "down">>
shedStates    == <<"unknown", "released", "asserted">>

StatesOf(vec) ==
  CASE vec = "source"    -> sourceStates
    [] vec = "desired"   -> desiredStates
    [] vec = "requested" -> requestStates
    [] vec = "actual"    -> actualStates
    [] vec = "shed"      -> shedStates

(* The label of a gauge that has one child for each id.                    *)
NoLabel == ""

Members(s) == {s[i] : i \in DOMAIN s}

OneHotKeys ==
  {<<"source", u, s>> : u \in UPS, s \in Members(sourceStates)} \cup
  UNION {{<<vec, l, s>> : l \in Loads, s \in Members(StatesOf(vec))} :
           vec \in {"desired", "requested", "actual", "shed"}}

(* What a scrape reads at once: the children of one gauge and one id.      *)
Series == {<<"source", u>> : u \in UPS}
          \cup {<<vec, l>> : vec \in {"desired", "requested", "actual", "shed"}, l \in Loads}

(* validate insists on a UPS, and is content without a load.               *)
ASSUME MetricsAssumption ==
  /\ UPSOrder \in Seq(UPS) /\ UPSOrder # <<>> /\ LoadOrder \in Seq(Loads)
  /\ \A l \in Loads : LoadType[l] \in LoadTypes /\ GovernedBy[l] \subseteq UPS
  /\ Flags \in Seq(Members(Flags)) /\ Specs \in Seq(Members(Specs))
  /\ \A s \in Members(Specs) : Names[s] \in Seq(Members(Names[s]))
  /\ \A r \in Readings :
       /\ r.verdict \in SourceState
       /\ \A s \in Members(Specs) : \A n \in Members(Names[s]) : r.vars[n] \in Int
  /\ Requests \subseteq Request /\ Scraped \subseteq Series
  /\ Grace \in BOOLEAN /\ DryRun \in BOOLEAN /\ MaxTicks \in Nat

Keys ==
  OneHotKeys \cup {<<vec, "all", NoLabel>> : vec \in {"grace", "dry_run", "reconcile"}}
  \cup {<<vec, u, NoLabel>> : vec \in {"reachable", "poll_failures", "last_success"}, u \in UPS}
  \cup {<<"status", u, f>> : u \in UPS, f \in Members(Flags)}
  \cup {<<"telemetry", u, s>> : u \in UPS, s \in Members(Specs)}
  \cup {<<vec, l, k>> : vec \in {"actions", "failures"}, l \in Loads, k \in ActionKind}

VARIABLES
  gauge,   \* the registry: the value of each child
  todo,    \* the writes of the running recorder that are still to come
  pc, cur, \* where the tick is, and the index of its UPS or load
  src, req, actual, shed,  \* the tick's locals
  held,    \* the grace still runs
  plan,    \* actions to apply, by load
  took,    \* history: actions applied in this tick
  fetched, \* history: what the last good poll of each UPS fetched, and when
  said,    \* history: of a scraped gauge, the last two states recorded
  ticks, scrape

tickVars == <<src, req, actual, shed, held, plan, took, fetched, ticks>>
metricVars == <<gauge, todo, pc, cur, tickVars, said, scrape>>

b2f(b) == IF b THEN 1 ELSE 0

NoScrape == [of |-> <<"none", "none">>, unread |-> {}, hot |-> {}, was |-> {}, whole |-> FALSE]

Init ==
  /\ gauge = [k \in Keys |-> CASE k[1] \in {"grace", "reconcile"} -> 0
                              [] k[1] = "dry_run" -> b2f(DryRun)
                              [] OTHER -> Absent]
  /\ todo = <<>> /\ pc = "preflight" /\ cur = 1
  /\ src = [u \in UPS |-> "unknown"] /\ req = [l \in Loads |-> "none"]
  /\ actual = [l \in Loads |-> "unknown"] /\ shed = [l \in Loads |-> "unknown"]
  /\ held = Grace /\ plan = [l \in Loads |-> {}] /\ took = [l \in Loads |-> {}]
  /\ fetched = [u \in UPS |-> {}]
  /\ said = [series \in Scraped |-> <<{}, {}>>]
  /\ ticks = 0 /\ scrape = NoScrape

-----------------------------------------------------------------------------
(* Package metrics: the writes each recorder makes.                        *)

Set(vec, id, label, v) == [key |-> <<vec, id, label>>, op |-> "set", val |-> v]
Inc(vec, id, label)    == [key |-> <<vec, id, label>>, op |-> "inc", val |-> 1]
(* Mutant: the state that was hot before is left as it is.                 *)
setOneHotOnly(vec, id, active) == <<Set(vec, id, active, 1)>>

setOneHot(vec, id, active) ==
  [i \in DOMAIN StatesOf(vec) |->
     Set(vec, id, StatesOf(vec)[i], b2f(StatesOf(vec)[i] = active))]

(* Mutant: the first variable that is present, number or not.              *)
firstPresent(vars, names) ==
  LET usable == {i \in DOMAIN names : vars[names[i]] # Absent}
  IN IF usable = {} THEN Absent
     ELSE vars[names[CHOOSE i \in usable : \A j \in usable : i <= j]]

(* The first variable that is present and a number.                        *)
firstFloat(vars, names) ==
  LET usable == {i \in DOMAIN names : vars[names[i]] > Absent}
  IN IF usable = {} THEN Absent
     ELSE vars[names[CHOOSE i \in usable : \A j \in usable : i <= j]]

(* Mutant: a variable that is gone keeps its last value.                   *)
recordTelemetryKeeping(u, r) ==
  SelectSeq([i \in DOMAIN Specs |-> Set("telemetry", u, Specs[i], firstFloat(r.vars, Names[Specs[i]]))],
            LAMBDA w : w.val # Absent)

(* An absent value deletes the series.                                     *)
recordTelemetry(u, r) ==
  [i \in DOMAIN Specs |-> Set("telemetry", u, Specs[i], firstFloat(r.vars, Names[Specs[i]]))]

RecordPollOK(u, r) ==
  <<Set("reachable", u, NoLabel, 1), Set("last_success", u, NoLabel, ticks)>>
  \o [i \in DOMAIN Flags |-> Set("status", u, Flags[i], b2f(Flags[i] \in r.flags))]
  \o recordTelemetry(u, r)

RecordPollFailed(u) == <<Set("reachable", u, NoLabel, 0), Inc("poll_failures", u, NoLabel)>>

RecordLoad(l, d) ==
  setOneHot("desired", l, d) \o setOneHot("requested", l, req[l])
  \o setOneHot("actual", l, actual[l])
  \o IF LoadType[l] = "nut-server" THEN setOneHot("shed", l, shed[l]) ELSE <<>>

(* Mutant: the grace is recorded when it ends only.                        *)
RecordStartupGraceEnd(active) == IF active THEN <<>> ELSE <<Set("grace", "all", NoLabel, 0)>>

RecordStartupGrace(active) == <<Set("grace", "all", NoLabel, b2f(active))>>

RecordAction(l, k, failed) ==
  <<Inc("actions", l, k)>> \o IF failed THEN <<Inc("failures", l, k)>> ELSE <<>>

-----------------------------------------------------------------------------
(* Each write is atomic, and the registry is not.                          *)
Write ==
  /\ todo # <<>> /\ todo' = Tail(todo)
  /\ LET w == Head(todo)
         old == IF gauge[w.key] = Absent THEN 0 ELSE gauge[w.key]
     IN gauge' = [gauge EXCEPT ![w.key] = IF w.op = "inc" THEN old + 1 ELSE w.val]
  /\ UNCHANGED <<pc, cur, tickVars, scrape, said>>

(* The states of a series that writes are about to make hot.               *)
Due(series, writes) ==
  {w.key[3] : w \in {x \in Members(writes) : x.val = 1 /\ <<x.key[1], x.key[2]>> = series}}

(* A recorder is called: its writes are due, and a scrape that reads the   *)
(* series meanwhile may find the state it records.                         *)
Record(writes) ==
  /\ todo' = writes
  /\ said' = [series \in Scraped |->
       IF Due(series, writes) = {} THEN said[series]
       ELSE <<said[series][2], Due(series, writes)>>]
  /\ scrape' = [scrape EXCEPT !.was = @ \cup Due(scrape.of, writes)]
  /\ UNCHANGED gauge

(* The loops of Tick and record over the UPSes and the loads.              *)
Step(here, order, next) ==
  /\ pc = here /\ todo = <<>>
  /\ IF cur < Len(order) THEN pc' = here /\ cur' = cur + 1 ELSE pc' = next /\ cur' = 1

StartTick ==
  /\ pc = "rest" /\ todo = <<>> /\ ticks < MaxTicks
  /\ ticks' = ticks + 1 /\ pc' = "poll" /\ cur' = 1
  /\ took' = [l \in Loads |-> {}]
  /\ UNCHANGED <<gauge, todo, src, req, actual, shed, held, plan, fetched, scrape, said>>

(* Tick polls and classifies; preflight has polled each UPS once before,   *)
(* for its log only.                                                       *)
Poll == Step("poll", UPSOrder, "probe") \/ Step("preflight", UPSOrder, "rest")

Classified(verdict) == IF pc = "poll" THEN [src EXCEPT ![UPSOrder[cur]] = verdict] ELSE src

PollOK ==
  /\ Poll
  /\ \E r \in Readings :
       LET u == UPSOrder[cur]
       IN /\ src' = Classified(r.verdict)
          /\ fetched' = [fetched EXCEPT ![u] = {[vars |-> r.vars, at |-> ticks]}]
          /\ Record(RecordPollOK(u, r))
  /\ UNCHANGED <<req, actual, shed, held, plan, took, ticks>>

PollFailed ==
  /\ Poll
  /\ src' = Classified("unknown")
  /\ Record(RecordPollFailed(UPSOrder[cur]))
  /\ UNCHANGED <<req, actual, shed, held, plan, took, fetched, ticks>>

(* The probes and the requests write no metric.                            *)
Probe ==
  /\ pc = "probe" /\ todo = <<>> /\ pc' = "source"
  /\ actual' \in [Loads -> ActualState] /\ req' \in [Loads -> Requests]
  /\ shed' \in {f \in [Loads -> ShedState] :
                  \A l \in Loads : LoadType[l] = "chassis" => f[l] = "unknown"}
  /\ UNCHANGED <<gauge, todo, cur, src, held, plan, took, fetched, ticks, scrape, said>>

RecordSource ==
  /\ Step("source", UPSOrder, IF LoadOrder = <<>> THEN "plan" ELSE "load")
  /\ Record(setOneHot("source", UPSOrder[cur], src[UPSOrder[cur]]))
  /\ UNCHANGED tickVars

(* Mutant: the request is left out of what is shown as desired.            *)
ShownIgnoringRequest(l) == desiredFromSources({src[u] : u \in GovernedBy[l]})

Shown(l) == DesiredForLoad({src[u] : u \in GovernedBy[l]}, req[l])

RecordLoads ==
  /\ Step("load", LoadOrder, "plan")
  /\ Record(RecordLoad(LoadOrder[cur], Shown(LoadOrder[cur])))
  /\ UNCHANGED tickVars

(* Decide, and holdStartupWakes: once over, the grace is over.             *)
Plan ==
  /\ pc = "plan" /\ todo = <<>> /\ pc' = "apply" /\ cur' = cur
  /\ held' \in {held, FALSE}
  /\ plan' = [l \in Loads |->
       {k \in ReconcileLoad(LoadType[l], DesiredForLoad({src[u] : u \in GovernedBy[l]}, req[l]),
                            actual[l], shed[l]) : held' => ~isPowerOn(k)}]
  /\ Record(IF Grace THEN RecordStartupGrace(held') ELSE <<>>)
  /\ UNCHANGED <<src, req, actual, shed, took, fetched, ticks>>

(* Apply: each action is counted when it has returned.                     *)
Apply ==
  /\ pc = "apply" /\ todo = <<>>
  /\ \E l \in Loads : \E k \in plan[l], failed \in {FALSE, ~DryRun} :
       /\ plan' = [plan EXCEPT ![l] = @ \ {k}]
       /\ took' = [took EXCEPT ![l] = @ \cup {k}]
       /\ Record(RecordAction(l, k, failed))
  /\ UNCHANGED <<pc, cur, src, req, actual, shed, held, fetched, ticks>>

(* Mutant: the heartbeat does not wait for the plan.                       *)
EndTickEarly ==
  /\ pc = "apply" /\ todo = <<>>
  /\ pc' = "rest" /\ cur' = cur
  /\ Record(<<Set("reconcile", "all", NoLabel, ticks)>>)
  /\ UNCHANGED tickVars

(* ObserveReconcile, the heartbeat.                                        *)
EndTick ==
  /\ pc = "apply" /\ todo = <<>> /\ \A l \in Loads : plan[l] = {}
  /\ pc' = "rest" /\ cur' = cur
  /\ Record(<<Set("reconcile", "all", NoLabel, ticks)>>)
  /\ UNCHANGED tickVars

-----------------------------------------------------------------------------
(* A scrape collects one gauge's children in any order.  Nothing is served *)
(* before preflight is over.                                               *)
Listening == ticks > 0 \/ (pc = "rest" /\ todo = <<>>)

Hot(series) == {s \in Members(StatesOf(series[1])) : gauge[<<series[1], series[2], s>>] = 1}

StartScrape ==
  /\ Listening /\ scrape = NoScrape
  /\ \E series \in Scraped :
       scrape' = [of |-> series, unread |-> Members(StatesOf(series[1])), hot |-> {},
                  was |-> said[series][2] \cup
                    IF \E w \in Members(todo) : <<w.key[1], w.key[2]>> = series
                    THEN said[series][1] ELSE {},
                  whole |-> \A s \in Members(StatesOf(series[1])) :
                              gauge[<<series[1], series[2], s>>] # Absent]
  /\ UNCHANGED <<gauge, todo, pc, cur, tickVars, said>>

ReadChild ==
  /\ \E s \in scrape.unread :
       scrape' = [scrape EXCEPT !.unread = @ \ {s},
                                !.hot = IF s \in Hot(scrape.of) THEN @ \cup {s} ELSE @]
  /\ UNCHANGED <<gauge, todo, pc, cur, tickVars, said>>

EndScrape ==
  /\ scrape # NoScrape /\ scrape.unread = {} /\ scrape' = NoScrape
  /\ UNCHANGED <<gauge, todo, pc, cur, tickVars, said>>

Next == \/ Write \/ StartTick \/ PollOK \/ PollFailed \/ Probe \/ RecordSource \/ RecordLoads
        \/ Plan \/ Apply \/ EndTick \/ StartScrape \/ ReadChild \/ EndScrape

Spec == Init /\ [][Next]_metricVars

-----------------------------------------------------------------------------
TypeOK == gauge \in [Keys -> {n \in Int : n >= Absent}] /\ \A k \in OneHotKeys : gauge[k] \in {Absent, 0, 1}

Rest == pc = "rest" /\ ticks > 0 /\ todo = <<>>

(* Between ticks every one-hot gauge shows exactly what the tick found.    *)
OneHotAtRest ==
  Rest => /\ \A u \in UPS : Hot(<<"source", u>>) = {src[u]}
          /\ \A l \in Loads : /\ Hot(<<"requested", l>>) = {req[l]}
                              /\ Hot(<<"actual", l>>) = {actual[l]}
                              /\ LoadType[l] = "nut-server" => Hot(<<"shed", l>>) = {shed[l]}

(* Between ticks the telemetry is that of the last poll that succeeded,    *)
(* however long ago: kept over failures, and gone when a poll that         *)
(* succeeded came without it; and the stamp beside it says how long        *)
(* (RecordPoll: "a stale last_success is the signal").                     *)
TelemetryIsLastGood ==
  Rest => \A u \in UPS :
    LET good == CHOOSE f \in fetched[u] : TRUE
    IN IF fetched[u] = {}
       THEN \A vec \in {"last_success", "telemetry"}, s \in Members(Specs) \cup {NoLabel} :
              <<vec, u, s>> \in Keys => gauge[<<vec, u, s>>] = Absent
       ELSE /\ gauge[<<"last_success", u, NoLabel>>] = good.at
            /\ \A s \in Members(Specs) :
                 gauge[<<"telemetry", u, s>>] = firstFloat(good.vars, Names[s])

(* The heartbeat never runs ahead of the work: while it shows the current  *)
(* tick, nothing of that tick is left to do (ObserveReconcile: "the last   *)
(* completed reconcile tick").                                             *)
HeartbeatIsHonest ==
  ticks > 0 /\ gauge[<<"reconcile", "all", NoLabel>>] = ticks =>
    pc = "rest" /\ \A l \in Loads : plan[l] = {}

(* What is shown as desired is what the tick acted on: no load is powered  *)
(* on while "on" is not shown, nor shed while "off" is not (record: "the   *)
(* metrics can't drift from the decision").                                *)
DecisionShown ==
  \A l \in Loads :
    /\ took[l] \cap {"WakeServer", "ChassisPowerUp", "ReleaseServerShed"} # {}
         => Hot(<<"desired", l>>) = {"on"}
    /\ took[l] \cap {"ChassisShutdown", "AssertServerShed"} # {} => Hot(<<"desired", l>>) = {"off"}

(* A load shown as wanted on and found down was powered on in that tick,   *)
(* or the grace is shown as active: the alert on the one can wait for the  *)
(* other (RecordStartupGrace).                                             *)
GraceShown ==
  Rest => \A l \in Loads :
    Hot(<<"desired", l>>) = {"on"} /\ Hot(<<"actual", l>>) = {"down"} =>
      (gauge[<<"grace", "all", NoLabel>>] = 0 <=> \E k \in took[l] : isPowerOn(k))

(* A state that a scrape finds hot was the recorded one at some moment of  *)
(* the scrape: no state of an earlier tick lingers.                        *)
ScrapeTruthful == scrape.hot \subseteq scrape.was

(* metrics: "exactly one is hot per series" - in every complete scrape of  *)
(* a gauge whose states had all been written when the scrape began.        *)
ScrapeOneHot ==
  scrape # NoScrape /\ scrape.unread = {} /\ scrape.whole =>
    \E s \in scrape.hot : scrape.hot = {s}
=============================================================================
