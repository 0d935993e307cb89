--------------------------- MODULE MetricsProofs ---------------------------
(***************************************************************************)
(* Module Metrics for any UPSes, loads, variables and readings: what the   *)
(* gauges say between ticks, and what a scrape finds during one.           *)
(*                                                                         *)
(* The argument is about writes that are still to come.  Will says what a  *)
(* child's value is going to be once the running recorder is through.  It  *)
(* does not change when a write is carried out, so it has to be looked at  *)
(* only where a recorder is called.                                        *)
(***************************************************************************)
EXTENDS Metrics, TLAPS, WellFoundedInduction

Value     == {n \in Int : n >= Absent}
GoodWrite == {w \in [key : Keys, op : {"set", "inc"}, val : Value] :
                w.key \in OneHotKeys => w.op = "set" /\ w.val \in {0, 1}}

Pending == Members(todo)

LEMMA Values == Absent \in Value /\ Nat \subseteq Value /\ 0 \in Value /\ 1 \in Value
BY DEF Value, Absent

Will(g, W, key, v) ==
  /\ \A w \in W : w.key = key => w.op = "set" /\ w.val = v
  /\ (\E w \in W : w.key = key) \/ g[key] = v

(* One state of a gauge is, or is going to be, hot.                        *)
Shows(g, W, vec, id, active) ==
  \A s \in Members(StatesOf(vec)) : Will(g, W, <<vec, id, s>>, b2f(s = active))

PC == {"preflight", "rest", "poll", "probe", "source", "load", "plan", "apply"}

TypesInv ==
  /\ gauge \in [Keys -> Value] /\ \A k \in OneHotKeys : gauge[k] \in {Absent, 0, 1}
  /\ todo \in Seq(GoodWrite)
  /\ pc \in PC /\ cur \in Nat
  /\ pc \in {"preflight", "poll", "source"} => cur \in DOMAIN UPSOrder
  /\ pc = "load" => cur \in DOMAIN LoadOrder
  /\ pc \in {"rest", "probe", "plan", "apply"} => cur = 1
  /\ src \in [UPS -> SourceState] /\ req \in [Loads -> Request]
  /\ actual \in [Loads -> ActualState] /\ shed \in [Loads -> ShedState]
  /\ held \in BOOLEAN /\ (held => Grace)
  /\ plan \in [Loads -> SUBSET ActionKind] /\ took \in [Loads -> SUBSET ActionKind]
  /\ ticks \in Nat /\ (pc \notin {"preflight", "rest"} => ticks > 0) /\ (pc = "preflight" => ticks = 0)
  /\ DOMAIN fetched = UPS

(* Where the tick has come to.                                             *)
Ended         == pc = "rest" /\ ticks > 0
SourceDone(i) == (pc = "source" /\ i < cur) \/ pc \in {"load", "plan", "apply"} \/ Ended
LoadDone(i)   == (pc = "load" /\ i < cur) \/ pc \in {"plan", "apply"} \/ Ended

(* What has been recorded in this tick is shown, or is about to be.        *)
SourcesInv ==
  \A i \in DOMAIN UPSOrder :
    SourceDone(i) => Shows(gauge, Pending, "source", UPSOrder[i], src[UPSOrder[i]])

LoadShown(l) ==
  /\ Shows(gauge, Pending, "desired", l, Shown(l))
  /\ Shows(gauge, Pending, "requested", l, req[l])
  /\ Shows(gauge, Pending, "actual", l, actual[l])
  /\ LoadType[l] = "nut-server" => Shows(gauge, Pending, "shed", l, shed[l])

LoadsInv == \A i \in DOMAIN LoadOrder : LoadDone(i) => LoadShown(LoadOrder[i])

(* Once the plan is made, nothing writes a one-hot gauge until the next    *)
(* tick polls.                                                             *)
QuietInv == pc \in {"apply", "rest"} => \A w \in Pending : w.key \notin OneHotKeys

(* The plan and what was taken from it are what the tick's locals call for.*)
Called(l) == {k \in ReconcileLoad(LoadType[l], Shown(l), actual[l], shed[l]) :
                held => ~isPowerOn(k)}

PlanInv ==
  \A l \in Loads :
    /\ pc = "apply" \/ Ended => plan[l] \cup took[l] = Called(l)
    /\ ~(pc = "apply" \/ Ended) => took[l] = {}
    /\ pc # "apply" => plan[l] = {}

GraceKey == <<"grace", "all", NoLabel>>
GraceInv == ~Grace \/ pc = "apply" \/ Ended => Will(gauge, Pending, GraceKey, b2f(held))

BeatKey  == <<"reconcile", "all", NoLabel>>
HeartInv ==
  /\ gauge[BeatKey] \in Nat /\ gauge[BeatKey] <= ticks
  /\ \A w \in Pending : w.key = BeatKey => pc = "rest" /\ w.op = "set" /\ w.val = ticks
  /\ pc \notin {"preflight", "rest"} => gauge[BeatKey] < ticks

(* The children that the polls of a UPS write and a failed poll leaves.    *)
GoodKeys(u) == {<<"last_success", u, NoLabel>>} \cup {<<"telemetry", u, s>> : s \in Members(Specs)}

ShowsGood(g, W, u, vars, at) ==
  /\ Will(g, W, <<"last_success", u, NoLabel>>, at)
  /\ \A s \in Members(Specs) : Will(g, W, <<"telemetry", u, s>>, firstFloat(vars, Names[s]))

LastGood(u) ==
  \/ /\ fetched[u] = {}
     /\ \A k \in GoodKeys(u) : gauge[k] = Absent /\ \A w \in Pending : w.key # k
  \/ \E r \in Readings, n \in 0..ticks :
       fetched[u] = {[vars |-> r.vars, at |-> n]} /\ ShowsGood(gauge, Pending, u, r.vars, n)

LastGoodInv == \A u \in UPS : LastGood(u)

(* A state of a scraped gauge that is hot, or going to be, is the last one *)
(* recorded, or the one before if it is going to be cold.                  *)
Child(series, s) == <<series[1], series[2], s>>

SaidInv ==
  \A series \in Scraped : \A s \in Members(StatesOf(series[1])) :
    /\ gauge[Child(series, s)] = 1 =>
         \/ s \in said[series][2]
         \/ s \in said[series][1] /\ \E w \in Pending : w.key = Child(series, s)
    /\ \A w \in Pending : w.key = Child(series, s) /\ w.val = 1 => s \in said[series][2]

ScrapeInv ==
  /\ DOMAIN scrape = {"of", "unread", "hot", "was", "whole"}
  /\ scrape.hot \subseteq scrape.was
  /\ scrape.of \in Scraped \/ scrape.unread = {}
  /\ scrape.of \in Scraped =>
       /\ said[scrape.of][2] \subseteq scrape.was /\ Hot(scrape.of) \subseteq scrape.was

MetricsInv == /\ TypesInv /\ SourcesInv /\ LoadsInv /\ QuietInv /\ PlanInv /\ GraceInv
              /\ HeartInv /\ LastGoodInv /\ SaidInv /\ ScrapeInv

-----------------------------------------------------------------------------
(* Sequences as the sets of their members.                                 *)
LEMMA MembersConcat ==
  ASSUME NEW S, NEW s \in Seq(S), NEW t \in Seq(S)
  PROVE  s \o t \in Seq(S) /\ Members(s \o t) = Members(s) \cup Members(t)
<1>1. s \o t \in Seq(S)
  OBVIOUS
<1>2. ASSUME NEW x \in Members(s \o t) PROVE x \in Members(s) \cup Members(t)
  <2>1. PICK i \in 1..(Len(s) + Len(t)) : x = (s \o t)[i]
    BY <1>2 DEF Members
  <2>2. CASE i <= Len(s)
    BY <2>1, <2>2 DEF Members
  <2>3. CASE i > Len(s)
    <3>1. i - Len(s) \in DOMAIN t /\ x = t[i - Len(s)]
      BY <2>1, <2>3
    <3> QED BY <3>1 DEF Members
  <2> QED BY <2>1, <2>2, <2>3
<1>3. ASSUME NEW x \in Members(s) PROVE x \in Members(s \o t)
  <2>1. PICK i \in 1..Len(s) : x = s[i]
    BY <1>3 DEF Members
  <2>2. i \in DOMAIN (s \o t) /\ (s \o t)[i] = x
    BY <2>1
  <2> QED BY <2>2 DEF Members
<1>4. ASSUME NEW x \in Members(t) PROVE x \in Members(s \o t)
  <2>1. PICK i \in 1..Len(t) : x = t[i]
    BY <1>4 DEF Members
  <2>2. Len(s) + i \in DOMAIN (s \o t) /\ (s \o t)[Len(s) + i] = x
    BY <2>1
  <2> QED BY <2>2 DEF Members
<1> QED BY <1>1, <1>2, <1>3, <1>4

LEMMA Joined ==
  ASSUME NEW s \in Seq(GoodWrite), NEW t \in Seq(GoodWrite)
  PROVE  s \o t \in Seq(GoodWrite) /\ Members(s \o t) = Members(s) \cup Members(t)
BY MembersConcat

LEMMA MembersHeadTail ==
  ASSUME NEW S, NEW s \in Seq(S), s # <<>>
  PROVE  /\ Head(s) \in S /\ Tail(s) \in Seq(S)
         /\ Members(s) = {Head(s)} \cup Members(Tail(s))
<1>1. Head(s) \in S /\ Tail(s) \in Seq(S) /\ Head(s) = s[1] /\ 1 \in DOMAIN s
  OBVIOUS
<1>2. ASSUME NEW x \in Members(s) PROVE x \in {Head(s)} \cup Members(Tail(s))
  <2>1. PICK i \in 1..Len(s) : x = s[i]
    BY <1>2 DEF Members
  <2>2. CASE i # 1
    <3>1. i - 1 \in DOMAIN Tail(s) /\ Tail(s)[i - 1] = x
      BY <2>1, <2>2
    <3> QED BY <3>1 DEF Members
  <2> QED BY <1>1, <2>1, <2>2
<1>3. ASSUME NEW x \in Members(Tail(s)) PROVE x \in Members(s)
  <2>1. PICK i \in 1..Len(Tail(s)) : x = Tail(s)[i]
    BY <1>1, <1>3 DEF Members
  <2>2. i + 1 \in DOMAIN s /\ s[i + 1] = x
    BY <2>1
  <2> QED BY <2>2 DEF Members
<1>4. Head(s) \in Members(s)
  BY <1>1 DEF Members
<1> QED BY <1>1, <1>2, <1>3, <1>4

LEMMA MembersFew ==
  /\ Members(<<>>) = {}
  /\ \A a : Members(<<a>>) = {a}
  /\ \A a, b : Members(<<a, b>>) = {a, b}
  /\ \A a, b, c : Members(<<a, b, c>>) = {a, b, c}
  /\ \A a, b, c, d : Members(<<a, b, c, d>>) = {a, b, c, d}
BY DEF Members

LEMMA SeqFew ==
  ASSUME NEW S, NEW a \in S, NEW b \in S
  PROVE  <<>> \in Seq(S) /\ <<a>> \in Seq(S) /\ <<a, b>> \in Seq(S)
OBVIOUS

LEMMA SeqMap ==
  ASSUME NEW n \in Nat, NEW S, NEW f, f = [i \in 1..n |-> f[i]], \A i \in 1..n : f[i] \in S
  PROVE  f \in Seq(S)
OBVIOUS

LEMMA MembersEmpty ==
  ASSUME NEW S, NEW s \in Seq(S)
  PROVE  Members(s) = {} <=> s = <<>>
<1>1. s # <<>> => s[1] \in Members(s)
  BY DEF Members
<1> QED BY <1>1, MembersFew

(* The states of each gauge.                                               *)
OneHotVec == {"source", "desired", "requested", "actual", "shed"}

LEMMA States ==
  /\ Members(StatesOf("source")) = SourceState
  /\ Members(StatesOf("desired")) = Desired
  /\ Members(StatesOf("requested")) = Request
  /\ Members(StatesOf("actual")) = ActualState
  /\ Members(StatesOf("shed")) = ShedState
BY MembersFew DEF StatesOf, sourceStates, desiredStates, requestStates, actualStates, shedStates,
                  SourceState, Desired, Request, ActualState, ShedState

(* Which children there are.                                               *)
LEMMA KeyShapes ==
  /\ \A u \in UPS, s \in SourceState : <<"source", u, s>> \in OneHotKeys
  /\ \A vec \in OneHotVec \ {"source"}, l \in Loads : \A s \in Members(StatesOf(vec)) :
        <<vec, l, s>> \in OneHotKeys
  /\ \A k \in OneHotKeys : k[1] \in OneHotVec
  /\ OneHotKeys \subseteq Keys
  /\ GraceKey \in Keys /\ BeatKey \in Keys
  /\ \A u \in UPS : /\ <<"reachable", u, NoLabel>> \in Keys /\ <<"poll_failures", u, NoLabel>> \in Keys
                    /\ GoodKeys(u) \subseteq Keys
                    /\ \A f \in Members(Flags) : <<"status", u, f>> \in Keys
  /\ \A l \in Loads, k \in ActionKind : <<"actions", l, k>> \in Keys /\ <<"failures", l, k>> \in Keys
<1>1. Members(sourceStates) = SourceState
  BY States DEF StatesOf
<1>2. \A k \in OneHotKeys : k[1] \in OneHotVec
  BY DEF OneHotKeys, OneHotVec
<1>3. \A u \in UPS, s \in SourceState : <<"source", u, s>> \in OneHotKeys
  BY <1>1 DEF OneHotKeys
<1>4. ASSUME NEW vec \in OneHotVec \ {"source"}, NEW l \in Loads, NEW s \in Members(StatesOf(vec))
      PROVE  <<vec, l, s>> \in OneHotKeys
  BY DEF OneHotKeys, OneHotVec
<1> DEFINE B == {<<vec, "all", NoLabel>> : vec \in {"grace", "dry_run", "reconcile"}}
           C == {<<vec, u, NoLabel>> : vec \in {"reachable", "poll_failures", "last_success"}, u \in UPS}
           D == {<<"status", u, f>> : u \in UPS, f \in Members(Flags)}
           E == {<<"telemetry", u, s>> : u \in UPS, s \in Members(Specs)}
           F == {<<vec, l, k>> : vec \in {"actions", "failures"}, l \in Loads, k \in ActionKind}
<1>5. Keys = OneHotKeys \cup B \cup C \cup D \cup E \cup F
  BY DEF Keys
<1>6. GraceKey \in B /\ BeatKey \in B
  BY DEF GraceKey, BeatKey
<1>7. \A u \in UPS : /\ <<"reachable", u, NoLabel>> \in C /\ <<"poll_failures", u, NoLabel>> \in C
                     /\ <<"last_success", u, NoLabel>> \in C
                     /\ \A f \in Members(Flags) : <<"status", u, f>> \in D
                     /\ \A t \in Members(Specs) : <<"telemetry", u, t>> \in E
  OBVIOUS
<1>8. \A l \in Loads, k \in ActionKind : <<"actions", l, k>> \in F /\ <<"failures", l, k>> \in F
  OBVIOUS
<1> HIDE DEF B, C, D, E, F
<1>9. OneHotKeys \subseteq Keys /\ B \subseteq Keys /\ C \subseteq Keys /\ D \subseteq Keys
      /\ E \subseteq Keys /\ F \subseteq Keys
  BY <1>5
<1>10. \A u \in UPS : GoodKeys(u) \subseteq Keys
  BY <1>7, <1>9 DEF GoodKeys
<1> QED BY <1>2, <1>3, <1>4, <1>6, <1>7, <1>8, <1>9, <1>10

(* firstFloat is a number or Absent: of the usable names one comes first.  *)
LEMMA HasFirst ==
  ASSUME NEW U, U \subseteq Nat, U # {}
  PROVE  \E i \in U : \A j \in U : i <= j
<1> DEFINE R == {ss \in Nat \X Nat : ss[1] < ss[2]}
<1>1. IsWellFoundedOn(R, Nat)
  BY NatLessThanWellFounded DEF OpToRel
<1>2. \A i, j \in Nat : j < i => <<j, i>> \in R
  OBVIOUS
<1> HIDE DEF R
<1>3. PICK i \in U : \A j \in U : <<j, i>> \notin R
  BY <1>1, WFMin
<1>4. \A j \in U : ~(j < i)
  BY <1>2, <1>3
<1> QED BY <1>4

LEMMA FirstFloatValue ==
  ASSUME NEW r \in Readings, NEW s \in Members(Specs)
  PROVE  firstFloat(r.vars, Names[s]) \in Value
<1> DEFINE usable == {i \in DOMAIN Names[s] : r.vars[Names[s][i]] > Absent}
<1>1. DOMAIN Names[s] \subseteq Nat
  BY MetricsAssumption
<1>2. ASSUME NEW i \in DOMAIN Names[s] PROVE r.vars[Names[s][i]] \in Int
  <2>1. Names[s][i] \in Members(Names[s])
    BY DEF Members
  <2> QED BY <2>1, MetricsAssumption
<1>3. CASE usable = {}
  BY <1>3, Values DEF firstFloat
<1>4. CASE usable # {}
  <2> DEFINE first == CHOOSE n \in usable : \A j \in usable : n <= j
  <2>1. first \in usable
    BY <1>1, <1>4, HasFirst
  <2>2. firstFloat(r.vars, Names[s]) = r.vars[Names[s][first]]
    BY <1>4 DEF firstFloat
  <2> HIDE DEF first
  <2>3. r.vars[Names[s][first]] \in Value
    BY <1>2, <2>1 DEF Value, Absent
  <2> QED BY <2>2, <2>3
<1> QED BY <1>3, <1>4

-----------------------------------------------------------------------------
(* The writes that each recorder makes, and that a child can take them.    *)
LEMMA Fields ==
  \A vec, id, label, v :
    /\ Set(vec, id, label, v).key = <<vec, id, label>> /\ Inc(vec, id, label).key = <<vec, id, label>>
    /\ Set(vec, id, label, v).op = "set" /\ Set(vec, id, label, v).val = v
    /\ Set(vec, id, label, v).key[1] = vec /\ Set(vec, id, label, v).key[2] = id
    /\ Inc(vec, id, label).key[1] = vec /\ Inc(vec, id, label).key[2] = id
BY DEF Set, Inc

LEMMA GoodSet ==
  ASSUME NEW vec, NEW id, NEW label, NEW v \in Value, <<vec, id, label>> \in Keys,
         vec \in OneHotVec => v \in {0, 1}
  PROVE  Set(vec, id, label, v) \in GoodWrite
BY KeyShapes DEF Set, GoodWrite

LEMMA GoodInc ==
  ASSUME NEW vec, NEW id, NEW label, <<vec, id, label>> \in Keys, vec \notin OneHotVec
  PROVE  Inc(vec, id, label) \in GoodWrite
BY KeyShapes DEF Inc, GoodWrite, Value, Absent

OneHotWrites(vec, id, active) == {Set(vec, id, s, b2f(s = active)) : s \in Members(StatesOf(vec))}

LEMMA OneHotRecords ==
  ASSUME NEW vec \in OneHotVec, NEW id, NEW active,
         \A s \in Members(StatesOf(vec)) : <<vec, id, s>> \in OneHotKeys
  PROVE  /\ setOneHot(vec, id, active) \in Seq(GoodWrite)
         /\ Members(setOneHot(vec, id, active)) = OneHotWrites(vec, id, active)
<1> DEFINE order == StatesOf(vec)
<1>1. PICK n \in Nat : DOMAIN order = 1..n
  <2>1. DOMAIN order = 1..3 \/ DOMAIN order = 1..4
    BY DEF OneHotVec, StatesOf, sourceStates, desiredStates, requestStates, actualStates, shedStates
  <2> QED BY <2>1
<1>2. \A i \in 1..n : order[i] \in Members(order)
  BY <1>1 DEF Members
<1>3. \A s \in Members(order) : Set(vec, id, s, b2f(s = active)) \in GoodWrite
  BY GoodSet, KeyShapes, Values DEF b2f
<1>4. setOneHot(vec, id, active) = [i \in 1..n |-> Set(vec, id, order[i], b2f(order[i] = active))]
  BY <1>1 DEF setOneHot
<1>5. setOneHot(vec, id, active) \in Seq(GoodWrite)
  BY <1>2, <1>3, <1>4
<1>6. ASSUME NEW x \in Members(setOneHot(vec, id, active)) PROVE x \in OneHotWrites(vec, id, active)
  <2>1. PICK i \in 1..n : x = Set(vec, id, order[i], b2f(order[i] = active))
    BY <1>4, <1>6 DEF Members
  <2> QED BY <1>2, <2>1 DEF OneHotWrites
<1>7. \A x \in OneHotWrites(vec, id, active) : x \in Members(setOneHot(vec, id, active))
  <2>1. \A s \in Members(order) : \E i \in 1..n : s = order[i]
    BY <1>1 DEF Members
  <2>2. \A i \in 1..n : Set(vec, id, order[i], b2f(order[i] = active)) \in Members(setOneHot(vec, id, active))
    BY <1>4 DEF Members
  <2> QED BY <2>1, <2>2 DEF OneHotWrites
<1> QED BY <1>5, <1>6, <1>7

StatusWrites(u, r) == {Set("status", u, f, b2f(f \in r.flags)) : f \in Members(Flags)}
TelemetryWrites(u, r) == {Set("telemetry", u, s, firstFloat(r.vars, Names[s])) : s \in Members(Specs)}

LEMMA PollOKRecords ==
  ASSUME NEW u \in UPS, NEW r \in Readings, ticks \in Nat
  PROVE  /\ RecordPollOK(u, r) \in Seq(GoodWrite)
         /\ Members(RecordPollOK(u, r)) =
              {Set("reachable", u, NoLabel, 1), Set("last_success", u, NoLabel, ticks)}
              \cup StatusWrites(u, r) \cup TelemetryWrites(u, r)
<1> DEFINE head == <<Set("reachable", u, NoLabel, 1), Set("last_success", u, NoLabel, ticks)>>
           status == [i \in DOMAIN Flags |-> Set("status", u, Flags[i], b2f(Flags[i] \in r.flags))]
           telemetry == recordTelemetry(u, r)
<1>1. head \in Seq(GoodWrite)
      /\ Members(head) = {Set("reachable", u, NoLabel, 1), Set("last_success", u, NoLabel, ticks)}
  <2>1. Set("reachable", u, NoLabel, 1) \in GoodWrite /\ Set("last_success", u, NoLabel, ticks) \in GoodWrite
    BY GoodSet, KeyShapes, Values DEF OneHotVec, GoodKeys
  <2> QED BY <2>1, SeqFew, MembersFew
<1>2. status \in Seq(GoodWrite) /\ Members(status) = StatusWrites(u, r)
  <2>1. \A f \in Members(Flags) : Set("status", u, f, b2f(f \in r.flags)) \in GoodWrite
    BY GoodSet, KeyShapes, Values DEF OneHotVec, b2f
  <2>2. \A i \in DOMAIN Flags : Flags[i] \in Members(Flags)
    BY DEF Members
  <2>3. status \in Seq(GoodWrite)
    <3>1. \A i \in 1..Len(Flags) : status[i] \in GoodWrite
      BY <2>1, <2>2, MetricsAssumption
    <3>2. status = [i \in 1..Len(Flags) |-> status[i]]
      BY MetricsAssumption
    <3> HIDE DEF status
    <3> QED BY <3>1, <3>2, SeqMap, MetricsAssumption
  <2>4. \A x \in Members(status) : x \in StatusWrites(u, r)
    BY <2>2 DEF Members, StatusWrites
  <2>5. \A x \in StatusWrites(u, r) : x \in Members(status)
    BY DEF Members, StatusWrites
  <2> QED BY <2>3, <2>4, <2>5
<1>3. telemetry \in Seq(GoodWrite) /\ Members(telemetry) = TelemetryWrites(u, r)
  <2>1. \A s \in Members(Specs) : Set("telemetry", u, s, firstFloat(r.vars, Names[s])) \in GoodWrite
    BY GoodSet, KeyShapes, FirstFloatValue DEF OneHotVec, GoodKeys
  <2>2. \A i \in DOMAIN Specs : Specs[i] \in Members(Specs)
    BY DEF Members
  <2>3. telemetry \in Seq(GoodWrite)
    <3>1. \A i \in 1..Len(Specs) : telemetry[i] \in GoodWrite
      BY <2>1, <2>2, MetricsAssumption DEF recordTelemetry
    <3>2. telemetry = [i \in 1..Len(Specs) |-> telemetry[i]]
      BY MetricsAssumption DEF recordTelemetry
    <3> QED BY <3>1, <3>2, SeqMap, MetricsAssumption
  <2>4. \A x \in Members(telemetry) : x \in TelemetryWrites(u, r)
    BY <2>2 DEF Members, TelemetryWrites, recordTelemetry
  <2>5. \A x \in TelemetryWrites(u, r) : x \in Members(telemetry)
    BY DEF Members, TelemetryWrites, recordTelemetry
  <2> QED BY <2>3, <2>4, <2>5
<1>4. RecordPollOK(u, r) = (head \o status) \o telemetry
  <2>1. RecordPollOK(u, r) = head \o status \o telemetry
    BY DEF RecordPollOK
  <2> QED BY <2>1
<1> HIDE DEF head, status, telemetry
<1>5. head \o status \in Seq(GoodWrite) /\ Members(head \o status) = Members(head) \cup Members(status)
  BY <1>1, <1>2, Joined
<1>6. /\ (head \o status) \o telemetry \in Seq(GoodWrite)
      /\ Members((head \o status) \o telemetry) = Members(head \o status) \cup Members(telemetry)
  BY <1>3, <1>5, Joined
<1> QED BY <1>1, <1>2, <1>3, <1>4, <1>5, <1>6

LEMMA PollFailedRecords ==
  ASSUME NEW u \in UPS
  PROVE  /\ RecordPollFailed(u) \in Seq(GoodWrite)
         /\ Members(RecordPollFailed(u)) = {Set("reachable", u, NoLabel, 0), Inc("poll_failures", u, NoLabel)}
<1>1. Set("reachable", u, NoLabel, 0) \in GoodWrite /\ Inc("poll_failures", u, NoLabel) \in GoodWrite
  BY GoodSet, GoodInc, KeyShapes, Values DEF OneHotVec
<1> QED BY <1>1, SeqFew, MembersFew DEF RecordPollFailed

LoadWrites(l, d) ==
  OneHotWrites("desired", l, d) \cup OneHotWrites("requested", l, req[l])
  \cup OneHotWrites("actual", l, actual[l])
  \cup IF LoadType[l] = "nut-server" THEN OneHotWrites("shed", l, shed[l]) ELSE {}

LEMMA LoadRecords ==
  ASSUME NEW l \in Loads, NEW d
  PROVE  RecordLoad(l, d) \in Seq(GoodWrite) /\ Members(RecordLoad(l, d)) = LoadWrites(l, d)
<1> DEFINE D == setOneHot("desired", l, d)
           R == setOneHot("requested", l, req[l])
           A == setOneHot("actual", l, actual[l])
           S == IF LoadType[l] = "nut-server" THEN setOneHot("shed", l, shed[l]) ELSE <<>>
<1>1. ASSUME NEW vec \in OneHotVec \ {"source"}, NEW active
      PROVE  /\ setOneHot(vec, l, active) \in Seq(GoodWrite)
             /\ Members(setOneHot(vec, l, active)) = OneHotWrites(vec, l, active)
  BY OneHotRecords, KeyShapes
<1>2. D \in Seq(GoodWrite) /\ Members(D) = OneHotWrites("desired", l, d)
  BY <1>1 DEF OneHotVec
<1>3. R \in Seq(GoodWrite) /\ Members(R) = OneHotWrites("requested", l, req[l])
  BY <1>1 DEF OneHotVec
<1>4. A \in Seq(GoodWrite) /\ Members(A) = OneHotWrites("actual", l, actual[l])
  BY <1>1 DEF OneHotVec
<1>5. /\ S \in Seq(GoodWrite)
      /\ Members(S) = IF LoadType[l] = "nut-server" THEN OneHotWrites("shed", l, shed[l]) ELSE {}
  <2>1. CASE LoadType[l] = "nut-server"
    BY <1>1, <2>1 DEF OneHotVec
  <2>2. CASE LoadType[l] # "nut-server"
    BY <2>2, MembersFew
  <2> QED BY <2>1, <2>2
<1>6. RecordLoad(l, d) = ((D \o R) \o A) \o S
  BY DEF RecordLoad
<1> HIDE DEF D, R, A, S
<1>7. D \o R \in Seq(GoodWrite) /\ Members(D \o R) = Members(D) \cup Members(R)
  BY <1>2, <1>3, Joined
<1>8. (D \o R) \o A \in Seq(GoodWrite) /\ Members((D \o R) \o A) = Members(D \o R) \cup Members(A)
  BY <1>4, <1>7, Joined
<1>9. /\ ((D \o R) \o A) \o S \in Seq(GoodWrite)
      /\ Members(((D \o R) \o A) \o S) = Members((D \o R) \o A) \cup Members(S)
  BY <1>5, <1>8, Joined
<1> QED BY <1>2, <1>3, <1>4, <1>5, <1>6, <1>7, <1>8, <1>9 DEF LoadWrites

LEMMA GraceRecords ==
  ASSUME NEW active
  PROVE  /\ RecordStartupGrace(active) \in Seq(GoodWrite)
         /\ Members(RecordStartupGrace(active)) = {Set("grace", "all", NoLabel, b2f(active))}
<1>1. Set("grace", "all", NoLabel, b2f(active)) \in GoodWrite
  BY GoodSet, KeyShapes, Values DEF OneHotVec, b2f, GraceKey
<1> QED BY <1>1, SeqFew, MembersFew DEF RecordStartupGrace

LEMMA ActionRecords ==
  ASSUME NEW l \in Loads, NEW k \in ActionKind, NEW failed
  PROVE  /\ RecordAction(l, k, failed) \in Seq(GoodWrite)
         /\ Members(RecordAction(l, k, failed)) \subseteq {Inc("actions", l, k), Inc("failures", l, k)}
<1> DEFINE F == IF failed THEN <<Inc("failures", l, k)>> ELSE <<>>
<1>1. Inc("actions", l, k) \in GoodWrite /\ Inc("failures", l, k) \in GoodWrite
  BY GoodInc, KeyShapes DEF OneHotVec
<1>2. <<Inc("actions", l, k)>> \in Seq(GoodWrite) /\ F \in Seq(GoodWrite)
  BY <1>1, SeqFew
<1>3. Members(<<Inc("actions", l, k)>>) = {Inc("actions", l, k)} /\ Members(F) \subseteq {Inc("failures", l, k)}
  BY MembersFew
<1>4. RecordAction(l, k, failed) = <<Inc("actions", l, k)>> \o F
  BY DEF RecordAction
<1> HIDE DEF F
<1> QED BY <1>2, <1>3, <1>4, Joined

LEMMA BeatRecords ==
  ASSUME ticks \in Nat
  PROVE  /\ <<Set("reconcile", "all", NoLabel, ticks)>> \in Seq(GoodWrite)
         /\ Members(<<Set("reconcile", "all", NoLabel, ticks)>>) = {Set("reconcile", "all", NoLabel, ticks)}
<1>1. Set("reconcile", "all", NoLabel, ticks) \in GoodWrite
  BY GoodSet, KeyShapes, Values DEF OneHotVec, BeatKey
<1> QED BY <1>1, SeqFew, MembersFew

-----------------------------------------------------------------------------
(* The effect of each kind of step on the registry and the writes to come. *)
LEMMA WriteStep ==
  ASSUME TypesInv, Write
  PROVE  \E w \in GoodWrite :
           /\ w \in Pending /\ Pending = {w} \cup Pending' /\ todo' \in Seq(GoodWrite)
           /\ gauge' \in [Keys -> Value]
           /\ \A k \in Keys : k # w.key => gauge'[k] = gauge[k]
           /\ w.op = "set" => gauge'[w.key] = w.val
           /\ \A k \in OneHotKeys : gauge'[k] \in {Absent, 0, 1}
<1> DEFINE w == Head(todo)
<1>1. w \in GoodWrite /\ todo' \in Seq(GoodWrite) /\ Pending = {w} \cup Pending'
  BY MembersHeadTail DEF Write, TypesInv, Pending
<1>2. w.key \in Keys /\ w.op \in {"set", "inc"} /\ w.val \in Value
      /\ (w.key \in OneHotKeys => w.op = "set" /\ w.val \in {0, 1})
  BY <1>1 DEF GoodWrite
<1> DEFINE old == IF gauge[w.key] = Absent THEN 0 ELSE gauge[w.key]
           new == IF w.op = "inc" THEN old + 1 ELSE w.val
<1>3. gauge' = [gauge EXCEPT ![w.key] = new]
  BY DEF Write
<1>4. new \in Value
  BY <1>2 DEF TypesInv, Value, Absent
<1>5. w.op = "set" => new = w.val
  OBVIOUS
<1> HIDE DEF w, new
<1>6. gauge' \in [Keys -> Value] /\ gauge'[w.key] = new /\ \A k \in Keys : k # w.key => gauge'[k] = gauge[k]
  BY <1>2, <1>3, <1>4 DEF TypesInv
<1>7. \A k \in OneHotKeys : gauge'[k] \in {Absent, 0, 1}
  BY <1>2, <1>5, <1>6, KeyShapes DEF TypesInv
<1> QED BY <1>1, <1>5, <1>6, <1>7

(* A child that is going to have a value goes on to.                       *)
LEMMA WillWrite ==
  ASSUME TypesInv, Write, NEW k \in Keys, NEW v, Will(gauge, Pending, k, v)
  PROVE  Will(gauge', Pending', k, v)
BY WriteStep DEF Will

LEMMA WillKeep ==
  ASSUME todo = <<>>, gauge' = gauge, NEW k, NEW v, Will(gauge, Pending, k, v),
         \A w \in Pending' : w.key # k
  PROVE  Will(gauge', Pending', k, v)
<1>1. Pending = {}
  BY MembersFew DEF Pending
<1> QED BY <1>1 DEF Will

LEMMA ShowsWrite ==
  ASSUME TypesInv, Write, NEW vec, NEW id, NEW active,
         \A s \in Members(StatesOf(vec)) : <<vec, id, s>> \in Keys,
         Shows(gauge, Pending, vec, id, active)
  PROVE  Shows(gauge', Pending', vec, id, active)
BY WillWrite DEF Shows

LEMMA ShowsKeep ==
  ASSUME todo = <<>>, gauge' = gauge, NEW vec, NEW id, NEW active,
         Shows(gauge, Pending, vec, id, active),
         \A w \in Pending' : w.key[1] # vec \/ w.key[2] # id
  PROVE  Shows(gauge', Pending', vec, id, active)
<1>1. \A s \in Members(StatesOf(vec)) : \A w \in Pending' : w.key # <<vec, id, s>>
  OBVIOUS
<1> QED BY <1>1, WillKeep DEF Shows

(* What a recorder is told is going to be shown.                           *)
LEMMA ShowsNow ==
  ASSUME NEW g, NEW W, NEW vec, NEW id, NEW active, OneHotWrites(vec, id, active) \subseteq W,
         \A w \in W : w \in OneHotWrites(vec, id, active) \/ w.key[1] # vec
  PROVE  Shows(g, W, vec, id, active)
<1> SUFFICES ASSUME NEW s \in Members(StatesOf(vec))
             PROVE  Will(g, W, <<vec, id, s>>, b2f(s = active))
  BY DEF Shows
<1>1. Set(vec, id, s, b2f(s = active)) \in W
  BY DEF OneHotWrites
<1>2. ASSUME NEW w \in W, w.key = <<vec, id, s>> PROVE w.op = "set" /\ w.val = b2f(s = active)
  <2>1. w \in OneHotWrites(vec, id, active)
    BY <1>2
  <2>2. PICK t \in Members(StatesOf(vec)) : w = Set(vec, id, t, b2f(t = active))
    BY <2>1 DEF OneHotWrites
  <2>3. t = s
    BY <1>2, <2>2 DEF Set
  <2> QED BY <2>2, <2>3 DEF Set
<1> QED BY <1>1, <1>2 DEF Will, Set

(* Which gauges each action is going to write.                             *)
PollVec == {"reachable", "poll_failures", "last_success", "status", "telemetry"}

Recording(vecs) ==
  /\ todo = <<>> /\ gauge' = gauge /\ todo' \in Seq(GoodWrite)
  /\ \A w \in Pending' : w.key[1] \in vecs

LEMMA PollRecording ==
  ASSUME TypesInv, PollOK \/ PollFailed
  PROVE  /\ pc \in {"poll", "preflight"} /\ UPSOrder[cur] \in UPS
         /\ Recording(PollVec) /\ \A w \in Pending' : w.key[2] = UPSOrder[cur]
<1> DEFINE u == UPSOrder[cur]
<1>1. pc \in {"poll", "preflight"} /\ todo = <<>> /\ u \in UPS
  BY DEF PollOK, PollFailed, Poll, Classified, Step, TypesInv, UPS
<1>2. ASSUME NEW r \in Readings, Record(RecordPollOK(u, r))
      PROVE  Recording(PollVec) /\ \A w \in Pending' : w.key[2] = u
  <2>1. /\ todo' \in Seq(GoodWrite)
        /\ Pending' = {Set("reachable", u, NoLabel, 1), Set("last_success", u, NoLabel, ticks)}
                      \cup StatusWrites(u, r) \cup TelemetryWrites(u, r)
    BY <1>1, <1>2, PollOKRecords DEF Record, Pending, TypesInv
  <2>2. \A w \in StatusWrites(u, r) \cup TelemetryWrites(u, r) : w.key[1] \in PollVec /\ w.key[2] = u
    BY DEF StatusWrites, TelemetryWrites, Set, PollVec
  <2>3. \A w \in Pending' : w.key[1] \in PollVec /\ w.key[2] = u
    BY <2>1, <2>2, Fields DEF PollVec
  <2> QED BY <1>1, <1>2, <2>1, <2>3 DEF Recording, Record
<1>3. ASSUME Record(RecordPollFailed(u))
      PROVE  Recording(PollVec) /\ \A w \in Pending' : w.key[2] = u
  <2>1. /\ todo' \in Seq(GoodWrite)
        /\ Pending' = {Set("reachable", u, NoLabel, 0), Inc("poll_failures", u, NoLabel)}
    BY <1>1, <1>3, PollFailedRecords DEF Record, Pending
  <2>2. \A w \in Pending' : w.key[1] \in PollVec /\ w.key[2] = u
    BY <2>1, Fields DEF PollVec
  <2> QED BY <1>1, <1>3, <2>1, <2>2 DEF Recording, Record
<1> QED BY <1>1, <1>2, <1>3 DEF PollOK, PollFailed

LEMMA SourceRecording ==
  ASSUME TypesInv, RecordSource
  PROVE  /\ pc = "source" /\ UPSOrder[cur] \in UPS /\ Recording({"source"})
         /\ Pending' = OneHotWrites("source", UPSOrder[cur], src[UPSOrder[cur]])
<1> DEFINE u == UPSOrder[cur]
<1>1. pc = "source" /\ todo = <<>> /\ u \in UPS
  BY DEF RecordSource, Step, TypesInv, UPS
<1>2. todo' = setOneHot("source", u, src[u]) /\ gauge' = gauge
  BY DEF RecordSource, Record
<1>3. todo' \in Seq(GoodWrite) /\ Pending' = OneHotWrites("source", u, src[u])
  BY <1>1, <1>2, OneHotRecords, KeyShapes, States DEF OneHotVec, Pending
<1> QED BY <1>1, <1>2, <1>3 DEF Recording, OneHotWrites, Set

LoadVec == {"desired", "requested", "actual", "shed"}

LEMMA LoadRecording ==
  ASSUME TypesInv, RecordLoads
  PROVE  /\ pc = "load" /\ LoadOrder[cur] \in Loads /\ Recording(LoadVec)
         /\ Pending' = LoadWrites(LoadOrder[cur], Shown(LoadOrder[cur]))
         /\ \A w \in Pending' : w.key[2] = LoadOrder[cur]
<1> DEFINE l == LoadOrder[cur]
<1>1. pc = "load" /\ todo = <<>> /\ l \in Loads
  BY DEF RecordLoads, Step, TypesInv, Loads
<1>2. todo' = RecordLoad(l, Shown(l)) /\ gauge' = gauge
  BY DEF RecordLoads, Record
<1>3. todo' \in Seq(GoodWrite) /\ Pending' = LoadWrites(l, Shown(l))
  BY <1>1, <1>2, LoadRecords DEF Pending
<1>4. \A w \in LoadWrites(l, Shown(l)) : w.key[1] \in LoadVec /\ w.key[2] = l
  BY DEF LoadWrites, OneHotWrites, Set, LoadVec
<1> QED BY <1>1, <1>2, <1>3, <1>4 DEF Recording

LEMMA PlanRecording ==
  ASSUME TypesInv, Plan
  PROVE  /\ Recording({"grace"})
         /\ Pending' = IF Grace THEN {Set("grace", "all", NoLabel, b2f(held'))} ELSE {}
<1>1. todo = <<>> /\ gauge' = gauge
      /\ todo' = IF Grace THEN RecordStartupGrace(held') ELSE <<>>
  BY DEF Plan, Record
<1>2. todo' \in Seq(GoodWrite) /\ Pending' = IF Grace THEN {Set("grace", "all", NoLabel, b2f(held'))} ELSE {}
  <2>1. CASE Grace
    BY <1>1, <2>1, GraceRecords DEF Pending
  <2>2. CASE ~Grace
    BY <1>1, <2>2, MembersFew DEF Pending
  <2> QED BY <2>1, <2>2
<1>3. \A w \in Pending' : w.key[1] = "grace"
  BY <1>2, Fields
<1> QED BY <1>1, <1>2, <1>3 DEF Recording

LEMMA ApplyRecording ==
  ASSUME TypesInv, Apply
  PROVE  Recording({"actions", "failures"})
<1>0. PICK l \in Loads : \E k \in plan[l], failed \in {FALSE, ~DryRun} : Record(RecordAction(l, k, failed))
  BY DEF Apply
<1>1. PICK k \in plan[l], failed \in {FALSE, ~DryRun} : Record(RecordAction(l, k, failed))
  BY <1>0
<1>2. k \in ActionKind
  BY DEF TypesInv
<1>3. todo' = RecordAction(l, k, failed) /\ gauge' = gauge /\ todo = <<>>
  BY <1>1 DEF Record, Apply
<1>4. todo' \in Seq(GoodWrite) /\ Pending' \subseteq {Inc("actions", l, k), Inc("failures", l, k)}
  BY <1>2, <1>3, ActionRecords DEF Pending
<1> QED BY <1>3, <1>4 DEF Recording, Inc

LEMMA EndRecording ==
  ASSUME TypesInv, EndTick
  PROVE  /\ Recording({"reconcile"})
         /\ Pending' = {Set("reconcile", "all", NoLabel, ticks)}
<1>1. todo = <<>> /\ gauge' = gauge /\ todo' = <<Set("reconcile", "all", NoLabel, ticks)>>
  BY DEF EndTick, Record
<1>2. todo' \in Seq(GoodWrite) /\ Pending' = {Set("reconcile", "all", NoLabel, ticks)}
  BY <1>1, BeatRecords DEF Pending, TypesInv
<1>3. \A w \in Pending' : w.key[1] = "reconcile"
  BY <1>2, Fields
<1> QED BY <1>1, <1>2, <1>3 DEF Recording

(* The steps that touch neither the registry nor the writes to come.       *)
Silent == StartTick \/ Probe
Scraping == StartScrape \/ ReadChild \/ EndScrape

LEMMA SilentStep ==
  ASSUME TypesInv, Silent
  PROVE  todo = <<>> /\ todo' = todo /\ gauge' = gauge /\ Pending' = {}
BY MembersFew DEF Silent, StartTick, Probe, Pending

-----------------------------------------------------------------------------
LEMMA Orders ==
  /\ 1 \in DOMAIN UPSOrder /\ DOMAIN UPSOrder = 1..Len(UPSOrder) /\ Len(UPSOrder) \in Nat
  /\ DOMAIN LoadOrder = 1..Len(LoadOrder) /\ Len(LoadOrder) \in Nat
  /\ LoadOrder # <<>> => 1 \in DOMAIN LoadOrder
  /\ \A i \in DOMAIN UPSOrder : UPSOrder[i] \in UPS
  /\ \A i \in DOMAIN LoadOrder : LoadOrder[i] \in Loads
  /\ \A u \in UPS : \E i \in DOMAIN UPSOrder : UPSOrder[i] = u
  /\ \A l \in Loads : \E i \in DOMAIN LoadOrder : LoadOrder[i] = l
  /\ LoadOrder = <<>> => Loads = {}
<1>1. 1 \in DOMAIN UPSOrder /\ DOMAIN UPSOrder = 1..Len(UPSOrder) /\ Len(UPSOrder) \in Nat
  BY MetricsAssumption
<1>2. DOMAIN LoadOrder = 1..Len(LoadOrder) /\ Len(LoadOrder) \in Nat
      /\ (LoadOrder # <<>> => 1 \in DOMAIN LoadOrder)
  BY MetricsAssumption
<1> QED BY <1>1, <1>2 DEF UPS, Loads

LEMMA TypesInit == Init => TypesInv
<1> SUFFICES ASSUME Init PROVE TypesInv
  OBVIOUS
<1>1. \A k \in OneHotKeys : k \in Keys /\ k[1] \in OneHotVec
  BY KeyShapes
<1>2. gauge \in [Keys -> Value] /\ \A k \in OneHotKeys : gauge[k] \in {Absent, 0, 1}
  BY <1>1 DEF Init, Value, Absent, b2f, OneHotVec
<1>3. todo \in Seq(GoodWrite)
  BY DEF Init
<1> QED BY <1>2, <1>3, MetricsAssumption
        DEF Init, TypesInv, PC, SourceState, Request, ActualState, ShedState

LEMMA TypesStep ==
  ASSUME TypesInv, [Next]_metricVars
  PROVE  TypesInv'
<1> USE Orders DEF TypesInv, PC
<1>1. CASE UNCHANGED metricVars
  BY <1>1 DEF metricVars, tickVars
<1>2. CASE Write
  <2>1. UNCHANGED <<pc, cur, tickVars>>
    BY <1>2 DEF Write
  <2> QED BY <1>2, <2>1, WriteStep DEF tickVars
<1>3. CASE StartTick
  BY <1>3, SilentStep DEF StartTick, Silent
<1>4. CASE PollOK
  <2>1. Recording(PollVec)
    BY <1>4, PollRecording
  <2>2. src' \in [UPS -> SourceState] /\ DOMAIN fetched' = UPS
    BY <1>4, MetricsAssumption DEF PollOK, Classified
  <2> QED BY <1>4, <2>1, <2>2 DEF PollOK, Poll, Step, Recording
<1>5. CASE PollFailed
  <2>1. Recording(PollVec)
    BY <1>5, PollRecording
  <2>2. src' \in [UPS -> SourceState]
    BY <1>5 DEF PollFailed, Classified, SourceState
  <2> QED BY <1>5, <2>1, <2>2 DEF PollFailed, Poll, Classified, Step, Recording
<1>6. CASE Probe
  BY <1>6, SilentStep, MetricsAssumption DEF Probe, Silent
<1>7. CASE RecordSource
  BY <1>7, SourceRecording DEF RecordSource, Step, Recording, tickVars
<1>8. CASE RecordLoads
  BY <1>8, LoadRecording DEF RecordLoads, Step, Recording, tickVars
<1>9. CASE Plan
  <2>1. \A l \in Loads : plan'[l] \subseteq ActionKind
    BY <1>9 DEF Plan, ReconcileLoad, ReconcileChassis, ReconcileServer, ActionKind, ChassisKinds, ServerKinds
  <2>2. plan' \in [Loads -> SUBSET ActionKind]
    BY <1>9, <2>1 DEF Plan
  <2>3. /\ pc' = "apply" /\ cur' = cur /\ pc = "plan" /\ held' \in {held, FALSE}
        /\ UNCHANGED <<src, req, actual, shed, took, fetched, ticks>>
    BY <1>9 DEF Plan
  <2>4. held' \in BOOLEAN /\ (held' => Grace)
    <3>1. held \in BOOLEAN /\ (held => Grace)
      BY Zenon DEF TypesInv
    <3>2. held' = held \/ held' = FALSE
      BY <2>3, Zenon
    <3>3. CASE held' = held
      BY <3>1, <3>3
    <3>4. CASE held' = FALSE
      BY <3>4
    <3> QED BY <3>2, <3>3, <3>4, Zenon
  <2>5. Recording({"grace"})
    BY <1>9, PlanRecording
  <2> QED BY <2>2, <2>3, <2>4, <2>5 DEF Recording
<1>10. CASE Apply
  <2>1. plan' \in [Loads -> SUBSET ActionKind] /\ took' \in [Loads -> SUBSET ActionKind]
    BY <1>10 DEF Apply
  <2> QED BY <1>10, <2>1, ApplyRecording DEF Apply, Recording
<1>11. CASE EndTick
  BY <1>11, EndRecording DEF EndTick, Recording, tickVars
<1>12. CASE Scraping
  <2>1. UNCHANGED <<gauge, todo, pc, cur, tickVars>>
    BY <1>12 DEF Scraping, StartScrape, ReadChild, EndScrape
  <2> QED BY <2>1 DEF tickVars
<1> QED BY <1>1, <1>2, <1>3, <1>4, <1>5, <1>6, <1>7, <1>8, <1>9, <1>10, <1>11, <1>12
        DEF Next, Scraping

-----------------------------------------------------------------------------
(* Which writes leave what is shown as it was.                             *)
LEMMA ShowsOther ==
  ASSUME NEW vecs, Recording(vecs), NEW vec, vec \notin vecs, NEW id, NEW active,
         Shows(gauge, Pending, vec, id, active)
  PROVE  Shows(gauge', Pending', vec, id, active)
BY ShowsKeep DEF Recording

LEMMA ShowsAnother ==
  ASSUME NEW vecs, Recording(vecs), NEW vec, NEW id, NEW active,
         Shows(gauge, Pending, vec, id, active), \A w \in Pending' : w.key[2] # id
  PROVE  Shows(gauge', Pending', vec, id, active)
BY ShowsKeep DEF Recording

LEMMA SourcesStep ==
  ASSUME TypesInv, SourcesInv, [Next]_metricVars
  PROVE  SourcesInv'
<1> SUFFICES ASSUME NEW i \in DOMAIN UPSOrder, SourceDone(i)'
             PROVE  Shows(gauge', Pending', "source", UPSOrder[i], src'[UPSOrder[i]])
  BY DEF SourcesInv
<1> DEFINE u == UPSOrder[i]
           Old == Shows(gauge, Pending, "source", u, src[u])
<1>0. SourceDone(i) => Old
  BY DEF SourcesInv
<1>u. u \in UPS /\ \A s \in Members(StatesOf("source")) : <<"source", u, s>> \in Keys
  BY Orders, KeyShapes, States
<1>k. ASSUME NEW vecs, Recording(vecs), "source" \notin vecs, Old, src' = src
      PROVE  Shows(gauge', Pending', "source", u, src'[u])
  BY <1>k, ShowsOther
<1> HIDE DEF u
<1>1. CASE UNCHANGED <<gauge, todo, pc, cur, ticks, src>>
  BY <1>0, <1>1 DEF SourceDone, Ended, Pending, u
<1>2. CASE Write
  <2>1. UNCHANGED <<pc, cur, ticks, src>>
    BY <1>2 DEF Write, tickVars
  <2>2. Old
    BY <1>0, <2>1 DEF SourceDone, Ended
  <2> QED BY <1>2, <1>u, <2>1, <2>2, ShowsWrite DEF u
<1>3. CASE StartTick \/ PollOK \/ PollFailed
  BY <1>3 DEF StartTick, PollOK, PollFailed, Poll, Classified, Step, SourceDone, Ended, TypesInv
<1>4. CASE Probe
  <2>1. pc' = "source" /\ cur' = 1
    BY <1>4 DEF Probe, TypesInv
  <2> QED BY <2>1, Orders DEF SourceDone, Ended
<1>5. CASE RecordSource
  <2> DEFINE c == UPSOrder[cur]
  <2>1. /\ pc = "source" /\ Recording({"source"}) /\ src' = src
        /\ Pending' = OneHotWrites("source", c, src[c])
    BY <1>5, SourceRecording DEF RecordSource, tickVars
  <2>2. CASE u = c
    <3>1. \A w \in Pending' : w \in OneHotWrites("source", c, src[c]) \/ w.key[1] # "source"
      BY <2>1
    <3> QED BY <2>1, <2>2, <3>1, ShowsNow DEF u
  <2>3. CASE u # c
    <3>1. i # cur
      BY <2>3 DEF u
    <3>2. i < cur
      BY <1>5, <3>1, Orders DEF RecordSource, Step, SourceDone, Ended, TypesInv
    <3>3. Old
      BY <1>0, <2>1, <3>2 DEF SourceDone
    <3>4. \A w \in Pending' : w.key[2] # u
      BY <2>1, <2>3 DEF OneHotWrites, Set
    <3> QED BY <2>1, <3>3, <3>4, ShowsAnother DEF u
  <2> QED BY <2>2, <2>3
<1>6. CASE RecordLoads
  <2>1. pc = "load" /\ Recording(LoadVec) /\ src' = src
    BY <1>6, LoadRecording DEF RecordLoads, tickVars
  <2> QED BY <1>0, <1>k, <2>1 DEF SourceDone, LoadVec, u
<1>7. CASE Plan
  <2>1. pc = "plan" /\ Recording({"grace"}) /\ src' = src
    BY <1>7, PlanRecording DEF Plan
  <2> QED BY <1>0, <1>k, <2>1 DEF SourceDone, u
<1>8. CASE Apply
  <2>1. pc = "apply" /\ Recording({"actions", "failures"}) /\ src' = src
    BY <1>8, ApplyRecording DEF Apply
  <2> QED BY <1>0, <1>k, <2>1 DEF SourceDone, u
<1>9. CASE EndTick
  <2>1. pc = "apply" /\ Recording({"reconcile"}) /\ src' = src
    BY <1>9, EndRecording DEF EndTick, tickVars
  <2> QED BY <1>0, <1>k, <2>1 DEF SourceDone, u
<1>10. CASE StartScrape \/ ReadChild \/ EndScrape
  BY <1>1, <1>10 DEF StartScrape, ReadChild, EndScrape, tickVars
<1>11. CASE UNCHANGED metricVars
  BY <1>1, <1>11 DEF metricVars, tickVars
<1> QED BY <1>2, <1>3, <1>4, <1>5, <1>6, <1>7, <1>8, <1>9, <1>10, <1>11 DEF Next

LEMMA LoadShownKeep ==
  ASSUME NEW vecs, Recording(vecs), UNCHANGED <<src, req, actual, shed>>, NEW l,
         LoadShown(l), vecs \cap LoadVec = {} \/ \A w \in Pending' : w.key[2] # l
  PROVE  LoadShown(l)'
<1>1. Shown(l)' = Shown(l)
  BY DEF Shown
<1>2. ASSUME NEW vec \in LoadVec, NEW active, Shows(gauge, Pending, vec, l, active)
      PROVE  Shows(gauge', Pending', vec, l, active)
  <2>1. CASE vec \notin vecs
    BY <1>2, <2>1, ShowsOther
  <2>2. CASE \A w \in Pending' : w.key[2] # l
    BY <1>2, <2>2, ShowsAnother
  <2> QED BY <2>1, <2>2
<1> QED BY <1>1, <1>2 DEF LoadShown, LoadVec

LEMMA LoadShownNow ==
  ASSUME TypesInv, RecordLoads, NEW l, l = LoadOrder[cur]
  PROVE  LoadShown(l)'
<1>1. /\ Recording(LoadVec) /\ Pending' = LoadWrites(l, Shown(l)) /\ l \in Loads
      /\ UNCHANGED <<src, req, actual, shed>>
  BY LoadRecording DEF RecordLoads, tickVars
<1>2. Shown(l)' = Shown(l)
  BY <1>1 DEF Shown
<1>3. \A vec, active : \A w \in OneHotWrites(vec, l, active) : w.key[1] = vec
  BY DEF OneHotWrites, Set
<1>4. Shows(gauge', Pending', "desired", l, Shown(l))
  BY <1>1, <1>3, ShowsNow DEF LoadWrites
<1>5. Shows(gauge', Pending', "requested", l, req[l])
  BY <1>1, <1>3, ShowsNow DEF LoadWrites
<1>6. Shows(gauge', Pending', "actual", l, actual[l])
  BY <1>1, <1>3, ShowsNow DEF LoadWrites
<1>7. LoadType[l] = "nut-server" => Shows(gauge', Pending', "shed", l, shed[l])
  BY <1>1, <1>3, ShowsNow DEF LoadWrites
<1> QED BY <1>1, <1>2, <1>4, <1>5, <1>6, <1>7 DEF LoadShown

LEMMA LoadsStep ==
  ASSUME TypesInv, LoadsInv, [Next]_metricVars
  PROVE  LoadsInv'
<1> SUFFICES ASSUME NEW i \in DOMAIN LoadOrder, LoadDone(i)'
             PROVE  LoadShown(LoadOrder[i])'
  BY DEF LoadsInv
<1> DEFINE l == LoadOrder[i]
<1>0. LoadDone(i) => LoadShown(l)
  BY DEF LoadsInv
<1>l. l \in Loads
  BY Orders
<1>k. ASSUME NEW vecs, Recording(vecs), vecs \cap LoadVec = {}, LoadDone(i),
             UNCHANGED <<src, req, actual, shed>>
      PROVE  LoadShown(l)'
  BY <1>0, <1>k, LoadShownKeep
<1> HIDE DEF l
<1>1. CASE UNCHANGED <<gauge, todo, pc, cur, ticks, src, req, actual, shed>>
  BY <1>0, <1>1 DEF LoadDone, Ended, Pending, LoadShown, Shown, l
<1>2. CASE Write
  <2>1. UNCHANGED <<pc, cur, ticks, src, req, actual, shed>> /\ Shown(l)' = Shown(l)
    BY <1>2 DEF Write, tickVars, Shown
  <2>2. LoadShown(l)
    BY <1>0, <2>1 DEF LoadDone, Ended
  <2>3. \A vec \in LoadVec : \A s \in Members(StatesOf(vec)) : <<vec, l, s>> \in Keys
    BY <1>l, KeyShapes DEF OneHotVec, LoadVec
  <2>4. ASSUME NEW vec \in LoadVec, NEW active, Shows(gauge, Pending, vec, l, active)
        PROVE  Shows(gauge', Pending', vec, l, active)
    BY <1>2, <2>3, <2>4, ShowsWrite
  <2>5. LoadShown(l)'
    BY <2>1, <2>2, <2>4 DEF LoadShown, LoadVec
  <2> QED BY <2>5 DEF l
<1>3. CASE StartTick \/ PollOK \/ PollFailed \/ Probe
  BY <1>3 DEF StartTick, PollOK, PollFailed, Probe, Poll, Step, LoadDone, Ended, TypesInv
<1>4. CASE RecordSource
  <2>1. pc = "source" /\ (pc' = "load" => cur' = 1)
    BY <1>4, SourceRecording DEF RecordSource, Step
  <2>2. pc' # "load" => LoadOrder = <<>> \/ ~LoadDone(i)'
    BY <1>4 DEF RecordSource, Step, LoadDone, Ended
  <2> QED BY <2>1, <2>2, Orders DEF LoadDone, Ended
<1>5. CASE RecordLoads
  <2> DEFINE c == LoadOrder[cur]
  <2>1. /\ pc = "load" /\ Recording(LoadVec) /\ UNCHANGED <<src, req, actual, shed>>
        /\ \A w \in Pending' : w.key[2] = c
    BY <1>5, LoadRecording DEF RecordLoads, tickVars
  <2>2. CASE l = c
    BY <1>5, <2>2, LoadShownNow DEF l
  <2>3. CASE l # c
    <3>1. i # cur
      BY <2>3 DEF l
    <3>2. i < cur
      BY <1>5, <3>1, Orders DEF RecordLoads, Step, LoadDone, Ended, TypesInv
    <3>3. LoadShown(l)
      BY <1>0, <2>1, <3>2 DEF LoadDone
    <3>4. LoadShown(l)'
      BY <2>1, <2>3, <3>3, LoadShownKeep
    <3> QED BY <3>4 DEF l
  <2> QED BY <2>2, <2>3
<1>6. CASE Plan
  <2>1. pc = "plan" /\ Recording({"grace"}) /\ UNCHANGED <<src, req, actual, shed>>
    BY <1>6, PlanRecording DEF Plan
  <2> QED BY <1>k, <2>1 DEF LoadDone, LoadVec, l
<1>7. CASE Apply
  <2>1. pc = "apply" /\ Recording({"actions", "failures"}) /\ UNCHANGED <<src, req, actual, shed>>
    BY <1>7, ApplyRecording DEF Apply
  <2> QED BY <1>k, <2>1 DEF LoadDone, LoadVec, l
<1>8. CASE EndTick
  <2>1. pc = "apply" /\ Recording({"reconcile"}) /\ UNCHANGED <<src, req, actual, shed>>
    BY <1>8, EndRecording DEF EndTick, tickVars
  <2> QED BY <1>k, <2>1 DEF LoadDone, LoadVec, l
<1>9. CASE StartScrape \/ ReadChild \/ EndScrape
  BY <1>1, <1>9 DEF StartScrape, ReadChild, EndScrape, tickVars
<1>10. CASE UNCHANGED metricVars
  BY <1>1, <1>10 DEF metricVars, tickVars
<1> QED BY <1>2, <1>3, <1>4, <1>5, <1>6, <1>7, <1>8, <1>9, <1>10 DEF Next

LEMMA QuietStep ==
  ASSUME TypesInv, QuietInv, [Next]_metricVars
  PROVE  QuietInv'
<1>0. \A k \in OneHotKeys : k[1] \in OneHotVec
  BY KeyShapes
<1>k. ASSUME NEW vecs, Recording(vecs), vecs \cap OneHotVec = {} PROVE QuietInv'
  BY <1>0, <1>k DEF QuietInv, Recording
<1>1. CASE UNCHANGED <<todo, pc>>
  BY <1>1 DEF QuietInv, Pending
<1>2. CASE Write
  BY <1>2, WriteStep DEF Write, QuietInv
<1>3. CASE StartTick \/ Probe
  BY <1>3, SilentStep DEF Silent, QuietInv
<1>4. CASE PollOK \/ PollFailed
  BY <1>4, <1>k, PollRecording DEF PollVec, OneHotVec
<1>5. CASE RecordSource \/ RecordLoads
  BY <1>5 DEF RecordSource, RecordLoads, Step, QuietInv
<1>6. CASE Plan
  BY <1>6, <1>k, PlanRecording DEF OneHotVec
<1>7. CASE Apply
  BY <1>7, <1>k, ApplyRecording DEF OneHotVec
<1>8. CASE EndTick
  BY <1>8, <1>k, EndRecording DEF OneHotVec
<1>9. CASE StartScrape \/ ReadChild \/ EndScrape
  BY <1>1, <1>9 DEF StartScrape, ReadChild, EndScrape
<1>10. CASE UNCHANGED metricVars
  BY <1>1, <1>10 DEF metricVars
<1> QED BY <1>2, <1>3, <1>4, <1>5, <1>6, <1>7, <1>8, <1>9, <1>10 DEF Next

LEMMA PlanStep ==
  ASSUME TypesInv, PlanInv, [Next]_metricVars
  PROVE  PlanInv'
<1> SUFFICES ASSUME NEW l \in Loads
             PROVE  /\ pc' = "apply" \/ Ended' => plan'[l] \cup took'[l] = Called(l)'
                    /\ ~(pc' = "apply" \/ Ended') => took'[l] = {}
                    /\ pc' # "apply" => plan'[l] = {}
  BY DEF PlanInv
<1>0. /\ pc = "apply" \/ Ended => plan[l] \cup took[l] = Called(l)
      /\ ~(pc = "apply" \/ Ended) => took[l] = {}
      /\ pc # "apply" => plan[l] = {}
  BY DEF PlanInv
<1>c. UNCHANGED <<src, req, actual, shed, held>> => Called(l)' = Called(l)
  BY DEF Called, Shown
<1>1. CASE UNCHANGED <<pc, tickVars>>
  BY <1>0, <1>1, <1>c DEF tickVars, Ended
<1>2. CASE StartTick
  BY <1>0, <1>2 DEF StartTick, Ended
<1>3. CASE /\ pc \notin {"apply", "rest"} /\ pc' \notin {"apply", "rest"} /\ UNCHANGED <<plan, took>>
  BY <1>0, <1>3 DEF Ended
<1>4. CASE PollOK \/ PollFailed \/ Probe
  BY <1>0, <1>3, <1>4 DEF PollOK, PollFailed, Probe, Poll, Step, Ended, TypesInv
<1>5. CASE RecordSource \/ RecordLoads
  BY <1>3, <1>5 DEF RecordSource, RecordLoads, Step, tickVars
<1>6. CASE Plan
  <2>1. pc = "plan" /\ pc' = "apply" /\ UNCHANGED <<src, req, actual, shed, took>>
    BY <1>6 DEF Plan
  <2>2. took'[l] = {}
    BY <1>0, <2>1 DEF Ended
  <2>3. plan'[l] = {k \in ReconcileLoad(LoadType[l], Shown(l), actual[l], shed[l]) : held' => ~isPowerOn(k)}
    BY <1>6 DEF Plan, Shown
  <2>4. plan'[l] = Called(l)'
    BY <2>1, <2>3 DEF Called, Shown
  <2> QED BY <2>1, <2>2, <2>4 DEF Ended
<1>7. CASE Apply
  <2>1. pc = "apply" /\ pc' = "apply" /\ UNCHANGED <<src, req, actual, shed, held>>
    BY <1>7 DEF Apply
  <2>2. PICK m \in Loads : \E k \in plan[m] :
          plan' = [plan EXCEPT ![m] = @ \ {k}] /\ took' = [took EXCEPT ![m] = @ \cup {k}]
    BY <1>7 DEF Apply
  <2>3. PICK k \in plan[m] :
          plan' = [plan EXCEPT ![m] = @ \ {k}] /\ took' = [took EXCEPT ![m] = @ \cup {k}]
    BY <2>2
  <2>4. plan'[l] \cup took'[l] = plan[l] \cup took[l]
    BY <2>3 DEF TypesInv
  <2> QED BY <1>0, <1>c, <2>1, <2>4
<1>8. CASE EndTick
  BY <1>0, <1>8, <1>c DEF EndTick, tickVars, Ended, TypesInv
<1>9. CASE Write \/ StartScrape \/ ReadChild \/ EndScrape
  BY <1>1, <1>9 DEF Write, StartScrape, ReadChild, EndScrape
<1>10. CASE UNCHANGED metricVars
  BY <1>1, <1>10 DEF metricVars
<1> QED BY <1>2, <1>4, <1>5, <1>6, <1>7, <1>8, <1>9, <1>10 DEF Next

LEMMA GraceStep ==
  ASSUME TypesInv, TypesInv', GraceInv, [Next]_metricVars
  PROVE  GraceInv'
<1> SUFFICES ASSUME ~Grace \/ pc' = "apply" \/ Ended'
             PROVE  Will(gauge', Pending', GraceKey, b2f(held'))
  BY DEF GraceInv
<1>0. ~Grace => held = FALSE /\ held' = FALSE
  BY Zenon DEF TypesInv
<1>k. ASSUME NEW vecs, Recording(vecs), "grace" \notin vecs,
             ~Grace \/ pc = "apply" \/ Ended, b2f(held') = b2f(held)
      PROVE  Will(gauge', Pending', GraceKey, b2f(held'))
  <2>1. \A w \in Pending' : w.key # GraceKey
    BY <1>k DEF Recording, GraceKey
  <2> QED BY <1>k, <2>1, WillKeep DEF GraceInv, Recording
<1>1. CASE UNCHANGED <<gauge, todo, pc, ticks, held>>
  BY <1>1 DEF GraceInv, Ended, Pending
<1>2. CASE Write
  BY <1>2, WillWrite, KeyShapes DEF Write, tickVars, GraceInv, Ended
<1>3. CASE StartTick \/ Probe
  <2>1. ~Grace
    BY <1>3 DEF StartTick, Probe, Ended
  <2>2. Recording({})
    BY <1>3, SilentStep DEF Silent, Recording, TypesInv
  <2> QED BY <1>0, <1>k, <2>1, <2>2
<1>4. CASE PollOK \/ PollFailed
  <2>1. ~Grace
    BY <1>4 DEF PollOK, PollFailed, Poll, Step, Ended, TypesInv
  <2> QED BY <1>0, <1>4, <1>k, <2>1, PollRecording DEF PollVec
<1>5. CASE RecordSource \/ RecordLoads
  <2>1. ~Grace
    BY <1>5 DEF RecordSource, RecordLoads, Step, Ended
  <2> QED BY <1>0, <1>5, <1>k, <2>1, SourceRecording, LoadRecording DEF LoadVec
<1>6. CASE Plan
  <2>1. CASE Grace
    <3>1. Pending' = {Set("grace", "all", NoLabel, b2f(held'))}
      BY <1>6, <2>1, PlanRecording
    <3> QED BY <3>1, Fields DEF Will, GraceKey
  <2>2. CASE ~Grace
    <3>1. Recording({})
      BY <1>6, <2>2, PlanRecording DEF Recording
    <3> QED BY <1>0, <1>k, <2>2, <3>1
  <2> QED BY <2>1, <2>2
<1>7. CASE Apply
  BY <1>7, <1>k, ApplyRecording DEF Apply
<1>8. CASE EndTick
  BY <1>8, <1>k, EndRecording DEF EndTick, tickVars
<1>9. CASE StartScrape \/ ReadChild \/ EndScrape
  BY <1>1, <1>9 DEF StartScrape, ReadChild, EndScrape, tickVars
<1>10. CASE UNCHANGED metricVars
  BY <1>1, <1>10 DEF metricVars, tickVars
<1> QED BY <1>2, <1>3, <1>4, <1>5, <1>6, <1>7, <1>8, <1>9, <1>10 DEF Next

LEMMA HeartStep ==
  ASSUME TypesInv, HeartInv, [Next]_metricVars
  PROVE  HeartInv'
<1>k. ASSUME NEW vecs, Recording(vecs), "reconcile" \notin vecs, UNCHANGED ticks, pc # "rest",
             pc = "preflight" => pc' \in {"preflight", "rest"}
      PROVE  HeartInv'
  <2>1. gauge' = gauge /\ \A w \in Pending' : w.key # BeatKey
    BY <1>k DEF Recording, BeatKey
  <2> QED BY <1>k, <2>1 DEF HeartInv
<1>1. CASE UNCHANGED <<gauge, todo, pc, ticks>>
  BY <1>1 DEF HeartInv, Pending
<1>2. CASE Write
  <2>1. PICK w \in GoodWrite :
           /\ w \in Pending /\ Pending = {w} \cup Pending'
           /\ \A k \in Keys : k # w.key => gauge'[k] = gauge[k]
           /\ w.op = "set" => gauge'[w.key] = w.val
    BY <1>2, WriteStep
  <2>2. UNCHANGED <<pc, ticks>>
    BY <1>2 DEF Write, tickVars
  <2>3. CASE w.key = BeatKey
    <3>1. pc = "rest" /\ gauge'[BeatKey] = ticks
      BY <2>1, <2>3 DEF HeartInv
    <3> QED BY <2>1, <2>2, <3>1 DEF HeartInv, TypesInv
  <2>4. CASE w.key # BeatKey
    <3>1. gauge'[BeatKey] = gauge[BeatKey]
      BY <2>1, <2>4, KeyShapes
    <3> QED BY <2>1, <2>2, <3>1 DEF HeartInv
  <2> QED BY <2>3, <2>4
<1>3. CASE StartTick
  <2>1. gauge' = gauge /\ Pending' = {}
    BY <1>3, SilentStep DEF Silent
  <2> QED BY <1>3, <2>1 DEF StartTick, HeartInv, TypesInv
<1>4. CASE Probe
  <2>1. gauge' = gauge /\ Pending' = {}
    BY <1>4, SilentStep DEF Silent
  <2> QED BY <1>4, <2>1 DEF Probe, HeartInv
<1>5. CASE PollOK \/ PollFailed
  BY <1>5, <1>k, PollRecording DEF PollOK, PollFailed, Poll, Step, PollVec
<1>6. CASE RecordSource \/ RecordLoads
  BY <1>6, <1>k, SourceRecording, LoadRecording DEF RecordSource, RecordLoads, tickVars, LoadVec
<1>7. CASE Plan
  BY <1>7, <1>k, PlanRecording DEF Plan
<1>8. CASE Apply
  BY <1>8, <1>k, ApplyRecording DEF Apply
<1>9. CASE EndTick
  <2>1. gauge' = gauge /\ pc = "apply" /\ pc' = "rest" /\ ticks' = ticks
        /\ Pending' = {Set("reconcile", "all", NoLabel, ticks)}
    BY <1>9, EndRecording DEF EndTick, Recording, tickVars
  <2>2. \A w \in Pending' : w.op = "set" /\ w.val = ticks
    BY <2>1, Fields
  <2> QED BY <2>1, <2>2 DEF HeartInv
<1>10. CASE StartScrape \/ ReadChild \/ EndScrape
  BY <1>1, <1>10 DEF StartScrape, ReadChild, EndScrape, tickVars
<1>11. CASE UNCHANGED metricVars
  BY <1>1, <1>11 DEF metricVars, tickVars
<1> QED BY <1>2, <1>3, <1>4, <1>5, <1>6, <1>7, <1>8, <1>9, <1>10, <1>11 DEF Next

GoodVec == {"last_success", "telemetry"}

LEMMA LastGoodKeep ==
  ASSUME TypesInv, NEW vecs, Recording(vecs), NEW u, LastGood(u), fetched'[u] = fetched[u],
         ticks' = ticks, vecs \cap GoodVec = {} \/ \A w \in Pending' : w.key[2] # u
  PROVE  LastGood(u)'
<1>1. \A k \in GoodKeys(u) : k[1] \in GoodVec /\ k[2] = u
  BY DEF GoodKeys, GoodVec
<1>2. \A k \in GoodKeys(u) : \A w \in Pending' : w.key # k
  BY <1>1 DEF Recording
<1>3. todo = <<>> /\ gauge' = gauge
  BY DEF Recording
<1>4. ASSUME NEW vars, NEW n, ShowsGood(gauge, Pending, u, vars, n)
      PROVE  ShowsGood(gauge', Pending', u, vars, n)
  BY <1>2, <1>3, <1>4, WillKeep DEF ShowsGood, GoodKeys
<1> QED BY <1>2, <1>3, <1>4 DEF LastGood

LEMMA LastGoodNow ==
  ASSUME TypesInv, PollOK, NEW u, u = UPSOrder[cur]
  PROVE  LastGood(u)'
<1>0. u \in UPS
  BY PollRecording
<1>1. PICK r \in Readings : /\ fetched' = [fetched EXCEPT ![u] = {[vars |-> r.vars, at |-> ticks]}]
                            /\ Record(RecordPollOK(u, r))
  BY DEF PollOK
<1> DEFINE W == Pending'
<1>2. W = {Set("reachable", u, NoLabel, 1), Set("last_success", u, NoLabel, ticks)}
          \cup StatusWrites(u, r) \cup TelemetryWrites(u, r)
  BY <1>0, <1>1, PollOKRecords DEF Record, Pending, TypesInv
<1>3. \A w \in StatusWrites(u, r) : w.key[1] = "status"
  BY DEF StatusWrites, Set
<1>4. \A w \in TelemetryWrites(u, r) : w.key[1] = "telemetry"
  BY DEF TelemetryWrites, Set
<1>5. Will(gauge', W, <<"last_success", u, NoLabel>>, ticks)
  <2>1. Set("last_success", u, NoLabel, ticks) \in W
    BY <1>2
  <2>2. ASSUME NEW w \in W, w.key = <<"last_success", u, NoLabel>>
        PROVE  w = Set("last_success", u, NoLabel, ticks)
    BY <1>2, <1>3, <1>4, <2>2, Fields
  <2> QED BY <2>1, <2>2, Fields DEF Will
<1>6. ASSUME NEW s \in Members(Specs)
      PROVE  Will(gauge', W, <<"telemetry", u, s>>, firstFloat(r.vars, Names[s]))
  <2>1. Set("telemetry", u, s, firstFloat(r.vars, Names[s])) \in W
    BY <1>2 DEF TelemetryWrites
  <2>2. ASSUME NEW w \in W, w.key = <<"telemetry", u, s>>
        PROVE  w = Set("telemetry", u, s, firstFloat(r.vars, Names[s]))
    <3>1. w \in TelemetryWrites(u, r)
      BY <1>2, <1>3, <2>2, Fields
    <3>2. PICK t \in Members(Specs) : w = Set("telemetry", u, t, firstFloat(r.vars, Names[t]))
      BY <3>1 DEF TelemetryWrites
    <3>3. t = s
      BY <2>2, <3>2 DEF Set
    <3> QED BY <3>2, <3>3
  <2> QED BY <2>1, <2>2, Fields DEF Will
<1> HIDE DEF W
<1>7. ShowsGood(gauge', W, u, r.vars, ticks)
  BY <1>5, <1>6 DEF ShowsGood
<1>8. fetched'[u] = {[vars |-> r.vars, at |-> ticks]} /\ ticks' = ticks /\ ticks \in 0..ticks'
  BY <1>0, <1>1 DEF TypesInv, PollOK
<1> QED BY <1>7, <1>8 DEF LastGood, W

LEMMA LastGoodStep ==
  ASSUME TypesInv, LastGoodInv, [Next]_metricVars
  PROVE  LastGoodInv'
<1> SUFFICES ASSUME NEW u \in UPS PROVE LastGood(u)'
  BY DEF LastGoodInv
<1>0. LastGood(u)
  BY DEF LastGoodInv
<1>k. ASSUME NEW vecs, Recording(vecs), vecs \cap GoodVec = {}, UNCHANGED <<fetched, ticks>>
      PROVE  LastGood(u)'
  BY <1>0, <1>k, LastGoodKeep
<1>1. CASE UNCHANGED <<gauge, todo, fetched, ticks>>
  BY <1>0, <1>1 DEF LastGood, Pending
<1>2. CASE Write
  <2>0. UNCHANGED <<fetched, ticks>> /\ GoodKeys(u) \subseteq Keys
    BY <1>2, KeyShapes DEF Write, tickVars
  <2>1. ASSUME NEW k \in GoodKeys(u), gauge[k] = Absent, \A w \in Pending : w.key # k
        PROVE  gauge'[k] = Absent /\ \A w \in Pending' : w.key # k
    BY <1>2, <2>0, <2>1, WriteStep
  <2>2. ASSUME NEW vars, NEW n, ShowsGood(gauge, Pending, u, vars, n)
        PROVE  ShowsGood(gauge', Pending', u, vars, n)
    BY <1>2, <2>0, <2>2, WillWrite DEF ShowsGood, GoodKeys
  <2> QED BY <1>0, <2>0, <2>1, <2>2 DEF LastGood
<1>3. CASE StartTick
  <2>1. gauge' = gauge /\ Pending' = Pending /\ fetched' = fetched /\ ticks' = ticks + 1
    BY <1>3 DEF StartTick, Pending
  <2>2. 0..ticks \subseteq 0..ticks'
    BY <2>1 DEF TypesInv
  <2> QED BY <1>0, <2>1, <2>2 DEF LastGood
<1>4. CASE PollOK
  <2>1. CASE u = UPSOrder[cur]
    BY <1>4, <2>1, LastGoodNow
  <2>2. CASE u # UPSOrder[cur]
    <3>1. fetched'[u] = fetched[u] /\ ticks' = ticks
      BY <1>4, <2>2 DEF PollOK, TypesInv
    <3>2. Recording(PollVec) /\ \A w \in Pending' : w.key[2] # u
      BY <1>4, <2>2, PollRecording
    <3> QED BY <1>0, <3>1, <3>2, LastGoodKeep
  <2> QED BY <2>1, <2>2
<1>5. CASE PollFailed
  <2>1. UPSOrder[cur] \in UPS /\ Recording(PollVec)
    BY <1>5, PollRecording
  <2>2. Pending' = {Set("reachable", UPSOrder[cur], NoLabel, 0), Inc("poll_failures", UPSOrder[cur], NoLabel)}
    BY <1>5, <2>1, PollFailedRecords DEF PollFailed, Record, Pending
  <2>3. Recording({"reachable", "poll_failures"})
    BY <2>1, <2>2, Fields DEF Recording
  <2> QED BY <1>5, <1>k, <2>3 DEF PollFailed, GoodVec
<1>6. CASE Probe
  BY <1>1, <1>6 DEF Probe
<1>7. CASE RecordSource \/ RecordLoads
  BY <1>7, <1>k, SourceRecording, LoadRecording DEF RecordSource, RecordLoads, tickVars, LoadVec, GoodVec
<1>8. CASE Plan
  BY <1>8, <1>k, PlanRecording DEF Plan, GoodVec
<1>9. CASE Apply
  BY <1>9, <1>k, ApplyRecording DEF Apply, GoodVec
<1>10. CASE EndTick
  BY <1>10, <1>k, EndRecording DEF EndTick, tickVars, GoodVec
<1>11. CASE StartScrape \/ ReadChild \/ EndScrape
  BY <1>1, <1>11 DEF StartScrape, ReadChild, EndScrape, tickVars
<1>12. CASE UNCHANGED metricVars
  BY <1>1, <1>12 DEF metricVars, tickVars
<1> QED BY <1>2, <1>3, <1>4, <1>5, <1>6, <1>7, <1>8, <1>9, <1>10, <1>11, <1>12 DEF Next

-----------------------------------------------------------------------------
(* What has been said of a scraped gauge, and what a scrape may find.      *)
LEMMA SeriesKeys ==
  ASSUME NEW series \in Scraped
  PROVE  /\ series = <<series[1], series[2]>> /\ series[1] \in OneHotVec
         /\ \A s \in Members(StatesOf(series[1])) : Child(series, s) \in OneHotKeys
<1>1. series \in Series
  BY MetricsAssumption
<1>2. CASE series \in {<<"source", u>> : u \in UPS}
  BY <1>2, KeyShapes, States DEF OneHotVec, Child
<1>3. CASE series \in {<<vec, l>> : vec \in LoadVec, l \in Loads}
  BY <1>3, KeyShapes DEF OneHotVec, LoadVec, Child
<1> QED BY <1>1, <1>2, <1>3 DEF Series, LoadVec

LEMMA NoSeries == NoScrape.of \notin Scraped
BY SeriesKeys DEF NoScrape, OneHotVec

Calling == PollOK \/ PollFailed \/ RecordSource \/ RecordLoads \/ Plan \/ Apply \/ EndTick

LEMMA CallingRecords ==
  ASSUME Calling
  PROVE  /\ said' = [series \in Scraped |->
                       IF Due(series, todo') = {} THEN said[series]
                       ELSE <<said[series][2], Due(series, todo')>>]
         /\ scrape' = [scrape EXCEPT !.was = @ \cup Due(scrape.of, todo')]
         /\ gauge' = gauge
<1>1. ASSUME NEW writes, Record(writes)
      PROVE  /\ said' = [series \in Scraped |->
                       IF Due(series, todo') = {} THEN said[series]
                       ELSE <<said[series][2], Due(series, todo')>>]
             /\ scrape' = [scrape EXCEPT !.was = @ \cup Due(scrape.of, todo')]
             /\ gauge' = gauge
  BY <1>1 DEF Record
<1>2. \E writes : Record(writes)
  BY DEF Calling, PollOK, PollFailed, RecordSource, RecordLoads, Plan, Apply, EndTick
<1> QED BY <1>1, <1>2

(* A recorder that writes one state of a gauge writes them all.            *)
LEMMA CallingCovers ==
  ASSUME TypesInv, Calling
  PROVE  /\ todo = <<>> /\ todo' \in Seq(GoodWrite)
         /\ \A w \in Pending' : w.key[1] \in OneHotVec =>
              \A s \in Members(StatesOf(w.key[1])) :
                \E x \in Pending' : x.key = <<w.key[1], w.key[2], s>>
<1> DEFINE Covers(W) == \A w \in W : w.key[1] \in OneHotVec =>
                          \A s \in Members(StatesOf(w.key[1])) :
                            \E x \in W : x.key = <<w.key[1], w.key[2], s>>
<1>1. ASSUME NEW vec, NEW id, NEW active PROVE Covers(OneHotWrites(vec, id, active))
  <2> SUFFICES ASSUME NEW w \in OneHotWrites(vec, id, active), NEW s \in Members(StatesOf(w.key[1]))
               PROVE  \E x \in OneHotWrites(vec, id, active) : x.key = <<w.key[1], w.key[2], s>>
    OBVIOUS
  <2>1. w.key[1] = vec /\ w.key[2] = id
    BY Fields DEF OneHotWrites
  <2>2. Set(vec, id, s, b2f(s = active)) \in OneHotWrites(vec, id, active)
    BY <2>1 DEF OneHotWrites
  <2> QED BY <2>1, <2>2, Fields
<1>2. ASSUME NEW V, NEW W, Covers(V), Covers(W) PROVE Covers(V \cup W)
  BY <1>2
<1>3. ASSUME NEW vecs, Recording(vecs), vecs \cap OneHotVec = {}
      PROVE  todo = <<>> /\ todo' \in Seq(GoodWrite) /\ Covers(Pending')
  BY <1>3 DEF Recording
<1>4. Covers({})
  OBVIOUS
<1> HIDE DEF Covers
<1>5. CASE RecordSource
  <2>1. Covers(OneHotWrites("source", UPSOrder[cur], src[UPSOrder[cur]]))
    BY <1>1
  <2> QED BY <1>5, <2>1, SourceRecording DEF Recording, Covers
<1>6. CASE RecordLoads
  <2>1. Covers(LoadWrites(LoadOrder[cur], Shown(LoadOrder[cur])))
    BY <1>1, <1>2, <1>4 DEF LoadWrites
  <2> QED BY <1>6, <2>1, LoadRecording DEF Recording, Covers
<1>7. CASE PollOK \/ PollFailed
  BY <1>3, <1>7, PollRecording DEF PollVec, OneHotVec, Covers
<1>8. CASE Plan \/ Apply \/ EndTick
  BY <1>3, <1>8, PlanRecording, ApplyRecording, EndRecording DEF OneHotVec, Covers
<1> QED BY <1>5, <1>6, <1>7, <1>8 DEF Calling

LEMMA SaidStep ==
  ASSUME TypesInv, SaidInv, [Next]_metricVars
  PROVE  SaidInv'
<1> SUFFICES ASSUME NEW series \in Scraped, NEW s \in Members(StatesOf(series[1]))
             PROVE  /\ gauge'[Child(series, s)] = 1 =>
                         \/ s \in said'[series][2]
                         \/ s \in said'[series][1] /\ \E w \in Pending' : w.key = Child(series, s)
                    /\ \A w \in Pending' : w.key = Child(series, s) /\ w.val = 1 => s \in said'[series][2]
  BY DEF SaidInv, Child
<1> DEFINE child == Child(series, s)
<1>0. /\ gauge[child] = 1 => \/ s \in said[series][2]
                             \/ s \in said[series][1] /\ \E w \in Pending : w.key = child
      /\ \A w \in Pending : w.key = child /\ w.val = 1 => s \in said[series][2]
  BY DEF SaidInv
<1>c. child \in OneHotKeys /\ child \in Keys /\ child = <<series[1], series[2], s>>
      /\ series = <<series[1], series[2]>> /\ series[1] \in OneHotVec
  BY SeriesKeys, KeyShapes DEF Child
<1> HIDE DEF child
<1>1. CASE UNCHANGED <<gauge, todo, said>>
  BY <1>0, <1>1 DEF Pending, child
<1>2. CASE Write
  <2>1. PICK w \in GoodWrite :
           /\ w \in Pending /\ Pending = {w} \cup Pending'
           /\ \A k \in Keys : k # w.key => gauge'[k] = gauge[k]
           /\ w.op = "set" => gauge'[w.key] = w.val
    BY <1>2, WriteStep
  <2>2. said' = said
    BY <1>2 DEF Write
  <2>3. CASE w.key = child
    <3>1. gauge'[child] = w.val
      BY <1>c, <2>1, <2>3 DEF GoodWrite
    <3> QED BY <1>0, <2>1, <2>2, <2>3, <3>1 DEF child
  <2>4. CASE w.key # child
    <3>1. gauge'[child] = gauge[child]
      BY <1>c, <2>1, <2>4
    <3> QED BY <1>0, <2>1, <2>2, <2>4, <3>1 DEF child
  <2> QED BY <2>3, <2>4
<1>3. CASE Calling
  <2> DEFINE D == Due(series, todo')
  <2>1. /\ said'[series] = IF D = {} THEN said[series] ELSE <<said[series][2], D>>
        /\ gauge' = gauge
    BY <1>3, CallingRecords
  <2>2. Pending = {}
    BY <1>3, CallingCovers, MembersFew DEF Pending
  <2>3. ASSUME NEW w \in Pending', w.key = child, w.val = 1 PROVE s \in D
    <3>1. w.key[1] = series[1] /\ w.key[2] = series[2] /\ w.key[3] = s
      BY <1>c, <2>3
    <3>2. <<w.key[1], w.key[2]>> = series
      BY <1>c, <3>1
    <3> QED BY <2>3, <3>1, <3>2 DEF Due, Pending
  <2>4. D # {} => \E x \in Pending' : x.key = child
    <3>1. SUFFICES ASSUME D # {} PROVE \E x \in Pending' : x.key = child
      OBVIOUS
    <3>2. PICK w \in Pending' : <<w.key[1], w.key[2]>> = series
      BY <3>1 DEF Due, Pending
    <3>3. w.key[1] = series[1] /\ w.key[2] = series[2]
      BY <1>c, <3>2
    <3> QED BY <1>3, <1>c, <3>3, CallingCovers
  <2> HIDE DEF D
  <2> QED BY <1>0, <2>1, <2>2, <2>3, <2>4 DEF child
<1>4. CASE StartTick \/ Probe \/ StartScrape \/ ReadChild \/ EndScrape
  BY <1>1, <1>4 DEF StartTick, Probe, StartScrape, ReadChild, EndScrape
<1>5. CASE UNCHANGED metricVars
  BY <1>1, <1>5 DEF metricVars
<1> QED BY <1>2, <1>3, <1>4, <1>5 DEF Next, Calling

LEMMA ScrapeStep ==
  ASSUME TypesInv, SaidInv, ScrapeInv, [Next]_metricVars
  PROVE  ScrapeInv'
<1> USE DEF ScrapeInv
<1>1. CASE UNCHANGED <<gauge, said, scrape>>
  BY <1>1 DEF Hot
<1>2. CASE Write
  <2>0. UNCHANGED <<said, scrape>>
    BY <1>2 DEF Write
  <2>1. ASSUME scrape.of \in Scraped, NEW s \in Hot(scrape.of)' PROVE s \in scrape.was
    <3>1. PICK w \in GoodWrite :
             /\ w \in Pending
             /\ \A k \in Keys : k # w.key => gauge'[k] = gauge[k]
             /\ w.op = "set" => gauge'[w.key] = w.val
      BY <1>2, WriteStep
    <3> DEFINE child == Child(scrape.of, s)
    <3>2. s \in Members(StatesOf(scrape.of[1])) /\ gauge'[child] = 1
      BY <2>0, <2>1 DEF Hot, Child
    <3>3. child \in OneHotKeys /\ child \in Keys
      BY <2>1, <3>2, SeriesKeys, KeyShapes
    <3>4. CASE w.key = child
      BY <2>1, <3>1, <3>2, <3>3, <3>4 DEF GoodWrite, SaidInv
    <3>5. CASE w.key # child
      BY <2>1, <3>1, <3>2, <3>3, <3>5 DEF Hot, Child
    <3> QED BY <3>4, <3>5
  <2> QED BY <2>0, <2>1
<1>3. CASE Calling
  <2> DEFINE D == Due(scrape.of, todo')
  <2>1. scrape' = [scrape EXCEPT !.was = @ \cup D] /\ gauge' = gauge
    BY <1>3, CallingRecords
  <2>2. scrape.of \in Scraped => said'[scrape.of][2] \in {said[scrape.of][2], D}
    BY <1>3, CallingRecords
  <2> HIDE DEF D
  <2>3. /\ scrape'.of = scrape.of /\ scrape'.unread = scrape.unread /\ scrape'.hot = scrape.hot
        /\ scrape'.was = scrape.was \cup D /\ DOMAIN scrape' = DOMAIN scrape
    BY <2>1
  <2>4. Hot(scrape.of)' = Hot(scrape.of)
    BY <2>1, <2>3 DEF Hot
  <2> QED BY <2>2, <2>3, <2>4
<1>4. CASE StartScrape
  <2>1. PICK series \in Scraped :
          /\ scrape'.of = series /\ scrape'.hot = {} /\ DOMAIN scrape' = DOMAIN NoScrape
          /\ scrape'.was = said[series][2] \cup
                    IF \E w \in Members(todo) : <<w.key[1], w.key[2]>> = series
                    THEN said[series][1] ELSE {}
    BY <1>4 DEF StartScrape, NoScrape
  <2>2. gauge' = gauge /\ said' = said
    BY <1>4 DEF StartScrape
  <2>3. ASSUME NEW s \in Hot(series) PROVE s \in scrape'.was
    <3>1. s \in Members(StatesOf(series[1])) /\ gauge[Child(series, s)] = 1
      BY <2>3 DEF Hot, Child
    <3>2. CASE s \in said[series][2]
      BY <2>1, <3>2
    <3>3. CASE s \in said[series][1] /\ \E w \in Pending : w.key = Child(series, s)
      <4>1. PICK w \in Members(todo) : w.key = Child(series, s)
        BY <3>3 DEF Pending
      <4>2. <<w.key[1], w.key[2]>> = series
        BY <4>1, SeriesKeys DEF Child
      <4> QED BY <2>1, <3>3, <4>2
    <3> QED BY <3>1, <3>2, <3>3 DEF SaidInv
  <2>4. Hot(scrape.of)' = Hot(series)
    BY <2>1, <2>2 DEF Hot
  <2> QED BY <2>1, <2>2, <2>3, <2>4 DEF NoScrape
<1>5. CASE ReadChild
  <2>1. PICK s \in scrape.unread :
          scrape' = [scrape EXCEPT !.unread = @ \ {s},
                                   !.hot = IF s \in Hot(scrape.of) THEN @ \cup {s} ELSE @]
    BY <1>5 DEF ReadChild
  <2>2. /\ scrape'.of = scrape.of /\ scrape'.was = scrape.was /\ DOMAIN scrape' = DOMAIN scrape
        /\ scrape'.hot \subseteq scrape.hot \cup Hot(scrape.of)
    BY <2>1
  <2>3. scrape.of \in Scraped
    BY <2>1
  <2>4. Hot(scrape.of)' = Hot(scrape.of) /\ said' = said
    BY <1>5, <2>2 DEF Hot, ReadChild
  <2> QED BY <2>2, <2>3, <2>4
<1>6. CASE EndScrape
  BY <1>6, NoSeries DEF EndScrape, NoScrape
<1>7. CASE StartTick \/ Probe
  BY <1>1, <1>7 DEF StartTick, Probe
<1>8. CASE UNCHANGED metricVars
  BY <1>1, <1>8 DEF metricVars
<1> QED BY <1>2, <1>3, <1>4, <1>5, <1>6, <1>7, <1>8 DEF Next, Calling

-----------------------------------------------------------------------------
LEMMA MetricsInit == Init => MetricsInv
<1> SUFFICES ASSUME Init PROVE MetricsInv
  OBVIOUS
<1>0. TypesInv
  BY TypesInit
<1>1. pc = "preflight" /\ ticks = 0 /\ Pending = {}
  BY MembersFew DEF Init, Pending
<1>2. SourcesInv /\ LoadsInv /\ QuietInv
  BY <1>1 DEF SourcesInv, LoadsInv, QuietInv, SourceDone, LoadDone, Ended
<1>3. PlanInv
  BY <1>1 DEF Init, PlanInv, Ended
<1>4. gauge[GraceKey] = 0 /\ gauge[BeatKey] = 0
  BY KeyShapes DEF Init, GraceKey, BeatKey
<1>5. GraceInv
  <2>1. ~Grace => b2f(held) = 0
    BY DEF Init, b2f
  <2> QED BY <1>1, <1>4, <2>1 DEF GraceInv, Ended, Will
<1>6. HeartInv
  BY <1>1, <1>4 DEF HeartInv
<1>7. LastGoodInv
  <2>1. ASSUME NEW u \in UPS, NEW k \in GoodKeys(u) PROVE gauge[k] = Absent
    <3>1. k \in Keys
      BY KeyShapes
    <3>2. k[1] \in {"last_success", "telemetry"}
      BY DEF GoodKeys
    <3> QED BY <3>1, <3>2 DEF Init
  <2>2. \A u \in UPS : fetched[u] = {}
    BY DEF Init
  <2> QED BY <1>1, <2>1, <2>2 DEF LastGoodInv, LastGood
<1>8. SaidInv
  <2> SUFFICES ASSUME NEW series \in Scraped, NEW s \in Members(StatesOf(series[1]))
               PROVE  gauge[Child(series, s)] # 1
    BY <1>1 DEF SaidInv
  <2>1. Child(series, s) \in Keys /\ Child(series, s)[1] \in OneHotVec
    BY SeriesKeys, KeyShapes
  <2> QED BY <2>1 DEF Init, OneHotVec, Absent
<1>9. ScrapeInv
  BY NoSeries DEF Init, ScrapeInv, NoScrape
<1> QED BY <1>0, <1>2, <1>3, <1>5, <1>6, <1>7, <1>8, <1>9 DEF MetricsInv

LEMMA MetricsStep == MetricsInv /\ [Next]_metricVars => MetricsInv'
BY TypesStep, SourcesStep, LoadsStep, QuietStep, PlanStep, GraceStep, HeartStep, LastGoodStep,
   SaidStep, ScrapeStep DEF MetricsInv

(* The invariant: the registry and the writes to come say what the tick    *)
(* has recorded so far, and a scrape what it can have found (metrics.go).  *)
THEOREM MetricsInvariant == Spec => []MetricsInv
BY MetricsInit, MetricsStep, PTL DEF Spec

-----------------------------------------------------------------------------
(* What is going to be shown is shown, when no write to it is to come.     *)
LEMMA HotShown ==
  ASSUME NEW vec, NEW id, NEW active \in Members(StatesOf(vec)),
         Shows(gauge, Pending, vec, id, active),
         \A s \in Members(StatesOf(vec)) : \A w \in Pending : w.key # <<vec, id, s>>
  PROVE  Hot(<<vec, id>>) = {active}
<1>1. \A s \in Members(StatesOf(vec)) : gauge[<<vec, id, s>>] = b2f(s = active)
  BY DEF Shows, Will
<1>2. \A s \in Members(StatesOf(vec)) : gauge[<<vec, id, s>>] = 1 <=> s = active
  BY <1>1 DEF b2f
<1> QED BY <1>2 DEF Hot

LEMMA ShownDesired == \A l : Shown(l) \in Desired
BY DEF Shown, DesiredForLoad, Desired

(* Once its loop is through, what the tick found of a load is shown.       *)
LEMMA LoadHot ==
  ASSUME MetricsInv, pc = "apply" \/ Ended, NEW l \in Loads
  PROVE  /\ Hot(<<"desired", l>>) = {Shown(l)}
         /\ Hot(<<"requested", l>>) = {req[l]}
         /\ Hot(<<"actual", l>>) = {actual[l]}
         /\ LoadType[l] = "nut-server" => Hot(<<"shed", l>>) = {shed[l]}
<1>1. LoadShown(l)
  BY Orders DEF MetricsInv, LoadsInv, LoadDone
<1>2. \A vec \in LoadVec : \A s \in Members(StatesOf(vec)) : \A w \in Pending : w.key # <<vec, l, s>>
  BY KeyShapes DEF MetricsInv, QuietInv, Ended, OneHotVec, LoadVec
<1>3. /\ Shown(l) \in Members(StatesOf("desired")) /\ req[l] \in Members(StatesOf("requested"))
      /\ actual[l] \in Members(StatesOf("actual")) /\ shed[l] \in Members(StatesOf("shed"))
  BY States, ShownDesired DEF MetricsInv, TypesInv
<1>4. ASSUME NEW vec \in LoadVec, NEW active \in Members(StatesOf(vec)),
             Shows(gauge, Pending, vec, l, active)
      PROVE  Hot(<<vec, l>>) = {active}
  BY <1>2, <1>4, HotShown
<1> QED BY <1>1, <1>3, <1>4 DEF LoadShown, LoadVec

LEMMA RestQuiet == Rest => Ended /\ Pending = {}
BY MembersFew DEF Rest, Ended, Pending

(* The registry holds numbers, and every one-hot child 0 or 1 (setOneHot). *)
THEOREM TypeOKAlways == Spec => []TypeOK
<1>1. MetricsInv => TypeOK
  BY DEF MetricsInv, TypesInv, TypeOK, Value, Absent
<1> QED BY <1>1, MetricsInvariant, PTL

(* Between ticks each one-hot gauge of every UPS and load shows the one    *)
(* state the tick found, whatever had been recorded before (RecordSource,  *)
(* RecordLoad).                                                            *)
THEOREM OneHotAtRestAlways == Spec => []OneHotAtRest
<1>1. ASSUME MetricsInv, Rest PROVE OneHotAtRest
  <2>1. ASSUME NEW u \in UPS PROVE Hot(<<"source", u>>) = {src[u]}
    <3>1. Shows(gauge, Pending, "source", u, src[u])
      BY <1>1, RestQuiet, Orders DEF MetricsInv, SourcesInv, SourceDone
    <3>2. src[u] \in Members(StatesOf("source"))
      BY <1>1, States DEF MetricsInv, TypesInv
    <3> QED BY <1>1, <3>1, <3>2, RestQuiet, HotShown
  <2> QED BY <1>1, <2>1, RestQuiet, LoadHot DEF OneHotAtRest
<1>2. MetricsInv => OneHotAtRest
  BY <1>1 DEF OneHotAtRest
<1> QED BY <1>2, MetricsInvariant, PTL

LEMMA GoodKeysOnly ==
  ASSUME NEW u, NEW s, NEW vec \in {"last_success", "telemetry"}, <<vec, u, s>> \in Keys
  PROVE  <<vec, u, s>> \in GoodKeys(u)
<1> DEFINE B == {<<v, "all", NoLabel>> : v \in {"grace", "dry_run", "reconcile"}}
           C == {<<v, x, NoLabel>> : v \in {"reachable", "poll_failures", "last_success"}, x \in UPS}
           D == {<<"status", x, f>> : x \in UPS, f \in Members(Flags)}
           E == {<<"telemetry", x, t>> : x \in UPS, t \in Members(Specs)}
           F == {<<v, l, k>> : v \in {"actions", "failures"}, l \in Loads, k \in ActionKind}
<1>1. Keys = OneHotKeys \cup B \cup C \cup D \cup E \cup F
  BY DEF Keys
<1>2. /\ \A k \in OneHotKeys : k[1] \in OneHotVec
      /\ \A k \in B : k[1] \in {"grace", "dry_run", "reconcile"}
      /\ \A k \in D : k[1] = "status"
      /\ \A k \in F : k[1] \in {"actions", "failures"}
  BY KeyShapes
<1>3. <<vec, u, s>> \in C => s = NoLabel /\ vec = "last_success"
  OBVIOUS
<1>4. <<vec, u, s>> \in E => s \in Members(Specs) /\ vec = "telemetry"
  OBVIOUS
<1> HIDE DEF B, C, D, E, F
<1>5. <<vec, u, s>> \in C \cup E
  BY <1>1, <1>2 DEF OneHotVec
<1> QED BY <1>3, <1>4, <1>5 DEF GoodKeys

(* Between ticks the telemetry of every UPS is that of its last good poll: *)
(* a failed poll leaves it and its stamp, a good one replaces or deletes   *)
(* each series (RecordPoll, recordTelemetry).                              *)
THEOREM TelemetryIsLastGoodAlways == Spec => []TelemetryIsLastGood
<1>1. ASSUME MetricsInv, Rest, NEW u \in UPS, fetched[u] = {},
             NEW vec \in {"last_success", "telemetry"}, NEW s, <<vec, u, s>> \in Keys
      PROVE  gauge[<<vec, u, s>>] = Absent
  <2>1. LastGood(u)
    BY <1>1 DEF MetricsInv, LastGoodInv
  <2>2. \A k \in GoodKeys(u) : gauge[k] = Absent
    BY <1>1, <2>1 DEF LastGood
  <2> QED BY <1>1, <2>2, GoodKeysOnly
<1>2. ASSUME MetricsInv, Rest, NEW u \in UPS, NEW good \in fetched[u]
      PROVE  /\ gauge[<<"last_success", u, NoLabel>>] = good.at
             /\ \A s \in Members(Specs) : gauge[<<"telemetry", u, s>>] = firstFloat(good.vars, Names[s])
  <2>1. LastGood(u) /\ Pending = {}
    BY <1>2, RestQuiet DEF MetricsInv, LastGoodInv
  <2>2. PICK r \in Readings, n \in 0..ticks :
          fetched[u] = {[vars |-> r.vars, at |-> n]} /\ ShowsGood(gauge, Pending, u, r.vars, n)
    BY <1>2, <2>1 DEF LastGood
  <2>3. good.vars = r.vars /\ good.at = n
    BY <1>2, <2>2
  <2> QED BY <2>1, <2>2, <2>3 DEF ShowsGood, Will
<1>3. MetricsInv => TelemetryIsLastGood
  BY <1>1, <1>2 DEF TelemetryIsLastGood
<1> QED BY <1>3, MetricsInvariant, PTL

(* The heartbeat shows the current tick only when its whole plan has been  *)
(* applied (ObserveReconcile, the last thing of a tick).                   *)
THEOREM HeartbeatIsHonestAlways == Spec => []HeartbeatIsHonest
<1>1. MetricsInv => HeartbeatIsHonest
  BY DEF MetricsInv, HeartInv, PlanInv, TypesInv, HeartbeatIsHonest, BeatKey
<1> QED BY <1>1, MetricsInvariant, PTL

(* For any loads: no action is applied that the gauge of the desired state *)
(* does not show, at the very moment it is applied and until the next tick *)
(* (record, DesiredForLoad).                                               *)
THEOREM DecisionShownAlways == Spec => []DecisionShown
<1>1. ASSUME MetricsInv, NEW l \in Loads, NEW k \in took[l]
      PROVE  /\ k \in {"WakeServer", "ChassisPowerUp", "ReleaseServerShed"} => Hot(<<"desired", l>>) = {"on"}
             /\ k \in {"ChassisShutdown", "AssertServerShed"} => Hot(<<"desired", l>>) = {"off"}
  <2>1. (pc = "apply" \/ Ended) /\ k \in Called(l)
    BY <1>1 DEF MetricsInv, PlanInv
  <2>2. k \in ReconcileLoad(LoadType[l], Shown(l), actual[l], shed[l])
    BY <2>1 DEF Called
  <2>3. /\ k \in {"WakeServer", "ChassisPowerUp", "ReleaseServerShed"} => Shown(l) = "on"
        /\ k \in {"ChassisShutdown", "AssertServerShed"} => Shown(l) = "off"
    BY <2>2 DEF ReconcileLoad, ReconcileChassis, ReconcileServer
  <2> QED BY <1>1, <2>1, <2>3, LoadHot
<1>2. MetricsInv => DecisionShown
  BY <1>1 DEF DecisionShown
<1> QED BY <1>2, MetricsInvariant, PTL

(* A load shown as wanted on and found down was powered on in that tick,   *)
(* unless the grace is shown as active (RecordStartupGrace).               *)
THEOREM GraceShownAlways == Spec => []GraceShown
<1>1. ASSUME MetricsInv, Rest, NEW l \in Loads,
             Hot(<<"desired", l>>) = {"on"}, Hot(<<"actual", l>>) = {"down"}
      PROVE  gauge[GraceKey] = 0 <=> \E k \in took[l] : isPowerOn(k)
  <2>1. Ended /\ Pending = {}
    BY <1>1, RestQuiet
  <2>2. Shown(l) = "on" /\ actual[l] = "down"
    BY <1>1, <2>1, LoadHot
  <2>3. took[l] = Called(l)
    BY <1>1, <2>1 DEF MetricsInv, PlanInv, Ended
  <2>4. \E k \in ReconcileLoad(LoadType[l], Shown(l), actual[l], shed[l]) : isPowerOn(k)
    BY <2>2 DEF ReconcileLoad, ReconcileChassis, ReconcileServer, isPowerOn
  <2>5. gauge[GraceKey] = b2f(held)
    BY <1>1, <2>1 DEF MetricsInv, GraceInv, Will
  <2>6. CASE held
    BY <2>3, <2>5, <2>6 DEF Called, b2f
  <2>7. CASE ~held
    BY <2>3, <2>4, <2>5, <2>7 DEF Called, b2f
  <2> QED BY <2>6, <2>7
<1>2. MetricsInv => GraceShown
  BY <1>1 DEF GraceShown, GraceKey
<1> QED BY <1>2, MetricsInvariant, PTL

(* Every state a scrape finds hot, reading child by child while recorders  *)
(* write, was the recorded one at some moment of the scrape.               *)
THEOREM ScrapeTruthfulAlways == Spec => []ScrapeTruthful
<1>1. MetricsInv => ScrapeTruthful
  BY DEF MetricsInv, ScrapeInv, ScrapeTruthful
<1> QED BY <1>1, MetricsInvariant, PTL
=============================================================================
