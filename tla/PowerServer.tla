---------------------------- MODULE PowerServer ----------------------------
(***************************************************************************)
(* Package internal/powerapi, statement by statement: the goroutines that  *)
(* serve PUT and GET and the reconcile loop share two Go maps under one    *)
(* mutex, and store instants.  Module PowerApi is what they promise        *)
(* together: whole operations, and ages instead of instants.  Implements   *)
(* says that this module keeps that promise.                               *)
(*                                                                         *)
(* A request that is refused touches neither map and is left out, as is    *)
(* the log line of a changed request.  So is the answer of a GET: it is    *)
(* made after the unlock, of what Copy read and the clock of that moment,  *)
(* and nothing here reads it.  A load without an entry in want has req     *)
(* "none", which no PUT can store.  A local variable has its zero value    *)
(* again once nothing reads it.                                            *)
(***************************************************************************)
EXTENDS Control

CONSTANTS Loads, ApiLoads, RequestTTL, ObsAgeCap,  \* as in PowerApi
          Handlers,  \* the goroutines net/http runs handlers on
          Requests,  \* bound: what is asked for
          Probed,    \* bound: what is published
          MaxNow     \* bound: the clock stops here

ASSUME ServerAssumption ==
  /\ ApiLoads \subseteq Loads
  /\ RequestTTL \in Nat /\ ObsAgeCap \in Nat /\ MaxNow \in Nat
  /\ Handlers \cap {"loop", "free"} = {}
  /\ Requests \subseteq Request \ {"none"}
  /\ "unknown" \in Probed /\ Probed \subseteq ActualState

VARIABLES
  now,   \* the monotonic clock
  mu,    \* Server.mu: the thread that holds it, or "free"
  want,  \* Server.want: request and instant of each load
  seen,  \* Server.seen: state and instant of each load
  pc,    \* where each thread is
  arg,   \* the load and request each handler was called with
  pub,   \* PublishActual's arguments
  todo,  \* the loads a range statement has yet to yield
  pair,  \* the pair Desired's range statement yielded last
  out    \* the map Desired is filling

svars == <<now, mu, want, seen, pc, arg, pub, todo, pair, out>>

Threads == Handlers \cup {"loop"}
Instant == 0..MaxNow
Stored  == [req: Requests \cup {"none"}, at: Instant]
Shown   == [ok: BOOLEAN, state: ActualState, at: Instant]

NoneStored == [req |-> "none", at |-> 0]
NoneShown  == [ok |-> FALSE, state |-> "unknown", at |-> 0]

NoWant == [l \in Loads |-> NoneStored]
NoSeen == [l \in Loads |-> NoneShown]
NoArg  == [load |-> "none", req |-> "none"]
NoPair == [load |-> "none", req |-> "none", at |-> 0]
NoOut  == [l \in Loads |-> "none"]
NoPub  == [at |-> 0, actual |-> [l \in Loads |-> "unknown"]]

(* The statements that access the maps.                                    *)
Critical == {"store", "stored", "copy", "copied", "storing", "range", "entry"}

HandlerPC == {"idle", "put", "store", "stored", "get", "copy", "copied"}
LoopPC    == {"idle", "publish", "storing", "desired", "range", "entry"}

TypeOK ==
  /\ now \in Instant /\ mu \in Threads \cup {"free"}
  /\ want \in [Loads -> Stored] /\ seen \in [Loads -> Shown]
  /\ pc \in [Threads -> HandlerPC \cup LoopPC]
  /\ pc["loop"] \in LoopPC /\ \A h \in Handlers : pc[h] \in HandlerPC
  /\ arg \in [Handlers -> [load: ApiLoads, req: Requests] \cup {NoArg}]
  /\ pub \in [at: Instant, actual: [Loads -> Probed]]
  /\ todo \subseteq Loads
  /\ pair \in [load: Loads, req: Requests, at: Instant] \cup {NoPair}
  /\ out \in [Loads -> Request]

Init ==
  /\ now = 0 /\ mu = "free" /\ want = NoWant /\ seen = NoSeen
  /\ pc = [t \in Threads |-> "idle"]
  /\ arg = [h \in Handlers |-> NoArg] /\ pub = NoPub
  /\ todo = {} /\ pair = NoPair /\ out = NoOut

Move(t, from, to) == pc[t] = from /\ pc' = [pc EXCEPT ![t] = to]

(* Mutant: the mutex does not exclude.                                     *)
AcquireAnyway(t) == mu' = t

Acquire(t) == mu = "free" /\ mu' = t
Release    == mu' = "free"

-----------------------------------------------------------------------------
(* handlePower, once its checks have passed.                               *)
ReceivePut(h) ==
  /\ Move(h, "idle", "put")
  /\ \E l \in ApiLoads, r \in Requests : arg' = [arg EXCEPT ![h] = [load |-> l, req |-> r]]
  /\ UNCHANGED <<now, mu, want, seen, pub, todo, pair, out>>

LockPut(h) ==
  /\ Move(h, "put", "store") /\ Acquire(h)
  /\ UNCHANGED <<now, want, seen, arg, pub, todo, pair, out>>

Store(h) ==
  /\ Move(h, "store", "stored")
  /\ want' = [want EXCEPT ![arg[h].load] = [req |-> arg[h].req, at |-> now]]
  /\ arg' = [arg EXCEPT ![h] = NoArg]
  /\ UNCHANGED <<now, mu, seen, pub, todo, pair, out>>

(* handleState, once its checks have passed.                               *)
ReceiveGet(h) ==
  /\ Move(h, "idle", "get")
  /\ UNCHANGED <<now, mu, want, seen, arg, pub, todo, pair, out>>

(* Mutant: the map is read without the mutex.                              *)
LockGetForgotten(h) ==
  /\ Move(h, "get", "copy")
  /\ UNCHANGED <<now, mu, want, seen, arg, pub, todo, pair, out>>

LockGet(h) ==
  /\ Move(h, "get", "copy") /\ Acquire(h)
  /\ UNCHANGED <<now, want, seen, arg, pub, todo, pair, out>>

(* The access alone: what it reads goes into the answer.                   *)
Copy(h) ==
  /\ Move(h, "copy", "copied")
  /\ UNCHANGED <<now, mu, want, seen, arg, pub, todo, pair, out>>

Unlock(h) ==
  /\ Move(h, "stored", "idle") \/ Move(h, "copied", "idle")
  /\ Release
  /\ UNCHANGED <<now, want, seen, arg, pub, todo, pair, out>>

-----------------------------------------------------------------------------
(* PublishActual: Tick evaluates the instant before the mutex is taken.    *)
CallPublish ==
  /\ Move("loop", "idle", "publish")
  /\ \E a \in [Loads -> Probed] : pub' = [at |-> now, actual |-> a]
  /\ UNCHANGED <<now, mu, want, seen, arg, todo, pair, out>>

LockPublish ==
  /\ Move("loop", "publish", "storing") /\ Acquire("loop")
  /\ todo' = Loads
  /\ UNCHANGED <<now, want, seen, arg, pub, pair, out>>

StoreSeen(l) ==
  /\ pc["loop"] = "storing" /\ l \in todo
  /\ seen' = [seen EXCEPT ![l] = [ok |-> TRUE, state |-> pub.actual[l], at |-> pub.at]]
  /\ todo' = todo \ {l}
  /\ UNCHANGED <<now, mu, want, pc, arg, pub, pair, out>>

UnlockPublish ==
  /\ Move("loop", "storing", "desired") /\ todo = {} /\ Release
  /\ pub' = NoPub
  /\ UNCHANGED <<now, want, seen, arg, todo, pair, out>>

-----------------------------------------------------------------------------
(* Desired: a range over the entries, in any order, under the mutex.       *)
LockDesired ==
  /\ Move("loop", "desired", "range") /\ Acquire("loop")
  /\ todo' = {l \in Loads : want[l].req # "none"}
  /\ UNCHANGED <<now, want, seen, arg, pub, pair, out>>

Yield(l) ==
  /\ Move("loop", "range", "entry") /\ l \in todo
  /\ pair' = [load |-> l, req |-> want[l].req, at |-> want[l].at]
  /\ todo' = todo \ {l}
  /\ UNCHANGED <<now, mu, want, seen, arg, pub, out>>

expired(at) == RequestTTL > 0 /\ now - at >= RequestTTL

Delete ==
  /\ Move("loop", "entry", "range") /\ expired(pair.at)
  /\ want' = [want EXCEPT ![pair.load] = NoneStored]
  /\ pair' = NoPair
  /\ UNCHANGED <<now, mu, seen, arg, pub, todo, out>>

Keep ==
  /\ Move("loop", "entry", "range") /\ ~expired(pair.at)
  /\ out' = [out EXCEPT ![pair.load] = pair.req]
  /\ pair' = NoPair
  /\ UNCHANGED <<now, mu, want, seen, arg, pub, todo>>

(* Mutant: the mutex is not released.                                      *)
ReturnDesiredLocked ==
  /\ Move("loop", "range", "idle") /\ todo = {} /\ mu' = mu
  /\ out' = NoOut
  /\ UNCHANGED <<now, want, seen, arg, pub, todo, pair>>

ReturnDesired ==
  /\ Move("loop", "range", "idle") /\ todo = {} /\ Release
  /\ out' = NoOut
  /\ UNCHANGED <<now, want, seen, arg, pub, todo, pair>>

-----------------------------------------------------------------------------
Clock ==
  /\ now < MaxNow /\ now' = now + 1
  /\ UNCHANGED <<mu, want, seen, pc, arg, pub, todo, pair, out>>

(* A new process has a new Server and none of the threads of the old one.  *)
Restart ==
  /\ mu' = "free" /\ want' = NoWant /\ seen' = NoSeen
  /\ pc' = [t \in Threads |-> "idle"]
  /\ arg' = [h \in Handlers |-> NoArg] /\ pub' = NoPub
  /\ todo' = {} /\ pair' = NoPair /\ out' = NoOut
  /\ UNCHANGED now

Locking == LockPublish \/ LockDesired
Loop == \/ CallPublish \/ UnlockPublish \/ Delete \/ Keep \/ ReturnDesired
        \/ \E l \in Loads : StoreSeen(l) \/ Yield(l)

Handler(h) == Store(h) \/ Copy(h) \/ Unlock(h)

Next ==
  \/ Clock \/ Restart \/ Locking \/ Loop
  \/ \E h \in Handlers : \/ ReceivePut(h) \/ ReceiveGet(h)
                         \/ LockPut(h) \/ LockGet(h) \/ Handler(h)

Spec == Init /\ [][Next]_svars

(* Every thread is scheduled, and a Go mutex is fair: a waiter that has    *)
(* been starved for a millisecond is handed the mutex next.                *)
FairSpec ==
  /\ Spec /\ WF_svars(Loop) /\ SF_svars(LockPublish) /\ SF_svars(LockDesired)
  /\ \A h \in Handlers : /\ WF_svars(Handler(h))
                         /\ SF_svars(LockPut(h)) /\ SF_svars(LockGet(h))

-----------------------------------------------------------------------------
(* No two threads are in the statements that access the maps: Go aborts    *)
(* the process when it sees a map read during a write.                     *)
MapsGuarded ==
  \A t1, t2 \in Threads : pc[t1] \in Critical /\ pc[t2] \in Critical => t1 = t2

(* What Desired has put into the map it returns is what stands in want,    *)
(* for all loads at once, also when a PUT was waiting meanwhile.           *)
DesiredIsSnapshot ==
  pc["loop"] = "range" => \A l \in Loads \ todo : out[l] = want[l].req

(* Every call to the API returns, whoever else is calling: no thread is    *)
(* left waiting for the mutex.                                             *)
CallsReturn == \A t \in Threads : pc[t] # "idle" ~> pc[t] = "idle"

(* The refinement mapping.  Instants become ages, saturated as in PowerApi,*)
(* and a publication counts from the moment its thread has the mutex.      *)
AgeOf(at, cap) == IF now - at < cap THEN now - at ELSE cap

wantAge == [l \in Loads |-> IF want[l].req = "none" THEN [req |-> "none", age |-> 0]
                            ELSE [req |-> want[l].req, age |-> AgeOf(want[l].at, RequestTTL)]]

Publishing(l) == pc["loop"] = "storing" /\ l \in todo
seenAge ==
  [l \in ApiLoads |->
     CASE Publishing(l) -> [ok |-> TRUE, state |-> pub.actual[l], age |-> AgeOf(pub.at, ObsAgeCap)]
       [] ~Publishing(l) /\ seen[l].ok ->
            [ok |-> TRUE, state |-> seen[l].state, age |-> AgeOf(seen[l].at, ObsAgeCap)]
       [] OTHER -> [ok |-> FALSE, state |-> "unknown", age |-> 0]]

Api == INSTANCE PowerApi WITH want <- wantAge, seen <- seenAge

(* The handlers and the loop together implement PowerApi: an accepted      *)
(* request is never dropped before its time or half stored, and what is    *)
(* served is one whole publication (handlePower, Desired, PublishActual).  *)
Implements == Api!ApiSpec
=============================================================================
