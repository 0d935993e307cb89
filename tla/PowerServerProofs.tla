------------------------- MODULE PowerServerProofs -------------------------
(***************************************************************************)
(* Module PowerServer for any loads, handlers and TTL: the mutex guards    *)
(* the maps, Desired returns a snapshot, and the mutex-step server         *)
(* implements PowerApi.                                                    *)
(***************************************************************************)
EXTENDS PowerServer, TLAPS

Held == \A t \in Threads : pc[t] \in Critical => mu = t

(* Nothing stored lies in the future.                                      *)
Past == /\ \A l \in Loads : want[l].at <= now /\ seen[l].at <= now
        /\ pub.at <= now

(* Desired, while it holds the mutex: what it has yet to look at stands in *)
(* want, what it looked at last is still there, the rest is in out.        *)
Ranging ==
  /\ pc["loop"] \in {"range", "entry"} => \A l \in todo : want[l].req # "none" /\ out[l] = "none"
  /\ pc["loop"] = "range" => \A l \in Loads \ todo : out[l] = want[l].req
  /\ pc["loop"] = "entry" =>
       /\ pair.load \in Loads \ todo
       /\ pair.req = want[pair.load].req /\ pair.at = want[pair.load].at
       /\ pair.req # "none" /\ out[pair.load] = "none"
       /\ \A l \in Loads \ (todo \cup {pair.load}) : out[l] = want[l].req
  /\ pc["loop"] \notin {"range", "entry"} => out = NoOut

(* A handler about to store has its arguments.                             *)
Armed == \A h \in Handlers : pc[h] \in {"put", "store"} => arg[h] # NoArg

IInv == TypeOK /\ Held /\ Past /\ Ranging /\ Armed

-----------------------------------------------------------------------------
(* The mutex tells all threads apart, and no request looks like none.      *)
LEMMA LoopApart == /\ "loop" \in Threads /\ Handlers \subseteq Threads
                   /\ "loop" \notin Handlers /\ "free" \notin Threads
                   /\ NoArg.req \notin Requests /\ NoPair.req \notin Requests
  BY ServerAssumption DEF ServerAssumption, Threads, NoArg, NoPair

LEMMA InitInv == ASSUME Init PROVE IInv
  <1>. USE LoopApart, ServerAssumption DEF Init, NoWant, NoSeen, NoneStored, NoneShown, NoOut, NoPub, NoArg, NoPair
  <1>1. TypeOK
    BY DEF TypeOK, Stored, Shown, Instant, Request, HandlerPC, LoopPC, ActualState
  <1>2. Held /\ Past /\ Ranging /\ Armed
    BY DEF Held, Past, Ranging, Armed, Critical, Threads
  <1>. QED BY <1>1, <1>2 DEF IInv

(* The invariant is inductive: one step per action.  Ranging and Held rest *)
(* on the mutex: while the loop is between LockDesired and ReturnDesired   *)
(* no handler is between LockPut and Unlock.                               *)
LEMMA NextInv == ASSUME IInv, [Next]_svars PROVE IInv'
  <1>. USE LoopApart, ServerAssumption
           DEF IInv, TypeOK, Held, Past, Ranging, Armed, Critical, HandlerPC, LoopPC,
               Instant, Stored, Shown, Move, Acquire, Release
  <1>1. CASE UNCHANGED svars
    BY <1>1 DEF svars
  <1>2. CASE Clock
    BY <1>2 DEF Clock
  <1>3. CASE Restart
    BY <1>3, InitInv, Request = {"none", "hold", "off", "on"}
       DEF Restart, NoWant, NoSeen, NoneStored, NoneShown, NoOut, NoPub, NoArg, NoPair, Request, ActualState
  <1>4. CASE CallPublish
    BY <1>4 DEF CallPublish
  <1>5. CASE LockPublish
    BY <1>5 DEF LockPublish
  <1>6. ASSUME NEW l \in Loads, StoreSeen(l) PROVE IInv'
    BY <1>6 DEF StoreSeen
  <1>7. CASE UnlockPublish
    BY <1>7 DEF UnlockPublish, NoPub
  <1>8. CASE LockDesired
    BY <1>8 DEF LockDesired, NoOut
  <1>9. ASSUME NEW l \in Loads, Yield(l) PROVE IInv'
    BY <1>9 DEF Yield
  <1>10. CASE Delete
    BY <1>10 DEF Delete, NoneStored, NoPair
  <1>11. CASE Keep
    BY <1>11 DEF Keep, NoPair
  <1>12. CASE ReturnDesired
    BY <1>12 DEF ReturnDesired, NoOut, Request
  <1>13. ASSUME NEW h \in Handlers, ReceivePut(h) PROVE IInv'
    BY <1>13 DEF ReceivePut, NoArg
  <1>14. ASSUME NEW h \in Handlers, LockPut(h) PROVE IInv'
    BY <1>14 DEF LockPut
  <1>15. ASSUME NEW h \in Handlers, Store(h) PROVE IInv'
    BY <1>15 DEF Store, NoArg
  <1>16. ASSUME NEW h \in Handlers, ReceiveGet(h) PROVE IInv'
    BY <1>16 DEF ReceiveGet
  <1>17. ASSUME NEW h \in Handlers, LockGet(h) PROVE IInv'
    BY <1>17 DEF LockGet
  <1>18. ASSUME NEW h \in Handlers, Copy(h) PROVE IInv'
    BY <1>18 DEF Copy
  <1>19. ASSUME NEW h \in Handlers, Unlock(h) PROVE IInv'
    <2>1. CASE Move(h, "stored", "idle")
      BY <1>19, <2>1 DEF Unlock
    <2>2. CASE Move(h, "copied", "idle")
      BY <1>19, <2>2 DEF Unlock
    <2>. QED BY <1>19, <2>1, <2>2 DEF Unlock
  <1>. QED
    BY <1>1, <1>2, <1>3, <1>4, <1>5, <1>6, <1>7, <1>8, <1>9, <1>10, <1>11, <1>12, <1>13, <1>14,
       <1>15, <1>16, <1>17, <1>18, <1>19 DEF Next, Locking, Loop, Handler

-----------------------------------------------------------------------------
(* A thread in a critical statement holds the mutex, so there is one.      *)
LEMMA InvGuards == ASSUME IInv PROVE MapsGuarded /\ DesiredIsSnapshot
  BY DEF IInv, Held, Ranging, MapsGuarded, DesiredIsSnapshot

(* Ages grow with the clock as PowerApi's do.                              *)
LEMMA AgeGrows ==
  ASSUME NEW n \in Int, NEW at \in Int, NEW cap \in Int
  PROVE  (IF (n + 1) - at < cap THEN (n + 1) - at ELSE cap)
           = Api!Older(IF n - at < cap THEN n - at ELSE cap, cap)
  BY DEF Api!Older

-----------------------------------------------------------------------------
LEMMA RefinesInit == ASSUME Init PROVE Api!New
  BY ServerAssumption DEF Init, NoWant, NoSeen, NoneStored, NoneShown, Api!New,
     Api!NoEntry, Api!NoObservation, wantAge, seenAge, Publishing

(* What wantAge and seenAge are made of, and hence when they stay.         *)
LEMMA SameView ==
  ASSUME UNCHANGED <<now, want, seen>>,
         \A l \in ApiLoads : /\ (Publishing(l)' <=> Publishing(l))
                            /\ (Publishing(l) => pub' = pub)
  PROVE  UNCHANGED <<wantAge, seenAge>>
<1>1. wantAge' = wantAge
  BY DEF wantAge, AgeOf
<1>2. \A l \in ApiLoads : seenAge'[l] = seenAge[l]
  BY DEF seenAge, AgeOf
<1>. QED BY <1>1, <1>2 DEF seenAge

LEMMA NextRefines ==
  ASSUME IInv, [Next]_svars PROVE [Api!ApiNext]_(Api!apiVars)
  <1>. USE LoopApart, ServerAssumption DEF Move, Api!apiVars
  <1>. DEFINE Quiet == UNCHANGED <<wantAge, seenAge>>
  <1>0. Quiet => [Api!ApiNext]_(Api!apiVars)
    OBVIOUS
  <1>1. CASE UNCHANGED svars
    BY <1>0, <1>1 DEF svars, wantAge, seenAge, AgeOf, Publishing
  <1>2. CASE Clock
    <2>1. /\ now \in Int /\ now' = now + 1 /\ RequestTTL \in Int /\ ObsAgeCap \in Int
          /\ \A l \in Loads : want[l].at \in Int /\ seen[l].at \in Int
          /\ pub.at \in Int /\ ApiLoads \subseteq Loads
          /\ UNCHANGED <<want, seen, pc, todo, pub>>
      BY <1>2 DEF Clock, IInv, TypeOK, Instant, Stored, Shown
    <2>2. wantAge' = [l \in Loads |-> IF wantAge[l].req = "none" THEN wantAge[l]
                        ELSE [wantAge[l] EXCEPT !.age = Api!Older(@, RequestTTL)]]
      <3>1. ASSUME NEW l \in Loads
            PROVE  wantAge'[l] = IF wantAge[l].req = "none" THEN wantAge[l]
                                 ELSE [wantAge[l] EXCEPT !.age = Api!Older(@, RequestTTL)]
        BY <2>1, AgeGrows DEF wantAge, AgeOf
      <3>. QED BY <3>1 DEF wantAge
    <2>3. seenAge' = [l \in ApiLoads |-> IF seenAge[l].ok
                        THEN [seenAge[l] EXCEPT !.age = Api!Older(@, ObsAgeCap)]
                        ELSE seenAge[l]]
      <3>1. ASSUME NEW l \in ApiLoads
            PROVE  seenAge'[l] = IF seenAge[l].ok
                                 THEN [seenAge[l] EXCEPT !.age = Api!Older(@, ObsAgeCap)]
                                 ELSE seenAge[l]
        <4>1. CASE Publishing(l)
          BY <4>1, <2>1, AgeGrows DEF seenAge, AgeOf, Publishing
        <4>2. CASE ~Publishing(l) /\ seen[l].ok
          BY <4>2, <2>1, AgeGrows DEF seenAge, AgeOf, Publishing
        <4>3. CASE ~Publishing(l) /\ ~seen[l].ok
          BY <4>3, <2>1 DEF seenAge, Publishing
        <4>. QED BY <4>1, <4>2, <4>3
      <3>. QED BY <3>1 DEF seenAge
    <2>. QED BY <2>2, <2>3 DEF Api!ApiNext, Api!ApiClock
  <1>3. CASE Restart
    BY <1>3 DEF Restart, wantAge, seenAge, Publishing, NoWant, NoSeen, NoneStored, NoneShown,
       Api!ApiNext, Api!NewServer, Api!NoEntry, Api!NoObservation
  <1>4. ASSUME CallPublish PROVE Quiet
    BY <1>4, SameView DEF CallPublish, Publishing, IInv, TypeOK
  <1>5. ASSUME UnlockPublish PROVE Quiet
    BY <1>5, SameView DEF UnlockPublish, Publishing
  <1>6. ASSUME LockDesired PROVE Quiet
    BY <1>6, SameView DEF LockDesired, Publishing
  <1>7. ASSUME Keep PROVE Quiet
    BY <1>7, SameView DEF Keep, Publishing
  <1>8. ASSUME ReturnDesired PROVE Quiet
    BY <1>8, SameView DEF ReturnDesired, Publishing
  <1>9. ASSUME NEW l \in Loads, Yield(l) PROVE Quiet
    BY <1>9, SameView DEF Yield, Publishing
  <1>10. ASSUME NEW h \in Handlers, ReceivePut(h) PROVE Quiet
    BY <1>10, SameView DEF ReceivePut, Publishing, IInv, TypeOK
  <1>11. ASSUME NEW h \in Handlers, LockPut(h) PROVE Quiet
    BY <1>11, SameView DEF LockPut, Publishing, IInv, TypeOK
  <1>12. ASSUME NEW h \in Handlers, ReceiveGet(h) PROVE Quiet
    BY <1>12, SameView DEF ReceiveGet, Publishing, IInv, TypeOK
  <1>13. ASSUME NEW h \in Handlers, LockGet(h) PROVE Quiet
    BY <1>13, SameView DEF LockGet, Publishing, IInv, TypeOK
  <1>14. ASSUME NEW h \in Handlers, Copy(h) PROVE Quiet
    BY <1>14, SameView DEF Copy, Publishing, IInv, TypeOK
  <1>15. ASSUME NEW h \in Handlers, Unlock(h) PROVE Quiet
    BY <1>15, SameView DEF Unlock, Publishing, IInv, TypeOK
  <1>16. ASSUME NEW l \in Loads, StoreSeen(l) PROVE Quiet
    <2>1. wantAge' = wantAge
      BY <1>16 DEF StoreSeen, wantAge, AgeOf
    <2>2. ASSUME NEW m \in ApiLoads PROVE seenAge'[m] = seenAge[m]
      <3>1. CASE m = l
        BY <3>1, <1>16 DEF StoreSeen, seenAge, Publishing, AgeOf, IInv, TypeOK
      <3>2. CASE m # l
        BY <3>2, <1>16 DEF StoreSeen, seenAge, Publishing, AgeOf, IInv, TypeOK
      <3>. QED BY <3>1, <3>2
    <2>. QED BY <2>1, <2>2 DEF seenAge
  <1>17. ASSUME LockPublish PROVE Api!ApiNext
    <2>. DEFINE age == AgeOf(pub.at, ObsAgeCap)
    <2>1. pub.actual \in [Loads -> ActualState] /\ age \in 0..ObsAgeCap
      BY DEF IInv, TypeOK, Past, Instant, AgeOf
    <2>2. wantAge' = wantAge
      BY <1>17 DEF LockPublish, wantAge, AgeOf
    <2>3. \A l \in ApiLoads : Publishing(l)'
      BY <1>17 DEF LockPublish, Publishing, IInv, TypeOK
    <2>4. now' = now /\ pub' = pub
      BY <1>17 DEF LockPublish
    <2>5. seenAge' = [l \in ApiLoads |-> [ok |-> TRUE, state |-> pub.actual[l], age |-> age]]
      BY <2>3, <2>4 DEF seenAge, AgeOf
    <2>. QED BY <2>1, <2>2, <2>5 DEF Api!ApiNext, Api!PublishAged, Api!ActualState, ActualState
  <1>18. ASSUME NEW h \in Handlers, Store(h) PROVE Api!ApiNext
    <2>. DEFINE l == arg[h].load
                r == arg[h].req
    <2>1. l \in ApiLoads /\ l \in Loads /\ r \in {"on", "off", "hold"}
      BY <1>18 DEF Store, IInv, TypeOK, Armed, Request
    <2>2. wantAge' = [wantAge EXCEPT ![l] = [req |-> r, age |-> 0]]
      <3>1. AgeOf(now, RequestTTL) = 0
        BY DEF AgeOf, IInv, TypeOK, Instant
      <3>. QED BY <3>1, <2>1, <1>18 DEF Store, wantAge, AgeOf, IInv, TypeOK
    <2>3. seenAge' = seenAge
      BY <1>18 DEF Store, seenAge, Publishing, AgeOf, IInv, TypeOK
    <2>4. Api!handlePower(TRUE, l, r)
      BY <2>1, <2>2, <2>3 DEF Api!handlePower, Api!PowerStatus, Api!requestByName
    <2>. QED BY <2>1, <2>4 DEF Api!ApiNext, Api!Body, Api!requestByName
  <1>19. ASSUME Delete PROVE Api!ApiNext
    <2>. DEFINE l == pair.load
    <2>1. /\ l \in Loads /\ want[l].req # "none" /\ pair.at = want[l].at
          /\ pc["loop"] = "entry"
      BY <1>19 DEF Delete, IInv, Ranging
    <2>2. Api!expired(l) /\ wantAge[l].req # "none"
      BY <2>1, <1>19 DEF Delete, expired, Api!expired, wantAge, AgeOf, IInv, TypeOK, Instant, Stored
    <2>3. wantAge' = [wantAge EXCEPT ![l] = Api!NoEntry]
      BY <2>1, <1>19 DEF Delete, wantAge, AgeOf, Api!NoEntry, NoneStored, IInv, TypeOK
    <2>4. seenAge' = seenAge
      BY <2>1, <1>19 DEF Delete, seenAge, Publishing, AgeOf
    <2>. QED BY <2>1, <2>2, <2>3, <2>4 DEF Api!ApiNext, Api!Expire
  <1>. QED
    BY <1>0, <1>1, <1>2, <1>3, <1>4, <1>5, <1>6, <1>7, <1>8, <1>9, <1>10, <1>11, <1>12, <1>13, <1>14, <1>15, <1>16, <1>17, <1>18, <1>19 DEF Next, Locking, Loop, Handler

-----------------------------------------------------------------------------
(* Every state of the server is well typed, and stays what NextInv says.   *)
THEOREM TypeCorrect == Spec => []TypeOK
<1>1. Init => IInv
  BY InitInv
<1>2. IInv /\ [Next]_svars => IInv'
  BY NextInv
<1>3. IInv => TypeOK
  BY DEF IInv
<1>. QED BY <1>1, <1>2, <1>3, PTL DEF Spec

(* Whatever the handlers and the loop do, the maps are accessed by one     *)
(* thread at a time (Server.mu in handlePower, handleState, Desired and    *)
(* PublishActual).                                                         *)
THEOREM MutexGuards == Spec => []MapsGuarded
<1>1. Init => IInv
  BY InitInv
<1>2. IInv /\ [Next]_svars => IInv'
  BY NextInv
<1>3. IInv => MapsGuarded
  BY InvGuards
<1>. QED BY <1>1, <1>2, <1>3, PTL DEF Spec

(* Desired, which ranges over the map entry by entry, returns what stood   *)
(* for all loads at one moment, whoever waits to write meanwhile.          *)
THEOREM SnapshotReturned == Spec => []DesiredIsSnapshot
<1>1. Init => IInv
  BY InitInv
<1>2. IInv /\ [Next]_svars => IInv'
  BY NextInv
<1>3. IInv => DesiredIsSnapshot
  BY InvGuards
<1>. QED BY <1>1, <1>2, <1>3, PTL DEF Spec

(* The server implements PowerApi: initial states map to New, every step   *)
(* to an operation of PowerApi or to none.                                 *)
THEOREM ServerImplementsApi == Spec => Implements
<1>1. Init => IInv /\ Api!New
  BY InitInv, RefinesInit
<1>2. IInv /\ [Next]_svars => IInv'
  BY NextInv
<1>3. IInv /\ [Next]_svars => [Api!ApiNext]_(Api!apiVars)
  BY NextRefines
<1>. QED BY <1>1, <1>2, <1>3, PTL DEF Spec, Implements, Api!ApiSpec
=============================================================================
