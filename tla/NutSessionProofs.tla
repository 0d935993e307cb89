-------------------------- MODULE NutSessionProofs --------------------------
(***************************************************************************)
(* Module NutSession for every timeout and listing: what is said under     *)
(* TLS, what an answer proves, and how long a call may take.               *)
(***************************************************************************)
EXTENDS NutSession, TLAPS

Early == {"dial", "STARTTLS", "handshake"}

(* Once a connection that asked for TLS is past its handshake, everything  *)
(* on its way to the client was sent under TLS.                            *)
SecureLine == {x \in Line : x.tls}

BoundaryInv ==
  /\ phase = "dial" => told = {} /\ bare = {}
  /\ ~opts.TLS => phase \notin {"STARTTLS", "handshake"}
  /\ opts.TLS =>
       /\ bare \subseteq {"STARTTLS"} /\ heeded \subseteq {"STARTTLS"}
       /\ phase \in Early => told \subseteq {"STARTTLS"} /\ ~secure
       /\ phase \notin Early \cup {"done"} => secure
       /\ told \subseteq {"STARTTLS"} \/ secure
       /\ secure => /\ server.verifies \/ opts.InsecureSkipVerify
                    /\ inbox \in Seq(SecureLine)

(* The client has one command outstanding, or its answer: lines that wait  *)
(* answer the command of the phase.                                        *)
TurnInv ==
  /\ cmd # "none" /\ phase # "done" => cmd = phase /\ inbox = <<>>
  /\ phase = "dial" => inbox = <<>>
  /\ phase \in Command \ {"STARTTLS", "LIST"} => Len(inbox) <= 1

(* An OK that waits for the client of a SET says that it was carried out.  *)
SetInv == /\ phase = "SET" /\ inbox # <<>> /\ Head(inbox).word = "OK" => applied
          /\ SetDone
          /\ opts.op = "set" => phase \notin {"LOGIN", "LIST"}

(* Every step up the connection renews the deadline once.                  *)
BudgetInv ==
  /\ phase = "dial" => spent + left <= Timeout
  /\ phase \in Early => spent + left <= 2 * Timeout
  /\ spent + left <= 3 * Timeout

SessionInv == TypeOK /\ BoundaryInv /\ TurnInv /\ SetInv /\ BudgetInv

-----------------------------------------------------------------------------
LEMMA SessionStart == Init => SessionInv
<1> SUFFICES ASSUME Init PROVE SessionInv
  OBVIOUS
<1> USE SessionAssumption DEF Init
<1>a. inbox \in Seq(Line)
  OBVIOUS
<1>b. left \in 0..Timeout /\ spent \in Nat
  OBVIOUS
<1>c. /\ phase \in Phase /\ vars \subseteq Names \cup {"none"}
      /\ told \subseteq Command /\ bare \subseteq Command /\ heeded \subseteq Phase
  BY DEF Phase
<1>1. TypeOK
  BY <1>a, <1>b, <1>c DEF TypeOK
<1>2. BoundaryInv /\ TurnInv /\ SetInv /\ BudgetInv
  BY DEF BoundaryInv, TurnInv, SetInv, SetDone, BudgetInv, Early, Command
<1> QED BY <1>1, <1>2 DEF SessionInv

(* Everything the server says is a line, under TLS if the client talks it. *)
LEMMA ReplyLines ==
  ASSUME TypeOK
  PROVE  /\ Reply \in Seq(Line) /\ (secure => Reply \in Seq(SecureLine))
         /\ cmd \notin {"STARTTLS", "LIST"} => Len(Reply) = 1
         /\ cmd = "SET" => (Head(Reply).word = "OK" <=> Entitled)
<1> DEFINE S == {x \in Line : x.tls = secure}
<1>1. \A w \in {"OK", "ERR", "BEGIN", "VAR", "END"}, n \in Names \cup {"none"} : [word |-> w, name |-> n, tls |-> secure] \in S
  BY DEF Line, TypeOK
<1>2. Says("OK") \in S /\ Says("ERR") \in S /\ Says("BEGIN") \in S /\ Says("END") \in S
  BY <1>1 DEF Says
<1>3. [i \in DOMAIN Listing |-> [word |-> "VAR", name |-> Listing[i], tls |-> secure]] \in Seq(S)
  <2>1. \A i \in DOMAIN Listing : [word |-> "VAR", name |-> Listing[i], tls |-> secure] \in S
    BY <1>1, SessionAssumption
  <2> HIDE DEF S
  <2> QED BY <2>1, SessionAssumption
<1>4. \A x \in S : x \in Line /\ (secure => x \in SecureLine)
  BY DEF SecureLine, TypeOK
<1> HIDE DEF S
<1>5. ListingLines \in Seq(S)
  BY <1>2, <1>3 DEF ListingLines
<1>6. Reply \in Seq(S)
  BY <1>2, <1>5 DEF Reply
<1>7. cmd \notin {"STARTTLS", "LIST"} => Reply \in {<<Says("OK")>>, <<Says("ERR")>>}
  BY DEF Reply
<1>8. cmd = "SET" => Reply = IF Entitled THEN <<Says("OK")>> ELSE <<Says("ERR")>>
  BY DEF Reply
<1>9. cmd = "SET" => (Head(Reply).word = "OK" <=> Entitled)
  BY <1>8 DEF Says
<1> QED BY <1>4, <1>6, <1>7, <1>9

(* Where the client can go.                                                *)
LEMMA NextPhase ==
  ASSUME TypeOK
  PROVE  /\ Operate \in {"done", "SET", "LOGIN", "LIST"}
         /\ Authenticate \in {"done", "USERNAME", "SET", "LOGIN", "LIST"}
         /\ opts.op = "set" => Operate = "SET" /\ Authenticate \in {"USERNAME", "SET"}
  BY DEF Operate, Authenticate, TypeOK, Options

LEMMA SessionStep == SessionInv /\ [Next]_sessionVars => SessionInv'
<1> SUFFICES ASSUME SessionInv, [Next]_sessionVars PROVE SessionInv'
  OBVIOUS
<1> USE SessionAssumption DEF SessionInv
<1>1. CASE UNCHANGED sessionVars
  BY <1>1 DEF sessionVars, netVars, histVars, TypeOK, BoundaryInv, TurnInv, SetInv, SetDone, BudgetInv
<1>2. CASE Clock
  BY <1>2 DEF Clock, netVars, TypeOK, BoundaryInv, TurnInv, SetInv, SetDone, BudgetInv
<1>3. CASE Cut
  BY <1>3 DEF Cut, histVars, TypeOK, BoundaryInv, TurnInv, SetInv, SetDone, BudgetInv
<1>4. CASE Serve
  <2>a. UNCHANGED <<opts, server, phase, secure, left, vars, result, link, spent, told, bare, heeded>>
    BY <1>4 DEF Serve, histVars
  <2>b. inbox' = inbox \/ (phase # "done" /\ inbox' = inbox \o Reply)
    BY <1>4 DEF Serve
  <2>c. cmd # "none" /\ cmd' = "none"
    BY <1>4 DEF Serve
  <2>d. phase # "done" => inbox = <<>> /\ cmd = phase
    BY <2>c DEF TurnInv
  <2>e. inbox' = inbox \/ (phase # "done" /\ inbox' = Reply)
    BY <2>b, <2>d, ReplyLines
  <2>1. TypeOK'
    BY <1>4, <2>a, <2>c, <2>e, ReplyLines DEF Serve, TypeOK
  <2>2. BoundaryInv'
    BY <2>a, <2>e, ReplyLines DEF BoundaryInv, TypeOK
  <2>f. phase # "dial"
    BY <2>c, <2>d DEF TypeOK, Command
  <2>g. phase \in Command \ {"STARTTLS", "LIST"} => Len(inbox') <= 1
    <3>1. ASSUME phase \in Command \ {"STARTTLS", "LIST"} PROVE Len(inbox) <= 1 /\ Len(Reply) <= 1
      <4>1. cmd \notin {"STARTTLS", "LIST"} /\ Len(inbox) <= 1
        BY <3>1, <2>d DEF TurnInv, Command
      <4>2. Len(Reply) = 1
        BY <4>1, ReplyLines
      <4> QED BY <4>1, <4>2
    <3> QED BY <3>1, <2>e
  <2>3. TurnInv'
    BY <2>a, <2>c, <2>f, <2>g DEF TurnInv
  <2>4. SetInv'
    BY <1>4, <2>a, <2>d, <2>e, ReplyLines DEF Serve, SetInv, SetDone
  <2>5. BudgetInv'
    BY <2>a DEF BudgetInv
  <2> QED BY <2>1, <2>2, <2>3, <2>4, <2>5
<1>5. CASE ReadFails
  <2>1. TypeOK' /\ BoundaryInv' /\ TurnInv'
    BY <1>5 DEF ReadFails, GiveUp, TypeOK, BoundaryInv, TurnInv, Phase, Command, Early
  <2>2. SetInv' /\ BudgetInv'
    BY <1>5 DEF ReadFails, GiveUp, TypeOK, SetInv, SetDone, BudgetInv, Early
  <2> QED BY <2>1, <2>2
<1>6. CASE Dial
  <2> DEFINE p == After("dial")
  <2>a. p = IF opts.TLS THEN "STARTTLS" ELSE Authenticate
    BY DEF After
  <2>b. Proceed(p, FALSE) /\ left' = Timeout /\ phase = "dial" /\ inbox = <<>> /\ cmd = "none"
    BY <1>6 DEF Dial, TurnInv, TypeOK, Command
  <2>c. UNCHANGED <<opts, server, vars, link, inbox, presented, applied, spent, heeded>>
    BY <1>6 DEF Dial
  <2> HIDE DEF p
  <2>d. /\ phase' \in Phase /\ cmd' \in Command \cup {"none"} /\ told' \subseteq Command
        /\ bare' \subseteq Command /\ secure' \in BOOLEAN /\ result' \in {"none", "ok", "error"}
    BY <2>a, <2>b, NextPhase DEF Proceed, TypeOK, Phase, Command
  <2>1. TypeOK'
    BY <2>b, <2>c, <2>d DEF TypeOK
  <2>2. BoundaryInv'
    BY <2>a, <2>b, <2>c, NextPhase DEF Proceed, TypeOK, BoundaryInv, Command, Early
  <2>3. TurnInv'
    BY <2>a, <2>b, <2>c, NextPhase DEF Proceed, TypeOK, TurnInv, Command
  <2>4. SetInv'
    BY <2>a, <2>b, <2>c, NextPhase DEF Proceed, TypeOK, SetInv, SetDone
  <2>5. BudgetInv'
    BY <2>a, <2>b, <2>c, NextPhase DEF TypeOK, BudgetInv, Early, Proceed
  <2> QED BY <2>1, <2>2, <2>3, <2>4, <2>5
<1>7. CASE Handshake
  <2>a. phase = "handshake" /\ cmd = "none"
    BY <1>7 DEF Handshake, TurnInv, TypeOK, Command
  <2>b. UNCHANGED <<opts, server, vars, link, inbox, presented, applied, spent, heeded>> \/ GiveUp
    BY <1>7 DEF Handshake
  <2>1. CASE HandshakeOK
    <3> DEFINE p == After("handshake")
    <3>a. p = Authenticate
      BY DEF After
    <3>b. Proceed(p, TRUE) /\ left' = Timeout /\ inbox = <<>>
      BY <2>1, <1>7 DEF Handshake, HandshakeOK
    <3>c. UNCHANGED <<opts, server, vars, link, inbox, presented, applied, spent, heeded>>
      BY <2>1, <1>7 DEF Handshake
    <3>d. server.verifies \/ opts.InsecureSkipVerify
      BY <2>1 DEF HandshakeOK
    <3> HIDE DEF p
    <3>e. /\ phase' \in Phase /\ cmd' \in Command \cup {"none"} /\ told' \subseteq Command
          /\ bare' \subseteq Command /\ secure' \in BOOLEAN /\ result' \in {"none", "ok", "error"}
      BY <3>a, <3>b, NextPhase DEF Proceed, TypeOK, Phase, Command
    <3>1. TypeOK'
      BY <3>b, <3>c, <3>e DEF TypeOK
    <3>f. inbox' \in Seq(SecureLine)
      BY <3>b, <3>c
    <3>2. BoundaryInv'
      BY <3>f, <2>a, <3>a, <3>b, <3>c, <3>d, NextPhase DEF Proceed, TypeOK, BoundaryInv, Command, Early
    <3>3. TurnInv'
      BY <2>a, <3>a, <3>b, <3>c, NextPhase DEF Proceed, TypeOK, TurnInv, Command
    <3>4. SetInv'
      BY <3>a, <3>b, <3>c, NextPhase DEF Proceed, TypeOK, SetInv, SetDone
    <3>5. BudgetInv'
      BY <2>a, <3>a, <3>b, <3>c, NextPhase DEF TypeOK, BudgetInv, Early, Proceed
    <3> QED BY <3>1, <3>2, <3>3, <3>4, <3>5
  <2>2. CASE ~HandshakeOK
    <3>1. GiveUp /\ UNCHANGED <<opts, server, link, inbox, presented, applied, spent, heeded>>
      BY <2>2, <1>7 DEF Handshake
    <3>2. TypeOK' /\ BoundaryInv' /\ TurnInv'
      BY <3>1, <2>a DEF GiveUp, TypeOK, BoundaryInv, TurnInv, Phase, Command, Early
    <3>3. SetInv' /\ BudgetInv'
      BY <3>1, <2>a DEF GiveUp, TypeOK, SetInv, SetDone, BudgetInv, Early
    <3> QED BY <3>2, <3>3
  <2> QED BY <2>1, <2>2
<1>8. CASE ReadAnswer
  <2>a. phase \in Command \ {"LIST"} /\ inbox # <<>> /\ cmd = "none"
    BY <1>8 DEF ReadAnswer, Receive, TurnInv, Command
  <2>b. /\ inbox' = Tail(inbox)
        /\ heeded' = IF Head(inbox).tls THEN heeded ELSE heeded \cup {phase}
        /\ UNCHANGED <<opts, server, link, presented, applied, spent>>
    BY <1>8 DEF ReadAnswer, Receive
  <2>c. /\ Head(inbox) \in Line /\ inbox' \in Seq(Line)
        /\ phase # "STARTTLS" => inbox' = <<>>
        /\ opts.TLS /\ secure => Head(inbox).tls
    BY <2>a, <2>b DEF TypeOK, TurnInv, BoundaryInv, SecureLine
  <2>d. heeded' \subseteq Phase /\ (opts.TLS => heeded' \subseteq {"STARTTLS"})
    BY <2>a, <2>b, <2>c DEF BoundaryInv, TypeOK, Phase, Early, Command, Line
  <2>1. CASE Accepted(Head(inbox))
    <3> DEFINE p == After(phase)
    <3>a. p = CASE phase = "STARTTLS" -> "handshake" [] phase = "USERNAME" -> "PASSWORD"
                [] phase = "PASSWORD" -> Operate [] phase = "LOGIN" -> "LIST" [] phase = "SET" -> "done"
      BY <2>a DEF After, Command
    <3>b. Proceed(p, secure) /\ UNCHANGED <<left, vars>>
      BY <2>1, <1>8 DEF ReadAnswer
    <3>c. phase = "SET" => applied
      BY <2>1, <2>a DEF Accepted, SetInv
    <3> HIDE DEF p
    <3>1. TypeOK'
      BY <2>a, <2>b, <2>c, <2>d, <3>a, <3>b, NextPhase DEF Proceed, TypeOK, Phase, Command
    <3>2. BoundaryInv'
      <4>1. opts.TLS /\ phase # "STARTTLS" => secure
        BY <2>a DEF BoundaryInv, Early, Command
      <4>2. opts.TLS /\ secure => inbox' \in Seq(SecureLine)
        BY <2>a, <2>b DEF BoundaryInv
      <4>3. phase = "STARTTLS" => p = "handshake"
        BY <3>a
      <4>4. phase # "STARTTLS" => p \notin Early
        BY <2>a, <3>a, NextPhase DEF Early, Command
      <4> QED BY <2>a, <2>b, <2>d, <3>b, <4>1, <4>2, <4>3, <4>4 DEF Proceed, BoundaryInv, Command, Early
    <3>3. TurnInv'
      BY <2>a, <2>c, <3>a, <3>b, NextPhase DEF Proceed, TurnInv, Command
    <3>4. SetInv'
      BY <2>a, <2>b, <2>c, <3>a, <3>b, <3>c, NextPhase DEF Proceed, TypeOK, SetInv, SetDone, Command
    <3>5. BudgetInv'
      BY <2>a, <2>b, <3>a, <3>b, NextPhase DEF TypeOK, BudgetInv, Early, Proceed, Command
    <3> QED BY <3>1, <3>2, <3>3, <3>4, <3>5
  <2>2. CASE ~Accepted(Head(inbox))
    <3>1. GiveUp
      BY <2>2, <1>8 DEF ReadAnswer
    <3>2. TypeOK'
      BY <3>1, <2>b, <2>c, <2>d DEF GiveUp, TypeOK, Phase
    <3>3. BoundaryInv' /\ TurnInv'
      BY <3>1, <2>a, <2>b, <2>d DEF GiveUp, BoundaryInv, TurnInv, Command, Early
    <3>4. SetInv' /\ BudgetInv'
      BY <3>1, <2>a, <2>b DEF GiveUp, TypeOK, SetInv, SetDone, BudgetInv, Early
    <3> QED BY <3>2, <3>3, <3>4
  <2> QED BY <2>1, <2>2
<1>9. CASE ReadListing
  <2>a. phase = "LIST" /\ inbox # <<>> /\ cmd = "none" /\ opts.op # "set"
    BY <1>9 DEF ReadListing, Receive, TurnInv, SetInv
  <2>b. /\ inbox' = Tail(inbox)
        /\ heeded' = IF Head(inbox).tls THEN heeded ELSE heeded \cup {phase}
        /\ UNCHANGED <<opts, server, link, presented, applied, spent>>
    BY <1>9 DEF ReadListing, Receive
  <2>c. /\ Head(inbox) \in Line /\ inbox' \in Seq(Line)
        /\ opts.TLS => secure /\ Head(inbox).tls /\ inbox' \in Seq(SecureLine)
    BY <2>a, <2>b DEF TypeOK, BoundaryInv, SecureLine, Early
  <2>d. /\ phase' \in {"LIST", "done"} /\ UNCHANGED <<secure, left, cmd, told, bare>>
        /\ vars' \subseteq Names \cup {"none"} /\ result' \in {result, "ok", "error"}
    BY <1>9, <2>a, <2>c DEF ReadListing, GiveUp, Proceed, TypeOK, Line, Command
  <2>e. heeded' \subseteq Phase /\ (opts.TLS => heeded' = heeded)
    BY <2>a, <2>b, <2>c DEF TypeOK, Phase, Command
  <2>1. TypeOK'
    BY <2>b, <2>c, <2>d, <2>e DEF TypeOK, Phase, Command
  <2>2. BoundaryInv' /\ TurnInv'
    BY <2>a, <2>b, <2>c, <2>d, <2>e DEF BoundaryInv, TurnInv, Command, Early
  <2>3. SetInv' /\ BudgetInv'
    BY <2>a, <2>b, <2>d DEF SetInv, SetDone, BudgetInv, TypeOK, Early
  <2> QED BY <2>1, <2>2, <2>3
<1> QED BY <1>1, <1>2, <1>3, <1>4, <1>5, <1>6, <1>7, <1>8, <1>9 DEF Next, Client

LEMMA Session == Spec => []SessionInv
  BY SessionStart, SessionStep, PTL DEF Spec

(* Every variable of a call keeps its type.                                *)
THEOREM SessionTypeCorrect == Spec => []TypeOK
<1>1. SessionInv => TypeOK
  BY DEF SessionInv
<1> QED BY <1>1, Session, PTL

(* A call that asks for TLS sends nothing but STARTTLS outside it, and     *)
(* nothing to a server whose certificate fails a check that was asked for. *)
THEOREM SecretsStayUnderTLS == Spec => []SecretsUnderTLS
<1>1. SessionInv => SecretsUnderTLS
  BY DEF SessionInv, BoundaryInv, SecretsUnderTLS
<1> QED BY <1>1, Session, PTL

(* And heeds no line that came outside it, but the answer to STARTTLS.     *)
THEOREM AnswersStayUnderTLS == Spec => []AnswersUnderTLS
<1>1. SessionInv => AnswersUnderTLS
  BY DEF SessionInv, BoundaryInv, AnswersUnderTLS
<1> QED BY <1>1, Session, PTL

(* A SET reported as done was carried out.                                 *)
THEOREM SetIsDone == Spec => []SetDone
<1>1. SessionInv => SetDone
  BY DEF SessionInv, SetInv
<1> QED BY <1>1, Session, PTL

(* A call takes three timeouts at most.                                    *)
THEOREM CallIsBounded == Spec => []CallBounded
<1>1. SessionInv => CallBounded
  BY SessionAssumption DEF SessionInv, BudgetInv, CallBounded, TypeOK
<1> QED BY <1>1, Session, PTL

-----------------------------------------------------------------------------
(* The lines of a listing that wait, with the variables already read, make *)
(* the whole if the END is among them, wherever the rest was cut off.      *)
Promised(n, s, i) == \E j \in 1..(i - 1) : s[j].word = "VAR" /\ s[j].name = n

FromListing(s) == \A i \in 1..Len(s) :
  /\ s[i].word = "VAR" => s[i].name \in Range(Listing)
  /\ s[i].word = "END" => \A n \in Range(Listing) : n \in vars \/ Promised(n, s, i)

ListInv ==
  /\ WholeListing
  /\ opts.op = "fetch" => phase # "SET"
  /\ phase \notin {"LIST", "done"} => vars = {}
  /\ phase = "LIST" => vars \subseteq Range(Listing) /\ FromListing(inbox)

LEMMA WholeReply ==
  ASSUME TypeOK, cmd = "LIST"
  PROVE  FromListing(Reply)
<1> DEFINE N == Len(Listing)
           V == [i \in DOMAIN Listing |-> [word |-> "VAR", name |-> Listing[i], tls |-> secure]]
<1>1. N \in Nat /\ DOMAIN Listing = 1..N
  BY SessionAssumption
<1>2. V \in Seq({V[i] : i \in 1..N}) /\ Len(V) = N /\ \A i \in 1..N : V[i].word = "VAR" /\ V[i].name = Listing[i]
  BY <1>1
<1> HIDE DEF N, V
<1>3. ListingLines = <<Says("BEGIN")>> \o V \o <<Says("END")>>
  BY DEF ListingLines, V
<1>4. /\ Len(ListingLines) = N + 2
      /\ ListingLines[1] = Says("BEGIN") /\ ListingLines[N + 2] = Says("END")
      /\ \A k \in 1..N : ListingLines[k + 1] = V[k]
  BY <1>1, <1>2, <1>3
<1>5. \A i \in 1..(N + 2) : i = 1 \/ i = N + 2 \/ \E k \in 1..N : i = k + 1
  <2> TAKE i \in 1..(N + 2)
  <2>1. CASE i # 1 /\ i # N + 2
    <3>1. i - 1 \in 1..N /\ i = (i - 1) + 1
      BY <2>1, <1>1
    <3> QED BY <3>1
  <2> QED BY <2>1
<1>6. Says("BEGIN").word = "BEGIN" /\ Says("END").word = "END" /\ Says("ERR").word = "ERR"
  BY DEF Says
<1>7. \A n \in Range(Listing) : \E k \in 1..N : n = Listing[k]
  BY <1>1 DEF Range
<1>8. \A k \in 1..N : Listing[k] \in Range(Listing)
  BY <1>1 DEF Range
<1>9. ASSUME NEW i \in 1..Len(ListingLines)
      PROVE  /\ ListingLines[i].word = "VAR" => ListingLines[i].name \in Range(Listing)
             /\ ListingLines[i].word = "END" => \A n \in Range(Listing) : Promised(n, ListingLines, i)
  <2>1. CASE i = 1
    BY <2>1, <1>4, <1>6
  <2>2. CASE \E k \in 1..N : i = k + 1
    BY <2>2, <1>2, <1>4, <1>8
  <2>3. CASE i = N + 2
    <3>1. ASSUME NEW n \in Range(Listing) PROVE Promised(n, ListingLines, i)
      <4>1. PICK k \in 1..N : n = Listing[k]
        BY <1>7
      <4>2. k + 1 \in 1..(i - 1)
        BY <4>1, <2>3, <1>1
      <4> QED BY <4>1, <4>2, <1>2, <1>4 DEF Promised
    <3> QED BY <3>1, <2>3, <1>4, <1>6
  <2> QED BY <2>1, <2>2, <2>3, <1>4, <1>5
<1>10. FromListing(ListingLines)
  BY <1>9 DEF FromListing
<1>11. FromListing(<<Says("ERR")>>)
  BY <1>6 DEF FromListing
<1> QED BY <1>10, <1>11 DEF Reply

LEMMA ListStep == SessionInv /\ ListInv /\ [Next]_sessionVars => ListInv'
<1> SUFFICES ASSUME SessionInv, ListInv, [Next]_sessionVars PROVE ListInv'
  OBVIOUS
<1>t. TypeOK /\ TurnInv
  BY DEF SessionInv
<1>1. CASE UNCHANGED sessionVars \/ Clock
  BY <1>1 DEF Clock, sessionVars, netVars, histVars, ListInv, WholeListing, FromListing
<1>2. CASE Cut
  <2>1. PICK n \in 0..Len(inbox) : inbox' = SubSeq(inbox, 1, n)
    BY <1>2 DEF Cut
  <2>2. Len(inbox') \in 0..Len(inbox) /\ \A i \in 1..Len(inbox') : inbox'[i] = inbox[i]
    BY <2>1, <1>t DEF TypeOK
  <2>3. UNCHANGED <<opts, phase, vars, result>>
    BY <1>2 DEF Cut
  <2>4. FromListing(inbox) => FromListing(inbox)'
    <3> SUFFICES ASSUME FromListing(inbox), NEW i \in 1..Len(inbox')
                 PROVE  /\ inbox'[i].word = "VAR" => inbox'[i].name \in Range(Listing)
                        /\ inbox'[i].word = "END" => \A m \in Range(Listing) : m \in vars \/ Promised(m, inbox', i)
      BY <2>3 DEF FromListing, Promised
    <3>1. i \in 1..Len(inbox) /\ inbox'[i] = inbox[i] /\ \A j \in 1..(i - 1) : inbox'[j] = inbox[j]
      BY <2>2, <1>t DEF TypeOK
    <3> QED BY <3>1 DEF FromListing, Promised
  <2> QED BY <2>3, <2>4 DEF ListInv, WholeListing
<1>3. CASE Serve
  <2>1. UNCHANGED <<opts, phase, vars, result>> /\ cmd # "none"
    BY <1>3 DEF Serve
  <2>2. phase = "LIST" => inbox' = inbox \/ (cmd = "LIST" /\ inbox' = Reply)
    BY <1>3, <1>t, ReplyLines DEF Serve, TurnInv
  <2>3. FromListing(inbox) /\ inbox' = inbox => FromListing(inbox)'
    BY <2>1 DEF FromListing, Promised
  <2>4. cmd = "LIST" /\ inbox' = Reply => FromListing(inbox)'
    BY <2>1, <1>t, WholeReply DEF FromListing, Promised
  <2> QED BY <2>1, <2>2, <2>3, <2>4 DEF ListInv, WholeListing
<1>4. ASSUME GiveUp, opts' = opts PROVE ListInv'
  BY <1>4 DEF GiveUp, ListInv, WholeListing
<1>5. ASSUME NEW p, p \in Phase, \E b \in BOOLEAN : Proceed(p, b), vars' = vars, opts' = opts,
             vars = {}, inbox' = <<>>, opts.op = "fetch" => p \notin {"SET", "done"}
      PROVE  ListInv'
  BY <1>5 DEF Proceed, ListInv, WholeListing, FromListing
<1>6. opts.op = "fetch" => Operate \in {"LOGIN", "LIST"} /\ Authenticate \in {"USERNAME", "LOGIN", "LIST"}
  BY DEF Operate, Authenticate
<1>7. CASE Dial
  BY <1>7, <1>t, <1>5, <1>6, NextPhase DEF Dial, After, Phase, Command, TurnInv, ListInv
<1>8. CASE Handshake
  BY <1>8, <1>t, <1>4, <1>5, <1>6, NextPhase DEF Handshake, HandshakeOK, After, Phase, Command, ListInv
<1>9. CASE ReadFails
  BY <1>9, <1>4 DEF ReadFails
<1>10. CASE ReadAnswer
  <2>1. /\ phase \in Command \ {"LIST"} /\ vars = {}
        /\ inbox # <<>> /\ inbox' = Tail(inbox) /\ opts' = opts
    BY <1>10, <1>t DEF ReadAnswer, Receive, ListInv, Command
  <2>2. CASE ~Accepted(Head(inbox))
    BY <2>1, <2>2, <1>4, <1>10 DEF ReadAnswer
  <2>3. CASE Accepted(Head(inbox)) /\ phase = "STARTTLS"
    BY <2>1, <2>3, <1>10 DEF ReadAnswer, Proceed, After, ListInv, WholeListing, Command
  <2>4. CASE Accepted(Head(inbox)) /\ phase # "STARTTLS"
    <3>1. inbox' = <<>>
      BY <2>1, <2>4, <1>t DEF TurnInv, TypeOK, ListInv, Command
    <3>2. After(phase) \in Phase /\ (opts.op = "fetch" => After(phase) \notin {"SET", "done"})
      BY <2>1, <2>4, <1>6, <1>t, NextPhase DEF After, Phase, Command, ListInv
    <3>3. Proceed(After(phase), secure) /\ vars' = vars /\ secure \in BOOLEAN
      BY <1>10, <2>4, <1>t DEF ReadAnswer, TypeOK
    <3> QED BY <2>1, <3>1, <3>2, <3>3, <1>5
  <2> QED BY <2>2, <2>3, <2>4
<1>11. CASE ReadListing
  <2>1. phase = "LIST" /\ inbox # <<>> /\ inbox' = Tail(inbox) /\ opts' = opts
    BY <1>11 DEF ReadListing, Receive
  <2>2. CASE Head(inbox).word = "ERR"
    BY <2>1, <2>2, <1>4, <1>11 DEF ReadListing
  <2>3. CASE Head(inbox).word = "END"
    <3>1. phase' = "done" /\ vars' = vars
      BY <2>3, <1>11 DEF ReadListing, Proceed
    <3>2. 1 \in 1..Len(inbox) /\ Head(inbox) = inbox[1] /\ \A n : ~Promised(n, inbox, 1)
      BY <2>1, <1>t DEF TypeOK, Promised
    <3>3. vars = Range(Listing)
      BY <3>2, <2>1, <2>3 DEF ListInv, FromListing
    <3> QED BY <3>1, <3>3, <2>1 DEF ListInv, WholeListing
  <2>4. CASE Head(inbox).word \notin {"ERR", "END"}
    <3> DEFINE h == Head(inbox)
    <3>1. /\ vars' = IF h.word = "VAR" THEN vars \cup {h.name} ELSE vars
          /\ UNCHANGED <<phase, result>>
      BY <2>4, <1>11 DEF ReadListing
    <3>2. /\ 1 \in 1..Len(inbox) /\ h = inbox[1]
          /\ Len(inbox') = Len(inbox) - 1 /\ Len(inbox) \in Nat
          /\ \A i \in 1..Len(inbox') : i + 1 \in 1..Len(inbox) /\ inbox'[i] = inbox[i + 1]
      BY <2>1, <1>t DEF TypeOK
    <3> HIDE DEF h
    <3>3. FromListing(inbox) /\ vars \subseteq Range(Listing)
      BY <2>1 DEF ListInv
    <3>4. vars' \subseteq Range(Listing)
      BY <3>1, <3>2, <3>3 DEF FromListing
    <3>5. ASSUME NEW i \in 1..Len(inbox')
          PROVE  /\ inbox'[i].word = "VAR" => inbox'[i].name \in Range(Listing)
                 /\ inbox'[i].word = "END" => \A m \in Range(Listing) : m \in vars' \/ Promised(m, inbox', i)
      <4>1. i + 1 \in 1..Len(inbox) /\ inbox'[i] = inbox[i + 1]
        BY <3>2
      <4>2. ASSUME NEW m, Promised(m, inbox, i + 1) PROVE m \in vars' \/ Promised(m, inbox', i)
        <5>1. PICK j \in 1..i : inbox[j].word = "VAR" /\ inbox[j].name = m
          BY <4>2, <4>1 DEF Promised
        <5>2. CASE j = 1
          BY <5>1, <5>2, <3>1, <3>2
        <5>3. CASE j # 1
          <6>1. j - 1 \in 1..(i - 1) /\ j - 1 \in 1..Len(inbox') /\ inbox'[j - 1] = inbox[j]
            BY <5>1, <5>3, <3>2
          <6> QED BY <6>1, <5>1 DEF Promised
        <5> QED BY <5>2, <5>3
      <4>3. vars \subseteq vars'
        BY <3>1
      <4> QED BY <4>1, <4>2, <4>3, <3>3 DEF FromListing
    <3>6. FromListing(inbox)'
      BY <3>5 DEF FromListing, Promised
    <3> QED BY <3>1, <3>4, <3>6, <2>1 DEF ListInv, WholeListing
  <2> QED BY <2>2, <2>3, <2>4
<1> QED BY <1>1, <1>2, <1>3, <1>7, <1>8, <1>9, <1>10, <1>11 DEF Next, Client

(* A fetch that returns no error returns all variables of the UPS.         *)
THEOREM ListingIsWhole == Spec => []WholeListing
<1>1. Init => SessionInv /\ ListInv
  BY SessionStart DEF Init, ListInv, WholeListing
<1>2. SessionInv /\ ListInv /\ [Next]_sessionVars => (SessionInv /\ ListInv)'
  BY SessionStep, ListStep
<1>3. ListInv => WholeListing
  BY DEF ListInv
<1> QED BY <1>1, <1>2, <1>3, PTL DEF Spec
=============================================================================
