----------------------------- MODULE NutSession -----------------------------
(***************************************************************************)
(* One call of package nut's client: Fetch, CheckAuth or SetVar, each on a *)
(* connection of its own, which may be cut, refuse TLS, present a          *)
(* certificate that does not verify, say more than it was asked, or say    *)
(* nothing at all.                                                         *)
(*                                                                         *)
(* The client never has more than one command outstanding; its phase is    *)
(* the command it waits to be answered.  The server's answers travel line  *)
(* by line.  A line that is neither OK, ERR nor part of the listing is     *)
(* skipped or refused as the code does with it and is not sent here, as    *)
(* are lines about another UPS and LOGOUT, which nobody waits for.         *)
(***************************************************************************)
EXTENDS Integers, Sequences, Functions

CONSTANTS Timeout,  \* the timeout of dial and session, in clock units
          Names,    \* the names of variables
          Listing   \* the variables the UPS has, in the order they are listed

ASSUME SessionAssumption == Timeout \in Nat \ {0} /\ Listing \in Seq(Names)

VARIABLES
  opts,     \* the operation and its Options
  server,   \* what the other end is like
  phase,    \* what the client waits for
  secure,   \* the client talks TLS
  left,     \* time to the connection's deadline
  vars,     \* the map collectVars fills
  result,   \* what the call returned
  link,     \* "open", or "cut" when no more bytes come
  cmd,      \* the command on its way to the server
  inbox,    \* the lines on their way to the client
  presented, \* credentials the server was given
  applied,  \* the server carried out a SET
  (* History, for the properties only. *)
  spent,    \* time since the call began
  told,     \* commands sent
  bare,     \* commands sent outside TLS
  heeded    \* phases in which a line received outside TLS was acted on

netVars  == <<link, cmd, inbox>>
histVars == <<spent, told, bare, heeded>>
sessionVars == <<opts, server, phase, secure, left, vars, result, netVars,
                 presented, applied, histVars>>

Options == [op: {"fetch", "check", "set"}, TLS: BOOLEAN, InsecureSkipVerify: BOOLEAN,
            user: BOOLEAN, Login: BOOLEAN]

(* Servers differ in whether they check credentials when they are given    *)
(* ("eager") or when a command needs them, and in whether reads need them. *)
Server == [starttls: BOOLEAN, verifies: BOOLEAN, valid: BOOLEAN,
           eager: BOOLEAN, gated: BOOLEAN, chatty: BOOLEAN]

Command == {"STARTTLS", "USERNAME", "PASSWORD", "LOGIN", "LIST", "SET"}
Phase   == Command \cup {"dial", "handshake", "done"}
Line    == [word: {"OK", "ERR", "BEGIN", "VAR", "END"}, name: Names \cup {"none"}, tls: BOOLEAN]

Init ==
  /\ opts \in Options /\ server \in Server
  /\ phase = "dial" /\ secure = FALSE /\ left = Timeout
  /\ vars = {} /\ result = "none"
  /\ link = "open" /\ cmd = "none" /\ inbox = <<>>
  /\ presented = FALSE /\ applied = FALSE
  /\ spent = 0 /\ told = {} /\ bare = {} /\ heeded = {}

-----------------------------------------------------------------------------
(* The client.                                                             *)

Operate ==
  CASE opts.op = "check" -> "done"
    [] opts.op = "set"   -> "SET"
    [] OTHER             -> IF opts.Login THEN "LOGIN" ELSE "LIST"

Authenticate == IF opts.user THEN "USERNAME" ELSE Operate

(* What follows a step that went well.                                     *)
After(p) ==
  CASE p = "dial"      -> IF opts.TLS THEN "STARTTLS" ELSE Authenticate
    [] p = "STARTTLS"  -> "handshake"
    [] p = "handshake" -> Authenticate
    [] p = "USERNAME"  -> "PASSWORD"
    [] p = "PASSWORD"  -> Operate
    [] p = "LOGIN"     -> "LIST"
    [] OTHER           -> "done"

(* Go on to p, over TLS or not, and send its command if it has one.        *)
Proceed(p, tls) ==
  /\ phase' = p /\ secure' = tls
  /\ result' = IF p = "done" THEN "ok" ELSE result
  /\ IF p \in Command
     THEN cmd' = p /\ told' = told \cup {p} /\ bare' = IF tls THEN bare ELSE bare \cup {p}
     ELSE UNCHANGED <<cmd, told, bare>>

(* Return an error.  The map that was being filled is not returned.        *)
GiveUp ==
  /\ phase' = "done" /\ result' = "error" /\ vars' = {}
  /\ UNCHANGED <<secure, left, cmd, told, bare>>

(* DialTimeout, then SetDeadline.                                          *)
Dial ==
  /\ phase = "dial" /\ link = "open"
  /\ Proceed(After("dial"), FALSE) /\ left' = Timeout
  /\ UNCHANGED <<opts, server, vars, link, inbox, presented, applied, spent, heeded>>

(* Mutant: the answer to STARTTLS was read through a buffer, which keeps   *)
(* the lines behind it for the reader of the session.                      *)
HandshakeBuffered ==
  /\ link = "open"
  /\ server.verifies \/ opts.InsecureSkipVerify

(* tls.Client takes the connection over with whatever bytes wait on it: a  *)
(* line sent in the clear is no handshake.                                 *)
HandshakeOK ==
  /\ link = "open" /\ inbox = <<>>
  /\ server.verifies \/ opts.InsecureSkipVerify

Handshake ==
  /\ phase = "handshake"
  /\ IF HandshakeOK
     THEN Proceed(After("handshake"), TRUE) /\ left' = Timeout /\ vars' = vars
     ELSE GiveUp
  /\ UNCHANGED <<opts, server, link, inbox, presented, applied, spent, heeded>>

(* Take the next line and act on it by P.                                  *)
Receive ==
  /\ inbox # <<>> /\ inbox' = Tail(inbox)
  /\ heeded' = IF Head(inbox).tls THEN heeded ELSE heeded \cup {phase}
  /\ UNCHANGED <<opts, server, link, presented, applied, spent>>

(* Mutant: any answer will do.                                             *)
AnyAnswer(line) == line.word \in {"OK", "ERR"}

Accepted(line) == line.word = "OK"

(* Mutant: a server without TLS is talked to in the clear.                 *)
ReadAnswerOpportunistic ==
  /\ phase \in Command \ {"LIST"} /\ Receive
  /\ CASE Accepted(Head(inbox)) -> Proceed(After(phase), secure) /\ UNCHANGED <<left, vars>>
       [] phase = "STARTTLS" /\ ~Accepted(Head(inbox)) ->
            Proceed(Authenticate, FALSE) /\ UNCHANGED <<left, vars>>
       [] OTHER -> GiveUp

(* cmdOK, and startTLS on the answer it reads raw.                         *)
ReadAnswer ==
  /\ phase \in Command \ {"LIST"} /\ Receive
  /\ IF Accepted(Head(inbox))
     THEN Proceed(After(phase), secure) /\ UNCHANGED <<left, vars>>
     ELSE GiveUp

(* Mutant: every line extends the deadline.                                *)
ReadListingRenewing ==
  /\ phase = "LIST" /\ Receive
  /\ CASE Head(inbox).word = "ERR" -> GiveUp
       [] Head(inbox).word = "END" -> Proceed("done", secure) /\ UNCHANGED <<left, vars>>
       [] OTHER -> /\ vars' = IF Head(inbox).word = "VAR" THEN vars \cup {Head(inbox).name} ELSE vars
                   /\ left' = Timeout
                   /\ UNCHANGED <<phase, secure, result, cmd, told, bare>>

(* collectVars: an ERR anywhere is an error, the END returns the map.      *)
ReadListing ==
  /\ phase = "LIST" /\ Receive
  /\ CASE Head(inbox).word = "ERR" -> GiveUp
       [] Head(inbox).word = "END" -> Proceed("done", secure) /\ UNCHANGED <<left, vars>>
       [] OTHER -> /\ vars' = IF Head(inbox).word = "VAR" THEN vars \cup {Head(inbox).name} ELSE vars
                   /\ UNCHANGED <<phase, secure, left, result, cmd, told, bare>>

(* Mutant: a listing that ends early is returned as far as it came.        *)
ReadEndsListing ==
  /\ phase # "done"
  /\ left = 0 \/ (link = "cut" /\ (inbox = <<>> \/ phase = "dial"))
  /\ IF phase = "LIST"
     THEN Proceed("done", secure) /\ UNCHANGED <<left, vars>>
     ELSE GiveUp
  /\ UNCHANGED <<opts, server, link, inbox, presented, applied, spent, heeded>>

(* A read or the dial fails: the connection has ended, or its time has.    *)
ReadFails ==
  /\ phase # "done"
  /\ left = 0 \/ (link = "cut" /\ (inbox = <<>> \/ phase = "dial"))
  /\ GiveUp
  /\ UNCHANGED <<opts, server, link, inbox, presented, applied, spent, heeded>>

Client == Dial \/ Handshake \/ ReadAnswer \/ ReadListing \/ ReadFails

-----------------------------------------------------------------------------
(* The server and the network.                                             *)

Says(word) == [word |-> word, name |-> "none", tls |-> secure]
ListingLines ==
  <<Says("BEGIN")>> \o [i \in DOMAIN Listing |-> [word |-> "VAR", name |-> Listing[i], tls |-> secure]]
                    \o <<Says("END")>>

Entitled == presented /\ server.valid

(* What the server answers to the command it has got.                      *)
Reply ==
  LET If(b) == IF b THEN <<Says("OK")>> ELSE <<Says("ERR")>>
  IN CASE cmd = "STARTTLS" -> If(server.starttls) \o IF server.chatty THEN <<Says("OK")>> ELSE <<>>
       [] cmd = "USERNAME" -> If(TRUE)
       [] cmd = "PASSWORD" -> If(server.eager => server.valid)
       [] cmd = "LIST" -> IF server.gated => Entitled THEN ListingLines ELSE <<Says("ERR")>>
       [] OTHER            -> If(Entitled)

(* It answers, or says nothing more to a connection that is gone.          *)
Serve ==
  /\ cmd # "none"
  /\ inbox' = IF link = "open" /\ phase # "done" THEN inbox \o Reply ELSE inbox
  /\ presented' = (presented \/ cmd = "PASSWORD")
  /\ applied' = (applied \/ (cmd = "SET" /\ Entitled))
  /\ cmd' = "none"
  /\ UNCHANGED <<opts, server, phase, secure, left, vars, result, link, histVars>>

(* The connection ends; of what was on its way, a part still arrives.      *)
Cut ==
  /\ link = "open" /\ link' = "cut"
  /\ \E n \in 0..Len(inbox) : inbox' = SubSeq(inbox, 1, n)
  /\ cmd' \in {cmd, "none"}
  /\ UNCHANGED <<opts, server, phase, secure, left, vars, result, presented, applied, histVars>>

(* Mutant: the connection has no deadline.                                 *)
ClockNoDeadline ==
  /\ phase # "done" /\ left > 1
  /\ left' = left - 1 /\ spent' = spent + 1
  /\ UNCHANGED <<opts, server, phase, secure, vars, result, netVars, presented, applied,
                 told, bare, heeded>>

Clock ==
  /\ phase # "done" /\ left > 0
  /\ left' = left - 1 /\ spent' = spent + 1
  /\ UNCHANGED <<opts, server, phase, secure, vars, result, netVars, presented, applied,
                 told, bare, heeded>>

Next == Client \/ Serve \/ Cut \/ Clock

Spec == Init /\ [][Next]_sessionVars

(* Go runs the client, and time passes.  The server owes nothing.          *)
FairSpec == Spec /\ WF_sessionVars(Client) /\ WF_sessionVars(Clock)

-----------------------------------------------------------------------------
TypeOK ==
  /\ opts \in Options /\ server \in Server
  /\ phase \in Phase /\ secure \in BOOLEAN /\ left \in 0..Timeout
  /\ vars \subseteq Names \cup {"none"} /\ result \in {"none", "ok", "error"}
  /\ link \in {"open", "cut"} /\ cmd \in Command \cup {"none"} /\ inbox \in Seq(Line)
  /\ presented \in BOOLEAN /\ applied \in BOOLEAN
  /\ spent \in Nat /\ told \subseteq Command /\ bare \subseteq Command /\ heeded \subseteq Phase

(* When TLS is asked for, nothing but STARTTLS itself is sent outside it,  *)
(* whatever the server answers - credentials above all - and, unless the   *)
(* check is disabled, nothing to a server whose certificate fails it.      *)
SecretsUnderTLS ==
  opts.TLS => /\ bare \subseteq {"STARTTLS"}
              /\ told \subseteq {"STARTTLS"} \/ server.verifies \/ opts.InsecureSkipVerify

(* When TLS is asked for, no line that came outside it is taken for an     *)
(* answer, but the one to STARTTLS: nothing is buffered past the boundary. *)
AnswersUnderTLS == opts.TLS => heeded \subseteq {"STARTTLS"}

(* A listing is returned whole or not at all, wherever the connection is   *)
(* cut: a missing ups.status or charge would read as another state.        *)
WholeListing == opts.op = "fetch" /\ result = "ok" => vars = Range(Listing)

(* A SET reported as done was done.  (One reported as failed may have      *)
(* been done, too: its answer can be lost.)                                *)
SetDone == opts.op = "set" /\ result = "ok" => applied

(* However slowly and however many lines the server talks, a call takes no *)
(* longer than its dial, its upgrade and its session each may.             *)
CallBounded == spent <= 3 * Timeout

(* Every call returns, also from a server that never says a word.          *)
CallReturns == <>(phase = "done")
=============================================================================
