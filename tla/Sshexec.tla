------------------------------ MODULE Sshexec ------------------------------
(***************************************************************************)
(* Executor.Apply over a plan whose chassis actions go through SSHRunner:  *)
(* one dial, one session and one racadm command each.  The runner's        *)
(* timeout is ssh.ClientConfig.Timeout, which bounds the TCP dial and      *)
(* nothing after it: whoever has accepted the connection may be silent for *)
(* as long as it likes.                                                    *)
(*                                                                         *)
(* One runner serves all chassis, and pins one key or none: that of        *)
(* whichever chassis main comes upon first.  A key is told here by the CMC *)
(* it belongs to, and by nothing else can nut-dog tell who answers.        *)
(*                                                                         *)
(* The shed signals and magic packets of the other loads have bounds of    *)
(* their own (module NutSession) and are a step each here.                 *)
(***************************************************************************)
EXTENDS Naturals, Sequences

CONSTANTS Loads, Chassis,  \* the loads, and those that are chassis
          Plan             \* the loads acted on, in the order of the plan

ASSUME PlanAssumption == Chassis \subseteq Loads /\ Plan \in Seq(Loads)

VARIABLES
  pin,      \* {} or the chassis whose CMC's key the runner insists on
  host,     \* who answers at each chassis' address
  phase,    \* where the current action is
  answer,   \* what has come back for this phase
  report,   \* the outcome of each action so far, as RecordAction counts it
  obeyed    \* chassis actions of the plan that the chassis has carried out

sshVars == <<pin, host, phase, answer, report, obeyed>>

(* The CMC of one chassis, or none.                                        *)
Identity == {{}} \cup {{c} : c \in Chassis}

(* It may be another CMC, or no CMC at all, at that address; it may reject *)
(* the key or the session; the command may fail with or without saying so  *)
(* in its exit status.                                                     *)
Host == [is: Identity, knowsKey: BOOLEAN, sessions: BOOLEAN,
         racadm: {"obeys", "exits nonzero", "prints ERROR"}]

Phase  == {"next", "dial", "kex", "auth", "session", "exec"}
Answer == {"none", "yes", "no", "printed"}

Init ==
  /\ pin \in Identity /\ host \in [Chassis -> Host]
  /\ phase = "next" /\ answer = "none" /\ report = <<>> /\ obeyed = {}

Current == Len(report) + 1
Left    == Current \in DOMAIN Plan
Target  == Plan[Current]

(* Mutant: an action that failed is tried again before the next.           *)
ReturnRetrying(outcome) ==
  /\ report' = IF outcome = "ok" THEN Append(report, outcome) ELSE report
  /\ phase' = "next" /\ answer' = "none"

(* The action returns, is counted, and Apply goes on to the next.          *)
Return(outcome) ==
  /\ report' = Append(report, outcome) /\ phase' = "next" /\ answer' = "none"

Enter(p) == phase' = p /\ answer' = "none" /\ report' = report

(* do: a server's signal or packet succeeds or fails, a chassis is dialled.*)
OtherEffect ==
  /\ phase = "next" /\ Left /\ Target \notin Chassis
  /\ Return("ok") \/ Return("error")
  /\ UNCHANGED <<pin, host, obeyed>>

Dial ==
  /\ phase = "next" /\ Left /\ Target \in Chassis
  /\ Enter("dial")
  /\ UNCHANGED <<pin, host, obeyed>>

(* DialTimeout returns: connected, or refused, or the timeout has passed.  *)
Dialled ==
  /\ phase = "dial"
  /\ Enter("kex") \/ Return("error")
  /\ UNCHANGED <<pin, host, obeyed>>

(* Mutant: the host key is not looked at.                                  *)
TrustAnyHost == TRUE

(* hostKeyCb: FixedHostKey of the one key that is pinned, at whichever     *)
(* chassis is dialled, else any key will do.                               *)
HostKeyOK == pin \in {{}, host[Target].is}

Kex ==
  /\ phase = "kex" /\ answer # "none"
  /\ IF answer = "yes" /\ HostKeyOK THEN Enter("auth") ELSE Return("error")
  /\ UNCHANGED <<pin, host, obeyed>>

Auth ==
  /\ phase = "auth" /\ answer # "none"
  /\ IF answer = "yes" THEN Enter("session") ELSE Return("error")
  /\ UNCHANGED <<pin, host, obeyed>>

NewSession ==
  /\ phase = "session" /\ answer # "none"
  /\ IF answer = "yes" THEN Enter("exec") ELSE Return("error")
  /\ UNCHANGED <<pin, host, obeyed>>

(* Mutant: only the exit status counts.                                    *)
ExitZero == answer \in {"yes", "printed"}

(* act: no error from Run, and no ERROR in the output.                     *)
Succeeded == answer = "yes"

CombinedOutput ==
  /\ phase = "exec" /\ answer # "none"
  /\ Return(IF Succeeded THEN "ok" ELSE "error")
  /\ UNCHANGED <<pin, host, obeyed>>

Run == Dial \/ Dialled \/ Kex \/ Auth \/ NewSession \/ CombinedOutput

-----------------------------------------------------------------------------
(* The other end answers, or the connection breaks; it may do neither.     *)

Waiting == phase \in {"kex", "auth", "session", "exec"} /\ answer = "none"

Reply ==
  CASE phase = "kex"     -> "yes"
    [] phase = "auth"    -> IF host[Target].knowsKey THEN "yes" ELSE "no"
    [] phase = "session" -> IF host[Target].sessions THEN "yes" ELSE "no"
    [] phase = "exec"    -> IF host[Target].racadm = "obeys" THEN "yes"
                            ELSE IF host[Target].racadm = "prints ERROR" THEN "printed" ELSE "no"

(* Only the chassis' own CMC can act on it, whatever another machine says; *)
(* and what it has done stays done when its answer is lost.                *)
HostAnswers ==
  /\ Waiting
  /\ obeyed' = IF phase = "exec" /\ Reply = "yes" /\ host[Target].is = {Target}
               THEN obeyed \cup {Current} ELSE obeyed
  /\ answer' \in {Reply, "no"}
  /\ UNCHANGED <<pin, host, phase, report>>

Breaks ==
  /\ Waiting /\ answer' = "no"
  /\ UNCHANGED <<pin, host, phase, report, obeyed>>

Next == OtherEffect \/ Run \/ HostAnswers \/ Breaks

Spec == Init /\ [][Next]_sshVars

(* Go runs the loop, and a dial ends at its timeout at the latest.  The    *)
(* host owes nothing.                                                      *)
FairSpec == Spec /\ WF_sshVars(OtherEffect) /\ WF_sshVars(Run)

-----------------------------------------------------------------------------
TypeOK ==
  /\ pin \in Identity /\ host \in [Chassis -> Host]
  /\ phase \in Phase /\ answer \in Answer
  /\ report \in Seq({"ok", "error"}) /\ Len(report) <= Len(Plan)
  /\ phase # "next" => Left /\ Target \in Chassis
  /\ obeyed \subseteq DOMAIN Plan

(* Another machine answers for the chassis' CMC and the runner cannot tell *)
(* or does not mind: nothing is pinned, or that machine is the CMC whose   *)
(* key is.                                                                 *)
Mistaken(l) == host[l].is # {l} /\ pin \in {{}, host[l].is}

(* A chassis action counted as a success was carried out by that chassis:  *)
(* a shutdown that the CMC refused in words only is not taken for one      *)
(* (racadmFailed), nor one that another machine claims to have made, but   *)
(* where the host-key check lets that machine pass for the CMC.            *)
ReportTruthful ==
  \A i \in DOMAIN report :
    report[i] = "ok" /\ Plan[i] \in Chassis => i \in obeyed \/ Mistaken(Plan[i])

(* The plan is worked off whatever fails on the way; the one thing that    *)
(* holds it up is a host that accepted the connection and says no more.    *)
OnlySilenceStalls == <>(Len(report) = Len(Plan)) \/ <>[]Waiting

(* effects: "Apply runs every action, counting it".                        *)
EveryActionCounted == <>(Len(report) = Len(Plan))
=============================================================================
