--------------------------- MODULE SshexecProofs ---------------------------
(***************************************************************************)
(* Proofs about module Sshexec, for every plan and every set of hosts.     *)
(*                                                                         *)
(* ReportTruthful is not inductive: between the host's answer and its      *)
(* being counted only Answered knows what a good answer is worth, and that *)
(* rests on the check made two phases before, which HostPassed remembers.  *)
(***************************************************************************)
EXTENDS Sshexec, TLAPS

(* Past the key exchange the host has shown the key that was asked for.   *)
HostPassed == phase \in {"auth", "session", "exec"} => HostKeyOK

(* A good answer to the command comes from the chassis' CMC, which has     *)
(* carried it out, or from a machine that passes for it.                   *)
Answered == phase = "exec" /\ answer = "yes" => Current \in obeyed \/ Mistaken(Target)

ReportInv == ReportTruthful /\ Answered /\ HostPassed

-----------------------------------------------------------------------------
(* Every variable keeps its type, and a plan is not overrun.               *)
THEOREM SshTypeCorrect == Spec => []TypeOK
<1>1. Init => TypeOK
  BY PlanAssumption DEF Init, TypeOK, Phase, Answer
<1>2. TypeOK /\ [Next]_sshVars => TypeOK'
  <2> SUFFICES ASSUME TypeOK, [Next]_sshVars PROVE TypeOK'
    OBVIOUS
  <2> USE DEF TypeOK
  <2>0. Plan \in Seq(Loads) /\ Len(Plan) \in Nat /\ DOMAIN Plan = 1..Len(Plan)
    BY PlanAssumption
  <2>r. ASSUME NEW o \in {"ok", "error"}, Left, Return(o)
        PROVE /\ report' \in Seq({"ok", "error"}) /\ Len(report') <= Len(Plan)
              /\ phase' = "next" /\ answer' = "none"
    BY <2>0, <2>r DEF Return, Left, Current
  <2>e. ASSUME NEW p \in Phase, phase # "next" \/ (Left /\ Target \in Chassis), Enter(p)
        PROVE /\ report' = report /\ phase' = p /\ answer' = "none"
              /\ Left' /\ (Target \in Chassis)'
    BY <2>e DEF Enter, Left, Current, Target
  <2>1. CASE OtherEffect
    <3>1. Left /\ Current \in DOMAIN Plan
      BY <2>1 DEF OtherEffect, Left
    <3>2. obeyed' \subseteq DOMAIN Plan
      BY <2>1, <3>1 DEF OtherEffect
    <3>3. CASE Return("ok")
      BY <2>1, <2>r, <3>1, <3>2, <3>3 DEF OtherEffect, Phase, Answer
    <3>4. CASE Return("error")
      BY <2>1, <2>r, <3>1, <3>2, <3>4 DEF OtherEffect, Phase, Answer
    <3> QED
      BY <2>1, <3>3, <3>4 DEF OtherEffect
  <2>2. CASE Dial
    BY <2>2, <2>e DEF Dial, Phase, Answer
  <2>3. CASE Dialled
    BY <2>3, <2>e, <2>r DEF Dialled, Phase, Answer
  <2>4. CASE Kex
    BY <2>4, <2>e, <2>r DEF Kex, Phase, Answer
  <2>5. CASE Auth
    BY <2>5, <2>e, <2>r DEF Auth, Phase, Answer
  <2>6. CASE NewSession
    BY <2>6, <2>e, <2>r DEF NewSession, Phase, Answer
  <2>7. CASE CombinedOutput
    BY <2>7, <2>r DEF CombinedOutput, Phase, Answer
  <2>8. CASE HostAnswers
    <3>1. Left /\ Current \in DOMAIN Plan
      BY <2>8 DEF HostAnswers, Waiting, Left
    <3>2. Reply \in Answer
      BY <2>8 DEF HostAnswers, Waiting, Reply, Answer
    <3>3. answer' \in Answer /\ obeyed' \subseteq DOMAIN Plan
      BY <2>8, <3>1, <3>2 DEF HostAnswers, Answer
    <3> QED
      BY <2>8, <3>3 DEF HostAnswers, Left, Current, Target
  <2>9. CASE Breaks
    BY <2>9 DEF Breaks, Answer, Left, Current, Target
  <2>10. CASE UNCHANGED sshVars
    BY <2>10 DEF sshVars, Left, Current, Target
  <2> QED
    BY <2>1, <2>2, <2>3, <2>4, <2>5, <2>6, <2>7, <2>8, <2>9, <2>10 DEF Next, Run
<1> QED
  BY <1>1, <1>2, PTL DEF Spec

-----------------------------------------------------------------------------
(* A report is a success only if the load has carried the action out, or   *)
(* another machine stands at the CMC's address and the host-key check lets *)
(* it pass (SSHRunner.Run, act, racadmFailed).                             *)
LEMMA ReportStart == Init => ReportInv
  BY DEF Init, ReportInv, ReportTruthful, Answered, HostPassed

LEMMA ReportStep == TypeOK /\ ReportInv /\ [Next]_sshVars => ReportInv'
<1> SUFFICES ASSUME TypeOK, ReportInv, [Next]_sshVars PROVE ReportInv'
  OBVIOUS
<1> USE DEF ReportInv
<1>0. /\ report \in Seq({"ok", "error"}) /\ Plan \in Seq(Loads)
      /\ UNCHANGED <<pin, host>>
  BY PlanAssumption DEF TypeOK, Next, Run, OtherEffect, Dial, Dialled, Kex, Auth, NewSession,
     CombinedOutput, HostAnswers, Breaks, sshVars
<1>m. \A l : Mistaken(l) <=> Mistaken(l)'
  BY <1>0 DEF Mistaken
<1>r. ASSUME NEW o \in {"ok", "error"}, Return(o), obeyed \subseteq obeyed',
             o = "ok" /\ Target \in Chassis => Current \in obeyed' \/ Mistaken(Target)
      PROVE  ReportInv'
  <2>1. ASSUME NEW i \in DOMAIN report', report'[i] = "ok", Plan[i] \in Chassis
        PROVE  i \in obeyed' \/ Mistaken(Plan[i])'
    <3>1. CASE i = Current
      BY <1>0, <1>m, <1>r, <2>1, <3>1 DEF Return, Current, Target
    <3>2. CASE i # Current
      <4>1. i \in DOMAIN report /\ report[i] = "ok"
        BY <1>0, <1>r, <2>1, <3>2 DEF Return, Current
      <4> QED
        BY <1>m, <1>r, <2>1, <4>1 DEF ReportTruthful
    <3> QED
      BY <3>1, <3>2
  <2>2. ReportTruthful'
    BY <2>1 DEF ReportTruthful
  <2>3. Answered' /\ HostPassed'
    BY <1>r DEF Return, Answered, HostPassed
  <2> QED
    BY <2>2, <2>3
<1>e. ASSUME NEW p \in Phase, Enter(p), obeyed' = obeyed,
             p \in {"auth", "session", "exec"} => HostKeyOK
      PROVE  ReportInv'
  <2>1. ReportTruthful' /\ Answered'
    BY <1>m, <1>e DEF Enter, ReportTruthful, Answered
  <2>2. HostPassed'
    BY <1>0, <1>e DEF Enter, HostPassed, HostKeyOK, Target, Current
  <2> QED
    BY <2>1, <2>2
<1>1. CASE OtherEffect
  BY <1>1, <1>r DEF OtherEffect
<1>2. CASE Dial
  BY <1>2, <1>e DEF Dial, Phase
<1>3. CASE Dialled
  BY <1>3, <1>e, <1>r DEF Dialled, Phase
<1>4. CASE Kex
  BY <1>4, <1>e, <1>r DEF Kex, Phase
<1>5. CASE Auth
  BY <1>5, <1>e, <1>r DEF Auth, Phase, HostPassed
<1>6. CASE NewSession
  BY <1>6, <1>e, <1>r DEF NewSession, Phase, HostPassed
<1>7. CASE CombinedOutput
  <2>1. CASE Succeeded
    <3>1. Current \in obeyed' \/ Mistaken(Target)
      BY <1>7, <2>1 DEF CombinedOutput, Succeeded, Answered
    <3> QED
      BY <1>7, <1>r, <2>1, <3>1 DEF CombinedOutput
  <2>2. CASE ~Succeeded
    BY <1>7, <1>r, <2>2 DEF CombinedOutput
  <2> QED
    BY <2>1, <2>2
<1>8. CASE HostAnswers
  <2>1. /\ UNCHANGED <<phase, report>> /\ obeyed \subseteq obeyed'
        /\ Current' = Current /\ Target' = Target
    BY <1>8 DEF HostAnswers, Current, Target
  <2>2. ReportTruthful' /\ HostPassed'
    BY <1>0, <1>m, <2>1 DEF ReportTruthful, HostPassed, HostKeyOK
  <2>3. ASSUME phase' = "exec", answer' = "yes"
        PROVE  Current' \in obeyed' \/ Mistaken(Target)'
    <3>1. phase = "exec" /\ Reply = "yes" /\ HostKeyOK /\ Target \in Chassis
      BY <1>8, <2>1, <2>3 DEF HostAnswers, HostPassed, TypeOK
    <3>2. CASE host[Target].is = {Target}
      BY <1>8, <2>1, <3>1, <3>2 DEF HostAnswers
    <3>3. CASE host[Target].is # {Target}
      BY <1>m, <2>1, <3>1, <3>3 DEF Mistaken, HostKeyOK
    <3> QED
      BY <3>2, <3>3
  <2> QED
    BY <2>2, <2>3 DEF Answered
<1>9. CASE Breaks
  BY <1>0, <1>9 DEF Breaks, ReportTruthful, Answered, HostPassed, HostKeyOK, Mistaken, Current, Target
<1>10. CASE UNCHANGED sshVars
  BY <1>10 DEF sshVars, ReportTruthful, Answered, HostPassed, HostKeyOK, Mistaken, Current, Target
<1> QED
  BY <1>1, <1>2, <1>3, <1>4, <1>5, <1>6, <1>7, <1>8, <1>9, <1>10 DEF Next, Run

(* No action is counted as a success that its chassis has not carried out, *)
(* unless the runner cannot tell who it was that answered.                 *)
THEOREM ReportIsTruthful == Spec => []ReportTruthful
<1>1. ReportInv => ReportTruthful
  BY DEF ReportInv
<1> QED
  BY <1>1, ReportStart, ReportStep, SshTypeCorrect, PTL DEF Spec

(* With a single chassis and its key pinned there is no such doubt: what   *)
(* is counted as done was done, whoever may answer at the CMC's address.   *)
THEOREM PinnedReportIsTrue ==
  ASSUME \A c, d \in Chassis : c = d
  PROVE  Spec => [](pin # {} => \A i \in DOMAIN report :
                                  report[i] = "ok" /\ Plan[i] \in Chassis => i \in obeyed)
<1>1. TypeOK /\ ReportTruthful =>
        (pin # {} => \A i \in DOMAIN report :
                       report[i] = "ok" /\ Plan[i] \in Chassis => i \in obeyed)
  <2> SUFFICES ASSUME TypeOK, ReportTruthful, pin # {},
                      NEW i \in DOMAIN report, report[i] = "ok", Plan[i] \in Chassis
               PROVE  i \in obeyed
    OBVIOUS
  <2>1. PICK c \in Chassis : pin = {c}
    BY DEF TypeOK, Identity
  <2>2. ~Mistaken(Plan[i])
    BY <2>1 DEF Mistaken
  <2> QED
    BY <2>2 DEF ReportTruthful
<1> QED
  BY <1>1, SshTypeCorrect, ReportIsTruthful, PTL
=============================================================================
