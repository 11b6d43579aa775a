----------------------------- MODULE Invocation -----------------------------
(***************************************************************************)
(* What whoever starts kube-bench may rely on, whichever command and       *)
(* output it is: the results of the sections are taken one by one, brought *)
(* into their order once, and are final from then on; what is out is a     *)
(* beginning of the report and never taken back; a status other than that  *)
(* of an error comes only after the whole report.  KubeBench, the step by  *)
(* step model of the two commands, implements this specification.          *)
(***************************************************************************)
EXTENDS Naturals, Sequences, TLC

CONSTANT Running    \* stands for the status of a process that has not ended

VARIABLES
  exitCode,   \* the --exit-code
  phase,      \* "take", "write" or "end"
  report,     \* the results of the sections, each with a field fail
  out,        \* how much of the report is out
  status      \* of the process

vars == <<exitCode, phase, report, out, status>>

Init ==
  /\ exitCode \in 0..255
  /\ phase = "take"
  /\ report = <<>>
  /\ out = <<>>
  /\ status = Running

\* One more section.
Take ==
  /\ phase = "take"
  /\ Len(report') = Len(report) + 1
  /\ SubSeq(report', 1, Len(report)) = report
  /\ UNCHANGED <<exitCode, phase, out, status>>

\* All arrangements of a report.
Arranged(results) ==
  {[k \in DOMAIN results |-> results[p[k]]] : p \in Permutations(DOMAIN results)}

Arrange ==
  /\ phase = "take"
  /\ phase' = "write"
  /\ report' \in Arranged(report)
  /\ UNCHANGED <<exitCode, out, status>>

Write ==
  /\ phase = "write"
  /\ \E n \in Len(out) + 1..Len(report) : out' = SubSeq(report, 1, n)
  /\ UNCHANGED <<exitCode, phase, report, status>>

Succeed ==
  /\ phase = "write"
  /\ out = report
  /\ phase' = "end"
  /\ status' = IF \E k \in DOMAIN report : report[k].fail THEN exitCode ELSE 0
  /\ UNCHANGED <<exitCode, report, out>>

\* An error, at any time.
Fail ==
  /\ phase # "end"
  /\ phase' = "end"
  /\ status' = 1
  /\ UNCHANGED <<exitCode, report, out>>

Next == Take \/ Arrange \/ Write \/ Succeed \/ Fail

Spec == Init /\ [][Next]_vars
=============================================================================
