------------------------------- MODULE Outputs -------------------------------
(***************************************************************************)
(* What the outputs make of the controls of a section once RunChecks is    *)
(* through: the JUnit suite and the findings in the format of Security Hub *)
(* (check/controls.go), the remediations and the summary on the terminal   *)
(* and the part of the section in the exit status (cmd/common.go).  Texts  *)
(* are left out; a check stands for its line, its case or its finding.     *)
(***************************************************************************)
EXTENDS Controls

\* The loops over the groups and their checks, which all outputs have: they
\* come to the pairs of a group and a check in lexicographic order.
Lines == UNION {{k} \X DOMAIN g[k].checks : k \in DOMAIN g}

\* The check that a line is about.
Shown(l) == g[l[1]].checks[l[2]]

LinesIn(states) == {l \in Lines : state[Shown(l)] \in states}

\* Controls.JUnit: what becomes of a case.
Case(s) ==
  CASE s = "FAIL"             -> "failed"
    [] s \in {"WARN", "INFO"} -> "skipped"
    [] s = "PASS"             -> "passed"

JUnit ==
  [tests |-> summary["PASS"] + summary["FAIL"] + summary["INFO"] + summary["WARN"],
   failures |-> summary["FAIL"],
   cases |-> [l \in Lines |-> Case(state[Shown(l)])]]

\* Controls.ASFF: the checks for which there is a finding.
ASFF == LinesIn({"FAIL", "WARN"})

\* Mutant of Remediations: there are none unless a check failed.
RemediationsOfFailures ==
  IF summary["FAIL"] > 0 THEN LinesIn({"FAIL", "WARN"}) ELSE {}

\* prettyPrint: the checks with a line below the heading "Remediations".
Remediations ==
  IF summary["FAIL"] > 0 \/ summary["WARN"] > 0
  THEN LinesIn({"FAIL", "WARN"})
  ELSE {}

\* printSummary: the highest severity, which gives its heading the colour.
Severity ==
  CASE summary["FAIL"] > 0 -> "FAIL"
    [] summary["FAIL"] = 0 /\ summary["WARN"] > 0 -> "WARN"
    [] OTHER -> "PASS"

\* exitCodeSelection, of this section.
ExitsWithCode == summary["FAIL"] > 0

-----------------------------------------------------------------------------
\* The outputs of one run do not contradict each other.  The header of the
\* JUnit suite announces the cases that follow, one for each check that was
\* run, whatever groups they came from.  All complain of the same checks, once
\* each: the findings are those for which the terminal has a remediation, the
\* summary is in the colour of a success if there are none, and the status is
\* that of a failure exactly if a JUnit case failed.
OutputsAgree ==
  pc = "done" =>
    /\ JUnit.tests = Cardinality(Lines)
    /\ JUnit.tests = Cardinality({p \in Positions : state[p] # ""})
    /\ JUnit.failures =
         Cardinality({l \in Lines : JUnit.cases[l] = "failed"})
    /\ ASFF = Remediations
    /\ \A l, h \in ASFF : Shown(l) = Shown(h) => l = h
    /\ Severity = "PASS" <=> ASFF = {}
    /\ ExitsWithCode <=> \E l \in Lines : JUnit.cases[l] = "failed"
    /\ Severity = "FAIL" <=> ExitsWithCode
=============================================================================
