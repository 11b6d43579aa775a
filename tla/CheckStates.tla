---------------------------- MODULE CheckStates -----------------------------
(***************************************************************************)
(* The states of a check (check/check.go) and those that Check.run may     *)
(* leave it in, as a function of how the controls file describes it.       *)
(* A description has the fields type, scored and tests, which is "nil"     *)
(* without a tests section, "empty" for one that lists no item, "items".   *)
(***************************************************************************)
States == {"PASS", "FAIL", "WARN", "INFO"}

\* The values of Type that run tells apart; "blank" is an empty or white one.
Types == {"blank", "skip", "manual", "other"}

\* A check that has not passed fails if it is scored and warns if it is not.
NotPassed(c) == IF c.scored THEN "FAIL" ELSE "WARN"

\* The early returns of run, in their order: a scored check of blank type
\* without a tests section, a skipped, a manual, and an empty one.
Incomplete(c) == c.scored /\ c.type = "blank" /\ c.tests = "nil"

Untested(c) == c.tests \in {"nil", "empty"}

Allowed(c) ==
  IF Incomplete(c) THEN {"WARN"}
  ELSE IF c.type = "skip" THEN {"INFO"}
  ELSE IF c.type = "manual" THEN {"WARN"}
  ELSE IF Untested(c) THEN {NotPassed(c)}
  ELSE {"PASS", NotPassed(c)}
=============================================================================
