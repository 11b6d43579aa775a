---------------------------- MODULE CheckVerdict ----------------------------
(***************************************************************************)
(* What a caller of Check.run (check/check.go) may rely on: a check has no *)
(* verdict until the run decides, and the decision is final and one of the *)
(* states that the description of the check leaves open.  CheckRun, the    *)
(* step by step model of the same function, implements this specification; *)
(* Controls uses Allowed as the answer of the runner it calls.             *)
(***************************************************************************)
EXTENDS CheckStates

CONSTANT Checks     \* the checks, as read from a controls file

VARIABLES check,    \* the check being run
          state     \* its State, "" until the run assigns it

Init == check \in Checks /\ state = ""

Decide ==
  /\ state = ""
  /\ state' \in Allowed(check)
  /\ UNCHANGED check

Spec == Init /\ [][Decide]_<<check, state>>
=============================================================================
