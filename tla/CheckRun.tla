------------------------------ MODULE CheckRun ------------------------------
(***************************************************************************)
(* Check.run of check/check.go with what it calls: runAuditCommands, which *)
(* runs up to three shell commands on the node, and execute, which         *)
(* evaluates every test item on the output of the first of them that shows *)
(* the item, and joins the results with the binary operator of the check.  *)
(*                                                                         *)
(* The text of an output is abstracted to what a test item reads in it: a  *)
(* row of output gives, for each item, one Reading.  An empty output is    *)
(* the empty sequence of rows.                                             *)
(***************************************************************************)
EXTENDS Naturals, Sequences, CheckStates

CONSTANTS
  Checks,          \* the checks, as read from a controls file
  Outputs(_, _)    \* Outputs(c, s): what command s of check c may print

VARIABLES
  check,     \* the check being run
  pc,        \* where run is
  output,    \* AuditOutput, AuditConfigOutput, AuditEnvOutput
  outcome,   \* how each audit command ended, "none" if it was not run
  err,       \* the error run holds, "" for nil
  result,    \* the testOutput of the item being evaluated
  res,       \* the results of the items evaluated so far
  final,     \* finalOutput: "nil", or its testResult
  state,     \* State, "" until it is assigned
  reason     \* Reason

vars == <<check, pc, output, outcome, err, result, res, final, state, reason>>

auditVars == <<output, outcome, err>>
itemVars  == <<result, res>>
endVars   == <<final, state, reason>>

(***************************************************************************)
(* A check is a record: type and scored; tests, "nil" or "empty" or        *)
(* "items"; items, a sequence of test items; binOp; multiple               *)
(* (use_multiple_values); audits, the commands whose text is not blank.    *)
(* A test item is a record: set; compares (compare.op is given); names,    *)
(* the sources it has a name for (flag, path and env).                     *)
(***************************************************************************)
Sources == {"auditCommand", "auditConfig", "auditEnv"}

ASSUME AuditsAssumption == \A c \in Checks : c.audits \subseteq Sources

\* What a row says of an item: its name is not there, it is there with a
\* value for which the comparison holds or fails, or the row is not legible.
Readings == {"absent", "good", "bad", "error"}

\* The outcomes of a shell command that runAuditCommands tells apart: an
\* error whose text has "exit status 127" or "No such file or directory",
\* and any other error.
Outcomes == {"ok", "missing", "failed"}

ASSUME RowsAssumption ==
  \A c \in Checks :
    /\ c.items \in Seq([set : BOOLEAN, compares : BOOLEAN, names : SUBSET Sources])
    /\ \A s \in Sources : Outputs(c, s) \subseteq Seq([DOMAIN c.items -> Readings])

PCs == {"start", "auditEnv", "auditCommand", "auditConfig",
        "onCommand", "onConfig", "onEnv", "combine", "conclude", "done"}

NoResult == [used |-> "none", passed |-> FALSE, found |-> FALSE]

Results == [used : Sources, passed : BOOLEAN, found : BOOLEAN]

-----------------------------------------------------------------------------
(* Reading one output: testItem.execute and testItem.evaluate.             *)

\* findValue: an item without a name for the source finds nothing, but the
\* configuration is parsed all the same and may turn out illegible.
FindValue(t, i, source, row) ==
  IF source \in t.names \/ (source = "auditConfig" /\ row[i] = "error")
  THEN row[i]
  ELSE "absent"

Found(reading) == reading \in {"good", "bad"}

\* evaluate on one row: an illegible row fails, a set item must be there and
\* compare well if it has a comparison, any other item must not be there.
Holds(t, reading) ==
  CASE reading = "error" -> FALSE
    [] reading # "error" /\ t.set ->
         IF t.compares THEN reading = "good" ELSE Found(reading)
    [] OTHER -> ~Found(reading)

\* A text that is read as a whole shows an item where it first occurs (that
\* is so of flags and variables; a text parsed for a path is one row here).
Whole(rows) ==
  [i \in DOMAIN rows[1] |->
     LET hits == {k \in DOMAIN rows : rows[k][i] # "absent"}
     IN  IF hits = {} THEN "absent"
         ELSE rows[CHOOSE k \in hits : \A h \in hits : k <= h][i]]

\* The rows that are evaluated one by one.  Splitting "" gives one blank row.
RowsRead(c, out) ==
  CASE out = <<>> -> <<[i \in DOMAIN c.items |-> "absent"]>>
    [] out # <<>> /\ c.multiple -> out
    [] OTHER -> <<Whole(out)>>

\* Mutant of Execute: no break, so that the last row decides.
ExecuteLastRow(c, i, source, out) ==
  LET t    == c.items[i]
      rows == RowsRead(c, out)
      read == FindValue(t, i, source, rows[Len(rows)])
  IN  [used |-> source, passed |-> Holds(t, read), found |-> Found(read)]

\* execute stops at the first row that does not hold; the result is that of
\* the last row evaluated, and so is flagFound.
Execute(c, i, source, out) ==
  LET t       == c.items[i]
      rows    == RowsRead(c, out)
      at(k)   == FindValue(t, i, source, rows[k])
      failing == {k \in DOMAIN rows : ~Holds(t, at(k))}
      last    == IF failing = {} THEN Len(rows)
                 ELSE CHOOSE k \in failing : \A h \in failing : k <= h
  IN  [used   |-> source,
       passed |-> Holds(t, at(last)),
       found  |-> Found(at(last))]

-----------------------------------------------------------------------------
Init ==
  /\ check \in Checks
  /\ pc = "start"
  /\ output = [s \in Sources |-> <<>>]
  /\ outcome = [s \in Sources |-> "none"]
  /\ err = ""
  /\ result = NoResult
  /\ res = <<>>
  /\ final = "nil"
  /\ state = ""
  /\ reason = ""

Goto(l) == pc' = l

Return(s, why) ==
  /\ Goto("done")
  /\ state' = s
  /\ reason' = why
  /\ UNCHANGED <<check, auditVars, itemVars, final>>

\* The four early returns, in the order of the code.
WarnIncomplete ==
  /\ pc = "start"
  /\ Incomplete(check)
  /\ Return("WARN", "There are no tests")

Skip ==
  /\ pc = "start"
  /\ ~Incomplete(check)
  /\ check.type = "skip"
  /\ Return("INFO", "Test marked as skip")

WarnManual ==
  /\ pc = "start"
  /\ ~Incomplete(check)
  /\ check.type = "manual"
  /\ Return("WARN", "Test marked as a manual test")

\* Mutant of NoTestsDefined: an unscored check fails like a scored one.
NoTestsAlwaysFail ==
  /\ pc = "start"
  /\ ~Incomplete(check)
  /\ check.type \notin {"skip", "manual"}
  /\ Untested(check)
  /\ Return("FAIL", "No tests defined")

NoTestsDefined ==
  /\ pc = "start"
  /\ ~Incomplete(check)
  /\ check.type \notin {"skip", "manual"}
  /\ Untested(check)
  /\ Return(NotPassed(check), "No tests defined")

StartAudits ==
  /\ pc = "start"
  /\ check.type \notin {"skip", "manual"}
  /\ ~Untested(check)
  /\ Goto("auditEnv")
  /\ UNCHANGED <<check, auditVars, itemVars, endVars>>

\* runAudit: a blank command prints nothing and cannot fail; any other
\* prints what the node makes it print, also when it fails.
RunAudit(source, o, out) ==
  /\ \/ source \in check.audits
     \/ o = "ok" /\ out = <<>>
  /\ output' = [output EXCEPT ![source] = out]
  /\ outcome' = [outcome EXCEPT ![source] = o]
  /\ err' = IF o = "ok" THEN "" ELSE o

\* audit_env first, then audit: an error of either ends the audits.
RunAuditEnv ==
  /\ pc = "auditEnv"
  /\ \E o \in Outcomes, out \in Outputs(check, "auditEnv") :
       /\ RunAudit("auditEnv", o, out)
       /\ Goto(IF o = "ok" THEN "auditCommand" ELSE "conclude")
  /\ UNCHANGED <<check, itemVars, endVars>>

\* Mutant of RunAuditCommand: the error is noted, and the audits go on.
AuditCommandGoesOn ==
  /\ pc = "auditCommand"
  /\ \E o \in Outcomes, out \in Outputs(check, "auditCommand") :
       RunAudit("auditCommand", o, out)
  /\ Goto("auditConfig")
  /\ UNCHANGED <<check, itemVars, endVars>>

RunAuditCommand ==
  /\ pc = "auditCommand"
  /\ \E o \in Outcomes, out \in Outputs(check, "auditCommand") :
       /\ RunAudit("auditCommand", o, out)
       /\ Goto(IF o = "ok" THEN "auditConfig" ELSE "conclude")
  /\ UNCHANGED <<check, itemVars, endVars>>

\* Mutant of Excused: a missing file is excused though nothing was printed.
ExcusedAlways(o) == o = "missing"

\* The error of a missing file is dropped, with what the command printed,
\* if one of the other two outputs has something in it.
Excused(o) ==
  /\ o = "missing"
  /\ output["auditEnv"] # <<>> \/ output["auditCommand"] # <<>>

RunAuditConfig ==
  /\ pc = "auditConfig"
  /\ \/ \E o \in Outcomes, out \in Outputs(check, "auditConfig") :
          /\ ~Excused(o)
          /\ RunAudit("auditConfig", o, out)
          /\ Goto(IF o = "ok" THEN "onCommand" ELSE "conclude")
     \/ /\ Excused("missing")
        /\ "auditConfig" \in check.audits
        /\ outcome' = [outcome EXCEPT !["auditConfig"] = "missing"]
        /\ Goto("onCommand")
        /\ UNCHANGED <<output, err>>
  /\ UNCHANGED <<check, itemVars, endVars>>

Item == Len(res) + 1

\* The loop of Check.execute over the test items.
TryCommand ==
  /\ pc = "onCommand"
  /\ Item <= Len(check.items)
  /\ result' = Execute(check, Item, "auditCommand", output["auditCommand"])
  /\ Goto("onConfig")
  /\ UNCHANGED <<check, auditVars, res, endVars>>

\* Mutant of UseConfig: the configuration replaces what the command line shows.
UseConfigAnyway ==
  /\ "auditConfig" \in check.audits
  /\ output["auditConfig"] # <<>>

UseConfig ==
  /\ ~result.found
  /\ "auditConfig" \in check.audits
  /\ output["auditConfig"] # <<>>

\* Mutant of TryConfig: an item not shown yet is tried again from the start.
TryConfigAgain ==
  /\ pc = "onConfig"
  /\ result' = IF UseConfig
               THEN Execute(check, Item, "auditConfig", output["auditConfig"])
               ELSE result
  /\ Goto(IF result'.found THEN "onEnv" ELSE "onCommand")
  /\ UNCHANGED <<check, auditVars, res, endVars>>

TryConfig ==
  /\ pc = "onConfig"
  /\ result' = IF UseConfig
               THEN Execute(check, Item, "auditConfig", output["auditConfig"])
               ELSE result
  /\ Goto("onEnv")
  /\ UNCHANGED <<check, auditVars, res, endVars>>

\* The code tries the environment twice when the configuration was tried
\* too, on the same output: the second answer is the first.
UseEnv == ~result.found /\ "auditEnv" \in check.items[Item].names

TryEnv ==
  /\ pc = "onEnv"
  /\ LET r == IF UseEnv
              THEN Execute(check, Item, "auditEnv", output["auditEnv"])
              ELSE result
     IN  /\ result' = r
         /\ res' = Append(res, r)
  /\ Goto(IF Item < Len(check.items) THEN "onCommand" ELSE "combine")
  /\ UNCHANGED <<check, auditVars, endVars>>

\* The switch on bin_op.  finalOutput is set on an unknown operator too.
Joined ==
  CASE check.binOp \in {"and", ""} -> \A i \in DOMAIN res : res[i].passed
    [] check.binOp = "or"          -> \E i \in DOMAIN res : res[i].passed
    [] OTHER                       -> FALSE

Combine ==
  /\ pc = "combine"
  /\ final' = IF Joined THEN "true" ELSE "false"
  /\ err' = IF check.binOp \in {"and", "", "or"} THEN "" ELSE "binop"
  /\ Goto("conclude")
  /\ UNCHANGED <<check, output, outcome, itemVars, state, reason>>

\* Mutant of Conclude: the error of an audit does not set the state.
ConcludeWithoutError ==
  /\ pc = "conclude"
  /\ state' = CASE final = "true"  -> "PASS"
                [] final = "false" -> NotPassed(check)
                [] OTHER           -> state
  /\ reason' = IF err # "" THEN err ELSE reason
  /\ Goto("done")
  /\ UNCHANGED <<check, auditVars, itemVars, final>>

\* The end of run: the state of the result, if there is one, then the error.
Conclude ==
  /\ pc = "conclude"
  /\ LET judged == CASE final = "true"  -> "PASS"
                     [] final = "false" -> NotPassed(check)
                     [] OTHER           -> state
     IN  state' = IF err # "" THEN NotPassed(check) ELSE judged
  /\ reason' = IF err # "" THEN err ELSE reason
  /\ Goto("done")
  /\ UNCHANGED <<check, auditVars, itemVars, final>>

\* The run has returned.
Done == pc = "done" /\ UNCHANGED vars

Evaluate == TryCommand \/ TryConfig \/ TryEnv \/ Combine \/ Conclude

EarlyReturn == WarnIncomplete \/ Skip \/ WarnManual \/ NoTestsDefined

Audit == RunAuditEnv \/ RunAuditCommand \/ RunAuditConfig

Next == EarlyReturn \/ StartAudits \/ Audit \/ Evaluate \/ Done

Spec == Init /\ [][Next]_vars

(***************************************************************************)
(* kube-bench runs its own steps; a command of the node is waited for      *)
(* without a timeout (cmd.Run), so no fairness is assumed of an audit.     *)
(***************************************************************************)
FairSpec == Spec /\ WF_vars(EarlyReturn \/ StartAudits \/ Evaluate)

-----------------------------------------------------------------------------
(* Properties.                                                             *)

\* The types of the variables; run never returns without a state.
TypeOK ==
  /\ check \in Checks
  /\ pc \in PCs
  /\ \A s \in Sources : output[s] \in Outputs(check, s) \cup {<<>>}
  /\ outcome \in [Sources -> Outcomes \cup {"none"}]
  /\ err \in {"", "missing", "failed", "binop"}
  /\ result \in Results \cup {NoResult}
  /\ res \in Seq(Results)
  /\ final \in {"nil", "true", "false"}
  /\ state \in IF pc = "done" THEN States ELSE {""}

\* The sources that execute may come to for item i, and their order.
Asked(i) ==
  {s \in Sources : \/ s = "auditCommand"
                   \/ s = "auditConfig" /\ s \in check.audits /\ output[s] # <<>>
                   \/ s = "auditEnv" /\ s \in check.items[i].names}

Rank == [auditCommand |-> 1, auditConfig |-> 2, auditEnv |-> 3]

Reading(i, s, k) == FindValue(check.items[i], i, s, RowsRead(check, output[s])[k])

RowsOf(s) == DOMAIN RowsRead(check, output[s])

EveryRowHolds(i, s) ==
  \A k \in RowsOf(s) : Holds(check.items[i], Reading(i, s, k))

ItemsJoined(P(_)) ==
  IF check.binOp = "or" THEN \E i \in DOMAIN check.items : P(i)
  ELSE \A i \in DOMAIN check.items : P(i)

\* A check passes on evidence: each item it needs holds in every row of one
\* of the consulted outputs, so a later row that contradicts the first is
\* never missed, an unknown bin_op never passes, and an item that must be
\* set never passes on outputs that do not show it.
PassIsEvidenced ==
  state = "PASS" =>
    /\ check.binOp \in {"and", "or", ""}
    /\ ItemsJoined(LAMBDA i : \E s \in Asked(i) : EveryRowHolds(i, s))

\* An item is plain to read if each output shows it in all its rows or none.
Uniform(i) ==
  \A s \in Sources :
    \/ \A k \in RowsOf(s) : Found(Reading(i, s, k))
    \/ \A k \in RowsOf(s) : ~Found(Reading(i, s, k))

\* The one of the outputs T that decides a plain item: the best one that
\* shows it, or the last one if none does.
Decider(i, T) ==
  LET showing == {s \in T : Found(Reading(i, s, 1))}
  IN  IF showing = {} THEN CHOOSE s \in T : \A t \in T : Rank[t] <= Rank[s]
      ELSE CHOOSE s \in showing : \A t \in showing : Rank[s] <= Rank[t]

Deciding(i) == Decider(i, Asked(i))

\* When every item is plain, the verdict is that of the deciding outputs and
\* of nothing else: it depends neither on the order of the rows, where the
\* loop of testItem.execute stops, nor on what a source of lower rank says of
\* an item the command line shows (the overriding of check.go:149).
PlainItemsDecide ==
  /\ pc = "done"
  /\ final # "nil"
  /\ check.binOp \in {"and", "or", ""}
  /\ \A i \in DOMAIN check.items : Uniform(i)
  => state = IF ItemsJoined(LAMBDA i : EveryRowHolds(i, Deciding(i)))
             THEN "PASS" ELSE NotPassed(check)

\* No check passes over a command that failed: when run answers PASS, all the
\* commands of the check have ended well, but for a missing configuration file
\* when another command printed something.
PassNeedsAudits ==
  state = "PASS" =>
    \A s \in check.audits :
      \/ outcome[s] = "ok"
      \/ /\ s = "auditConfig"
         /\ outcome[s] = "missing"
         /\ \E other \in {"auditCommand", "auditEnv"} : output[other] # <<>>

\* A verdict is explained by a reason, or else by the evaluation of every
\* item: no error of a command or of the operator leaves a check in a state
\* that nothing in the report accounts for.
VerdictExplained ==
  pc = "done" =>
    \/ reason # ""
    \/ /\ final # "nil"
       /\ Len(res) = Len(check.items)
       /\ check.binOp \in {"and", "or", ""}
       /\ outcome["auditCommand"] = "ok"

V == INSTANCE CheckVerdict

\* Check.run implements the contract its callers rely on: one verdict, never
\* taken back, and one that the description of the check leaves open.
ImplementsVerdict == V!Spec

\* Of the steps of run only a command of the node can keep it from returning.
OnlyAuditsHang ==
  <>(pc = "done") \/ <>[](pc \in {"auditEnv", "auditCommand", "auditConfig"})

(***************************************************************************)
(* What the documentation says and the code does not do.                   *)
(***************************************************************************)

\* docs/controls.md, lines 193 to 209: flag, path and env act as OR; either
\* is used "to attempt pass the check".  The code asks the next source only
\* for an item that the one before does not show.
SourcesActAsOr ==
  pc = "done" /\ final # "nil" =>
    \A i \in DOMAIN check.items :
      /\ check.items[i].set
      /\ \E s \in Asked(i) : EveryRowHolds(i, s)
      => res[i].passed
=============================================================================
