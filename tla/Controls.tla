------------------------------ MODULE Controls ------------------------------
(***************************************************************************)
(* Controls.RunChecks of check/controls.go on one controls file, with the  *)
(* filter of NewRunFilter and the map of parseSkipIds (cmd/common.go): one *)
(* pass over the groups and their checks, which runs the checks that the   *)
(* filter selects, marks those that are skipped, puts each of them into a  *)
(* new group with the ID of its own and counts its state there and in the  *)
(* summary.  The runner is Check.run: its answer is one of Allowed.        *)
(***************************************************************************)
EXTENDS Naturals, Sequences, FiniteSets, CheckStates

CONSTANTS
  Files,     \* controls files: sequences of groups
  Options,   \* what --group, --check, --scored and --unscored may be
  Skips      \* what --skip may be

(***************************************************************************)
(* A group of a file is a record: id, type ("skip" or another) and checks, *)
(* a sequence of descriptions of checks (see CheckStates) with an id.      *)
(* Options are a record: groups and checks, the sets of listed IDs, empty  *)
(* if the flag is not given, scored and unscored.                          *)
(***************************************************************************)
Descriptions ==
  [id : STRING, type : Types, scored : BOOLEAN, tests : {"nil", "empty", "items"}]

ASSUME FilesAssumption ==
  Files \subseteq Seq([id : STRING, type : Types, checks : Seq(Descriptions)])

ASSUME OptionsAssumption ==
  /\ Options \subseteq [groups : SUBSET STRING, checks : SUBSET STRING,
                        scored : BOOLEAN, unscored : BOOLEAN]
  /\ Skips \subseteq SUBSET STRING

VARIABLES
  file,      \* controls.Groups as read
  opts,      \* filterOpts
  skipIDs,   \* the keys of skipIDMap
  pc,        \* "filter", "loop", "done", or "exit" for exitWithError
  gi, ci,    \* the group and the check at which the loops stand
  type,      \* Type of each check, by position <<group, check>>
  state,     \* State of each check, "" until it is run
  g,         \* the new groups: ID, counts, and the positions of the checks
  m,         \* the index in g of the new group of an ID
  summary    \* controls.Summary

input == <<file, opts, skipIDs>>

vars == <<file, opts, skipIDs, pc, gi, ci, type, state, g, m, summary>>

Positions == UNION {{i} \X DOMAIN file[i].checks : i \in DOMAIN file}

GroupOf(p) == file[p[1]]
CheckAt(p) == GroupOf(p).checks[p[2]]

\* The predicate that NewRunFilter returns.
Selected(p) ==
  /\ opts.groups # {} => GroupOf(p).id \in opts.groups
  /\ opts.checks # {} => CheckAt(p).id \in opts.checks
  /\ IF CheckAt(p).scored THEN opts.scored ELSE opts.unscored

\* The group is of type skip, or --skip names it or the check.
Skipped(p) ==
  \/ GroupOf(p).type = "skip"
  \/ GroupOf(p).id \in skipIDs
  \/ CheckAt(p).id \in skipIDs

NoCounts == [s \in States |-> 0]

\* summarize and summarizeGroup: one more check in the state.
Count(counts, s) == [counts EXCEPT ![s] = @ + 1]

Init ==
  /\ file \in Files
  /\ opts \in Options
  /\ skipIDs \in Skips
  /\ pc = "filter"
  /\ gi = 1
  /\ ci = 1
  /\ type = [p \in Positions |-> CheckAt(p).type]
  /\ state = [p \in Positions |-> ""]
  /\ g = <<>>
  /\ m = [id \in {} |-> 0]
  /\ summary = NoCounts

loop == <<gi, ci, type, state, g, m, summary>>

\* runChecks builds the filter: both lists at once end the program.
BothLists == opts.groups # {} /\ opts.checks # {}

BuildFilter ==
  /\ pc = "filter"
  /\ pc' = IF BothLists THEN "exit" ELSE "loop"
  /\ UNCHANGED <<input, loop>>

Here == <<gi, ci>>

AtCheck == pc = "loop" /\ gi <= Len(file) /\ ci <= Len(file[gi].checks)

\* continue: a check the filter leaves out is neither run nor reported.
LeaveOut ==
  /\ AtCheck
  /\ ~Selected(Here)
  /\ ci' = ci + 1
  /\ UNCHANGED <<input, pc, gi, type, state, g, m, summary>>

\* Mutants of Report: a new group is entered into m under the index of the
\* one before; a check that joins a group is not counted there, or is put in
\* front.
ReportOffByOne(s) ==
  /\ file[gi].id \notin DOMAIN m
  /\ g' = Append(g, [id |-> file[gi].id, counts |-> Count(NoCounts, s),
                     checks |-> <<Here>>])
  /\ m' = [i \in DOMAIN m \cup {file[gi].id} |->
             IF i = file[gi].id THEN Len(g) ELSE m[i]]

ReportJoinUncounted(s) ==
  LET id == file[gi].id
  IN  IF id \in DOMAIN m
      THEN /\ g' = [g EXCEPT ![m[id]].checks = Append(@, Here)]
           /\ UNCHANGED m
      ELSE /\ g' = Append(g, [id |-> id, counts |-> Count(NoCounts, s),
                              checks |-> <<Here>>])
           /\ m' = [i \in DOMAIN m \cup {id} |->
                      IF i = id THEN Len(g) + 1 ELSE m[i]]

ReportInFront(s) ==
  LET id == file[gi].id
      v  == g[m[id]]
  IN  IF id \in DOMAIN m
      THEN /\ g' = [g EXCEPT ![m[id]] =
                    [v EXCEPT !.checks = <<Here>> \o v.checks,
                              !.counts = Count(v.counts, s)]]
           /\ UNCHANGED m
      ELSE /\ g' = Append(g, [id |-> id, counts |-> Count(NoCounts, s),
                              checks |-> <<Here>>])
           /\ m' = [i \in DOMAIN m \cup {id} |->
                      IF i = id THEN Len(g) + 1 ELSE m[i]]

\* The check joins the new group of its ID, which is made if there is none.
Report(s) ==
  LET id == file[gi].id
      v  == g[m[id]]
  IN  IF id \in DOMAIN m
      THEN /\ g' = [g EXCEPT ![m[id]] =
                    [v EXCEPT !.checks = Append(v.checks, Here),
                              !.counts = Count(v.counts, s)]]
           /\ UNCHANGED m
      ELSE /\ g' = Append(g, [id |-> id, counts |-> Count(NoCounts, s),
                              checks |-> <<Here>>])
           /\ m' = [i \in DOMAIN m \cup {id} |->
                      IF i = id THEN Len(g) + 1 ELSE m[i]]

\* Mutant of TypeRun: --skip with the ID of a group is not looked up.
TypeRunByCheckID ==
  IF GroupOf(Here).type = "skip" \/ CheckAt(Here).id \in skipIDs
  THEN "skip" ELSE type[Here]

TypeRun == IF Skipped(Here) THEN "skip" ELSE type[Here]

\* Mutant of Summarize: only the check that makes a group is counted.
SummarizeGroupOnce(s) ==
  summary' = IF file[gi].id \in DOMAIN m THEN summary ELSE Count(summary, s)

Summarize(s) == summary' = Count(summary, s)

\* Mutant of RunCheck: a skipped check is passed over instead of reported.
RunUnskipped ==
  /\ AtCheck
  /\ Selected(Here)
  /\ IF Skipped(Here)
     THEN UNCHANGED <<type, state, g, m, summary>>
     ELSE /\ UNCHANGED type
          /\ \E s \in Allowed(CheckAt(Here)) :
               state' = [state EXCEPT ![Here] = s] /\ Report(s) /\ Summarize(s)
  /\ ci' = ci + 1
  /\ UNCHANGED <<input, pc, gi>>

\* One check: marked if it is skipped, run, reported and counted.  That its
\* remediation joins its TestInfo is left out: it does so for each check run.
RunCheck ==
  /\ AtCheck
  /\ Selected(Here)
  /\ type' = [type EXCEPT ![Here] = TypeRun]
  /\ \E s \in Allowed([CheckAt(Here) EXCEPT !.type = TypeRun]) :
       /\ state' = [state EXCEPT ![Here] = s]
       /\ Report(s)
       /\ Summarize(s)
  /\ ci' = ci + 1
  /\ UNCHANGED <<input, pc, gi>>

NextGroup ==
  /\ pc = "loop"
  /\ gi <= Len(file)
  /\ ci > Len(file[gi].checks)
  /\ gi' = gi + 1
  /\ ci' = 1
  /\ UNCHANGED <<input, pc, type, state, g, m, summary>>

\* controls.Groups = g: from here on the file is what g says.
Finish ==
  /\ pc = "loop"
  /\ gi > Len(file)
  /\ pc' = "done"
  /\ UNCHANGED <<input, loop>>

Stopped == pc \in {"done", "exit"} /\ UNCHANGED vars

Next ==
  \/ BuildFilter \/ LeaveOut \/ RunCheck \/ NextGroup \/ Finish \/ Stopped

Spec == Init /\ [][Next]_vars

-----------------------------------------------------------------------------
(* Properties.                                                             *)

NewGroups == [id : STRING, counts : [States -> Nat], checks : Seq(Positions)]

\* The types of the variables.
TypeOK ==
  /\ file \in Files /\ opts \in Options /\ skipIDs \in Skips
  /\ pc \in {"filter", "loop", "done", "exit"}
  /\ gi \in Nat \ {0} /\ ci \in Nat \ {0}
  /\ type \in [Positions -> Types]
  /\ state \in [Positions -> States \cup {""}]
  /\ g \in Seq(NewGroups)
  /\ m \in [DOMAIN m -> DOMAIN g]
  /\ summary \in [States -> Nat]

\* The checks in a state, of the whole file and of the groups with an ID.
InState(s) == {p \in Positions : state[p] = s}

InStateOf(id, s) == {p \in InState(s) : GroupOf(p).id = id}

\* The summary, from which the exit code and the totals are made, counts each
\* check that has been run once, under the state it was left in.
SummaryCounts == \A s \in States : summary[s] = Cardinality(InState(s))

\* So does each new group for the checks of every group of the file that has
\* its ID, also when several groups of the file share it.
GroupCounts ==
  \A k \in DOMAIN g : \A s \in States :
    g[k].counts[s] = Cardinality(InStateOf(g[k].id, s))

Before(p, q) == p[1] < q[1] \/ (p[1] = q[1] /\ p[2] < q[2])

\* The report keeps the order of the file: the checks of a new group follow
\* each other as in the file, so that none is listed twice, and the groups do
\* as their first checks.
ReportInFileOrder ==
  /\ \A k \in DOMAIN g : \A i, j \in DOMAIN g[k].checks :
       i < j => Before(g[k].checks[i], g[k].checks[j])
  /\ \A k, l \in DOMAIN g : k < l => Before(g[k].checks[1], g[l].checks[1])

Listed(p) ==
  \E k \in DOMAIN g : /\ g[k].id = GroupOf(p).id
                      /\ \E i \in DOMAIN g[k].checks : g[k].checks[i] = p

\* Exactly the checks that the filter selects are run and listed, each in the
\* group with the ID of its own; the others are left as they were read.
ReportComplete ==
  pc = "done" =>
    \A p \in Positions :
      IF Selected(p) THEN state[p] # "" /\ Listed(p)
      ELSE state[p] = "" /\ ~Listed(p) /\ type[p] = CheckAt(p).type

\* A check that is selected and skipped is reported as INFO whatever its type
\* and its tests, and nothing but a skip is: --skip beats the early returns of
\* Check.run, an incomplete check's included.
SkipMeansInfo ==
  \A p \in Positions :
    state[p] # "" =>
      (state[p] = "INFO" <=> Skipped(p) \/ CheckAt(p).type = "skip")
=============================================================================
