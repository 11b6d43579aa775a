----------------------------- MODULE Publisher -----------------------------
(***************************************************************************)
(* writeFinding of cmd/securityHub.go and Publisher.PublishFinding of      *)
(* internal/findings/publisher.go: the loop that sends the findings of one *)
(* section of the benchmark to the service BatchImportFindings and sums up *)
(* what the service answers, which writeFinding prints.  The findings      *)
(* are 1..n.  The service is the environment: each call returns an error   *)
(* and no response, or a response that splits the findings of the request  *)
(* into those that were imported and those that were not.                  *)
(***************************************************************************)
EXTENDS Naturals, Sequences, FiniteSets

CONSTANTS
  BatchSize,   \* batch: 100 in the code
  MaxFindings  \* bound of the checks on len(finding)

ASSUME BatchAssumption == BatchSize \in Nat \ {0} /\ MaxFindings \in Nat

VARIABLES
  n,        \* len(finding)
  i,        \* the counter of the loop, the outer i
  calls,    \* what was sent and what came back, call by call
  o,        \* the PublisherOutput
  errs,     \* errs # nil
  pc        \* "start", "loop" and "done", or "refused" by writeFinding

vars == <<n, i, calls, o, errs, pc>>

Finding == 1..n

\* What BatchImportFindings may return for a request: an error, or the
\* findings that it failed to import.
Responses(request) ==
  [sent : {request}, ok : {FALSE}, failed : {{}}]
    \union [sent : {request}, ok : {TRUE}, failed : SUBSET request]

Init ==
  /\ n \in 0..MaxFindings
  /\ i = 0
  /\ calls = <<>>
  /\ o = [FailedCount |-> 0, SuccessCount |-> 0,
          FailedFindings |-> [f \in Finding |-> 0]]
  /\ errs = FALSE
  /\ pc = "start"

\* writeFinding: without a region or a configuration of the client there is
\* an error before the first call.
Configure ==
  /\ pc = "start"
  /\ pc' \in {"loop", "refused"}
  /\ UNCHANGED <<n, i, calls, o, errs>>

\* Mutant of Request: a slice of the batch that ends one too early.
RequestShortSlice == {f \in Finding : i < f /\ f < i + BatchSize}

\* i.Findings = finding: the input of a call, in which the inner i shadows
\* the counter.
Request == Finding

\* Mutant of Remember: the error of the last call only, nil or not.
RememberLast(r) == ~r.ok

\* errs = errors.Wrap(err, ...), only if err # nil.
Remember(r) == errs \/ ~r.ok

\* Mutant of Add: the counts without the list.
AddWithoutList(r) ==
  IF r.ok
  THEN [o EXCEPT !.FailedCount = @ + Cardinality(r.failed),
                 !.SuccessCount = @ + Cardinality(r.sent \ r.failed)]
  ELSE o

\* The counts and the list of the response, if there is one, go into o.
Add(r) ==
  IF r.ok
  THEN [FailedCount |-> o.FailedCount + Cardinality(r.failed),
        SuccessCount |-> o.SuccessCount + Cardinality(r.sent \ r.failed),
        FailedFindings |-> [f \in Finding |->
           o.FailedFindings[f] + (IF f \in r.failed THEN 1 ELSE 0)]]
  ELSE o

\* Mutant of Publish: a loop that gives up at the first error.
PublishUntilError ==
  /\ pc = "loop"
  /\ i < n
  /\ \E r \in Responses(Request) :
       /\ calls' = Append(calls, r)
       /\ o' = Add(r)
       /\ errs' = Remember(r)
       /\ pc' = IF r.ok THEN "loop" ELSE "done"
  /\ i' = i + BatchSize
  /\ UNCHANGED n

Publish ==
  /\ pc = "loop"
  /\ i < n
  /\ \E r \in Responses(Request) :
       /\ calls' = Append(calls, r)
       /\ o' = Add(r)
       /\ errs' = Remember(r)
  /\ i' = i + BatchSize
  /\ UNCHANGED <<n, pc>>

Return ==
  /\ pc = "loop"
  /\ i >= n
  /\ pc' = "done"
  /\ UNCHANGED <<n, i, calls, o, errs>>

Done == pc \in {"done", "refused"} /\ UNCHANGED vars

Next == Configure \/ Publish \/ Return \/ Done

Spec == Init /\ [][Next]_vars

-----------------------------------------------------------------------------
Calls == DOMAIN calls

\* An error of any call is returned in the end, whatever the calls after it
\* answer, and none is made up.
ErrorIsKept == errs <=> \E c \in Calls : ~calls[c].ok

\* When PublishFinding returns no error, every finding has been imported by
\* a call or is in the list of those that failed: nothing is lost without a
\* word, be the number of findings a multiple of the batch or not.
NothingLostSilently ==
  pc = "done" /\ ~errs =>
    \A f \in Finding :
      \/ \E c \in Calls : f \in calls[c].sent \ calls[c].failed
      \/ o.FailedFindings[f] > 0

\* The entries of the list of failed findings, and what the calls that the
\* service answered have sent.
Entries  == UNION {{f} \X (1..o.FailedFindings[f]) : f \in Finding}
Answered == UNION {{c} \X calls[c].sent : c \in {d \in Calls : calls[d].ok}}

\* The counts that print reports are those of the responses, and the list
\* it prints below them has as many entries as the count announces.
CountsAgree ==
  /\ o.FailedCount = Cardinality(Entries)
  /\ o.SuccessCount + o.FailedCount = Cardinality(Answered)

\* An error of one call does not keep the rest from being sent: there is a
\* call for every batch, the last of them not full.
EveryBatchIsTried ==
  pc = "done" =>
    /\ BatchSize * Len(calls) >= n
    /\ BatchSize * Len(calls) < n + BatchSize

\* "Split the slice into batches of 100 finding.": no call sends more.
SentInBatches == \A c \in Calls : Cardinality(calls[c].sent) <= BatchSize
=============================================================================
