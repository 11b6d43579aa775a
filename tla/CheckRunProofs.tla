--------------------------- MODULE CheckRunProofs ---------------------------
(***************************************************************************)
(* Proofs about CheckRun, for all checks and whatever the commands print.  *)
(***************************************************************************)
EXTENDS CheckRun, SequenceTheorems, ProofLemmas

\* The program counters behind each audit: the audit has ended well there.
AfterEnv     == {"auditCommand", "auditConfig", "onCommand", "onConfig",
                 "onEnv", "combine"}
AfterCommand == AfterEnv \ {"auditCommand"}
AfterConfig  == AfterCommand \ {"auditConfig"}

Fine(s) ==
  s \in check.audits =>
    \/ outcome[s] = "ok"
    \/ /\ s = "auditConfig"
       /\ outcome[s] = "missing"
       /\ \E other \in {"auditCommand", "auditEnv"} : output[other] # <<>>

AllFine == \A s \in Sources : Fine(s)

\* The verdict is only given at the end, to a check with test items that no
\* early return has taken; at the end there is an error, or all the audits are
\* fine and there is a result.
IInv ==
  /\ check \in Checks
  /\ outcome \in [Sources -> Outcomes \cup {"none"}]
  /\ DOMAIN output = Sources
  /\ pc # "done" => state = ""
  /\ pc \notin {"start", "done"} =>
       ~Untested(check) /\ check.type \notin {"skip", "manual"}
  /\ pc \in AfterEnv => Fine("auditEnv")
  /\ pc \in AfterCommand => Fine("auditCommand")
  /\ pc \in AfterConfig => Fine("auditConfig")
  /\ final \in {"nil", "true", "false"}
  /\ pc = "conclude" => err # "" \/ (final # "nil" /\ AllFine)
  /\ state = "PASS" => AllFine

LEMMA InitIInv == Init => IInv
BY DEF Init, IInv, AfterEnv, AfterCommand, AfterConfig

\* Up to the audits nothing is known of their outcome, and nothing is needed.
LEMMA EarlyIInv == IInv /\ (EarlyReturn \/ StartAudits) => IInv'
<1> SUFFICES ASSUME IInv, EarlyReturn \/ StartAudits PROVE IInv'
  OBVIOUS
<1>1. CASE EarlyReturn
  <2>1. /\ pc' = "done" /\ state' # "PASS"
        /\ UNCHANGED <<check, output, outcome, final>>
    BY <1>1 DEF EarlyReturn, WarnIncomplete, Skip, WarnManual, NoTestsDefined,
                Return, Goto, NotPassed, auditVars
  <2> QED
    BY <2>1 DEF IInv, AfterEnv, AfterCommand, AfterConfig
<1>2. CASE StartAudits
  <2>1. /\ pc' = "auditEnv"
        /\ ~Untested(check) /\ check.type \notin {"skip", "manual"}
        /\ state = ""
        /\ UNCHANGED <<check, output, outcome, final, state>>
    BY <1>2 DEF StartAudits, Goto, auditVars, endVars, IInv
  <2> QED
    BY <2>1 DEF IInv, AfterEnv, AfterCommand, AfterConfig, Untested
<1> QED
  BY <1>1, <1>2

\* An audit that ends badly leads to the end with an error.
LEMMA AuditIInv == IInv /\ Audit => IInv'
<1> SUFFICES ASSUME IInv, Audit PROVE IInv'
  OBVIOUS
<1>1. /\ check' = check /\ final' = final /\ state' = state
      /\ pc \in {"auditEnv", "auditCommand", "auditConfig"}
      /\ state = ""
      /\ ~Untested(check) /\ check.type \notin {"skip", "manual"}
  BY DEF Audit, RunAuditEnv, RunAuditCommand, RunAuditConfig, endVars, IInv
<1>2. Untested(check)' = Untested(check)
  BY <1>1 DEF Untested
<1>3. ASSUME NEW s \in Sources, NEW o \in Outcomes, NEW out,
             RunAudit(s, o, out)
      PROVE  /\ outcome' \in [Sources -> Outcomes \cup {"none"}]
             /\ DOMAIN output' = Sources
             /\ o = "ok" => Fine(s)'
             /\ o # "ok" => err' # ""
  <2>1. outcome' = [outcome EXCEPT ![s] = o] /\ output' = [output EXCEPT ![s] = out]
    BY <1>3 DEF RunAudit
  <2>2. err' = IF o = "ok" THEN "" ELSE o
    BY <1>3 DEF RunAudit
  <2>3. outcome'[s] = o
    BY <2>1 DEF IInv
  <2> QED
    BY <2>1, <2>2, <2>3 DEF IInv, Fine, Outcomes
<1>4. CASE RunAuditEnv
  <2>1. PICK o \in Outcomes, out \in Outputs(check, "auditEnv") :
          /\ RunAudit("auditEnv", o, out)
          /\ pc' = IF o = "ok" THEN "auditCommand" ELSE "conclude"
    BY <1>4 DEF RunAuditEnv, Goto
  <2> QED
    BY <1>1, <1>2, <1>3, <2>1
    DEF IInv, AfterEnv, AfterCommand, AfterConfig, Sources
<1>5. CASE RunAuditCommand
  <2>1. PICK o \in Outcomes, out \in Outputs(check, "auditCommand") :
          /\ RunAudit("auditCommand", o, out)
          /\ pc' = IF o = "ok" THEN "auditConfig" ELSE "conclude"
    BY <1>5 DEF RunAuditCommand, Goto
  <2>2. Fine("auditEnv")'
    <3>1. Fine("auditEnv")
      BY <1>5 DEF RunAuditCommand, IInv, AfterEnv
    <3>2. outcome'["auditEnv"] = outcome["auditEnv"]
      BY <2>1 DEF RunAudit, IInv, Sources
    <3> QED
      BY <1>1, <3>1, <3>2 DEF Fine
  <2> QED
    BY <1>1, <1>2, <1>3, <2>1, <2>2
    DEF IInv, AfterEnv, AfterCommand, AfterConfig, Sources
<1>6. CASE RunAuditConfig
  <2>1. Fine("auditEnv") /\ Fine("auditCommand")
    BY <1>6 DEF RunAuditConfig, IInv, AfterEnv, AfterCommand
  <2>2. Fine("auditEnv")' /\ Fine("auditCommand")'
    <3>1. /\ outcome'["auditEnv"] = outcome["auditEnv"]
          /\ outcome'["auditCommand"] = outcome["auditCommand"]
      BY <1>6 DEF RunAuditConfig, RunAudit, IInv, Sources
    <3> QED
      BY <1>1, <2>1, <3>1 DEF Fine
  <2>3. CASE \E o \in Outcomes, out \in Outputs(check, "auditConfig") :
               /\ RunAudit("auditConfig", o, out)
               /\ pc' = IF o = "ok" THEN "onCommand" ELSE "conclude"
    BY <1>1, <1>2, <1>3, <2>2, <2>3
    DEF IInv, AfterEnv, AfterCommand, AfterConfig, Sources
  <2>4. CASE /\ Excused("missing")
             /\ outcome' = [outcome EXCEPT !["auditConfig"] = "missing"]
             /\ pc' = "onCommand"
             /\ UNCHANGED <<output, err>>
    <3>1. outcome' \in [Sources -> Outcomes \cup {"none"}]
      BY <2>4 DEF IInv, Outcomes
    <3>2. outcome'["auditConfig"] = "missing"
      BY <2>4 DEF IInv, Sources
    <3>3. Fine("auditConfig")'
      BY <1>1, <2>4, <3>2 DEF Fine, Excused
    <3> QED
      BY <1>1, <1>2, <2>2, <2>4, <3>1, <3>3
      DEF IInv, AfterEnv, AfterCommand, AfterConfig
  <2> QED
    BY <1>6, <2>3, <2>4 DEF RunAuditConfig, Goto
<1> QED
  BY <1>4, <1>5, <1>6 DEF Audit

\* The evaluation of the items touches no outcome; it ends in a result.
LEMMA EvaluateIInv == IInv /\ Evaluate => IInv'
<1> SUFFICES ASSUME IInv, Evaluate PROVE IInv'
  OBVIOUS
<1>1. check' = check /\ output' = output /\ outcome' = outcome
  BY DEF Evaluate, TryCommand, TryConfig, TryEnv, Combine, Conclude, auditVars
<1>2. /\ Untested(check)' = Untested(check)
      /\ \A s : Fine(s)' = Fine(s)
      /\ AllFine' = AllFine
  BY <1>1 DEF Untested, Fine, AllFine
<1>3. CASE TryCommand \/ TryConfig \/ TryEnv
  <2>1. /\ pc \in {"onCommand", "onConfig", "onEnv"}
        /\ pc' \in {"onCommand", "onConfig", "onEnv", "combine"}
        /\ final' = final /\ state' = state
    BY <1>3 DEF TryCommand, TryConfig, TryEnv, Goto, endVars
  <2> QED
    BY <1>1, <1>2, <2>1 DEF IInv, AfterEnv, AfterCommand, AfterConfig
<1>4. CASE Combine
  <2>1. /\ pc = "combine" /\ pc' = "conclude"
        /\ final' \in {"true", "false"} /\ state' = state
    BY <1>4 DEF Combine, Goto
  <2>2. AllFine
    BY <2>1 DEF IInv, AfterEnv, AfterCommand, AfterConfig, AllFine, Sources
  <2> QED
    BY <1>1, <1>2, <2>1, <2>2 DEF IInv, AfterEnv, AfterCommand, AfterConfig
<1>5. CASE Conclude
  <2>1. /\ pc = "conclude" /\ pc' = "done" /\ final' = final
        /\ state' = "PASS" => err = ""
    BY <1>5 DEF Conclude, Goto, NotPassed, auditVars
  <2> QED
    BY <1>1, <1>2, <2>1 DEF IInv, AfterEnv, AfterCommand, AfterConfig
<1> QED
  BY <1>3, <1>4, <1>5 DEF Evaluate

LEMMA InvariantHolds == Spec => []IInv
<1>1. IInv /\ UNCHANGED vars => IInv'
  <2> SUFFICES ASSUME IInv, UNCHANGED vars PROVE IInv'
    OBVIOUS
  <2>1. UNCHANGED <<check, pc, output, outcome, err, final, state>>
    BY DEF vars
  <2>2. /\ Untested(check)' = Untested(check)
        /\ \A s : Fine(s)' = Fine(s)
        /\ AllFine' = AllFine
    BY <2>1 DEF Untested, Fine, AllFine
  <2> QED
    BY <2>1, <2>2 DEF IInv
<1>2. IInv /\ [Next]_vars => IInv'
  BY <1>1, EarlyIInv, AuditIInv, EvaluateIInv DEF Next, Done
<1> QED
  BY InitIInv, <1>2, PTL DEF Spec

\* No check passes over a command that failed, whatever the commands of the
\* node print: all of them have ended well, but for a missing configuration
\* file that another output makes up for.
THEOREM PassIsAudited == Spec => []PassNeedsAudits
<1>1. IInv => PassNeedsAudits
  BY AuditsAssumption DEF IInv, PassNeedsAudits, AllFine, Fine
<1> QED
  BY InvariantHolds, <1>1, PTL

\* Each step of run is a step of CheckVerdict or leaves it where it was.
LEMMA StepRefines == IInv /\ [Next]_vars => [V!Decide]_<<check, state>>
<1> SUFFICES ASSUME IInv, [Next]_vars PROVE [V!Decide]_<<check, state>>
  OBVIOUS
<1>1. CASE EarlyReturn
  <2>1. state = "" /\ check' = check
    BY <1>1 DEF EarlyReturn, WarnIncomplete, Skip, WarnManual, NoTestsDefined,
                Return, IInv
  <2>2. state' \in V!Allowed(check)
    BY <1>1 DEF EarlyReturn, WarnIncomplete, Skip, WarnManual, NoTestsDefined,
                Return, Incomplete, Untested, NotPassed,
                V!Allowed, V!Incomplete, V!Untested, V!NotPassed
  <2> QED
    BY <2>1, <2>2 DEF V!Decide
<1>2. CASE Conclude
  <2>1. /\ state = "" /\ check' = check
        /\ ~Untested(check) /\ check.type \notin {"skip", "manual"}
    BY <1>2 DEF Conclude, IInv
  <2>2. state' \in {"PASS", NotPassed(check)}
    BY <1>2 DEF Conclude, IInv
  <2>3. state' \in V!Allowed(check)
    BY <2>1, <2>2 DEF Untested, NotPassed,
                V!Allowed, V!Incomplete, V!Untested, V!NotPassed
  <2> QED
    BY <2>1, <2>3 DEF V!Decide
<1>3. CASE ~EarlyReturn /\ ~Conclude
  <2>1. UNCHANGED <<check, state>>
    BY <1>3 DEF Next, StartAudits, Audit, RunAuditEnv, RunAuditCommand,
                RunAuditConfig, Evaluate, TryCommand, TryConfig, TryEnv,
                Combine, Done, endVars, vars
  <2> QED
    BY <2>1
<1> QED
  BY <1>1, <1>2, <1>3

\* Check.run, with all its audits, fallbacks and error paths, implements the
\* contract: one final verdict, that the description of the check leaves open.
THEOREM RunImplementsVerdict == Spec => ImplementsVerdict
<1>1. Init => V!Init
  BY DEF Init, V!Init
<1> QED
  BY <1>1, InvariantHolds, StepRefines, PTL DEF Spec, ImplementsVerdict, V!Spec

-----------------------------------------------------------------------------
(* What a verdict rests on: the rows of the outputs, and the reasons run    *)
(* gives.                                                                  *)

LEMMA HoldsBoolean ==
  ASSUME NEW t, NEW r
  PROVE  Holds(t, r) \in BOOLEAN /\ Found(r) \in BOOLEAN
<1>1. CASE r = "error"
  BY <1>1 DEF Holds, Found
<1>2. CASE r # "error" /\ t.set /\ t.compares
  <2>1. Holds(t, r) = (r = "good")
    BY <1>2 DEF Holds
  <2> QED
    BY <2>1 DEF Found
<1>3. CASE r # "error" /\ t.set /\ ~t.compares
  <2>1. Holds(t, r) = Found(r)
    BY <1>3 DEF Holds
  <2> QED
    BY <2>1 DEF Found
<1>4. CASE r # "error" /\ ~t.set
  <2>1. Holds(t, r) = ~Found(r)
    BY <1>4 DEF Holds
  <2> QED
    BY <2>1 DEF Found
<1> QED
  BY <1>1, <1>2, <1>3, <1>4

Rows(out) == Len(out) \in Nat /\ DOMAIN out = 1..Len(out)

\* execute passes an item only if it holds in every row of the source; what
\* it returns is a result.
LEMMA ExecuteHolds ==
  ASSUME NEW c, NEW i, NEW s \in Sources, NEW out, Rows(out)
  PROVE  /\ Execute(c, i, s, out) \in Results
         /\ Execute(c, i, s, out).passed =>
              \A k \in DOMAIN RowsRead(c, out) :
                Holds(c.items[i], FindValue(c.items[i], i, s, RowsRead(c, out)[k]))
<1> DEFINE t       == c.items[i]
           rows    == RowsRead(c, out)
           at(k)   == FindValue(t, i, s, rows[k])
           failing == {k \in DOMAIN rows : ~Holds(t, at(k))}
           last    == IF failing = {} THEN Len(rows)
                      ELSE CHOOSE k \in failing : \A h \in failing : k <= h
<1>1. Execute(c, i, s, out)
        = [used |-> s, passed |-> Holds(t, at(last)), found |-> Found(at(last))]
  BY DEF Execute
<1> HIDE DEF at, last
<1>2. Holds(t, at(last)) \in BOOLEAN /\ Found(at(last)) \in BOOLEAN
  BY HoldsBoolean
<1>3. DOMAIN rows \subseteq Nat
  BY DEF RowsRead, Rows
<1>4. ASSUME failing # {} PROVE ~Holds(t, at(last))
  <2>1. \E x \in failing : \A y \in failing : x <= y
    BY <1>3, <1>4, LeastExists
  <2>2. last \in failing
    BY <1>4, <2>1 DEF last
  <2> QED
    BY <2>2
<1> QED
  BY <1>1, <1>2, <1>4 DEF Results, at

-----------------------------------------------------------------------------
(* The inductive invariant.  A result that passes has an output of which    *)
(* every row holds, from the first source that is tried to the last; so has *)
(* the list of the results, and the verdict.                                *)
Backed(i, r) == r.passed => \E s \in Asked(i) : EveryRowHolds(i, s)

Operator == check.binOp \in {"and", "or", ""}

Evident ==
  /\ Operator
  /\ IF check.binOp = "or"
     THEN \E i \in DOMAIN check.items : \E s \in Asked(i) : EveryRowHolds(i, s)
     ELSE \A i \in DOMAIN check.items : \E s \in Asked(i) : EveryRowHolds(i, s)

Early == {"start", "auditEnv", "auditCommand", "auditConfig"}

Explained ==
  /\ final # "nil"
  /\ Len(res) = Len(check.items)
  /\ Operator
  /\ outcome["auditCommand"] = "ok"

Ends ==
  /\ pc = "combine" => Len(res) = Len(check.items)
  /\ final = "true" => Evident
  /\ state = "PASS" => final = "true"
  /\ pc \in AfterCommand => outcome["auditCommand"] = "ok"
  /\ pc = "conclude" => err # "" \/ Explained
  /\ pc = "done" => reason # "" \/ Explained

Backing ==
  /\ \A s \in Sources : Rows(output[s])
  /\ pc \in Early => res = <<>> /\ final = "nil"
  /\ res \in Seq(Results)
  /\ pc \in {"onCommand", "onConfig", "onEnv"} => final = "nil"
  /\ pc \in {"onConfig", "onEnv"} =>
       Item \in DOMAIN check.items /\ result \in Results /\ Backed(Item, result)
  /\ pc = "onCommand" => Len(res) <= Len(check.items)
  /\ \A i \in DOMAIN res : i \in DOMAIN check.items /\ Backed(i, res[i])
  /\ Ends

\* The items are a sequence, and every output is one of rows.
LEMMA ItemTypes ==
  ASSUME check \in Checks
  PROVE  /\ Len(check.items) \in Nat
         /\ DOMAIN check.items = 1..Len(check.items)
<1>1. check.items \in Seq([set : BOOLEAN, compares : BOOLEAN, names : SUBSET Sources])
  BY RowsAssumption
<1> QED
  BY <1>1, LenProperties

LEMMA OutputRows ==
  ASSUME check \in Checks, NEW s \in Sources, NEW out \in Outputs(check, s)
  PROVE  Rows(out)
<1>1. out \in Seq([DOMAIN check.items -> Readings])
  BY RowsAssumption
<1> QED
  BY <1>1, LenProperties DEF Rows

LEMMA ResTypes ==
  ASSUME res \in Seq(Results)
  PROVE  Len(res) \in Nat /\ DOMAIN res = 1..Len(res)
BY LenProperties

LEMMA NoRows == Rows(<<>>) /\ DOMAIN <<>> = {} /\ Len(<<>>) = 0
<1>1. Len(<<>>) = 0 /\ DOMAIN <<>> = {}
  OBVIOUS
<1>2. 1..0 = {}
  OBVIOUS
<1> QED
  BY <1>1, <1>2 DEF Rows

LEMMA InitBacking == Init => Backing
<1> SUFFICES ASSUME Init PROVE Backing
  OBVIOUS
<1>1. \A s \in Sources : Rows(output[s])
  <2>1. \A s \in Sources : output[s] = <<>>
    BY DEF Init
  <2> QED
    BY <2>1, NoRows
<1>2. res = <<>> /\ res \in Seq(Results) /\ DOMAIN res = {}
  <2>1. res = <<>>
    BY DEF Init
  <2> QED
    BY <2>1, NoRows, EmptySeq
<1>3. pc = "start" /\ final = "nil" /\ state = ""
  BY DEF Init
<1> QED
  BY <1>1, <1>2, <1>3 DEF Backing, Ends, Early, AfterCommand, AfterEnv

\* Up to the end of the audits there is neither a result nor a verdict but
\* that of an early return, which has its reason.
LEMMA EarlyBacking == IInv /\ Backing /\ (EarlyReturn \/ StartAudits) => Backing'
<1> SUFFICES ASSUME IInv, Backing, EarlyReturn \/ StartAudits PROVE Backing'
  OBVIOUS
<1>1. /\ check' = check /\ output' = output /\ res' = res /\ final' = final
      /\ pc = "start" /\ pc' \in {"auditEnv", "done"}
      /\ pc' = "done" => reason' # ""
      /\ state' # "PASS"
  BY DEF EarlyReturn, WarnIncomplete, Skip, WarnManual, NoTestsDefined, StartAudits,
         Return, Goto, NotPassed, auditVars, itemVars, endVars, IInv
<1>2. res = <<>> /\ final = "nil" /\ DOMAIN res = {}
  <2>1. res = <<>> /\ final = "nil"
    BY <1>1 DEF Backing, Early
  <2> QED
    BY <2>1, NoRows
<1> QED
  BY <1>1, <1>2 DEF Backing, Ends, Early, AfterCommand, AfterEnv

LEMMA AuditBacking == IInv /\ Backing /\ Audit => Backing'
<1> SUFFICES ASSUME IInv, Backing, Audit PROVE Backing'
  OBVIOUS
<1>1. /\ check' = check /\ res' = res /\ final' = final /\ state' = state
      /\ pc \in {"auditEnv", "auditCommand", "auditConfig"}
      /\ pc' \in {"auditCommand", "auditConfig", "onCommand", "conclude"}
      /\ check \in Checks /\ state = ""
  BY DEF Audit, RunAuditEnv, RunAuditCommand, RunAuditConfig, Goto, itemVars,
         endVars, IInv
<1>2. res = <<>> /\ final = "nil" /\ DOMAIN res = {} /\ Len(res) = 0
  <2>1. res = <<>> /\ final = "nil"
    BY <1>1 DEF Backing, Early
  <2> QED
    BY <2>1, NoRows
<1>3. ASSUME NEW s \in Sources, NEW o \in Outcomes, NEW out \in Outputs(check, s),
             RunAudit(s, o, out)
      PROVE  /\ \A t \in Sources : Rows(output'[t])
             /\ o # "ok" => err' # ""
             /\ outcome'[s] = o
             /\ \A t \in Sources \ {s} : outcome'[t] = outcome[t]
  <2>1. /\ output' = [output EXCEPT ![s] = out]
        /\ outcome' = [outcome EXCEPT ![s] = o]
        /\ err' = IF o = "ok" THEN "" ELSE o
    BY <1>3 DEF RunAudit
  <2>2. Rows(out)
    BY <1>1, OutputRows
  <2>3. \A t \in Sources : Rows(output'[t])
    BY <2>1, <2>2 DEF Backing, IInv
  <2> QED
    BY <2>1, <2>3 DEF IInv, Outcomes
<1>4. CASE RunAuditEnv
  <2>1. PICK o \in Outcomes, out \in Outputs(check, "auditEnv") :
          /\ RunAudit("auditEnv", o, out)
          /\ pc' = IF o = "ok" THEN "auditCommand" ELSE "conclude"
    BY <1>4 DEF RunAuditEnv, Goto
  <2>2. \A t \in Sources : Rows(output'[t])
    BY <1>3, <2>1 DEF Sources
  <2>3. pc' = "conclude" => err' # ""
    BY <1>3, <2>1 DEF Sources
  <2> QED
    BY <1>1, <1>2, <2>1, <2>2, <2>3
    DEF Backing, Ends, Early, AfterCommand, AfterEnv
<1>5. CASE RunAuditCommand
  <2>1. PICK o \in Outcomes, out \in Outputs(check, "auditCommand") :
          /\ RunAudit("auditCommand", o, out)
          /\ pc' = IF o = "ok" THEN "auditConfig" ELSE "conclude"
    BY <1>5 DEF RunAuditCommand, Goto
  <2>2. \A t \in Sources : Rows(output'[t])
    BY <1>3, <2>1 DEF Sources
  <2>3. pc' = "conclude" => err' # ""
    BY <1>3, <2>1 DEF Sources
  <2>4. pc' = "auditConfig" => outcome'["auditCommand"] = "ok"
    BY <1>3, <2>1 DEF Sources
  <2> QED
    BY <1>1, <1>2, <2>1, <2>2, <2>3, <2>4
    DEF Backing, Ends, Early, AfterCommand, AfterEnv
<1>6. CASE RunAuditConfig
  <2>1. pc = "auditConfig" /\ outcome["auditCommand"] = "ok"
    BY <1>6 DEF RunAuditConfig, Backing, Ends, AfterCommand, AfterEnv
  <2>2. CASE \E o \in Outcomes, out \in Outputs(check, "auditConfig") :
               /\ RunAudit("auditConfig", o, out)
               /\ pc' = IF o = "ok" THEN "onCommand" ELSE "conclude"
    <3>1. PICK o \in Outcomes, out \in Outputs(check, "auditConfig") :
               /\ RunAudit("auditConfig", o, out)
               /\ pc' = IF o = "ok" THEN "onCommand" ELSE "conclude"
      BY <2>2
    <3>2. /\ \A t \in Sources : Rows(output'[t])
          /\ outcome'["auditCommand"] = "ok"
          /\ pc' = "conclude" => err' # ""
      BY <1>3, <2>1, <3>1 DEF Sources
    <3>3. 0 <= Len(check.items)
      <4>1. Len(check.items) \in Nat
        BY <1>1, ItemTypes
      <4> QED
        BY <4>1
    <3> QED
      BY <1>1, <1>2, <3>1, <3>2, <3>3
      DEF Backing, Ends, Early, AfterCommand, AfterEnv
  <2>3. CASE /\ outcome' = [outcome EXCEPT !["auditConfig"] = "missing"]
             /\ pc' = "onCommand"
             /\ output' = output
    <3>1. outcome'["auditCommand"] = "ok"
      BY <2>1, <2>3 DEF IInv, Sources
    <3>2. 0 <= Len(check.items)
      <4>1. Len(check.items) \in Nat
        BY <1>1, ItemTypes
      <4> QED
        BY <4>1
    <3> QED
      BY <1>1, <1>2, <2>3, <3>1, <3>2
      DEF Backing, Ends, Early, AfterCommand, AfterEnv
  <2> QED
    BY <1>6, <2>2, <2>3 DEF RunAuditConfig, Goto
<1> QED
  BY <1>4, <1>5, <1>6 DEF Audit

\* What an item is tried on backs the result.
LEMMA TriedIsBacked ==
  ASSUME Backing, NEW i, NEW s \in Asked(i)
  PROVE  /\ Execute(check, i, s, output[s]) \in Results
         /\ Backed(i, Execute(check, i, s, output[s]))
<1>1. s \in Sources
  BY DEF Asked
<1>2. Rows(output[s])
  BY <1>1 DEF Backing
<1>3. /\ Execute(check, i, s, output[s]) \in Results
      /\ Execute(check, i, s, output[s]).passed => EveryRowHolds(i, s)
  BY <1>1, <1>2, ExecuteHolds DEF EveryRowHolds, RowsOf, Reading
<1> QED
  BY <1>3 DEF Backed

\* The evaluation changes neither the outputs nor what may be asked of them.
LEMMA SameOutputs ==
  ASSUME check' = check, output' = output
  PROVE  /\ \A i, r : Backed(i, r)' <=> Backed(i, r)
         /\ Evident' <=> Evident
         /\ Operator' <=> Operator
<1>1. \A i : Asked(i)' = Asked(i)
  BY DEF Asked
<1>2. \A i, s : EveryRowHolds(i, s)' <=> EveryRowHolds(i, s)
  BY DEF EveryRowHolds, RowsOf, Reading
<1>3. Operator' <=> Operator
  BY DEF Operator
<1>4. Evident' <=> Evident
  BY <1>1, <1>2, <1>3 DEF Evident
<1>5. \A i, r : Backed(i, r)' <=> Backed(i, r)
  BY <1>1, <1>2 DEF Backed
<1> QED
  BY <1>3, <1>4, <1>5

LEMMA TryBacking ==
  IInv /\ Backing /\ (TryCommand \/ TryConfig) => Backing'
<1> SUFFICES ASSUME IInv, Backing, TryCommand \/ TryConfig PROVE Backing'
  OBVIOUS
<1>1. /\ check' = check /\ output' = output /\ outcome' = outcome
      /\ res' = res /\ final' = final /\ state' = state
      /\ pc \in {"onCommand", "onConfig"} /\ pc' \in {"onConfig", "onEnv"}
  BY DEF TryCommand, TryConfig, Goto, auditVars, endVars
<1>2. /\ \A i, r : Backed(i, r)' <=> Backed(i, r)
      /\ Evident' <=> Evident
  BY <1>1, SameOutputs
<1>3. Len(res) \in Nat /\ DOMAIN res = 1..Len(res)
  BY ResTypes DEF Backing
<1>4. /\ check \in Checks
      /\ Len(check.items) \in Nat /\ DOMAIN check.items = 1..Len(check.items)
  BY ItemTypes DEF IInv
<1>5. Item' = Item /\ Item \in DOMAIN check.items /\ result' \in Results
      /\ Backed(Item, result')
  <2>1. CASE TryCommand
    <3>1. "auditCommand" \in Asked(Item)
      BY DEF Asked, Sources
    <3>2. Item <= Len(check.items)
          /\ result' = Execute(check, Item, "auditCommand", output["auditCommand"])
      BY <2>1 DEF TryCommand
    <3> QED
      BY <1>1, <1>3, <1>4, <3>1, <3>2, TriedIsBacked DEF Item
  <2>2. CASE TryConfig
    <3>1. Item \in DOMAIN check.items /\ result \in Results /\ Backed(Item, result)
      BY <2>2 DEF TryConfig, Backing
    <3>2. CASE UseConfig
      <4>1. "auditConfig" \in Asked(Item)
        BY <3>2 DEF Asked, Sources, UseConfig
      <4>2. result' = Execute(check, Item, "auditConfig", output["auditConfig"])
        BY <2>2, <3>2 DEF TryConfig
      <4> QED
        BY <1>1, <3>1, <4>1, <4>2, TriedIsBacked DEF Item
    <3>3. CASE ~UseConfig
      BY <1>1, <2>2, <3>1, <3>3 DEF TryConfig, Item
    <3> QED
      BY <3>2, <3>3
  <2> QED
    BY <2>1, <2>2
<1>6. Item' \in DOMAIN check'.items /\ Backed(Item, result)'
  BY <1>1, <1>2, <1>5 DEF Backed, Item, Asked, EveryRowHolds, RowsOf, Reading
<1>7. final = "nil" /\ (\A i \in DOMAIN res : i \in DOMAIN check.items /\ Backed(i, res[i]))
      /\ (\A s \in Sources : Rows(output[s])) /\ res \in Seq(Results)
      /\ outcome["auditCommand"] = "ok"
      /\ (state = "PASS" => final = "true")
  BY <1>1 DEF Backing, Ends, AfterCommand, AfterEnv
<1>8. Ends'
  BY <1>1, <1>7 DEF Ends
<1>9. \A i \in DOMAIN res' : i \in DOMAIN check'.items /\ Backed(i, res[i])'
  BY <1>1, <1>2, <1>7
<1> QED
  BY <1>1, <1>5, <1>6, <1>7, <1>8, <1>9 DEF Backing, Early

LEMMA TryEnvBacking == IInv /\ Backing /\ TryEnv => Backing'
<1> SUFFICES ASSUME IInv, Backing, TryEnv PROVE Backing'
  OBVIOUS
<1> DEFINE r == IF UseEnv THEN Execute(check, Item, "auditEnv", output["auditEnv"])
                ELSE result
<1>1. /\ check' = check /\ output' = output /\ outcome' = outcome
      /\ final' = final /\ state' = state
      /\ pc = "onEnv" /\ pc' = IF Item < Len(check.items) THEN "onCommand" ELSE "combine"
      /\ res' = Append(res, r)
  BY DEF TryEnv, Goto, auditVars, endVars
<1>2. \A i, q : Backed(i, q)' <=> Backed(i, q)
  BY <1>1, SameOutputs
<1>3. res \in Seq(Results) /\ Len(res) \in Nat /\ DOMAIN res = 1..Len(res)
  BY ResTypes DEF Backing
<1>4. Len(check.items) \in Nat /\ DOMAIN check.items = 1..Len(check.items)
  BY ItemTypes DEF IInv
<1>5. Item \in DOMAIN check.items /\ result \in Results /\ Backed(Item, result)
  BY <1>1 DEF Backing
<1>6. r \in Results /\ Backed(Item, r)
  <2>1. CASE UseEnv
    <3>1. "auditEnv" \in Asked(Item)
      BY <2>1 DEF Asked, Sources, UseEnv
    <3>2. r = Execute(check, Item, "auditEnv", output["auditEnv"])
      BY <2>1
    <3> QED
      BY <3>1, <3>2, TriedIsBacked
  <2>2. CASE ~UseEnv
    BY <1>5, <2>2
  <2> QED
    BY <2>1, <2>2
<1> HIDE DEF r
<1>7. /\ res' \in Seq(Results) /\ Len(res') = Len(res) + 1
      /\ DOMAIN res' = 1..(Len(res) + 1)
      /\ res'[Len(res) + 1] = r
      /\ \A i \in 1..Len(res) : res'[i] = res[i]
  BY <1>1, <1>3, <1>6, AppendProperties
<1>8. ASSUME NEW i \in DOMAIN res'
      PROVE  i \in DOMAIN check.items /\ Backed(i, res'[i])
  <2>1. CASE i \in 1..Len(res)
    <3>1. i \in DOMAIN check.items /\ Backed(i, res[i])
      BY <1>3, <2>1 DEF Backing
    <3> QED
      BY <1>7, <2>1, <3>1
  <2>2. CASE i = Len(res) + 1
    BY <1>5, <1>6, <1>7, <2>2 DEF Item
  <2>3. i \in 1..Len(res) \/ i = Len(res) + 1
    BY <1>3, <1>7, <1>8
  <2> QED
    BY <2>1, <2>2, <2>3
<1>9. /\ pc' = "onCommand" => Len(res') <= Len(check.items)
      /\ pc' = "combine" => Len(res') = Len(check.items)
  <2>1. Item = Len(res) + 1 /\ Item <= Len(check.items)
    BY <1>4, <1>5 DEF Item
  <2> QED
    BY <1>1, <1>3, <1>4, <1>7, <2>1
<1>10. /\ final = "nil" /\ outcome["auditCommand"] = "ok"
       /\ (\A s \in Sources : Rows(output[s]))
       /\ (state = "PASS" => final = "true")
       /\ pc' \in {"onCommand", "combine"}
  BY <1>1 DEF Backing, Ends, AfterCommand, AfterEnv
<1>11. Ends'
  BY <1>1, <1>9, <1>10 DEF Ends
<1>12. \A i \in DOMAIN res' : i \in DOMAIN check'.items /\ Backed(i, res[i])'
  <2>1. \A i : Backed(i, res[i])' <=> (res'[i].passed => \E s \in Asked(i) : EveryRowHolds(i, s))
    BY <1>1 DEF Backed, Asked, EveryRowHolds, RowsOf, Reading
  <2> QED
    BY <1>1, <1>8, <2>1 DEF Backed
<1> QED
  BY <1>1, <1>7, <1>9, <1>10, <1>11, <1>12 DEF Backing, Early

LEMMA EndBacking == IInv /\ Backing /\ (Combine \/ Conclude) => Backing'
<1> SUFFICES ASSUME IInv, Backing, Combine \/ Conclude PROVE Backing'
  OBVIOUS
<1>1. /\ check' = check /\ output' = output /\ outcome' = outcome /\ res' = res
      /\ pc \in {"combine", "conclude"} /\ pc' \in {"conclude", "done"}
  BY DEF Combine, Conclude, Goto, auditVars, itemVars
<1>2. /\ Evident' <=> Evident
      /\ Operator' <=> Operator
  BY <1>1, SameOutputs
<1>3. /\ \A s \in Sources : Rows(output[s])
      /\ res \in Seq(Results)
      /\ \A i \in DOMAIN res : i \in DOMAIN check.items /\ Backed(i, res[i])
  BY DEF Backing
<1>4. \A i \in DOMAIN res' : i \in DOMAIN check'.items /\ Backed(i, res[i])'
  BY <1>1, <1>3 DEF Backed, Asked, EveryRowHolds, RowsOf, Reading
<1>5. CASE Combine
  <2>1. /\ pc = "combine" /\ pc' = "conclude" /\ state' = state
        /\ final' = IF Joined THEN "true" ELSE "false"
        /\ err' = IF Operator THEN "" ELSE "binop"
    BY <1>5 DEF Combine, Goto, Operator
  <2>2. Len(res) = Len(check.items) /\ outcome["auditCommand"] = "ok"
    BY <2>1 DEF Backing, Ends, AfterCommand, AfterEnv
  <2>3. DOMAIN res = DOMAIN check.items
    <3>1. DOMAIN res = 1..Len(res) /\ DOMAIN check.items = 1..Len(check.items)
      BY <1>3, ResTypes, ItemTypes DEF IInv
    <3> QED
      BY <2>2, <3>1
  <2>4. ASSUME Joined PROVE Evident
    <3>1. CASE check.binOp = "or"
      <4>1. PICK i \in DOMAIN res : res[i].passed
        BY <2>4, <3>1 DEF Joined
      <4> QED
        BY <1>3, <3>1, <4>1 DEF Evident, Operator, Backed
    <3>2. CASE check.binOp \in {"and", ""}
      <4>1. \A i \in DOMAIN res : res[i].passed
        BY <2>4, <3>2 DEF Joined
      <4> QED
        BY <1>3, <2>3, <3>2, <4>1 DEF Evident, Operator, Backed
    <3>3. CASE check.binOp \notin {"and", "or", ""}
      BY <2>4, <3>3 DEF Joined
    <3> QED
      BY <3>1, <3>2, <3>3
  <2>5. state # "PASS"
    BY <2>1 DEF IInv
  <2>6. final' = "true" => Evident'
    BY <1>2, <2>1, <2>4
  <2>7. err' # "" \/ Explained'
    BY <1>1, <1>2, <2>1, <2>2 DEF Explained
  <2>8. Ends'
    BY <1>1, <2>1, <2>2, <2>5, <2>6, <2>7 DEF Ends
  <2> QED
    BY <1>1, <1>3, <1>4, <2>1, <2>8 DEF Backing, Early
<1>6. CASE Conclude
  <2>1. /\ pc = "conclude" /\ pc' = "done" /\ final' = final /\ err' = err
        /\ reason' = IF err # "" THEN err ELSE reason
        /\ state' = "PASS" => final = "true" \/ state = "PASS"
    BY <1>6 DEF Conclude, Goto, auditVars, NotPassed
  <2>2. Explained' <=> Explained
    BY <1>1, <1>2, <2>1 DEF Explained
  <2>3. reason' # "" \/ Explained
    BY <2>1 DEF Backing, Ends
  <2>4. state # "PASS"
    BY <2>1 DEF IInv
  <2>5. (final = "true" => Evident) /\ (pc \in AfterCommand => outcome["auditCommand"] = "ok")
    BY DEF Backing, Ends
  <2>6. Ends'
    BY <1>1, <1>2, <2>1, <2>2, <2>3, <2>4, <2>5 DEF Ends, AfterCommand, AfterEnv
  <2> QED
    BY <1>1, <1>3, <1>4, <2>1, <2>6 DEF Backing, Early
<1> QED
  BY <1>5, <1>6

LEMMA BackingHolds == Spec => [](IInv /\ Backing)
<1>1. IInv /\ Backing /\ UNCHANGED vars => Backing'
  <2> SUFFICES ASSUME Backing, UNCHANGED vars PROVE Backing'
    OBVIOUS
  <2>1. /\ check' = check /\ pc' = pc /\ output' = output /\ outcome' = outcome
        /\ err' = err /\ result' = result /\ res' = res /\ final' = final
        /\ state' = state /\ reason' = reason
    BY DEF vars
  <2>2. /\ Evident' <=> Evident
        /\ Operator' <=> Operator
    BY <2>1, SameOutputs
  <2>3. Ends'
    BY <2>1, <2>2 DEF Backing, Ends, Explained
  <2>4. /\ \A i \in DOMAIN res' : Backed(i, res[i])' <=> Backed(i, res[i])
        /\ Backed(Item, result)' <=> Backed(Item, result)
    BY <2>1 DEF Backed, Item, Asked, EveryRowHolds, RowsOf, Reading
  <2>5. \A i \in DOMAIN res' : i \in DOMAIN check'.items /\ Backed(i, res[i])'
    BY <2>1, <2>4 DEF Backing
  <2>6. pc' \in {"onConfig", "onEnv"} =>
          Item' \in DOMAIN check'.items /\ result' \in Results /\ Backed(Item, result)'
    BY <2>1, <2>4 DEF Backing, Item
  <2> QED
    BY <2>1, <2>3, <2>5, <2>6 DEF Backing
<1>2. IInv /\ Backing /\ [Next]_vars => Backing'
  BY <1>1, EarlyBacking, AuditBacking, TryBacking, TryEnvBacking, EndBacking
  DEF Next, Evaluate, Done
<1> QED
  BY InvariantHolds, InitBacking, <1>2, PTL DEF Spec

(***************************************************************************)
(* A check passes on evidence (Check.execute, testItem.execute): for every *)
(* item it needs there is a source that was asked and of whose output no   *)
(* row contradicts it, however many rows and items there are.              *)
(***************************************************************************)
THEOREM PassHasEvidence == Spec => []PassIsEvidenced
<1>1. IInv /\ Backing => PassIsEvidenced
  <2> SUFFICES ASSUME Backing, state = "PASS" PROVE PassIsEvidenced
    BY DEF PassIsEvidenced
  <2>1. Evident
    BY DEF Backing, Ends
  <2> QED
    BY <2>1 DEF PassIsEvidenced, Evident, Operator, ItemsJoined
<1> QED
  BY BackingHolds, <1>1, PTL

(***************************************************************************)
(* Check.run gives a reason, or it has evaluated every item and its audit  *)
(* ended well.                                                             *)
(***************************************************************************)
THEOREM VerdictHasReason == Spec => []VerdictExplained
<1>1. IInv /\ Backing => VerdictExplained
  BY DEF Backing, Ends, Explained, Operator, VerdictExplained
<1> QED
  BY BackingHolds, <1>1, PTL

-----------------------------------------------------------------------------
(* Plain items.  After each source that is tried, the result of a plain     *)
(* item says what the best of the sources tried so far says.                *)
Shown(i, s) == Found(Reading(i, s, 1))

Reads(i, r, T) ==
  Uniform(i) =>
    /\ r.found <=> \E s \in T : Shown(i, s)
    /\ r.passed <=> EveryRowHolds(i, Decider(i, T))

PlainVerdict == ItemsJoined(LAMBDA i : EveryRowHolds(i, Deciding(i)))

AllPlain == \A i \in DOMAIN check.items : Uniform(i)

Judged ==
  final # "nil" /\ Operator =>
    /\ AllPlain => (final = "true" <=> PlainVerdict)
    /\ pc = "conclude" => err = ""
    /\ pc = "done" => state = IF final = "true" THEN "PASS" ELSE NotPassed(check)

Plain ==
  /\ pc = "onConfig" => Reads(Item, result, {"auditCommand"})
  /\ pc = "onEnv" => Reads(Item, result, Asked(Item) \ {"auditEnv"})
  /\ \A i \in DOMAIN res : Reads(i, res[i], Asked(i))
  /\ Judged

\* What is read for a plain item is what the first row says, and execute
\* passes it exactly if it holds in every row.
LEMMA ExecuteReads ==
  ASSUME NEW c, NEW i, NEW s \in Sources, NEW R, NEW out \in Seq(R)
  PROVE  LET rows   == RowsRead(c, out)
             t      == c.items[i]
             at(k)  == FindValue(t, i, s, rows[k])
             r      == Execute(c, i, s, out)
         IN  /\ 1 \in DOMAIN rows
             /\ r.passed <=> \A k \in DOMAIN rows : Holds(t, at(k))
             /\ \E k \in DOMAIN rows : r.found = Found(at(k))
<1> DEFINE t       == c.items[i]
           rows    == RowsRead(c, out)
           at(k)   == FindValue(t, i, s, rows[k])
           failing == {k \in DOMAIN rows : ~Holds(t, at(k))}
           last    == IF failing = {} THEN Len(rows)
                      ELSE CHOOSE k \in failing : \A h \in failing : k <= h
<1>1. Execute(c, i, s, out)
        = [used |-> s, passed |-> Holds(t, at(last)), found |-> Found(at(last))]
  BY DEF Execute
<1>2. Len(rows) \in Nat \ {0} /\ DOMAIN rows = 1..Len(rows)
  <2>1. CASE out # <<>> /\ c.multiple
    <3>1. rows = out
      BY <2>1 DEF RowsRead
    <3>2. Len(out) # 0
      BY <2>1, EmptySeq
    <3> QED
      BY <3>1, <3>2, LenProperties
  <2>2. CASE out = <<>>
    BY <2>2 DEF RowsRead
  <2>3. CASE out # <<>> /\ ~c.multiple
    <3>1. rows = <<Whole(out)>>
      BY <2>3 DEF RowsRead
    <3> QED
      BY <3>1
  <2> QED
    BY <2>1, <2>2, <2>3
<1> HIDE DEF at, last, rows
<1>3. Holds(t, at(last)) \in BOOLEAN /\ Found(at(last)) \in BOOLEAN
  BY HoldsBoolean
<1>4. ASSUME failing # {} PROVE last \in failing
  <2>1. failing \subseteq Nat
    BY <1>2
  <2> HIDE DEF failing
  <2>2. \E x \in failing : \A y \in failing : x <= y
    BY <1>4, <2>1, LeastExists
  <2> QED
    BY <1>4, <2>2 DEF last
<1>5. failing = {} => last = Len(rows)
  BY DEF last
<1>6. last \in DOMAIN rows
  BY <1>2, <1>4, <1>5
<1>7. Holds(t, at(last)) <=> \A k \in DOMAIN rows : Holds(t, at(k))
  BY <1>4, <1>6
<1>8. 1 \in DOMAIN rows
  BY <1>2
<1> QED
  BY <1>1, <1>3, <1>6, <1>7, <1>8 DEF rows, at

\* Sources differ in rank.
LEMMA RankProperties ==
  /\ \A s \in Sources : Rank[s] \in Nat
  /\ \A s, t \in Sources : Rank[s] = Rank[t] => s = t
  /\ \A s \in Sources \ {"auditEnv"} : Rank[s] < Rank["auditEnv"]
  /\ Rank["auditCommand"] < Rank["auditConfig"]
BY DEF Rank, Sources

\* Some source of a set has the least rank.
LEMMA LeastRank ==
  ASSUME NEW T, T \subseteq Sources, T # {}
  PROVE  \E s \in T : \A t \in T : Rank[s] <= Rank[t]
<1>1. CASE "auditCommand" \in T
  BY <1>1 DEF Rank, Sources
<1>2. CASE "auditCommand" \notin T /\ "auditConfig" \in T
  BY <1>2 DEF Rank, Sources
<1>3. CASE T = {"auditEnv"}
  BY <1>3 DEF Rank
<1> QED
  BY <1>1, <1>2, <1>3 DEF Sources

\* Trying one more source, of a higher rank, changes what decides a plain
\* item only if the sources before do not show it.
LEMMA OneMoreSource ==
  ASSUME NEW i, NEW T, T \subseteq Sources, NEW s \in Sources,
         \A t \in T : Rank[t] < Rank[s]
  PROVE  /\ (\E t \in T : Shown(i, t)) => Decider(i, T \cup {s}) = Decider(i, T)
         /\ ~(\E t \in T : Shown(i, t)) => Decider(i, T \cup {s}) = s
<1> DEFINE U == T \cup {s}
           showT == {t \in T : Shown(i, t)}
           showU == {t \in U : Shown(i, t)}
<1>1. Decider(i, T) = IF showT = {} THEN CHOOSE x \in T : \A t \in T : Rank[t] <= Rank[x]
                      ELSE CHOOSE x \in showT : \A t \in showT : Rank[x] <= Rank[t]
  BY DEF Decider, Shown
<1>2. Decider(i, U) = IF showU = {} THEN CHOOSE x \in U : \A t \in U : Rank[t] <= Rank[x]
                      ELSE CHOOSE x \in showU : \A t \in showU : Rank[x] <= Rank[t]
  BY DEF Decider, Shown
<1>3. U \subseteq Sources /\ showT \subseteq Sources /\ showU \subseteq Sources
  OBVIOUS
<1>4. ASSUME \E t \in T : Shown(i, t) PROVE Decider(i, U) = Decider(i, T)
  <2>1. showT # {} /\ showU # {}
    BY <1>4
  <2>2. PICK x \in showT : \A t \in showT : Rank[x] <= Rank[t]
    BY <1>3, <2>1, LeastRank
  <2>3. \A t \in showU : Rank[x] <= Rank[t]
    BY <2>2, RankProperties
  <2>4. x \in showU
    BY <2>2
  <2>5. \A y \in showT : (\A t \in showT : Rank[y] <= Rank[t]) => y = x
    BY <1>3, <2>2, RankProperties
  <2>6. \A y \in showU : (\A t \in showU : Rank[y] <= Rank[t]) => y = x
    BY <1>3, <2>3, <2>4, RankProperties
  <2>7. Decider(i, T) = x
    BY <1>1, <2>1, <2>2, <2>5
  <2>8. Decider(i, U) = x
    BY <1>2, <2>1, <2>3, <2>4, <2>6
  <2> QED
    BY <2>7, <2>8
<1>5. ASSUME ~(\E t \in T : Shown(i, t)) PROVE Decider(i, U) = s
  <2>1. CASE Shown(i, s)
    <3>1. showU = {s}
      BY <1>5, <2>1
    <3> HIDE DEF showU
    <3>2. Rank[s] <= Rank[s]
      BY RankProperties
    <3> QED
      BY <1>2, <3>1, <3>2
  <2>2. CASE ~Shown(i, s)
    <3>1. showU = {}
      BY <1>5, <2>2
    <3>2. \A t \in U : Rank[t] <= Rank[s]
      BY RankProperties
    <3>3. \A y \in U : (\A t \in U : Rank[t] <= Rank[y]) => y = s
      BY RankProperties
    <3> QED
      BY <1>2, <3>1, <3>2, <3>3
  <2> QED
    BY <2>1, <2>2
<1> QED
  BY <1>4, <1>5

-----------------------------------------------------------------------------
(* The types.                                                               *)
Typed ==
  /\ pc \in PCs
  /\ \A s \in Sources : output[s] \in Outputs(check, s) \cup {<<>>}
  /\ err \in {"", "missing", "failed", "binop"}
  /\ result \in Results \cup {NoResult}
  /\ state \in IF pc = "done" THEN States ELSE {""}

LEMMA InitTyped == Init => Typed
<1> SUFFICES ASSUME Init PROVE Typed
  OBVIOUS
<1>1. \A s \in Sources : output[s] = <<>>
  BY DEF Init
<1>2. pc = "start" /\ err = "" /\ result = NoResult /\ state = ""
  BY DEF Init
<1> QED
  BY <1>1, <1>2 DEF Typed, PCs

LEMMA NotPassedIsState == \A c : NotPassed(c) \in States
BY DEF NotPassed, States

LEMMA StepTyped == IInv /\ Backing /\ Typed /\ [Next]_vars => Typed'
<1> SUFFICES ASSUME IInv, Backing, Typed, [Next]_vars PROVE Typed'
  OBVIOUS
<1>1. CASE EarlyReturn
  <2>1. /\ check' = check /\ output' = output /\ err' = err /\ result' = result
        /\ pc' = "done"
    BY <1>1 DEF EarlyReturn, WarnIncomplete, Skip, WarnManual, NoTestsDefined,
                Return, Goto, auditVars, itemVars
  <2>2. state' \in {"WARN", "INFO", NotPassed(check)}
    BY <1>1 DEF EarlyReturn, WarnIncomplete, Skip, WarnManual, NoTestsDefined, Return
  <2>3. state' \in States
    BY <2>2, NotPassedIsState DEF States
  <2> QED
    BY <2>1, <2>3 DEF Typed, PCs
<1>2. CASE StartAudits
  <2>1. /\ check' = check /\ output' = output /\ err' = err /\ result' = result
        /\ pc' = "auditEnv" /\ state' = state /\ pc = "start"
    BY <1>2 DEF StartAudits, Goto, auditVars, itemVars, endVars
  <2> QED
    BY <2>1 DEF Typed, PCs
<1>3. CASE Audit
  <2>1. /\ check' = check /\ result' = result /\ state' = state
        /\ pc \in {"auditEnv", "auditCommand", "auditConfig"}
        /\ pc' \in {"auditCommand", "auditConfig", "onCommand", "conclude"}
    BY <1>3 DEF Audit, RunAuditEnv, RunAuditCommand, RunAuditConfig, Goto, itemVars, endVars
  <2>2. ASSUME NEW s \in Sources, NEW o \in Outcomes, NEW out \in Outputs(check, s),
               RunAudit(s, o, out)
        PROVE  /\ \A t \in Sources : output'[t] \in Outputs(check, t) \cup {<<>>}
               /\ err' \in {"", "missing", "failed", "binop"}
    BY <2>2 DEF RunAudit, Typed, IInv, Outcomes
  <2>3. /\ \A t \in Sources : output'[t] \in Outputs(check, t) \cup {<<>>}
        /\ err' \in {"", "missing", "failed", "binop"}
    <3>1. CASE RunAuditEnv
      BY <2>2, <3>1 DEF RunAuditEnv, Sources
    <3>2. CASE RunAuditCommand
      BY <2>2, <3>2 DEF RunAuditCommand, Sources
    <3>3. CASE RunAuditConfig
      <4>1. CASE output' = output /\ err' = err
        BY <4>1 DEF Typed
      <4>2. CASE ~(output' = output /\ err' = err)
        BY <2>2, <3>3, <4>2 DEF RunAuditConfig, Sources
      <4> QED
        BY <4>1, <4>2
    <3> QED
      BY <1>3, <3>1, <3>2, <3>3 DEF Audit
  <2> QED
    BY <2>1, <2>3 DEF Typed, PCs
<1>4. CASE TryCommand \/ TryConfig \/ TryEnv
  <2>1. /\ check' = check /\ output' = output /\ err' = err /\ state' = state
        /\ pc # "done" /\ pc' \in {"onCommand", "onConfig", "onEnv", "combine"}
    BY <1>4 DEF TryCommand, TryConfig, TryEnv, Goto, auditVars, endVars
  <2>2. \A s \in Sources : Execute(check, Item, s, output[s]) \in Results
    BY ExecuteHolds DEF Backing
  <2>3. result' \in Results \cup {NoResult}
    BY <1>4, <2>2 DEF TryCommand, TryConfig, TryEnv, Typed, Sources
  <2> QED
    BY <2>1, <2>3 DEF Typed, PCs
<1>5. CASE Combine
  <2>1. /\ check' = check /\ output' = output /\ result' = result /\ state' = state
        /\ pc = "combine" /\ pc' = "conclude" /\ err' \in {"", "binop"}
    BY <1>5 DEF Combine, Goto, itemVars
  <2> QED
    BY <2>1 DEF Typed, PCs
<1>6. CASE Conclude
  <2>1. /\ check' = check /\ output' = output /\ result' = result /\ err' = err
        /\ pc = "conclude" /\ pc' = "done"
    BY <1>6 DEF Conclude, Goto, itemVars, auditVars
  <2>2. err # "" \/ final \in {"true", "false"}
    BY <2>1 DEF IInv
  <2>3. state' \in {"PASS", NotPassed(check)}
    BY <1>6, <2>2 DEF Conclude
  <2>4. state' \in States
    BY <2>3, NotPassedIsState DEF States
  <2> QED
    BY <2>1, <2>4 DEF Typed, PCs
<1>7. CASE UNCHANGED vars
  BY <1>7 DEF vars, Typed
<1> QED
  BY <1>1, <1>2, <1>3, <1>4, <1>5, <1>6, <1>7 DEF Next, Evaluate, Done

LEMMA TypedHolds == Spec => [](IInv /\ Backing /\ Typed)
BY BackingHolds, InitTyped, StepTyped, PTL DEF Spec

(***************************************************************************)
(* The variables keep their types; run never returns without a state.      *)
(***************************************************************************)
THEOREM TypeCorrect == Spec => []TypeOK
<1>1. IInv /\ Backing /\ Typed => TypeOK
  BY DEF IInv, Backing, Typed, TypeOK
<1> QED
  BY TypedHolds, <1>1, PTL

-----------------------------------------------------------------------------
(* The evaluation of a plain item, source by source.                        *)
LEMMA TriedReads ==
  ASSUME IInv, Typed, NEW i, NEW s \in Sources, Uniform(i)
  PROVE  LET r == Execute(check, i, s, output[s])
         IN  /\ r.found <=> Shown(i, s)
             /\ r.passed <=> EveryRowHolds(i, s)
<1> DEFINE r == Execute(check, i, s, output[s])
           R == [DOMAIN check.items -> Readings]
<1>1. output[s] \in Seq(R)
  <2>1. output[s] \in Outputs(check, s) \cup {<<>>}
    BY DEF Typed
  <2>2. Outputs(check, s) \subseteq Seq(R)
    BY RowsAssumption DEF IInv
  <2> HIDE DEF R
  <2> QED
    BY <2>1, <2>2, EmptySeq
<1> HIDE DEF R
<1>2. /\ 1 \in RowsOf(s)
      /\ r.passed <=> \A k \in RowsOf(s) : Holds(check.items[i], Reading(i, s, k))
      /\ \E k \in RowsOf(s) : r.found = Found(Reading(i, s, k))
  <2> DEFINE out == output[s]
             rows == RowsRead(check, out)
             at(k) == FindValue(check.items[i], i, s, rows[k])
  <2>1. /\ 1 \in DOMAIN rows
        /\ Execute(check, i, s, out).passed
             <=> \A k \in DOMAIN rows : Holds(check.items[i], at(k))
        /\ \E k \in DOMAIN rows : Execute(check, i, s, out).found = Found(at(k))
    <3>1. out \in Seq(R)
      BY <1>1
    <3> HIDE DEF out
    <3> QED
      BY <3>1, ExecuteReads
  <2> QED
    BY <2>1 DEF RowsOf, Reading
<1>3. \/ \A k \in RowsOf(s) : Found(Reading(i, s, k))
      \/ \A k \in RowsOf(s) : ~Found(Reading(i, s, k))
  BY DEF Uniform
<1> HIDE DEF r
<1>4. r.found <=> Shown(i, s)
  BY <1>2, <1>3 DEF Shown
<1>5. r.passed <=> EveryRowHolds(i, s)
  BY <1>2 DEF EveryRowHolds
<1> QED
  BY <1>4, <1>5 DEF r

\* The result of one more source, asked for if those before do not show the
\* item, is what the sources tried say with it.
LEMMA NextSource ==
  ASSUME IInv, Typed, NEW i, NEW T, T \subseteq Sources, NEW s \in Sources,
         \A t \in T : Rank[t] < Rank[s],
         NEW r, Reads(i, r, T)
  PROVE  LET e == Execute(check, i, s, output[s])
         IN  /\ ~r.found => Reads(i, e, T \cup {s})
             /\ r.found => Reads(i, r, T \cup {s})
<1> DEFINE e == Execute(check, i, s, output[s])
<1> SUFFICES ASSUME Uniform(i)
             PROVE  /\ ~r.found => Reads(i, e, T \cup {s})
                    /\ r.found => Reads(i, r, T \cup {s})
  BY DEF Reads
<1>1. /\ e.found <=> Shown(i, s)
      /\ e.passed <=> EveryRowHolds(i, s)
  BY TriedReads
<1>2. /\ r.found <=> \E t \in T : Shown(i, t)
      /\ r.passed <=> EveryRowHolds(i, Decider(i, T))
  BY DEF Reads
<1>3. /\ r.found => Decider(i, T \cup {s}) = Decider(i, T)
      /\ ~r.found => Decider(i, T \cup {s}) = s
  BY <1>2, OneMoreSource
<1> HIDE DEF e
<1>4. ASSUME ~r.found PROVE Reads(i, e, T \cup {s})
  BY <1>1, <1>2, <1>3, <1>4 DEF Reads
<1>5. ASSUME r.found PROVE Reads(i, r, T \cup {s})
  BY <1>2, <1>3, <1>5 DEF Reads
<1> QED
  BY <1>4, <1>5 DEF e

LEMMA FirstSource ==
  ASSUME IInv, Typed, NEW i
  PROVE  LET s == "auditCommand"
         IN  Reads(i, Execute(check, i, s, output[s]), {s})
<1> DEFINE s == "auditCommand"
           e == Execute(check, i, s, output[s])
<1>1. SUFFICES ASSUME Uniform(i) PROVE Reads(i, e, {s})
  BY DEF Reads
<1>2. s \in Sources
  BY DEF Sources
<1>3. /\ e.found <=> Shown(i, s)
      /\ e.passed <=> EveryRowHolds(i, s)
  BY <1>1, <1>2, TriedReads
<1>4. Decider(i, {s}) = s
  <2> DEFINE T == {}
  <2>1. T \subseteq Sources /\ (\A t \in T : Rank[t] < Rank[s])
        /\ ~(\E t \in T : Shown(i, t)) /\ T \cup {s} = {s}
    OBVIOUS
  <2> HIDE DEF T
  <2>2. Decider(i, T \cup {s}) = s
    BY <1>2, <2>1, OneMoreSource
  <2> QED
    BY <2>1, <2>2
<1> HIDE DEF e
<1> QED
  BY <1>3, <1>4 DEF Reads

LEMMA SamePlain ==
  ASSUME check' = check, output' = output
  PROVE  /\ \A i, r, T : Reads(i, r, T)' <=> Reads(i, r, T)
         /\ \A i : Asked(i)' = Asked(i)
         /\ AllPlain' <=> AllPlain
         /\ PlainVerdict' <=> PlainVerdict
         /\ Operator' <=> Operator
<1>1. \A i : Asked(i)' = Asked(i)
  BY DEF Asked
<1>2. \A i, s : EveryRowHolds(i, s)' <=> EveryRowHolds(i, s)
  BY DEF EveryRowHolds, RowsOf, Reading
<1>3. \A i, s : Shown(i, s)' <=> Shown(i, s)
  BY DEF Shown, Reading
<1>4. \A i, T : Decider(i, T)' = Decider(i, T)
  BY <1>3 DEF Decider, Reading
<1>5. \A i : Uniform(i)' <=> Uniform(i)
  BY DEF Uniform, RowsOf, Reading
<1>6. \A i, r, T : Reads(i, r, T)' <=> Reads(i, r, T)
  BY <1>2, <1>3, <1>4, <1>5 DEF Reads
<1>7. PlainVerdict' <=> PlainVerdict
  BY <1>1, <1>2, <1>4 DEF PlainVerdict, ItemsJoined, Deciding
<1> QED
  BY <1>1, <1>5, <1>6, <1>7 DEF AllPlain, Operator

LEMMA InitPlain == Init => Plain
<1> SUFFICES ASSUME Init PROVE Plain
  OBVIOUS
<1>1. pc = "start" /\ final = "nil" /\ res = <<>>
  BY DEF Init
<1>2. DOMAIN res = {}
  BY <1>1, NoRows
<1> QED
  BY <1>1, <1>2 DEF Plain, Judged

\* Before the items there is nothing to say.
LEMMA BeforeItems ==
  IInv /\ Backing /\ Plain /\ (EarlyReturn \/ StartAudits \/ Audit) => Plain'
<1> SUFFICES ASSUME IInv, Backing, Plain, EarlyReturn \/ StartAudits \/ Audit
             PROVE  Plain'
  OBVIOUS
<1>1. /\ res' = res /\ final' = final /\ pc \in Early
      /\ pc' \notin {"onConfig", "onEnv"}
  BY DEF EarlyReturn, WarnIncomplete, Skip, WarnManual, NoTestsDefined, StartAudits,
         Return, Audit, RunAuditEnv, RunAuditCommand, RunAuditConfig, Goto,
         itemVars, endVars, Early
<1>2. res = <<>> /\ final = "nil"
  BY <1>1 DEF Backing
<1>3. DOMAIN res' = {}
  BY <1>1, <1>2, NoRows
<1> QED
  BY <1>1, <1>2, <1>3 DEF Plain, Judged

\* The environment is the last source, and the configuration the one before.
LEMMA AskedOrder ==
  ASSUME NEW i
  PROVE  /\ Asked(i) \subseteq Sources
         /\ "auditCommand" \in Asked(i)
         /\ Asked(i) \ {"auditEnv"} =
              IF "auditConfig" \in check.audits /\ output["auditConfig"] # <<>>
              THEN {"auditCommand"} \cup {"auditConfig"} ELSE {"auditCommand"}
         /\ Asked(i) = IF "auditEnv" \in check.items[i].names
                       THEN (Asked(i) \ {"auditEnv"}) \cup {"auditEnv"}
                       ELSE Asked(i) \ {"auditEnv"}
BY DEF Asked, Sources

LEMMA TryPlain ==
  IInv /\ Backing /\ Typed /\ Plain /\ (TryCommand \/ TryConfig) => Plain'
<1> SUFFICES ASSUME IInv, Backing, Typed, Plain, TryCommand \/ TryConfig
             PROVE  Plain'
  OBVIOUS
<1>1. /\ check' = check /\ output' = output /\ res' = res /\ final' = final
      /\ pc \in {"onCommand", "onConfig"} /\ pc' \in {"onConfig", "onEnv"}
      /\ Item' = Item
  BY DEF TryCommand, TryConfig, Goto, auditVars, endVars, Item
<1>2. /\ \A i, r, T : Reads(i, r, T)' <=> Reads(i, r, T)
      /\ \A i : Asked(i)' = Asked(i)
  BY <1>1, SamePlain
<1>3. final = "nil"
  BY <1>1 DEF Backing
<1>4. pc' = "onConfig" => Reads(Item, result', {"auditCommand"})
  <2>1. CASE TryCommand
    <3>1. result' = Execute(check, Item, "auditCommand", output["auditCommand"])
      BY <2>1 DEF TryCommand
    <3> QED
      BY <3>1, FirstSource
  <2>2. CASE TryConfig
    BY <2>2 DEF TryConfig, Goto
  <2> QED
    BY <2>1, <2>2
<1>5. pc' = "onEnv" => Reads(Item, result', Asked(Item) \ {"auditEnv"})
  <2>1. CASE TryCommand
    BY <2>1 DEF TryCommand, Goto
  <2>2. CASE TryConfig
    <3> DEFINE T == {"auditCommand"}
               s == "auditConfig"
               e == Execute(check, Item, s, output[s])
    <3>1. Reads(Item, result, T)
      BY <2>2 DEF TryConfig, Plain
    <3>2. T \subseteq Sources /\ s \in Sources /\ \A t \in T : Rank[t] < Rank[s]
      BY RankProperties DEF Sources
    <3> HIDE DEF T
    <3>3. /\ ~result.found => Reads(Item, e, T \cup {s})
          /\ result.found => Reads(Item, result, T \cup {s})
      BY <3>1, <3>2, NextSource
    <3>4. Asked(Item) \ {"auditEnv"} =
            IF s \in check.audits /\ output[s] # <<>> THEN T \cup {s} ELSE T
      BY AskedOrder DEF T
    <3>5. result' = IF ~result.found /\ s \in check.audits /\ output[s] # <<>>
                    THEN e ELSE result
      BY <2>2 DEF TryConfig, UseConfig
    <3> HIDE DEF e
    <3> QED
      BY <3>1, <3>3, <3>4, <3>5
  <2> QED
    BY <2>1, <2>2
<1>6. \A i \in DOMAIN res' : Reads(i, res'[i], Asked(i))
  BY <1>1 DEF Plain
<1>7. /\ Judged'
      /\ pc' = "onConfig" => Reads(Item, result, {"auditCommand"})'
      /\ pc' = "onEnv" => Reads(Item, result, Asked(Item) \ {"auditEnv"})'
      /\ (\A i \in DOMAIN res : Reads(i, res[i], Asked(i)))'
  <2>1. Judged'
    BY <1>1, <1>3 DEF Judged
  <2>2. (\A i \in DOMAIN res : Reads(i, res[i], Asked(i)))'
    BY <1>1, <1>2, <1>6 DEF Reads
  <2>3. pc' = "onConfig" => Reads(Item, result, {"auditCommand"})'
    BY <1>1, <1>2, <1>4 DEF Reads
  <2>4. pc' = "onEnv" => Reads(Item, result, Asked(Item) \ {"auditEnv"})'
    BY <1>1, <1>2, <1>5 DEF Reads
  <2> QED
    BY <2>1, <2>2, <2>3, <2>4
<1> QED
  BY <1>7 DEF Plain

LEMMA TryEnvPlain == IInv /\ Backing /\ Typed /\ Plain /\ TryEnv => Plain'
<1> SUFFICES ASSUME IInv, Backing, Typed, Plain, TryEnv PROVE Plain'
  OBVIOUS
<1> DEFINE s == "auditEnv"
           T == Asked(Item) \ {"auditEnv"}
           e == Execute(check, Item, s, output[s])
           r == IF UseEnv THEN e ELSE result
<1>1. /\ check' = check /\ output' = output /\ final' = final
      /\ pc = "onEnv" /\ pc' \in {"onCommand", "combine"}
      /\ res' = Append(res, r)
  BY DEF TryEnv, Goto, auditVars, endVars
<1>2. /\ \A i, q, U : Reads(i, q, U)' <=> Reads(i, q, U)
      /\ \A i : Asked(i)' = Asked(i)
  BY <1>1, SamePlain
<1>3. final = "nil" /\ result \in Results
  BY <1>1 DEF Backing
<1>4. Reads(Item, result, T)
  BY <1>1 DEF Plain
<1>5. T \subseteq Sources /\ s \in Sources /\ \A t \in T : Rank[t] < Rank[s]
  BY AskedOrder, RankProperties DEF Sources
<1>6. Asked(Item) = IF s \in check.items[Item].names THEN T \cup {s} ELSE T
  BY AskedOrder
<1>7. r = IF ~result.found /\ s \in check.items[Item].names THEN e ELSE result
  BY DEF UseEnv
<1>8. r \in Results
  BY <1>3, ExecuteHolds DEF Backing, Sources
<1> HIDE DEF T, e, r
<1>9. Reads(Item, r, Asked(Item))
  <2>1. /\ ~result.found => Reads(Item, e, T \cup {s})
        /\ result.found => Reads(Item, result, T \cup {s})
    BY <1>4, <1>5, NextSource DEF e
  <2> QED
    BY <1>4, <1>6, <1>7, <2>1
<1>10. /\ DOMAIN res' = 1..(Len(res) + 1)
       /\ res'[Len(res) + 1] = r
       /\ \A i \in 1..Len(res) : res'[i] = res[i]
       /\ DOMAIN res = 1..Len(res) /\ Len(res) \in Nat
  BY <1>1, <1>8, AppendProperties, ResTypes DEF Backing
<1>11. ASSUME NEW i \in DOMAIN res' PROVE Reads(i, res'[i], Asked(i))
  <2>1. CASE i \in 1..Len(res)
    BY <1>10, <2>1 DEF Plain
  <2>2. CASE i = Len(res) + 1
    BY <1>9, <1>10, <2>2 DEF Item
  <2> QED
    BY <1>10, <1>11, <2>1, <2>2
<1>12. (\A i \in DOMAIN res : Reads(i, res[i], Asked(i)))'
  BY <1>1, <1>2, <1>11 DEF Reads
<1>13. Judged'
  BY <1>1, <1>3 DEF Judged
<1> QED
  BY <1>1, <1>12, <1>13 DEF Plain

LEMMA CombinePlain == IInv /\ Backing /\ Plain /\ Combine => Plain'
<1> SUFFICES ASSUME IInv, Backing, Plain, Combine PROVE Plain'
  OBVIOUS
<1>1. /\ check' = check /\ output' = output /\ res' = res
      /\ pc = "combine" /\ pc' = "conclude"
      /\ final' = IF Joined THEN "true" ELSE "false"
      /\ Operator => err' = ""
  BY DEF Combine, Goto, itemVars, Operator
<1>2. /\ \A i, q, U : Reads(i, q, U)' <=> Reads(i, q, U)
      /\ \A i : Asked(i)' = Asked(i)
      /\ AllPlain' <=> AllPlain
      /\ PlainVerdict' <=> PlainVerdict
      /\ Operator' <=> Operator
  BY <1>1, SamePlain
<1>3. DOMAIN res = DOMAIN check.items
  <2>1. /\ Len(res) = Len(check.items)
        /\ DOMAIN res = 1..Len(res) /\ DOMAIN check.items = 1..Len(check.items)
    BY <1>1, ResTypes, ItemTypes DEF Backing, Ends, IInv
  <2> QED
    BY <2>1
<1>4. ASSUME Operator, AllPlain PROVE Joined <=> PlainVerdict
  <2>1. \A i \in DOMAIN res : res[i].passed <=> EveryRowHolds(i, Deciding(i))
    BY <1>3, <1>4 DEF Plain, Reads, AllPlain, Deciding
  <2>2. CASE check.binOp = "or"
    BY <1>3, <2>1, <2>2 DEF Joined, PlainVerdict, ItemsJoined
  <2>3. CASE check.binOp \in {"and", ""}
    BY <1>3, <2>1, <2>3 DEF Joined, PlainVerdict, ItemsJoined
  <2> QED
    BY <1>4, <2>2, <2>3 DEF Operator
<1>5. Judged'
  BY <1>1, <1>2, <1>4 DEF Judged
<1>6. (\A i \in DOMAIN res : Reads(i, res[i], Asked(i)))'
  BY <1>1, <1>2 DEF Plain, Reads
<1> QED
  BY <1>1, <1>5, <1>6 DEF Plain

LEMMA ConcludePlain == IInv /\ Backing /\ Plain /\ Conclude => Plain'
<1> SUFFICES ASSUME IInv, Backing, Plain, Conclude PROVE Plain'
  OBVIOUS
<1>1. /\ check' = check /\ output' = output /\ res' = res /\ final' = final
      /\ pc = "conclude" /\ pc' = "done"
  BY DEF Conclude, Goto, itemVars, auditVars
<1>2. /\ \A i, q, U : Reads(i, q, U)' <=> Reads(i, q, U)
      /\ \A i : Asked(i)' = Asked(i)
      /\ AllPlain' <=> AllPlain
      /\ PlainVerdict' <=> PlainVerdict
      /\ Operator' <=> Operator
  BY <1>1, SamePlain
<1>3. ASSUME final # "nil", Operator
      PROVE  state' = IF final = "true" THEN "PASS" ELSE NotPassed(check)
  <2>1. err = ""
    BY <1>1, <1>3 DEF Plain, Judged
  <2>2. final \in {"true", "false"}
    BY <1>3 DEF IInv
  <2> QED
    BY <2>1, <2>2 DEF Conclude
<1>4. Judged'
  BY <1>1, <1>2, <1>3 DEF Plain, Judged, NotPassed
<1>5. (\A i \in DOMAIN res : Reads(i, res[i], Asked(i)))'
  BY <1>1, <1>2 DEF Plain, Reads
<1> QED
  BY <1>1, <1>4, <1>5 DEF Plain

LEMMA PlainHolds == Spec => [](IInv /\ Backing /\ Plain)
<1>1. Plain /\ UNCHANGED vars => Plain'
  <2> SUFFICES ASSUME Plain, UNCHANGED vars PROVE Plain'
    OBVIOUS
  <2>1. /\ check' = check /\ output' = output /\ res' = res /\ final' = final
        /\ pc' = pc /\ result' = result /\ Item' = Item /\ err' = err
        /\ state' = state
    BY DEF vars, Item
  <2>2. /\ \A i, q, U : Reads(i, q, U)' <=> Reads(i, q, U)
        /\ \A i : Asked(i)' = Asked(i)
        /\ AllPlain' <=> AllPlain
        /\ PlainVerdict' <=> PlainVerdict
        /\ Operator' <=> Operator
    BY <2>1, SamePlain
  <2>3. Judged'
    BY <2>1, <2>2 DEF Plain, Judged, NotPassed
  <2>4. (\A i \in DOMAIN res : Reads(i, res[i], Asked(i)))'
    BY <2>1, <2>2 DEF Plain, Reads
  <2>5. pc' = "onConfig" => Reads(Item, result', {"auditCommand"})
    BY <2>1 DEF Plain
  <2>6. pc' = "onEnv" => Reads(Item, result', Asked(Item) \ {"auditEnv"})
    BY <2>1 DEF Plain
  <2>7. pc' = "onConfig" => Reads(Item, result, {"auditCommand"})'
    BY <2>1, <2>2, <2>5 DEF Reads
  <2>8. pc' = "onEnv" => Reads(Item, result, Asked(Item) \ {"auditEnv"})'
    BY <2>1, <2>2, <2>6 DEF Reads
  <2> QED
    BY <2>3, <2>4, <2>7, <2>8 DEF Plain
<1>2. IInv /\ Backing /\ Typed /\ Plain /\ [Next]_vars => Plain'
  BY <1>1, BeforeItems, TryPlain, TryEnvPlain, CombinePlain, ConcludePlain
  DEF Next, Evaluate, Done
<1> QED
  BY TypedHolds, InitPlain, <1>2, PTL DEF Spec

(***************************************************************************)
(* The verdict on plain items is that of the outputs that decide them      *)
(* (Check.execute with the overriding of the sources, testItem.execute):   *)
(* neither the order of the rows nor a source of lower rank changes it,    *)
(* for any number of items and rows.                                       *)
(***************************************************************************)
THEOREM PlainItemsAreDecided == Spec => []PlainItemsDecide
<1>1. IInv /\ Backing /\ Plain => PlainItemsDecide
  <2> SUFFICES ASSUME IInv, Plain, pc = "done", final # "nil", Operator, AllPlain
               PROVE  state = IF PlainVerdict THEN "PASS" ELSE NotPassed(check)
    BY DEF PlainItemsDecide, Operator, AllPlain, PlainVerdict
  <2>1. /\ final = "true" <=> PlainVerdict
        /\ state = IF final = "true" THEN "PASS" ELSE NotPassed(check)
    BY DEF Plain, Judged
  <2> QED
    BY <2>1
<1> QED
  BY PlainHolds, <1>1, PTL

-----------------------------------------------------------------------------
(* run returns.                                                            *)

Items == Len(check.items)
More  == Items - Len(res)

\* At most as many steps as this are ahead: the audits, three steps for each
\* item that has no result yet, and the end.
Ahead ==
  CASE pc = "start"        -> 3 * Items + 6
    [] pc = "auditEnv"     -> 3 * Items + 5
    [] pc = "auditCommand" -> 3 * Items + 4
    [] pc = "auditConfig"  -> 3 * Items + 3
    [] pc = "onCommand"    -> 3 * More + 2
    [] pc = "onConfig"     -> 3 * More + 1
    [] pc = "onEnv"        -> 3 * More
    [] pc = "combine"      -> 2
    [] pc = "conclude"     -> 1
    [] OTHER               -> 0

\* There are as many results as items at most, and fewer while one is tried.
LEMMA ItemsLeft ==
  ASSUME IInv, Backing
  PROVE  /\ Items \in Nat /\ Len(res) \in Nat
         /\ pc \in Early => Len(res) = 0
         /\ pc = "onCommand" => More \in Nat
         /\ pc \in {"onConfig", "onEnv"} => More \in Nat \ {0}
<1>1. Items \in Nat /\ DOMAIN check.items = 1..Items
  BY ItemTypes DEF IInv, Items
<1>2. Len(res) \in Nat
  BY ResTypes DEF Backing
<1>3. pc \in Early => Len(res) = 0
  BY NoRows DEF Backing
<1>4. pc = "onCommand" => Len(res) <= Items
  BY DEF Backing, Items
<1>5. pc \in {"onConfig", "onEnv"} => Len(res) + 1 <= Items
  BY <1>1, <1>2 DEF Backing, Item
<1> QED
  BY <1>1, <1>2, <1>3, <1>4, <1>5 DEF More

LEMMA AheadTyped == IInv /\ Backing => Ahead \in Nat
<1> SUFFICES ASSUME IInv, Backing PROVE Ahead \in Nat
  OBVIOUS
<1>1. 3 * Items \in Nat
  BY ItemsLeft
<1>2. pc \in {"onCommand", "onConfig", "onEnv"} => 3 * More \in Nat
  BY ItemsLeft
<1> QED
  BY <1>1, <1>2 DEF Ahead

LEMMA NextAhead == IInv /\ Backing /\ [Next]_vars => Ahead' < Ahead \/ UNCHANGED vars
<1> SUFFICES ASSUME IInv, Backing, Next PROVE Ahead' < Ahead \/ UNCHANGED vars
  OBVIOUS
<1>0. /\ Items \in Nat /\ Len(res) \in Nat
      /\ check' = check => Items' = Items
      /\ check' = check /\ res' = res => More' = More
  BY ItemsLeft DEF Items, More
<1>1. CASE EarlyReturn
  <2>1. pc = "start" /\ pc' = "done"
    BY <1>1 DEF EarlyReturn, WarnIncomplete, Skip, WarnManual, NoTestsDefined,
                Return, Goto
  <2> QED
    BY <1>0, <2>1 DEF Ahead
<1>2. CASE StartAudits
  BY <1>0, <1>2 DEF StartAudits, Goto, Ahead
<1>3. CASE Audit
  <2>1. /\ check' = check /\ res' = res
        /\ \/ pc = "auditEnv" /\ pc' \in {"auditCommand", "conclude"}
           \/ pc = "auditCommand" /\ pc' \in {"auditConfig", "conclude"}
           \/ pc = "auditConfig" /\ pc' \in {"onCommand", "conclude"}
    BY <1>3 DEF Audit, RunAuditEnv, RunAuditCommand, RunAuditConfig, Goto, itemVars
  <2>2. More' = Items
    BY <1>0, <2>1, ItemsLeft DEF Early, More
  <2> QED
    BY <1>0, <2>1, <2>2 DEF Ahead
<1>4. CASE TryCommand \/ TryConfig
  <2>1. /\ check' = check /\ res' = res
        /\ \/ pc = "onCommand" /\ pc' = "onConfig"
           \/ pc = "onConfig" /\ pc' = "onEnv"
    BY <1>4 DEF TryCommand, TryConfig, Goto
  <2>2. 3 * More \in Nat
    BY <2>1, ItemsLeft
  <2> QED
    BY <1>0, <2>1, <2>2 DEF Ahead
<1>5. CASE TryEnv
  <2>1. check' = check /\ pc = "onEnv" /\ pc' \in {"onCommand", "combine"}
    BY <1>5 DEF TryEnv, Goto
  <2>2. Len(res') = Len(res) + 1
    BY <1>5 DEF TryEnv, Backing
  <2>3. More' = More - 1 /\ More \in Nat \ {0}
    BY <1>0, <2>1, <2>2, ItemsLeft DEF More
  <2> QED
    BY <2>1, <2>3 DEF Ahead
<1>6. CASE Combine \/ Conclude
  <2>1. \/ pc = "combine" /\ pc' = "conclude"
        \/ pc = "conclude" /\ pc' = "done"
    BY <1>6 DEF Combine, Conclude, Goto
  <2> QED
    BY <2>1 DEF Ahead
<1>7. CASE Done
  BY <1>7 DEF Done
<1> QED
  BY <1>1, <1>2, <1>3, <1>4, <1>5, <1>6, <1>7 DEF Next, Evaluate

(***************************************************************************)
(* Whatever the commands print and the items are, run does not go round    *)
(* for ever: every step uses up one of a number of steps that is known     *)
(* beforehand, so that only a step that is not taken, the wait for a       *)
(* command of the node, keeps run from returning (Check.run).              *)
(***************************************************************************)
THEOREM StepsRunOut == Spec => [](Ahead \in Nat) /\ [][Ahead' < Ahead]_vars
<1> QED
  BY BackingHolds, AheadTyped, NextAhead, PTL DEF Spec
=============================================================================
