--------------------------- MODULE PublisherProofs ---------------------------
(***************************************************************************)
(* Proofs about PublishFinding, for any size of the batch, any number of   *)
(* findings and any answers of the service.                                *)
(***************************************************************************)
EXTENDS Publisher, FunctionTheorems, ProofLemmas

(***************************************************************************)
(* What the invariants rest on.  The properties speak of the end of the    *)
(* loop; the calls so far, the counter and the list of failed findings are *)
(* what carries them through it.                                           *)
(***************************************************************************)
\* A call: what was sent and what came back.
Answer == [sent : SUBSET Finding, ok : BOOLEAN, failed : SUBSET Finding]

Typed ==
  /\ n \in Nat
  /\ i \in Nat
  /\ errs \in BOOLEAN
  /\ pc \in {"start", "loop", "done", "refused"}
  /\ calls \in Seq(Answer)
  /\ o.FailedFindings \in [Finding -> Nat]

\* Every call sends all the findings.
AllSent == \A c \in Calls : calls[c].sent = Finding

\* Whatever a response lists as failed is on the list.
FailedListed ==
  \A c \in Calls : \A f \in calls[c].failed : o.FailedFindings[f] > 0

\* The counter is that of the calls, and the loop runs to the end of the
\* findings and not beyond the batch in which it lies.
Counted ==
  /\ i = BatchSize * Len(calls)
  /\ i < n + BatchSize
  /\ pc = "done" => i >= n

IInv == Typed /\ AllSent /\ FailedListed /\ Counted /\ ErrorIsKept

\* Init establishes the invariant.
LEMMA InitIInv == Init => IInv
<1> SUFFICES ASSUME Init PROVE IInv
  OBVIOUS
<1>1. calls = <<>> /\ Calls = {} /\ Len(calls) = 0
  BY DEF Init, Calls
<1>2. n \in Nat /\ i = 0 /\ errs = FALSE /\ pc = "start"
  BY BatchAssumption DEF Init
<1>3. Typed
  <2>1. o.FailedFindings = [f \in Finding |-> 0]
    BY DEF Init
  <2>2. o.FailedFindings \in [Finding -> Nat]
    BY <2>1
  <2>3. calls \in Seq(Answer)
    BY <1>1
  <2> QED BY <1>2, <2>2, <2>3 DEF Typed
<1>4. AllSent /\ FailedListed /\ ErrorIsKept
  BY <1>1, <1>2 DEF AllSent, FailedListed, ErrorIsKept
<1>5. Counted
  BY <1>1, <1>2, BatchAssumption DEF Counted
<1> QED BY <1>3, <1>4, <1>5 DEF IInv

\* A response is a record of its request, and its failed findings are of it.
LEMMA ResponseTyped ==
  ASSUME NEW r \in Responses(Request)
  PROVE  /\ r \in Answer
         /\ r.sent = Finding
         /\ ~r.ok => r.failed = {}
  BY DEF Responses, Request, Answer

\* One call of the service preserves the invariant.
LEMMA PublishIInv == IInv /\ Publish => IInv'
<1> SUFFICES ASSUME IInv, Publish PROVE IInv'
  OBVIOUS
<1> USE DEF IInv
<1>1. PICK r \in Responses(Request) :
        calls' = Append(calls, r) /\ o' = Add(r) /\ errs' = Remember(r)
  BY DEF Publish
<1>2. /\ n' = n /\ pc' = pc /\ i' = i + BatchSize
      /\ i < n /\ pc = "loop"
  BY DEF Publish
<1>3. r \in Answer
  BY ResponseTyped
<1>4. Finding' = Finding
  BY <1>2 DEF Finding
<1>5. /\ Len(calls') = Len(calls) + 1
      /\ Len(calls) \in Nat
      /\ \A c \in Calls : calls'[c] = calls[c]
      /\ calls'[Len(calls) + 1] = r
      /\ Calls' = Calls \union {Len(calls) + 1}
  BY <1>1, <1>3 DEF Typed, Calls
<1>6. /\ o'.FailedFindings \in [Finding -> Nat]
      /\ \A f \in Finding : o'.FailedFindings[f] >= o.FailedFindings[f]
      /\ \A f \in r.failed : o'.FailedFindings[f] > 0
  <2>1. CASE r.ok
    <3>1. o'.FailedFindings = [f \in Finding |->
            o.FailedFindings[f] + (IF f \in r.failed THEN 1 ELSE 0)]
      BY <1>1, <2>1 DEF Add
    <3>2. \A f \in Finding : o.FailedFindings[f] \in Nat
      BY DEF Typed
    <3>3. r.failed \subseteq Finding
      BY <1>3 DEF Answer
    <3> QED BY <3>1, <3>2, <3>3
  <2>2. CASE ~r.ok
    <3>1. o' = o /\ r.failed = {}
      BY <1>1, <2>2, ResponseTyped DEF Add
    <3>2. \A f \in Finding : o.FailedFindings[f] \in Nat
      BY DEF Typed
    <3> QED BY <3>1, <3>2 DEF Typed
  <2> QED BY <2>1, <2>2
<1>7. Typed'
  <2>1. calls' \in Seq(Answer)
    BY <1>1, <1>3 DEF Typed
  <2>2. errs' \in BOOLEAN
    BY <1>1, <1>3 DEF Typed, Remember, Answer
  <2>3. Answer' = Answer
    BY <1>4 DEF Answer
  <2> QED BY <1>2, <1>4, <1>6, <2>1, <2>2, <2>3, BatchAssumption DEF Typed
<1>8. AllSent'
  BY <1>4, <1>5, ResponseTyped DEF AllSent
<1>9. FailedListed'
  <2>1. ASSUME NEW c \in Calls, NEW f \in calls[c].failed
        PROVE  o'.FailedFindings[f] > 0
    <3>1. f \in Finding
      <4>1. calls[c] \in Answer
        BY DEF Typed, Calls
      <4> QED BY <4>1 DEF Answer
    <3>2. o.FailedFindings[f] \in Nat /\ o'.FailedFindings[f] \in Nat
      BY <1>6, <3>1 DEF Typed
    <3> QED BY <1>6, <3>1, <3>2 DEF FailedListed
  <2> QED BY <1>5, <1>6, <2>1 DEF FailedListed
<1>10. Counted'
  <2>1. BatchSize * (Len(calls) + 1) = BatchSize * Len(calls) + BatchSize
    BY <1>5, BatchAssumption
  <2> QED BY <1>2, <1>5, <2>1, BatchAssumption DEF Counted, Typed
<1>11. ErrorIsKept'
  BY <1>1, <1>3, <1>5 DEF ErrorIsKept, Remember, Typed
<1> QED BY <1>7, <1>8, <1>9, <1>10, <1>11

\* Beginning, returning and staying done do, too.
LEMMA ReturnIInv ==
  IInv /\ (Configure \/ Return \/ Done \/ UNCHANGED vars) => IInv'
<1> SUFFICES ASSUME IInv, Configure \/ Return \/ UNCHANGED vars PROVE IInv'
  BY DEF Done
<1> USE DEF IInv
<1>1. UNCHANGED <<n, i, calls, o, errs>> /\ pc' \in {"start", "loop", "done", "refused"}
  BY DEF Configure, Return, vars, Typed
<1>2. pc' = "done" => i >= n
  BY DEF Configure, Return, vars, Counted
<1>3. Finding' = Finding /\ Answer' = Answer /\ Calls' = Calls
  BY <1>1 DEF Finding, Answer, Calls
<1>4. Typed'
  BY <1>1, <1>3 DEF Typed
<1>5. AllSent' /\ FailedListed' /\ ErrorIsKept'
  BY <1>1, <1>3 DEF AllSent, FailedListed, ErrorIsKept
<1>6. Counted'
  BY <1>1, <1>2 DEF Counted
<1> QED BY <1>4, <1>5, <1>6

\* The invariant holds in every state.
THEOREM InvariantHolds == Spec => []IInv
<1>1. IInv /\ [Next]_vars => IInv'
  BY PublishIInv, ReturnIInv DEF Next
<1> QED BY InitIInv, <1>1, PTL DEF Spec

(***************************************************************************)
(* An error of any call reaches the caller of PublishFinding, whatever the *)
(* calls after it answer, and without one none is returned.                *)
(***************************************************************************)
THEOREM ErrorCorrect == Spec => []ErrorIsKept
<1>1. IInv => ErrorIsKept
  BY DEF IInv
<1> QED BY InvariantHolds, <1>1, PTL

(***************************************************************************)
(* When PublishFinding returns nil, every finding was imported or is in    *)
(* the list of those that failed, for any number of findings and any size  *)
(* of the batch.                                                           *)
(***************************************************************************)
THEOREM NothingIsLost == Spec => []NothingLostSilently
<1>1. IInv => NothingLostSilently
  <2> SUFFICES ASSUME IInv, pc = "done", ~errs, NEW f \in Finding
               PROVE  \/ \E c \in Calls : f \in calls[c].sent \ calls[c].failed
                      \/ o.FailedFindings[f] > 0
    BY DEF NothingLostSilently
  <2>1. n > 0 /\ i >= n
    BY DEF IInv, Typed, Counted, Finding
  <2>2. Len(calls) # 0
    BY <2>1, BatchAssumption DEF IInv, Counted, Typed
  <2>3. 1 \in Calls
    BY <2>2 DEF IInv, Typed, Calls
  <2>4. f \in calls[1].sent
    BY <2>3 DEF IInv, AllSent
  <2> QED BY <2>3, <2>4 DEF IInv, FailedListed
<1> QED BY InvariantHolds, <1>1, PTL

(***************************************************************************)
(* A failing call does not keep the calls after it from being made.        *)
(***************************************************************************)
THEOREM BatchesCorrect == Spec => []EveryBatchIsTried
<1>1. IInv => EveryBatchIsTried
  BY DEF IInv, Counted, Typed, EveryBatchIsTried
<1> QED BY InvariantHolds, <1>1, PTL

-----------------------------------------------------------------------------
(* The counts.                                                              *)

\* Pairing the elements of a set with something keeps their number.
LEMMA Labelled ==
  ASSUME NEW S, IsFiniteSet(S), NEW b, DOMAIN b = S,
         \A x, y \in S : b[x] = b[y] => x = y
  PROVE  LET T == {b[x] : x \in S}
         IN  IsFiniteSet(T) /\ Cardinality(T) = Cardinality(S)
<1> DEFINE T == {b[x] : x \in S}
           c == [x \in S |-> b[x]]
<1>1. c \in Bijection(S, T)
  BY DEF Bijection, Injection, Surjection, IsInjective
<1>2. ExistsBijection(S, T)
  BY <1>1 DEF ExistsBijection
<1> HIDE DEF T
<1>3. IsFiniteSet(T) /\ Cardinality(T) = Cardinality(S)
  BY <1>2, FS_Bijection
<1> QED BY <1>3 DEF T

\* The counts agree, and are counts: of finite lists.
Counts ==
  /\ o.FailedCount \in Nat /\ o.SuccessCount \in Nat
  /\ IsFiniteSet(Entries) /\ IsFiniteSet(Answered)
  /\ CountsAgree

LEMMA InitCounts == Init => Counts
<1> SUFFICES ASSUME Init PROVE Counts
  OBVIOUS
<1>1. o.FailedCount = 0 /\ o.SuccessCount = 0
  BY DEF Init
<1>2. Entries = {}
  <2>1. \A f \in Finding : o.FailedFindings[f] = 0
    BY DEF Init
  <2>2. 1..0 = {}
    OBVIOUS
  <2>3. \A f \in Finding : 1..o.FailedFindings[f] = {}
    BY <2>1, <2>2
  <2> QED BY <2>3 DEF Entries
<1>3. Answered = {}
  <2>1. Calls = {}
    BY DEF Init, Calls
  <2> QED BY <2>1 DEF Answered
<1> QED BY <1>1, <1>2, <1>3, FS_EmptySet DEF Counts, CountsAgree

\* An answer adds its failed findings to the list, one entry each.
LEMMA MoreEntries ==
  ASSUME IInv, IsFiniteSet(Entries), NEW R, R \subseteq Finding, IsFiniteSet(R),
         Finding' = Finding,
         o'.FailedFindings = [f \in Finding |->
            o.FailedFindings[f] + (IF f \in R THEN 1 ELSE 0)]
  PROVE  /\ IsFiniteSet(Entries')
         /\ Cardinality(Entries') = Cardinality(Entries) + Cardinality(R)
<1> DEFINE b == [f \in R |-> <<f, o.FailedFindings[f] + 1>>]
           fresh == {b[f] : f \in R}
<1>1. \A f \in Finding : o.FailedFindings[f] \in Nat
  BY DEF IInv, Typed
<1>2. IsFiniteSet(fresh) /\ Cardinality(fresh) = Cardinality(R)
  <2>1. DOMAIN b = R /\ \A x, y \in R : b[x] = b[y] => x = y
    OBVIOUS
  <2> HIDE DEF b
  <2> QED BY <2>1, Labelled
<1>3. \A f, k : <<f, k>> \in Entries <=> f \in Finding /\ k \in 1..o.FailedFindings[f]
  BY DEF Entries
<1>4. \A f, k : <<f, k>> \in Entries' <=> f \in Finding /\ k \in 1..o'.FailedFindings[f]
  BY DEF Entries
<1>5. \A f, k : <<f, k>> \in fresh <=> f \in R /\ k = o.FailedFindings[f] + 1
  OBVIOUS
<1>6. /\ \A e \in Entries : e = <<e[1], e[2]>>
      /\ \A e \in Entries' : e = <<e[1], e[2]>>
      /\ \A e \in fresh : e = <<e[1], e[2]>>
  BY DEF Entries
<1> HIDE DEF fresh
<1>7. Entries \cap fresh = {}
  <2>1. ASSUME NEW e \in Entries, e \in fresh PROVE FALSE
    <3>1. /\ e[1] \in Finding /\ e[2] \in 1..o.FailedFindings[e[1]]
          /\ e[2] = o.FailedFindings[e[1]] + 1
      BY <1>3, <1>5, <1>6, <2>1
    <3> QED BY <1>1, <3>1
  <2> QED BY <2>1
<1>8. Entries' = Entries \cup fresh
  <2>1. ASSUME NEW f, NEW k
        PROVE  <<f, k>> \in Entries' <=> <<f, k>> \in Entries \/ <<f, k>> \in fresh
    <3>1. CASE f \in R
      <4>1. o'.FailedFindings[f] = o.FailedFindings[f] + 1 /\ f \in Finding
        BY <1>1, <3>1
      <4>2. k \in 1..(o.FailedFindings[f] + 1)
              <=> k \in 1..o.FailedFindings[f] \/ k = o.FailedFindings[f] + 1
        BY <1>1, <4>1
      <4> QED BY <1>3, <1>4, <1>5, <3>1, <4>1, <4>2
    <3>2. CASE f \in Finding \ R
      <4>1. o'.FailedFindings[f] = o.FailedFindings[f]
        BY <1>1, <3>2
      <4> QED BY <1>3, <1>4, <1>5, <3>2, <4>1
    <3>3. CASE f \notin Finding
      BY <1>3, <1>4, <1>5, <3>3
    <3> QED BY <3>1, <3>2, <3>3
  <2> QED BY <1>6, <2>1
<1> QED BY <1>2, <1>7, <1>8, DisjointUnion

\* A call that is answered adds what it sent.
LEMMA MoreAnswered ==
  ASSUME IInv, IsFiniteSet(Answered), NEW r, r.ok, IsFiniteSet(r.sent),
         NEW c, c \notin Calls, Calls' = Calls \cup {c},
         calls'[c] = r, \A d \in Calls : calls'[d] = calls[d]
  PROVE  /\ IsFiniteSet(Answered')
         /\ Cardinality(Answered') = Cardinality(Answered) + Cardinality(r.sent)
<1> DEFINE b == [f \in r.sent |-> <<c, f>>]
           fresh == {b[f] : f \in r.sent}
<1>1. IsFiniteSet(fresh) /\ Cardinality(fresh) = Cardinality(r.sent)
  <2>1. DOMAIN b = r.sent /\ \A x, y \in r.sent : b[x] = b[y] => x = y
    OBVIOUS
  <2> HIDE DEF b
  <2> QED BY <2>1, Labelled
<1>2. fresh = {c} \X r.sent
  <2>1. fresh = {<<c, f>> : f \in r.sent}
    OBVIOUS
  <2> HIDE DEF fresh, b
  <2> QED BY <2>1
<1> HIDE DEF fresh, b
<1>3. Answered \cap fresh = {}
  BY <1>2 DEF Answered
<1>4. Answered' = Answered \cup fresh
  BY <1>2 DEF Answered
<1>5. /\ IsFiniteSet(Answered \cup fresh)
      /\ Cardinality(Answered \cup fresh) = Cardinality(Answered) + Cardinality(fresh)
  BY <1>1, <1>3, DisjointUnion
<1> QED BY <1>1, <1>4, <1>5

LEMMA PublishCounts == IInv /\ Counts /\ Publish => Counts'
<1> SUFFICES ASSUME IInv, Counts, Publish PROVE Counts'
  OBVIOUS
<1>1. PICK r \in Responses(Request) : calls' = Append(calls, r) /\ o' = Add(r)
  BY DEF Publish
<1>2. n' = n /\ Finding' = Finding
  BY DEF Publish, Finding
<1>3. r \in Answer /\ r.sent = Finding /\ r.failed \subseteq Finding
  BY ResponseTyped DEF Answer
<1>4. /\ Len(calls) + 1 \notin Calls
      /\ Calls' = Calls \cup {Len(calls) + 1}
      /\ calls'[Len(calls) + 1] = r
      /\ \A d \in Calls : calls'[d] = calls[d]
  BY <1>1, <1>3 DEF IInv, Typed, Calls
<1>5. CASE r.ok
  <2>1. IsFiniteSet(Finding)
    BY FS_Interval DEF Finding, IInv, Typed
  <2>2. IsFiniteSet(r.failed) /\ IsFiniteSet(r.sent \ r.failed)
    BY <1>3, <2>1, FS_Subset
  <2>3. /\ Cardinality(r.failed) \in Nat /\ Cardinality(r.sent \ r.failed) \in Nat
        /\ Cardinality(r.sent) = Cardinality(r.sent \ r.failed) + Cardinality(r.failed)
    <3>1. r.sent = (r.sent \ r.failed) \cup r.failed
          /\ (r.sent \ r.failed) \cap r.failed = {}
      BY <1>3
    <3> QED BY <2>2, <3>1, DisjointUnion
  <2>4. /\ o'.FailedCount = o.FailedCount + Cardinality(r.failed)
        /\ o'.SuccessCount = o.SuccessCount + Cardinality(r.sent \ r.failed)
        /\ o'.FailedFindings = [f \in Finding |->
              o.FailedFindings[f] + (IF f \in r.failed THEN 1 ELSE 0)]
    BY <1>1, <1>5 DEF Add
  <2>5. /\ IsFiniteSet(Entries')
        /\ Cardinality(Entries') = Cardinality(Entries) + Cardinality(r.failed)
    BY <1>2, <1>3, <2>2, <2>4, MoreEntries DEF Counts
  <2>6. /\ IsFiniteSet(Answered')
        /\ Cardinality(Answered') = Cardinality(Answered) + Cardinality(r.sent)
    BY <1>3, <1>4, <1>5, <2>1, MoreAnswered DEF Counts
  <2>7. /\ o.FailedCount = Cardinality(Entries)
        /\ o.SuccessCount + o.FailedCount = Cardinality(Answered)
        /\ o.FailedCount \in Nat /\ o.SuccessCount \in Nat
    BY DEF Counts, CountsAgree
  <2> QED BY <2>3, <2>4, <2>5, <2>6, <2>7 DEF Counts, CountsAgree
<1>6. CASE ~r.ok
  <2>1. o' = o /\ Entries' = Entries
    BY <1>1, <1>2, <1>6 DEF Add, Entries
  <2>2. Answered' = Answered
    BY <1>4, <1>6 DEF Answered
  <2> QED BY <2>1, <2>2 DEF Counts, CountsAgree
<1> QED BY <1>5, <1>6

(***************************************************************************)
(* What print reports adds up: as many failed findings as the list below   *)
(* the count has entries, and with the successes as many as the calls that *)
(* were answered have sent, for any answers of the service.                *)
(***************************************************************************)
THEOREM CountsCorrect == Spec => []CountsAgree
<1>1. Counts /\ UNCHANGED <<n, calls, o>> => Counts'
  BY DEF Counts, CountsAgree, Entries, Answered, Calls, Finding
<1>2. IInv /\ Counts /\ [Next]_vars => Counts'
  BY <1>1, PublishCounts DEF Next, Configure, Return, Done, vars
<1>3. Counts => CountsAgree
  BY DEF Counts
<1> QED BY InvariantHolds, InitCounts, <1>2, <1>3, PTL DEF Spec

-----------------------------------------------------------------------------
(* The loop ends.                                                           *)

\* At most as many steps as this are ahead: a call for each finding that the
\* counter has not passed, and the return.
Ahead ==
  CASE pc = "start" -> n + 2
    [] pc = "loop"  -> (IF i < n THEN n - i ELSE 0) + 1
    [] OTHER        -> 0

LEMMA AheadTyped == IInv => Ahead \in Nat
  BY DEF IInv, Typed, Ahead

LEMMA NextAhead == IInv /\ [Next]_vars => Ahead' < Ahead \/ UNCHANGED vars
<1> SUFFICES ASSUME IInv, Next PROVE Ahead' < Ahead \/ UNCHANGED vars
  OBVIOUS
<1>0. n \in Nat /\ i \in Nat /\ BatchSize \in Nat \ {0}
  BY BatchAssumption DEF IInv, Typed
<1>1. CASE Configure
  BY <1>0, <1>1 DEF Configure, Ahead
<1>2. CASE Publish
  BY <1>0, <1>2 DEF Publish, Ahead
<1>3. CASE Return
  BY <1>0, <1>3 DEF Return, Ahead
<1>4. CASE Done
  BY <1>4 DEF Done
<1> QED BY <1>1, <1>2, <1>3, <1>4 DEF Next

(***************************************************************************)
(* Nothing that the service answers makes PublishFinding go on for ever:   *)
(* every step uses up one of a number of steps that is known beforehand,   *)
(* with any size of the batch and any number of findings.                  *)
(***************************************************************************)
THEOREM StepsRunOut == Spec => [](Ahead \in Nat) /\ [][Ahead' < Ahead]_vars
BY InvariantHolds, AheadTyped, NextAhead, PTL DEF Spec
=============================================================================
