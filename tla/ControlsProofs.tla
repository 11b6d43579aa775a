--------------------------- MODULE ControlsProofs ---------------------------
(***************************************************************************)
(* Proofs about Controls, for every set of files, options and skips.       *)
(***************************************************************************)
EXTENDS Outputs, SequenceTheorems, ProofLemmas

\* No two new groups have the same ID, and m finds each of them.
GroupsIndexed ==
  /\ \A k \in DOMAIN g : g[k].id \in DOMAIN m /\ m[g[k].id] = k
  /\ \A id \in DOMAIN m : g[m[id]].id = id

FileGroup == [id : STRING, type : Types, checks : Seq(Descriptions)]

\* What TypeOK and the assumptions say of the three inputs, in one place.
LEMMA InputTypes ==
  ASSUME TypeOK
  PROVE  /\ file \in Seq(FileGroup)
         /\ opts \in [groups : SUBSET STRING, checks : SUBSET STRING,
                      scored : BOOLEAN, unscored : BOOLEAN]
         /\ skipIDs \subseteq STRING
BY FilesAssumption, OptionsAssumption DEF TypeOK, FileGroup

\* The position at the cursor is one of the file, and a description.
LEMMA HereIsPosition ==
  ASSUME TypeOK, AtCheck
  PROVE  /\ Here \in Positions
         /\ GroupOf(Here) = file[gi]
         /\ file[gi] \in FileGroup
         /\ CheckAt(Here) \in Descriptions
<1>1. file \in Seq(FileGroup)
  BY InputTypes
<1>cursor. gi \in Nat \ {0} /\ ci \in Nat \ {0}
  BY DEF TypeOK
<1>2. gi \in 1..Len(file) /\ gi \in DOMAIN file
  <2>1. Len(file) \in Nat /\ DOMAIN file = 1..Len(file)
    BY <1>1, LenProperties
  <2> QED
    BY <1>cursor, <2>1 DEF AtCheck
<1>3. file[gi] \in FileGroup
  BY <1>1, <1>2, ElementOfSeq
<1>4. ci \in DOMAIN file[gi].checks /\ file[gi].checks[ci] \in Descriptions
  <2>1. file[gi].checks \in Seq(Descriptions)
    BY <1>3 DEF FileGroup
  <2>2. /\ Len(file[gi].checks) \in Nat
        /\ DOMAIN file[gi].checks = 1..Len(file[gi].checks)
    BY <2>1, LenProperties
  <2>3. ci \in 1..Len(file[gi].checks)
    BY <1>cursor, <2>2 DEF AtCheck
  <2> QED
    BY <2>1, <2>2, <2>3, ElementOfSeq
<1>5. Here \in {gi} \X DOMAIN file[gi].checks
  BY <1>4 DEF Here
<1>6. Here \in Positions
  BY <1>2, <1>5 DEF Positions
<1>7. /\ GroupOf(Here) = file[gi]
      /\ CheckAt(Here) = file[gi].checks[ci]
  BY DEF Here, GroupOf, CheckAt
<1> QED
  BY <1>3, <1>4, <1>6, <1>7

\* Every position holds a description, in a group with an ID.
LEMMA PositionTypes ==
  ASSUME TypeOK, NEW p \in Positions
  PROVE  /\ GroupOf(p).id \in STRING /\ CheckAt(p) \in Descriptions
         /\ p[1] \in Nat /\ p[2] \in Nat
<1>1. file \in Seq(FileGroup)
  BY InputTypes
<1>2. PICK i \in DOMAIN file : p \in {i} \X DOMAIN file[i].checks
  BY DEF Positions
<1>3. p[1] = i /\ p[2] \in DOMAIN file[i].checks
  BY <1>2
<1>4. file[i] \in FileGroup
  BY <1>1, <1>2, LenProperties, ElementOfSeq
<1>5. file[i].checks \in Seq(Descriptions)
  BY <1>4 DEF FileGroup
<1>6. file[i].checks[p[2]] \in Descriptions
  BY <1>3, <1>5, LenProperties, ElementOfSeq
<1>7. p[1] \in Nat /\ p[2] \in Nat
  BY <1>1, <1>3, <1>5, LenProperties
<1> QED
  BY <1>3, <1>4, <1>6, <1>7 DEF GroupOf, CheckAt, FileGroup

\* Whatever the description, the runner answers with one of the four states.
LEMMA AllowedStates ==
  ASSUME NEW c PROVE Allowed(c) \subseteq States
BY DEF Allowed, States, NotPassed

-----------------------------------------------------------------------------
(* What Report does to g and m, whichever of its two cases applies.        *)

Slot == IF file[gi].id \in DOMAIN m THEN m[file[gi].id] ELSE Len(g) + 1

ReportEffect(s) ==
  /\ Slot \in 1..Len(g')
  /\ g'[Slot].id = file[gi].id
  /\ \A k \in 1..Len(g') : k # Slot => k \in 1..Len(g) /\ g'[k] = g[k]
  /\ \A k \in 1..Len(g) : k # Slot => k \in 1..Len(g') /\ g'[k] = g[k]
  /\ IF Slot = Len(g) + 1
     THEN /\ file[gi].id \notin DOMAIN m
          /\ g'[Slot].counts = Count(NoCounts, s)
          /\ g'[Slot].checks = <<Here>>
     ELSE /\ Slot \in 1..Len(g)
          /\ g[Slot].id = file[gi].id
          /\ file[gi].id \in DOMAIN m
          /\ g'[Slot].counts = Count(g[Slot].counts, s)
          /\ g'[Slot].checks = Append(g[Slot].checks, Here)
  /\ DOMAIN m' = DOMAIN m \cup {file[gi].id}
  /\ m'[file[gi].id] = Slot
  /\ \A id \in DOMAIN m : m'[id] = m[id]

LEMMA CountType ==
  ASSUME NEW c \in [States -> Nat], NEW s \in States
  PROVE  /\ Count(c, s) \in [States -> Nat]
         /\ Count(c, s)[s] = c[s] + 1
         /\ \A t \in States : t # s => Count(c, s)[t] = c[t]
BY DEF Count

LEMMA NoCountsType ==
  /\ NoCounts \in [States -> Nat]
  /\ \A s \in States : NoCounts[s] = 0
BY DEF NoCounts

LEMMA ReportHasEffect ==
  ASSUME TypeOK, GroupsIndexed, AtCheck, NEW s \in States, Report(s)
  PROVE  /\ ReportEffect(s)
         /\ g' \in Seq(NewGroups)
         /\ m' \in [DOMAIN m' -> DOMAIN g']
<1> DEFINE id == file[gi].id
<1>1. /\ Here \in Positions
      /\ id \in STRING
  BY HereIsPosition DEF FileGroup
<1>2. /\ g \in Seq(NewGroups)
      /\ Len(g) \in Nat
      /\ DOMAIN g = 1..Len(g)
      /\ m \in [DOMAIN m -> 1..Len(g)]
  BY LenProperties DEF TypeOK
<1>3. CASE id \in DOMAIN m
  <2> DEFINE k0  == m[id]
             old == g[k0]
             new == [old EXCEPT !.checks = Append(old.checks, Here),
                                !.counts = Count(old.counts, s)]
  <2>1. k0 \in 1..Len(g) /\ g[k0].id = id
    BY <1>2, <1>3 DEF GroupsIndexed
  <2>2. old \in NewGroups
    BY <1>2, <2>1, ElementOfSeq
  <2>3. Append(old.checks, Here) \in Seq(Positions)
    BY <1>1, <2>2 DEF NewGroups
  <2>4. Count(old.counts, s) \in [States -> Nat]
    BY <2>2, CountType DEF NewGroups
  <2>5. /\ new \in NewGroups
        /\ new.id = id
        /\ new.checks = Append(old.checks, Here)
        /\ new.counts = Count(old.counts, s)
    BY <2>1, <2>2, <2>3, <2>4 DEF NewGroups
  <2>6. g' = [g EXCEPT ![k0] = new] /\ m' = m
    BY <1>3 DEF Report
  <2> HIDE DEF new
  <2>7. /\ g' \in Seq(NewGroups)
        /\ Len(g') = Len(g)
        /\ \A k \in 1..Len(g) : g'[k] = IF k = k0 THEN new ELSE g[k]
    <3>1. \A k \in 1..Len(g) : g'[k] = IF k = k0 THEN new ELSE g[k]
      BY <1>2, <2>6
    <3> HIDE DEF k0
    <3> QED
      BY <1>2, <2>1, <2>5, <2>6, <3>1, ExceptSeq
  <2>8. DOMAIN g' = 1..Len(g)
    BY <2>7, LenProperties
  <2>9. Slot = k0
    BY <1>3 DEF Slot
  <2>10. m' \in [DOMAIN m' -> DOMAIN g']
    BY <1>2, <2>6, <2>8
  <2>11. DOMAIN m' = DOMAIN m \cup {id}
    BY <1>3, <2>6
  <2>12. Slot \in 1..Len(g') /\ Slot # Len(g) + 1
    BY <1>2, <2>1, <2>7, <2>9
  <2>13. g'[Slot] = new
    BY <2>1, <2>7, <2>9
  <2>14. \A k \in 1..Len(g) : k # Slot => k \in 1..Len(g') /\ g'[k] = g[k]
    BY <2>7, <2>9
  <2> QED
    BY <1>3, <2>1, <2>5, <2>6, <2>7, <2>9, <2>10, <2>11, <2>12, <2>13, <2>14
    DEF ReportEffect
<1>4. CASE id \notin DOMAIN m
  <2> DEFINE new == [id |-> id, counts |-> Count(NoCounts, s),
                     checks |-> <<Here>>]
  <2>1. Count(NoCounts, s) \in [States -> Nat]
    BY CountType, NoCountsType
  <2>2. <<Here>> \in Seq(Positions)
    BY <1>1
  <2>3. new \in NewGroups
    BY <1>1, <2>1, <2>2 DEF NewGroups
  <2>4. /\ g' = Append(g, new)
        /\ m' = [i \in DOMAIN m \cup {id} |->
                   IF i = id THEN Len(g) + 1 ELSE m[i]]
    BY <1>4 DEF Report
  <2>5. /\ g' \in Seq(NewGroups)
        /\ Len(g') = Len(g) + 1
        /\ g'[Len(g) + 1] = new
        /\ \A k \in 1..Len(g) : g'[k] = g[k]
    BY <1>2, <2>3, <2>4, AppendProperties
  <2>6. DOMAIN g' = 1..Len(g) + 1
    BY <2>5, LenProperties
  <2>7. Slot = Len(g) + 1
    BY <1>4 DEF Slot
  <2>8. m' \in [DOMAIN m' -> DOMAIN g']
    BY <1>2, <2>4, <2>6
  <2>9. /\ Slot \in 1..Len(g')
        /\ \A k \in 1..Len(g') : k # Slot => k \in 1..Len(g)
        /\ \A k \in 1..Len(g) : k \in 1..Len(g')
    BY <1>2, <2>5, <2>7
  <2> QED
    BY <1>4, <2>4, <2>5, <2>7, <2>8, <2>9 DEF ReportEffect
<1> QED
  BY <1>3, <1>4

-----------------------------------------------------------------------------
(* The inductive invariant.  That the counts are right after one more check *)
(* needs that the check was not counted before (it is at the cursor, and    *)
(* only checks before the cursor have been run), that the checks counted so *)
(* far are finitely many, and that m leads to the group of the check's ID.  *)

RunSoFar == {p \in Positions : state[p] # ""}

CursorSeparates ==
  \A p \in Positions :
    IF state[p] = ""
    THEN type[p] = CheckAt(p).type /\ ~(Selected(p) /\ Before(p, Here))
    ELSE Selected(p) /\ Before(p, Here) /\ GroupOf(p).id \in DOMAIN m

IInv ==
  /\ TypeOK
  /\ GroupsIndexed
  /\ CursorSeparates
  /\ IsFiniteSet(RunSoFar)
  /\ SummaryCounts
  /\ GroupCounts

\* No position is before the first one.
LEMMA InitIInv == Init => IInv
<1> SUFFICES ASSUME Init PROVE IInv
  OBVIOUS
<1>1. file \in Seq(FileGroup)
  BY FilesAssumption DEF Init, FileGroup
<1>start. /\ type = [p \in Positions |-> CheckAt(p).type]
          /\ state = [p \in Positions |-> ""]
          /\ summary = NoCounts
  BY DEF Init
<1>empty. DOMAIN g = {} /\ DOMAIN m = {}
  <2>1. g = <<>> /\ m = [id \in {} |-> 0]
    BY DEF Init
  <2> QED
    BY <2>1
<1>cursor. gi = 1 /\ ci = 1
  BY DEF Init
<1>2. \A p \in Positions : CheckAt(p) \in Descriptions /\ ~Before(p, Here)
  <2> TAKE p \in Positions
  <2>1. PICK i \in DOMAIN file : p \in {i} \X DOMAIN file[i].checks
    BY DEF Positions
  <2>2. p[1] = i /\ p[2] \in DOMAIN file[i].checks
    BY <2>1
  <2>3. i \in 1..Len(file) /\ file[i] \in FileGroup
    BY <1>1, <2>1, LenProperties, ElementOfSeq
  <2>4. file[i].checks \in Seq(Descriptions)
    BY <2>3 DEF FileGroup
  <2>5. /\ p[2] \in 1..Len(file[i].checks)
        /\ file[i].checks[p[2]] \in Descriptions
    BY <2>2, <2>4, LenProperties, ElementOfSeq
  <2>6. Len(file) \in Nat /\ Len(file[i].checks) \in Nat
    BY <1>1, <2>4, LenProperties
  <2>7. p[1] \in Int /\ p[1] >= 1 /\ p[2] \in Int /\ p[2] >= 1
    BY <2>2, <2>3, <2>5, <2>6
  <2>8. ~Before(p, Here)
    BY <1>cursor, <2>7 DEF Before, Here
  <2> QED
    BY <2>2, <2>5, <2>8 DEF CheckAt, GroupOf
<1>3. TypeOK
  <2>1. type \in [Positions -> Types]
    BY <1>start, <1>2 DEF Descriptions
  <2>2. g \in Seq(NewGroups)
    BY EmptySeq DEF Init
  <2>3. m \in [DOMAIN m -> DOMAIN g]
    BY DEF Init
  <2>4. summary \in [States -> Nat]
    BY <1>start, NoCountsType
  <2>5. state \in [Positions -> States \cup {""}]
    BY <1>start
  <2>6. /\ file \in Files /\ opts \in Options /\ skipIDs \in Skips
        /\ pc = "filter"
    BY DEF Init
  <2>7. gi \in Nat \ {0} /\ ci \in Nat \ {0}
    BY <1>cursor
  <2> QED
    BY <2>1, <2>2, <2>3, <2>4, <2>5, <2>6, <2>7 DEF TypeOK
<1>5. GroupsIndexed
  BY <1>empty DEF GroupsIndexed
<1>6. \A p \in Positions : state[p] = "" /\ type[p] = CheckAt(p).type
  BY <1>start
<1>7. CursorSeparates
  BY <1>2, <1>6 DEF CursorSeparates
<1>8. RunSoFar = {} /\ \A s \in States : InState(s) = {}
  BY <1>6 DEF RunSoFar, InState, States
<1>9. IsFiniteSet(RunSoFar)
  BY <1>8, FS_EmptySet
<1>10. SummaryCounts
  BY <1>start, <1>8, FS_EmptySet, NoCountsType DEF SummaryCounts
<1>11. GroupCounts
  BY <1>empty DEF GroupCounts
<1> QED
  BY <1>3, <1>5, <1>7, <1>9, <1>10, <1>11 DEF IInv

\* A position before the cursor stays before it as the cursor advances, and
\* in the loop over a group only the cursor's own position comes to be.
LEMMA CursorAdvances ==
  ASSUME TypeOK, AtCheck, NEW p \in Positions
  PROVE  /\ ~Before(Here, Here)
         /\ Before(p, <<gi, ci + 1>>) <=> Before(p, Here) \/ p = Here
<1>1. file \in Seq(FileGroup)
  BY InputTypes
<1>2. PICK i \in DOMAIN file : p \in {i} \X DOMAIN file[i].checks
  BY DEF Positions
<1>3. p = <<p[1], p[2]>> /\ p[1] = i /\ p[2] \in DOMAIN file[i].checks
  BY <1>2
<1>4. i \in 1..Len(file) /\ file[i] \in FileGroup /\ Len(file) \in Nat
  BY <1>1, <1>2, LenProperties, ElementOfSeq
<1>5. file[i].checks \in Seq(Descriptions)
  BY <1>4 DEF FileGroup
<1>6. p[1] \in Int /\ p[2] \in Int
  <2>1. /\ DOMAIN file[i].checks = 1..Len(file[i].checks)
        /\ Len(file[i].checks) \in Nat
    BY <1>5, LenProperties
  <2> QED
    BY <1>3, <1>4, <2>1
<1>7. gi \in Int /\ ci \in Int
  <2>1. gi \in Nat \ {0} /\ ci \in Nat \ {0}
    BY DEF TypeOK
  <2> QED
    BY <2>1
<1> QED
  BY <1>3, <1>6, <1>7 DEF Before, Here

\* Running the check at the cursor.
LEMMA RunCheckIInv == IInv /\ RunCheck => IInv'
<1> SUFFICES ASSUME IInv, RunCheck PROVE IInv'
  OBVIOUS
<1> DEFINE id == file[gi].id
<1>1. TypeOK /\ GroupsIndexed /\ CursorSeparates /\ AtCheck
  BY DEF IInv, RunCheck
<1>2. /\ Here \in Positions
      /\ GroupOf(Here) = file[gi]
      /\ id \in STRING
      /\ CheckAt(Here) \in Descriptions
  BY <1>1, HereIsPosition DEF FileGroup
<1>3. PICK s \in States :
        /\ state' = [state EXCEPT ![Here] = s]
        /\ Report(s)
        /\ summary' = Count(summary, s)
  BY AllowedStates DEF RunCheck, Summarize
<1>4. /\ type' = [type EXCEPT ![Here] = TypeRun]
      /\ gi' = gi /\ ci' = ci + 1 /\ pc' = pc
      /\ file' = file /\ opts' = opts /\ skipIDs' = skipIDs
  BY DEF RunCheck, input
<1>5. /\ Positions' = Positions
      /\ \A p : /\ GroupOf(p)' = GroupOf(p)
              /\ CheckAt(p)' = CheckAt(p)
              /\ Selected(p)' = Selected(p)
  BY <1>4 DEF Positions, GroupOf, CheckAt, Selected
<1>6. /\ ReportEffect(s)
      /\ g' \in Seq(NewGroups)
      /\ m' \in [DOMAIN m' -> DOMAIN g']
  BY <1>1, <1>3, ReportHasEffect
<1>7. state[Here] = "" /\ s # ""
  BY <1>1, <1>2, CursorAdvances DEF CursorSeparates, States
<1>8. /\ state \in [Positions -> States \cup {""}]
      /\ type \in [Positions -> Types]
      /\ summary \in [States -> Nat]
      /\ g \in Seq(NewGroups) /\ Len(g) \in Nat /\ DOMAIN g = 1..Len(g)
      /\ DOMAIN g' = 1..Len(g') /\ Len(g') \in Nat
      /\ gi \in Nat \ {0} /\ ci \in Nat \ {0}
      /\ m \in [DOMAIN m -> DOMAIN g]
  BY <1>1, <1>6, LenProperties DEF TypeOK
<1>9. \A p \in Positions : state'[p] = IF p = Here THEN s ELSE state[p]
  BY <1>3, <1>8
<1>10. TypeOK'
  <2>1. type' \in [Positions -> Types]
    BY <1>2, <1>4, <1>8 DEF TypeRun, Types
  <2>2. state' \in [Positions -> States \cup {""}]
    BY <1>3, <1>8
  <2>3. summary' \in [States -> Nat]
    BY <1>3, <1>8, CountType
  <2>4. gi' \in Nat \ {0} /\ ci' \in Nat \ {0}
    <3>1. gi \in Nat \ {0} /\ ci \in Nat \ {0}
      BY <1>8
    <3>2. gi' = gi /\ ci' = ci + 1
      BY <1>4
    <3> QED
      BY <3>1, <3>2
  <2>5. NewGroups' = NewGroups
    BY <1>5 DEF NewGroups
  <2>6. /\ file' \in Files /\ opts' \in Options /\ skipIDs' \in Skips
        /\ pc' \in {"filter", "loop", "done", "exit"}
    BY <1>1, <1>4 DEF TypeOK
  <2> QED
    BY <1>5, <1>6, <2>1, <2>2, <2>3, <2>4, <2>5, <2>6 DEF TypeOK
<1>11. GroupsIndexed'
  <2>1. ASSUME NEW k \in 1..Len(g')
        PROVE  g'[k].id \in DOMAIN m' /\ m'[g'[k].id] = k
    <3>1. CASE k = Slot
      BY <1>6, <3>1 DEF ReportEffect
    <3>2. CASE k # Slot
      <4>1. k \in 1..Len(g) /\ g'[k] = g[k]
        BY <1>6, <3>2 DEF ReportEffect
      <4>2. g[k].id \in DOMAIN m /\ m[g[k].id] = k
        BY <1>1, <1>8, <4>1 DEF GroupsIndexed
      <4> QED
        BY <1>6, <4>1, <4>2 DEF ReportEffect
    <3> QED
      BY <3>1, <3>2
  <2>2. ASSUME NEW i \in DOMAIN m'
        PROVE  g'[m'[i]].id = i
    <3>1. CASE i = id
      BY <1>6, <3>1 DEF ReportEffect
    <3>2. CASE i # id
      <4>1. i \in DOMAIN m /\ m'[i] = m[i] /\ m[i] \in 1..Len(g) /\ g[m[i]].id = i
        BY <1>1, <1>6, <1>8, <3>2 DEF ReportEffect, GroupsIndexed
      <4>2. m[i] # Slot
        <5>1. CASE Slot = Len(g) + 1
          <6>1. Len(g) \in Nat /\ m[i] \in 1..Len(g)
            BY <1>8, <4>1
          <6> QED
            BY <5>1, <6>1
        <5>2. CASE Slot # Len(g) + 1
          <6>1. g[Slot].id = id
            BY <1>6, <5>2 DEF ReportEffect
          <6> QED
            BY <3>2, <4>1, <6>1
        <5> QED
          BY <5>1, <5>2
      <4> QED
        BY <1>6, <4>1, <4>2 DEF ReportEffect
    <3> QED
      BY <3>1, <3>2
  <2> QED
    BY <1>8, <2>1, <2>2 DEF GroupsIndexed
<1>12. CursorSeparates'
  <2>1. Here' = <<gi, ci + 1>>
    BY <1>4 DEF Here
  <2>2. Selected(Here)
    BY DEF RunCheck
  <2>3. ASSUME NEW p \in Positions
        PROVE  IF state'[p] = ""
               THEN type'[p] = CheckAt(p).type /\ ~(Selected(p) /\ Before(p, Here)')
               ELSE Selected(p) /\ Before(p, Here)' /\ GroupOf(p).id \in DOMAIN m'
    <3>1. Before(p, Here)' <=> Before(p, Here) \/ p = Here
      BY <1>1, <2>1, CursorAdvances DEF Before
    <3>2. CASE p = Here
      BY <1>2, <1>6, <1>7, <1>9, <2>2, <3>1, <3>2 DEF ReportEffect
    <3>3. CASE p # Here
      <4>1. state'[p] = state[p] /\ type'[p] = type[p]
        BY <1>4, <1>8, <1>9, <3>3
      <4>2. DOMAIN m \subseteq DOMAIN m'
        BY <1>6 DEF ReportEffect
      <4> QED
        BY <1>1, <3>1, <3>3, <4>1, <4>2 DEF CursorSeparates
    <3> QED
      BY <3>2, <3>3
  <2> QED
    BY <1>5, <2>3 DEF CursorSeparates
<1>13. IsFiniteSet(RunSoFar)'
  <2>1. RunSoFar' = RunSoFar \cup {Here}
    BY <1>2, <1>5, <1>7, <1>9 DEF RunSoFar
  <2> QED
    BY <2>1, FS_AddElement DEF IInv
<1>14. \A t \in States : InState(t) \subseteq RunSoFar /\ IsFiniteSet(InState(t))
  <2>1. \A t \in States : InState(t) \subseteq RunSoFar
    BY DEF InState, RunSoFar, States
  <2> QED
    BY <2>1, FS_Subset DEF IInv
<1>15. /\ InState(s)' = InState(s) \cup {Here}
       /\ Here \notin InState(s)
       /\ \A t \in States : t # s => InState(t)' = InState(t)
  BY <1>2, <1>5, <1>7, <1>9 DEF InState, States
<1>16. SummaryCounts'
  <2>1. Cardinality(InState(s) \cup {Here}) = Cardinality(InState(s)) + 1
    BY <1>14, <1>15, FS_AddElement
  <2>2. /\ summary'[s] = summary[s] + 1
        /\ \A t \in States : t # s => summary'[t] = summary[t]
    BY <1>3, <1>8, CountType
  <2>3. \A t \in States : summary[t] = Cardinality(InState(t))
    BY DEF IInv, SummaryCounts
  <2>4. \A t \in States : summary'[t] = Cardinality(InState(t)')
    BY <1>15, <2>1, <2>2, <2>3
  <2> QED
    BY <2>4 DEF SummaryCounts
<1>17. GroupCounts'
  <2> DEFINE Old(i, t) == {p \in {q \in Positions : state[q] = t} : file[p[1]].id = i}
             New(i, t) == {p \in {q \in Positions : state'[q] = t} : file[p[1]].id = i}
  <2>1. \A i : \A t \in States : IsFiniteSet(Old(i, t))
    <3>1. \A i : \A t \in States : Old(i, t) \subseteq RunSoFar
      BY DEF RunSoFar, States
    <3> QED
      BY <3>1, FS_Subset DEF IInv
  <2>2. \A i : \A t \in States : i # id \/ t # s => New(i, t) = Old(i, t)
    BY <1>2, <1>7, <1>9 DEF GroupOf, States
  <2>3. /\ New(id, s) = Old(id, s) \cup {Here}
        /\ Here \notin Old(id, s)
    BY <1>2, <1>7, <1>9 DEF GroupOf
  <2>4. /\ Cardinality(New(id, s)) = Cardinality(Old(id, s)) + 1
        /\ Cardinality(Old(id, s)) \in Nat
    <3> HIDE DEF Old, New
    <3>1. IsFiniteSet(Old(id, s))
      BY <2>1
    <3>2. Cardinality(Old(id, s) \cup {Here}) = Cardinality(Old(id, s)) + 1
      BY <2>3, <3>1, FS_AddElement
    <3> QED
      BY <2>3, <3>1, <3>2, FS_CardinalityType
  <2>5. \A k \in 1..Len(g) : \A t \in States :
          g[k].counts[t] = Cardinality(Old(g[k].id, t))
    BY <1>8 DEF IInv, GroupCounts, InStateOf, InState, GroupOf
  <2>6. ASSUME NEW k \in 1..Len(g'), NEW t \in States
        PROVE  g'[k].counts[t] = Cardinality(New(g'[k].id, t))
    <3> HIDE DEF Old, New
    <3>1. CASE k # Slot
      <4>1. k \in 1..Len(g) /\ g'[k] = g[k]
        BY <1>6, <3>1 DEF ReportEffect
      <4>2. g[k].id # id
        <5>1. m'[id] = Slot
          BY <1>6 DEF ReportEffect
        <5>2. m'[g'[k].id] = k
          BY <1>8, <1>11 DEF GroupsIndexed
        <5> QED
          BY <3>1, <4>1, <5>1, <5>2
      <4> QED
        BY <2>2, <2>5, <4>1, <4>2
    <3>2. CASE k = Slot
      <4>1. g'[k].id = id
        BY <1>6, <3>2 DEF ReportEffect
      <4>2. PICK c \in [States -> Nat] :
              /\ g'[k].counts = Count(c, s)
              /\ \A u \in States : c[u] = Cardinality(Old(id, u))
        <5>1. CASE Slot # Len(g) + 1
          <6>1. /\ Slot \in 1..Len(g)
                /\ g[Slot].id = id
                /\ g'[Slot].counts = Count(g[Slot].counts, s)
            BY <1>6, <5>1 DEF ReportEffect
          <6>2. g[Slot] \in NewGroups
            BY <1>8, <6>1, ElementOfSeq
          <6>3. g[Slot].counts \in [States -> Nat]
            BY <6>2 DEF NewGroups
          <6> QED
            BY <2>5, <3>2, <6>1, <6>3
        <5>2. CASE Slot = Len(g) + 1
          <6>1. /\ id \notin DOMAIN m
                /\ g'[Slot].counts = Count(NoCounts, s)
            BY <1>6, <5>2 DEF ReportEffect
          <6>2. \A u \in States : Old(id, u) = {}
            BY <1>1, <6>1 DEF CursorSeparates, GroupOf, Old, States
          <6> QED
            BY <3>2, <6>1, <6>2, FS_EmptySet, NoCountsType
        <5> QED
          BY <5>1, <5>2
      <4>3. /\ g'[k].counts[s] = c[s] + 1
            /\ \A u \in States : u # s => g'[k].counts[u] = c[u]
        BY <4>2, CountType
      <4>4. CASE t = s
        BY <2>4, <4>1, <4>2, <4>3, <4>4
      <4>5. CASE t # s
        BY <2>2, <4>1, <4>2, <4>3, <4>5
      <4> QED
        BY <4>4, <4>5
    <3> QED
      BY <3>1, <3>2
  <2>7. /\ DOMAIN g' = 1..Len(g')
        /\ Positions' = Positions
        /\ file' = file
    BY <1>4, <1>5, <1>8
  <2> QED
    BY <2>6, <2>7 DEF GroupCounts, InStateOf, InState, GroupOf
<1> QED
  BY <1>10, <1>11, <1>12, <1>13, <1>16, <1>17 DEF IInv

\* The steps that only move the cursor or the program counter.
LEMMA OtherStepsIInv ==
  IInv /\ (BuildFilter \/ LeaveOut \/ NextGroup \/ Finish \/ UNCHANGED vars)
  => IInv'
<1> SUFFICES ASSUME IInv,
                    BuildFilter \/ LeaveOut \/ NextGroup \/ Finish \/ UNCHANGED vars
             PROVE  IInv'
  OBVIOUS
<1>1. /\ file' = file /\ opts' = opts /\ skipIDs' = skipIDs
      /\ type' = type /\ state' = state /\ g' = g /\ m' = m /\ summary' = summary
  BY DEF BuildFilter, LeaveOut, NextGroup, Finish, vars, input, loop
<1>2. /\ Positions' = Positions
      /\ \A p : /\ GroupOf(p)' = GroupOf(p)
              /\ CheckAt(p)' = CheckAt(p)
              /\ Selected(p)' = Selected(p)
  BY <1>1 DEF Positions, GroupOf, CheckAt, Selected
<1>3. TypeOK /\ CursorSeparates
  BY DEF IInv
<1>4. gi \in Nat \ {0} /\ ci \in Nat \ {0}
  BY <1>3 DEF TypeOK
<1>5. /\ gi' \in Nat \ {0} /\ ci' \in Nat \ {0}
      /\ pc' \in {"filter", "loop", "done", "exit"}
  <2>1. CASE BuildFilter
    BY <1>4, <2>1 DEF BuildFilter, loop
  <2>6. pc \in {"filter", "loop", "done", "exit"}
    BY <1>3 DEF TypeOK
  <2>2. CASE LeaveOut
    <3>1. gi' = gi /\ ci' = ci + 1 /\ pc' = pc
      BY <2>2 DEF LeaveOut
    <3>2. ci + 1 \in Nat \ {0}
      BY <1>4
    <3> QED
      BY <1>4, <2>6, <3>1, <3>2
  <2>3. CASE NextGroup
    <3>1. gi' = gi + 1 /\ ci' = 1 /\ pc' = pc
      BY <2>3 DEF NextGroup
    <3>2. gi + 1 \in Nat \ {0} /\ 1 \in Nat \ {0}
      BY <1>4
    <3> QED
      BY <2>6, <3>1, <3>2
  <2>4. CASE Finish
    BY <1>4, <2>4 DEF Finish, loop
  <2>5. CASE UNCHANGED vars
    BY <1>3, <1>4, <2>5 DEF vars, TypeOK
  <2> QED
    BY <2>1, <2>2, <2>3, <2>4, <2>5
<1>6. TypeOK'
  <2>1. NewGroups' = NewGroups
    BY <1>2 DEF NewGroups
  <2> QED
    BY <1>1, <1>2, <1>3, <1>5, <2>1 DEF TypeOK
<1>7. GroupsIndexed'
  BY <1>1 DEF IInv, GroupsIndexed
<1>8. IsFiniteSet(RunSoFar)'
  BY <1>1, <1>2 DEF IInv, RunSoFar
<1>9. SummaryCounts'
  BY <1>1, <1>2 DEF IInv, SummaryCounts, InState
<1>10. GroupCounts'
  BY <1>1, <1>2 DEF IInv, GroupCounts, InStateOf, InState, GroupOf
<1>11. ASSUME NEW p \in Positions
       PROVE  /\ Before(p, Here) => Before(p, Here)'
              /\ Before(p, Here)' => Before(p, Here) \/ ~Selected(p)
  <2>1. CASE BuildFilter \/ Finish \/ UNCHANGED vars
    <3>1. Here' = Here
      BY <2>1 DEF BuildFilter, Finish, loop, vars, Here
    <3> QED
      BY <3>1 DEF Before
  <2>2. CASE LeaveOut
    <3>1. Here' = <<gi, ci + 1>> /\ ~Selected(Here) /\ AtCheck
      BY <2>2 DEF LeaveOut, Here
    <3>2. Before(p, <<gi, ci + 1>>) <=> Before(p, Here) \/ p = Here
      BY <1>3, <3>1, CursorAdvances
    <3> QED
      BY <3>1, <3>2 DEF Before
  <2>3. CASE NextGroup
    <3>1. Here' = <<gi + 1, 1>> /\ gi <= Len(file) /\ ci > Len(file[gi].checks)
      BY <2>3 DEF NextGroup, Here
    <3>2. PICK i \in DOMAIN file : p \in {i} \X DOMAIN file[i].checks
      BY DEF Positions
    <3>3. file \in Seq(FileGroup)
      BY <1>3, InputTypes
    <3>4. i \in 1..Len(file) /\ file[i] \in FileGroup /\ Len(file) \in Nat
      BY <3>2, <3>3, LenProperties, ElementOfSeq
    <3>5. file[i].checks \in Seq(Descriptions)
      BY <3>4 DEF FileGroup
    <3>6. /\ p[1] = i /\ p[2] \in 1..Len(file[i].checks)
          /\ Len(file[i].checks) \in Nat
      BY <3>2, <3>5, LenProperties
    <3>7. i \in Int /\ p[2] \in Int /\ p[2] >= 1 /\ p[2] <= Len(file[i].checks)
      BY <3>4, <3>6
    <3>8. gi \in Int /\ ci \in Int
      BY <1>4
    <3>9. Before(p, <<gi + 1, 1>>) <=> Before(p, Here)
      <4>1. CASE i = gi
        <5>1. p[2] < ci
          BY <3>1, <3>6, <3>7, <3>8, <4>1
        <5> QED
          BY <3>6, <3>7, <3>8, <4>1, <5>1 DEF Before, Here
      <4>2. CASE i # gi
        BY <3>6, <3>7, <3>8, <4>2 DEF Before, Here
      <4> QED
        BY <4>1, <4>2
    <3> QED
      BY <3>1, <3>9 DEF Before
  <2> QED
    BY <2>1, <2>2, <2>3
<1>12. CursorSeparates'
  BY <1>1, <1>2, <1>3, <1>11 DEF CursorSeparates
<1> QED
  BY <1>6, <1>7, <1>8, <1>9, <1>10, <1>12 DEF IInv

\* Whatever the file and the command line, the summary counts every check that
\* has been run exactly once, in the state it was left in; the counts of each
\* new group are right; and no two new groups share an ID.
THEOREM InvariantHolds == Spec => []IInv
<1>1. IInv /\ [Next]_vars => IInv'
  BY RunCheckIInv, OtherStepsIInv DEF Next, Stopped
<1> QED
  BY InitIInv, <1>1, PTL DEF Spec

\* Controls never leaves the types of its variables.
THEOREM TypeCorrect == Spec => []TypeOK
<1>1. IInv => TypeOK
  BY DEF IInv
<1> QED
  BY InvariantHolds, <1>1, PTL

\* The summary counts the checks that have been run by their states.
THEOREM SummaryCorrect == Spec => []SummaryCounts
<1>1. IInv => SummaryCounts
  BY DEF IInv
<1> QED
  BY InvariantHolds, <1>1, PTL

\* The counts of a new group are those of the checks with its group ID.
THEOREM GroupsCorrect == Spec => [](GroupCounts /\ GroupsIndexed)
<1>1. IInv => GroupCounts /\ GroupsIndexed
  BY DEF IInv
<1> QED
  BY InvariantHolds, <1>1, PTL

\* The runner answers INFO exactly when it is given a check of type skip.
LEMMA InfoMeansSkip ==
  ASSUME NEW c, NEW s \in Allowed(c)
  PROVE  s = "INFO" <=> c.type = "skip"
BY DEF Allowed, Incomplete, NotPassed

LEMMA RunCheckSkips == IInv /\ SkipMeansInfo /\ RunCheck => SkipMeansInfo'
<1> SUFFICES ASSUME IInv, SkipMeansInfo, RunCheck PROVE SkipMeansInfo'
  OBVIOUS
<1>1. TypeOK /\ CursorSeparates /\ AtCheck
  BY DEF IInv, RunCheck
<1>2. Here \in Positions /\ CheckAt(Here) \in Descriptions
  BY <1>1, HereIsPosition
<1> DEFINE c == [CheckAt(Here) EXCEPT !.type = TypeRun]
<1>3. PICK s \in Allowed(c) : state' = [state EXCEPT ![Here] = s]
  BY DEF RunCheck
<1>4. file' = file /\ skipIDs' = skipIDs
  BY DEF RunCheck, input
<1>5. /\ Positions' = Positions
      /\ \A p : Skipped(p)' = Skipped(p) /\ CheckAt(p)' = CheckAt(p)
  BY <1>4 DEF Positions, Skipped, GroupOf, CheckAt
<1>6. \A p \in Positions : state'[p] = IF p = Here THEN s ELSE state[p]
  <2>1. state \in [Positions -> States \cup {""}]
    BY <1>1 DEF TypeOK
  <2> QED
    BY <1>2, <1>3, <2>1
<1>7. type[Here] = CheckAt(Here).type
  <2>1. state[Here] = ""
    BY <1>1, <1>2, CursorAdvances DEF CursorSeparates
  <2> QED
    BY <1>1, <1>2, <2>1 DEF CursorSeparates
<1>8. c.type = TypeRun
  BY <1>2 DEF Descriptions
<1>9. s = "INFO" <=> Skipped(Here) \/ CheckAt(Here).type = "skip"
  BY <1>3, <1>7, <1>8, InfoMeansSkip DEF TypeRun
<1>10. ASSUME NEW p \in Positions, state'[p] # ""
       PROVE  state'[p] = "INFO" <=> Skipped(p) \/ CheckAt(p).type = "skip"
  BY <1>6, <1>9, <1>10 DEF SkipMeansInfo
<1> QED
  BY <1>5, <1>10 DEF SkipMeansInfo

\* A check is reported as INFO if and only if it is skipped, by its own type,
\* by that of its group, or by --skip with the ID of the check or of the group.
THEOREM SkipCorrect == Spec => []SkipMeansInfo
<1>1. Init => SkipMeansInfo
  BY DEF Init, SkipMeansInfo
<1>2. SkipMeansInfo /\ (BuildFilter \/ LeaveOut \/ NextGroup \/ Finish \/ UNCHANGED vars)
      => SkipMeansInfo'
  <2> SUFFICES ASSUME SkipMeansInfo, file' = file, skipIDs' = skipIDs, state' = state
               PROVE  SkipMeansInfo'
    BY DEF BuildFilter, LeaveOut, NextGroup, Finish, vars, input, loop
  <2> QED
    <3>1. Positions' = Positions
      BY DEF Positions
    <3>2. ASSUME NEW p
          PROVE  /\ Skipped(p)' <=> Skipped(p)
                 /\ CheckAt(p)' = CheckAt(p)
      BY DEF Skipped, GroupOf, CheckAt
    <3> QED
      BY <3>1, <3>2 DEF SkipMeansInfo
<1>3. IInv /\ SkipMeansInfo /\ [Next]_vars => SkipMeansInfo'
  BY RunCheckSkips, <1>2 DEF Next, Stopped
<1> QED
  BY InvariantHolds, <1>1, <1>3, PTL DEF Spec

-----------------------------------------------------------------------------
(* The report is complete and in the order of the file.                     *)

(* What is listed has been run, what has been run is listed, and no new     *)
(* group is empty.  Together with CursorSeparates this puts the check at    *)
(* the cursor behind all that is listed.                                    *)
Lists ==
  /\ \A k \in DOMAIN g : \A i \in DOMAIN g[k].checks :
       /\ state[g[k].checks[i]] # ""
       /\ GroupOf(g[k].checks[i]).id = g[k].id
  /\ \A p \in RunSoFar : Listed(p)
  /\ \A k \in DOMAIN g : 1 \in DOMAIN g[k].checks
  /\ pc = "done" => gi > Len(file)

-----------------------------------------------------------------------------
\* The lists of the new groups, with their domains.
LEMMA ListTypes ==
  ASSUME TypeOK
  PROVE  /\ Len(g) \in Nat /\ DOMAIN g = 1..Len(g)
         /\ \A k \in DOMAIN g :
              /\ g[k].checks \in Seq(Positions)
              /\ Len(g[k].checks) \in Nat
              /\ DOMAIN g[k].checks = 1..Len(g[k].checks)
              /\ \A i \in DOMAIN g[k].checks : g[k].checks[i] \in Positions
<1>1. g \in Seq(NewGroups)
  BY DEF TypeOK
<1>2. Len(g) \in Nat /\ DOMAIN g = 1..Len(g)
  BY <1>1, LenProperties
<1>3. ASSUME NEW k \in DOMAIN g
      PROVE  /\ g[k].checks \in Seq(Positions)
             /\ Len(g[k].checks) \in Nat
             /\ DOMAIN g[k].checks = 1..Len(g[k].checks)
             /\ \A i \in DOMAIN g[k].checks : g[k].checks[i] \in Positions
  <2>1. g[k] \in NewGroups
    BY <1>1, <1>2, <1>3, ElementOfSeq
  <2>2. g[k].checks \in Seq(Positions)
    BY <2>1 DEF NewGroups
  <2> QED
    BY <2>2, LenProperties, ElementOfSeq
<1> QED
  BY <1>2, <1>3

Kept(k, i) ==
  /\ k \in DOMAIN g /\ i \in DOMAIN g[k].checks
  /\ g'[k].checks[i] = g[k].checks[i]
  /\ g'[k].id = g[k].id

Joined(k, i) ==
  /\ k = Slot
  /\ g'[k].checks[i] = Here
  /\ g'[k].id = file[gi].id
  /\ i = Len(g'[k].checks)

\* A report keeps every entry in its place, and adds the check at the cursor
\* as the last one of the group of its ID, or as the first of a last group.
LEMMA ReportAdds ==
  ASSUME IInv, Lists, AtCheck, NEW s \in States, Report(s)
  PROVE  /\ \A k \in DOMAIN g : k \in DOMAIN g' /\ \A i \in DOMAIN g[k].checks :
              i \in DOMAIN g'[k].checks /\ Kept(k, i)
         /\ \A k \in DOMAIN g' : \A i \in DOMAIN g'[k].checks :
              Kept(k, i) \/ Joined(k, i)
         /\ \A k \in DOMAIN g' : 1 \in DOMAIN g'[k].checks
         /\ \A k \in DOMAIN g' : k \in DOMAIN g \/ k = Len(g) + 1
         /\ Slot \in DOMAIN g'
         /\ \E i \in DOMAIN g'[Slot].checks : Joined(Slot, i)
         /\ \A k \in DOMAIN g' : \A i \in DOMAIN g'[k].checks :
              i \in 1..Len(g'[k].checks) /\ Len(g'[k].checks) \in Nat
<1>1. TypeOK /\ GroupsIndexed
  BY DEF IInv
<1>2. /\ ReportEffect(s)
      /\ g' \in Seq(NewGroups)
  BY <1>1, ReportHasEffect
<1>3. Len(g') \in Nat /\ DOMAIN g' = 1..Len(g')
  BY <1>2, LenProperties
<1>4. Len(g) \in Nat /\ DOMAIN g = 1..Len(g)
  BY <1>1, ListTypes
<1>5. Slot \in DOMAIN g' /\ g'[Slot].id = file[gi].id
  BY <1>2, <1>3 DEF ReportEffect
<1>6. Here \in Positions
  BY <1>1, HereIsPosition
<1>7. \A k \in DOMAIN g' : k # Slot => k \in DOMAIN g /\ g'[k] = g[k]
  BY <1>2, <1>3, <1>4 DEF ReportEffect
<1>8. \A k \in DOMAIN g : k # Slot => k \in DOMAIN g' /\ g'[k] = g[k]
  BY <1>2, <1>3, <1>4 DEF ReportEffect
<1>9. CASE Slot = Len(g) + 1
  <2>1. g'[Slot].checks = <<Here>>
    BY <1>2, <1>9 DEF ReportEffect
  <2>2. Slot \notin DOMAIN g
    BY <1>4, <1>9
  <2>3. /\ DOMAIN g'[Slot].checks = {1} /\ Len(g'[Slot].checks) = 1
        /\ g'[Slot].checks[1] = Here
    BY <2>1
  <2>4. Joined(Slot, 1)
    BY <1>5, <2>3 DEF Joined
  <2>5. \A k \in DOMAIN g' : k # Slot => 1 \in DOMAIN g'[k].checks
    BY <1>7 DEF Lists
  <2>6. \A k \in DOMAIN g : k \in DOMAIN g' /\ g'[k] = g[k]
    BY <1>8, <2>2
  <2>7. \A k \in DOMAIN g' : \A i \in DOMAIN g'[k].checks :
          i \in 1..Len(g'[k].checks) /\ Len(g'[k].checks) \in Nat
    BY <1>1, <1>7, <2>3, ListTypes
  <2> QED
    BY <1>5, <1>7, <1>9, <2>3, <2>4, <2>5, <2>6, <2>7 DEF Kept
<1>10. CASE Slot # Len(g) + 1
  <2> DEFINE old == g[Slot].checks
  <2>1. /\ Slot \in DOMAIN g /\ g[Slot].id = file[gi].id
        /\ g'[Slot].checks = Append(old, Here)
    BY <1>2, <1>4, <1>10 DEF ReportEffect
  <2>2. old \in Seq(Positions) /\ Len(old) \in Nat /\ DOMAIN old = 1..Len(old)
    BY <1>1, <2>1, ListTypes
  <2>3. /\ Len(g'[Slot].checks) = Len(old) + 1
        /\ DOMAIN g'[Slot].checks = 1..(Len(old) + 1)
        /\ g'[Slot].checks[Len(old) + 1] = Here
        /\ \A i \in 1..Len(old) : g'[Slot].checks[i] = old[i]
    BY <1>6, <2>1, <2>2, AppendProperties
  <2>4. Joined(Slot, Len(old) + 1)
    BY <1>5, <2>3 DEF Joined
  <2>5. \A i \in DOMAIN old : i \in DOMAIN g'[Slot].checks /\ Kept(Slot, i)
    <3>1. \A i \in 1..Len(old) : i \in 1..(Len(old) + 1)
      BY <2>2
    <3> QED
      BY <1>5, <2>1, <2>2, <2>3, <3>1 DEF Kept
  <2>6. \A i \in DOMAIN g'[Slot].checks : Kept(Slot, i) \/ Joined(Slot, i)
    <3>1. \A i \in 1..(Len(old) + 1) : i \in 1..Len(old) \/ i = Len(old) + 1
      BY <2>2
    <3> QED
      BY <2>2, <2>3, <2>4, <2>5, <3>1
  <2>7. 1 \in DOMAIN g'[Slot].checks
    BY <2>1, <2>5 DEF Lists
  <2>8. \A k \in DOMAIN g' : k # Slot => 1 \in DOMAIN g'[k].checks
    BY <1>7 DEF Lists
  <2>9. Len(old) + 1 \in DOMAIN g'[Slot].checks
    BY <2>2, <2>3
  <2>10. \A k \in DOMAIN g' : k \in DOMAIN g
    BY <1>7, <2>1
  <2>11. \A k \in DOMAIN g' : \A i \in DOMAIN g'[k].checks :
          i \in 1..Len(g'[k].checks) /\ Len(g'[k].checks) \in Nat
    BY <1>1, <1>7, <2>2, <2>3, ListTypes
  <2> QED
    BY <1>5, <1>7, <1>8, <2>1, <2>4, <2>5, <2>6, <2>7, <2>8, <2>9, <2>10, <2>11
       DEF Kept
<1> QED
  BY <1>9, <1>10

-----------------------------------------------------------------------------
\* What the step does to the inputs and to state.
LEMMA RunCheckEffect ==
  ASSUME IInv, RunCheck
  PROVE  \E s \in States :
           /\ Report(s)
           /\ \A p \in Positions : state'[p] = IF p = Here THEN s ELSE state[p]
           /\ s # ""
           /\ Positions' = Positions /\ file' = file /\ pc' = pc
           /\ Here \in Positions /\ GroupOf(Here).id = file[gi].id
           /\ AtCheck
<1>1. TypeOK /\ AtCheck
  BY DEF IInv, RunCheck
<1>2. Here \in Positions /\ GroupOf(Here) = file[gi]
  BY <1>1, HereIsPosition
<1>3. PICK s \in States : state' = [state EXCEPT ![Here] = s] /\ Report(s)
  BY AllowedStates DEF RunCheck
<1>4. \A p \in Positions : state'[p] = IF p = Here THEN s ELSE state[p]
  <2>1. state \in [Positions -> States \cup {""}]
    BY <1>1 DEF TypeOK
  <2> QED
    BY <1>2, <1>3, <2>1
<1>5. s # ""
  BY <1>3 DEF States
<1>6. file' = file /\ pc' = pc
  BY DEF RunCheck, input
<1>7. Positions' = Positions
  BY <1>6 DEF Positions
<1> QED
  BY <1>1, <1>2, <1>3, <1>4, <1>5, <1>6, <1>7

LEMMA RunCheckLists == IInv /\ Lists /\ RunCheck => Lists'
<1> SUFFICES ASSUME IInv, Lists, RunCheck PROVE Lists'
  OBVIOUS
<1>1. PICK s \in States :
        /\ Report(s)
        /\ \A p \in Positions : state'[p] = IF p = Here THEN s ELSE state[p]
        /\ s # ""
        /\ Positions' = Positions /\ file' = file /\ pc' = pc
        /\ Here \in Positions /\ GroupOf(Here).id = file[gi].id
        /\ AtCheck
  BY RunCheckEffect
<1>2. /\ \A k \in DOMAIN g : k \in DOMAIN g' /\ \A i \in DOMAIN g[k].checks :
           i \in DOMAIN g'[k].checks /\ Kept(k, i)
      /\ \A k \in DOMAIN g' : \A i \in DOMAIN g'[k].checks :
           Kept(k, i) \/ Joined(k, i)
      /\ \A k \in DOMAIN g' : 1 \in DOMAIN g'[k].checks
      /\ Slot \in DOMAIN g'
      /\ \E i \in DOMAIN g'[Slot].checks : Joined(Slot, i)
  BY <1>1, ReportAdds
<1>3. \A k \in DOMAIN g : \A i \in DOMAIN g[k].checks : g[k].checks[i] \in Positions
  BY ListTypes DEF IInv
<1>4. ASSUME NEW k \in DOMAIN g', NEW i \in DOMAIN g'[k].checks
      PROVE  /\ state'[g'[k].checks[i]] # ""
             /\ GroupOf(g'[k].checks[i]).id = g'[k].id
  <2>1. CASE Kept(k, i)
    <3>1. /\ g[k].checks[i] \in Positions
          /\ state[g[k].checks[i]] # ""
          /\ GroupOf(g[k].checks[i]).id = g[k].id
      BY <1>3, <2>1 DEF Kept, Lists
    <3>2. state'[g[k].checks[i]] # ""
      BY <1>1, <3>1
    <3> QED
      BY <2>1, <3>1, <3>2 DEF Kept
  <2>2. CASE Joined(k, i)
    <3>1. state'[Here] = s
      BY <1>1
    <3> QED
      BY <1>1, <2>2, <3>1 DEF Joined
  <2> QED
    BY <1>2, <1>4, <2>1, <2>2
<1>5. ASSUME NEW p \in Positions, state'[p] # ""
      PROVE  \E k \in DOMAIN g' : /\ g'[k].id = GroupOf(p).id
                                  /\ \E i \in DOMAIN g'[k].checks : g'[k].checks[i] = p
  <2>1. CASE p = Here
    <3>1. PICK i \in DOMAIN g'[Slot].checks : Joined(Slot, i)
      BY <1>2
    <3>2. g'[Slot].checks[i] = p /\ g'[Slot].id = GroupOf(p).id
      BY <1>1, <2>1, <3>1 DEF Joined
    <3> QED
      BY <1>2, <3>2
  <2>2. CASE p # Here
    <3>1. p \in RunSoFar
      BY <1>1, <1>5, <2>2 DEF RunSoFar
    <3>2. PICK k \in DOMAIN g :
            g[k].id = GroupOf(p).id /\ \E i \in DOMAIN g[k].checks : g[k].checks[i] = p
      BY <3>1 DEF Lists, Listed
    <3>3. PICK i \in DOMAIN g[k].checks : g[k].checks[i] = p
      BY <3>2
    <3>4. /\ k \in DOMAIN g' /\ i \in DOMAIN g'[k].checks
          /\ g'[k].checks[i] = p /\ g'[k].id = GroupOf(p).id
      BY <1>2, <3>2, <3>3 DEF Kept
    <3> QED
      BY <3>4
  <2> QED
    BY <2>1, <2>2
<1>6. \A p \in RunSoFar' : Listed(p)'
  <2>1. RunSoFar' = {p \in Positions : state'[p] # ""}
    BY <1>1 DEF RunSoFar
  <2> QED
    BY <1>1, <1>5, <2>1 DEF Listed, GroupOf
<1>7. pc' # "done"
  BY <1>1 DEF AtCheck
<1>8. \A k \in DOMAIN g' : \A i \in DOMAIN g'[k].checks :
        /\ state'[g'[k].checks[i]] # ""
        /\ file'[g'[k].checks[i][1]].id = g'[k].id
  BY <1>1, <1>4 DEF GroupOf
<1> QED
  BY <1>2, <1>6, <1>7, <1>8 DEF Lists, GroupOf

LEMMA OtherStepsLists ==
  Lists /\ (BuildFilter \/ LeaveOut \/ NextGroup \/ Finish \/ UNCHANGED vars)
  => Lists'
<1> SUFFICES ASSUME Lists,
                    BuildFilter \/ LeaveOut \/ NextGroup \/ Finish \/ UNCHANGED vars
             PROVE  Lists'
  OBVIOUS
<1>1. file' = file /\ state' = state /\ g' = g
  BY DEF BuildFilter, LeaveOut, NextGroup, Finish, vars, input, loop
<1>2. pc' = "done" => gi' > Len(file')
  BY DEF BuildFilter, LeaveOut, NextGroup, Finish, vars, input, loop, AtCheck, Lists
<1>3. /\ Positions' = Positions
      /\ \A p : GroupOf(p)' = GroupOf(p)
  BY <1>1 DEF Positions, GroupOf
<1>4. RunSoFar' = RunSoFar
  BY <1>1, <1>3 DEF RunSoFar
<1>5. \A p : Listed(p)' <=> Listed(p)
  BY <1>1, <1>3 DEF Listed
<1> QED
  BY <1>1, <1>2, <1>3, <1>4, <1>5 DEF Lists

LEMMA ListsHold == Spec => [](IInv /\ Lists)
<1>1. Init => Lists
  <2> SUFFICES ASSUME Init PROVE Lists
    OBVIOUS
  <2>1. DOMAIN g = {} /\ pc # "done"
    <3>1. g = <<>> /\ pc = "filter"
      BY DEF Init
    <3> QED
      BY <3>1
  <2>2. RunSoFar = {}
    BY DEF Init, RunSoFar
  <2> QED
    BY <2>1, <2>2 DEF Lists
<1>2. IInv /\ Lists /\ [Next]_vars => Lists'
  BY RunCheckLists, OtherStepsLists DEF Next, Stopped
<1> QED
  BY InvariantHolds, <1>1, <1>2, PTL DEF Spec

(***************************************************************************)
(* RunChecks runs and lists every check that the filter selects, under the *)
(* ID of its group, and leaves the others as they were read.               *)
(***************************************************************************)
THEOREM ReportIsComplete == Spec => []ReportComplete
<1>1. IInv /\ Lists => ReportComplete
  <2> SUFFICES ASSUME IInv, Lists, pc = "done", NEW p \in Positions
               PROVE  IF Selected(p) THEN state[p] # "" /\ Listed(p)
                      ELSE state[p] = "" /\ ~Listed(p) /\ type[p] = CheckAt(p).type
    BY DEF ReportComplete
  <2>1. Before(p, Here)
    <3>1. file \in Seq(FileGroup)
      BY InputTypes DEF IInv
    <3>2. PICK i \in DOMAIN file : p \in {i} \X DOMAIN file[i].checks
      BY DEF Positions
    <3>3. p[1] = i /\ i \in 1..Len(file) /\ Len(file) \in Nat
      BY <3>1, <3>2, LenProperties
    <3>4. gi \in Nat /\ gi > Len(file)
      BY DEF IInv, TypeOK, Lists
    <3> QED
      BY <3>3, <3>4 DEF Before, Here
  <2>2. CASE Selected(p)
    <3>1. state[p] # ""
      BY <2>1, <2>2 DEF IInv, CursorSeparates
    <3> QED
      BY <2>2, <3>1 DEF Lists, RunSoFar
  <2>3. CASE ~Selected(p)
    <3>1. state[p] = "" /\ type[p] = CheckAt(p).type
      BY <2>3 DEF IInv, CursorSeparates
    <3>2. ASSUME Listed(p) PROVE FALSE
      <4>1. PICK k \in DOMAIN g : \E i \in DOMAIN g[k].checks : g[k].checks[i] = p
        BY <3>2 DEF Listed
      <4> QED
        BY <3>1, <4>1 DEF Lists
    <3> QED
      BY <2>3, <3>1, <3>2
  <2> QED
    BY <2>2, <2>3
<1> QED
  BY ListsHold, <1>1, PTL

-----------------------------------------------------------------------------
\* What is listed is before the cursor.
LEMMA ListedIsBefore ==
  ASSUME IInv, Lists, NEW k \in DOMAIN g, NEW i \in DOMAIN g[k].checks
  PROVE  Before(g[k].checks[i], Here)
<1>1. g[k].checks[i] \in Positions
  BY ListTypes DEF IInv
<1>2. state[g[k].checks[i]] # ""
  BY DEF Lists
<1> QED
  BY <1>1, <1>2 DEF IInv, CursorSeparates

LEMMA RunCheckInOrder ==
  IInv /\ Lists /\ ReportInFileOrder /\ RunCheck => ReportInFileOrder'
<1> SUFFICES ASSUME IInv, Lists, ReportInFileOrder, RunCheck
             PROVE  ReportInFileOrder'
  OBVIOUS
<1>1. PICK s \in States : Report(s) /\ AtCheck
  BY RunCheckEffect
<1>2. /\ \A k \in DOMAIN g : \A i \in DOMAIN g[k].checks : Kept(k, i)
      /\ \A k \in DOMAIN g' : \A i \in DOMAIN g'[k].checks :
           Kept(k, i) \/ Joined(k, i)
      /\ \A k \in DOMAIN g' : 1 \in DOMAIN g'[k].checks
      /\ \A k \in DOMAIN g' : k \in DOMAIN g \/ k = Len(g) + 1
      /\ \A k \in DOMAIN g' : \A i \in DOMAIN g'[k].checks :
           i \in 1..Len(g'[k].checks) /\ Len(g'[k].checks) \in Nat
  BY <1>1, ReportAdds
<1>3. \A p, q : Before(p, q)' <=> Before(p, q)
  BY DEF Before
<1>4. ASSUME NEW k \in DOMAIN g', NEW i \in DOMAIN g'[k].checks,
             NEW j \in DOMAIN g'[k].checks, i < j
      PROVE  Before(g'[k].checks[i], g'[k].checks[j])
  <2>1. CASE Joined(k, i)
    <3>1. i = Len(g'[k].checks) /\ j \in 1..Len(g'[k].checks)
          /\ Len(g'[k].checks) \in Nat
      BY <1>2, <2>1 DEF Joined
    <3> QED
      BY <1>4, <3>1
  <2>2. CASE Kept(k, i) /\ Kept(k, j)
    BY <1>4, <2>2 DEF Kept, ReportInFileOrder
  <2>3. CASE Kept(k, i) /\ Joined(k, j)
    BY <2>3, ListedIsBefore DEF Kept, Joined
  <2> QED
    BY <1>2, <2>1, <2>2, <2>3
<1>5. ASSUME NEW k \in DOMAIN g', NEW l \in DOMAIN g', k < l
      PROVE  Before(g'[k].checks[1], g'[l].checks[1])
  <2>1. Len(g) \in Nat /\ DOMAIN g = 1..Len(g)
    BY ListTypes DEF IInv
  <2>2. k \in DOMAIN g
    BY <1>2, <1>5, <2>1
  <2>3. Kept(k, 1)
    BY <1>2, <2>2 DEF Lists
  <2>4. CASE l \in DOMAIN g
    <3>1. Kept(l, 1)
      BY <1>2, <2>4 DEF Lists
    <3> QED
      BY <1>5, <2>3, <3>1 DEF Kept, ReportInFileOrder
  <2>5. CASE l \notin DOMAIN g
    <3>1. Joined(l, 1)
      BY <1>2, <2>5 DEF Kept
    <3> QED
      BY <2>3, <3>1, ListedIsBefore DEF Kept, Joined
  <2> QED
    BY <2>4, <2>5
<1> QED
  BY <1>3, <1>4, <1>5 DEF ReportInFileOrder

(***************************************************************************)
(* RunChecks keeps the order of the file, in each new group and among the  *)
(* groups, also when groups that share an ID are joined.                   *)
(***************************************************************************)
THEOREM OrderIsKept == Spec => []ReportInFileOrder
<1>1. Init => ReportInFileOrder
  <2> SUFFICES ASSUME Init PROVE ReportInFileOrder
    OBVIOUS
  <2>1. DOMAIN g = {}
    <3>1. g = <<>>
      BY DEF Init
    <3> QED
      BY <3>1
  <2> QED
    BY <2>1 DEF ReportInFileOrder
<1>2. ReportInFileOrder /\ (BuildFilter \/ LeaveOut \/ NextGroup \/ Finish
        \/ UNCHANGED vars) => ReportInFileOrder'
  <2> SUFFICES ASSUME ReportInFileOrder, g' = g PROVE ReportInFileOrder'
    BY DEF BuildFilter, LeaveOut, NextGroup, Finish, vars, loop
  <2> QED
    BY DEF ReportInFileOrder, Before
<1>3. IInv /\ Lists /\ ReportInFileOrder /\ [Next]_vars => ReportInFileOrder'
  BY RunCheckInOrder, <1>2 DEF Next, Stopped
<1> QED
  BY ListsHold, <1>1, <1>3, PTL DEF Spec

-----------------------------------------------------------------------------
(* The outputs.  Every line is about a check of its own, and every check     *)
(* that was run has its line.                                                *)
Ready == IInv /\ Lists /\ ReportInFileOrder

LEMMA LinesTyped ==
  ASSUME Ready, NEW l \in Lines
  PROVE  /\ l = <<l[1], l[2]>>
         /\ l[1] \in DOMAIN g /\ l[2] \in DOMAIN g[l[1]].checks
         /\ l[1] \in Nat /\ l[2] \in Nat
         /\ Shown(l) \in Positions
         /\ state[Shown(l)] \in States
         /\ GroupOf(Shown(l)).id = g[l[1]].id
<1>1. l = <<l[1], l[2]>> /\ l[1] \in DOMAIN g /\ l[2] \in DOMAIN g[l[1]].checks
  BY DEF Lines
<1>2. l[1] \in Nat /\ l[2] \in Nat /\ Shown(l) \in Positions
  BY <1>1, ListTypes DEF Ready, IInv, Shown
<1>3. state[Shown(l)] # "" /\ GroupOf(Shown(l)).id = g[l[1]].id
  BY <1>1 DEF Ready, Lists, Shown
<1>4. state[Shown(l)] \in States
  BY <1>2, <1>3 DEF Ready, IInv, TypeOK
<1> QED
  BY <1>1, <1>2, <1>3, <1>4

LEMMA LinesDistinct ==
  ASSUME Ready, NEW l \in Lines, NEW h \in Lines, Shown(l) = Shown(h)
  PROVE  l = h
<1>1. l[1] = h[1]
  <2>1. g[l[1]].id = g[h[1]].id
    BY LinesTyped
  <2>2. m[g[l[1]].id] = l[1] /\ m[g[h[1]].id] = h[1]
    BY LinesTyped DEF Ready, IInv, GroupsIndexed
  <2> QED
    BY <2>1, <2>2
<1>2. l[2] = h[2]
  <2>1. \A i, j \in DOMAIN g[l[1]].checks :
          i < j => Before(g[l[1]].checks[i], g[l[1]].checks[j])
    BY LinesTyped DEF Ready, ReportInFileOrder
  <2>2. ~Before(Shown(l), Shown(l))
    <3>1. Shown(l) \in Positions
      BY LinesTyped
    <3>2. Shown(l)[1] \in Nat /\ Shown(l)[2] \in Nat
      BY <3>1, PositionTypes DEF Ready, IInv
    <3> QED
      BY <3>2 DEF Before
  <2>3. l[2] \in Nat /\ h[2] \in Nat /\ l[2] \in DOMAIN g[l[1]].checks
        /\ h[2] \in DOMAIN g[l[1]].checks
    BY <1>1, LinesTyped
  <2>4. g[l[1]].checks[l[2]] = Shown(l) /\ g[l[1]].checks[h[2]] = Shown(l)
    BY <1>1 DEF Shown
  <2> QED
    BY <2>1, <2>2, <2>3, <2>4
<1> QED
  BY <1>1, <1>2, LinesTyped

LEMMA EveryCheckHasALine ==
  ASSUME Ready, NEW p \in RunSoFar
  PROVE  \E l \in Lines : Shown(l) = p
<1>1. PICK k \in DOMAIN g : \E i \in DOMAIN g[k].checks : g[k].checks[i] = p
  BY DEF Ready, Lists, Listed
<1>2. PICK i \in DOMAIN g[k].checks : g[k].checks[i] = p
  BY <1>1
<1>3. <<k, i>> \in Lines /\ Shown(<<k, i>>) = p
  BY <1>2 DEF Lines, Shown
<1> QED
  BY <1>3

\* There are as many lines in some states as checks.
LEMMA LinesCount ==
  ASSUME Ready, NEW S, S \subseteq States
  PROVE  LET P == {p \in Positions : state[p] \in S}
         IN  /\ IsFiniteSet(P) /\ IsFiniteSet(LinesIn(S))
             /\ Cardinality(LinesIn(S)) = Cardinality(P)
             /\ LinesIn(S) = {} <=> P = {}
<1> DEFINE P == {p \in Positions : state[p] \in S}
           L == LinesIn(S)
           b == [l \in L |-> Shown(l)]
<1>1. IsFiniteSet(P)
  <2>1. P \subseteq RunSoFar
    BY DEF RunSoFar, States
  <2> HIDE DEF P
  <2> QED
    BY <2>1, FS_Subset DEF Ready, IInv
<1>2. \A l \in L : l \in Lines /\ Shown(l) \in P
  BY LinesTyped DEF LinesIn
<1>3. \A l, h \in L : Shown(l) = Shown(h) => l = h
  BY <1>2, LinesDistinct
<1>4. \A p \in P : \E l \in L : Shown(l) = p
  <2> TAKE p \in P
  <2>1. p \in RunSoFar
    BY DEF RunSoFar, States
  <2>2. PICK l \in Lines : Shown(l) = p
    BY <2>1, EveryCheckHasALine
  <2> QED
    BY <2>2 DEF LinesIn
<1> HIDE DEF P, L
<1>5. b \in Bijection(L, P)
  BY <1>2, <1>3, <1>4 DEF Bijection, Injection, Surjection, IsInjective
<1>6. IsFiniteSet(L) /\ Cardinality(L) = Cardinality(P)
  BY <1>1, <1>5, FS_Injection DEF Bijection
<1>7. L = {} <=> P = {}
  BY <1>2, <1>4
<1> QED
  BY <1>1, <1>6, <1>7 DEF P, L

\* A case of the JUnit suite fails exactly if its check has failed.
LEMMA FailedCases ==
  ASSUME Ready
  PROVE  {l \in Lines : JUnit.cases[l] = "failed"} = LinesIn({"FAIL"})
<1>1. ASSUME NEW l \in Lines
      PROVE  JUnit.cases[l] = "failed" <=> state[Shown(l)] \in {"FAIL"}
  <2>1. JUnit.cases[l] = Case(state[Shown(l)])
    BY DEF JUnit
  <2>2. state[Shown(l)] \in States
    BY LinesTyped
  <2> HIDE DEF JUnit
  <2>3. CASE state[Shown(l)] = "FAIL"
    BY <2>1, <2>3 DEF Case
  <2>4. CASE state[Shown(l)] \in {"WARN", "INFO"}
    BY <2>1, <2>4 DEF Case
  <2>5. CASE state[Shown(l)] = "PASS"
    BY <2>1, <2>5 DEF Case
  <2> QED
    BY <2>2, <2>3, <2>4, <2>5 DEF States
<1> QED
  BY <1>1 DEF LinesIn

\* The four counts of the summary are of different checks, and of all.
LEMMA CountsAddUp ==
  ASSUME Ready
  PROVE  /\ \A s \in States : summary[s] \in Nat
         /\ summary["PASS"] + summary["FAIL"] + summary["INFO"] + summary["WARN"]
              = Cardinality(RunSoFar)
<1>1. \A s \in States : IsFiniteSet(InState(s)) /\ summary[s] = Cardinality(InState(s))
  <2>1. \A s \in States : InState(s) \subseteq RunSoFar
    BY DEF InState, RunSoFar, States
  <2> QED
    BY <2>1, FS_Subset DEF Ready, IInv, SummaryCounts
<1>2. \A s \in States : Cardinality(InState(s)) \in Nat
  BY <1>1, FS_CardinalityType
<1> DEFINE A == InState("PASS")
           B == InState("FAIL")
           C == InState("INFO")
           D == InState("WARN")
<1>3. /\ A \cap B = {} /\ (A \cup B) \cap C = {} /\ ((A \cup B) \cup C) \cap D = {}
      /\ RunSoFar = ((A \cup B) \cup C) \cup D
  <2>1. \A p \in Positions : state[p] \in {"PASS", "FAIL", "INFO", "WARN", ""}
    BY DEF States, Ready, IInv, TypeOK
  <2>2. A \cap B = {} /\ (A \cup B) \cap C = {} /\ ((A \cup B) \cup C) \cap D = {}
    BY DEF InState
  <2>3. RunSoFar = ((A \cup B) \cup C) \cup D
    BY <2>1 DEF InState, RunSoFar
  <2> QED
    BY <2>2, <2>3
<1>4. IsFiniteSet(A) /\ IsFiniteSet(B) /\ IsFiniteSet(C) /\ IsFiniteSet(D)
  BY <1>1 DEF States
<1> HIDE DEF A, B, C, D
<1>5. IsFiniteSet(A \cup B) /\ Cardinality(A \cup B) = Cardinality(A) + Cardinality(B)
  BY <1>3, <1>4, DisjointUnion
<1>6. /\ IsFiniteSet((A \cup B) \cup C)
      /\ Cardinality((A \cup B) \cup C) = Cardinality(A \cup B) + Cardinality(C)
  BY <1>3, <1>4, DisjointUnion, <1>5
<1>7. Cardinality(RunSoFar) = Cardinality((A \cup B) \cup C) + Cardinality(D)
  BY <1>3, <1>4, DisjointUnion, <1>6
<1>8. Cardinality(RunSoFar)
        = Cardinality(A) + Cardinality(B) + Cardinality(C) + Cardinality(D)
  BY <1>5, <1>6, <1>7
<1>9. /\ summary["PASS"] = Cardinality(A) /\ summary["FAIL"] = Cardinality(B)
       /\ summary["INFO"] = Cardinality(C) /\ summary["WARN"] = Cardinality(D)
  BY <1>1 DEF A, B, C, D, States
<1>10. \A s \in States : summary[s] \in Nat
  BY <1>1, <1>2
<1> QED
  BY <1>8, <1>9, <1>10

(***************************************************************************)
(* The JUnit suite, the findings, the remediations, the summary and the    *)
(* exit status of a section complain of the same checks, once each, for    *)
(* any file, filter and skip list (Controls.JUnit and ASFF, prettyPrint,   *)
(* printSummary, exitCodeSelection).                                       *)
(***************************************************************************)
THEOREM OutputsAreInAgreement == Spec => []OutputsAgree
<1>1. Ready => OutputsAgree
  <2> SUFFICES ASSUME Ready PROVE OutputsAgree
    OBVIOUS
  <2> DEFINE Bad == {"FAIL", "WARN"}
             Of(S) == {p \in Positions : state[p] \in S}
  <2>1. Bad \subseteq States /\ {"FAIL"} \subseteq States
    BY DEF States
  <2>2. JUnit.tests = Cardinality(RunSoFar) /\ JUnit.failures = summary["FAIL"]
    BY CountsAddUp DEF JUnit
  <2>3. Lines = LinesIn(States) /\ RunSoFar = Of(States)
    <3>1. Lines = LinesIn(States)
      BY LinesTyped DEF LinesIn
    <3>2. RunSoFar = Of(States)
      BY DEF RunSoFar, States, Ready, IInv, TypeOK
    <3> QED
      BY <3>1, <3>2
  <2>4. Cardinality(Lines) = Cardinality(RunSoFar)
    <3>1. Cardinality(LinesIn(States)) = Cardinality(Of(States))
      BY LinesCount
    <3> QED
      BY <2>3, <3>1
  <2>5. /\ Cardinality(LinesIn({"FAIL"})) = summary["FAIL"]
        /\ LinesIn({"FAIL"}) = {} <=> summary["FAIL"] = 0
        /\ LinesIn(Bad) = {} <=> summary["FAIL"] = 0 /\ summary["WARN"] = 0
    <3>1. \A s \in States : summary[s] = Cardinality(InState(s))
      BY DEF Ready, IInv, SummaryCounts
    <3>2. \A s \in States : IsFiniteSet(InState(s))
      <4>1. \A s \in States : InState(s) \subseteq RunSoFar
        BY DEF InState, RunSoFar, States
      <4> QED
        BY <4>1, FS_Subset DEF Ready, IInv
    <3>3. \A s \in States : summary[s] = 0 <=> InState(s) = {}
      BY <3>1, <3>2, FS_EmptySet
    <3>4. Of({"FAIL"}) = InState("FAIL")
          /\ Of(Bad) = InState("FAIL") \cup InState("WARN")
      BY DEF InState
    <3>5. /\ Cardinality(LinesIn({"FAIL"})) = Cardinality(Of({"FAIL"}))
          /\ LinesIn({"FAIL"}) = {} <=> Of({"FAIL"}) = {}
      BY <2>1, LinesCount
    <3>6. LinesIn(Bad) = {} <=> Of(Bad) = {}
      BY <2>1, LinesCount
    <3> HIDE DEF Of, Bad
    <3> QED
      BY <3>1, <3>3, <3>4, <3>5, <3>6 DEF States
  <2>6. \A l, h \in LinesIn(Bad) : Shown(l) = Shown(h) => l = h
    BY LinesDistinct DEF LinesIn
  <2>7. summary["FAIL"] \in Nat /\ summary["WARN"] \in Nat
    BY CountsAddUp DEF States
  <2>8. Remediations = LinesIn(Bad) /\ ASFF = LinesIn(Bad)
    <3>1. CASE summary["FAIL"] > 0 \/ summary["WARN"] > 0
      BY <3>1 DEF Remediations, ASFF
    <3>2. CASE ~(summary["FAIL"] > 0 \/ summary["WARN"] > 0)
      BY <2>5, <2>7, <3>2 DEF Remediations, ASFF
    <3> QED
      BY <3>1, <3>2
  <2>9. /\ Severity = "FAIL" <=> summary["FAIL"] > 0
        /\ Severity = "PASS" <=> ~(summary["FAIL"] > 0) /\ ~(summary["WARN"] > 0)
    <3>1. CASE summary["FAIL"] > 0
      BY <2>7, <3>1 DEF Severity
    <3>2. CASE summary["FAIL"] = 0 /\ summary["WARN"] > 0
      BY <2>7, <3>2 DEF Severity
    <3>3. CASE summary["FAIL"] = 0 /\ ~(summary["WARN"] > 0)
      BY <2>7, <3>3 DEF Severity
    <3> QED
      BY <2>7, <3>1, <3>2, <3>3
  <2>10. {l \in Lines : JUnit.cases[l] = "failed"} = LinesIn({"FAIL"})
    BY FailedCases
  <2>11. ExitsWithCode <=> \E l \in Lines : JUnit.cases[l] = "failed"
    <3>1. ExitsWithCode <=> LinesIn({"FAIL"}) # {}
      BY <2>5, <2>7 DEF ExitsWithCode
    <3> QED
      BY <2>10, <3>1
  <2> HIDE DEF Bad
  <2>12. Severity = "PASS" <=> ASFF = {}
    BY <2>5, <2>7, <2>8, <2>9
  <2>13. Severity = "FAIL" <=> ExitsWithCode
    BY <2>9 DEF ExitsWithCode
  <2>14. JUnit.failures = Cardinality({l \in Lines : JUnit.cases[l] = "failed"})
    BY <2>2, <2>5, <2>10
  <2>15. /\ JUnit.tests = Cardinality(Lines)
         /\ JUnit.tests = Cardinality({p \in Positions : state[p] # ""})
    BY <2>2, <2>4 DEF RunSoFar
  <2>16. ASFF = Remediations /\ \A l, h \in ASFF : Shown(l) = Shown(h) => l = h
    BY <2>6, <2>8
  <2> HIDE DEF Of
  <2> QED
    BY <2>11, <2>12, <2>13, <2>14, <2>15, <2>16 DEF OutputsAgree
<1> QED
  BY ListsHold, OrderIsKept, <1>1, PTL DEF Ready

-----------------------------------------------------------------------------
(* The loops end.                                                          *)

Stage ==
  CASE pc = "filter" -> 2
    [] pc = "loop"   -> 1
    [] OTHER         -> 0

GroupsToGo == ToGo(gi, Len(file))

ChecksToGo ==
  IF gi <= Len(file) THEN ToGo(ci, Len(file[gi].checks)) ELSE 0

\* What is ahead: groups, and in the group that is at hand checks.
Ahead == <<Stage, GroupsToGo, ChecksToGo>>

LEMMA LengthTypes ==
  ASSUME TypeOK
  PROVE  /\ gi \in Nat \ {0} /\ ci \in Nat \ {0}
         /\ Len(file) \in Nat
         /\ gi <= Len(file) => Len(file[gi].checks) \in Nat
<1>1. gi \in Nat \ {0} /\ ci \in Nat \ {0} /\ file \in Seq(FileGroup)
  BY InputTypes DEF TypeOK
<1>2. Len(file) \in Nat /\ DOMAIN file = 1..Len(file)
  BY <1>1, LenProperties
<1>3. ASSUME gi <= Len(file) PROVE Len(file[gi].checks) \in Nat
  <2>1. file[gi] \in FileGroup
    BY <1>1, <1>2, <1>3, ElementOfSeq
  <2>2. file[gi].checks \in Seq(Descriptions)
    BY <2>1 DEF FileGroup
  <2> QED
    BY <2>2, LenProperties
<1> QED
  BY <1>1, <1>2, <1>3

LEMMA AheadTyped ==
  TypeOK => Stage \in Nat /\ GroupsToGo \in Nat /\ ChecksToGo \in Nat
<1> SUFFICES ASSUME TypeOK
             PROVE  Stage \in Nat /\ GroupsToGo \in Nat /\ ChecksToGo \in Nat
  OBVIOUS
<1>1. GroupsToGo \in Nat
  BY LengthTypes, FewerToGo DEF GroupsToGo
<1>2. ChecksToGo \in Nat
  BY LengthTypes, FewerToGo DEF ChecksToGo
<1> QED
  BY <1>1, <1>2 DEF Stage

\* A check, a group or a stage is left behind by every step.
LEMMA NextAhead ==
  TypeOK /\ (Ahead \in [1..3 -> Nat])' /\ [Next]_vars
    => <<Ahead', Ahead>> \in LexOrder(3) \/ UNCHANGED vars
<1> SUFFICES ASSUME TypeOK, (Ahead \in [1..3 -> Nat])', Next, ~UNCHANGED vars
             PROVE  <<Ahead', Ahead>> \in LexOrder(3)
  OBVIOUS
<1>1. Stage' \in Nat /\ GroupsToGo' \in Nat /\ ChecksToGo' \in Nat
  BY DEF Ahead
<1>2. Stage \in Nat /\ GroupsToGo \in Nat /\ ChecksToGo \in Nat
  BY AheadTyped
<1>3. \/ Stage' < Stage
      \/ Stage' = Stage /\ GroupsToGo' < GroupsToGo
      \/ Stage' = Stage /\ GroupsToGo' = GroupsToGo /\ ChecksToGo' < ChecksToGo
  <2>1. CASE BuildFilter \/ Finish
    BY <2>1 DEF BuildFilter, Finish, Stage
  <2>2. CASE LeaveOut \/ RunCheck
    <3>1. /\ pc' = pc /\ file' = file /\ gi' = gi /\ ci' = ci + 1
          /\ gi <= Len(file) /\ ci <= Len(file[gi].checks)
      BY <2>2 DEF LeaveOut, RunCheck, AtCheck, input
    <3>2. ChecksToGo' < ChecksToGo
      BY <3>1, LengthTypes, FewerToGo DEF ChecksToGo
    <3> QED
      BY <3>1, <3>2 DEF Stage, GroupsToGo
  <2>3. CASE NextGroup
    <3>1. pc' = pc /\ file' = file /\ gi' = gi + 1 /\ gi <= Len(file)
      BY <2>3 DEF NextGroup, input
    <3>2. GroupsToGo' < GroupsToGo
      BY <3>1, LengthTypes, FewerToGo DEF GroupsToGo
    <3> QED
      BY <3>1, <3>2 DEF Stage
  <2> QED
    BY <2>1, <2>2, <2>3 DEF Next, Stopped
<1> QED
  BY <1>1, <1>2, <1>3, ThreeInOrder DEF Ahead

(***************************************************************************)
(* RunChecks does not go round for ever, whatever the file, its empty      *)
(* groups included, and whatever the filter leaves out: every step brings  *)
(* what is ahead down in an order in which nothing goes down for ever      *)
(* (OrderWellFounded).                                                     *)
(***************************************************************************)
THEOREM StepsRunOut ==
  Spec => [](Ahead \in [1..3 -> Nat]) /\ [][(<<Ahead', Ahead>> \in LexOrder(3))]_vars
<1>1. TypeOK => Ahead \in [1..3 -> Nat]
  BY AheadTyped DEF Ahead
<1> QED
  BY TypeCorrect, <1>1, NextAhead, PTL DEF Spec
=============================================================================
