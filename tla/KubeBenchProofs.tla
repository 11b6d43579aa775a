--------------------------- MODULE KubeBenchProofs ---------------------------
(***************************************************************************)
(* Proofs about the commands, for any configurations, benchmarks, command  *)
(* lines and processes.                                                    *)
(*                                                                         *)
(* What the exit status says and in which order the report is made follow  *)
(* from what the last step has left (StatusInv, ConfigInv, ReportInv).     *)
(* Which sections a report holds needs more: the root command's list of    *)
(* sections is a tail of its order, run's is a tail of its files, and what *)
(* is reported follows from where in the list the command is (Route,       *)
(* RunRoute).  What getBinaries finds follows from how far it got          *)
(* (Probing), and what is detected from that and from the configuration in *)
(* force (Detects).                                                        *)
(***************************************************************************)
EXTENDS KubeBench, ProofLemmas

-----------------------------------------------------------------------------
(* What the exit status says of the report.                                *)

(***************************************************************************)
(* Nothing but Finish leaves another status than 1, and Finish is reached  *)
(* only with the whole report out.                                         *)
(***************************************************************************)
StatusInv ==
  /\ pc # "end" => code = Running
  /\ pc = "exit" => written = collection
  /\ pc = "end" /\ code # 1 => written = collection /\ code = ExitCode

\* An error ends the program with status 1, wherever it happens.
LEMMA ErrorStatus == Exit(1) => StatusInv'
  BY DEF Exit, StatusInv

\* Up to the report, a step that goes on leaves the status open.
LEMMA GoOnStatus ==
  ASSUME StatusInv, pc # "end", code' = code, pc' \notin {"exit", "end"}
  PROVE  StatusInv'
  BY DEF StatusInv

\* A step of the program preserves the invariant.
LEMMA StepStatus == StatusInv /\ Step => StatusInv'
<1> SUFFICES ASSUME StatusInv, Step PROVE StatusInv'
  OBVIOUS
<1>1. CASE Start
  <2>1. CASE Exit(1)
    BY <2>1, ErrorStatus
  <2>2. CASE ~Exit(1)
    BY <1>1, <2>2, GoOnStatus DEF Start
  <2> QED BY <2>1, <2>2
<1>2. CASE Plan
  <2>1. CASE Exit(1)
    BY <2>1, ErrorStatus
  <2>2. CASE ~Exit(1)
    BY <1>2, <2>2, GoOnStatus DEF Plan
  <2> QED BY <2>1, <2>2
<1>3. CASE Gate
  <2>1. CASE Exit(1)
    BY <2>1, ErrorStatus
  <2>2. CASE ~Exit(1)
    <3>1. pc # "end" /\ code' = code /\ pc' \in {"ask", "gate", "load"}
      BY <1>3, <2>2 DEF Gate, Ask, Probe, Skip, Load
    <3> QED BY <3>1, GoOnStatus
  <2> QED BY <2>1, <2>2
<1>4. CASE ProbeComponent
  BY <1>4, GoOnStatus DEF ProbeComponent
<1>5. CASE Answer
  <2>1. pc # "end" /\ code' = code /\ pc' \in {"gate", "load"}
    BY <1>5 DEF Answer, Skip, Load
  <2> QED BY <2>1, GoOnStatus
<1>6. CASE LoadConfig
  <2>1. CASE Exit(1)
    BY <2>1, ErrorStatus
  <2>2. CASE ~Exit(1)
    BY <1>6, <2>2, GoOnStatus DEF LoadConfig
  <2> QED BY <2>1, <2>2
<1>7. CASE Open
  <2>1. CASE Exit(1)
    BY <2>1, ErrorStatus
  <2>2. CASE ~Exit(1)
    BY <1>7, <2>2, GoOnStatus DEF Open, Probe
  <2> QED BY <2>1, <2>2
<1>8. CASE RunControls
  <2>1. CASE Exit(1)
    BY <2>1, ErrorStatus
  <2>2. CASE ~Exit(1)
    <3>1. pc # "end" /\ code' = code /\ pc' \in {"gate", "open"}
      BY <1>8, <2>2 DEF RunControls
    <3> QED BY <3>1, GoOnStatus
  <2> QED BY <2>1, <2>2
<1>9. CASE Sort
  <2>1. pc # "end" /\ code' = code /\ pc' = "write"
    BY <1>9 DEF Sort
  <2> QED BY <2>1, GoOnStatus
<1>10. CASE WriteAll
  <2>1. CASE Exit(1)
    BY <2>1, ErrorStatus
  <2>2. CASE ~Exit(1)
    BY <1>10, <2>2 DEF WriteAll, StatusInv, work
  <2> QED BY <2>1, <2>2
<1>11. CASE WriteOne
  <2>1. CASE Exit(1)
    BY <2>1, ErrorStatus
  <2>2. CASE ~Exit(1)
    BY <1>11, <2>2, GoOnStatus DEF WriteOne
  <2> QED BY <2>1, <2>2
<1>12. CASE WrittenEach
  BY <1>12 DEF WrittenEach, StatusInv, work
<1>13. CASE Finish
  BY <1>13 DEF Finish, Exit, StatusInv, ExitCode, work
<1> QED BY <1>1, <1>2, <1>3, <1>4, <1>5, <1>6, <1>7, <1>8, <1>9, <1>10,
           <1>11, <1>12, <1>13 DEF Step

\* The invariant holds in every state.
LEMMA StatusHolds == Spec => []StatusInv
<1>1. Init => StatusInv
  BY DEF Init, StatusInv
<1>2. StatusInv /\ [Next]_vars => StatusInv'
  <2> SUFFICES ASSUME StatusInv, [Next]_vars PROVE StatusInv'
    OBVIOUS
  <2>1. CASE Step
    BY <2>1, StepStatus
  <2>2. CASE Churn \/ Ended \/ UNCHANGED vars
    BY <2>2 DEF Churn, Ended, vars, work, StatusInv, ExitCode
  <2> QED BY <2>1, <2>2 DEF Next
<1> QED BY <1>1, <1>2, PTL DEF Spec

(***************************************************************************)
(* The status tells a failed check of any section, and a status of 0 that  *)
(* the whole report is out without one, for every --exit-code but 0 and 1. *)
(***************************************************************************)
THEOREM ExitCodeCorrect == Spec => []ExitCodeTells
<1>1. StatusInv => ExitCodeTells
  BY DEF StatusInv, ExitCodeTells, ExitCode
<1> QED BY StatusHolds, <1>1, PTL

-----------------------------------------------------------------------------
(* Under which configuration the sections are run.                         *)

(***************************************************************************)
(* Both commands get to runChecks only through a function that merges the  *)
(* version-specific configuration, and run only if that went well.         *)
(***************************************************************************)
ConfigInv ==
  /\ pc \in {"open", "bind"} => merged = (setup.specific = "ok")
  /\ setup.cmd = "run" =>
       /\ pc \notin {"gate", "ask", "load"}
       /\ pc \in {"open", "bind"} \/ collection # <<>> => setup.specific # "broken"

\* A step preserves it.
LEMMA NextConfig == ConfigInv /\ [Next]_vars => ConfigInv'
<1> SUFFICES ASSUME ConfigInv, [Next]_vars PROVE ConfigInv'
  OBVIOUS
<1> USE DEF ConfigInv
<1>0. ASSUME setup' = setup, merged' = merged, collection' = collection,
             pc' = "end"
      PROVE  ConfigInv'
  BY <1>0
<1>1. CASE Start
  BY <1>1, <1>0 DEF Start, Exit, work
<1>2. CASE Plan
  BY <1>2, <1>0 DEF Plan, Refused, Exit, work
<1>3. CASE Gate
  <2>1. setup.cmd # "run" /\ setup' = setup
    BY <1>3 DEF Gate
  <2>2. pc' \in {"ask", "gate", "load", "end"}
    BY <1>3 DEF Gate, Ask, Probe, Skip, Load, Exit
  <2> QED BY <2>1, <2>2
<1>4. CASE ProbeComponent
  BY <1>4 DEF ProbeComponent
<1>5. CASE Answer
  <2>1. setup.cmd # "run" /\ setup' = setup
    BY <1>5 DEF Answer
  <2>2. pc' \in {"gate", "load"}
    BY <1>5 DEF Answer, Skip, Load
  <2> QED BY <2>1, <2>2
<1>6. CASE LoadConfig
  BY <1>6, <1>0 DEF LoadConfig, Exit, work
<1>7. CASE Open
  BY <1>7, <1>0 DEF Open, Probe, Exit, work
<1>8. CASE RunControls
  BY <1>8, <1>0 DEF RunControls, Exit, work
<1>9. CASE Sort
  <2>1. pc \in {"gate", "open"} /\ pc' = "write" /\ setup' = setup
    BY <1>9 DEF Sort
  <2> QED BY <2>1
<1>10. CASE WriteAll \/ WriteOne
  BY <1>10 DEF WriteAll, WriteOne, Exit, work
<1>11. CASE WrittenEach \/ Finish
  BY <1>11 DEF WrittenEach, Finish, Exit, work
<1>12. CASE Churn \/ Ended \/ UNCHANGED vars
  BY <1>12 DEF Churn, Ended, vars, work
<1> QED BY <1>1, <1>2, <1>3, <1>4, <1>5, <1>6, <1>7, <1>8, <1>9, <1>10,
           <1>11, <1>12 DEF Next, Step

(***************************************************************************)
(* Every section is run under the configuration of its version, if it can  *)
(* be read, and run does not go on without it.                             *)
(***************************************************************************)
THEOREM ConfigCorrect == Spec => []ConfigInForce
<1>1. Init => ConfigInv
  BY DEF Init, ConfigInv
<1>2. ConfigInv => ConfigInForce
  BY DEF ConfigInv, ConfigInForce
<1> QED BY <1>1, <1>2, NextConfig, PTL DEF Spec

-----------------------------------------------------------------------------
(* The report, and what Invocation says of it.                             *)

Ascending(report) ==
  \A j, k \in DOMAIN report :
    j < k => IDOf(report[j].section) <= IDOf(report[k].section)

(***************************************************************************)
(* Nothing is out before the report is in order, and what is out is a      *)
(* beginning of it.                                                        *)
(***************************************************************************)
ReportInv ==
  /\ \E S : collection \in Seq(S)
  /\ pc \notin {"write", "exit", "end"} => written = <<>>
  /\ pc \in {"write", "exit"} \/ written # <<>> => Ascending(collection)
  /\ Len(written) \in 0..Len(collection)
  /\ written = SubSeq(collection, 1, Len(written))
  /\ setup.format \in {"file", "stdout"} => written \in {<<>>, collection}

\* What belongs to nothing but the report stays as it is.
LEMMA ReportUntouched ==
  ASSUME ReportInv, UNCHANGED <<setup, collection, written>>,
         pc' \in {"write", "exit"} => pc \in {"write", "exit"},
         pc' \notin {"write", "exit", "end"} =>
           pc \notin {"write", "exit", "end"}
  PROVE  ReportInv'
<1>1. (\E S : collection \in Seq(S))'
  BY DEF ReportInv
<1>2. ASSUME pc' \in {"write", "exit"} \/ written' # <<>>
      PROVE  Ascending(collection)'
  BY <1>2 DEF ReportInv, Ascending
<1> QED BY <1>1, <1>2 DEF ReportInv

\* One more result at the end of the report.
LEMMA Grow ==
  ASSUME NEW r, ReportInv, pc = "bind", pc' \in {"gate", "open"},
         collection' = Append(collection, r), UNCHANGED <<setup, written>>
  PROVE  /\ ReportInv'
         /\ Len(collection') = Len(collection) + 1
         /\ SubSeq(collection', 1, Len(collection)) = collection
<1>1. PICK S : collection \in Seq(S)
  BY DEF ReportInv
<1>2. /\ collection \in Seq(S \cup {r})
      /\ collection' \in Seq(S \cup {r})
  BY <1>1
<1>3. Len(collection') = Len(collection) + 1
  BY <1>2
<1>4. SubSeq(collection', 1, Len(collection)) = collection
  BY <1>2
<1>5. written = <<>> /\ written' = <<>>
  BY DEF ReportInv
<1>6. SubSeq(collection', 1, 0) = <<>>
  BY <1>2
<1> QED BY <1>2, <1>3, <1>4, <1>5, <1>6 DEF ReportInv

\* sort.Slice leaves a report of the same results.
LEMMA Sorted ==
  ASSUME ReportInv, Sort
  PROVE  /\ ReportInv'
         /\ collection' \in Promise!Arranged(collection)
<1>1. PICK S : collection \in Seq(S)
  BY DEF ReportInv
<1>2. PICK p \in Permutations(DOMAIN collection) :
        /\ p \in [DOMAIN collection -> DOMAIN collection]
        /\ \A j, k \in DOMAIN collection : j < k =>
             IDOf(collection[p[j]].section) <= IDOf(collection[p[k]].section)
        /\ collection' = [k \in DOMAIN collection |-> collection[p[k]]]
  BY DEF Sort, Surjection
<1>4. collection' \in Seq(S) /\ DOMAIN collection' = DOMAIN collection
  BY <1>1, <1>2
<1>5. Ascending(collection)'
  BY <1>2, <1>4 DEF Ascending
<1>6. written = <<>> /\ written' = <<>> /\ pc' = "write"
  BY DEF ReportInv, Sort
<1>7. SubSeq(collection', 1, 0) = <<>>
  BY <1>4
<1>8. ReportInv'
  BY <1>4, <1>5, <1>6, <1>7 DEF ReportInv
<1>9. collection' \in Promise!Arranged(collection)
  BY <1>2 DEF Promise!Arranged
<1> QED BY <1>8, <1>9

Implements == ReportInv' /\ [Promise!Next]_(Promise!vars)

\* An error ends the invocation, wherever it happens.
LEMMA ErrorImplements ==
  ASSUME ReportInv, Exit(1), pc # "end", setup' = setup
  PROVE  Implements
<1>1. ReportInv'
  BY ReportUntouched DEF Exit, work
<1>2. Promise!Fail
  BY DEF Exit, work, Promise!Fail
<1> QED BY <1>1, <1>2 DEF Implements, Promise!Next

\* What the program does on its way to the next section, and what happens on
\* the node, does not show.
LEMMA InnerImplements ==
  ASSUME ReportInv, UNCHANGED <<setup, collection, written, code>>,
         \/ pc' = pc
         \/ {pc, pc'} \intersect {"write", "exit", "end"} = {}
         \/ pc = "write" /\ pc' = "exit"
  PROVE  Implements
<1>1. ReportInv'
  BY ReportUntouched
<1>2. UNCHANGED Promise!vars
  BY DEF Promise!vars
<1> QED BY <1>1, <1>2 DEF Implements

\* More of the report is out.
LEMMA WriteImplements ==
  ASSUME ReportInv, pc = "write", NEW n \in Len(written) + 1..Len(collection),
         written' = SubSeq(collection, 1, n), pc' \in {"write", "exit"},
         UNCHANGED <<setup, collection, code>>,
         setup.format \in {"file", "stdout"} => n = Len(collection)
  PROVE  Implements
<1>1. PICK S : collection \in Seq(S)
  BY DEF ReportInv
<1>2. Len(written) \in Nat /\ Len(collection) \in Nat
  BY <1>1 DEF ReportInv
<1>3. n \in 1..Len(collection)
  BY <1>2
<1>4. Len(written') = n
  BY <1>1, <1>3
<1>5. n = Len(collection) => SubSeq(collection, 1, n) = collection
  BY <1>1
<1>6. Ascending(collection)'
  BY DEF ReportInv, Ascending
<1>7. Len(written') \in 0..Len(collection')
  BY <1>3, <1>4
<1>8. ReportInv'
  BY <1>1, <1>4, <1>5, <1>6, <1>7 DEF ReportInv
<1>9. Promise!Write
  BY DEF Promise!Write
<1> QED BY <1>8, <1>9 DEF Implements, Promise!Next

\* Each step of the program is one of Invocation, or does not show there.
LEMMA StepImplements ==
  ASSUME ReportInv, StatusInv, Step
  PROVE  Implements
<1>1. CASE Exit(1) /\ pc # "end" /\ setup' = setup
  BY <1>1, ErrorImplements
<1> SUFFICES ASSUME ~(Exit(1) /\ pc # "end" /\ setup' = setup)
             PROVE  Implements
  BY <1>1
<1>2. CASE Start
  BY <1>2, InnerImplements DEF Start
<1>3. CASE Plan
  BY <1>3, InnerImplements DEF Plan
<1>4. CASE Gate
  <2>1. pc' \in {"ask", "gate", "load"} /\ pc = "gate"
        /\ UNCHANGED <<setup, collection, written, code>>
    BY <1>4 DEF Gate, Ask, Probe, Skip, Load, work
  <2> QED BY <2>1, InnerImplements
<1>5. CASE ProbeComponent
  BY <1>5, InnerImplements DEF ProbeComponent
<1>6. CASE Answer
  <2>1. pc' \in {"gate", "load"} /\ pc = "ask"
        /\ UNCHANGED <<setup, collection, written, code>>
    BY <1>6 DEF Answer, Skip, Load, work
  <2> QED BY <2>1, InnerImplements
<1>7. CASE LoadConfig
  BY <1>7, InnerImplements DEF LoadConfig
<1>8. CASE Open
  BY <1>8, InnerImplements DEF Open, Probe
<1>9. CASE RunControls
  <2>1. PICK fail \in BOOLEAN :
          /\ collection' = Append(collection,
               [section |-> Head(todo), bound |-> binmap # "nil", fail |-> fail])
          /\ pc = "bind"
          /\ pc' \in {"gate", "open"}
          /\ UNCHANGED <<setup, written, code>>
    BY <1>9 DEF RunControls
  <2>2. /\ ReportInv'
        /\ Len(collection') = Len(collection) + 1
        /\ SubSeq(collection', 1, Len(collection)) = collection
    BY <2>1, Grow
  <2>3. Promise!Take
    BY <2>1, <2>2 DEF Promise!Take
  <2> QED BY <2>2, <2>3 DEF Implements, Promise!Next
<1>10. CASE Sort
  <2>1. /\ pc \in {"gate", "open"}
        /\ pc' = "write"
        /\ UNCHANGED <<setup, written, code>>
    BY <1>10 DEF Sort
  <2>2. Promise!Arrange
    BY <1>10, <2>1, Sorted DEF Promise!Arrange
  <2> QED BY <1>10, <2>2, Sorted DEF Implements, Promise!Next
<1>11. CASE WriteAll
  <2>1. /\ pc = "write" /\ pc' = "exit" /\ written' = collection
        /\ UNCHANGED <<setup, collection, code>>
    BY <1>11 DEF WriteAll, work
  <2>2. PICK S : collection \in Seq(S)
    BY DEF ReportInv
  <2>3. Len(written) \in 0..Len(collection) /\ Len(collection) \in Nat
        /\ written = SubSeq(collection, 1, Len(written))
    BY <2>2 DEF ReportInv
  <2>4. collection = SubSeq(collection, 1, Len(collection))
    BY <2>2
  <2>5. CASE Len(written) = Len(collection)
    BY <2>1, <2>3, <2>4, <2>5, InnerImplements
  <2>6. CASE Len(written) # Len(collection)
    <3>1. Len(collection) \in Len(written) + 1..Len(collection)
      BY <2>3, <2>6
    <3> QED BY <2>1, <2>4, <3>1, WriteImplements
  <2> QED BY <2>5, <2>6
<1>12. CASE WriteOne
  <2>1. /\ pc = "write" /\ pc' = "write"
        /\ written # collection
        /\ setup.format \notin {"file", "stdout"}
        /\ written' = Append(written, collection[Len(written) + 1])
        /\ UNCHANGED <<setup, collection, code>>
    BY <1>12 DEF WriteOne, work
  <2>2. PICK S : collection \in Seq(S)
    BY DEF ReportInv
  <2>3. Len(written) \in 0..Len(collection) /\ Len(collection) \in Nat
        /\ written = SubSeq(collection, 1, Len(written))
    BY <2>2 DEF ReportInv
  <2>4. Len(written) # Len(collection)
    BY <2>1, <2>2, <2>3
  <2>5. Len(written) + 1 \in Len(written) + 1..Len(collection)
    BY <2>3, <2>4
  <2>6. written' = SubSeq(collection, 1, Len(written) + 1)
    BY <2>1, <2>2, <2>3, <2>5
  <2> QED BY <2>1, <2>5, <2>6, WriteImplements
<1>13. CASE WrittenEach
  BY <1>13, InnerImplements DEF WrittenEach, work
<1>14. CASE Finish
  <2>1. /\ pc = "exit" /\ pc' = "end" /\ code' = ExitCode
        /\ written = collection
        /\ UNCHANGED <<setup, collection, written>>
    BY <1>14 DEF Finish, Exit, StatusInv, work
  <2>2. ReportInv'
    BY <2>1, ReportUntouched
  <2>3. Promise!Succeed
    BY <2>1 DEF Promise!Succeed, ExitCode
  <2> QED BY <2>2, <2>3 DEF Implements, Promise!Next
<1> QED BY <1>2, <1>3, <1>4, <1>5, <1>6, <1>7, <1>8, <1>9, <1>10, <1>11,
           <1>12, <1>13, <1>14 DEF Step

\* So is every step of the system.
LEMMA NextImplements == ReportInv /\ StatusInv /\ [Next]_vars => Implements
<1> SUFFICES ASSUME ReportInv, StatusInv, [Next]_vars PROVE Implements
  OBVIOUS
<1>1. CASE Step
  BY <1>1, StepImplements
<1>2. CASE Churn \/ Ended \/ UNCHANGED vars
  BY <1>2, InnerImplements DEF Churn, Ended, vars, work
<1> QED BY <1>1, <1>2 DEF Next

LEMMA InitImplements == Init => ReportInv /\ Promise!Init
<1> SUFFICES ASSUME Init PROVE ReportInv /\ Promise!Init
  OBVIOUS
<1>1. collection = <<>> /\ written = <<>> /\ pc = "start" /\ code = Running
      /\ setup \in Setups
  BY DEF Init
<1>2. collection \in Seq({}) /\ Len(written) = 0 /\ SubSeq(<<>>, 1, 0) = <<>>
  BY <1>1
<1>3. ReportInv
  BY <1>1, <1>2 DEF ReportInv
<1>4. setup.exitCode \in 0..255
  BY <1>1, SetupsAssumption DEF SetupOK
<1> QED BY <1>1, <1>3, <1>4 DEF Promise!Init

\* The invariant holds in every state.
LEMMA ReportHolds == Spec => []ReportInv
<1>1. ReportInv /\ StatusInv /\ [Next]_vars => ReportInv'
  BY NextImplements DEF Implements
<1> QED BY InitImplements, StatusHolds, <1>1, PTL DEF Spec

(***************************************************************************)
(* What is out is a beginning of the report, in the order of the IDs, and  *)
(* a report that is one piece is out as a whole or not at all.             *)
(***************************************************************************)
THEOREM ReportCorrect == Spec => []WrittenInOrder
<1>1. ReportInv => WrittenInOrder
  <2> SUFFICES ASSUME ReportInv PROVE WrittenInOrder
    OBVIOUS
  <2>1. PICK S : collection \in Seq(S)
    BY DEF ReportInv
  <2>2. /\ Len(written) \in 0..Len(collection) /\ Len(collection) \in Nat
        /\ written = SubSeq(collection, 1, Len(written))
    BY <2>1 DEF ReportInv
  <2>3. /\ DOMAIN written = 1..Len(written)
        /\ DOMAIN written \subseteq DOMAIN collection
        /\ \A k \in DOMAIN written : written[k] = collection[k]
    BY <2>1, <2>2
  <2>4. \A j, k \in DOMAIN written :
          j < k => IDOf(written[j].section) <= IDOf(written[k].section)
    <3>1. CASE written = <<>>
      BY <3>1
    <3>2. CASE written # <<>>
      BY <2>3, <3>2 DEF ReportInv, Ascending
    <3> QED BY <3>1, <3>2
  <2> QED BY <2>3, <2>4 DEF ReportInv, WrittenInOrder
<1> QED BY ReportHolds, <1>1, PTL

(***************************************************************************)
(* The two commands, step by step, implement Invocation.                   *)
(***************************************************************************)
THEOREM KubeBenchImplementsInvocation == Spec => ImplementsInvocation
<1>1. ReportInv /\ StatusInv /\ [Next]_vars => [Promise!Next]_(Promise!vars)
  BY NextImplements DEF Implements
<1> QED BY InitImplements, ReportHolds, StatusHolds, <1>1, PTL
        DEF Spec, ImplementsInvocation, Promise!Spec

-----------------------------------------------------------------------------
(* Which sections a report holds.                                          *)

\* The sections a list holds.
Members(t) == {t[k] : k \in DOMAIN t}

\* What the root command still has to take, section by section.
FromControlPlane ==
  <<"controlplane", "etcd", "node", "policies", "managedservices">>
FromEtcd == <<"etcd", "node", "policies", "managedservices">>
FromNode == <<"node", "policies", "managedservices">>
FromPolicies == <<"policies", "managedservices">>
Last == <<"managedservices">>

Suffixes ==
  {RootOrder, FromControlPlane, FromEtcd, FromNode, FromPolicies, Last, <<>>}

\* The sections each of these lists holds.
LEMMA MembersOf ==
  /\ Members(RootOrder) = Targets
  /\ Members(FromControlPlane) = Targets \ {"master"}
  /\ Members(FromEtcd) = {"etcd", "node", "policies", "managedservices"}
  /\ Members(FromNode) = {"node", "policies", "managedservices"}
  /\ Members(FromPolicies) = {"policies", "managedservices"}
  /\ Members(Last) = {"managedservices"}
  /\ Members(<<>>) = {}
BY DEF Members, RootOrder, Targets, FromControlPlane, FromEtcd, FromNode,
   FromPolicies, Last

\* The lists are left one by one, and no section comes back.
LEMMA Turn ==
  ASSUME NEW t \in Suffixes, t # <<>>
  PROVE  /\ Head(t) \in Targets
         /\ Tail(t) \in Suffixes
         /\ Members(t) = Members(Tail(t)) \cup {Head(t)}
         /\ Head(t) \notin Members(Tail(t))
         /\ Head(t) = "master" => t = RootOrder
         /\ "master" \notin Members(Tail(t))
         /\ Head(t) = "master" =>
              {"controlplane", "etcd"} \subseteq Members(Tail(t))
         /\ "etcd" \in Members(Tail(t)) => Head(t) \in {"master", "controlplane"}
<1>1. CASE t = RootOrder
  <2>1. Head(t) = "master" /\ Tail(t) = FromControlPlane
    BY <1>1 DEF RootOrder, FromControlPlane
  <2>2. Members(t) = Targets
        /\ Members(Tail(t)) = Targets \ {"master"}
    BY <1>1, <2>1, MembersOf
  <2>3. Tail(t) \in Suffixes
    BY <2>1 DEF Suffixes
  <2> QED BY <1>1, <2>1, <2>2, <2>3 DEF Targets
<1>2. CASE t = FromControlPlane
  <2>1. Head(t) = "controlplane" /\ Tail(t) = FromEtcd
    BY <1>2 DEF FromEtcd, FromControlPlane
  <2>2. Members(t) = Targets \ {"master"}
        /\ Members(Tail(t)) = {"etcd", "node", "policies", "managedservices"}
    BY <1>2, <2>1, MembersOf
  <2>3. Tail(t) \in Suffixes
    BY <2>1 DEF Suffixes
  <2> QED BY <1>2, <2>1, <2>2, <2>3 DEF Targets
<1>3. CASE t = FromEtcd
  <2>1. Head(t) = "etcd" /\ Tail(t) = FromNode
    BY <1>3 DEF FromEtcd, FromNode
  <2>2. Members(t) = {"etcd", "node", "policies", "managedservices"}
        /\ Members(Tail(t)) = {"node", "policies", "managedservices"}
    BY <1>3, <2>1, MembersOf
  <2>3. Tail(t) \in Suffixes
    BY <2>1 DEF Suffixes
  <2> QED BY <1>3, <2>1, <2>2, <2>3 DEF Targets
<1>4. CASE t = FromNode
  <2>1. Head(t) = "node" /\ Tail(t) = FromPolicies
    BY <1>4 DEF FromPolicies, FromNode
  <2>2. Members(t) = {"node", "policies", "managedservices"}
        /\ Members(Tail(t)) = {"policies", "managedservices"}
    BY <1>4, <2>1, MembersOf
  <2>3. Tail(t) \in Suffixes
    BY <2>1 DEF Suffixes
  <2> QED BY <1>4, <2>1, <2>2, <2>3 DEF Targets
<1>5. CASE t = FromPolicies
  <2>1. Head(t) = "policies" /\ Tail(t) = Last
    BY <1>5 DEF FromPolicies, Last
  <2>2. Members(t) = {"policies", "managedservices"}
        /\ Members(Tail(t)) = {"managedservices"}
    BY <1>5, <2>1, MembersOf
  <2>3. Tail(t) \in Suffixes
    BY <2>1 DEF Suffixes
  <2> QED BY <1>5, <2>1, <2>2, <2>3 DEF Targets
<1>6. CASE t = Last
  <2>1. Head(t) = "managedservices" /\ Tail(t) = <<>>
    BY <1>6 DEF Last
  <2>2. Members(t) = {"managedservices"}
        /\ Members(Tail(t)) = {}
    BY <1>6, <2>1, MembersOf
  <2>3. Tail(t) \in Suffixes
    BY <2>1 DEF Suffixes
  <2> QED BY <1>6, <2>1, <2>2, <2>3 DEF Targets
<1> QED BY <1>1, <1>2, <1>3, <1>4, <1>5, <1>6 DEF Suffixes

-----------------------------------------------------------------------------
\* The command takes sections, writes the report or has completed.
Alive ==
  \/ pc \in {"gate", "ask", "load", "open", "bind", "write", "exit"}
  \/ Completed

\* What has been decided of the sections that are behind: node is there or to
\* come, the optional ones are there if they are valid, and the controlplane
\* only behind a master.
Settled ==
  /\ "node" \in Members(todo) \cup Reported
  /\ \A s \in {"policies", "managedservices"} :
       s \notin Members(todo) => (s \in Reported <=> Valid(s))
  /\ "controlplane" \notin Members(todo) =>
       ("controlplane" \in Reported <=>
          "master" \in Reported /\ Valid("controlplane"))
  /\ "controlplane" \in Members(todo) => "master" \in Members(todo) \cup Reported

\* Where the root command is. Its list is one of the six tails of the order, and
\* none of the sections in it is reported yet: so each is reported once, and the
\* collection is as long as the set of them.
Route ==
  setup.cmd = "root" =>
    /\ pc # "plan"
    /\ pc = "start" => collection = <<>>
    /\ Alive =>
         /\ todo \in Suffixes
         /\ pc \in {"ask", "load", "open", "bind"} => todo # <<>>
         /\ pc \notin {"gate", "ask", "load", "open", "bind"} => todo = <<>>
         /\ pc = "ask" => Head(todo) \in {"master", "etcd"}
         /\ pc \in {"ask", "load", "open", "bind"} =>
              Head(todo) \in {"master", "node"} \/ Valid(Head(todo))
         /\ Reported \intersect Members(todo) = {}
         /\ IsFiniteSet(Reported)
         /\ Len(collection) = Cardinality(Reported)
         /\ Settled

\* A section run is one more section reported.
LEMMA ReportedGrows ==
  ASSUME NEW r, ReportInv, collection' = Append(collection, r)
  PROVE  /\ Reported' = Reported \cup {r.section}
         /\ Len(collection') = Len(collection) + 1
<1>1. PICK S : collection \in Seq(S)
  BY DEF ReportInv
<1>2. /\ Len(collection') = Len(collection) + 1
      /\ \A k \in DOMAIN collection : collection'[k] = collection[k]
      /\ collection'[Len(collection) + 1] = r
      /\ DOMAIN collection' = DOMAIN collection \cup {Len(collection) + 1}
  BY <1>1
<1> QED BY <1>2 DEF Reported

\* Sorting, a permutation, loses no section and adds none.
LEMMA ReportedSorted ==
  ASSUME ReportInv, Sort
  PROVE  Reported' = Reported /\ Len(collection') = Len(collection)
<1>1. PICK S : collection \in Seq(S)
  BY DEF ReportInv
<1>2. PICK p \in Permutations(DOMAIN collection) :
        /\ p \in Surjection(DOMAIN collection, DOMAIN collection)
        /\ collection' = [k \in DOMAIN collection |-> collection[p[k]]]
  BY DEF Sort
<1>3. /\ p \in [DOMAIN collection -> DOMAIN collection]
      /\ \A k \in DOMAIN collection : \E j \in DOMAIN collection : p[j] = k
  BY <1>2 DEF Surjection
<1>4. Reported' = Reported
  BY <1>2, <1>3 DEF Reported
<1> QED BY <1>1, <1>2, <1>4

\* The sections go on to the next one, the one at hand being skipped.
LEMMA SkipRoute ==
  ASSUME Route, setup.cmd = "root", setup' = setup, pc \in {"gate", "ask"},
         todo # <<>>, Skip,
         Head(todo) # "node",
         Head(todo) \in {"policies", "managedservices",
         "controlplane"} => ~Valid(Head(todo))
  PROVE  Route'
<1>1. /\ Alive /\ todo \in Suffixes
      /\ pc' = "gate" /\ UNCHANGED <<setup, collection>>
  BY DEF Route, Alive, Skip
<1>2. /\ Head(todo) \in Targets
      /\ Tail(todo) \in Suffixes
      /\ Members(todo) = Members(Tail(todo)) \cup {Head(todo)}
      /\ Head(todo) \notin Members(Tail(todo))
      /\ Head(todo) = "master" => todo = RootOrder
  BY <1>1, Turn
<1>3. Reported' = Reported /\ Completed' = FALSE
  BY <1>1 DEF Reported, Completed
<1>4. CASE Head(todo) = "master"
  <2>1. todo' = FromEtcd
    <3>1. Tail(RootOrder) = FromControlPlane
      BY DEF RootOrder, FromControlPlane
    <3>2. Tail(FromControlPlane) = FromEtcd
      BY DEF FromEtcd, FromControlPlane
    <3> QED BY <1>2, <1>4, <3>1, <3>2 DEF Skip
  <2>2. \A s \in Targets : s \notin Reported
    BY <1>1, <1>2, <1>4, MembersOf DEF Route
  <2>3. Settled'
    <3>1. Members(todo') = {"etcd", "node", "policies", "managedservices"}
      BY <2>1, MembersOf
    <3>2. "master" \notin Reported' /\ "controlplane" \notin Reported'
      BY <1>3, <2>2 DEF Targets
    <3> QED BY <3>1, <3>2 DEF Settled
  <2> QED BY <1>1, <1>3, <2>1, <2>2, <2>3, MembersOf
             DEF Route, Suffixes, Targets
<1>5. CASE Head(todo) # "master"
  <2>1. todo' = Tail(todo)
    BY <1>5 DEF Skip
  <2>2. Members(todo) = Members(todo') \cup {Head(todo)}
    BY <1>2, <2>1
  <2>4. Settled
    BY <1>1 DEF Route
  <2>3. Settled'
    <3>1. Head(todo) \notin Reported
      BY <1>1, <1>2 DEF Route
    <3>2. "node" \in Members(todo') \cup Reported'
      BY <1>3, <2>2, <2>4 DEF Settled
    <3>4. "controlplane" \in Members(todo') =>
            "master" \in Members(todo') \cup Reported'
      BY <1>3, <1>5, <2>2, <2>4 DEF Settled
    <3>5. ASSUME NEW s \in {"policies", "managedservices"},
                 s \notin Members(todo')
          PROVE  s \in Reported' <=> s \in setup.targets
      BY <1>3, <2>2, <2>4, <3>1, <3>5 DEF Settled, Valid
    <3>6. ASSUME "controlplane" \notin Members(todo')
          PROVE  "controlplane" \in Reported' <=>
                   "master" \in Reported' /\ "controlplane" \in setup.targets
      BY <1>3, <2>2, <2>4, <3>1, <3>6 DEF Settled, Valid
    <3> QED BY <1>1, <3>2, <3>4, <3>5, <3>6 DEF Settled, Valid
  <2> QED BY <1>1, <1>2, <1>3, <2>1, <2>2, <2>3 DEF Route
<1> QED BY <1>4, <1>5

\* The sections go on to the next one, the one at hand being reported.
LEMMA TakenRoute ==
  ASSUME Route, ReportInv, setup.cmd = "root", setup' = setup, pc = "bind",
         pc' = "gate",
         todo' = Tail(todo), NEW r, r.section = Head(todo),
         collection' = Append(collection, r)
  PROVE  Route'
<1>1. /\ Alive /\ todo \in Suffixes /\ todo # <<>> /\ Settled
      /\ Head(todo) \in {"master", "node"} \/ Valid(Head(todo))
      /\ Reported \intersect Members(todo) = {}
      /\ IsFiniteSet(Reported) /\ Len(collection) = Cardinality(Reported)
  BY DEF Route, Alive
<1>2. /\ Tail(todo) \in Suffixes
      /\ Members(todo) = Members(todo') \cup {Head(todo)}
      /\ Head(todo) \notin Members(todo')
      /\ "master" \notin Members(todo')
      /\ Head(todo) = "master" => "controlplane" \in Members(todo')
  BY <1>1, Turn
<1>3. /\ Reported' = Reported \cup {Head(todo)}
      /\ Len(collection') = Len(collection) + 1
  BY ReportedGrows
<1>4. IsFiniteSet(Reported') /\ Len(collection') = Cardinality(Reported')
  <2>1. Head(todo) \notin Reported
    BY <1>1, <1>2
  <2>2. /\ IsFiniteSet(Reported \cup {Head(todo)})
        /\ Cardinality(Reported \cup {Head(todo)}) = Cardinality(Reported) + 1
    BY <1>1, <2>1, FS_AddElement
  <2> QED BY <1>1, <1>3, <2>2
<1>5. Settled'
  <2>1. "node" \in Members(todo') \cup Reported'
    BY <1>1, <1>2, <1>3 DEF Settled
  <2>2. "controlplane" \in Members(todo') =>
          "master" \in Members(todo') \cup Reported'
    BY <1>1, <1>2, <1>3 DEF Settled
  <2>3. ASSUME NEW s \in {"policies", "managedservices"},
               s \notin Members(todo')
        PROVE  s \in Reported' <=> s \in setup.targets
    BY <1>1, <1>2, <1>3, <2>3 DEF Settled, Valid
  <2>4. ASSUME "controlplane" \notin Members(todo')
        PROVE  "controlplane" \in Reported' <=>
                 "master" \in Reported' /\ "controlplane" \in setup.targets
    <3>1. CASE Head(todo) = "controlplane"
      BY <1>1, <1>2, <1>3, <3>1 DEF Settled, Valid
    <3>2. CASE Head(todo) # "controlplane"
      BY <1>1, <1>2, <1>3, <2>4, <3>2 DEF Settled, Valid
    <3> QED BY <3>1, <3>2
  <2> QED BY <2>1, <2>2, <2>3, <2>4 DEF Settled, Valid
<1> QED BY <1>1, <1>2, <1>3, <1>4, <1>5 DEF Route

\* An error leaves no report that would have to be complete.
LEMMA ErrorRoute == Exit(1) => Route'
  BY DEF Exit, Route, Alive, Completed

\* The section at hand stays the same.
LEMMA StayRoute ==
  ASSUME Route, Alive, UNCHANGED <<setup, todo, collection>>,
         pc' \in {"gate", "ask", "load", "open", "bind"} => todo # <<>>,
         pc' \notin {"gate", "ask", "load", "open", "bind"} => todo = <<>>,
         pc' \notin {"start", "plan"},
         pc' = "ask" => Head(todo) \in {"master", "etcd"},
         pc' \in {"ask", "load", "open", "bind"} =>
           Head(todo) \in {"master", "node"} \/ Valid(Head(todo))
  PROVE  Route'
<1>1. Reported' = Reported
  BY DEF Reported
<1>2. setup.cmd = "root" => Settled'
  BY <1>1 DEF Route, Settled, Valid
<1> QED BY <1>1, <1>2 DEF Route, Valid

\* One case for each action of a command.
LEMMA StepRoute ==
  ASSUME Route, ReportInv, StatusInv, Step, setup.cmd = "root"
  PROVE  Route'
<1>1. CASE Exit(1)
  BY <1>1, ErrorRoute
<1> SUFFICES ASSUME ~Exit(1) PROVE Route'
  BY <1>1
<1>2. CASE Start
  <2>1. /\ collection' = <<>> /\ todo' = RootOrder /\ pc' = "gate"
    BY <1>2 DEF Start, Route
  <2>2. Reported' = {}
    BY <2>1 DEF Reported
  <2>3. IsFiniteSet({}) /\ Cardinality({}) = 0 /\ Len(<<>>) = 0
    BY FS_EmptySet
  <2>4. Settled'
    BY <2>1, <2>2, MembersOf DEF Settled, Targets
  <2>5. todo' # <<>> /\ todo' \in Suffixes
    BY <2>1 DEF RootOrder, Suffixes
  <2> QED BY <2>1, <2>2, <2>3, <2>4, <2>5 DEF Route
<1>3. CASE Plan
  BY <1>3 DEF Plan, Route
<1>4. CASE Gate
  <2>0. /\ pc = "gate" /\ todo # <<>> /\ setup' = setup
        /\ Alive /\ Head(todo) \in Targets
    BY <1>4, Turn DEF Gate, Alive, Route
  <2>1. \/ /\ Head(todo) \in {"master", "etcd"}
           /\ Head(todo) = "etcd" => Valid("etcd")
           /\ Ask
        \/ (Head(todo) = "node" \/ Valid(Head(todo))) /\ Load
        \/ Head(todo) \notin {"master", "node"} /\ ~Valid(Head(todo)) /\ Skip
    BY <1>4 DEF Gate
  <2>2. CASE /\ Head(todo) \in {"master", "etcd"}
             /\ Head(todo) = "etcd" => Valid("etcd")
             /\ Ask
    <3>1. CASE Skip
      BY <2>0, <2>2, <3>1, SkipRoute
    <3>2. CASE Probe("ask")
      BY <2>0, <2>2, <3>2, StayRoute DEF Probe
    <3> QED BY <2>2, <3>1, <3>2 DEF Ask
  <2>3. CASE (Head(todo) = "node" \/ Valid(Head(todo))) /\ Load
    BY <2>0, <2>3, StayRoute DEF Load, work
  <2>4. CASE Head(todo) \notin {"master", "node"} /\ ~Valid(Head(todo)) /\ Skip
    BY <2>0, <2>4, SkipRoute
  <2> QED BY <2>1, <2>2, <2>3, <2>4
<1>5. CASE ProbeComponent
  BY <1>5, StayRoute DEF ProbeComponent, Route, Alive
<1>6. CASE Answer
  <2>1. /\ pc = "ask" /\ todo # <<>> /\ setup' = setup /\ Alive
        /\ Head(todo) \in {"master", "etcd"}
    BY <1>6 DEF Answer, Alive, Route
  <2>2. CASE Skip
    BY <2>1, <2>2, SkipRoute
  <2>3. CASE Load
    BY <2>1, <2>3, StayRoute DEF Load, work, Route
  <2> QED BY <1>6, <2>2, <2>3 DEF Answer
<1>7. CASE LoadConfig
  BY <1>7, StayRoute DEF LoadConfig, Route, Alive
<1>8. CASE Open
  BY <1>8, StayRoute DEF Open, Probe, Route, Alive
<1>9. CASE RunControls
  BY <1>9, TakenRoute DEF RunControls
<1>10. CASE Sort
  <2>1. /\ todo = <<>> /\ todo' = <<>> /\ pc' = "write" /\ setup' = setup /\ Alive
    BY <1>10 DEF Sort, Alive
  <2>2. Reported' = Reported /\ Len(collection') = Len(collection)
    BY <1>10, ReportedSorted
  <2>3. Settled'
    BY <2>1, <2>2 DEF Route, Settled, Valid
  <2> QED BY <2>1, <2>2, <2>3 DEF Route
<1>11. CASE WriteAll \/ WriteOne \/ WrittenEach
  <2>1. /\ pc = "write" /\ pc' \in {"write", "exit"}
        /\ UNCHANGED <<setup, todo, collection>>
    BY <1>11 DEF WriteAll, WriteOne, WrittenEach, work
  <2> QED BY <2>1, StayRoute DEF Route, Alive
<1>12. CASE Finish
  <2>1. pc = "exit" /\ pc' = "end" /\ UNCHANGED <<setup, todo, collection>>
    BY <1>12 DEF Finish, Exit, work
  <2> QED BY <2>1, StayRoute DEF Route, Alive
<1> QED BY <1>2, <1>3, <1>4, <1>5, <1>6, <1>7, <1>8, <1>9, <1>10, <1>11,
           <1>12 DEF Step

\* A command never changes what it was started with.
LEMMA SetupSame == [Next]_vars => setup' = setup
  BY DEF Next, Step, Start, Plan, Gate, ProbeComponent, Answer, LoadConfig,
     Open, RunControls,
         Sort, WriteAll, WriteOne, WrittenEach, Finish, Churn, Ended, vars

\* Route is inductive.
LEMMA NextRoute == Route /\ ReportInv /\ StatusInv /\ [Next]_vars => Route'
<1> SUFFICES ASSUME Route, ReportInv, StatusInv, [Next]_vars,
                    (setup.cmd = "root")'
             PROVE  Route'
  BY DEF Route
<1>1. CASE Step
  <2>1. setup' = setup
    BY SetupSame
  <2> QED BY <1>1, <2>1, StepRoute
<1>2. CASE Churn \/ Ended \/ UNCHANGED vars
  <2>1. UNCHANGED <<setup, pc, todo, collection, code>>
    BY <1>2 DEF Churn, Ended, vars, work
  <2>2. UNCHANGED <<Reported, Alive>>
    BY <2>1 DEF Reported, Alive, Completed
  <2>3. Settled' = Settled
    BY <2>1, <2>2 DEF Settled, Valid
  <2> QED BY <2>1, <2>2, <2>3 DEF Route, Valid
<1> QED BY <1>1, <1>2 DEF Next

\* Route in every reachable state.
LEMMA RouteHolds == Spec => []Route
<1>1. Init => Route
  BY DEF Init, Route, Alive, Completed
<1> QED BY <1>1, NextRoute, ReportHolds, StatusHolds, PTL DEF Spec

-----------------------------------------------------------------------------
\* Where run is: what is left of its files follows what it has reported.
RunRoute ==
  setup.cmd = "run" =>
    /\ pc \notin {"gate", "ask", "load"}
    /\ pc \in {"start", "plan"} => collection = <<>>
    /\ Alive =>
         /\ TestFiles \in Seq(Targets)
         /\ Len(collection) \in 0..Len(TestFiles)
         /\ todo = SubSeq(TestFiles, Len(collection) + 1, Len(TestFiles))
         /\ pc \notin {"open", "bind"} => todo = <<>>
         /\ pc = "bind" => todo # <<>>
         /\ Reported = {TestFiles[k] : k \in 1..Len(collection)}

\* getYamlFilesFromDir lists sections.
LEMMA YamlFilesType == ASSUME NEW files PROVE YamlFiles(files) \in Seq(Targets)
<1> DEFINE File(s) == IF s \in files THEN <<s>> ELSE <<>>
<1>1. \A s \in Targets : File(s) \in Seq(Targets)
  OBVIOUS
<1> HIDE DEF File
<1>2. ASSUME NEW a \in Seq(Targets), NEW s \in Targets
      PROVE  a \o File(s) \in Seq(Targets)
  BY <1>1
<1>3. File("controlplane") \o File("etcd") \in Seq(Targets)
  BY <1>1, <1>2 DEF Targets
<1> DEFINE two == File("controlplane") \o File("etcd")
<1> HIDE DEF two
<1> two \in Seq(Targets)
  BY <1>3 DEF two
<1>4. two \o File("managedservices") \o File("master") \in Seq(Targets)
  BY <1>2 DEF Targets
<1> DEFINE four == two \o File("managedservices") \o File("master")
<1> HIDE DEF four
<1>5. four \o File("node") \o File("policies") \in Seq(Targets)
  BY <1>2, <1>4 DEF Targets, four
<1> QED BY <1>5 DEF YamlFiles, File, two, four

\* What run does not refuse is a list of sections.
LEMMA TestFilesType ==
  ASSUME setup \in Setups, ~Refused
  PROVE  TestFiles \in Seq(Targets)
<1>1. setup.args \in Seq(STRING) /\ setup.targets \subseteq Targets
  BY SetupsAssumption DEF SetupOK
<1>2. CASE setup.args # <<>>
  <2>1. TestFiles = [k \in DOMAIN setup.args |-> Translate(setup.args[k])]
    BY <1>2 DEF TestFiles
  <2>2. \A k \in DOMAIN setup.args : Translate(setup.args[k]) \in Targets
    BY <1>1 DEF Refused, Valid, Translate, Targets
  <2> QED BY <1>1, <2>1, <2>2
<1>3. CASE setup.args = <<>>
  BY <1>3, YamlFilesType DEF TestFiles
<1> QED BY <1>2, <1>3

\* An error leaves no report that would have to be complete.
LEMMA ErrorRunRoute == Exit(1) /\ setup' = setup => RunRoute'
  BY DEF Exit, RunRoute, Alive, Completed

\* The file at hand stays the same.
LEMMA StayRunRoute ==
  ASSUME RunRoute, Alive, UNCHANGED <<setup, todo, collection>>,
         pc' = "bind" => todo # <<>>,
         pc' \notin {"open", "bind"} => todo = <<>>,
         pc' \notin {"start", "plan", "gate", "ask", "load"}
  PROVE  RunRoute'
<1>1. Reported' = Reported /\ TestFiles' = TestFiles
  BY DEF Reported, TestFiles
<1> QED BY <1>1 DEF RunRoute

\* The next file is taken, the one at hand being reported.
LEMMA TakenRunRoute ==
  ASSUME RunRoute, ReportInv, setup' = setup, pc = "bind", pc' = "open",
         todo' = Tail(todo), NEW r, r.section = Head(todo),
         collection' = Append(collection, r)
  PROVE  RunRoute'
<1> SUFFICES ASSUME setup.cmd = "run" PROVE RunRoute'
  BY DEF RunRoute
<1>0. TestFiles \in Seq(Targets)
  BY DEF RunRoute, Alive
<1> DEFINE n == Len(collection)
           m == Len(TestFiles)
<1>1. /\ n \in 0..m /\ m \in Nat
      /\ todo = SubSeq(TestFiles, n + 1, m)
      /\ todo # <<>>
      /\ Reported = {TestFiles[k] : k \in 1..n}
  BY <1>0 DEF RunRoute, Alive
<1>2. n < m
  BY <1>0, <1>1
<1>3. Head(todo) = TestFiles[n + 1]
  BY <1>0, <1>1, <1>2
<1>4. Tail(todo) = SubSeq(TestFiles, n + 2, m)
  BY <1>0, <1>1, <1>2
<1>5. Reported' = Reported \cup {TestFiles[n + 1]} /\ Len(collection') = n + 1
  BY <1>3, ReportedGrows
<1>6. Reported' = {TestFiles[k] : k \in 1..n + 1}
  BY <1>1, <1>5
<1>7. TestFiles' = TestFiles
  BY DEF TestFiles
<1>8. n + 1 \in 0..m /\ (n + 1) + 1 = n + 2
  BY <1>1, <1>2
<1> QED BY <1>0, <1>4, <1>5, <1>6, <1>7, <1>8 DEF RunRoute

\* One case for each action of a command.
LEMMA StepRunRoute ==
  ASSUME RunRoute, ReportInv, setup \in Setups, Step, setup.cmd = "run"
  PROVE  RunRoute'
<1>1. CASE Exit(1) /\ setup' = setup
  BY <1>1, ErrorRunRoute
<1> SUFFICES ASSUME ~(Exit(1) /\ setup' = setup) PROVE RunRoute'
  BY <1>1
<1>2. CASE Start
  <2>1. setup' = setup /\ pc' = "plan" /\ collection' = <<>> /\ code' = code
    BY <1>2 DEF Start, RunRoute
  <2> QED BY <2>1 DEF RunRoute, Alive, Completed
<1>3. CASE Plan
  <2>0. /\ setup' = setup /\ TestFiles' = TestFiles
        /\ TestFiles \in Seq(Targets)
    BY <1>3, TestFilesType DEF Plan, TestFiles
  <2>1. /\ setup' = setup /\ pc' = "open" /\ collection' = <<>> /\ todo' = TestFiles
        /\ TestFiles' = TestFiles
    BY <1>3, <2>0 DEF Plan, RunRoute
  <2>2. Reported' = {} /\ Len(<<>>) = 0
    BY <2>1 DEF Reported
  <2>3. /\ TestFiles = SubSeq(TestFiles, 1, Len(TestFiles))
        /\ 0 \in 0..Len(TestFiles)
    BY <2>0
  <2> QED BY <2>0, <2>1, <2>2, <2>3 DEF RunRoute
<1>4. CASE Gate \/ Answer \/ LoadConfig
  BY <1>4 DEF Gate, Answer, LoadConfig, RunRoute
<1>5. CASE ProbeComponent
  BY <1>5, StayRunRoute DEF ProbeComponent, RunRoute, Alive
<1>8. CASE Open
  BY <1>8, StayRunRoute DEF Open, Probe, RunRoute, Alive
<1>9. CASE RunControls
  BY <1>9, TakenRunRoute DEF RunControls
<1>10. CASE Sort
  <2>1. /\ todo = <<>> /\ todo' = <<>> /\ pc' = "write" /\ setup' = setup /\ Alive
        /\ TestFiles' = TestFiles
    BY <1>10 DEF Sort, Alive, TestFiles
  <2>2. Reported' = Reported /\ Len(collection') = Len(collection)
    BY <1>10, ReportedSorted
  <2> QED BY <2>1, <2>2 DEF RunRoute
<1>11. CASE WriteAll \/ WriteOne \/ WrittenEach
  <2>1. /\ pc = "write" /\ pc' \in {"write", "exit"}
        /\ UNCHANGED <<setup, todo, collection>>
    BY <1>11 DEF WriteAll, WriteOne, WrittenEach, work
  <2> QED BY <2>1, StayRunRoute DEF RunRoute, Alive
<1>12. CASE Finish
  <2>1. pc = "exit" /\ pc' = "end" /\ UNCHANGED <<setup, todo, collection>>
    BY <1>12 DEF Finish, Exit, work
  <2> QED BY <2>1, StayRunRoute DEF RunRoute, Alive
<1> QED BY <1>2, <1>3, <1>4, <1>5, <1>8, <1>9, <1>10, <1>11, <1>12 DEF Step

\* RunRoute is inductive.
LEMMA NextRunRoute ==
  RunRoute /\ ReportInv /\ setup \in Setups /\ [Next]_vars => RunRoute'
<1> SUFFICES ASSUME RunRoute, ReportInv, setup \in Setups, [Next]_vars,
                    (setup.cmd = "run")'
             PROVE  RunRoute'
  BY DEF RunRoute
<1>1. CASE Step
  <2>1. setup' = setup
    BY SetupSame
  <2> QED BY <1>1, <2>1, StepRunRoute
<1>2. CASE Churn \/ Ended \/ UNCHANGED vars
  <2>1. UNCHANGED <<setup, pc, todo, collection, code>>
    BY <1>2 DEF Churn, Ended, vars, work
  <2>2. UNCHANGED <<Reported, Alive, TestFiles>>
    BY <2>1 DEF Reported, Alive, Completed, TestFiles
  <2> QED BY <2>1, <2>2 DEF RunRoute
<1> QED BY <1>1, <1>2 DEF Next

\* The setup is one of those that are given.
LEMMA SetupHolds == Spec => [](setup \in Setups)
<1>1. Init => setup \in Setups
  BY DEF Init
<1>2. setup \in Setups /\ [Next]_vars => (setup \in Setups)'
  BY SetupSame
<1> QED BY <1>1, <1>2, PTL DEF Spec

\* RunRoute in every reachable state.
LEMMA RunRouteHolds == Spec => []RunRoute
<1>1. Init => RunRoute
  BY DEF Init, RunRoute, Alive, Completed
<1> QED BY <1>1, NextRunRoute, SetupHolds, ReportHolds, PTL DEF Spec

\* A report that is complete holds each section it has to, exactly once: the
\* root command's the node and every section that is valid and detected, run's
\* the sections of its files (RootCmd.Run, getTestYamlFiles, runChecks).
THEOREM SectionsCorrect == Spec => []SectionsComplete
<1>1. Route /\ setup.cmd = "root" => SectionsComplete
  BY MembersOf DEF Route, Alive, Completed, SectionsComplete, Settled
<1>2. RunRoute /\ setup.cmd = "run" => SectionsComplete
  <2> SUFFICES ASSUME RunRoute, setup.cmd = "run", Completed
               PROVE  /\ Len(collection) = Len(TestFiles)
                      /\ Reported = {TestFiles[k] : k \in DOMAIN TestFiles}
    BY DEF SectionsComplete
  <2>1. /\ TestFiles \in Seq(Targets)
        /\ Len(collection) \in 0..Len(TestFiles)
        /\ SubSeq(TestFiles, Len(collection) + 1, Len(TestFiles)) = <<>>
        /\ Reported = {TestFiles[k] : k \in 1..Len(collection)}
    BY DEF RunRoute, Alive, Completed
  <2>2. Len(collection) = Len(TestFiles)
    BY <2>1
  <2> QED BY <2>1, <2>2
<1>3. setup \in Setups => setup.cmd \in {"root", "run"}
  BY SetupsAssumption DEF SetupOK
<1>4. setup \in Setups /\ Route /\ RunRoute => SectionsComplete
  BY <1>1, <1>2, <1>3
<1> QED BY <1>4, SetupHolds, RouteHolds, RunRouteHolds, PTL

-----------------------------------------------------------------------------
\* A component getBinaries gives up at.
Blocks(c) == c.bins # {} /\ c.bins \intersect procs = {} /\ ~c.optional

\* The components of the section at hand.
Here == Conf[Head(todo)]

\* How far getBinaries got: what it has passed did not stop it, and it has found
\* something exactly if one of those has an executable of its own.
Probing ==
  /\ setup \in Setups
  /\ pc \in {"ask", "bind"} /\ steady =>
       /\ Head(todo) \in DOMAIN Conf
       /\ Here \in Seq(Components)
       /\ \/ /\ binmap = "nil"
             /\ left = <<>>
             /\ \E k \in DOMAIN Here : Blocks(Here[k])
          \/ /\ binmap # "nil"
             /\ \E n \in 0..Len(Here) :
                  /\ left = SubSeq(Here, n + 1, Len(Here))
                  /\ \A k \in 1..n : ~Blocks(Here[k])
                  /\ binmap = "some" <=> \E k \in 1..n : Here[k].bins # {}

\* getBinaries begins.
LEMMA ProbeBegins ==
  ASSUME setup \in Setups, setup' = setup, Head(todo) \in DOMAIN Conf,
         NEW next, Probe(next)
  PROVE  Probing'
<1>1. Here \in Seq(Components)
  BY SetupsAssumption DEF SetupOK, Conf, Here
<1>2. /\ Conf' = Conf /\ Here' = Here /\ left' = Here /\ binmap' = "empty"
      /\ todo' = todo
  BY DEF Probe, Conf, Here
<1>3. /\ Here = SubSeq(Here, 0 + 1, Len(Here)) /\ 0 \in 0..Len(Here)
  BY <1>1
<1> QED BY <1>1, <1>2, <1>3 DEF Probing

\* One component.
LEMMA ProbeGoesOn ==
  ASSUME Probing, ProbeComponent
  PROVE  Probing'
<1> SUFFICES ASSUME steady PROVE Probing'
  BY DEF Probing, ProbeComponent, env
<1>1. /\ pc \in {"ask", "bind"} /\ UNCHANGED <<setup, procs, steady, pc, todo>>
      /\ left # <<>> /\ Conf' = Conf /\ Here' = Here /\ setup \in Setups
  BY DEF ProbeComponent, Probing, env, Conf, Here
<1>2. Head(todo) \in DOMAIN Conf /\ Here \in Seq(Components)
  BY <1>1 DEF Probing
<1>3. PICK n \in 0..Len(Here) :
        /\ left = SubSeq(Here, n + 1, Len(Here))
        /\ \A k \in 1..n : ~Blocks(Here[k])
        /\ binmap = "some" <=> \E k \in 1..n : Here[k].bins # {}
  BY <1>1 DEF Probing
<1>4. /\ n + 1 \in 1..Len(Here)
      /\ Head(left) = Here[n + 1]
      /\ Tail(left) = SubSeq(Here, (n + 1) + 1, Len(Here))
  BY <1>1, <1>2, <1>3
<1>5. \A c : Blocks(c)' = Blocks(c)
  BY <1>1 DEF Blocks
<1> DEFINE c == Here[n + 1]
<1>6. CASE Blocks(c)
  <2>1. left' = <<>> /\ binmap' = "nil"
    BY <1>4, <1>6 DEF ProbeComponent, Blocks
  <2>2. \E k \in DOMAIN Here : Blocks(Here[k])
    BY <1>2, <1>4, <1>6
  <2> QED BY <1>1, <1>2, <1>5, <2>1, <2>2 DEF Probing
<1>7. CASE ~Blocks(c)
  <2>1. /\ left' = Tail(left)
        /\ IF c.bins = {} THEN binmap' = binmap ELSE binmap' = "some"
    BY <1>4, <1>7 DEF ProbeComponent, Blocks
  <2>2. \A k \in 1..n + 1 : ~Blocks(Here[k])
    BY <1>3, <1>7
  <2>3. binmap' = "some" <=> \E k \in 1..n + 1 : Here[k].bins # {}
    BY <1>3, <2>1
  <2>4. binmap # "nil"
    BY <1>1 DEF Probing
  <2>5. binmap' # "nil"
    BY <2>1, <2>4
  <2>6. left' = SubSeq(Here, (n + 1) + 1, Len(Here)) /\ n + 1 \in 0..Len(Here)
    BY <1>2, <1>4, <2>1
  <2> QED BY <1>1, <1>2, <1>5, <2>2, <2>3, <2>5, <2>6 DEF Probing
<1> QED BY <1>6, <1>7

\* Probing is inductive.
LEMMA NextProbing == Probing /\ [Next]_vars => Probing'
<1> SUFFICES ASSUME Probing, [Next]_vars PROVE Probing'
  OBVIOUS
<1>0. setup \in Setups /\ setup' = setup
  BY SetupSame DEF Probing
<1>1. CASE pc' \notin {"ask", "bind"}
  BY <1>0, <1>1 DEF Probing
<1>2. CASE ProbeComponent
  BY <1>2, ProbeGoesOn
<1>3. CASE Gate /\ pc' \in {"ask", "bind"}
  <2>1. Head(todo) \in DOMAIN Conf /\ Probe("ask")
    BY <1>3 DEF Gate, Ask, Skip, Load, Exit
  <2> QED BY <1>0, <2>1, ProbeBegins
<1>4. CASE Open /\ pc' \in {"ask", "bind"}
  <2>1. Head(todo) \in DOMAIN Conf /\ Probe("bind")
    BY <1>4 DEF Open, Exit
  <2> QED BY <1>0, <2>1, ProbeBegins
<1>5. CASE Churn
  BY <1>0, <1>5 DEF Churn, Probing
<1>6. CASE Ended \/ UNCHANGED vars
  <2>1. UNCHANGED vars
    BY <1>6 DEF Ended
  <2>2. UNCHANGED <<Here, Conf>> /\ \A c : Blocks(c)' = Blocks(c)
    BY <2>1 DEF vars, Here, Conf, Blocks
  <2> QED BY <2>1, <2>2 DEF vars, Probing
<1>7. CASE Answer
  BY <1>1, <1>7 DEF Answer, Skip, Load
<1>8. CASE \/ Start \/ Plan \/ LoadConfig \/ RunControls \/ Sort
           \/ WriteAll \/ WriteOne \/ WrittenEach \/ Finish
  BY <1>1, <1>8
     DEF Start, Plan, LoadConfig, RunControls, Sort, WriteAll, WriteOne,
     WrittenEach, Finish, Exit
<1> QED BY <1>1, <1>2, <1>3, <1>4, <1>5, <1>6, <1>7, <1>8 DEF Next, Step

\* At its end getBinaries has found a section exactly if it is there to detect;
\* and it has an answer for runChecks whenever it is.
LEMMA ProbeEnds ==
  ASSUME Probing, steady, pc \in {"ask", "bind"}, left = <<>>
  PROVE  /\ binmap = "some" <=> Detected(Head(todo), Conf)
         /\ Detected(Head(todo), Conf) => binmap # "nil"
<1>1. Head(todo) \in DOMAIN Conf /\ Here \in Seq(Components)
  BY DEF Probing
<1>2. CASE binmap = "nil"
  BY <1>1, <1>2 DEF Probing, Detected, Blocks, Here
<1>3. CASE binmap # "nil"
  <2>1. PICK n \in 0..Len(Here) :
          /\ left = SubSeq(Here, n + 1, Len(Here))
          /\ \A k \in 1..n : ~Blocks(Here[k])
          /\ binmap = "some" <=> \E k \in 1..n : Here[k].bins # {}
    BY <1>3 DEF Probing
  <2>2. n = Len(Here)
    <3>1. Len(SubSeq(Here, n + 1, Len(Here))) = Len(Here) - n
      BY <1>1, <2>1
    <3>2. Len(left) = 0
      OBVIOUS
    <3>3. Len(Here) - n = 0
      BY <2>1, <3>1, <3>2
    <3> QED BY <1>1, <3>3
  <2>3. DOMAIN Here = 1..n
    BY <1>1, <2>2
  <2> QED BY <1>1, <1>3, <2>1, <2>3 DEF Detected, Blocks, Here
<1> QED BY <1>2, <1>3

-----------------------------------------------------------------------------
\* The configuration etcd is looked for with: the checks of the master, if they
\* ran, have merged the version's own.
EtcdConf ==
  IF "master" \in Reported /\ setup.specific = "ok"
  THEN setup.merged ELSE setup.main

\* What the root command has detected, as long as no process starts or stops.
Detects ==
  setup.cmd = "root" /\ steady =>
    /\ pc = "start" => merged = FALSE
    /\ Alive =>
         /\ pc \in {"gate", "ask", "load"} /\ "master" \in Members(todo) =>
              merged = FALSE
         /\ /\ pc \in {"gate", "ask"}
            /\ "master" \notin Members(todo)
            /\ "etcd" \in Members(todo)
            => merged = ("master" \in Reported /\ setup.specific = "ok")
         /\ pc \in {"load", "open", "bind"} =>
              /\ Head(todo) = "master" => Detected("master", setup.main)
              /\ Head(todo) = "etcd" => Detected("etcd", EtcdConf)
         /\ "master" \notin Members(todo) =>
              ("master" \in Reported <=> Detected("master", setup.main))
         /\ "etcd" \notin Members(todo) =>
              ("etcd" \in Reported <=> Valid("etcd") /\ Detected("etcd", EtcdConf))

\* What is detected on the node is so as long as the processes stay.
LEMMA SameDetected ==
  ASSUME procs' = procs
  PROVE  \A s, conf : Detected(s, conf)' = Detected(s, conf)
  BY DEF Detected

\* An error leaves no report that would have to be right.
LEMMA ErrorDetects == Exit(1) => Detects'
  BY DEF Exit, Detects, Alive, Completed

\* Which configuration isMaster and isEtcd ask.
LEMMA AskedConf ==
  ASSUME Route, Detects, setup.cmd = "root", steady, pc \in {"gate", "ask"},
         todo # <<>>
  PROVE  /\ Head(todo) = "master" => Conf = setup.main
         /\ Head(todo) = "etcd" => Conf = EtcdConf
<1>1. Alive /\ todo \in Suffixes
  BY DEF Alive, Route
<1>2. /\ Members(todo) = Members(Tail(todo)) \cup {Head(todo)}
      /\ "master" \notin Members(Tail(todo))
  BY <1>1, Turn
<1> QED BY <1>1, <1>2 DEF Detects, Conf, EtcdConf

\* The section at hand stays the same.
LEMMA StayDetects ==
  ASSUME Detects, Alive, setup.cmd = "root", UNCHANGED <<setup, procs, steady,
         todo>>,
         Reported' = Reported, pc' # "start",
         pc' \in {"gate", "ask", "load"} => pc \in {"gate", "ask",
         "load"} /\ merged' = merged,
         pc' \in {"gate", "ask"} => pc \in {"gate", "ask"},
         steady /\ pc' \in {"load", "open", "bind"} =>
           /\ Head(todo) = "master" => Detected("master", setup.main)
           /\ Head(todo) = "etcd" => Detected("etcd", EtcdConf)
  PROVE  Detects'
<1>1. \A s, conf : Detected(s, conf)' = Detected(s, conf)
  BY SameDetected
<1>2. EtcdConf' = EtcdConf
  BY DEF EtcdConf
<1> QED BY <1>1, <1>2 DEF Detects, Valid

\* A section is skipped that is not there to detect.
LEMMA SkipDetects ==
  ASSUME Detects, Route, setup.cmd = "root", UNCHANGED <<setup, procs, steady>>,
         pc \in {"gate", "ask"}, todo # <<>>, Skip,
         steady =>
           /\ Head(todo) = "master" => ~Detected("master", Conf)
           /\ Head(todo) = "etcd" => ~(Valid("etcd") /\ Detected("etcd", Conf))
  PROVE  Detects'
<1> SUFFICES ASSUME steady PROVE Detects'
  BY DEF Detects
<1>1. /\ Alive /\ todo \in Suffixes
      /\ pc' = "gate" /\ UNCHANGED <<setup, collection, merged>>
      /\ Reported \intersect Members(todo) = {}
  BY DEF Route, Alive, Skip
<1>2. /\ Members(todo) = Members(Tail(todo)) \cup {Head(todo)}
      /\ Head(todo) \notin Members(Tail(todo))
      /\ Head(todo) = "master" => todo = RootOrder
      /\ "master" \notin Members(Tail(todo))
  BY <1>1, Turn
<1>3. Reported' = Reported /\ Head(todo) \notin Reported
  BY <1>1, <1>2 DEF Reported
<1>4. (\A s, conf : Detected(s, conf)' = Detected(s, conf)) /\ EtcdConf' = EtcdConf
  BY <1>1, <1>3, SameDetected DEF EtcdConf
<1>5. /\ Head(todo) = "master" => Conf = setup.main
      /\ Head(todo) = "etcd" => Conf = EtcdConf
  BY AskedConf
<1>6. CASE Head(todo) = "master"
  <2>1. todo' = FromEtcd
    <3>1. Tail(RootOrder) = FromControlPlane
      BY DEF RootOrder, FromControlPlane
    <3>2. Tail(FromControlPlane) = FromEtcd
      BY DEF FromEtcd, FromControlPlane
    <3> QED BY <1>2, <1>6, <3>1, <3>2 DEF Skip
  <2>2. merged = FALSE
    BY <1>1, <1>2, <1>6 DEF Detects
  <2> QED BY <1>1, <1>3, <1>4, <1>5, <1>6, <2>1, <2>2, MembersOf DEF Detects
<1>7. CASE Head(todo) # "master"
  <2>1. todo' = Tail(todo)
    BY <1>7 DEF Skip
  <2>2. "master" \notin Members(todo) /\ "master" \notin Members(todo')
    BY <1>2, <1>7, <2>1
  <2> QED BY <1>1, <1>2, <1>3, <1>4, <1>5, <2>1, <2>2 DEF Detects, Valid
<1> QED BY <1>6, <1>7

\* A section is reported that is.
LEMMA TakenDetects ==
  ASSUME Detects, Route, ConfigInv, ReportInv, setup.cmd = "root",
         UNCHANGED <<setup, procs, steady, merged>>,
         pc = "bind", pc' = "gate",
         todo' = Tail(todo), NEW r, r.section = Head(todo),
         collection' = Append(collection, r)
  PROVE  Detects'
<1> SUFFICES ASSUME steady PROVE Detects'
  BY DEF Detects
<1>1. /\ Alive /\ todo \in Suffixes /\ todo # <<>> /\ Settled
      /\ Head(todo) \in {"master", "node"} \/ Valid(Head(todo))
      /\ Reported \intersect Members(todo) = {}
  BY DEF Route, Alive
<1>2. /\ Members(todo) = Members(todo') \cup {Head(todo)}
      /\ Head(todo) \notin Members(todo')
      /\ "master" \notin Members(todo')
      /\ Head(todo) = "master" => "etcd" \in Members(todo')
      /\ "etcd" \in Members(todo') => Head(todo) \in {"master", "controlplane"}
  BY <1>1, Turn
<1>3. Reported' = Reported \cup {Head(todo)}
  BY ReportedGrows
<1>4. (\A s, conf : Detected(s, conf)' = Detected(s, conf))
  BY SameDetected
<1>5. merged' = (setup.specific = "ok")
  BY DEF ConfigInv
<1>6. "etcd" \in Members(todo') => "master" \in Reported'
  BY <1>1, <1>2, <1>3 DEF Settled
<1>7. "master" \in Reported' <=> Detected("master", setup.main)
  BY <1>1, <1>2, <1>3 DEF Detects
<1>8. ASSUME "etcd" \notin Members(todo')
      PROVE  "etcd" \in Reported' <=> Valid("etcd") /\ Detected("etcd",
      EtcdConf')
  <2>1. EtcdConf' = EtcdConf
    BY <1>2, <1>3, <1>8 DEF EtcdConf
  <2>2. CASE Head(todo) = "etcd"
    BY <1>1, <1>3, <2>1, <2>2 DEF Detects
  <2>3. CASE Head(todo) # "etcd"
    BY <1>1, <1>2, <1>3, <1>8, <2>1, <2>3 DEF Detects
  <2> QED BY <2>2, <2>3
<1> QED BY <1>2, <1>4, <1>5, <1>6, <1>7, <1>8 DEF Detects, Valid

\* One case for each action of a command.
LEMMA StepDetects ==
  ASSUME Detects, Route, Probing, ConfigInv, ReportInv, Step, setup.cmd = "root"
  PROVE  Detects'
<1>1. CASE Exit(1)
  BY <1>1, ErrorDetects
<1> SUFFICES ASSUME ~Exit(1) PROVE Detects'
  BY <1>1
<1>2. CASE Start
  <2>1. /\ todo' = RootOrder /\ pc = "start" /\ pc' = "gate"
        /\ UNCHANGED <<setup, procs, steady, merged>>
    BY <1>2 DEF Start, env
  <2>2. {"master", "etcd"} \subseteq Members(todo')
    BY <2>1, MembersOf DEF Targets
  <2> QED BY <2>1, <2>2 DEF Detects
<1>3. CASE Plan
  BY <1>3 DEF Plan, Route
<1>4. CASE Gate
  <2>0. pc = "gate" /\ todo # <<>> /\ UNCHANGED <<setup, procs, steady>> /\ Alive
    BY <1>4 DEF Gate, Alive, env
  <2>1. \/ Head(todo) \in {"master", "etcd"} /\ Ask
        \/ Head(todo) \notin {"master", "etcd"} /\ Load
        \/ Head(todo) # "master" /\ ~Valid(Head(todo)) /\ Skip
    BY <1>4 DEF Gate
  <2>2. CASE Head(todo) \in {"master", "etcd"} /\ Ask
    <3>1. CASE Skip /\ Head(todo) \notin DOMAIN Conf
      <4>1. ~Detected(Head(todo), Conf)
        BY <3>1 DEF Detected
      <4> QED BY <2>0, <3>1, <4>1, SkipDetects
    <3>2. CASE Probe("ask")
      <4>1. UNCHANGED <<todo, merged>> /\ Reported' = Reported /\ pc' = "ask"
        BY <3>2 DEF Probe, Reported
      <4> QED BY <2>0, <4>1, StayDetects
    <3> QED BY <2>2, <3>1, <3>2 DEF Ask
  <2>3. CASE Head(todo) \notin {"master", "etcd"} /\ Load
    <3>1. UNCHANGED <<todo, merged>> /\ Reported' = Reported /\ pc' = "load"
      BY <2>3 DEF Load, work, Reported
    <3> QED BY <2>0, <2>3, <3>1, StayDetects
  <2>4. CASE Head(todo) # "master" /\ ~Valid(Head(todo)) /\ Skip
    BY <2>0, <2>4, SkipDetects
  <2> QED BY <2>1, <2>2, <2>3, <2>4
<1>5. CASE ProbeComponent
  <2>1. /\ pc \in {"ask", "bind"} /\ Alive
        /\ UNCHANGED <<setup, procs, steady, todo, pc, merged>> /\ Reported' = Reported
    BY <1>5 DEF ProbeComponent, env, Alive, Reported
  <2> QED BY <2>1, StayDetects DEF Detects
<1>6. CASE Answer
  <2>1. /\ pc = "ask" /\ left = <<>> /\ todo # <<>> /\ UNCHANGED <<setup, procs, steady>>
        /\ Alive /\ Head(todo) \in {"master", "etcd"}
    BY <1>6 DEF Answer, Alive, Route, env
  <2>2. steady => (binmap = "some" <=> Detected(Head(todo), Conf))
    BY <2>1, ProbeEnds
  <2>3. CASE Skip /\ binmap # "some"
    BY <2>1, <2>2, <2>3, SkipDetects
  <2>4. CASE Load /\ binmap = "some"
    <3>1. UNCHANGED <<todo, merged>> /\ Reported' = Reported /\ pc' = "load"
      BY <2>4 DEF Load, work, Reported
    <3>2. steady =>
            /\ Head(todo) = "master" => Conf = setup.main
            /\ Head(todo) = "etcd" => Conf = EtcdConf
      BY <2>1, AskedConf
    <3> QED BY <2>1, <2>2, <2>4, <3>1, <3>2, StayDetects
  <2> QED BY <1>6, <2>3, <2>4 DEF Answer
<1>7. CASE LoadConfig
  <2>1. /\ pc = "load" /\ pc' = "open" /\ Alive
        /\ UNCHANGED <<setup, procs, steady, todo>> /\ Reported' = Reported
    BY <1>7 DEF LoadConfig, env, Alive, Reported
  <2> QED BY <2>1, StayDetects DEF Detects
<1>8. CASE Open
  <2>1. /\ pc = "open" /\ pc' = "bind" /\ Alive
        /\ UNCHANGED <<setup, procs, steady, todo>> /\ Reported' = Reported
    BY <1>8 DEF Open, Probe, env, Alive, Reported
  <2> QED BY <2>1, StayDetects DEF Detects
<1>9. CASE RunControls
  BY <1>9, TakenDetects DEF RunControls, env
<1>10. CASE Sort
  <2>1. /\ todo' = todo /\ pc' = "write" /\ UNCHANGED <<setup, procs, steady>> /\ Alive
    BY <1>10 DEF Sort, Alive, env
  <2>2. Reported' = Reported
    BY <1>10, ReportedSorted
  <2> QED BY <2>1, <2>2, StayDetects
<1>11. CASE WriteAll \/ WriteOne \/ WrittenEach
  <2>1. /\ pc = "write" /\ pc' \in {"write", "exit"}
        /\ UNCHANGED <<setup, procs, steady, todo, collection>>
    BY <1>11 DEF WriteAll, WriteOne, WrittenEach, work, env
  <2>2. Reported' = Reported /\ Alive
    BY <2>1 DEF Reported, Alive
  <2> QED BY <2>1, <2>2, StayDetects
<1>12. CASE Finish
  <2>1. /\ pc = "exit" /\ pc' = "end"
        /\ UNCHANGED <<setup, procs, steady, todo, collection>>
    BY <1>12 DEF Finish, Exit, work, env
  <2>2. Reported' = Reported /\ Alive
    BY <2>1 DEF Reported, Alive
  <2> QED BY <2>1, <2>2, StayDetects
<1> QED BY <1>2, <1>3, <1>4, <1>5, <1>6, <1>7, <1>8, <1>9, <1>10, <1>11,
           <1>12 DEF Step

\* Detects is inductive, relative to where the command is and to the probing.
LEMMA NextDetects ==
  Detects /\ Route /\ Probing /\ ConfigInv /\ ReportInv /\ [Next]_vars => Detects'
<1> SUFFICES ASSUME Detects, Route, Probing, ConfigInv, ReportInv, [Next]_vars,
                    (setup.cmd = "root")'
             PROVE  Detects'
  BY DEF Detects
<1>1. CASE Step
  BY <1>1, SetupSame, StepDetects
<1>2. CASE Churn
  BY <1>2 DEF Churn, Detects
<1>3. CASE Ended \/ UNCHANGED vars
  <2>1. UNCHANGED vars
    BY <1>3 DEF Ended
  <2>2. /\ UNCHANGED <<Reported, Alive, EtcdConf>>
        /\ \A s, conf : Detected(s, conf)' = Detected(s, conf)
    BY <2>1, SameDetected DEF vars, Reported, Alive, EtcdConf, Completed
  <2> QED BY <2>1, <2>2 DEF vars, Detects, Valid
<1> QED BY <1>1, <1>2, <1>3 DEF Next

\* The parts in every reachable state.
LEMMA ConfigHolds == Spec => []ConfigInv
<1>1. Init => ConfigInv
  BY DEF Init, ConfigInv
<1> QED BY <1>1, NextConfig, PTL DEF Spec

LEMMA ProbingHolds == Spec => []Probing
<1>1. Init => Probing
  BY DEF Init, Probing
<1> QED BY <1>1, NextProbing, PTL DEF Spec

LEMMA DetectsHolds == Spec => []Detects
<1>1. Init => Detects
  BY DEF Init, Detects, Alive, Completed
<1> QED BY <1>1, NextDetects, RouteHolds, ProbingHolds, ConfigHolds,
           ReportHolds, PTL DEF Spec

\* On a node where no process starts or stops, the root command reports the
\* master exactly if its components run, and etcd exactly if its do (isMaster,
\* isEtcd, isThisNodeRunning).
THEOREM DetectionCorrect == Spec => []SteadyDetection
<1>1. ASSUME Detects, Route, setup.cmd = "root", Completed, steady
      PROVE  /\ "master" \in Reported <=> Detected("master", setup.main)
             /\ "etcd" \in Reported <=> Valid("etcd") /\ Detected("etcd", EtcdConf)
  <2>1. Alive /\ pc = "end"
    BY <1>1 DEF Alive, Completed
  <2>2. Members(todo) = {}
    BY <1>1, <2>1, MembersOf DEF Route
  <2> QED BY <1>1, <2>1, <2>2 DEF Detects
<1>2. Detects /\ Route => SteadyDetection
  BY <1>1 DEF SteadyDetection, EtcdConf
<1> QED BY <1>2, DetectsHolds, RouteHolds, PTL

-----------------------------------------------------------------------------
\* Without a version-specific configuration there is nothing to merge, and what
\* was detected is found again.
BoundInv ==
  setup.cmd = "root" /\ setup.specific # "ok" =>
    /\ merged = FALSE
    /\ DetectedIsBound

\* BoundInv is inductive, relative to what is detected.
LEMMA NextBound ==
  BoundInv /\ Detects /\ Route /\ Probing /\ ReportInv /\ [Next]_vars => BoundInv'
<1> SUFFICES ASSUME BoundInv, Detects, Route, Probing, ReportInv, [Next]_vars,
                    (setup.cmd = "root")', (setup.specific # "ok")'
             PROVE  BoundInv'
  BY DEF BoundInv
<1> setup' = setup /\ setup.cmd = "root" /\ setup.specific # "ok"
  BY SetupSame
<1>0. setup' = setup /\ merged = FALSE /\ DetectedIsBound
  BY SetupSame DEF BoundInv
<1>1. ASSUME merged' = merged, collection' = collection, steady' => steady
      PROVE  BoundInv'
  <2>1. DetectedIsBound'
    BY <1>0, <1>1 DEF DetectedIsBound
  <2> QED BY <1>0, <1>1, <2>1 DEF BoundInv
<1>2. CASE Exit(1) /\ Step
  <2>1. steady' = steady
    BY <1>2
       DEF Step, Start, Plan, Gate, ProbeComponent, Answer, LoadConfig, Open,
       RunControls, Sort, WriteAll, WriteOne, WrittenEach, Finish, env
  <2>2. UNCHANGED <<merged, collection>>
    BY <1>2 DEF Exit, work
  <2> QED BY <1>1, <2>1, <2>2
<1>3. CASE RunControls /\ ~Exit(1)
  <2>1. PICK r : /\ r.section = Head(todo) /\ r.bound = (binmap # "nil")
                 /\ collection' = Append(collection, r)
    BY <1>3 DEF RunControls
  <2>2. PICK S : collection \in Seq(S)
    BY DEF ReportInv
  <2>3. /\ DOMAIN collection' = DOMAIN collection \cup {Len(collection) + 1}
        /\ \A k \in DOMAIN collection : collection'[k] = collection[k]
        /\ collection'[Len(collection) + 1] = r
    BY <2>1, <2>2
  <2>4. pc = "bind" /\ left = <<>> /\ UNCHANGED <<merged, steady>> /\ Alive
    BY <1>3 DEF RunControls, env, Alive
  <2>5. ASSUME steady, Head(todo) \in {"master", "etcd"} PROVE binmap # "nil"
    <3>1. Conf = setup.main /\ EtcdConf = setup.main
      BY <1>0 DEF Conf, EtcdConf
    <3>2. Detected(Head(todo), Conf)
      BY <2>4, <2>5, <3>1 DEF Detects
    <3> QED BY <2>4, <2>5, <3>2, ProbeEnds
  <2> QED BY <1>0, <2>1, <2>3, <2>4, <2>5 DEF BoundInv, DetectedIsBound
<1>4. CASE Sort
  <2>1. PICK p \in [DOMAIN collection -> DOMAIN collection] :
          collection' = [k \in DOMAIN collection |-> collection[p[k]]]
    BY <1>4 DEF Sort, Surjection
  <2>2. UNCHANGED <<merged, steady>>
    BY <1>4 DEF Sort, env
  <2> QED BY <1>0, <2>1, <2>2 DEF BoundInv, DetectedIsBound
<1>5. CASE LoadConfig
  BY <1>0, <1>5 DEF LoadConfig, Exit, work, env, BoundInv, DetectedIsBound
<1>6. CASE Gate \/ Answer \/ Open
  <2>1. UNCHANGED <<merged, collection, steady>>
    BY <1>6 DEF Gate, Answer, Open, Ask, Probe, Skip, Load, Exit, work, env
  <2> QED BY <1>1, <2>1
<1>7. CASE Start \/ ProbeComponent \/ WriteAll \/ WriteOne \/ WrittenEach \/ Finish
  BY <1>1, <1>7
     DEF Start, ProbeComponent, WriteAll, WriteOne, WrittenEach, Finish, Exit,
     work, env
<1>8. CASE Churn \/ Ended \/ UNCHANGED vars
  BY <1>1, <1>8 DEF Churn, Ended, vars, work
<1>9. CASE Plan
  BY <1>9 DEF Plan, Route
<1> QED BY <1>2, <1>3, <1>4, <1>5, <1>6, <1>7, <1>8, <1>9 DEF Next, Step

\* The second look at the processes agrees with the first (isThisNodeRunning and
\* runChecks, both through getBinaries): no check of the master or of etcd runs
\* without its substitutions.
THEOREM BoundCorrect == Spec => []DetectedIsBound
<1>1. Init => BoundInv
  BY DEF Init, BoundInv, DetectedIsBound
<1>2. BoundInv => DetectedIsBound
  BY DEF BoundInv, DetectedIsBound
<1> QED BY <1>1, <1>2, NextBound, DetectsHolds, RouteHolds, ProbingHolds,
           ReportHolds, PTL DEF Spec

-----------------------------------------------------------------------------
(* The types of the variables.                                             *)

Results == [section : Targets, bound : BOOLEAN, fail : BOOLEAN]

\* What TypeOK says of each variable for itself.
Typed ==
  /\ setup \in Setups
  /\ procs \subseteq Processes
  /\ steady \in BOOLEAN
  /\ pc \in {"start", "plan", "gate", "ask", "load", "open", "bind", "write",
             "exit", "end"}
  /\ todo \in Seq(Targets)
  /\ merged \in BOOLEAN
  /\ left \in Seq(Components)
  /\ binmap \in {"nil", "empty", "some"}
  /\ collection \in Seq(Results)
  /\ code \in {Running, 0, 1, setup.exitCode}

\* Every tail of the root command's order is a list of sections.
LEMMA SuffixesType == Suffixes \subseteq Seq(Targets)
  BY DEF Suffixes, RootOrder, FromControlPlane, FromEtcd, FromNode,
     FromPolicies, Last, Targets

\* The configuration of a section is a list of components.
LEMMA ConfType ==
  ASSUME setup \in Setups, NEW s \in DOMAIN Conf
  PROVE  Conf[s] \in Seq(Components)
  BY SetupsAssumption DEF SetupOK, Conf

\* An error leaves the types as they are.
LEMMA ErrorTyped ==
  ASSUME Typed, Exit(1), UNCHANGED <<setup, env>>
  PROVE  Typed'
  BY DEF Typed, Exit, env, work

\* The sections that are left when the command turns to the next.
LEMMA SkipTyped ==
  ASSUME Typed, Route', RunRoute', pc # "end", Skip, UNCHANGED <<setup, env>>
  PROVE  Typed'
<1>1. pc' = "gate" /\ setup' = setup
  BY DEF Skip
<1>2. setup.cmd = "root"
  BY <1>1, SetupsAssumption DEF RunRoute, Typed, SetupOK
<1>3. todo' \in Suffixes
  BY <1>1, <1>2 DEF Route, Alive
<1> QED BY <1>1, <1>3, SuffixesType DEF Typed, Skip, env

\* getBinaries begins with the components of the section.
LEMMA ProbeTyped ==
  ASSUME Typed, NEW next \in {"ask", "bind"}, Head(todo) \in DOMAIN Conf,
         Probe(next), UNCHANGED <<setup, env>>
  PROVE  Typed'
  BY ConfType DEF Typed, Probe, env

\* loadConfig is next.
LEMMA LoadTyped ==
  ASSUME Typed, Load, UNCHANGED <<setup, env>>
  PROVE  Typed'
  BY DEF Typed, Load, env, work

\* sort.Slice leaves results.
LEMMA SortTyped == Typed /\ Sort => (collection \in Seq(Results))'
<1> SUFFICES ASSUME Typed, Sort PROVE (collection \in Seq(Results))'
  OBVIOUS
<1>1. PICK p \in Permutations(DOMAIN collection) :
        /\ p \in Surjection(DOMAIN collection, DOMAIN collection)
        /\ collection' = [k \in DOMAIN collection |-> collection[p[k]]]
  BY DEF Sort
<1>2. /\ p \in [DOMAIN collection -> DOMAIN collection]
      /\ collection \in Seq(Results)
  BY <1>1 DEF Surjection, Typed
<1>3. Len(collection) \in Nat /\ DOMAIN collection = 1..Len(collection)
  BY <1>2
<1>4. \A k \in DOMAIN collection : collection[p[k]] \in Results
  BY <1>2
<1> HIDE DEF Results
<1>5. collection' \in [1..Len(collection) -> Results]
  BY <1>1, <1>3, <1>4
<1> QED BY <1>3, <1>5

\* One case for each action of a command.
LEMMA StepTyped ==
  ASSUME Typed, Route, RunRoute, Route', RunRoute', Step
  PROVE  Typed'
<1>0. setup.cmd \in {"root", "run"} /\ setup.exitCode \in 0..255
  BY SetupsAssumption DEF Typed, SetupOK
<1>1. CASE Exit(1) /\ UNCHANGED <<setup, env>>
  BY <1>1, ErrorTyped
<1> SUFFICES ASSUME ~(Exit(1) /\ UNCHANGED <<setup, env>>)
             PROVE  Typed'
  BY <1>1
<1>2. CASE Start
  <2>1. RootOrder \in Seq(Targets)
    BY SuffixesType DEF Suffixes
  <2> QED BY <1>2, <2>1 DEF Start, Typed, env
<1>3. CASE Plan
  <2>1. ~Refused
    BY <1>3 DEF Plan
  <2>2. TestFiles \in Seq(Targets)
    BY <2>1, TestFilesType DEF Typed
  <2> QED BY <1>3, <2>1, <2>2 DEF Plan, Typed, env
<1>4. CASE Gate
  <2>1. pc # "end" /\ UNCHANGED <<setup, env>>
    BY <1>4 DEF Gate
  <2>2. CASE Skip
    BY <2>1, <2>2, SkipTyped
  <2>3. CASE Head(todo) \in DOMAIN Conf /\ Probe("ask")
    BY <2>1, <2>3, ProbeTyped
  <2>4. CASE Load
    BY <2>1, <2>4, LoadTyped
  <2> QED BY <1>4, <2>1, <2>2, <2>3, <2>4 DEF Gate, Ask
<1>5. CASE ProbeComponent
  <2>1. Tail(left) \in Seq(Components) /\ <<>> \in Seq(Components)
    BY <1>5 DEF Typed, ProbeComponent
  <2>2. /\ UNCHANGED <<setup, env, pc, todo, merged, collection, code>>
        /\ left' \in {Tail(left), <<>>}
        /\ binmap' \in {binmap, "some", "nil"}
    BY <1>5 DEF ProbeComponent
  <2>3. left' = Tail(left) \/ left' = <<>>
    BY <2>2
  <2>4. binmap' \in {"nil", "empty", "some"}
    BY <2>2 DEF Typed
  <2> QED BY <2>1, <2>2, <2>3, <2>4 DEF Typed, env
<1>6. CASE Answer
  <2>1. pc # "end" /\ UNCHANGED <<setup, env>> /\ (Load \/ Skip)
    BY <1>6 DEF Answer
  <2> QED BY <2>1, SkipTyped, LoadTyped
<1>7. CASE LoadConfig
  BY <1>7 DEF LoadConfig, Typed, env
<1>8. CASE Open
  BY <1>8, ProbeTyped DEF Open
<1>9. CASE RunControls
  <2>1. todo # <<>>
    BY <1>0, <1>9 DEF RunControls, Route, RunRoute, Alive
  <2>2. Head(todo) \in Targets /\ Tail(todo) \in Seq(Targets)
    BY <2>1 DEF Typed
  <2>3. PICK fail \in BOOLEAN :
          /\ collection' = Append(collection,
               [section |-> Head(todo), bound |-> binmap # "nil", fail |-> fail])
          /\ todo' = Tail(todo)
          /\ pc' \in {"gate", "open"}
          /\ UNCHANGED <<setup, env, merged, left, binmap, code>>
    BY <1>9 DEF RunControls
  <2>4. collection' \in Seq(Results)
    BY <2>2, <2>3 DEF Typed, Results
  <2> QED BY <2>2, <2>3, <2>4 DEF Typed, env
<1>10. CASE Sort
  <2>1. /\ pc' = "write"
        /\ UNCHANGED <<setup, env, todo, merged, left, binmap, code>>
    BY <1>10 DEF Sort
  <2>2. collection' \in Seq(Results)
    BY <1>10, SortTyped
  <2> QED BY <2>1, <2>2 DEF Typed, env
<1>11. CASE WriteAll \/ WriteOne \/ WrittenEach
  <2>1. /\ pc' \in {"write", "exit"}
        /\ UNCHANGED <<setup, env, work, code>>
    BY <1>11 DEF WriteAll, WriteOne, WrittenEach
  <2> QED BY <2>1 DEF Typed, env, work
<1>12. CASE Finish
  BY <1>12 DEF Finish, Exit, ExitCode, Typed, env, work
<1> QED BY <1>2, <1>3, <1>4, <1>5, <1>6, <1>7, <1>8, <1>9, <1>10, <1>11,
           <1>12 DEF Step

\* Typed in every reachable state.
LEMMA TypedHolds == Spec => []Typed
<1>1. Init => Typed
  <2>1. /\ <<>> \in Seq(Targets)
        /\ <<>> \in Seq(Components)
        /\ <<>> \in Seq(Results)
    OBVIOUS
  <2> QED BY <2>1 DEF Init, Typed
<1>2. Typed /\ Route /\ RunRoute /\ Route' /\ RunRoute' /\ [Next]_vars => Typed'
  <2> SUFFICES ASSUME Typed, Route, RunRoute, Route', RunRoute', [Next]_vars
               PROVE  Typed'
    OBVIOUS
  <2>1. CASE Step
    BY <2>1, StepTyped
  <2>2. CASE Churn
    BY <2>2 DEF Churn, Typed, work
  <2>3. CASE Ended \/ UNCHANGED vars
    BY <2>3 DEF Ended, vars, Typed
  <2> QED BY <2>1, <2>2, <2>3 DEF Next
<1> QED BY <1>1, <1>2, RouteHolds, RunRouteHolds, PTL DEF Spec

\* Every variable has its type: no command looks for the section at the head
\* of a list that has run out, whatever it skips, probes and loads on its way.
THEOREM TypeCorrect == Spec => []TypeOK
<1>1. Typed /\ Route /\ RunRoute /\ ReportInv => TypeOK
  <2> SUFFICES ASSUME Typed, Route, RunRoute, ReportInv PROVE TypeOK
    OBVIOUS
  <2>1. pc \in {"ask", "load", "bind"} => todo # <<>>
    BY SetupsAssumption DEF Typed, SetupOK, Route, RunRoute, Alive
  <2>2. Len(written) <= Len(collection)
    BY DEF Typed, ReportInv
  <2> QED BY <2>1, <2>2 DEF TypeOK, Typed, Results
<1> QED BY <1>1, TypedHolds, RouteHolds, RunRouteHolds, ReportHolds, PTL

-----------------------------------------------------------------------------
(* The loops end.                                                          *)

\* What belongs to the command: all variables but those of the node.
own == <<setup, pc, work, written, code>>

\* The sections are taken in the one before the last two.
Stage ==
  CASE pc = "start" -> 5
    [] pc = "plan"  -> 4
    [] pc \in {"gate", "ask", "load", "open", "bind"} -> 3
    [] pc = "write" -> 2
    [] pc = "exit"  -> 1
    [] OTHER        -> 0

\* The sections to be taken, then the results to be written.
SectionsToGo ==
  IF Stage = 3 THEN Len(todo) ELSE Len(collection) - Len(written)

\* How far the section at hand has got.
Place ==
  CASE pc = "gate" -> 5
    [] pc = "ask"  -> 4
    [] pc = "load" -> 3
    [] pc = "open" -> 2
    [] OTHER       -> 1

\* What is ahead: sections or results, in the section at hand functions, and
\* in getBinaries components.
Ahead == <<Stage, SectionsToGo, Place, Len(left)>>

LEMMA AheadTyped ==
  Typed /\ ReportInv
    => /\ Stage \in Nat /\ SectionsToGo \in Nat
       /\ Place \in Nat /\ Len(left) \in Nat
<1> SUFFICES ASSUME Typed, ReportInv
             PROVE  /\ Stage \in Nat /\ SectionsToGo \in Nat
                    /\ Place \in Nat /\ Len(left) \in Nat
  OBVIOUS
<1>1. Stage \in Nat /\ Place \in Nat
  BY DEF Stage, Place
<1>2. Len(left) \in Nat /\ Len(todo) \in Nat
  BY DEF Typed
<1>3. Len(collection) \in Nat
  BY DEF Typed
<1>4. Len(collection) - Len(written) \in Nat
  BY <1>3 DEF ReportInv
<1> QED BY <1>1, <1>2, <1>4 DEF SectionsToGo

\* A section that is skipped is behind.
LEMMA SkipAhead ==
  ASSUME Typed, Route, RunRoute, pc \in {"gate", "ask"}, todo # <<>>, Skip
  PROVE  Stage' = Stage /\ SectionsToGo' < SectionsToGo
<1>1. setup.cmd = "root"
  BY SetupsAssumption DEF RunRoute, Typed, SetupOK
<1>2. todo \in Suffixes
  BY <1>1 DEF Route, Alive
<1>3. Len(todo') < Len(todo)
  <2>1. CASE Head(todo) = "master"
    <3>1. todo = RootOrder
      BY <1>2, <2>1, Turn
    <3>2. todo' = Tail(Tail(RootOrder))
      BY <2>1, <3>1 DEF Skip
    <3>3. Tail(RootOrder) = FromControlPlane /\ Tail(FromControlPlane) = FromEtcd
      BY DEF RootOrder, FromControlPlane, FromEtcd
    <3>4. todo' = FromEtcd
      BY <3>2, <3>3
    <3>5. Len(FromEtcd) = 4 /\ Len(RootOrder) = 6
      BY DEF RootOrder, FromEtcd
    <3> QED BY <3>1, <3>4, <3>5
  <2>2. CASE Head(todo) # "master"
    <3>1. todo' = Tail(todo) /\ todo \in Seq(Targets)
      BY <2>2 DEF Skip, Typed
    <3>2. Len(Tail(todo)) = Len(todo) - 1 /\ Len(todo) \in Nat
      BY <3>1
    <3> QED BY <3>1, <3>2
  <2> QED BY <2>1, <2>2
<1>4. Stage = 3 /\ Stage' = 3
  BY DEF Skip, Stage
<1> QED BY <1>3, <1>4 DEF SectionsToGo

\* Every step of a command leaves something behind.
LEMMA StepAhead ==
  ASSUME Typed, Route, RunRoute, ReportInv, Step
  PROVE  \/ Stage' < Stage
         \/ Stage' = Stage /\ SectionsToGo' < SectionsToGo
         \/ Stage' = Stage /\ SectionsToGo' = SectionsToGo /\ Place' < Place
         \/ /\ Stage' = Stage /\ SectionsToGo' = SectionsToGo /\ Place' = Place
            /\ Len(left') < Len(left)
<1> SUFFICES ASSUME ~(Stage' < Stage)
             PROVE  \/ Stage' = Stage /\ SectionsToGo' < SectionsToGo
                    \/ /\ Stage' = Stage /\ SectionsToGo' = SectionsToGo
                       /\ Place' < Place
                    \/ /\ Stage' = Stage /\ SectionsToGo' = SectionsToGo
                       /\ Place' = Place /\ Len(left') < Len(left)
  OBVIOUS
<1>0. ASSUME pc # "end", NEW s, Exit(s) PROVE FALSE
  <2>1. Stage' = 0
    BY <1>0 DEF Exit, Stage
  <2>2. Stage > 0
    BY <1>0 DEF Typed, Stage
  <2> QED BY <2>1, <2>2
\* The function of a section hands over to the next one.
<1>a. ASSUME pc \in {"gate", "ask", "load", "open", "bind"},
             pc' \in {"gate", "ask", "load", "open", "bind"},
             todo' = todo, Place' < Place
      PROVE  Stage' = Stage /\ SectionsToGo' = SectionsToGo
  <2>1. Stage = 3 /\ Stage' = 3
    BY <1>a DEF Stage
  <2> QED BY <1>a, <2>1 DEF SectionsToGo
<1>1. CASE Start
  BY <1>1, <1>0 DEF Start, Stage
<1>2. CASE Plan
  BY <1>2, <1>0 DEF Plan, Stage
<1>3. CASE Gate
  <2>1. pc = "gate" /\ todo # <<>>
    BY <1>3 DEF Gate
  <2>2. Skip \/ Probe("ask") \/ Load
    BY <1>3, <2>1, <1>0 DEF Gate, Ask
  <2>3. CASE Skip
    BY <2>1, <2>3, SkipAhead
  <2>4. CASE Probe("ask") \/ Load
    <3>1. pc' \in {"ask", "load"} /\ todo' = todo
      BY <2>4 DEF Probe, Load, work
    <3>2. Place' < Place
      BY <2>1, <3>1 DEF Place
    <3> QED BY <2>1, <3>1, <3>2, <1>a
  <2> QED BY <2>2, <2>3, <2>4
<1>4. CASE ProbeComponent
  <2>1. /\ pc \in {"ask", "bind"} /\ left # <<>>
        /\ UNCHANGED <<pc, todo, collection, written>>
        /\ left' = Tail(left) \/ left' = <<>>
    BY <1>4 DEF ProbeComponent
  <2>2. left \in Seq(Components)
    BY DEF Typed
  <2>3. /\ Len(left) \in Nat /\ Len(left) > 0
        /\ Len(Tail(left)) = Len(left) - 1
    BY <2>1, <2>2
  <2>4. Len(left') < Len(left)
    BY <2>1, <2>3
  <2> QED BY <2>1, <2>4 DEF Stage, SectionsToGo, Place
<1>5. CASE Answer
  <2>1. pc = "ask" /\ (Skip \/ Load)
    BY <1>5 DEF Answer
  <2>2. CASE Skip
    <3>1. todo # <<>>
      BY <2>1, SetupsAssumption DEF RunRoute, Route, Alive, Typed, SetupOK
    <3> QED BY <2>1, <2>2, <3>1, SkipAhead
  <2>3. CASE Load
    <3>1. pc' = "load" /\ todo' = todo
      BY <2>3 DEF Load, work
    <3>2. Place' < Place
      BY <2>1, <3>1 DEF Place
    <3> QED BY <2>1, <3>1, <3>2, <1>a
  <2> QED BY <2>1, <2>2, <2>3
<1>6. CASE LoadConfig \/ Open
  <2>1. /\ \/ pc = "load" /\ pc' = "open"
           \/ pc = "open" /\ pc' = "bind"
        /\ todo' = todo
    <3>1. CASE LoadConfig
      BY <1>0, <3>1 DEF LoadConfig
    <3>2. CASE Open
      BY <1>0, <3>2 DEF Open, Probe
    <3> QED BY <1>6, <3>1, <3>2
  <2>2. Place' < Place
    BY <2>1 DEF Place
  <2> QED BY <2>1, <2>2, <1>a
<1>7. CASE RunControls
  <2>1. pc = "bind" /\ pc' \in {"gate", "open"} /\ todo' = Tail(todo)
    BY <1>7, <1>0 DEF RunControls
  <2>2. todo # <<>> /\ todo \in Seq(Targets)
    BY <2>1, SetupsAssumption DEF RunRoute, Route, Alive, Typed, SetupOK
  <2>3. Len(todo) \in Nat /\ Len(Tail(todo)) = Len(todo) - 1
    BY <2>2
  <2>4. Stage = 3 /\ Stage' = 3
    BY <2>1 DEF Stage
  <2> QED BY <2>1, <2>3, <2>4 DEF SectionsToGo
<1>8. CASE Sort
  BY <1>8 DEF Sort, Stage
<1>9. CASE WriteAll
  BY <1>9, <1>0 DEF WriteAll, Stage
<1>10. CASE WriteOne
  <2>1. /\ pc = "write" /\ pc' = "write" /\ collection' = collection
        /\ written # collection
        /\ written' = Append(written, collection[Len(written) + 1])
    BY <1>10, <1>0 DEF WriteOne, work
  <2>2. /\ collection \in Seq(Results) /\ Len(written) \in 0..Len(collection)
        /\ written = SubSeq(collection, 1, Len(written))
    BY DEF Typed, ReportInv
  <2> HIDE DEF Results
  <2>3. Len(collection) \in Nat /\ written \in Seq(Results)
    BY <2>2
  <2>4. SubSeq(collection, 1, Len(collection)) = collection
    BY <2>2
  <2>5. Len(written) < Len(collection)
    BY <2>1, <2>2, <2>3, <2>4
  <2>6. Len(written') = Len(written) + 1
    BY <2>1, <2>3
  <2>7. Stage = 2 /\ Stage' = 2
    BY <2>1 DEF Stage
  <2> QED BY <2>1, <2>2, <2>3, <2>5, <2>6, <2>7 DEF SectionsToGo
<1>11. CASE WrittenEach
  BY <1>11 DEF WrittenEach, Stage
<1>12. CASE Finish
  BY <1>12, <1>0 DEF Finish
<1> QED BY <1>1, <1>2, <1>3, <1>4, <1>5, <1>6, <1>7, <1>8, <1>9, <1>10,
           <1>11, <1>12 DEF Step

\* And what happens on the node is not the command's.
LEMMA NextAhead ==
  /\ Typed /\ Route /\ RunRoute /\ ReportInv
  /\ (Ahead \in [1..4 -> Nat])' /\ [Next]_vars
  => <<Ahead', Ahead>> \in LexOrder(4) \/ UNCHANGED own
<1> SUFFICES ASSUME Typed, Route, RunRoute, ReportInv,
                    (Ahead \in [1..4 -> Nat])', [Next]_vars, ~UNCHANGED own
             PROVE  <<Ahead', Ahead>> \in LexOrder(4)
  OBVIOUS
<1>1. Step
  BY DEF Next, Churn, Ended, vars, own, work
<1>2. /\ Stage \in Nat /\ SectionsToGo \in Nat
      /\ Place \in Nat /\ Len(left) \in Nat
  BY AheadTyped
<1>3. /\ Stage' \in Nat /\ SectionsToGo' \in Nat
      /\ Place' \in Nat /\ Len(left') \in Nat
  BY DEF Ahead
<1>4. <<<<Stage', SectionsToGo', Place', Len(left')>>,
        <<Stage, SectionsToGo, Place, Len(left)>>>> \in LexOrder(4)
  BY <1>1, <1>2, <1>3, StepAhead, FourInOrder, ZenonT(60)
<1> QED BY <1>4 DEF Ahead

(***************************************************************************)
(* A command takes so many steps, whatever it is asked for, whatever is    *)
(* configured and however the processes of the node come and go: each of   *)
(* its steps brings what is ahead down in an order in which nothing goes   *)
(* down for ever (OrderWellFounded), and the node does not bring it up.    *)
(***************************************************************************)
THEOREM StepsRunOut ==
  Spec => [](Ahead \in [1..4 -> Nat]) /\ [][(<<Ahead', Ahead>> \in LexOrder(4))]_own
<1>1. Typed /\ ReportInv => Ahead \in [1..4 -> Nat]
  BY AheadTyped DEF Ahead
<1> QED BY TypedHolds, RouteHolds, RunRouteHolds, ReportHolds, <1>1, NextAhead,
           PTL DEF Spec
============================================================================
