---------------------------- MODULE MCKubeBench ----------------------------
(***************************************************************************)
(* Instances of KubeBench for TLC.  The configurations are cut down from   *)
(* cfg/config.yaml and cfg/k3s-cis-1.7/config.yaml: a master with a        *)
(* mandatory, an optional and a component without bins; a version-specific *)
(* configuration under which one process, containerd, is everything.       *)
(***************************************************************************)
EXTENDS KubeBench

Mandatory(p) == [bins |-> {p}, optional |-> FALSE]
Optional(p) == [bins |-> {p}, optional |-> TRUE]
WithoutBins == [bins |-> {}, optional |-> FALSE]

Main ==
  [s \in Targets |->
    CASE s = "master" ->
           <<Mandatory("apiserver"), Optional("etcd"), WithoutBins>>
      [] s = "etcd" -> <<Mandatory("etcd")>>
      [] s = "controlplane" -> <<Mandatory("apiserver")>>
      [] s = "node" -> <<Mandatory("containerd"), WithoutBins>>
      [] OTHER -> <<>>]

K3s ==
  [Main EXCEPT !["master"] = <<Mandatory("containerd"), Mandatory("containerd")>>,
               !["etcd"] = <<Mandatory("containerd")>>]

\* A configuration without the sections of master and etcd.
Small == [s \in {"controlplane", "node"} |-> Main[s]]

\* A master whose components are all optional.
AllOptional == [Main EXCEPT !["master"] = <<Optional("apiserver"), WithoutBins>>]

Managed == Targets \ {"etcd"}
SelfManaged == Targets \ {"managedservices"}
OldOpenShift == {"master", "node"}

Base ==
  [cmd |-> "root", args |-> <<>>, format |-> "stdout", exitCode |-> 42,
   found |-> TRUE, mapped |-> TRUE, targets |-> SelfManaged,
   files |-> SelfManaged, main |-> Main, specific |-> "absent",
   merged |-> Main]

Benchmarks ==
  {Base,
   [Base EXCEPT !.targets = Managed, !.files = Managed],
   [Base EXCEPT !.targets = OldOpenShift, !.files = OldOpenShift],
   [Base EXCEPT !.specific = "ok", !.merged = K3s],
   [Base EXCEPT !.specific = "broken"],
   [Base EXCEPT !.files = @ \ {"controlplane"}],
   [Base EXCEPT !.main = Small],
   [Base EXCEPT !.main = AllOptional],
   [Base EXCEPT !.mapped = FALSE],
   [Base EXCEPT !.mapped = FALSE, !.found = FALSE, !.main = <<>>]}

\* The root command on a node whose processes come and go.
Detecting == Benchmarks

\* The run command, with and without targets.  It does not ask which
\* processes run, so that the benchmarks that differ in what they detect are
\* left to the root command.
RunningTargets ==
  {[x EXCEPT !.cmd = "run", !.args = ts] :
     x \in {y \in Benchmarks : y.main \in {Main, <<>>} /\ y.targets # OldOpenShift},
     ts \in {<<>>, <<"etcd", "master">>, <<"worker">>, <<"node", "node">>,
             <<"managedservices">>}}

\* Both commands and every way to write the report; how it is written does
\* not depend on how it came about, so that the report of all five sections
\* of the root command is written in one more way only.
Writing ==
  {[x EXCEPT !.format = f, !.exitCode = e] :
     x \in {[Base EXCEPT !.targets = OldOpenShift],
            [Base EXCEPT !.cmd = "run", !.args = <<"node", "etcd", "master">>]},
     f \in Formats,
     e \in {0, 42}}
  \cup {[Base EXCEPT !.format = "asff"]}

Commanded == RunningTargets \cup Writing

Everything == Detecting \cup Commanded
=============================================================================
