----------------------------- MODULE KubeBench -----------------------------
(***************************************************************************)
(* One invocation of kube-bench: the root command (cmd/root.go) and        *)
(* "kube-bench run" (cmd/run.go), with the functions of cmd/common.go that *)
(* they drive.  A command decides which sections (targets) of the          *)
(* benchmark it looks at, merges the version-specific configuration, runs  *)
(* the controls of each section and writes what they found.  The processes *)
(* of the node come and go while it does: each probe of a component reads  *)
(* the process table anew.                                                 *)
(*                                                                         *)
(* The controls of a section are those of module Controls, of which only   *)
(* matters here whether a check failed (Summary.Fail > 0).                 *)
(***************************************************************************)
EXTENDS Naturals, Sequences, FiniteSets, Functions, TLC

CONSTANTS
  Processes,  \* the executables that the configuration names
  Setups      \* configurations, benchmark directories and command lines

Targets ==
  {"master", "etcd", "controlplane", "node", "policies", "managedservices"}

Formats == {"file", "stdout", "pgsql", "asff"}

Components == [bins : SUBSET Processes, optional : BOOLEAN]

(***************************************************************************)
(* A setup is a record:                                                    *)
(*   cmd       "root" or "run"                                             *)
(*   args      the --targets of run                                        *)
(*   format    "file" stands for --json and --junit                        *)
(*   exitCode  the --exit-code                                             *)
(*   found     cfg/config.yaml is there: configFileError = nil             *)
(*   mapped    target_mapping has an entry for the benchmark version       *)
(*   targets   that entry                                                  *)
(*   files     the sections that have a controls file in its directory     *)
(*   main      section by section, the components of cfg/config.yaml       *)
(*   specific  its config.yaml: "absent", "ok" or "broken" (unreadable)    *)
(*   merged    as main, once that file is merged                           *)
(* The version of the benchmark is given, or detected by getKubeVersion:   *)
(* the action Start says what becomes of it.                               *)
(***************************************************************************)
SetupOK(x) ==
  /\ x.cmd \in {"root", "run"}
  /\ x.args \in Seq(STRING)
  /\ x.format \in Formats
  /\ x.exitCode \in 0..255
  /\ x.found \in BOOLEAN
  /\ x.mapped \in BOOLEAN
  /\ ~x.found => ~x.mapped /\ DOMAIN x.main = {}
  /\ x.targets \subseteq Targets
  /\ x.files \subseteq Targets
  /\ x.specific \in {"absent", "ok", "broken"}
  /\ \A conf \in {x.main, x.merged} :
       /\ DOMAIN conf \subseteq Targets
       /\ \A s \in DOMAIN conf : conf[s] \in Seq(Components)

ASSUME SetupsAssumption == \A x \in Setups : SetupOK(x)

VARIABLES
  setup,
  procs,       \* the executables that run on the node
  steady,      \* history: procs has never changed
  pc,          \* the function that runs
  todo,        \* the sections that the command still has to look at
  merged,      \* viper has merged the version-specific config.yaml
  left,        \* the components that getBinaries has yet to probe
  binmap,      \* its result: "nil", "empty" or "some" component
  collection,  \* controlsCollection: section, bound (binmap # nil), fail
  written,     \* how much of the collection is written, in order
  code         \* status of the process, Running before the end

\* No status of a process is more than 255.
Running == 256

env == <<procs, steady>>
work == <<todo, merged, left, binmap, collection>>
vars == <<setup, procs, steady, pc, todo, merged, left, binmap, collection,
          written, code>>

\* The sections in the order of the root command.
RootOrder ==
  <<"master", "controlplane", "etcd", "node", "policies", "managedservices">>

Init ==
  /\ setup \in Setups
  /\ procs \in SUBSET Processes
  /\ steady = TRUE
  /\ pc = "start"
  /\ todo = <<>>
  /\ merged = FALSE
  /\ left = <<>>
  /\ binmap = "empty"
  /\ collection = <<>>
  /\ written = <<>>
  /\ code = Running

\* What viper holds.
Conf == IF merged THEN setup.merged ELSE setup.main

\* exitWithError, os.Exit.
Exit(status) ==
  /\ pc' = "end"
  /\ code' = status
  /\ UNCHANGED <<work, written>>

\* The names that --targets may have: those of validTargets.
Valid(s) == s \in setup.targets

-----------------------------------------------------------------------------
\* getBenchmarkVersion: finds a version or ends the program.
Start ==
  /\ pc = "start"
  /\ UNCHANGED <<setup, env>>
  /\ \/ Exit(1)
     \/ /\ IF setup.cmd = "root"
           THEN pc' = "gate" /\ todo' = RootOrder
           ELSE pc' = "plan" /\ UNCHANGED todo
        /\ UNCHANGED <<merged, left, binmap, collection, written, code>>

(***************************************************************************)
(* The run command.                                                        *)
(***************************************************************************)
\* translate of run.go.
Translate(target) == IF target = "worker" THEN "node" ELSE target

\* getYamlFilesFromDir: what filepath.Walk comes to, in the order of names.
YamlFiles(files) ==
  LET File(s) == IF s \in files THEN <<s>> ELSE <<>>
  IN  File("controlplane") \o File("etcd") \o File("managedservices")
        \o File("master") \o File("node") \o File("policies")

\* getTestYamlFiles.
TestFiles ==
  IF setup.args # <<>>
  THEN [k \in DOMAIN setup.args |-> Translate(setup.args[k])]
  ELSE YamlFiles(setup.files)

\* Mutant of Refused: the error of mergeConfig is not looked at.
RefusedConfigAside ==
  \/ ~setup.mapped
  \/ \E k \in DOMAIN setup.args : ~Valid(setup.args[k])
  \/ \E k \in DOMAIN TestFiles : TestFiles[k] \notin setup.files

\* validTargets, then mergeConfig, then getTestYamlFiles: one error of any
\* of them and nothing is run.
Refused ==
  \/ ~setup.mapped
  \/ \E k \in DOMAIN setup.args : ~Valid(setup.args[k])
  \/ setup.specific = "broken"
  \/ \E k \in DOMAIN TestFiles : TestFiles[k] \notin setup.files

Plan ==
  /\ pc = "plan"
  /\ UNCHANGED <<setup, env>>
  /\ IF Refused
     THEN Exit(1)
     ELSE /\ pc' = "open"
          /\ todo' = TestFiles
          /\ merged' = (setup.specific = "ok")
          /\ UNCHANGED <<left, binmap, collection, written, code>>

(***************************************************************************)
(* The root command.                                                       *)
(***************************************************************************)
\* Without its master checks, the root command skips those of the control
\* plane, too.
Skip ==
  /\ todo' = IF Head(todo) = "master" THEN Tail(Tail(todo)) ELSE Tail(todo)
  /\ pc' = "gate"
  /\ UNCHANGED <<merged, left, binmap, collection, written, code>>

\* getBinaries begins.
Probe(next) ==
  /\ pc' = next
  /\ left' = Conf[Head(todo)]
  /\ binmap' = "empty"
  /\ UNCHANGED <<todo, merged, collection, written, code>>

\* isMaster, isEtcd: isThisNodeRunning probes if there is a section.
Ask == IF Head(todo) \in DOMAIN Conf THEN Probe("ask") ELSE Skip

Load == pc' = "load" /\ UNCHANGED <<work, written, code>>

\* Which sections the root command takes.
Gate ==
  /\ pc = "gate"
  /\ todo # <<>>
  /\ UNCHANGED <<setup, env>>
  /\ LET s == Head(todo) IN
     \/ s = "master" /\ Ask
     \/ s = "node" /\ Load
     \/ s \notin {"master", "node"} /\ ~setup.mapped /\ Exit(1)
     \/ s \notin {"master", "node"} /\ setup.mapped /\ ~Valid(s) /\ Skip
     \/ s = "etcd" /\ setup.mapped /\ Valid(s) /\ Ask
     \/ s \notin {"master", "node", "etcd"} /\ setup.mapped /\ Valid(s) /\ Load

\* Mutant of ProbeComponent: a component that is optional and does not run is
\* left out of the map.
ProbeComponentRunning ==
  /\ pc \in {"ask", "bind"}
  /\ left # <<>>
  /\ LET c == Head(left) IN
     \/ /\ c.bins = {} \/ (c.bins \intersect procs = {} /\ c.optional)
        /\ left' = Tail(left)
        /\ UNCHANGED binmap
     \/ /\ c.bins \intersect procs # {}
        /\ left' = Tail(left)
        /\ binmap' = "some"
     \/ /\ c.bins # {}
        /\ c.bins \intersect procs = {}
        /\ ~c.optional
        /\ left' = <<>>
        /\ binmap' = "nil"
  /\ UNCHANGED <<setup, env, pc, todo, merged, collection, written, code>>

\* getBinaries, one component: one that is mandatory and does not run ends
\* it with an error; one that is optional goes into the map all the same.
ProbeComponent ==
  /\ pc \in {"ask", "bind"}
  /\ left # <<>>
  /\ LET c == Head(left) IN
     \/ /\ c.bins = {}
        /\ left' = Tail(left)
        /\ UNCHANGED binmap
     \/ /\ c.bins # {}
        /\ c.bins \intersect procs # {} \/ c.optional
        /\ left' = Tail(left)
        /\ binmap' = "some"
     \/ /\ c.bins # {}
        /\ c.bins \intersect procs = {}
        /\ ~c.optional
        /\ left' = <<>>
        /\ binmap' = "nil"
  /\ UNCHANGED <<setup, env, pc, todo, merged, collection, written, code>>

\* Mutant of Answer: the error of getBinaries is not looked at.
AnswerErrorAside ==
  /\ pc = "ask"
  /\ left = <<>>
  /\ UNCHANGED <<setup, env>>
  /\ IF binmap # "empty" THEN Load ELSE Skip

\* isThisNodeRunning returns.
Answer ==
  /\ pc = "ask"
  /\ left = <<>>
  /\ UNCHANGED <<setup, env>>
  /\ IF binmap = "some" THEN Load ELSE Skip

\* loadConfig: the error of mergeConfig is not looked at.
LoadConfig ==
  /\ pc = "load"
  /\ UNCHANGED <<setup, env>>
  /\ IF Head(todo) \notin setup.files
     THEN Exit(1)
     ELSE /\ merged' = (setup.specific = "ok")
          /\ pc' = "open"
          /\ UNCHANGED <<todo, left, binmap, collection, written, code>>

(***************************************************************************)
(* runChecks.                                                              *)
(***************************************************************************)
\* The controls file and the configuration of the section are read; the
\* file may have become unreadable since it was found.
Open ==
  /\ pc = "open"
  /\ todo # <<>>
  /\ UNCHANGED <<setup, env>>
  /\ \/ Exit(1)
     \/ setup.found /\ Head(todo) \in DOMAIN Conf /\ Probe("bind")

\* Mutant of RunControls: a section in the collection is not run again.
RunControlsOnce ==
  /\ pc = "bind"
  /\ left = <<>>
  /\ UNCHANGED <<setup, env>>
  /\ \/ Exit(1)
     \/ \E fail \in BOOLEAN :
          /\ collection' =
               IF \E k \in DOMAIN collection : collection[k].section = Head(todo)
               THEN collection
               ELSE Append(collection, [section |-> Head(todo),
                                        bound |-> binmap # "nil", fail |-> fail])
          /\ todo' = Tail(todo)
          /\ pc' = IF setup.cmd = "root" THEN "gate" ELSE "open"
          /\ UNCHANGED <<merged, left, binmap, written, code>>

\* The controls are parsed, run and put into the collection, or an error of
\* the file or of the filter ends the program.  The error of getBinaries
\* does not: binmap is nil then, and nothing is substituted.
RunControls ==
  /\ pc = "bind"
  /\ left = <<>>
  /\ UNCHANGED <<setup, env>>
  /\ \/ Exit(1)
     \/ \E fail \in BOOLEAN :
          /\ collection' = Append(collection,
               [section |-> Head(todo), bound |-> binmap # "nil", fail |-> fail])
          /\ todo' = Tail(todo)
          /\ pc' = IF setup.cmd = "root" THEN "gate" ELSE "open"
          /\ UNCHANGED <<merged, left, binmap, written, code>>

(***************************************************************************)
(* writeOutput and the exit.                                               *)
(***************************************************************************)
\* The IDs of the sections are ascending in this order in every benchmark.
ReportOrder ==
  <<"master", "etcd", "controlplane", "node", "policies", "managedservices">>

IDOf(s) == CHOOSE k \in DOMAIN ReportOrder : ReportOrder[k] = s

\* Mutant of Sort: the report is in the order in which the sections were run.
SortNot ==
  /\ pc \in {"gate", "open"}
  /\ todo = <<>>
  /\ pc' = "write"
  /\ UNCHANGED <<setup, env, work, written, code>>

\* sort.Slice of writeOutput; how it arranges two results of the same
\* section is not specified.  (That p is a permutation is said again for the
\* sake of the proofs, in which Permutations is not defined.)
Sort ==
  /\ pc \in {"gate", "open"}
  /\ todo = <<>>
  /\ \E p \in Permutations(DOMAIN collection) :
       /\ p \in Surjection(DOMAIN collection, DOMAIN collection)
       /\ \A j, k \in DOMAIN collection : j < k =>
            IDOf(collection[p[j]].section) <= IDOf(collection[p[k]].section)
       /\ collection' = [k \in DOMAIN collection |-> collection[p[k]]]
  /\ pc' = "write"
  /\ UNCHANGED <<setup, env, todo, merged, left, binmap, written, code>>

\* Mutant of WriteAll: the error of printOutput is not looked at.
WriteAllErrorAside ==
  /\ pc = "write"
  /\ setup.format \in {"file", "stdout"}
  /\ pc' = "exit"
  /\ \/ setup.format = "file" /\ UNCHANGED written
     \/ written' = collection
  /\ UNCHANGED <<setup, env, work, code>>

\* writeStdoutOutput; writeJunitOutput and writeJSONOutput, in which
\* printOutput may fail to write the file.
WriteAll ==
  /\ pc = "write"
  /\ setup.format \in {"file", "stdout"}
  /\ UNCHANGED <<setup, env>>
  /\ \/ setup.format = "file" /\ Exit(1)
     \/ /\ written' = collection
        /\ pc' = "exit"
        /\ UNCHANGED <<work, code>>

\* writePgsqlOutput and writeASFFOutput: section by section, and the first
\* error ends the program.  savePgsql does not look at what db.Save returns,
\* so that for pgsql written means sent to the database.
WriteOne ==
  /\ pc = "write"
  /\ setup.format \in {"pgsql", "asff"}
  /\ written # collection
  /\ UNCHANGED <<setup, env>>
  /\ \/ Exit(1)
     \/ /\ written' = Append(written, collection[Len(written) + 1])
        /\ UNCHANGED <<work, pc, code>>

WrittenEach ==
  /\ pc = "write"
  /\ setup.format \in {"pgsql", "asff"}
  /\ written = collection
  /\ pc' = "exit"
  /\ UNCHANGED <<setup, env, work, written, code>>

\* Mutant of ExitCode: the number of the sections in which a check failed.
ExitCodeCounts == Cardinality({k \in DOMAIN collection : collection[k].fail})

\* Mutant of ExitCode: only the last section counts.
ExitCodeOfLast ==
  IF collection # <<>> /\ collection[Len(collection)].fail
  THEN setup.exitCode ELSE 0

\* exitCodeSelection.
ExitCode ==
  IF \E k \in DOMAIN collection : collection[k].fail THEN setup.exitCode ELSE 0

Finish ==
  /\ pc = "exit"
  /\ UNCHANGED <<setup, env>>
  /\ Exit(ExitCode)

(***************************************************************************)
(* The node.                                                               *)
(***************************************************************************)
\* Processes start and stop, at any time.
Churn ==
  /\ pc # "end"
  /\ procs' \in SUBSET Processes \ {procs}
  /\ steady' = FALSE
  /\ UNCHANGED <<setup, pc, work, written, code>>

Ended == pc = "end" /\ UNCHANGED vars

Step ==
  \/ Start \/ Plan \/ Gate \/ ProbeComponent \/ Answer \/ LoadConfig
  \/ Open \/ RunControls
  \/ Sort \/ WriteAll \/ WriteOne \/ WrittenEach \/ Finish

Next == Step \/ Churn \/ Ended

Spec == Init /\ [][Next]_vars

-----------------------------------------------------------------------------
Reported == {collection[k].section : k \in DOMAIN collection}

\* The program got to its end: a status of 1 is that of an error (setups
\* with --exit-code 1 cannot tell the two).
Completed == pc = "end" /\ code # 1

\* What getBinaries and isThisNodeRunning say of a section while the
\* processes stay as they are.
Detected(s, conf) ==
  /\ s \in DOMAIN conf
  /\ \E k \in DOMAIN conf[s] : conf[s][k].bins # {}
  /\ \A k \in DOMAIN conf[s] :
       \/ conf[s][k].bins = {}
       \/ conf[s][k].optional
       \/ conf[s][k].bins \intersect procs # {}

\* Every variable has its type.
TypeOK ==
  /\ setup \in Setups
  /\ procs \subseteq Processes
  /\ steady \in BOOLEAN
  /\ pc \in {"start", "plan", "gate", "ask", "load", "open", "bind", "write",
             "exit", "end"}
  /\ todo \in Seq(Targets)
  /\ pc \in {"ask", "load", "bind"} => todo # <<>>
  /\ merged \in BOOLEAN
  /\ left \in Seq(Components)
  /\ binmap \in {"nil", "empty", "some"}
  /\ collection \in
       Seq([section : Targets, bound : BOOLEAN, fail : BOOLEAN])
  /\ Len(written) <= Len(collection)
  /\ code \in {Running, 0, 1, setup.exitCode}

\* What is out is a part of the report from its beginning, in the order of
\* the IDs; a report that is one piece is out as a whole or not at all.
WrittenInOrder ==
  /\ \A k \in DOMAIN written : written[k] = collection[k]
  /\ \A j, k \in DOMAIN written :
       j < k => IDOf(written[j].section) <= IDOf(written[k].section)
  /\ setup.format \in {"file", "stdout"} => written \in {<<>>, collection}

\* A script may go by the status: --exit-code says that a section that is in
\* the report failed, 0 that the whole report is out and nothing failed.
ExitCodeTells ==
  pc = "end" /\ setup.exitCode \notin {0, 1} =>
    /\ code = setup.exitCode => \E k \in DOMAIN written : written[k].fail
    /\ code = 0 => /\ written = collection
                   /\ \A k \in DOMAIN written : ~written[k].fail

\* A command that gets to its end has reported what it had to, each section
\* as often as it was asked for: the root command the node, the policies and
\* the managed services if they are targets, the control plane beside the
\* master only; run its files.
SectionsComplete ==
  Completed /\ setup.exitCode # 1 =>
    IF setup.cmd = "root"
    THEN /\ Len(collection) = Cardinality(Reported)
         /\ "node" \in Reported
         /\ \A s \in {"policies", "managedservices"} : s \in Reported <=> Valid(s)
         /\ "controlplane" \in Reported <=>
              "master" \in Reported /\ Valid("controlplane")
    ELSE /\ Len(collection) = Len(TestFiles)
         /\ Reported = {TestFiles[k] : k \in DOMAIN TestFiles}

\* While no process starts or stops, the root command reports on the master
\* exactly if the main configuration detects it, and on etcd exactly if the
\* configuration that is in force by then does: the version-specific one
\* only if the master was reported, for it is the checks of the master that
\* merge it.
SteadyDetection ==
  setup.cmd = "root" /\ setup.exitCode # 1 /\ Completed /\ steady =>
    /\ "master" \in Reported <=> Detected("master", setup.main)
    /\ "etcd" \in Reported <=>
         /\ Valid("etcd")
         /\ Detected("etcd", IF "master" \in Reported /\ setup.specific = "ok"
                             THEN setup.merged ELSE setup.main)

\* The two looks at the same processes, isMaster or isEtcd and runChecks,
\* agree if neither the processes nor the configuration change in between:
\* no check of the master or of etcd runs without its substitutions.
DetectedIsBound ==
  setup.cmd = "root" /\ steady /\ setup.specific # "ok" =>
    \A k \in DOMAIN collection :
      collection[k].section \in {"master", "etcd"} => collection[k].bound

\* No section is run under another configuration than the one that belongs
\* to the version, and run does not go on without it; the root command does.
ConfigInForce ==
  /\ pc = "bind" => merged = (setup.specific = "ok")
  /\ setup.cmd = "run" /\ collection # <<>> => setup.specific # "broken"

\* What the model does is what Invocation allows: until the report is sorted
\* it is taken section by section, then it is written and the program ends.
Promise == INSTANCE Invocation WITH
  exitCode <- setup.exitCode,
  phase <- IF pc = "end" THEN "end"
           ELSE IF pc \in {"write", "exit"} THEN "write" ELSE "take",
  report <- collection,
  out <- written,
  status <- code

ImplementsInvocation == Promise!Spec

\* docs/controls.md:311: kube-bench "terminates if none of the binaries in
\* both `bins` and `defaultbin` is running".
TerminatesWithoutBinaries == \A k \in DOMAIN collection : collection[k].bound

\* docs/controls.md:275: "Values in the version-specific config overwrite
\* similar values in `cfg/config.yaml`", and docs/flags-and-commands.md:79:
\* what is run is determined by "which components are running, as defined in
\* the config files".
SpecificConfigDetects ==
  setup.cmd = "root" /\ setup.exitCode # 1 /\ Completed /\ steady
    /\ setup.specific = "ok" /\ Detected("master", setup.merged)
  => "master" \in Reported
=============================================================================
