# TLA+ models of kube-bench

kube-bench runs the checks of a CIS benchmark on a node of a Kubernetes
cluster: it decides which benchmark and which of its sections apply, runs the
shell commands of every check, compares what they print with what the controls
file expects, and reports states, counts and an exit status. These modules
model the code that does so. TLC checks them on small instances, and TLAPS
proves the results that matter most for every value of the constants.

Paths below are relative to `src/`; line numbers are those of the commit the
models were read from. `PROJECT.json` has the line range behind every
definition.

## The system

| Component | State | Operations | Model |
|---|---|---|---|
| Running a check, `check/check.go` | the `Check`: `State`, `Reason`, three audit outputs | `run`, `runAuditCommands`, `runAudit`, `execute` | `CheckRun`, contract `CheckVerdict`, vocabulary `CheckStates` |
| Evaluating a test item, `check/test.go` | none (a result per call) | `findValue`, `evaluate`, `execute`, `compareOp` | in `CheckRun`; `compareOp` and its conversions in `Compare` |
| Controls of a section, `check/controls.go` | groups, new groups and their index, summary | `RunChecks`, `summarize`, `summarizeGroup`, `JUnit`, `ASFF` | `Controls`, `Outputs` |
| Filter and skip list, `cmd/common.go` | none | `NewRunFilter`, `parseSkipIds` | in `Controls` |
| Benchmark version, `cmd/common.go`, `cmd/util.go` | platform, version, what was detected | `getBenchmarkVersion`, `getPlatformInfo`, `mapToBenchmarkVersion`, the tables | `Version` |
| Kubernetes version, `cmd/kubernetes_version.go`, `cmd/util.go` | tries | `getKubeVersion`, the REST API with retries, `kubectl`, `kubelet`, the marks of RKE and AKS | `Version` |
| Root command, `cmd/root.go` | viper's configuration, `controlsCollection` | six sections with their gates, `loadConfig`, `runChecks`, `writeOutput`, `exitCodeSelection` | `KubeBench`, contract `Invocation` |
| Run command, `cmd/run.go` | the same | target validation, `mergeConfig`, list of files, `runChecks`, output | `KubeBench`, contract `Invocation` |
| Files and substitutions, `cmd/util.go`, `cmd/common.go` | four maps from component to binary or file, the text | `getBinaries`, `getFiles`, `makeSubstitutions`, `generateDefaultEnvAudit` | `Section` |
| Output, `cmd/common.go`, `cmd/database.go`, `cmd/securityHub.go` | what is out | sort, choice of the format, section-wise writing, remediations, summary | in `KubeBench` (order, completeness, errors) and `Outputs` (what it shows) |
| Security Hub publisher, `internal/findings/publisher.go` | loop counter, accumulated answer and error | `writeFinding`, `PublishFinding` | `Publisher` |
| Database settings, benchmarks (`cfg/`), packaging | none, or data | | not modelled |

How they interact. A command calls `getBenchmarkVersion`, which asks `oc`, the
API server, `kubectl` and `kubelet`, and then for each section `loadConfig`
(which merges the version-specific configuration into viper, a global) and
`runChecks`. `runChecks` probes the processes of the node, looks for the files
of the components, substitutes both in the controls file and calls
`Controls.RunChecks`, which calls the runner once per check; the runner is
`Check.run`, which starts the shell commands and evaluates the test items. The
controls are appended to the global `controlsCollection`, which `writeOutput`
sorts and writes and `exitCodeSelection` reads. With `--asff`, `writeOutput`
calls the publisher once per section.

What is hard. The program is one thread, so there are no data races; what makes
it hard is everything it shares with a node, a cluster and services that do not
wait for it:

- the processes come and go, and the program looks at them twice for the same
  section (`isMaster` or `isEtcd`, then `runChecks`);
- the routes to the cluster come and go, it is asked for its platform and for
  its version separately, and one question is retried while the others are not;
- versions are counted down to one that has a benchmark, over tables with gaps;
- viper is changed half-way: what is detected depends on what ran before;
- variables are replaced in the order of a Go map, which is random;
- a shell command may fail, be missing, print something and fail, or never end,
  and three of them feed one verdict;
- several gates, filters, skips and early returns overlap;
- an error can come at any place with part of the report out;
- the service may fail any call of a sequence and reject any part of it.

What makes each component correct:

- *Check*: one final verdict, that the description leaves open; a PASS has
  evidence in every row that was to be read and no failed command behind it;
  only a shell command can keep it from returning.
- *Comparison*: a file with wider permissions, or a text that is no number,
  never passes; opposite operations disagree; lists are sets.
- *Controls*: every selected check is run, listed in its place and counted
  once, and no other leaves a trace; counts agree with states although groups
  may share IDs; a skip shows as INFO and nothing else does; what the outputs
  make of it does not contradict itself.
- *Version*: flags win; what is detected rests on what the cluster showed; the
  benchmark is that of the nearest version below; a short outage does not change
  it where the gitVersion alone decides; only a request can keep it from answering.
- *Section*: a variable stands for what belongs to its own component, whatever
  the order; a file that cannot be looked at is not passed over; a generated
  audit asks the process that the section is about.
- *Commands*: no section is lost or taken twice; what is reported is what runs
  on a steady node; each section runs under the configuration of its version;
  what is out is in order and never taken back; the status tells what is in the
  report.
- *Publisher*: no finding is lost without an error or an entry, no error is
  forgotten, no batch is left out.

## The modules

| Module | What it is |
|---|---|
| `CheckStates` | states and types of a check; `Allowed(c)`, the states that `Check.run` may leave a check in |
| `CheckVerdict` | abstract specification of `Check.run` |
| `CheckRun` | `Check.run` step by step; implements `CheckVerdict` |
| `Compare` | `compareOp`, with the conversions of texts to numbers, modes and lists |
| `Controls` | `Controls.RunChecks` on a file; its runner answers with a member of `Allowed` |
| `Outputs` | what JUnit, ASFF, the terminal and the exit status make of the result of `Controls` |
| `Version` | `getBenchmarkVersion` and all it asks, against routes that come and go |
| `Section` | how `runChecks` prepares the controls of a section |
| `Invocation` | abstract specification of a command |
| `KubeBench` | one invocation of the root or the run command, on a node that changes; implements `Invocation` |
| `Publisher` | `PublishFinding` against the service |
| `MC...` | small constants for TLC |
| `...Proofs` | theorems of the module before the suffix (`ControlsProofs` also of `Outputs`, `VersionProofs` also of `MCVersion`) |
| `ProofLemmas` | what several of these proofs need: least numbers, sizes of unions, lexicographic orders |

`CheckVerdict` and `Invocation` join the levels. `CheckRun` implements
`CheckVerdict` (checked and proved), and `Controls` relies on nothing else of
the runner. `KubeBench` implements `Invocation` (checked and proved), and needs
of `Controls` only whether a check failed, which is `Summary.Fail > 0`; that
this number is right is `SummaryCounts`. Of `Version` it needs that there is a
benchmark or an error, and of `Section` whether the binaries were found.

### CheckRun

`pc` stands for the place in `run`, `runAuditCommands` and `execute`. The four
early returns are one action each (`WarnIncomplete`, `Skip`, `WarnManual`,
`NoTestsDefined`), with the guards in the order of `check.go:114-147`. The three
audits are `RunAuditEnv`, `RunAuditCommand` and `RunAuditConfig`: a blank
command prints nothing, any other ends well or badly and prints anything of
`Outputs`; the error of a missing configuration file is dropped when another
audit has printed something (`Excused`, check.go:213). The loop of `execute` is
`TryCommand`, `TryConfig`, `TryEnv` per item, then `Combine` (bin_op) and
`Conclude`, which sets the state from the result and then from the error, as
check.go:155-192 does.

Text is abstracted to what an item reads in it: a row of output says of each
item *absent*, *good* (its comparison holds, which is what `Compare` is about),
*bad* or *error* (not legible). `Execute` keeps the control of
`testItem.execute` and `evaluate`: rows one by one with `use_multiple_values`,
the text as a whole without, the stop at the first row that does not hold,
`flagFound` that of the last row looked at, and what `set` and a comparison make
of a reading. A text parsed for a path is one document and is given as one row.
That the code tries the environment a second time on the same text
(check.go:241-258) is one step, for the second answer is the first.

### Compare

One action, `Evaluate`, answers what `CompareOp` makes of a pair of texts. Texts
are sequences of symbols, for here the conversions are the point: `Parse` is
`strconv.ParseInt` to a base, `Numeric` is `toNumeric`, `Elements` is
`splitAndRemoveLastSeparator` (as a set, for `allElementsValid` asks only for
membership and emptiness), `Masked` reads both texts as octal and compares their
`Bits`, as the `&` of the code does. The properties compare this with
definitions that know nothing of numbers and splitting: sets of rights per
class, sets of words between separators, the opposite operation.
Numbers that do not fit into an `int` are left out (they are errors of
`ParseInt`, like any text that is no number), and whether a regular expression
matches is a free choice.

### Controls and Outputs

`gi` and `ci` are the two loops, `g` and `m` the new groups and the map from ID
to new group, `type` and `state` what the loop writes into the checks. One
action per turn of the inner loop: `LeaveOut` (the `continue` of the filter) or
`RunCheck`, which does all the code does for a check: mark it if it is skipped,
run it, append it to its new group or make one, count it in both summaries.
IDs are members of a set; the splitting of the lists of `--check`, `--group`
and `--skip` at commas is left out.

`Outputs` has no steps of its own. Its operators are the loops of the outputs
over the new groups, which go by `Lines`: one for each check in a list of a new
group, by the numbers of the two, in the order of the report. `Case` and `JUnit` (numbers of the suite from the summary,
cases from the lists), `ASFF`, `Remediations`, `Severity` (the colour of the
summary), `ExitsWithCode`. Some go by the counts, some by the lists and some by
both, and `OutputsAgree` says that nobody can tell.

### Version

`pc` is the function that runs. `GetPlatformInfo` is first whatever the flags
are, for its result is an argument of `getBenchmarkVersion`: `LookOcp` counts
the version of `oc` down to a valid one, else `GetKubeVersion` asks the cluster,
with `look` saying for what. `DetectRKE` and `DetectAKS` look at the nodes once;
`AskInVain` and `AskAPI` are the tries of `getWebDataWithRetry`; `AskTools` is
`kubectl`, else `kubelet`, else the default. `Select` is the `if` chain of
`getBenchmarkVersion`; without flag and platform it asks the cluster a second
time, and `Lookup`, `LookLower`, `NotMapped` are the loop of
`mapToBenchmarkVersion`. `up` is the set of routes that are open (the client of
the pod, the address of the API server, `kubectl`), and `Churn` changes it
between any two steps.

What is behind the version in a gitVersion is a sequence of words, for the
expression of `getPlatformInfoFromVersion` reads a word in two ways: in full if
there is another one behind it, without its last character if it is the last
one (`NameIn`; `rancher1` in `v1.25.13-rancher1-1`, `k3s` in `v1.27.6+k3s1`, as
`util_test.go:616-628` has them). A word is therefore its text and that without
the last character. The marks of RKE and AKS are words that are put behind those
of the gitVersion, in this order (`GitVersion`), which makes a difference to
how the word before them is read.

A version is its text up to the first dot, the number behind it and the rest,
which is what `decrementVersion` tells apart; other regular expressions and JSON are
abstracted to what comes of them (`answer`: a version, garbled text, or JSON
without a version, of which the code makes `"."`). The tables of benchmarks and
`version_mapping` are data, but are given in full, because two files have to
agree about them.

### Section

`GetBinaries` and `GetFiles` look at one candidate of one component per step;
`MandatoryMissing` is the error that comes with a nil map, `LookAt` the error
that ends the program. `Substitute` is one turn of the loop of
`makeSubstitutions`, for any component that has not had its turn, so TLC goes
through every order of the map; `GenerateAudits` completes the checks. A name is
a sequence of symbols, so that one variable may begin like another; words are
replaced where they begin with the variable, as a controls file uses them. That
`verifyBin` reads the output of `ps` is abstracted to the set of what runs.

### KubeBench and Invocation

`pc` is the function that runs; `todo` holds the sections to come; `merged`
says which of two configurations viper answers from; `binmap` is the result of
`getBinaries`; `collection` and `written` are the report and what of it is out.
`Gate` is the branch of `root.go` for the next section: sections other than
master and node need `validTargets`, master and etcd need `isMaster` and
`isEtcd`, and the control plane is only reached behind the master. Each
component is probed in a step of its own (`ProbeComponent`), and `Churn` starts
and stops processes between any two steps. (`findExecutable` asks for the
executables of one component one after another; that is one step here, and
several in `Section`.) `Plan` is the run command up to the list of files, `Open`
and `RunControls` are `runChecks`, `Sort`, `WriteAll`, `WriteOne`, `WrittenEach`
are `writeOutput`, `Finish` is `exitCodeSelection`. Wherever the code calls
`exitWithError` or `os.Exit` there is `Exit(1)`; where the cause lies in what is
not modelled (files that become unreadable, controls that do not parse, a write
that fails) the choice is free. `Start` takes from `Version` that there is a
benchmark or an error.

A setup holds the configuration as it is before and after merging (viper's deep
merge is given by its result), the target mapping, the files of the benchmark
and the command line. For pgsql, *written* means sent: `savePgsql` does not look
at the error of `db.Save` (`database.go:114`). For asff, a section whose
publishing ends in an error may be partly imported; `Publisher` has that detail.

`Invocation` knows three phases: results are taken one by one, arranged once,
then written from the beginning, and no status but 1 comes before all of it is
out. The refinement maps `pc` to the phase and leaves the rest as it is.

### Publisher

The loop of `PublishFinding` call by call. `i` is the outer counter;
`Request` is the whole slice, because `i.Findings = finding` at
`publisher.go:51` does not cut a batch. `Configure` is what `writeFinding` does
before: without an account or without a region there is an error and no call. A
call answers with an error and no response, or with the set of findings it
failed to import.

## What TLC checks

Passing runs:

| Run | Instance | Properties |
|---|---|---|
| `checkrun_sources` | one item of every shape, every type, tests section, outcome and one-row output of three commands | `TypeOK`, `PlainItemsDecide`, `PassNeedsAudits`, `ImplementsVerdict`, `OnlyAuditsHang` |
| `checkrun_evidence` | up to two rows, with and without `use_multiple_values`; two items under *and*, *or* and an unknown bin_op | `PassIsEvidenced`, `VerdictExplained` |
| `compare` | every operation on every pair of texts of up to three symbols (some of four for modes, and for lists with one word) | `MoreRestrictive`, `Complementary`, `ValidElementsAreIncluded` |
| `controls` | up to three groups that share IDs, up to two checks each; up to two groups of every kind of check under all options and skip lists | `TypeOK`, `SummaryCounts`, `GroupCounts`, `ReportInFileOrder`, `ReportComplete`, `SkipMeansInfo`, `OutputsAgree` |
| `version` | every platform on both sides of every step of its table, every form of gitVersion with every set of marks behind it, every way to reach a cluster, OpenShift, every kind of flag; three mappings, three tries, three routes that come and go | `NearestBelow`, `EvidenceOrDefault`, `ShortOutage`, `SteadyMarks`, `AnswerHasTargets`, `OnlyRequestsHang` |
| `section` | two and three components, four controls files, all sets of processes and files that tell them apart, one file that cannot be looked at | `DeniedEnds`, `Substituted`, `AuditNamesBinary` |
| `kubebench` | the root command on ten setups, the run command with six target lists on them, four formats and two exit codes; three processes that come and go | `TypeOK`, `SteadyDetection`, `DetectedIsBound`, `SectionsComplete`, `ConfigInForce`, `WrittenInOrder`, `ExitCodeTells`, `ImplementsInvocation` |
| `publisher` | up to five findings in batches of two, any answer to any call | `ErrorIsKept`, `NothingLostSilently`, `CountsAgree`, `EveryBatchIsTried` |

Why the bounds are enough:

- *CheckRun.* Items do not influence each other except through bin_op, so one
  item of every shape and two items joined in every way meet every path of
  `execute`. Two rows are the least with a row before and after the stop. A
  control flow that depends on three rows would have to remember a row other
  than the last one looked at, and the code keeps none.
- *Compare.* Three digits have every class of permissions, four the leading
  digit; lists of three symbols have a blank or a separator at either end and
  between two words, those of four also blanks between two separators.
- *Controls.* Two groups with one ID and one with another between, before or
  after them meet every case of the index: absent, present, present but not
  last. Two checks per group give a first and a later check of a new group.
  What does not fit the small instance is covered by proofs, which are for
  files of any size.
- *Version.* `MaxTries` is 3 where the code has 10: it takes a first try, one
  between and a last one. No word, one word (of which cutting leaves something or
  nothing) and two words are all that `NameIn` tells apart, and the marks are
  taken in all four combinations. `version_mapping` is the whole of that in
  `cfg/config.yaml`; beside it are one with gaps and without the default version, and an empty one.
- *Section.* The components are cut down from `cfg/config.yaml`: mandatory and
  optional, with and without bins, candidates and defaults, with a binary of
  two words, and two whose variables begin like those of the kubelet.
- *Publisher.* Five findings in batches of two give full batches and a tail;
  smaller numbers give none, one, and an exact multiple.
- *KubeBench.* The setups are cut down from `cfg/config.yaml` and
  `cfg/k3s-cis-1.7/config.yaml`: mandatory, optional and bin-less components,
  sections that are missing from the configuration, from the target mapping or
  from the directory, a version-specific file that is absent, merged or broken,
  no mapping, and no configuration file at all. Three processes suffice to tell
  a section whose components all run from one where some do.

Deadlock is checked in every run; a program that has ended stutters in an
action of its own (`Done`, `Stopped`, `Ended`, `Answered`).

Some properties say less than one may expect:

- `NothingLostSilently` holds although batches are not cut, for each call sends
  everything; whether the service takes a request of that size is not the
  question of that run.
- `PlainItemsDecide` is about items that every output shows in all its rows or
  in none: for mixed rows the verdict does depend on their order, through
  `flagFound`, and `PassIsEvidenced` says what is left. Both that property and
  `SourcesActAsOr` go by the sources that are *asked*: the environment is
  passed over if it is disabled or if the item names no variable.
- `ShortOutage` is about clusters whose gitVersion spells the platform whatever
  marks are seen, or of which no sign names a platform. A single word with a
  mark to be put behind it is neither: which platform `v1.27.6+k3s1` on Azure
  nodes is taken for depends on whether the nodes could be asked, which is not
  retried. `SteadyMarks` is about those, and about RKE and
  AKS, which are told by their marks alone, while all routes are open. It says
  what the code makes of them, which is not always their platform.
- `SteadyDetection` and `DetectedIsBound` assume a node whose processes do not
  change between the two looks at them. That they may change is in the model
  (`Churn`), and what comes of it is the run `kubebench_doc_binaries`.
- `EvidenceOrDefault` cannot say that platform and version are those of one
  moment: `getKubeVersion` runs twice, and one of them may come from the API
  server and the other from the kubelet or the default.
- `Substituted` and `AuditNamesBinary` assume `NoClash`. Where one variable
  begins like another, which no benchmark that is shipped has, the result does
  depend on the order of the map.
- `ValidElementsAreIncluded` is about tidy lists: every separator follows a
  word, or is one of a row that ends the list. In any other list the code has an
  empty element, which is no word. `a, ,` is such a list: the separators at the
  end are trimmed once, and the blank before the last one keeps the other.

### Fairness

- `CheckRun!FairSpec`: weak fairness of the program's own steps and none of the
  audits, because `runAudit` waits with `cmd.Run` and without a timeout.
  `OnlyAuditsHang` therefore says that the check returns or waits for a command
  for ever.
- `Version!FairSpec`: weak fairness of `Own`, what the program does without the
  cluster, and nothing of `Request` or `Churn`: neither the clients of the API
  server nor the commands that are started have a timeout. `OnlyRequestsHang`
  says that there is an answer, or that from some point on the program waits
  and no request comes back; in particular counting down ends for every version,
  those without a number included, and so do the tries.
- No other specification has fairness. `Controls` and `KubeBench` wait for shell
  commands and for the cluster inside single steps (`RunCheck`; `Start`,
  `RunControls`), so that nothing which must eventually happen can be asked of
  them; that their own loops run out is proved (`StepsRunOut`).

### Where code and documentation differ

Four runs have TLC find a behaviour of the code that a document or a comment
rules out:

| Run | Says | Does |
|---|---|---|
| `publisher_doc_batches` | the slice is split into batches of 100 (`publisher.go:46`) | the inner `i` shadows the counter and each call sends the whole slice (`publisher.go:50-51`) |
| `checkrun_doc_or` | flag, path and env act as OR (`docs/controls.md:193,209`) | the next source is asked only for an item the one before does not show (`check.go:241`) |
| `kubebench_doc_binaries` | kube-bench terminates if no binary of a component runs (`docs/controls.md:311`) | the error is logged and the checks run without substitutions (`common.go:90`) |
| `kubebench_doc_specific` | the version-specific configuration overwrites the main one (`docs/controls.md:275`) | `isMaster` looks before that file is merged (`root.go:78`) |

Others that need no run to be seen, or that these models abstract from:

- A mark takes away the platform of the word it is put behind. RKE on nodes with
  an `azure://` ProviderID (`util.go:514`) becomes `-rancher1-aks1`, read as
  `rancher1`, though `IsRKE` is said to identify RKE (`util.go:708`); K3s and
  RKE2 on such nodes become `+k3s1-aks1` and `+rke2r1-aks1`, read as `k3s1` and
  `rke2r1`. None of these is a platform, so that the cluster gets the benchmark
  of its Kubernetes version. `SteadyMarks` is about what the code does here.
- `docs/running.md:139` offers `--version ocp-4.5`; `version_mapping` has
  `ocp-4.0` and `ocp-4.11`, and `decrementVersion` stops at 4.1, so that this is
  an error, while a cluster whose `oc` says 4.5 gets `rh-1.0`. Both are
  in the instance of `version` (`Flags`, `OpenShifts`), under `NearestBelow`.
- `docs/running.md:21` requires kubectl or the kubelet for detection; without
  them the code assumes version 1.18.
- `getBenchmarkVersion` is given the platform as an argument, so that the
  cluster is asked even with `--benchmark`: up to ten tries, a second apart.
- `kubectl` is asked when the API server is not reached, and then the marks of
  RKE and AKS that were found are lost (`util.go:336`).
- The tables are not monotone: EKS from 1.35 on gets `eks-1.5.0` where 1.34 gets
  `eks-1.8.0`, and AKS 1.25 to 1.28 get `aks-1.8` where 1.29 to 1.31 get
  `aks-1.7`. `docs/platforms.md` puts k3s and rke2 at other versions than
  `util.go` does.
- `eq` takes a boolean of the component in lower case but not that of the
  benchmark: `True` in a controls file is never met by a boolean.
- A binary of several words is put unquoted into the generated audit of the
  environment (`common.go:134`).
- ASFF fields are cut by bytes, perhaps within a character, and the expected
  result is not cut at all (`controls.go:236`).
- A malformed pattern of `regex` is a panic (`test.go:319`).
- `docs/flags-and-commands.md:120` has a scored test without test items warn;
  `check.go:138-141` fails it, and only a missing `tests` section warns.
- `database.go:114` logs success whatever `db.Save` returned.
- `translate` makes *node* of *worker* (`run_test.go:96-105`), but
  `validTargets` at `run.go:45` refuses *worker* before it comes to that.
- `docs/controls.md:197` spells `disableEnvTesting`; the field has no yaml tag
  of that spelling.
- `--exit-code 1` cannot be told from an error, and the default of 0 ends with
  0 whatever failed; `ExitCodeTells` is about the other values.
- `run --targets node,node` runs and reports the section twice.

## What is proved

All theorems hold for every value of the constants under the named assumptions
of the modules (`AuditsAssumption`, `RowsAssumption`, `FilesAssumption`,
`OptionsAssumption`, `BatchAssumption`, `TriesAssumption`,
`MappingsAssumption`, `SetupsAssumption`, `ComparisonsAssumption`), which give
the types of the input and say that permissions, as `stat` prints them, have no
sign.

- **`CheckRunProofs`.** `PassIsAudited` (`PassNeedsAudits`) and
  `RunImplementsVerdict` (`Spec => ImplementsVerdict`). The properties are not
  inductive: whether the audits ended well is decided long before the verdict.
  `IInv` carries it along: at each place after an audit that audit is fine, at
  `conclude` there is an error or all are fine and there is a result, and the
  evaluation is only reached by checks no early return has taken. The refinement
  then takes one step: every action leaves `state` alone or gives it a member of
  `Allowed(check)` while it is still empty.
  `PassHasEvidence` (`PassIsEvidenced`), `VerdictHasReason`
  (`VerdictExplained`), `TypeCorrect` (`TypeOK`) and `PlainItemsAreDecided`
  (`PlainItemsDecide`) are for outputs of any length and any number of items.
  What the loop over the rows returns is its value at the first row that stops
  it, which exists because the naturals are well-founded (`LeastExists`); from
  there `ExecuteHolds` says that an item that holds has no row against it, and
  `ExecuteReads` what is made of an item on which all rows agree. `Backing`
  carries along that every result in the list is backed by a source that was
  asked and that no later step changes that source's output. `Plain` says of
  the sources tried so far that the item is found exactly if one of them shows
  it, and passes exactly if the first of those that do holds it in every row;
  the nested conditions of check.go:241-258 keep that from one source to the
  next (`NextSource`, `OneMoreSource`: a further source only decides if none
  before it shows the item).
- **`CompareProofs`.** `OppositesCorrect` (`Complementary`), `ListsCorrect`
  (`ValidElementsAreIncluded`) and `ModesCorrect` (`MoreRestrictive`), for texts
  of any length. The invariant only says that the answer is one of `CompareOp`;
  the work is in its operators. A text is one number or none (`NumericIs`), so
  an order and its opposite are taken of the same two numbers. What is between
  two neighbouring cuts of a clean list is a word once it is trimmed, and every
  word is between two (`CutIsWord`, `WordIsCut`). The bits of an octal number
  are the rights of its digits, three places for each (`OctalDigit`,
  `ModeBits`), so a right of a class is one bit, and leading zeros add none
  (`ModesCompared`). `Sizes` and `Bits` are recursive functions: that there is a
  function with their equation, and what it is worth, is shown by the least
  number for which it would not be so (`SizesDefined`, `BitsDefined`).
- **`ControlsProofs`.** `TypeCorrect`, `SummaryCorrect`, `GroupsCorrect`,
  `SkipCorrect`. The counts are cardinalities of sets of positions, so a step
  that adds one must be known to add a *new* position. `CursorSeparates` in
  `IInv` says so: exactly the selected positions before the cursor have a state.
  With it a count grows with its set (`FiniteSetTheorems`), and no other new
  group's set changes because `GroupsIndexed` keeps IDs apart.
  `ReportIsComplete` (`ReportComplete`) and `OrderIsKept` (`ReportInFileOrder`):
  `Lists` adds to `IInv` what is in the lists, which is exactly what has a
  state, under the ID of its group. A check that is appended comes after all
  that are listed, for those are before the cursor. `OutputsAreInAgreement`
  (`OutputsAgree`) follows from the two without a step of its own: in a report
  in the order of the file no check has two lines (`LinesDistinct`), in a
  complete one every check that was run has one (`EveryCheckHasALine`), so the
  lines are as many as the checks (`LinesCount`) and those shown as failed as
  many as the summary says (`CountsAddUp`, `FailedCases`).
- **`VersionProofs`.** `NearestCorrect` (`NearestBelow`), `EvidenceCorrect`
  (`EvidenceOrDefault`), `OutageCorrect` (`ShortOutage`), `MarksCorrect`
  (`SteadyMarks`) and `TriesBounded`, for any mapping, any cluster and any
  number of tries; `TargetsCorrect` (`HasTargets`) for any set of benchmarks
  with those of `Tables`, which are all that the code knows (`TablesKnown`), and
  those of `version_mapping`; from it follows `AnswersHaveTargets`
  (`AnswerHasTargets`), for the mappings of `cfg/config.yaml` as they are
  shipped, which `MCVersion` has. Counting down has as its invariant that the nearest version
  below the current one is the nearest below the first one (`NearestLower`: a
  step down passes no mapped version by). The invariants about evidence follow
  what is known from one function to the next: `Platforms`, `Evidence`,
  `Openshift`. `Outage` ties the history variable to the loop: fewer than
  `MaxTries` refusals in all mean that no look has used up its tries. It and
  `Marks` rest on how a gitVersion is read, for any words and any marks that
  were seen: as one of the cluster's `PlatformNames` (`NamesKnown`), as what it
  spells if it does (`SpelledRead`), and with the marks in sight as what
  `SteadyMarks` takes the cluster for (`MarksRead`).
- **`PublisherProofs`.** `ErrorCorrect`, `NothingIsLost`, `BatchesCorrect`,
  over an invariant that says that every call sent all findings, that whatever
  failed in a call is in the list, and that the counter is the batch size times
  the calls and less than one batch beyond the end. An empty list and a tail
  shorter than a batch are covered by this arithmetic, not by cases.
  `CountsCorrect` (`CountsAgree`) says of each answer by how much it makes the
  set of entries and the set of answered findings grow (`MoreEntries`,
  `MoreAnswered`); what is added is labelled by a finding and a number, or by a
  call, that no element had before, so cardinalities add up.
- **`KubeBenchProofs`.** `ExitCodeCorrect` (`ExitCodeTells`), `ConfigCorrect`
  (`ConfigInForce`), `ReportCorrect` (`WrittenInOrder`) and
  `KubeBenchImplementsInvocation` (`ImplementsInvocation`). `StatusInv`
  says that no status but 1 is left before `Finish`, and that `Finish` has the
  whole report written: of nine actions that may end the program only one may
  leave another status. `ConfigInv` says that both commands come to `runChecks`
  only through a function that merged. `ReportInv` says that nothing is out
  before the report is sorted and that it stays sorted; with it every step is a
  step of `Invocation` or a stutter. The prover does not know the definition of
  `Permutations`, so `Sort` says once more, with `Surjection`, that its
  permutation is one, which restricts nothing.
  `SectionsCorrect` (`SectionsComplete`), `DetectionCorrect` (`SteadyDetection`)
  and `BoundCorrect` (`DetectedIsBound`). `Route` says that the list of the root
  command is a tail of its order, that no section in it is reported yet, and
  what has been decided of those that are behind; `RunRoute` says that what is
  left of the files follows what is reported. `Probing` says how far
  `getBinaries` got: nothing it has passed stopped it, and it has found
  something exactly if one of those components has an executable of its own.
  `Detects` puts the two together: what is reported of the master and of etcd is
  what the configuration in force then detects, and which one that is follows
  from whether the master was reported. `TypeCorrect` (`TypeOK`) needs them too:
  that a command never looks for the section at the head of an empty list is no
  matter of types alone.
- **`SectionProofs`.** `DeniedCorrect` (`DeniedEnds`), `SubstitutionCorrect`
  (`Substituted`) and `AuditsCorrect` (`AuditNamesBinary`), for any components,
  candidates, nodes and texts. `Searching` says that nothing the search has
  passed of a list stops it; what is behind it has therefore hidden nothing
  (`DeniedInv`), and is in the maps with exactly the value that the node and
  the configuration give it (`FoundInv`). From there on order does not matter:
  `TextInv` says of each word, whatever turns the components have had, that it
  shows the value in place of the variable that had its turn and is as it was
  otherwise. Under `NoClash` one word shows one variable at most (`OneShows`),
  and a word that has a value in its place shows none (`NoneShows`), so no turn
  undoes another. `SubsInv` counts the substitutions by the components whose
  binary is in the text by now; one substitution is the one of that component.
  The values that are put into the text are one symbol each and do not begin
  with `$`, as paths and names do not (`SetupOK`).

That the loops end is proved too, for every component that has steps, as
`StepsRunOut` of its module: each step brings `Ahead` down, which counts what
is still to be done.

| Module | `Ahead` |
|---|---|
| `PublisherProofs` | a number: the findings that the counter has not passed, and the stages |
| `CheckRunProofs` | a number: the audits, the items and the sources of an item that are left |
| `VersionProofs` | a number: the versions down to the last, the tries of two looks, and the stages; the steps of `Churn` leave it alone |
| `ControlsProofs` | stage, groups, checks of the group at hand |
| `SectionProofs` | stage, kinds, components or turns of the map, candidates |
| `KubeBenchProofs` | stage, sections or results, function of the section at hand, components to probe; the steps of `Churn` leave it alone |

The last three are lists of numbers that go down in the lexicographic order,
since a group that is passed brings a new number of checks. In that order
nothing goes down for ever (`OrderWellFounded` of `ProofLemmas`). It takes the
invariants: that a skipped master takes two sections off the list, for example,
which makes it shorter only because the list is a tail of `RootOrder` (`Route`).
This is the half of liveness that needs no fairness: no component goes round
for ever. The other half, that a component which is not done takes its next
step, is what the temporal properties of `CheckRun` and `Version` say.

Only model-checked is liveness as such (`OnlyAuditsHang`,
`OnlyRequestsHang`): that a step is enabled, and what fairness
makes of it, is beyond the prover. So is deadlock, which TLC looks for in every
run.

## What is not modelled, and why

- *Texts*: reasons, remediations, the layout of stdout, JSON, JUnit and ASFF. No
  property here is about wording. `Outputs` has which checks each output shows
  and what it counts.
- *Values in texts*: regular expressions, jsonpath and the search for a flag in
  a command line (`findValue`). `CheckRun` takes what an item reads in a row.
- *Reading and parsing of yaml*: the models take what was read; a failure is a
  free choice of `Open` and `RunControls`.
- *Splitting of option lists* (`--check`, `--group`, `--skip`, `--targets`) at
  commas.
- *Database settings, packaging, the `version` command*: no state of interest.
- *The data under `cfg/`*: it appears as the constants of the models.

## Plan

Done: all modules of the table above, with proofs of every safety property and
of the bounds on their loops.

Worth doing next:

1. `findValue` with its key, value and path, over small texts, so that what
   `CheckRun` calls *absent* is derived as `Compare` derives *good*.
2. One module that composes `CheckRun`, `Controls` and `KubeBench` on a node that
   changes while the audits run.
