\* The root command on ten setups, the run command with six lists of targets
\* on the same benchmarks, and both commands with four ways to write the
\* report and two exit codes, on a node whose three processes start and stop
\* at any time.
SPECIFICATION Spec
CONSTANTS
  Processes = {"apiserver", "etcd", "containerd"}
  Setups <- Everything
INVARIANTS
  TypeOK
  SteadyDetection
  DetectedIsBound
  SectionsComplete
  ConfigInForce
  WrittenInOrder
  ExitCodeTells
PROPERTIES
  ImplementsInvocation
