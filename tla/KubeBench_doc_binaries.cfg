\* docs/controls.md:311 against runChecks.
SPECIFICATION Spec
CONSTANTS
  Processes = {"apiserver", "etcd", "containerd"}
  Setups <- Detecting
INVARIANTS
  TerminatesWithoutBinaries
