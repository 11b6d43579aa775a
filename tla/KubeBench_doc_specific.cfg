\* docs/controls.md:276 against isMaster, which asks before loadConfig merges.
SPECIFICATION Spec
CONSTANTS
  Processes = {"apiserver", "etcd", "containerd"}
  Setups <- Detecting
INVARIANTS
  SpecificConfigDetects
