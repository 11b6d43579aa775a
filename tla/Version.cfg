\* Every way to come by a benchmark, with routes that open and close while
\* it is looked for, and three tries.
SPECIFICATION FairSpec
CONSTANTS
  Setups <- MCSetups
  Mappings <- MCMappings
  MaxTries = 3
INVARIANTS
  NearestBelow
  EvidenceOrDefault
  ShortOutage
  SteadyMarks
  AnswerHasTargets
PROPERTIES
  OnlyRequestsHang
