\* Up to five findings in batches of two: no call, one call, full batches
\* and a last batch that is not full; the service may fail any call and
\* reject any subset of the findings.
SPECIFICATION Spec
CONSTANTS
  BatchSize = 2
  MaxFindings = 5
INVARIANTS
  ErrorIsKept
  NothingLostSilently
  CountsAgree
  EveryBatchIsTried
