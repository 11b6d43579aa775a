\* The comment at publisher.go:46 against the loop below it.
SPECIFICATION Spec
CONSTANTS
  BatchSize = 2
  MaxFindings = 3
INVARIANT SentInBatches
