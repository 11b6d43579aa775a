\* One test item of every shape, use_multiple_values, up to two rows; and two
\* test items joined by every bin_op, one row per output.
CONSTANTS
  Checks <- MCChecks
  Outputs <- MCOutputs
  CheckTypes = {"blank"}
  TestsSections = {"items"}
  BinOps = {"and"}
  Multiples = {TRUE, FALSE}
  MaxItems = 2
  MaxRows = 2
  Legible = {"absent", "good", "bad"}
SPECIFICATION Spec
INVARIANTS PassIsEvidenced VerdictExplained
