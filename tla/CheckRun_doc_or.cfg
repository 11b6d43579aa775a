\* docs/controls.md: flag, path and env act as OR.
CONSTANTS
  Checks <- MCChecks
  Outputs <- MCOutputs
  CheckTypes = {"blank"}
  TestsSections = {"items"}
  BinOps = {"and"}
  Multiples = {FALSE}
  MaxItems = 1
  MaxRows = 1
  Legible = {"absent", "good", "bad"}
SPECIFICATION Spec
INVARIANT SourcesActAsOr
