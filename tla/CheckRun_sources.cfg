\* One test item of every shape, one row per output: which source decides.
CONSTANTS
  Checks <- MCChecks
  Outputs <- MCOutputs
  CheckTypes = {"blank", "skip", "manual", "other"}
  TestsSections = {"nil", "empty", "items"}
  BinOps = {"and", ""}
  Multiples = {FALSE}
  MaxItems = 1
  MaxRows = 1
  Legible = {"absent", "good", "bad", "error"}
SPECIFICATION FairSpec
INVARIANTS TypeOK PlainItemsDecide PassNeedsAudits
PROPERTIES ImplementsVerdict OnlyAuditsHang
