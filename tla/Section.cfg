\* Two or three components, with and without settings, bins, candidates and
\* defaults, on every node.
SPECIFICATION Spec
CONSTANTS
  Setups <- Sections
  MultiWord <- MCMultiWord
INVARIANTS
  DeniedEnds
  Substituted
  AuditNamesBinary
