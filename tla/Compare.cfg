\* Every operation on every pair of short texts.
SPECIFICATION Spec
CONSTANTS
  Symbols <- MCSymbols
  Comparisons <- MCComparisons
INVARIANTS
  MoreRestrictive
  Complementary
  ValidElementsAreIncluded
