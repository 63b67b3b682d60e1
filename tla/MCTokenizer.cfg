SPECIFICATION Spec
CONSTANTS
  File <- MCFile
  Texts <- MCTexts
INVARIANTS
  PiecesMatchRegex
  WordsMatchRankSweep
  AddedTokensAreAtomic
  TextComesBack
\* A behaviour ends with the decoded text.
CHECK_DEADLOCK FALSE
