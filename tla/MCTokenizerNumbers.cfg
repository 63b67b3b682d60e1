SPECIFICATION Spec
CONSTANTS
  File <- MCFile
  Texts <- MCDigitTexts
INVARIANT NumbersStandAlone
\* A behaviour ends with the decoded text.
CHECK_DEADLOCK FALSE
