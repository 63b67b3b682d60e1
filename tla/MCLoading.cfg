SPECIFICATION Spec
CONSTANTS
  Directory <- MCDirectory
  Content <- MCContent
  NoDirectory = "none"
  Machine <- MCMachine
  Options <- MCOptions
  DefaultConfig <- MCDefaultConfig
  MaxCalls = 3
  MaxInt32 = 100
  MaxLayers = 64
  Word = 1000
CHECK_DEADLOCK FALSE
INVARIANTS
  TypeOK
  WeightsAreWhole
  OkMeansCoherent
  BytesPlannedOnce
  FirstCallIsExact
