SPECIFICATION Spec
CONSTANTS
  Token <- MCToken
  Junk = 0
  Buf <- MCBuf
  NoBuf <- MCNoBuf
  NumLayers = 2
  LinearLayers <- MCLinearLayers
  Capacities <- MCCapacities
  Inputs <- MCInputs
  ConvDType = "BF16"
INVARIANTS
  CheckpointCanBeRestored
