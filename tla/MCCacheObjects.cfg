SPECIFICATION Spec
CONSTANTS
  Token <- MCToken
  Junk = 0
  Buf <- MCBuf
  NoBuf <- MCNoBuf
  NumLayers = 2
  LinearLayers <- MCLinearLayers
  Capacities <- MCCapacities
  Inputs <- MCInputs
  ConvDType = "FP32"
INVARIANTS
  TypeOK
  IndependentStorage
  StorageBound
  LayersInStep
  ScratchFollowsPhase
PROPERTIES
  ScratchWorkIsIsolated
  RefinesCacheValues
