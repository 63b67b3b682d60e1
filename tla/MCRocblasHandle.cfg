SPECIFICATION Spec
CONSTANTS
  Threads <- MCThreads
  Devices <- MCDevices
  Streams <- MCStreams
INVARIANT GemmRunsWhereAsked
