CONSTANTS
  p1 = p1
  p2 = p2
  p3 = p3
  p4 = p4
  p5 = p5
  Ptr <- MCPtr
  Sizes <- MCSizes
  BucketSizes <- MCBucketSizes
  MinBucketSize = 2
  MaxBucketSize = 8
  MaxPooledBytes = 11

SPECIFICATION Spec

SYMMETRY MCSymmetry

INVARIANTS
  TypeOK
  Ownership
  BlocksFit
  WithinMark
  BytesAccounted
PROPERTY ImplementsAllocator
