SPECIFICATION Spec
CONSTANTS
  c0 = c0  c1 = c1  n0 = n0  n1 = n1  b0 = b0  b1 = b1
  Cpus = {c0, c1}
  Nodes = {n0, n1}
  NodeOf <- OneNode
  Boot = c0
  SizeOf <- Sizes
  AlignOf <- Aligns
  Classes <- SmallAndPage
  ClassRoots <- SmallAndPageRoots
  UserRoots = {"user"}
  UserSizes <- Boundaries
  GpSizes = {65, 4097}
  Blocks = {b0, b1}
  Static = Static
  None = None
SYMMETRY BlockSymmetry
INVARIANTS
  NodeAllocatorsSound
  ObjectsLargeEnough
  RootConstantsFit
CHECK_DEADLOCK FALSE
