\* Two nodes: node caches, remote frees, slabs of two objects.
SPECIFICATION FairSpec
CONSTANTS
  c0 = c0
  c1 = c1
  n0 = n0
  n1 = n1
  s0 = s0
  s1 = s1
  None = None
  Cpus = {c0, c1}
  Nodes = {n0, n1}
  NodeOf <- CpuPerNode
  Slabs = {s0, s1}
  NidOf <- SlabPerNode
  CpuSeq <- TwoCpus
  NodeSeq <- TwoNodes
  num_objects = 2
  free_batch = 1
  hiwater = 1
INVARIANTS
  ObjectsPartitioned
  SlabAccounting
  RemoteObjectsGoHome
  WatermarkSetsCheck
  DestructorDrains
PROPERTY FlushingFreeReturns
CHECK_DEADLOCK FALSE
