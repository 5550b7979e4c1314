\* Two cpus of one node: does Alloc return?
SPECIFICATION FairSpec
CONSTANTS
  c0 = c0
  c1 = c1
  n0 = n0
  n1 = n1
  s0 = s0
  s1 = s1
  None = None
  Cpus = {c0, c1}
  Nodes = {n0}
  NodeOf <- SameNode
  Slabs = {s0, s1}
  NidOf <- SlabsOneNode
  CpuSeq <- TwoCpus
  NodeSeq <- OneNode
  num_objects = 2
  free_batch = 1
  hiwater = 1
PROPERTY AllocReturnsAtLast
\* A destroyed root is used no more.
CHECK_DEADLOCK FALSE
