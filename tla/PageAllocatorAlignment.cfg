\* Is a block that Alloc returns aligned to its size?
SPECIFICATION Spec
CONSTANTS
  Nodes = {0}
  NumPages = 7
  MAX_ORDER = 2
  Layouts <- AllRanges
INVARIANT HeldBlocksAligned
