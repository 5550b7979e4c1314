\* Three cores with a stack each, or two cores and three stacks.  A fourth
\* stack finds no space.
SPECIFICATION FairSpec
CONSTANTS
  b0 = b0
  a1 = a1
  a2 = a2
  None = None
  Cores = {b0, a1, a2}
  Boot = b0
  CpuSets <- OneOrTwoOthers
  NumVPages = 7
  STACK_NPAGES = 2
  Bars = {msix1}
  BarPages = 1
INVARIANTS
  RegionsTile
  StackPagesAgree
  BootStacksDistinct
  OwnRepresentative
  BarrierHolds
PROPERTIES
  MappingsStay
  AllCoresUp
CHECK_DEADLOCK FALSE
