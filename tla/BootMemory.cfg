\* Eleven pages of two units, one or two nodes; whatever is left of them after
\* the start is the page allocators'.
SPECIFICATION BootSpec
CONSTANTS
  Nodes = {0, 1}
  NumPages = 12
  MAX_ORDER = 2
  Layouts = {}
  PAGE_SIZE = 2
  ANY_NID = 256
  PAGES_PER_SECTION = 6
  section_map_pages = 1
  TransPages = 1
  MaxTables = 2
  Machines <- AllMachines
INVARIANTS
  PagesPartitioned
  
  EarlyPagesDisjoint
  NoPageLost
  NodesOwnTheirPages
CHECK_DEADLOCK FALSE
