------------------------- MODULE EarlyPageAllocator -------------------------
(***************************************************************************)
(* Memory before the page allocator: the tree of free page ranges          *)
(* (src/sys/early_page_allocator.cpp) and the steps of kmain that fill it  *)
(* and take from it, on the boot core alone: the usable regions of the     *)
(* firmware's map below and above the part boot.S maps (main.cpp), the     *)
(* tables of early_map_memory, numa_init, mem_map_init and trans_init.     *)
(*                                                                         *)
(* Addresses count units of which PAGE_SIZE make a page.  How many tables  *)
(* a mapping needs depends on the tables there are, and is left open.      *)
(***************************************************************************)
EXTENDS Integers, FiniteSets

CONSTANTS
  PAGE_SIZE,
  ANY_NID,            \* a range of no node yet
  PAGES_PER_SECTION,
  section_map_pages,  \* pages of the memory map of one section
  TransPages,         \* the translation page and its tables: 4 in the code
  MaxTables,          \* bound: pages early_map_memory takes for tables
  Machines            \* what the firmware may say: see EarlyAssumption

pfn_up(addr) == (addr + PAGE_SIZE - 1) \div PAGE_SIZE
pfn_down(addr) == addr \div PAGE_SIZE

\* Where the part of region x that is freed first begins, and where it ends:
\* at the part boot.S has not mapped, if it begins before that.
FreedFrom(m, x) == IF x.addr < m.kend THEN m.kend ELSE x.addr
FreedTo(m, x) ==
  LET end == x.addr + x.length
  IN IF x.addr < m.initial_map_end /\ end > m.initial_map_end
     THEN m.initial_map_end ELSE end

\* The kernel lies in what boot.S has mapped.  The firmware's usable regions
\* do not overlap, and none has a part that begins within a page and ends
\* less than the distance to the next page after that page: for such a part
\* early_free_memory_range computes an end below the start.  Each usable page
\* is in one memory block of a node.
ASSUME EarlyAssumption ==
  /\ PAGE_SIZE \in Nat \ {0} /\ PAGES_PER_SECTION \in Nat \ {0}
  /\ section_map_pages \in Nat \ {0} /\ TransPages \in Nat /\ MaxTables \in Nat
  /\ \A m \in Machines :
       /\ DOMAIN m = {"e820", "kend", "initial_map_end", "memblocks", "my_node"}
       /\ m.kend \in Nat /\ m.initial_map_end \in Nat /\ m.kend <= m.initial_map_end
       /\ m.initial_map_end % PAGE_SIZE = 0
       /\ IsFiniteSet(m.memblocks)
       /\ \A b \in m.memblocks : /\ b \in [start : Nat, end : Nat, nid : Nat]
                                 /\ b.start < b.end
       /\ \A x \in m.e820 :
            /\ x \in [addr : Nat, length : Nat]
            /\ \A y \in m.e820 : x # y => x.addr + x.length <= y.addr
                                            \/ y.addr + y.length <= x.addr
            /\ x.addr + x.length > m.kend =>
                 LET length == FreedTo(m, x) - FreedFrom(m, x)
                     diff == pfn_up(FreedFrom(m, x)) * PAGE_SIZE - FreedFrom(m, x)
                 IN  length < diff \/ 2 * diff <= length
            /\ \A p \in (x.addr \div PAGE_SIZE)
                          .. ((x.addr + x.length - 1) \div PAGE_SIZE) :
                 Cardinality({b \in m.memblocks : p \in b.start .. (b.end - 1)}) = 1

VARIABLES
  machine,            \* the machine; never changes
  at,                 \* where kmain is
  todo,               \* what the loop it is in has still to visit
  count,              \* pages taken for tables or for the translation
  free_pages,         \* the tree: a set of [start, npages, nid]
  taken               \* the pages early_allocate_page has given out

earlyVars == <<machine, at, todo, count, free_pages, taken>>

Places == {"low", "map", "high", "acpi", "numa", "mem_map", "trans", "release",
           "up", "aborted"}

EarlyTypeOK ==
  /\ machine \in Machines
  /\ at \in Places
  /\ count \in 0 .. (MaxTables + TransPages)
  /\ \A r \in free_pages : r.start \in Nat /\ r.npages \in Nat \ {0}
  /\ taken \subseteq Nat

EarlyInit ==
  /\ machine \in Machines
  /\ at = "low"
  /\ todo = machine.e820
  /\ count = 0
  /\ free_pages = {}
  /\ taken = {}

-----------------------------------------------------------------------------
(* The tree *)

page_range(start, npages, nid) ==
  [start |-> start, npages |-> npages, nid |-> nid]
End(r) == r.start + r.npages
Lowest(R) == CHOOSE r \in R : \A q \in R : r.start <= q.start
Highest(R) == CHOOSE r \in R : \A q \in R : r.start >= q.start

\* A coalesce that does not look whether the ranges meet.
coalesceAlways(a, b) ==
  {page_range(a.start, a.npages + b.npages, a.nid)}

\* coalesce(a, b): the ranges that stay, one if they meet.
coalesce(a, b) ==
  IF End(a) # b.start THEN {a, b}
  ELSE {page_range(a.start, a.npages + b.npages, a.nid)}

\* free_page_range: the tree with a range inserted and coalesced with the one
\* before it, then with the one after it.
WithRange(start, end, nid) ==
  LET new == page_range(start, end - start, nid)
      below == {r \in free_pages : r.start < start}
      above == {r \in free_pages : r.start > start}
      lower == IF below = {} THEN {new} ELSE coalesce(Highest(below), new)
      it == Highest(lower)
      upper == IF above = {} THEN {it} ELSE coalesce(it, Lowest(above))
  IN {r \in below : \E q \in below : q.start > r.start}
       \cup {r \in above : \E q \in above : q.start < r.start}
       \cup (lower \ {it}) \cup upper

\* early_free_memory_range: diff is taken off at both ends.
EarlyFreeMemoryRange(begin, length) ==
  LET pfn_start == pfn_up(begin)
      diff == pfn_start * PAGE_SIZE - begin
      pfn_end == pfn_down(begin + length - diff)
  IN IF diff > length \/ pfn_end = pfn_start
     THEN UNCHANGED free_pages
     ELSE free_pages' = WithRange(pfn_start, pfn_end, ANY_NID)

\* The ranges early_allocate_page(npages, nid) does not pass over.
Candidates(npages, nid) ==
  {r \in free_pages : (nid = ANY_NID \/ r.nid = nid) /\ r.npages >= npages}

\* What remains of the range the pages are taken from the end of.
Shrunk(r, npages) ==
  IF r.npages = npages THEN {}
  ELSE {page_range(r.start, r.npages - npages, r.nid)}

\* early_allocate_page, going on at `next'; without a candidate it aborts.
EarlyAllocatePage(npages, nid, next) ==
  LET R == Candidates(npages, nid)
      r == Lowest(R)
  IN \/ /\ R # {}
        /\ free_pages' = (free_pages \ {r}) \cup Shrunk(r, npages)
        /\ taken' = taken \cup ((End(r) - npages) .. (End(r) - 1))
        /\ at' = next
     \/ /\ R = {}
        /\ at' = "aborted"
        /\ UNCHANGED <<free_pages, taken>>

\* An early_set_nid_range that cuts off what straddles above.
SplitAtShort(r, start, end, nid) ==
  IF End(r) <= start \/ r.start >= end THEN {r}
  ELSE IF r.start < start
  THEN LET new_end == IF End(r) < end THEN End(r) ELSE end
       IN {page_range(r.start, start - r.start, r.nid),
           page_range(start, new_end - start, nid)}
  ELSE LET new_end == IF End(r) < end THEN End(r) ELSE end
       IN {page_range(r.start, new_end - r.start, nid)}

\* An early_set_nid_range without the case that straddles below.
SplitAtWhole(r, start, end, nid) ==
  IF End(r) <= start \/ r.start >= end THEN {r}
  ELSE IF End(r) > end
  THEN {page_range(r.start, end - r.start, nid),
        page_range(end, End(r) - end, ANY_NID)}
  ELSE {[r EXCEPT !.nid = nid]}

\* What early_set_nid_range makes of one range.  Of a range that straddles
\* below, what lies beyond the end is in neither part.
SplitAt(r, start, end, nid) ==
  IF End(r) <= start \/ r.start >= end THEN {r}
  ELSE IF r.start < start
  THEN LET new_end == IF End(r) < end THEN End(r) ELSE end
       IN {page_range(r.start, start - r.start, r.nid),
           page_range(start, new_end - start, nid)}
  ELSE IF End(r) > end
  THEN {page_range(r.start, end - r.start, nid),
        page_range(end, End(r) - end, ANY_NID)}
  ELSE {[r EXCEPT !.nid = nid]}

-----------------------------------------------------------------------------
(* kmain *)

\* e820_map is sorted, and visited in that order.
FirstEntry == CHOOSE x \in todo : \A y \in todo : x.addr <= y.addr

trim_below(x, new_addr) ==
  IF x.addr > new_addr \/ x.addr + x.length < new_addr THEN x
  ELSE [x EXCEPT !.length = @ - (new_addr - x.addr), !.addr = new_addr]

trim_above(x, new_addr) ==
  IF x.addr > new_addr \/ x.addr + x.length < new_addr THEN x
  ELSE [x EXCEPT !.length = new_addr - x.addr]

\* The first loop: the part of a region that boot.S has mapped is freed, and
\* the region is mapped.
FreeLow ==
  /\ at = "low"
  /\ todo # {}
  /\ LET x == FirstEntry
         y == trim_above(trim_below(x, machine.kend), machine.initial_map_end)
     IN /\ IF x.addr + x.length <= machine.kend
           THEN at' = "low" /\ UNCHANGED free_pages
           ELSE /\ at' = "map"
                /\ IF y.addr < machine.initial_map_end
                   THEN EarlyFreeMemoryRange(y.addr, y.length)
                   ELSE UNCHANGED free_pages
        /\ todo' = todo \ {x}
  /\ UNCHANGED <<machine, count, taken>>

\* early_map_memory takes a page for a table, here or for an ACPI table.
MapTable ==
  /\ at \in {"map", "acpi"}
  /\ count < MaxTables
  /\ EarlyAllocatePage(1, ANY_NID, at)
  /\ count' = count + 1
  /\ UNCHANGED <<machine, todo>>

MapDone ==
  /\ at = "map"
  /\ at' = "low"
  /\ UNCHANGED <<machine, todo, count, free_pages, taken>>

\* enable_runtime_page_table: all regions are mapped.
LowDone ==
  /\ at = "low"
  /\ todo = {}
  /\ at' = "high"
  /\ todo' = machine.e820
  /\ UNCHANGED <<machine, count, free_pages, taken>>

\* The second loop.
FreeHigh ==
  /\ at = "high"
  /\ todo # {}
  /\ LET x == FirstEntry
         y == trim_below(x, machine.initial_map_end)
     IN /\ IF x.addr + x.length < machine.initial_map_end
           THEN UNCHANGED free_pages
           ELSE EarlyFreeMemoryRange(y.addr, y.length)
        /\ todo' = todo \ {x}
  /\ UNCHANGED <<machine, at, count, taken>>

HighDone ==
  /\ at = "high"
  /\ todo = {}
  /\ at' = "acpi"
  /\ UNCHANGED <<machine, todo, count, free_pages, taken>>

\* acpi_boot_init has found the memory blocks of the nodes.
AcpiDone ==
  /\ at = "acpi"
  /\ at' = "numa"
  /\ todo' = machine.memblocks
  /\ UNCHANGED <<machine, count, free_pages, taken>>

\* Node by node, and by address within a node.
FirstBlock(B) ==
  CHOOSE b \in B : \A c \in B : b.nid < c.nid \/ (b.nid = c.nid /\ b.start <= c.start)

\* numa_init: early_set_nid_range for a block.
NumaInit ==
  /\ at = "numa"
  /\ todo # {}
  /\ LET b == FirstBlock(todo)
     IN /\ free_pages' = UNION {SplitAt(r, b.start, b.end, b.nid) : r \in free_pages}
        /\ todo' = todo \ {b}
  /\ UNCHANGED <<machine, at, count, taken>>

Touching(k) ==
  {b \in machine.memblocks :
     k \in (b.start \div PAGES_PER_SECTION) .. ((b.end - 1) \div PAGES_PER_SECTION)}

PresentSections ==
  UNION {(b.start \div PAGES_PER_SECTION) .. ((b.end - 1) \div PAGES_PER_SECTION)
           : b \in machine.memblocks}

\* The first loop of mem_map_init marks the sections.
NumaDone ==
  /\ at = "numa"
  /\ todo = {}
  /\ at' = "mem_map"
  /\ todo' = PresentSections
  /\ UNCHANGED <<machine, count, free_pages, taken>>

\* The second one: each section's map, on the node of the first block that
\* touches the section.
MemMapInit ==
  /\ at = "mem_map"
  /\ todo # {}
  /\ LET k == CHOOSE i \in todo : \A j \in todo : i <= j
     IN /\ EarlyAllocatePage(section_map_pages, FirstBlock(Touching(k)).nid, at)
        /\ todo' = todo \ {k}
  /\ UNCHANGED <<machine, count>>

MemMapDone ==
  /\ at = "mem_map"
  /\ todo = {}
  /\ at' = "trans"
  /\ count' = 0
  /\ UNCHANGED <<machine, todo, free_pages, taken>>

\* trans_init: the page and the tables of the translation entries.
TransInit ==
  /\ at = "trans"
  /\ count < TransPages
  /\ EarlyAllocatePage(1, machine.my_node, at)
  /\ count' = count + 1
  /\ UNCHANGED <<machine, todo>>

TransDone ==
  /\ at = "trans"
  /\ count = TransPages
  /\ at' = "release"
  /\ UNCHANGED <<machine, todo, count, free_pages, taken>>

EarlyNext ==
  \/ FreeLow \/ MapTable \/ MapDone \/ LowDone \/ FreeHigh \/ HighDone
  \/ AcpiDone \/ NumaInit \/ NumaDone \/ MemMapInit \/ MemMapDone
  \/ TransInit \/ TransDone

-----------------------------------------------------------------------------
(* Properties *)

\* The pages that lie wholly in a usable region and above the kernel.
Usable ==
  UNION {{p \in pfn_down(x.addr) .. pfn_down(x.addr + x.length) :
            /\ machine.kend <= p * PAGE_SIZE
            /\ x.addr <= p * PAGE_SIZE
            /\ (p + 1) * PAGE_SIZE <= x.addr + x.length} : x \in machine.e820}

PagesIn(r) == r.start .. (End(r) - 1)
FreePages == UNION {PagesIn(r) : r \in free_pages}

\* Nodes are numbered in the order of their memory.  In another order a
\* range may contain a whole block, and the part above it is dropped.
InOrder ==
  \A b, c \in machine.memblocks : b.start < c.start => b.nid <= c.nid

\* The last page of each part that begins within a page.
LastPages ==
  {pfn_down(FreedTo(machine, x)) - 1 : x \in
     {y \in machine.e820 : y.addr % PAGE_SIZE # 0
                             \/ (y.addr < machine.kend /\ machine.kend % PAGE_SIZE # 0)}}

\* Once all regions are freed no usable page is forgotten: coalescing and the
\* splits of early_set_nid_range keep every page, except the last one of a
\* region that begins within a page (early_page_allocator.cpp:47), where the
\* nodes are numbered in the order of their memory.
NoPageLost ==
  at \in {"acpi", "numa", "mem_map", "trans", "release"} /\ InOrder =>
    Usable \ LastPages \subseteq FreePages \cup taken

\* After numa_init every free range lies in the memory of its node, so each
\* node's allocator is given that node's pages (early_set_nid_range).
NodesOwnTheirPages ==
  at \in {"mem_map", "trans", "release"} =>
    \A r \in free_pages : \A p \in PagesIn(r) :
      \E b \in machine.memblocks : b.nid = r.nid /\ p \in b.start .. (b.end - 1)
=============================================================================
