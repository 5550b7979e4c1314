----------------------------- MODULE BootMemory -----------------------------
(***************************************************************************)
(* The physical memory of the machine from the firmware's map on: kmain    *)
(* with the early allocator, the hand-over of its ranges to the page       *)
(* allocators of the nodes (PageAllocator::Init), and their life after it. *)
(***************************************************************************)
EXTENDS EarlyPageAllocator, PageAllocator

\* The memory map has a page for each page of the memory blocks, and each
\* block's node has its allocator.
ASSUME BootAssumption ==
  \A m \in Machines : \A b \in m.memblocks : b.nid \in Nodes /\ b.end <= NumPages

memVars == <<earlyVars, paVars>>

BootInit ==
  /\ EarlyInit
  /\ free_page_lists = [n \in Nodes |-> [k \in Orders |-> <<>>]]
  /\ usage = [p \in Pages |-> "RESERVED"]
  /\ order = [p \in Pages |-> 0]
  /\ op = [n \in Nodes |-> Idle]
  /\ held = {}
  /\ layout = {}
  /\ raced = FALSE

\* PageAllocator::Init: release_free_pages passes on every range and clears
\* the tree.
PageAllocatorInit ==
  /\ at = "release"
  /\ layout' = {[start |-> r.start, end |-> End(r), nid |-> r.nid] : r \in free_pages}
  /\ free_page_lists' = EarlyLists(layout')
  /\ usage' = EarlyUsage(layout')
  /\ order' = EarlyOrder(layout')
  /\ free_pages' = {}
  /\ at' = "up"
  /\ UNCHANGED <<machine, todo, count, taken, op, held, raced>>

BootNext ==
  \/ EarlyNext /\ UNCHANGED paVars
  \/ PageAllocatorInit
  \/ at = "up" /\ Next /\ UNCHANGED earlyVars

BootSpec == BootInit /\ [][BootNext]_memVars

-----------------------------------------------------------------------------
(* Properties *)

BootTypeOK == EarlyTypeOK /\ TypeOK

\* The free ranges are disjoint, lie in usable memory above the kernel, and
\* contain no page that was given out.
EarlyRangesDisjoint ==
  /\ \A r, s \in free_pages : r # s => PagesIn(r) \cap PagesIn(s) = {}
  /\ FreePages \cup taken \subseteq Usable
  /\ FreePages \cap taken = {}

\* No page has two users from the firmware's map on: the free ranges are
\* disjoint, lie in usable memory above the kernel, and neither they nor,
\* later and until two nodes meet in a list, a block of the page allocators
\* contains a page that was given out early for page tables, the memory map or
\* the translation.
EarlyPagesDisjoint ==
  /\ BootTypeOK
  /\ EarlyRangesDisjoint
  /\ ~raced => /\ \A t \in FreeEntries : Entry(t) \cap taken = {}
               /\ \A b \in held : Extent(b.pfn, b.order) \cap taken = {}
=============================================================================
