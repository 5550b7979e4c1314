--------------------------- MODULE PageAllocator ---------------------------
(***************************************************************************)
(* The binary buddy allocator of physical pages                            *)
(* (src/sys/page_allocator.cpp, page_allocator.hpp), one per NUMA node.    *)
(*                                                                         *)
(* A block of order k is 2^k pages.  The node's free_page_lists hold, for  *)
(* each order, the page each free block is known by; the memory map keeps  *)
(* a usage and an order per page, which Free reads to see whether the      *)
(* buddy of what it frees is free too.  A node's spinlock admits one       *)
(* operation at a time, Alloc from its lists or Free into them, which      *)
(* `op' holds; the steps of the operations of several nodes interleave.    *)
(* The buddy Free merges may be on a list of another node, whose lock it   *)
(* does not have.                                                          *)
(***************************************************************************)
EXTENDS Integers, Sequences, FiniteSets

CONSTANTS
  Nodes,          \* NUMA nodes
  NumPages,       \* pages the memory map describes: 0 .. NumPages-1
  MAX_ORDER,      \* 11 in the code
  Layouts         \* the sets of ranges the early allocator may hand over:
                  \* each a set of [start, end, nid]

Pages == 0 .. NumPages - 1
Orders == 0 .. MAX_ORDER
Usages == {"RESERVED", "PAGE_ALLOCATOR", "IN_USE"}
Blocks == [pfn : Pages, order : Orders]

\* The ranges are not empty, lie in the memory map, each belongs to a node,
\* and no two share a page.
GoodLayout(l) ==
  /\ \A r \in l : /\ r.start \in Pages /\ r.end \in r.start + 1 .. NumPages
                  /\ r.nid \in Nodes
  /\ \A r, s \in l : r # s => r.end <= s.start \/ s.end <= r.start

ASSUME PageAssumption ==
  NumPages \in Nat /\ MAX_ORDER \in Nat /\ \A l \in Layouts : GoodLayout(l)

VARIABLES
  free_page_lists, \* [Nodes -> [Orders -> Seq(Pages)]], push_front is on the left
  usage,           \* [Pages -> Usages]      page::usage
  order,           \* [Pages -> Orders]      page::data.order
  op,              \* [Nodes -> Operations]: what runs under the node's lock
  held,            \* the blocks off the lists, with a caller or an operation
  layout,          \* the ranges Init was given
  raced            \* history: two nodes have met in one node's lists

paVars == <<free_page_lists, usage, order, op, held, layout, raced>>

\* Alloc has taken its block and is to split it down to the order wanted; Free
\* is to test the buddy of its block, to erase it, or to push its own block.
Steps == {"idle", "split", "test", "erase", "push", "abort"}

Operations == [step : Steps, block : [pfn : Nat, order : Nat], want : Nat]

Idle == [step |-> "idle", block |-> [pfn |-> 0, order |-> 0], want |-> 0]

TypeOK ==
  /\ free_page_lists \in [Nodes -> [Orders -> Seq(Pages)]]
  /\ usage \in [Pages -> Usages]
  /\ order \in [Pages -> Orders]
  /\ op \in [Nodes -> Operations]
  /\ held \subseteq Blocks
  /\ GoodLayout(layout)
  /\ raced \in BOOLEAN

-----------------------------------------------------------------------------
(* Arithmetic *)

\* pfn ^ (1 << k)
pfn_to_buddy(pfn, k) ==
  IF (pfn \div 2^k) % 2 = 0 THEN pfn + 2^k ELSE pfn - 2^k

\* 31 - clz(n): the largest k with 2^k <= n.
FloorLog2(n) == CHOOSE k \in 0 .. n : 2^k <= n /\ n < 2^(k + 1)

\* ctz(n), for n > 0: the largest k such that 2^k divides n.
TrailingZeros(n) ==
  CHOOSE k \in 0 .. n : n % 2^k = 0 /\ n % 2^(k + 1) # 0

AlignUp(n, a) == ((n + a - 1) \div a) * a

\* order > MAX_ORDER ? MAX_ORDER : order
Capped(k) == IF k > MAX_ORDER THEN MAX_ORDER ELSE k

\* The point at which the blocks of a range cease to grow: align_up of its
\* start to largest_pow2.
Divide(start, end) == AlignUp(start, 2^FloorLog2(end - start))

\* The order of the block Init frees at pfn, in the first loop and the second.
OrderAt(start, end, pfn) ==
  IF pfn < Divide(start, end) THEN Capped(TrailingZeros(pfn))
                              ELSE Capped(FloorLog2(end - pfn))

\* The blocks the two loops of Init make of one range.
SplitRange(start, end) ==
  LET From[pfn \in start .. end] ==
        IF pfn = end THEN {}
        ELSE LET k == OrderAt(start, end, pfn)
             IN  {[pfn |-> pfn, order |-> k]} \cup From[pfn + 2^k]
  IN  From[start]

-----------------------------------------------------------------------------
(* Init *)

\* The blocks freed early into node n.
BlocksOf(n, l) ==
  UNION {SplitRange(r.start, r.end) : r \in {x \in l : x.nid = n}}

\* release_free_pages walks the ranges upwards, as Init does each range, and
\* push_front makes the last one freed the first of its list: a list begins
\* with the highest of its blocks.
EarlyList(blocks, k) ==
  LET S == {b.pfn : b \in {x \in blocks : x.order = k}}
  IN  [i \in 1 .. Cardinality(S) |->
         CHOOSE p \in S : Cardinality({q \in S : q >= p}) = i]

EarlyBlocks(l) == UNION {BlocksOf(n, l) : n \in Nodes}

EarlyLists(l) ==
  [n \in Nodes |-> [k \in Orders |-> EarlyList(BlocksOf(n, l), k)]]

EarlyUsage(l) ==
  [p \in Pages |-> IF \E b \in EarlyBlocks(l) : b.pfn = p
                   THEN "PAGE_ALLOCATOR" ELSE "RESERVED"]

EarlyOrder(l) ==
  [p \in Pages |-> IF \E b \in EarlyBlocks(l) : b.pfn = p
                   THEN (CHOOSE b \in EarlyBlocks(l) : b.pfn = p).order ELSE 0]

Init ==
  /\ layout \in Layouts
  /\ free_page_lists = EarlyLists(layout)
  /\ usage = EarlyUsage(layout)
  /\ order = EarlyOrder(layout)
  /\ op = [n \in Nodes |-> Idle]
  /\ held = {}
  /\ raced = FALSE

-----------------------------------------------------------------------------
(* Alloc *)

\* Node n's operation, or its want of one, stands at a step.  The model ends
\* with the first race: nothing is defined after it.
OpAt(n, step) == op[n].step = step /\ ~raced

\* Alloc(k, nid) reaches AllocLocal of nid's allocator whichever node calls:
\* under its lock, the front block of the first list, from order k up, that is
\* not empty.  Nothing in the memory map tells yet that it is taken.
Alloc(nid, k) ==
  \E j \in k .. MAX_ORDER :
    LET b == [pfn |-> Head(free_page_lists[nid][j]), order |-> j] IN
    /\ OpAt(nid, "idle")
    /\ free_page_lists[nid][j] # <<>>
    /\ \A i \in k .. (j - 1) : free_page_lists[nid][i] = <<>>
    /\ free_page_lists' = [free_page_lists EXCEPT ![nid][j] = Tail(@)]
    /\ op' = [op EXCEPT ![nid] = [step |-> "split", block |-> b, want |-> k]]
    /\ held' = held \cup {b}
    /\ UNCHANGED <<usage, order, layout, raced>>

\* An AllocLocal that splits one order too few.
SplitOrdersShort(j, k) == (k + 1) .. (j - 1)

\* The orders at which AllocLocal gives half of a block of order j back to
\* serve a request of order k.
SplitOrders(j, k) == k .. (j - 1)

\* The rest of AllocLocal: the buddies on the way down are freed without
\* coalescing, and the page is marked.
SplitTo(nid, fp, j, k) ==
  LET Freed(p) == {i \in SplitOrders(j, k) : pfn_to_buddy(fp, i) = p}
  IN /\ free_page_lists' = [free_page_lists EXCEPT ![nid] =
           [i \in Orders |-> IF i \in SplitOrders(j, k)
                             THEN <<pfn_to_buddy(fp, i)>> \o @[i] ELSE @[i]]]
     /\ usage' = [p \in Pages |-> IF p = fp THEN "IN_USE"
                                  ELSE IF Freed(p) # {} THEN "PAGE_ALLOCATOR"
                                  ELSE usage[p]]
     /\ order' = [p \in Pages |-> IF Freed(p) # {} THEN CHOOSE i \in Freed(p) : TRUE
                                  ELSE order[p]]
     /\ held' = (held \ {[pfn |-> fp, order |-> j]}) \cup {[pfn |-> fp, order |-> k]}

Split(nid) ==
  /\ OpAt(nid, "split")
  /\ SplitTo(nid, op[nid].block.pfn, op[nid].block.order, op[nid].want)
  /\ op' = [op EXCEPT ![nid] = Idle]
  /\ UNCHANGED <<layout, raced>>

-----------------------------------------------------------------------------
(* Free *)

\* Node n's operation has block b in its hands.
Has(n, b) == op[n].step # "idle" /\ op[n].block = b

\* What callers have got from Alloc and not given back.
WithCallers == {b \in held : \A n \in Nodes : ~Has(n, b)}

\* They free what they were given, of the order they asked for, from any node.
Free(n, b) ==
  /\ OpAt(n, "idle")
  /\ b \in WithCallers
  /\ op' = [op EXCEPT ![n] = [step |-> "test", block |-> b, want |-> 0]]
  /\ UNCHANGED <<free_page_lists, usage, order, held, layout, raced>>

\* A Free that does not compare the order of the buddy.
BuddyFreeAnyOrder(pfn, k) ==
  LET buddy == pfn_to_buddy(pfn, k) IN
  /\ buddy \in Pages
  /\ usage[buddy] = "PAGE_ALLOCATOR"

\* The test of Free: the buddy of pfn at order k has a page (pfn_to_page),
\* which is the allocator's and of order k.
BuddyFree(pfn, k) ==
  LET buddy == pfn_to_buddy(pfn, k) IN
  /\ buddy \in Pages
  /\ usage[buddy] = "PAGE_ALLOCATOR"
  /\ order[buddy] = k

\* The head of Free's loop.
Passes(b) == b.order < MAX_ORDER /\ BuddyFree(b.pfn, b.order)

Test(n) ==
  /\ OpAt(n, "test")
  /\ op' = [op EXCEPT ![n].step = IF Passes(op[n].block) THEN "erase" ELSE "push"]
  /\ UNCHANGED <<free_page_lists, usage, order, held, layout, raced>>

On(list, p) == \E i \in 1 .. Len(list) : list[i] = p

\* The list without p, if p is on it.
Without(list, p) ==
  IF \A i \in 1 .. Len(list) : list[i] # p THEN list
  ELSE LET at == CHOOSE i \in 1 .. Len(list) : list[i] = p
       IN  [i \in 1 .. Len(list) - 1 |-> list[IF i < at THEN i ELSE i + 1]]

\* The buddy of b is on node d's list of b's order.
BuddyOn(d, b) == On(free_page_lists[d][b.order], pfn_to_buddy(b.pfn, b.order))

\* Node e is in node d's lists: its own, or that of a buddy it is erasing.
InListsOf(e, d) ==
  IF e = d THEN op[e].step # "idle" ELSE op[e].step = "erase" /\ BuddyOn(d, op[e].block)

\* The buddy n is to erase is on a list that n alone is using: its own, or a
\* list of a node at rest.
Undisturbed(n) ==
  \E d \in Nodes :
    /\ BuddyOn(d, op[n].block)
    /\ d = n \/ \A e \in Nodes \ {n} : ~InListsOf(e, d)

\* An intrusive list's erase unlinks the buddy from the list it is on, be it of
\* this node or of another, and the order is raised; pfn stays as it was, and
\* the merged block is this node's.
Merge(n, b) ==
  LET merged == [pfn |-> b.pfn, order |-> b.order + 1] IN
  /\ free_page_lists' = [d \in Nodes |-> [free_page_lists[d] EXCEPT
                            ![b.order] = Without(@, pfn_to_buddy(b.pfn, b.order))]]
  /\ held' = (held \ {b}) \cup {merged}
  /\ op' = [op EXCEPT ![n] = [step |-> "test", block |-> merged, want |-> 0]]

\* The rest of the loop's body.  If the buddy has left the list since the test,
\* or another node is in that list, what the erase reads and writes is
\* undefined: the links of the list, or what took their place in a page that
\* is in use.  It may go through or fault.
Erase(n) ==
  /\ OpAt(n, "erase")
  /\ \/ Merge(n, op[n].block)
     \/ /\ ~Undisturbed(n)
        /\ op' = [op EXCEPT ![n].step = "abort"]
        /\ UNCHANGED <<free_page_lists, held>>
  /\ raced' = ~Undisturbed(n)
  /\ UNCHANGED <<usage, order, layout>>

\* FreePageNoCoalesce of what has been merged.
Push(n) ==
  LET b == op[n].block IN
  /\ OpAt(n, "push")
  /\ free_page_lists' = [free_page_lists EXCEPT ![n][b.order] = <<b.pfn>> \o @]
  /\ usage' = [usage EXCEPT ![b.pfn] = "PAGE_ALLOCATOR"]
  /\ order' = [order EXCEPT ![b.pfn] = b.order]
  /\ held' = held \ {b}
  /\ op' = [op EXCEPT ![n] = Idle]
  /\ UNCHANGED <<layout, raced>>

Next ==
  \/ \E nid \in Nodes, k \in Orders : Alloc(nid, k)
  \/ \E nid \in Nodes : Split(nid)
  \/ \E n \in Nodes, b \in Blocks : Free(n, b)
  \/ \E n \in Nodes : Test(n) \/ Erase(n) \/ Push(n)

Spec == Init /\ [][Next]_paVars

-----------------------------------------------------------------------------
(* Properties *)

Memory == UNION {r.start .. (r.end - 1) : r \in layout}

\* The aligned block of order k that holds p: what the buddy arithmetic means
\* by "the block of order k at p", p being any page of it.
Extent(p, k) == {q \in Pages : q \div 2^k = p \div 2^k}

FreeEntries ==
  {t \in Nodes \X Orders \X (1 .. NumPages) :
     t[3] <= Len(free_page_lists[t[1]][t[2]])}

Entry(t) == Extent(free_page_lists[t[1]][t[2]][t[3]], t[2])

\* While no two nodes have met in a list, every page of memory is in exactly
\* one block, which is on one list once, with one caller or in the hands of one
\* operation, after every step of every operation: no page is handed out twice,
\* none is lost, and the ranges Init was given are split without gap or overlap
\* (Init, AllocLocal, FreePageNoCoalesce, Free).
PagesPartitioned ==
  ~raced =>
    /\ \A t, u \in FreeEntries : t # u => Entry(t) \cap Entry(u) = {}
    /\ \A a, b \in held :
         a # b => Extent(a.pfn, a.order) \cap Extent(b.pfn, b.order) = {}
    /\ \A t \in FreeEntries, b \in held : Entry(t) \cap Extent(b.pfn, b.order) = {}
    /\ Memory = UNION ({Entry(t) : t \in FreeEntries}
                         \cup {Extent(b.pfn, b.order) : b \in held})
    /\ \A n \in Nodes : op[n].step # "idle" => op[n].block \in held
    /\ \A b \in held, m, n \in Nodes : Has(m, b) /\ Has(n, b) => m = n

\* A block another node's Alloc has taken but not yet marked.
Taking(n, pfn, k) ==
  \E d \in Nodes \ {n} :
    op[d].step = "split" /\ op[d].block = [pfn |-> pfn, order |-> k]

\* Whatever a Free is about to test, if the buddy passes, it is on a list of
\* that order, or on its way out of another node's: marks left in the memory
\* map by blocks that were merged or handed out since never pass.
CoalescesOnlyFreeBlocks ==
  ~raced => \A n \in Nodes :
    LET b == op[n].block IN
    op[n].step = "test" /\ Passes(b) =>
      \/ \E d \in Nodes : BuddyOn(d, b)
      \/ Taking(n, pfn_to_buddy(b.pfn, b.order), b.order)

\* "Buddy is free, remove it from the buddy system" (page_allocator.cpp:125):
\* when Free erases the buddy, it is on a list.
BuddyIsFree ==
  \A n \in Nodes :
    op[n].step = "erase" => \E d \in Nodes : BuddyOn(d, op[n].block)

\* The first page of a block Alloc returns is aligned to the block's size, as
\* memalign asserts of what it gets (newlib.cpp:116) and addr_to_slab_pfn
\* takes for granted.
HeldBlocksAligned == \A b \in WithCallers : b.pfn % 2^b.order = 0
=============================================================================
