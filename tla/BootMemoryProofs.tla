-------------------------- MODULE BootMemoryProofs --------------------------
(***************************************************************************)
(* What becomes of the machine's memory before the page allocators have    *)
(* it, for every map the firmware may give: no page is free twice or free  *)
(* and in use, none is forgotten but the ones NoPageLost names, and after  *)
(* numa_init every free range lies in the memory of its node.              *)
(*                                                                         *)
(* The invariant relates the tree of free ranges to the entries the loops  *)
(* of kmain and numa_init have visited.                                    *)
(***************************************************************************)
EXTENDS BootMemory, PageAllocatorProofs

Addr(p) == p * PAGE_SIZE

Nids == {ANY_NID} \cup {b.nid : b \in machine.memblocks}
Ranges == [start : Nat, npages : Nat \ {0}, nid : Nids]

\* Page p lies wholly in region x and above the kernel.
Holds(x, p) ==
  /\ p \in Nat
  /\ machine.kend <= Addr(p) /\ x.addr <= Addr(p)
  /\ Addr(p) + PAGE_SIZE <= x.addr + x.length

\* It is in the part that boot.S has mapped.
Low(p) == Addr(p) + PAGE_SIZE <= machine.initial_map_end

\* The loops of kmain have come to page p of region x.
Visited(x, p) ==
  /\ at \in {"low", "map"} => x \notin todo /\ Low(p)
  /\ at = "high" => x \notin todo \/ Low(p)

InBlock(p, b) == b.start <= p /\ p < b.end

ControlInv ==
  /\ machine \in Machines /\ at \in Places
  /\ at \in {"low", "map", "high"} => todo \subseteq machine.e820
  /\ at = "numa" => todo \subseteq machine.memblocks
  /\ count \in Nat /\ count <= MaxTables + TransPages

RangesInv ==
  /\ free_pages \subseteq Ranges /\ taken \subseteq Nat
  /\ \A r, s \in free_pages : \A p \in PagesIn(r) : p \in PagesIn(s) => r = s
  /\ \A r \in free_pages : \A p \in PagesIn(r) : p \notin taken

\* Nothing is free or taken that is not in a region and visited.
PlacedInv ==
  \A p \in FreePages \cup taken :
    \E x \in machine.e820 : Holds(x, p) /\ Visited(x, p)

\* What has been visited is free or taken, but for the known losses.
FoundInv ==
  at \notin {"up", "aborted"} /\ InOrder =>
    \A x \in machine.e820 : \A p \in pfn_down(x.addr) .. pfn_down(x.addr + x.length) :
      Holds(x, p) /\ Visited(x, p) /\ p \notin LastPages => p \in FreePages \cup taken

\* A free range lies in a block that numa_init has visited, and is of its
\* node, or has nothing in common with it.
OwnInv ==
  at \in {"numa", "mem_map", "trans", "release"} =>
    \A b \in machine.memblocks : (at = "numa" => b \notin todo) =>
      \A r \in free_pages :
        \/ \A p \in PagesIn(r) : ~InBlock(p, b)
        \/ r.nid = b.nid /\ \A p \in PagesIn(r) : InBlock(p, b)

EarlyInv == ControlInv /\ RangesInv /\ PlacedInv /\ FoundInv /\ OwnInv

-----------------------------------------------------------------------------
(* Pages and addresses *)

\* The address of a page.
LEMMA AddrFacts ==
  /\ PAGE_SIZE \in Nat /\ PAGE_SIZE > 0
  /\ \A p \in Int : Addr(p) \in Int /\ Addr(p + 1) = Addr(p) + PAGE_SIZE
  /\ \A p \in Nat : Addr(p) \in Nat
  /\ \A p, q \in Int : p < q => Addr(p) + PAGE_SIZE <= Addr(q)
<1>1. PAGE_SIZE \in Nat /\ PAGE_SIZE > 0
  BY EarlyAssumption
<1>2. \A p \in Int : Addr(p) \in Int /\ Addr(p + 1) = Addr(p) + PAGE_SIZE
  BY <1>1 DEF Addr
<1>3. \A p \in Nat : Addr(p) \in Nat
  BY <1>1 DEF Addr
<1>4. ASSUME NEW p \in Int, NEW q \in Int, p < q PROVE Addr(p) + PAGE_SIZE <= Addr(q)
  <2>1. q - p - 1 \in Nat
    BY <1>4
  <2>2. (q - p - 1) * PAGE_SIZE \in Nat
    BY <1>1, <2>1
  <2>3. Addr(q) = Addr(p) + PAGE_SIZE + (q - p - 1) * PAGE_SIZE
    BY <1>1 DEF Addr
  <2>4. PICK d : d = (q - p - 1) * PAGE_SIZE
    OBVIOUS
  <2>5. d \in Nat /\ Addr(q) = Addr(p) + PAGE_SIZE + d /\ Addr(p) \in Int
    BY <1>2, <2>2, <2>3, <2>4
  <2> QED BY <1>1, <2>5
<1> QED BY <1>1, <1>2, <1>3, <1>4

\* Pages in the order of their addresses.
LEMMA AddrOrder ==
  ASSUME NEW p \in Int, NEW q \in Int
  PROVE  /\ Addr(p) < Addr(q) + PAGE_SIZE => p <= q
         /\ p <= q => Addr(p) <= Addr(q)
<1>1. PAGE_SIZE \in Nat /\ PAGE_SIZE > 0 /\ Addr(p) \in Int /\ Addr(q) \in Int
  BY AddrFacts
<1>2. q < p => Addr(q) + PAGE_SIZE <= Addr(p)
  BY AddrFacts
<1>3. p < q => Addr(p) + PAGE_SIZE <= Addr(q)
  BY AddrFacts
<1> QED BY <1>1, <1>2, <1>3

\* pfn_up and pfn_down round to the page.
LEMMA PfnFacts ==
  ASSUME NEW a \in Nat
  PROVE  /\ pfn_up(a) \in Nat /\ a <= Addr(pfn_up(a)) /\ Addr(pfn_up(a)) < a + PAGE_SIZE
         /\ pfn_down(a) \in Nat /\ Addr(pfn_down(a)) <= a
         /\ a < Addr(pfn_down(a)) + PAGE_SIZE
<1>1. PAGE_SIZE \in Nat \ {0}
  BY EarlyAssumption
<1> DEFINE P == PAGE_SIZE
<1>2. ASSUME NEW v \in Nat PROVE /\ v \div P \in Nat /\ (v \div P) * P <= v
                                 /\ v < (v \div P) * P + P
  BY <1>1
<1>3. a + P - 1 \in Nat
  BY <1>1
<1>4. /\ pfn_up(a) \in Nat /\ Addr(pfn_up(a)) <= a + P - 1
      /\ a + P - 1 < Addr(pfn_up(a)) + P
  BY <1>2, <1>3 DEF pfn_up, Addr
<1>5. pfn_down(a) \in Nat /\ Addr(pfn_down(a)) <= a /\ a < Addr(pfn_down(a)) + P
  BY <1>2 DEF pfn_down, Addr
<1>6. Addr(pfn_up(a)) \in Nat
  BY <1>4, AddrFacts
<1> QED BY <1>1, <1>4, <1>5, <1>6

\* An address at a page boundary.
LEMMA Aligned ==
  ASSUME NEW a \in Nat, a % PAGE_SIZE = 0
  PROVE  Addr(pfn_down(a)) = a /\ pfn_up(a) = pfn_down(a)
<1>1. PAGE_SIZE \in Nat \ {0}
  BY EarlyAssumption
<1>2. a = PAGE_SIZE * (a \div PAGE_SIZE) + (a % PAGE_SIZE)
  BY <1>1
<1>3. pfn_down(a) \in Nat /\ pfn_up(a) \in Nat
  BY PfnFacts
<1>4. Addr(pfn_down(a)) = a
  BY <1>1, <1>2, <1>3 DEF Addr, pfn_down
<1>5. Addr(pfn_up(a)) < Addr(pfn_down(a)) + PAGE_SIZE
      /\ Addr(pfn_down(a)) <= Addr(pfn_up(a))
  BY <1>4, PfnFacts
<1>6. pfn_up(a) <= pfn_down(a)
  BY <1>3, <1>5, AddrOrder
<1>7. Addr(pfn_down(a)) < Addr(pfn_up(a)) + PAGE_SIZE
  <2>1. Addr(pfn_down(a)) \in Int /\ Addr(pfn_up(a)) \in Int
    BY <1>3, AddrFacts
  <2> QED BY <1>1, <1>5, <2>1
<1>8. pfn_down(a) <= pfn_up(a)
  BY <1>3, <1>7, AddrOrder
<1> QED BY <1>3, <1>4, <1>6, <1>8

-----------------------------------------------------------------------------
(* The machine *)

\* What the firmware is assumed to say, piece by piece.
LEMMA MachineFacts ==
  ASSUME machine \in Machines
  PROVE  /\ machine.kend \in Nat /\ machine.initial_map_end \in Nat
         /\ machine.kend <= machine.initial_map_end
         /\ machine.initial_map_end % PAGE_SIZE = 0
         /\ \A b \in machine.memblocks :
              b.start \in Nat /\ b.end \in Nat /\ b.start < b.end /\ b.nid \in Nat
         /\ \A x \in machine.e820 : x.addr \in Nat /\ x.length \in Nat
         /\ \A x \in machine.e820 : x \in [addr : Nat, length : Nat]
         /\ \A x, y \in machine.e820 :
              x # y => x.addr + x.length <= y.addr \/ y.addr + y.length <= x.addr
BY EarlyAssumption

\* A page is in one region at most.
LEMMA OneRegion ==
  ASSUME machine \in Machines, NEW x \in machine.e820, NEW y \in machine.e820,
         NEW p \in Nat, Holds(x, p), Holds(y, p)
  PROVE  x = y
<1>1. Addr(p) \in Nat /\ PAGE_SIZE \in Nat /\ PAGE_SIZE > 0
  BY AddrFacts
<1>2. x.addr \in Nat /\ x.length \in Nat /\ y.addr \in Nat /\ y.length \in Nat
  BY MachineFacts
<1>3. x # y => x.addr + x.length <= y.addr \/ y.addr + y.length <= x.addr
  BY MachineFacts
<1> QED BY <1>1, <1>2, <1>3 DEF Holds

\* The pages of a region are among those its addresses round to.
LEMMA HeldPages ==
  ASSUME machine \in Machines, NEW x \in machine.e820, NEW p \in Nat, Holds(x, p)
  PROVE  /\ p \in pfn_down(x.addr) .. pfn_down(x.addr + x.length)
         /\ p \in (x.addr \div PAGE_SIZE) .. ((x.addr + x.length - 1) \div PAGE_SIZE)
<1>1. Addr(p) \in Nat /\ PAGE_SIZE \in Nat /\ PAGE_SIZE > 0
  BY AddrFacts
<1>2. x.addr \in Nat /\ x.length \in Nat
  BY MachineFacts
<1> DEFINE last == x.addr + x.length - 1
           end == x.addr + x.length
<1>3. x.addr <= Addr(p) /\ Addr(p) + PAGE_SIZE <= end /\ end \in Nat
  BY <1>2 DEF Holds
<1>4. last \in Nat /\ Addr(p) <= last
  BY <1>1, <1>2, <1>3
<1>5. \A a \in Nat : /\ Addr(p) <= a => p <= pfn_down(a)
                     /\ a <= Addr(p) => pfn_down(a) <= p
  <2> TAKE a \in Nat
  <2>1. pfn_down(a) \in Nat /\ Addr(pfn_down(a)) <= a /\ a < Addr(pfn_down(a)) + PAGE_SIZE
    BY PfnFacts
  <2>2. Addr(pfn_down(a)) \in Nat
    BY <2>1, AddrFacts
  <2>3. Addr(p) <= a => Addr(p) < Addr(pfn_down(a)) + PAGE_SIZE
    BY <1>1, <2>1, <2>2
  <2>4. a <= Addr(p) => Addr(pfn_down(a)) < Addr(p) + PAGE_SIZE
    BY <1>1, <2>1, <2>2
  <2> QED BY <2>1, <2>3, <2>4, AddrOrder
<1>6. pfn_down(x.addr) <= p /\ p <= pfn_down(last) /\ p <= pfn_down(end)
  BY <1>1, <1>2, <1>3, <1>4, <1>5
<1>7. pfn_down(x.addr) \in Nat /\ pfn_down(last) \in Nat /\ pfn_down(end) \in Nat
  BY <1>2, <1>3, <1>4, PfnFacts
<1>8. pfn_down(x.addr) = x.addr \div PAGE_SIZE /\ pfn_down(last) = last \div PAGE_SIZE
  BY DEF pfn_down
<1> QED BY <1>6, <1>7, <1>8

\* A usable page is in exactly one block of a node.
LEMMA OneBlock ==
  ASSUME machine \in Machines, NEW x \in machine.e820, NEW p \in Nat, Holds(x, p)
  PROVE  /\ \E b \in machine.memblocks : InBlock(p, b)
         /\ \A b, c \in machine.memblocks : InBlock(p, b) /\ InBlock(p, c) => b = c
<1> DEFINE B == {b \in machine.memblocks : p \in b.start .. (b.end - 1)}
<1>1. p \in (x.addr \div PAGE_SIZE) .. ((x.addr + x.length - 1) \div PAGE_SIZE)
  BY HeldPages
<1>2. Cardinality(B) = 1
  BY <1>1, EarlyAssumption
<1>3. IsFiniteSet(B)
  <2>1. IsFiniteSet(machine.memblocks)
    BY EarlyAssumption
  <2> QED BY <2>1, FS_Subset
<1>4. PICK b : B = {b}
  <2> HIDE DEF B
  <2> QED BY <1>2, <1>3, FS_Singleton
<1>5. \A c \in machine.memblocks : InBlock(p, c) <=> c \in B
  BY MachineFacts DEF InBlock
<1> QED BY <1>4, <1>5

-----------------------------------------------------------------------------
(* The tree *)

\* The beginning of a tree's walk.
LEMMA LowestFacts ==
  ASSUME NEW R, R # {}, \A r \in R : r.start \in Nat
  PROVE  Lowest(R) \in R /\ \A q \in R : Lowest(R).start <= q.start
<1> DEFINE T == {r.start : r \in R}
<1>1. T \subseteq Nat /\ T # {}
  OBVIOUS
<1>2. PICK t \in T : \A u \in T : ~ (<<u, t>> \in OpToRel(<, Nat))
  <2> HIDE DEF T
  <2> QED BY <1>1, WFMin, NatLessThanWellFounded
<1>3. \A u \in T : t <= u
  <2> HIDE DEF T
  <2> SUFFICES ASSUME NEW u \in T, ~(t <= u) PROVE FALSE
    OBVIOUS
  <2>1. <<u, t>> \in OpToRel(<, Nat)
    BY <1>1 DEF OpToRel
  <2> QED BY <1>2, <2>1
<1>4. PICK r \in R : r.start = t
  OBVIOUS
<1>5. \A q \in R : r.start <= q.start
  BY <1>3, <1>4
<1> QED BY <1>5 DEF Lowest

\* The range before a page.
LEMMA HighestFacts ==
  ASSUME NEW n \in Nat, NEW R, R # {}, \A r \in R : r.start \in Nat /\ r.start <= n
  PROVE  Highest(R) \in R /\ \A q \in R : Highest(R).start >= q.start
<1> DEFINE T == {n - r.start : r \in R}
<1>1. T \subseteq Nat /\ T # {}
  OBVIOUS
<1>2. PICK t \in T : \A u \in T : ~ (<<u, t>> \in OpToRel(<, Nat))
  <2> HIDE DEF T
  <2> QED BY <1>1, WFMin, NatLessThanWellFounded
<1>3. \A u \in T : t <= u
  <2> HIDE DEF T
  <2> SUFFICES ASSUME NEW u \in T, ~(t <= u) PROVE FALSE
    OBVIOUS
  <2>1. <<u, t>> \in OpToRel(<, Nat)
    BY <1>1 DEF OpToRel
  <2> QED BY <1>2, <2>1
<1>4. PICK r \in R : n - r.start = t
  OBVIOUS
<1>5. \A q \in R : r.start >= q.start
  <2> TAKE q \in R
  <2>1. n - q.start \in T
    OBVIOUS
  <2>2. t <= n - q.start
    BY <1>3, <2>1
  <2> QED BY <1>4, <2>2
<1> QED BY <1>5 DEF Highest

\* A range and its pages.
LEMMA RangeFacts ==
  ASSUME NEW r \in Ranges
  PROVE  /\ r.start \in Nat /\ r.npages \in Nat /\ r.npages > 0 /\ r.nid \in Nids
         /\ End(r) \in Nat /\ r.start < End(r)
         /\ \A p : p \in PagesIn(r) <=> p \in Nat /\ r.start <= p /\ p < End(r)
BY DEF Ranges, End, PagesIn

\* The range that page_range makes.
LEMMA NewRange ==
  ASSUME NEW start \in Nat, NEW n \in Nat \ {0}, NEW nid \in Nids
  PROVE  LET r == page_range(start, n, nid) IN
         /\ r \in Ranges /\ r.start = start /\ r.npages = n /\ r.nid = nid
         /\ End(r) = start + n
BY DEF Ranges, page_range, End

\* Two neighbours that meet become one range with the pages of both.
LEMMA Merged ==
  ASSUME NEW a \in Ranges, NEW b \in Ranges, End(a) = b.start
  PROVE  \E m \in Ranges :
           /\ coalesce(a, b) = {m} /\ m.start = a.start /\ End(m) = End(b)
           /\ \A p : p \in PagesIn(m) <=> p \in PagesIn(a) \/ p \in PagesIn(b)
<1> DEFINE m == page_range(a.start, a.npages + b.npages, a.nid)
<1>1. /\ a.start \in Nat /\ a.npages \in Nat \ {0} /\ b.npages \in Nat \ {0}
      /\ b.start = a.start + a.npages /\ End(b) = b.start + b.npages /\ a.nid \in Nids
  BY RangeFacts DEF End
<1>2. a.npages + b.npages \in Nat \ {0}
  BY <1>1
<1>3. m \in Ranges /\ m.start = a.start /\ End(m) = a.start + (a.npages + b.npages)
  BY <1>1, <1>2, NewRange
<1>4. coalesce(a, b) = {m}
  BY DEF coalesce
<1> HIDE DEF m
<1>5. End(m) = End(b) /\ m.start = a.start
  BY <1>1, <1>3
<1>6. \A p : p \in PagesIn(m) <=> p \in PagesIn(a) \/ p \in PagesIn(b)
  <2>1. \A p : p \in PagesIn(m) <=> p \in Nat /\ a.start <= p /\ p < End(b)
    BY <1>3, <1>5, RangeFacts
  <2>2. a.start \in Nat /\ End(a) \in Nat /\ a.start < End(a) /\ End(b) \in Nat /\ End(a) < End(b)
    BY RangeFacts
  <2>3. \A p : p \in PagesIn(a) <=> p \in Nat /\ a.start <= p /\ p < End(a)
    BY RangeFacts
  <2>4. \A p : p \in PagesIn(b) <=> p \in Nat /\ End(a) <= p /\ p < End(b)
    BY RangeFacts
  <2>5. \A p \in Nat : (a.start <= p /\ p < End(b)) <=> (a.start <= p /\ p < End(a)) \/ (End(a) <= p /\ p < End(b))
    BY <2>2
  <2> QED BY <2>1, <2>3, <2>4, <2>5
<1> QED BY <1>3, <1>4, <1>5, <1>6

\* A range of free_pages is told by its start.
LEMMA StartsDiffer ==
  ASSUME RangesInv, NEW r \in free_pages, NEW s \in free_pages, r.start = s.start
  PROVE  r = s
<1>1. r \in Ranges /\ s \in Ranges
  BY DEF RangesInv
<1>2. r.start \in PagesIn(r) /\ s.start \in PagesIn(s)
  BY <1>1, RangeFacts
<1> QED BY <1>2 DEF RangesInv

\* The tree R has the pages from start to end in addition, in a range that
\* takes the place of some ranges D.
Extends(R, start, end) ==
  \E D \in SUBSET free_pages : \E m \in Ranges :
    /\ R = (free_pages \ D) \cup {m}
    /\ \A p : p \in PagesIn(m) <=>
                p \in start .. (end - 1) \/ \E r \in D : p \in PagesIn(r)

\* free_page_range: the new range is in the tree, alone or as a part of the
\* one range that takes the place of its neighbours.
LEMMA WithRangeFacts ==
  ASSUME RangesInv, NEW start \in Nat, NEW end \in Nat, start < end, NEW nid \in Nids,
         \A r \in free_pages : \A p \in PagesIn(r) : p < start \/ end <= p
  PROVE  Extends(WithRange(start, end, nid), start, end)
<1> DEFINE new == page_range(start, end - start, nid)
           below == {r \in free_pages : r.start < start}
           above == {r \in free_pages : r.start > start}
           hb == Highest(below)
           la == Lowest(above)
           lower == IF below = {} THEN {new} ELSE coalesce(hb, new)
           it == Highest(lower)
           upper == IF above = {} THEN {it} ELSE coalesce(it, la)
           low == {r \in below : \E q \in below : q.start > r.start}
           high == {r \in above : \E q \in above : q.start < r.start}
<1>1. /\ new \in Ranges /\ new.start = start /\ End(new) = end
      /\ \A p : p \in PagesIn(new) <=> p \in start .. (end - 1)
  <2>1. end - start \in Nat \ {0}
    OBVIOUS
  <2>2. new \in Ranges /\ new.start = start /\ End(new) = end
    BY <2>1, NewRange
  <2> HIDE DEF new
  <2>3. \A p : p \in PagesIn(new) <=> p \in Nat /\ start <= p /\ p < end
    BY <2>2, RangeFacts
  <2> QED BY <2>2, <2>3
<1>2. free_pages \subseteq Ranges
  BY DEF RangesInv
<1>3. \A r \in free_pages : /\ r.start \in Nat /\ End(r) \in Nat /\ r.start # start
                            /\ r.start < start => End(r) <= start
                            /\ r.start > start => r.start >= end
  <2> TAKE r \in free_pages
  <2>1. r \in Ranges /\ r.start \in Nat /\ End(r) \in Nat /\ r.start < End(r)
    BY <1>2, RangeFacts
  <2>2. \A p \in Nat : r.start <= p /\ p < End(r) => p < start \/ end <= p
    BY <2>1, RangeFacts
  <2>3. r.start < start \/ end <= r.start
    BY <2>1, <2>2
  <2>4. r.start <= start /\ start < End(r) => FALSE
    BY <2>2
  <2> QED BY <2>1, <2>3, <2>4
<1>4. free_pages = below \cup above /\ below \cap above = {}
  BY <1>3
<1>5. \A r, s \in free_pages : r.start = s.start => r = s
  BY StartsDiffer
<1>6. WithRange(start, end, nid) = low \cup high \cup (lower \ {it}) \cup upper
  BY DEF WithRange
<1>7. below # {} => hb \in below /\ low = below \ {hb}
  <2> SUFFICES ASSUME below # {} PROVE hb \in below /\ low = below \ {hb}
    OBVIOUS
  <2>1. \A r \in below : r.start \in Nat /\ r.start <= start
    BY <1>3
  <2>2. hb \in below /\ \A q \in below : hb.start >= q.start
    <3> HIDE DEF below
    <3> QED BY <2>1, HighestFacts
  <2>3. \A r \in below : r # hb => r.start < hb.start
    <3> HIDE DEF hb
    <3> QED BY <1>3, <1>5, <2>2
  <2> HIDE DEF hb
  <2> QED BY <1>3, <2>2, <2>3
<1>8. above # {} => la \in above /\ high = above \ {la}
  <2> SUFFICES ASSUME above # {} PROVE la \in above /\ high = above \ {la}
    OBVIOUS
  <2>1. \A r \in above : r.start \in Nat
    BY <1>3
  <2>2. la \in above /\ \A q \in above : la.start <= q.start
    <3> HIDE DEF above
    <3> QED BY <2>1, LowestFacts
  <2>3. \A r \in above : r # la => la.start < r.start
    <3> HIDE DEF la
    <3> QED BY <1>3, <1>5, <2>2
  <2> HIDE DEF la
  <2> QED BY <1>3, <2>2, <2>3
<1> HIDE DEF new, hb, la, low, high
<1>9. \E D \in SUBSET below :
        /\ low \cup (lower \ {it}) = below \ D
        /\ it \in Ranges /\ End(it) = end
        /\ \A p : p \in PagesIn(it) <=> p \in start .. (end - 1) \/ \E r \in D : p \in PagesIn(r)
  <2>1. CASE below = {}
    <3>1. lower = {new} /\ low = {}
      BY <2>1 DEF low
    <3>2. it = new
      BY <3>1 DEF Highest
    <3> HIDE DEF it, lower, below
    <3> QED BY <1>1, <2>1, <3>1, <3>2
  <2>2. CASE below # {} /\ End(hb) # start
    <3>1. lower = {hb, new} /\ hb \in below /\ low = below \ {hb}
      BY <1>1, <1>7, <2>2 DEF coalesce
    <3>2. hb.start \in Nat /\ hb.start < start
      BY <1>3, <3>1
    <3>3. it = new
      <4>1. \A q \in {hb, new} : new.start >= q.start
        BY <1>1, <3>2
      <4>2. ~ (hb.start >= new.start)
        BY <1>1, <3>2
      <4>3. \A x \in {hb, new} : (\A q \in {hb, new} : x.start >= q.start) => x = new
        BY <4>2
      <4> QED BY <3>1, <4>1, <4>3 DEF Highest
    <3>4. hb # new
      BY <1>1, <3>2
    <3>5. low \cup (lower \ {it}) = below \ {}
      <4> HIDE DEF lower, it, below
      <4> QED BY <3>1, <3>3, <3>4
    <3> HIDE DEF it, lower, below
    <3> WITNESS {} \in SUBSET below
    <3> QED BY <1>1, <3>3, <3>5
  <2>3. CASE below # {} /\ End(hb) = start
    <3>1. hb \in below /\ low = below \ {hb} /\ hb \in Ranges
      BY <1>2, <1>7, <2>3
    <3>2. PICK m \in Ranges :
            /\ coalesce(hb, new) = {m} /\ End(m) = End(new)
            /\ \A p : p \in PagesIn(m) <=> p \in PagesIn(hb) \/ p \in PagesIn(new)
      BY <1>1, <2>3, <3>1, Merged
    <3>3. lower = {m}
      BY <2>3, <3>2
    <3>4. it = m
      BY <3>3 DEF Highest
    <3>5. low \cup (lower \ {it}) = below \ {hb}
      <4> HIDE DEF lower, it, below
      <4> QED BY <3>1, <3>3, <3>4
    <3>6. {hb} \in SUBSET below
      BY <3>1
    <3> HIDE DEF it, lower, below
    <3> {hb} \in SUBSET below
      BY <3>6
    <3> WITNESS {hb} \in SUBSET below
    <3> QED BY <1>1, <3>2, <3>4, <3>5, <3>6
  <2> QED BY <2>1, <2>2, <2>3
<1>10. PICK D \in SUBSET below :
        /\ low \cup (lower \ {it}) = below \ D
        /\ it \in Ranges /\ End(it) = end
        /\ \A p : p \in PagesIn(it) <=> p \in start .. (end - 1) \/ \E r \in D : p \in PagesIn(r)
  BY <1>9
<1> HIDE DEF it, lower
<1>11. \E E \in SUBSET above : \E m \in Ranges :
        /\ high \cup upper = (above \ E) \cup {m}
        /\ \A p : p \in PagesIn(m) <=> p \in PagesIn(it) \/ \E r \in E : p \in PagesIn(r)
  <2>1. CASE above = {}
    <3>1. upper = {it} /\ high = {}
      BY <2>1 DEF high
    <3> WITNESS {} \in SUBSET above
    <3> it \in Ranges
      BY <1>10
    <3> WITNESS it \in Ranges
    <3> QED BY <1>10, <2>1, <3>1
  <2>2. CASE above # {} /\ End(it) # la.start
    <3>1. upper = {it, la} /\ la \in above /\ high = above \ {la}
      BY <1>8, <2>2 DEF coalesce
    <3>2. high \cup upper = (above \ {}) \cup {it}
      <4> HIDE DEF upper, above
      <4> QED BY <3>1
    <3> HIDE DEF upper, above
    <3> WITNESS {} \in SUBSET above
    <3> it \in Ranges
      BY <1>10
    <3> WITNESS it \in Ranges
    <3> QED BY <1>10, <3>2
  <2>3. CASE above # {} /\ End(it) = la.start
    <3>1. la \in above /\ high = above \ {la} /\ la \in Ranges
      BY <1>2, <1>8, <2>3
    <3>2. PICK m \in Ranges :
            /\ coalesce(it, la) = {m}
            /\ \A p : p \in PagesIn(m) <=> p \in PagesIn(it) \/ p \in PagesIn(la)
      BY <1>10, <2>3, <3>1, Merged
    <3>3. upper = {m}
      BY <2>3, <3>2
    <3>4. high \cup upper = (above \ {la}) \cup {m} /\ {la} \in SUBSET above
      <4> HIDE DEF upper, above
      <4> QED BY <3>1, <3>3
    <3> HIDE DEF upper, above
    <3> {la} \in SUBSET above
      BY <3>4
    <3> WITNESS {la} \in SUBSET above
    <3> WITNESS m \in Ranges
    <3> QED BY <3>2, <3>4
  <2> QED BY <2>1, <2>2, <2>3
<1>12. PICK E \in SUBSET above, m \in Ranges :
        /\ high \cup upper = (above \ E) \cup {m}
        /\ \A p : p \in PagesIn(m) <=> p \in PagesIn(it) \/ \E r \in E : p \in PagesIn(r)
  BY <1>11
<1> HIDE DEF upper, below, above
<1>13. WithRange(start, end, nid) = (free_pages \ (D \cup E)) \cup {m}
  BY <1>4, <1>6, <1>10, <1>12
<1>14. \A p : p \in PagesIn(m) <=>
                p \in start .. (end - 1) \/ \E r \in D \cup E : p \in PagesIn(r)
  BY <1>10, <1>12
<1>15. D \cup E \in SUBSET free_pages
  BY <1>4
<1> QED BY <1>12, <1>13, <1>14, <1>15 DEF Extends

\* The pages of the free ranges.
LEMMA FreeFacts ==
  \A p : p \in FreePages <=> \E r \in free_pages : p \in PagesIn(r)
BY DEF FreePages

\* The tree after a range of pages that nobody has is inserted.
LEMMA Inserted ==
  ASSUME RangesInv, NEW start \in Nat, NEW end \in Nat, start < end,
         \A p \in FreePages \cup taken : p < start \/ end <= p,
         free_pages' = WithRange(start, end, ANY_NID), UNCHANGED <<machine, taken>>
  PROVE  RangesInv' /\ FreePages' = FreePages \cup (start .. (end - 1))
<1>1. \A r \in free_pages : \A p \in PagesIn(r) : p < start \/ end <= p
  BY FreeFacts
<1>2. ANY_NID \in Nids
  BY DEF Nids
<1>0. Extends(free_pages', start, end)
  BY <1>1, <1>2, WithRangeFacts
<1>3. PICK D \in SUBSET free_pages, m \in Ranges :
        /\ free_pages' = (free_pages \ D) \cup {m}
        /\ \A p : p \in PagesIn(m) <=>
                    p \in start .. (end - 1) \/ \E r \in D : p \in PagesIn(r)
  BY <1>0 DEF Extends
<1>4. /\ free_pages \subseteq Ranges /\ taken \subseteq Nat
      /\ \A r, s \in free_pages : \A p \in PagesIn(r) : p \in PagesIn(s) => r = s
      /\ \A r \in free_pages : \A p \in PagesIn(r) : p \notin taken
  BY DEF RangesInv
<1>5. Ranges' = Ranges
  BY DEF Ranges, Nids
<1>6. \A p \in start .. (end - 1) : /\ p \notin taken
                                    /\ \A r \in free_pages : p \notin PagesIn(r)
  BY <1>1
<1>7. \A r \in free_pages \ D : \A p \in PagesIn(m) : p \notin PagesIn(r)
  BY <1>3, <1>4, <1>6
<1>8. \A p \in PagesIn(m) : p \notin taken
  BY <1>3, <1>4, <1>6
<1>9. RangesInv'
  <2>1. free_pages' \subseteq Ranges' /\ taken' \subseteq Nat
    BY <1>3, <1>4, <1>5
  <2>2. \A r, s \in free_pages' : \A p \in PagesIn(r) : p \in PagesIn(s) => r = s
    BY <1>3, <1>4, <1>7
  <2>3. \A r \in free_pages' : \A p \in PagesIn(r) : p \notin taken'
    BY <1>3, <1>4, <1>8
  <2> QED BY <2>1, <2>2, <2>3 DEF RangesInv, PagesIn, End
<1>10. \A p : p \in FreePages' <=> \E r \in free_pages' : p \in PagesIn(r)
  BY DEF FreePages, PagesIn, End
<1>11. \A p : p \in FreePages' <=> p \in FreePages \/ p \in start .. (end - 1)
  BY <1>3, <1>10, FreeFacts
<1> QED BY <1>9, <1>11

\* A page lies wholly between two addresses.
Between(p, from, to) == from <= Addr(p) /\ Addr(p) + PAGE_SIZE <= to

\* early_free_memory_range frees the pages that lie in the range, except the
\* last one if the range begins within a page.
LEMMA FreeRangeFacts ==
  ASSUME RangesInv, NEW begin \in Nat, NEW length \in Nat,
         EarlyFreeMemoryRange(begin, length), UNCHANGED <<machine, taken>>,
         LET diff == pfn_up(begin) * PAGE_SIZE - begin
         IN  length < diff \/ 2 * diff <= length,
         \A p \in FreePages \cup taken : p \in Nat /\ ~Between(p, begin, begin + length)
  PROVE  /\ RangesInv'
         /\ \A p \in FreePages' : p \in FreePages \/ (p \in Nat /\ Between(p, begin, begin + length))
         /\ FreePages \subseteq FreePages'
         /\ \A p \in Nat : Between(p, begin, begin + length) =>
              \/ p \in FreePages'
              \/ begin % PAGE_SIZE # 0 /\ p = pfn_down(begin + length) - 1
<1> DEFINE start == pfn_up(begin)
           diff == start * PAGE_SIZE - begin
           e == begin + length - diff
           end == pfn_down(e)
<1>1. PAGE_SIZE \in Nat /\ PAGE_SIZE > 0
  BY AddrFacts
<1>2. start \in Nat /\ begin <= Addr(start) /\ Addr(start) < begin + PAGE_SIZE
      /\ Addr(start) \in Nat
  BY PfnFacts, AddrFacts
<1>3. diff = Addr(start) - begin
  BY DEF Addr
<1>4. length < diff \/ 2 * diff <= length
  OBVIOUS
<1>5. IF diff > length \/ end = start THEN UNCHANGED free_pages
      ELSE free_pages' = WithRange(start, end, ANY_NID)
  BY DEF EarlyFreeMemoryRange
<1> HIDE DEF diff, start
<1>6. ASSUME NEW p \in Nat, Between(p, begin, begin + length)
      PROVE  start <= p /\ Addr(start) <= Addr(p)
  <2>1. begin <= Addr(p) /\ Addr(p) \in Nat
    BY <1>6, AddrFacts DEF Between
  <2>2. Addr(start) < Addr(p) + PAGE_SIZE
    BY <1>1, <1>2, <2>1
  <2> QED BY <1>2, <2>2, AddrOrder
<1>7. ASSUME UNCHANGED free_pages PROVE RangesInv' /\ FreePages' = FreePages
  BY <1>7 DEF RangesInv, FreePages, Ranges, Nids, PagesIn, End
<1>8. CASE diff > length
  <2>1. \A p \in Nat : ~Between(p, begin, begin + length)
    <3> SUFFICES ASSUME NEW p \in Nat, Between(p, begin, begin + length) PROVE FALSE
      OBVIOUS
    <3>1. Addr(start) <= Addr(p) /\ Addr(p) + PAGE_SIZE <= begin + length /\ Addr(p) \in Nat
      BY <1>6, AddrFacts DEF Between
    <3> QED BY <1>1, <1>2, <1>3, <1>8, <3>1
  <2> QED BY <1>5, <1>7, <1>8, <2>1
<1>9. CASE diff <= length
  <2>1. 2 * diff <= length /\ diff \in Nat /\ diff < PAGE_SIZE
    BY <1>1, <1>2, <1>3, <1>4, <1>9
  <2>2. e \in Nat /\ Addr(start) <= e /\ e + diff = begin + length
    BY <1>2, <1>3, <2>1
  <2> HIDE DEF e
  <2>3. end \in Nat /\ Addr(end) <= e /\ e < Addr(end) + PAGE_SIZE /\ Addr(end) \in Nat
    BY <2>2, PfnFacts, AddrFacts
  <2> HIDE DEF end
  <2>4. start <= end
    <3>1. Addr(start) < Addr(end) + PAGE_SIZE
      BY <1>1, <1>2, <2>2, <2>3
    <3> QED BY <1>2, <2>3, <3>1, AddrOrder
  <2>5. ASSUME NEW p \in start .. (end - 1)
        PROVE  p \in Nat /\ Between(p, begin, begin + length)
    <3>1. p \in Nat /\ start <= p /\ p < end
      BY <1>2, <2>3
    <3>2. Addr(start) <= Addr(p) /\ Addr(p) + PAGE_SIZE <= Addr(end) /\ Addr(p) \in Nat
      <4>1. Addr(start) <= Addr(p)
        BY <1>2, <3>1, AddrOrder
      <4>2. Addr(p) + PAGE_SIZE <= Addr(end)
        BY <2>3, <3>1, AddrFacts
      <4> QED BY <3>1, <4>1, <4>2, AddrFacts
    <3>3. begin <= Addr(p) /\ Addr(p) + PAGE_SIZE <= begin + length
      BY <1>1, <1>2, <2>1, <2>2, <2>3, <3>2
    <3> QED BY <3>1, <3>3 DEF Between
  <2>6. ASSUME NEW p \in Nat, Between(p, begin, begin + length)
        PROVE  \/ p \in start .. (end - 1)
               \/ begin % PAGE_SIZE # 0 /\ p = pfn_down(begin + length) - 1
    <3>1. start <= p
      BY <1>6, <2>6
    <3>2. CASE p < end
      BY <1>2, <2>3, <3>1, <3>2
    <3>3. CASE end <= p
      <4> DEFINE t == pfn_down(begin + length)
      <4>1. Addr(p) \in Nat /\ Addr(p) + PAGE_SIZE <= begin + length
        BY <2>6, AddrFacts DEF Between
      <4>2. Addr(end) <= Addr(p)
        BY <2>3, <3>3, AddrOrder
      <4>3. diff > 0
        BY <1>1, <2>1, <2>2, <2>3, <4>1, <4>2
      <4>4. begin % PAGE_SIZE # 0
        <5> SUFFICES ASSUME begin % PAGE_SIZE = 0 PROVE FALSE
          OBVIOUS
        <5>1. Addr(pfn_up(begin)) = begin
          BY Aligned
        <5> QED BY <1>2, <1>3, <4>3, <5>1 DEF start
      <4>5. begin + length \in Nat
        OBVIOUS
      <4>6. t \in Nat /\ Addr(t) <= begin + length /\ begin + length < Addr(t) + PAGE_SIZE
            /\ Addr(t) \in Nat
        BY <4>5, PfnFacts, AddrFacts
      <4> HIDE DEF t
      <4>7. Addr(p + 1) = Addr(p) + PAGE_SIZE
        BY AddrFacts
      <4>8. Addr(p + 1) < Addr(t) + PAGE_SIZE
        BY <1>1, <4>1, <4>6, <4>7
      <4>9. p + 1 <= t
        BY <4>6, <4>8, AddrOrder
      <4>10. Addr(t) < Addr(p + 1) + PAGE_SIZE
        BY <1>1, <2>1, <2>2, <2>3, <4>1, <4>2, <4>6, <4>7
      <4>11. t <= p + 1
        BY <4>6, <4>10, AddrOrder
      <4>12. p = t - 1
        BY <4>6, <4>9, <4>11
      <4> QED BY <4>4, <4>12 DEF t
    <3> QED BY <2>3, <3>2, <3>3
  <2>7. CASE end = start
    <3>1. UNCHANGED free_pages
      BY <1>5, <2>7
    <3>2. start .. (end - 1) = {}
      BY <1>2, <2>7
    <3> QED BY <1>7, <2>6, <3>1, <3>2
  <2>8. CASE end # start
    <3>1. free_pages' = WithRange(start, end, ANY_NID) /\ start < end
      BY <1>2, <1>3, <1>5, <1>9, <2>1, <2>3, <2>4, <2>8
    <3>2. \A p \in FreePages \cup taken : p < start \/ end <= p
      <4> SUFFICES ASSUME NEW p \in FreePages \cup taken, ~(p < start \/ end <= p) PROVE FALSE
        OBVIOUS
      <4>1. p \in Nat /\ ~Between(p, begin, begin + length)
        OBVIOUS
      <4>2. p \in start .. (end - 1)
        BY <1>2, <2>3, <4>1
      <4> QED BY <2>5, <4>1, <4>2
    <3>3. RangesInv' /\ FreePages' = FreePages \cup (start .. (end - 1))
      BY <1>2, <2>3, <3>1, <3>2, Inserted
    <3> QED BY <2>5, <2>6, <3>3
  <2> QED BY <2>7, <2>8
<1>10. diff \in Int
  BY <1>2, <1>3
<1> QED BY <1>8, <1>9, <1>10

-----------------------------------------------------------------------------
(* The parts of the invariant that look at the regions *)

\* What depends on the machine alone does not change.
LEMMA MachineSame ==
  ASSUME UNCHANGED machine
  PROVE  /\ Nids' = Nids /\ Ranges' = Ranges /\ LastPages' = LastPages
         /\ InOrder' <=> InOrder
         /\ \A x, p : (Holds(x, p)' <=> Holds(x, p)) /\ (Low(p)' <=> Low(p))
<1>1. Nids' = Nids /\ Ranges' = Ranges
  BY DEF Nids, Ranges
<1>2. LastPages' = LastPages
  BY DEF LastPages
<1>3. InOrder' <=> InOrder
  BY DEF InOrder
<1>4. \A x, p : (Holds(x, p)' <=> Holds(x, p)) /\ (Low(p)' <=> Low(p))
  BY DEF Holds, Low, Addr
<1> QED BY <1>1, <1>2, <1>3, <1>4

\* The pages somebody has.
Owned == FreePages \cup taken

\* Pages become owned only as their region is visited.
LEMMA PlacedStep ==
  ASSUME PlacedInv, UNCHANGED machine,
         \A x \in machine.e820 : \A p : Visited(x, p) => Visited(x, p)',
         \A p \in Owned' : p \in Owned \/ \E x \in machine.e820 : Holds(x, p) /\ Visited(x, p)'
  PROVE  PlacedInv'
<1>1. \A p \in Owned : \E x \in machine.e820 : Holds(x, p) /\ Visited(x, p)
  BY DEF PlacedInv, Owned
<1>2. \A p \in Owned' : \E x \in machine.e820 : Holds(x, p) /\ Visited(x, p)'
  BY <1>1
<1>3. \A x, p : Holds(x, p)' <=> Holds(x, p)
  BY MachineSame
<1>4. \A p \in Owned' : \E x \in machine.e820' : Holds(x, p)' /\ Visited(x, p)'
  BY <1>2, <1>3
<1> QED BY <1>4 DEF PlacedInv, Owned

\* What a step visits it frees, and what was visited stays owned.
LEMMA FoundStep ==
  ASSUME machine \in Machines, FoundInv, UNCHANGED machine,
         at' \notin {"up", "aborted"} => at \notin {"up", "aborted"},
         at' \notin {"up", "aborted"} /\ InOrder => Owned \subseteq Owned',
         at' \notin {"up", "aborted"} =>
           \A x \in machine.e820 : \A p \in Nat :
             Holds(x, p) /\ Visited(x, p)' /\ p \notin LastPages =>
               Visited(x, p) \/ p \in Owned'
  PROVE  FoundInv'
<1>1. SUFFICES ASSUME at' \notin {"up", "aborted"}, InOrder
               PROVE  \A x \in machine.e820 : \A p \in Nat :
                        Holds(x, p) /\ Visited(x, p)' /\ p \notin LastPages => p \in Owned'
  <2>1. ASSUME NEW x \in machine.e820,
               NEW p \in pfn_down(x.addr) .. pfn_down(x.addr + x.length)
        PROVE  p \in Nat
    <3>1. x.addr \in Nat /\ x.length \in Nat
      BY MachineFacts
    <3>2. pfn_down(x.addr) \in Nat
      BY <3>1, PfnFacts
    <3>3. x.addr + x.length \in Nat
      BY <3>1
    <3>4. pfn_down(x.addr + x.length) \in Nat
      BY <3>3, PfnFacts
    <3> QED BY <3>2, <3>4
  <2>2. (InOrder' <=> InOrder) /\ LastPages' = LastPages
    BY MachineSame
  <2>3. \A x, p : Holds(x, p)' <=> Holds(x, p)
    BY MachineSame
  <2>4. at' \notin {"up", "aborted"} /\ InOrder' =>
          \A x \in machine.e820' : \A p \in pfn_down(x.addr) .. pfn_down(x.addr + x.length) :
            Holds(x, p)' /\ Visited(x, p)' /\ p \notin LastPages' => p \in Owned'
    BY <2>1, <2>2, <2>3
  <2> QED BY <2>4 DEF FoundInv, Owned, pfn_down
<1>2. ASSUME NEW x \in machine.e820, NEW p \in Nat, Holds(x, p), Visited(x, p),
             p \notin LastPages
      PROVE  p \in Owned
  <2>1. p \in pfn_down(x.addr) .. pfn_down(x.addr + x.length)
    BY <1>2, HeldPages
  <2> QED BY <1>1, <1>2, <2>1 DEF FoundInv, Owned
<1> QED BY <1>1, <1>2

\* A step that leaves the tree alone.
LEMMA TreeSame ==
  ASSUME UNCHANGED <<machine, free_pages, taken>>
  PROVE  (RangesInv' <=> RangesInv) /\ Owned' = Owned
<1>1. Ranges' = Ranges
  BY MachineSame
<1> QED BY <1>1 DEF RangesInv, Owned, FreePages, PagesIn, End

\* Control moves on; the tree and what has been visited stay.
LEMMA MovedOn ==
  ASSUME EarlyInv, UNCHANGED <<machine, free_pages, taken>>, ControlInv',
         at \notin {"up", "aborted"},
         \A x \in machine.e820 : \A p : Visited(x, p) <=> Visited(x, p)',
         at' \in {"numa", "mem_map", "trans", "release"} =>
           \A b \in machine.memblocks : (at' = "numa" => b \notin todo') =>
             at \in {"numa", "mem_map", "trans", "release"} /\ (at = "numa" => b \notin todo)
  PROVE  EarlyInv'
<1>0. EarlyInv
  OBVIOUS
<1>1. RangesInv' /\ Owned' = Owned
  BY <1>0, TreeSame DEF EarlyInv
<1>2. PlacedInv'
  BY <1>0, <1>1, PlacedStep DEF EarlyInv
<1>3. FoundInv'
  BY <1>0, <1>1, FoundStep DEF EarlyInv, ControlInv
<1>4. OwnInv'
  BY <1>0 DEF EarlyInv, OwnInv, PagesIn, End, InBlock
<1> QED BY <1>1, <1>2, <1>3, <1>4 DEF EarlyInv

\* The steps from one loop to the next.
LEMMA ControlSteps ==
  ASSUME EarlyInv,
         \/ MapDone \/ LowDone \/ HighDone \/ AcpiDone \/ NumaDone \/ MemMapDone \/ TransDone
  PROVE  EarlyInv'
<1>0. ControlInv
  BY DEF EarlyInv
<1>1. CASE MapDone
  <2>1. ControlInv' BY <1>0, <1>1 DEF MapDone, ControlInv, Places
  <2>2. \A x \in machine.e820 : \A p : Visited(x, p) <=> Visited(x, p)'
    BY <1>1 DEF MapDone, Visited, Low, Addr
  <2> QED BY <1>1, <2>1, <2>2, MovedOn DEF MapDone
<1>2. CASE LowDone
  <2>1. ControlInv' BY <1>0, <1>2 DEF LowDone, ControlInv, Places
  <2>2. \A x \in machine.e820 : \A p : Visited(x, p) <=> Visited(x, p)'
    BY <1>2 DEF LowDone, Visited, Low, Addr
  <2> QED BY <1>2, <2>1, <2>2, MovedOn DEF LowDone
<1>3. CASE HighDone
  <2>1. ControlInv' BY <1>0, <1>3 DEF HighDone, ControlInv, Places
  <2>2. \A x \in machine.e820 : \A p : Visited(x, p) <=> Visited(x, p)'
    BY <1>3 DEF HighDone, Visited, Low, Addr
  <2> QED BY <1>3, <2>1, <2>2, MovedOn DEF HighDone
<1>4. CASE AcpiDone
  <2>1. ControlInv' BY <1>0, <1>4 DEF AcpiDone, ControlInv, Places
  <2>2. \A x \in machine.e820 : \A p : Visited(x, p) <=> Visited(x, p)'
    BY <1>4 DEF AcpiDone, Visited, Low, Addr
  <2> QED BY <1>4, <2>1, <2>2, MovedOn DEF AcpiDone
<1>5. CASE NumaDone
  <2>1. ControlInv' BY <1>0, <1>5 DEF NumaDone, ControlInv, Places
  <2>2. \A x \in machine.e820 : \A p : Visited(x, p) <=> Visited(x, p)'
    BY <1>5 DEF NumaDone, Visited, Low, Addr
  <2> QED BY <1>5, <2>1, <2>2, MovedOn DEF NumaDone
<1>6. CASE MemMapDone
  <2>1. ControlInv'
    BY <1>0, <1>6, EarlyAssumption DEF MemMapDone, ControlInv, Places
  <2>2. \A x \in machine.e820 : \A p : Visited(x, p) <=> Visited(x, p)'
    BY <1>6 DEF MemMapDone, Visited, Low, Addr
  <2> QED BY <1>6, <2>1, <2>2, MovedOn DEF MemMapDone
<1>7. CASE TransDone
  <2>1. ControlInv' BY <1>0, <1>7 DEF TransDone, ControlInv, Places
  <2>2. \A x \in machine.e820 : \A p : Visited(x, p) <=> Visited(x, p)'
    BY <1>7 DEF TransDone, Visited, Low, Addr
  <2> QED BY <1>7, <2>1, <2>2, MovedOn DEF TransDone
<1> QED BY <1>1, <1>2, <1>3, <1>4, <1>5, <1>6, <1>7

-----------------------------------------------------------------------------
(* The loops over the regions *)

\* The next region is one that has not been visited.
LEMMA FirstEntryFacts ==
  ASSUME machine \in Machines, todo \subseteq machine.e820, todo # {}
  PROVE  FirstEntry \in todo
<1> DEFINE T == {x.addr : x \in todo}
<1>1. T \subseteq Nat /\ T # {}
  BY MachineFacts
<1>2. PICK t \in T : \A u \in T : ~ (<<u, t>> \in OpToRel(<, Nat))
  <2> HIDE DEF T
  <2> QED BY <1>1, WFMin, NatLessThanWellFounded
<1>3. \A u \in T : t <= u
  <2> HIDE DEF T
  <2> SUFFICES ASSUME NEW u \in T, ~(t <= u) PROVE FALSE
    OBVIOUS
  <2>1. <<u, t>> \in OpToRel(<, Nat)
    BY <1>1 DEF OpToRel
  <2> QED BY <1>2, <2>1
<1>4. PICK x \in todo : x.addr = t
  OBVIOUS
<1>5. \A y \in todo : x.addr <= y.addr
  BY <1>3, <1>4
<1> QED BY <1>5 DEF FirstEntry

\* The part of a region that the first loop frees.
LEMMA LowPart ==
  ASSUME machine \in Machines, NEW x \in machine.e820,
         x.addr + x.length > machine.kend
  PROVE  LET y == trim_above(trim_below(x, machine.kend), machine.initial_map_end)
             from == FreedFrom(machine, x)
             to == FreedTo(machine, x)
         IN  /\ y.addr = from
             /\ from \in Nat /\ machine.kend <= from /\ x.addr <= from
             /\ x.addr < machine.kend => from = machine.kend
             /\ x.addr >= machine.kend => from = x.addr
             /\ from < machine.initial_map_end =>
                  /\ y.length \in Nat /\ y.addr + y.length = to /\ y.length = to - from
                  /\ to <= x.addr + x.length /\ to <= machine.initial_map_end
                  /\ to = x.addr + x.length \/ to = machine.initial_map_end
<1> DEFINE kend == machine.kend
           ime == machine.initial_map_end
           z == trim_below(x, kend)
           y == trim_above(z, ime)
           from == FreedFrom(machine, x)
           to == FreedTo(machine, x)
<1>1. x.addr \in Nat /\ x.length \in Nat /\ kend \in Nat /\ ime \in Nat /\ kend <= ime
  BY MachineFacts
<1>2. /\ from = IF x.addr < kend THEN kend ELSE x.addr
      /\ to = IF x.addr < ime /\ x.addr + x.length > ime THEN ime ELSE x.addr + x.length
  BY DEF FreedFrom, FreedTo
<1>3. x \in [addr : Nat, length : Nat]
  BY MachineFacts
<1> QED BY <1>1, <1>2, <1>3 DEF trim_below, trim_above

\* The pages of a region from its first address above the kernel on.
LEMMA HeldBetween ==
  ASSUME machine \in Machines, NEW x \in machine.e820, NEW p \in Nat
  PROVE  /\ Holds(x, p) => Between(p, FreedFrom(machine, x), x.addr + x.length)
         /\ \A from, to \in Nat :
              /\ Between(p, from, to) /\ machine.kend <= from /\ x.addr <= from
              /\ to <= x.addr + x.length
              => Holds(x, p)
<1>1. Addr(p) \in Nat /\ PAGE_SIZE \in Nat
  BY AddrFacts
<1>2. x.addr \in Nat /\ x.length \in Nat /\ machine.kend \in Nat
  BY MachineFacts
<1> QED BY <1>1, <1>2 DEF Holds, Between, FreedFrom

\* A range of region x is freed that nothing has been freed of: the pages in
\* it are not owned.
LEMMA NotYetOwned ==
  ASSUME EarlyInv, NEW x \in machine.e820, NEW from \in Nat, NEW to \in Nat,
         machine.kend <= from, x.addr <= from, to <= x.addr + x.length,
         \A p \in Nat : Visited(x, p) => ~Between(p, from, to)
  PROVE  \A p \in Owned : p \in Nat /\ ~Between(p, from, to)
<1>1. machine \in Machines
  BY DEF EarlyInv, ControlInv
<1> TAKE p \in Owned
<1>2. PICK z \in machine.e820 : Holds(z, p) /\ Visited(z, p)
  BY DEF EarlyInv, PlacedInv, Owned
<1>3. p \in Nat
  BY <1>2 DEF Holds
<1>4. ASSUME Between(p, from, to) PROVE FALSE
  <2>1. Holds(x, p)
    BY <1>1, <1>3, <1>4, HeldBetween
  <2>2. z = x
    BY <1>1, <1>2, <1>3, <2>1, OneRegion
  <2> QED BY <1>2, <1>3, <1>4, <2>2
<1> QED BY <1>3, <1>4

\* early_free_memory_range in terms of what is owned.
LEMMA FreedPages ==
  ASSUME RangesInv, NEW begin \in Nat, NEW length \in Nat,
         EarlyFreeMemoryRange(begin, length), UNCHANGED <<machine, taken>>,
         length < Addr(pfn_up(begin)) - begin \/ 2 * (Addr(pfn_up(begin)) - begin) <= length,
         \A p \in Owned : p \in Nat /\ ~Between(p, begin, begin + length)
  PROVE  /\ RangesInv' /\ Owned \subseteq Owned'
         /\ \A p \in Owned' : p \in Owned \/ (p \in Nat /\ Between(p, begin, begin + length))
         /\ \A p \in Nat : Between(p, begin, begin + length) =>
              \/ p \in Owned'
              \/ begin % PAGE_SIZE # 0 /\ p = pfn_down(begin + length) - 1
<1>1. LET diff == pfn_up(begin) * PAGE_SIZE - begin
      IN  length < diff \/ 2 * diff <= length
  BY DEF Addr
<1>2. \A p \in FreePages \cup taken : p \in Nat /\ ~Between(p, begin, begin + length)
  BY DEF Owned
<1>3. /\ RangesInv'
      /\ \A p \in FreePages' : p \in FreePages \/ (p \in Nat /\ Between(p, begin, begin + length))
      /\ FreePages \subseteq FreePages'
      /\ \A p \in Nat : Between(p, begin, begin + length) =>
           \/ p \in FreePages'
           \/ begin % PAGE_SIZE # 0 /\ p = pfn_down(begin + length) - 1
  BY <1>1, <1>2, FreeRangeFacts
<1>4. taken' = taken
  OBVIOUS
<1> QED BY <1>3, <1>4 DEF Owned

\* The last page of a region that begins within a page, or of a part of it,
\* is among the losses.
LEMMA LastPage ==
  ASSUME NEW x \in machine.e820,
         \/ x.addr % PAGE_SIZE # 0
         \/ x.addr < machine.kend /\ machine.kend % PAGE_SIZE # 0
  PROVE  pfn_down(FreedTo(machine, x)) - 1 \in LastPages
BY DEF LastPages

\* The first loop.
LEMMA FreeLowStep ==
  ASSUME EarlyInv, FreeLow
  PROVE  EarlyInv'
<1> DEFINE x == FirstEntry
           y == trim_above(trim_below(x, machine.kend), machine.initial_map_end)
           from == FreedFrom(machine, x)
           to == FreedTo(machine, x)
<1>0. ControlInv /\ RangesInv /\ PlacedInv /\ FoundInv /\ machine \in Machines
  BY DEF EarlyInv, ControlInv
<1>1. /\ at = "low" /\ todo # {} /\ UNCHANGED <<machine, count, taken>>
      /\ todo' = todo \ {x} /\ at' \in {"low", "map"}
      /\ todo \subseteq machine.e820
  BY <1>0 DEF FreeLow, ControlInv
<1>2. x \in todo /\ x \in machine.e820
  BY <1>0, <1>1, FirstEntryFacts
<1>3. \/ x.addr + x.length <= machine.kend /\ UNCHANGED free_pages
      \/ /\ ~(x.addr + x.length <= machine.kend)
         /\ IF y.addr < machine.initial_map_end
            THEN EarlyFreeMemoryRange(y.addr, y.length)
            ELSE UNCHANGED free_pages
  BY DEF FreeLow
<1> HIDE DEF x
<1>4. /\ x.addr \in Nat /\ x.length \in Nat /\ machine.kend \in Nat
      /\ machine.initial_map_end \in Nat /\ x.addr + x.length \in Nat
  BY <1>0, <1>2, MachineFacts
<1>5. /\ \A z, p : Visited(z, p) <=> z \notin todo /\ Low(p)
      /\ \A z, p : Visited(z, p)' <=> (z = x \/ z \notin todo) /\ Low(p)
  <2>1. \A z, p : Visited(z, p) <=> z \notin todo /\ Low(p)
    BY <1>1 DEF Visited
  <2>2. \A z, p : Visited(z, p)' <=> z \notin todo' /\ Low(p)'
    BY <1>1 DEF Visited
  <2>3. \A z, p : Low(p)' <=> Low(p)
    BY <1>1, MachineSame
  <2>4. \A z : z \notin todo' <=> z = x \/ z \notin todo
    BY <1>1, <1>2
  <2> QED BY <2>1, <2>2, <2>3, <2>4
<1>6. /\ RangesInv' /\ Owned \subseteq Owned'
      /\ \A p \in Owned' : p \in Owned \/ (Holds(x, p) /\ Low(p))
      /\ \A p \in Nat : Holds(x, p) /\ Low(p) /\ p \notin LastPages => p \in Owned'
  <2>1. CASE x.addr + x.length <= machine.kend
    <3>1. RangesInv' /\ Owned' = Owned
      BY <1>0, <1>1, <1>3, <2>1, TreeSame
    <3>2. \A p \in Nat : ~Holds(x, p)
      <4> SUFFICES ASSUME NEW p \in Nat, Holds(x, p) PROVE FALSE
        OBVIOUS
      <4>1. Addr(p) \in Nat /\ PAGE_SIZE \in Nat /\ PAGE_SIZE > 0
        BY AddrFacts
      <4> QED BY <1>4, <2>1, <4>1 DEF Holds
    <3> QED BY <3>1, <3>2
  <2>2. CASE x.addr + x.length > machine.kend /\ ~(from < machine.initial_map_end)
    <3>1. y.addr = from /\ from \in Nat
      BY <1>0, <1>2, <2>2, LowPart
    <3>2. UNCHANGED free_pages
      BY <1>3, <1>4, <2>2, <3>1
    <3>3. RangesInv' /\ Owned' = Owned
      BY <1>0, <1>1, <3>2, TreeSame
    <3>4. \A p \in Nat : ~(Holds(x, p) /\ Low(p))
      <4> SUFFICES ASSUME NEW p \in Nat, Holds(x, p), Low(p) PROVE FALSE
        OBVIOUS
      <4>1. Addr(p) \in Nat /\ PAGE_SIZE \in Nat /\ PAGE_SIZE > 0
        BY AddrFacts
      <4>2. from <= Addr(p)
        BY <1>0, <1>2, HeldBetween DEF Between
      <4> QED BY <1>4, <2>2, <3>1, <4>1, <4>2 DEF Low
    <3> QED BY <3>3, <3>4
  <2>3. CASE x.addr + x.length > machine.kend /\ from < machine.initial_map_end
    <3>1. /\ y.addr = from /\ from \in Nat /\ machine.kend <= from /\ x.addr <= from
          /\ x.addr < machine.kend => from = machine.kend
          /\ x.addr >= machine.kend => from = x.addr
          /\ y.length \in Nat /\ from + y.length = to /\ y.length = to - from
          /\ to <= x.addr + x.length /\ to <= machine.initial_map_end
          /\ to = x.addr + x.length \/ to = machine.initial_map_end
      BY <1>0, <1>2, <2>3, LowPart
    <3>2. EarlyFreeMemoryRange(from, y.length)
      BY <1>3, <1>4, <2>3, <3>1
    <3>3. y.length < Addr(pfn_up(from)) - from \/ 2 * (Addr(pfn_up(from)) - from) <= y.length
      BY <1>0, <1>2, <2>3, <3>1, EarlyAssumption DEF Addr
    <3> HIDE DEF y, from, to
    <3>4. to \in Nat
      BY <3>1
    <3>5. \A p \in Owned : p \in Nat /\ ~Between(p, from, to)
      <4>1. \A p \in Nat : Visited(x, p) => ~Between(p, from, to)
        BY <1>2, <1>5
      <4> QED BY <1>2, <3>1, <3>4, <4>1, NotYetOwned
    <3>6. /\ RangesInv' /\ Owned \subseteq Owned'
          /\ \A p \in Owned' : p \in Owned \/ (p \in Nat /\ Between(p, from, to))
          /\ \A p \in Nat : Between(p, from, to) =>
               \/ p \in Owned'
               \/ from % PAGE_SIZE # 0 /\ p = pfn_down(to) - 1
      BY <1>0, <1>1, <3>1, <3>2, <3>3, <3>5, FreedPages
    <3>7. \A p \in Nat : Between(p, from, to) => Holds(x, p) /\ Low(p)
      <4> SUFFICES ASSUME NEW p \in Nat, Between(p, from, to) PROVE Holds(x, p) /\ Low(p)
        OBVIOUS
      <4>1. Addr(p) \in Nat /\ PAGE_SIZE \in Nat
        BY AddrFacts
      <4>2. Holds(x, p)
        BY <1>0, <1>2, <3>1, <3>4, HeldBetween
      <4>3. Low(p)
        BY <1>4, <3>1, <3>4, <4>1 DEF Between, Low
      <4> QED BY <4>2, <4>3
    <3>8. \A p \in Nat : Holds(x, p) /\ Low(p) => Between(p, from, to)
      <4> SUFFICES ASSUME NEW p \in Nat, Holds(x, p), Low(p) PROVE Between(p, from, to)
        OBVIOUS
      <4>1. Between(p, from, x.addr + x.length)
        BY <1>0, <1>2, HeldBetween DEF from
      <4> QED BY <3>1, <4>1 DEF Between, Low
    <3>9. from % PAGE_SIZE # 0 => pfn_down(to) - 1 \in LastPages
      <4>1. from % PAGE_SIZE # 0 => \/ x.addr % PAGE_SIZE # 0
                                    \/ x.addr < machine.kend /\ machine.kend % PAGE_SIZE # 0
        BY <1>4, <3>1
      <4> QED BY <1>2, <4>1, LastPage DEF to
    <3> QED BY <3>6, <3>7, <3>8, <3>9
  <2>4. from \in Int
    BY <1>4 DEF FreedFrom
  <2> QED BY <1>4, <2>1, <2>2, <2>3, <2>4
<1>7. ControlInv'
  BY <1>0, <1>1 DEF ControlInv, Places
<1>8. PlacedInv'
  <2>1. \A z \in machine.e820 : \A p : Visited(z, p) => Visited(z, p)'
    BY <1>5
  <2>2. \A p \in Owned' : p \in Owned \/ \E z \in machine.e820 : Holds(z, p) /\ Visited(z, p)'
    BY <1>2, <1>5, <1>6
  <2> QED BY <1>0, <1>1, <2>1, <2>2, PlacedStep
<1>9. FoundInv'
  <2>1. \A z \in machine.e820 : \A p \in Nat :
          Holds(z, p) /\ Visited(z, p)' /\ p \notin LastPages => Visited(z, p) \/ p \in Owned'
    BY <1>5, <1>6
  <2> QED BY <1>0, <1>1, <1>6, <2>1, FoundStep
<1>10. OwnInv'
  BY <1>1 DEF OwnInv
<1> QED BY <1>6, <1>7, <1>8, <1>9, <1>10 DEF EarlyInv

\* The part of a region that the second loop frees.
LEMMA HighPart ==
  ASSUME machine \in Machines, NEW x \in machine.e820,
         machine.initial_map_end <= x.addr + x.length
  PROVE  LET y == trim_below(x, machine.initial_map_end)
         IN  /\ y.addr \in Nat /\ y.length \in Nat
             /\ y.addr + y.length = x.addr + x.length
             /\ x.addr <= machine.initial_map_end => y.addr = machine.initial_map_end
             /\ x.addr > machine.initial_map_end => y.addr = x.addr
<1>1. /\ x.addr \in Nat /\ x.length \in Nat /\ machine.initial_map_end \in Nat
      /\ x \in [addr : Nat, length : Nat]
  BY MachineFacts
<1> QED BY <1>1 DEF trim_below

\* The second loop.
LEMMA FreeHighStep ==
  ASSUME EarlyInv, FreeHigh
  PROVE  EarlyInv'
<1> DEFINE x == FirstEntry
           y == trim_below(x, machine.initial_map_end)
           ime == machine.initial_map_end
           to == x.addr + x.length
<1>0. ControlInv /\ RangesInv /\ PlacedInv /\ FoundInv /\ machine \in Machines
  BY DEF EarlyInv, ControlInv
<1>1. /\ at = "high" /\ todo # {} /\ UNCHANGED <<machine, at, count, taken>>
      /\ todo' = todo \ {x}
      /\ todo \subseteq machine.e820
  BY <1>0 DEF FreeHigh, ControlInv
<1>2. x \in todo /\ x \in machine.e820
  BY <1>0, <1>1, FirstEntryFacts
<1>3. IF to < ime THEN UNCHANGED free_pages ELSE EarlyFreeMemoryRange(y.addr, y.length)
  BY DEF FreeHigh
<1> HIDE DEF x
<1>4. /\ x.addr \in Nat /\ x.length \in Nat /\ machine.kend \in Nat
      /\ ime \in Nat /\ to \in Nat /\ machine.kend <= ime /\ ime % PAGE_SIZE = 0
  BY <1>0, <1>2, MachineFacts
<1>5. /\ \A z, p : Visited(z, p) <=> z \notin todo \/ Low(p)
      /\ \A z, p : Visited(z, p)' <=> z = x \/ z \notin todo \/ Low(p)
  <2>1. \A z, p : Visited(z, p) <=> z \notin todo \/ Low(p)
    BY <1>1 DEF Visited
  <2>2. \A z, p : Visited(z, p)' <=> z \notin todo' \/ Low(p)'
    BY <1>1 DEF Visited
  <2>3. \A z, p : Low(p)' <=> Low(p)
    BY <1>1, MachineSame
  <2>4. \A z : z \notin todo' <=> z = x \/ z \notin todo
    BY <1>1, <1>2
  <2> QED BY <2>1, <2>2, <2>3, <2>4
<1>6. /\ RangesInv' /\ Owned \subseteq Owned'
      /\ \A p \in Owned' : p \in Owned \/ Holds(x, p)
      /\ \A p \in Nat : Holds(x, p) /\ p \notin LastPages => Low(p) \/ p \in Owned'
  <2>1. CASE to < ime
    <3>1. RangesInv' /\ Owned' = Owned
      BY <1>0, <1>1, <1>3, <2>1, TreeSame
    <3>2. \A p \in Nat : Holds(x, p) => Low(p)
      <4> SUFFICES ASSUME NEW p \in Nat, Holds(x, p) PROVE Low(p)
        OBVIOUS
      <4>1. Addr(p) \in Nat /\ PAGE_SIZE \in Nat
        BY AddrFacts
      <4> QED BY <1>4, <2>1, <4>1 DEF Holds, Low
    <3> QED BY <3>1, <3>2
  <2>2. CASE ime <= to
    <3> DEFINE from == y.addr
    <3>1. /\ from \in Nat /\ y.length \in Nat /\ from + y.length = to
          /\ x.addr <= ime => from = ime
          /\ x.addr > ime => from = x.addr
      BY <1>0, <1>2, <2>2, HighPart
    <3>2. EarlyFreeMemoryRange(from, y.length)
      BY <1>3, <1>4, <2>2
    <3> DEFINE length == y.length
    <3> HIDE DEF y, from, to, length
    <3>3. ime <= from /\ x.addr <= from /\ machine.kend <= from
      BY <1>4, <3>1
    <3>4. length < Addr(pfn_up(from)) - from \/ 2 * (Addr(pfn_up(from)) - from) <= length
      <4>1. CASE x.addr <= ime
        <5>1. from = ime
          BY <3>1, <4>1
        <5>2. Addr(pfn_up(from)) = from
          BY <1>4, <3>1, <5>1, Aligned
        <5> QED BY <3>1, <5>2 DEF length
      <4>2. CASE x.addr > ime
        <5>1. from = x.addr /\ FreedFrom(machine, x) = x.addr /\ FreedTo(machine, x) = to
              /\ x.addr + x.length > machine.kend
          BY <1>4, <3>1, <4>2 DEF FreedFrom, FreedTo, to
        <5>2. length = FreedTo(machine, x) - FreedFrom(machine, x)
          BY <1>4, <3>1, <5>1 DEF length
        <5> QED BY <1>0, <1>2, <5>1, <5>2, EarlyAssumption DEF Addr
      <4> QED BY <1>4, <4>1, <4>2
    <3>5. \A p \in Owned : p \in Nat /\ ~Between(p, from, to)
      <4>1. ASSUME NEW p \in Nat, Visited(x, p), Between(p, from, to) PROVE FALSE
        <5>1. Addr(p) \in Nat /\ PAGE_SIZE \in Nat /\ PAGE_SIZE > 0
          BY AddrFacts
        <5>2. Low(p)
          BY <1>2, <1>5, <4>1
        <5> QED BY <1>4, <3>1, <3>3, <4>1, <5>1, <5>2 DEF Between, Low
      <4>2. to <= x.addr + x.length
        BY <1>4 DEF to
      <4> QED BY <1>2, <1>4, <3>1, <3>3, <4>1, <4>2, NotYetOwned
    <3>6. /\ RangesInv' /\ Owned \subseteq Owned'
          /\ \A p \in Owned' : p \in Owned \/ (p \in Nat /\ Between(p, from, to))
          /\ \A p \in Nat : Between(p, from, to) =>
               \/ p \in Owned'
               \/ from % PAGE_SIZE # 0 /\ p = pfn_down(to) - 1
      BY <1>0, <1>1, <3>1, <3>2, <3>4, <3>5, FreedPages DEF length
    <3>7. \A p \in Nat : Between(p, from, to) => Holds(x, p)
      <4>1. to <= x.addr + x.length
        BY <1>4 DEF to
      <4> QED BY <1>0, <1>2, <1>4, <3>1, <3>3, <4>1, HeldBetween
    <3>8. ASSUME NEW p \in Nat, Holds(x, p), ~Low(p) PROVE Between(p, from, to)
      <4>1. Addr(p) \in Nat /\ PAGE_SIZE \in Nat /\ PAGE_SIZE > 0
        BY AddrFacts
      <4>2. Addr(pfn_down(ime)) = ime /\ pfn_down(ime) \in Nat
        BY <1>4, Aligned, PfnFacts
      <4>3. Addr(pfn_down(ime)) < Addr(p) + PAGE_SIZE
        BY <1>4, <3>8, <4>1, <4>2 DEF Low
      <4>4. Addr(pfn_down(ime)) <= Addr(p)
        BY <4>2, <4>3, AddrOrder
      <4>5. x.addr <= Addr(p) /\ Addr(p) + PAGE_SIZE <= to
        BY <3>8 DEF Holds, to
      <4>6. from <= Addr(p)
        BY <1>4, <3>1, <4>2, <4>4, <4>5
      <4> QED BY <4>5, <4>6 DEF Between
    <3>9. from % PAGE_SIZE # 0 => pfn_down(to) - 1 \in LastPages
      <4> SUFFICES ASSUME from % PAGE_SIZE # 0 PROVE pfn_down(to) - 1 \in LastPages
        OBVIOUS
      <4>1. x.addr > ime /\ from = x.addr
        BY <1>4, <3>1
      <4>2. FreedTo(machine, x) = to
        BY <1>4, <4>1 DEF FreedTo, to
      <4> QED BY <1>2, <4>1, <4>2, LastPage
    <3> QED BY <3>6, <3>7, <3>8, <3>9
  <2> QED BY <1>4, <2>1, <2>2
<1>7. ControlInv'
  BY <1>0, <1>1 DEF ControlInv, Places
<1>8. PlacedInv'
  <2>1. \A z \in machine.e820 : \A p : Visited(z, p) => Visited(z, p)'
    BY <1>5
  <2>2. \A p \in Owned' : p \in Owned \/ \E z \in machine.e820 : Holds(z, p) /\ Visited(z, p)'
    BY <1>2, <1>5, <1>6
  <2> QED BY <1>0, <1>1, <2>1, <2>2, PlacedStep
<1>9. FoundInv'
  <2>1. \A z \in machine.e820 : \A p \in Nat :
          Holds(z, p) /\ Visited(z, p)' /\ p \notin LastPages => Visited(z, p) \/ p \in Owned'
    BY <1>5, <1>6
  <2> QED BY <1>0, <1>1, <1>6, <2>1, FoundStep
<1>10. OwnInv'
  BY <1>1 DEF OwnInv
<1> QED BY <1>6, <1>7, <1>8, <1>9, <1>10 DEF EarlyInv

-----------------------------------------------------------------------------
(* Pages that are taken *)

\* early_allocate_page moves the last pages of a range from the free ones to
\* the taken ones.
LEMMA Allocated ==
  ASSUME RangesInv, NEW n \in Nat \ {0}, NEW r \in free_pages, r.npages >= n,
         free_pages' = (free_pages \ {r}) \cup Shrunk(r, n),
         taken' = taken \cup ((End(r) - n) .. (End(r) - 1)), UNCHANGED machine
  PROVE  /\ RangesInv' /\ Owned' = Owned
         /\ \A s \in free_pages' :
              \/ s.nid = r.nid /\ PagesIn(s) \subseteq PagesIn(r)
              \/ s \in free_pages
<1> DEFINE cut == End(r) - n
           s == page_range(r.start, r.npages - n, r.nid)
<1>1. /\ free_pages \subseteq Ranges /\ taken \subseteq Nat
      /\ \A q, t \in free_pages : \A p \in PagesIn(q) : p \in PagesIn(t) => q = t
      /\ \A q \in free_pages : \A p \in PagesIn(q) : p \notin taken
  BY DEF RangesInv
<1>2. /\ r.start \in Nat /\ r.npages \in Nat /\ r.npages > 0 /\ r.nid \in Nids
      /\ End(r) = r.start + r.npages
      /\ \A p : p \in PagesIn(r) <=> p \in Nat /\ r.start <= p /\ p < End(r)
  BY <1>1, RangeFacts DEF End
<1>3. cut \in Nat /\ r.start <= cut /\ cut < End(r) /\ End(r) \in Nat
      /\ (cut = r.start <=> r.npages = n)
  BY <1>2
<1>4. /\ Shrunk(r, n) \subseteq Ranges
      /\ \A q \in Shrunk(r, n) : /\ q.nid = r.nid
                                 /\ \A p : p \in PagesIn(q) <=> p \in PagesIn(r) /\ p < cut
      /\ \A q, t \in Shrunk(r, n) : q = t
      /\ \A p \in PagesIn(r) : p < cut => \E q \in Shrunk(r, n) : p \in PagesIn(q)
  <2>1. CASE r.npages = n
    <3>1. Shrunk(r, n) = {}
      BY <2>1 DEF Shrunk
    <3>2. \A p \in PagesIn(r) : ~(p < cut)
      BY <1>2, <1>3, <2>1
    <3> QED BY <3>1, <3>2
  <2>2. CASE r.npages # n
    <3>1. Shrunk(r, n) = {s}
      BY <2>2 DEF Shrunk
    <3>2. r.npages - n \in Nat \ {0} /\ r.start + (r.npages - n) = cut
      BY <1>2, <2>2
    <3> HIDE DEF cut
    <3>3. s \in Ranges /\ s.start = r.start /\ s.nid = r.nid /\ End(s) = cut
      <4>1. /\ s \in Ranges /\ s.start = r.start /\ s.nid = r.nid
            /\ End(s) = r.start + (r.npages - n)
        BY <1>2, <3>2 DEF page_range, Ranges, End
      <4> QED BY <3>2, <4>1
    <3> HIDE DEF s
    <3>4. \A p : p \in PagesIn(s) <=> p \in Nat /\ r.start <= p /\ p < cut
      BY <3>3, RangeFacts
    <3>5. \A p : p \in PagesIn(s) <=> p \in PagesIn(r) /\ p < cut
      BY <1>2, <1>3, <3>4
    <3> QED BY <3>1, <3>3, <3>5
  <2> QED BY <2>1, <2>2
<1>5. \A p : p \in cut .. (End(r) - 1) <=> p \in PagesIn(r) /\ ~(p < cut)
  BY <1>2, <1>3
<1>6. Ranges' = Ranges
  BY MachineSame
<1> HIDE DEF cut, s
<1>7. taken' = taken \cup (cut .. (End(r) - 1))
  BY DEF cut
<1>8. RangesInv'
  <2>1. free_pages' \subseteq Ranges' /\ taken' \subseteq Nat
    BY <1>1, <1>2, <1>4, <1>5, <1>6, <1>7
  <2>2. ASSUME NEW q \in free_pages', NEW t \in free_pages', NEW p \in PagesIn(q),
               p \in PagesIn(t)
        PROVE  q = t
    <3>1. CASE q \in free_pages \ {r} /\ t \in free_pages \ {r}
      BY <1>1, <2>2, <3>1
    <3>2. CASE q \in Shrunk(r, n) /\ t \in Shrunk(r, n)
      BY <1>4, <3>2
    <3>3. CASE q \in free_pages \ {r} /\ t \in Shrunk(r, n)
      BY <1>1, <1>4, <2>2, <3>3
    <3>4. CASE q \in Shrunk(r, n) /\ t \in free_pages \ {r}
      BY <1>1, <1>4, <2>2, <3>4
    <3> QED BY <3>1, <3>2, <3>3, <3>4
  <2>3. \A q \in free_pages' : \A p \in PagesIn(q) : p \notin taken'
    BY <1>1, <1>4, <1>5, <1>7
  <2> QED BY <2>1, <2>2, <2>3 DEF RangesInv, PagesIn, End
<1>9. Owned' = Owned
  <2>1. \A p : p \in FreePages' <=> \E q \in free_pages' : p \in PagesIn(q)
    BY DEF FreePages, PagesIn, End
  <2>2. \A p : p \in Owned' <=> p \in taken' \/ \E q \in free_pages' : p \in PagesIn(q)
    BY <2>1 DEF Owned
  <2>3. \A p : p \in Owned <=> p \in taken \/ \E q \in free_pages : p \in PagesIn(q)
    BY FreeFacts DEF Owned
  <2>4. ASSUME NEW p \in Owned' PROVE p \in Owned
    BY <1>4, <1>5, <1>7, <2>2, <2>3
  <2>5. ASSUME NEW p \in Owned PROVE p \in Owned'
    <3>1. CASE p \in taken
      BY <1>7, <2>2, <3>1
    <3>2. CASE p \in PagesIn(r)
      BY <1>4, <1>5, <1>7, <2>2, <3>2
    <3>3. CASE \E q \in free_pages \ {r} : p \in PagesIn(q)
      BY <2>2, <3>3
    <3> QED BY <2>3, <3>1, <3>2, <3>3
  <2> QED BY <2>4, <2>5
<1> QED BY <1>4, <1>8, <1>9

\* A step of kmain that takes pages, or aborts.
LEMMA AllocateStep ==
  ASSUME EarlyInv, NEW n \in Nat \ {0}, NEW nid, EarlyAllocatePage(n, nid, at),
         UNCHANGED machine, ControlInv', at \in {"map", "acpi", "mem_map", "trans"},
         at = "map" => UNCHANGED todo
  PROVE  EarlyInv'
<1>0. ControlInv /\ RangesInv /\ PlacedInv /\ FoundInv /\ OwnInv /\ machine \in Machines
  BY DEF EarlyInv, ControlInv
<1>1. CASE Candidates(n, nid) # {}
  <2> DEFINE r == Lowest(Candidates(n, nid))
  <2>1. \A q \in Candidates(n, nid) : q \in free_pages /\ q.npages >= n
    BY DEF Candidates
  <2>2. \A q \in Candidates(n, nid) : q.start \in Nat
    BY <1>0, <2>1, RangeFacts DEF RangesInv
  <2>3. r \in Candidates(n, nid)
    BY <1>1, <2>2, LowestFacts
  <2>4. /\ free_pages' = (free_pages \ {r}) \cup Shrunk(r, n)
        /\ taken' = taken \cup ((End(r) - n) .. (End(r) - 1))
        /\ at' = at
    BY <1>1 DEF EarlyAllocatePage
  <2> HIDE DEF r
  <2>5. /\ RangesInv' /\ Owned' = Owned
        /\ \A s \in free_pages' :
             \/ s.nid = r.nid /\ PagesIn(s) \subseteq PagesIn(r)
             \/ s \in free_pages
    BY <1>0, <2>1, <2>3, <2>4, Allocated
  <2>6. \A x, p : Visited(x, p)' <=> Visited(x, p)
    BY <2>4 DEF Visited, Low, Addr
  <2>7. PlacedInv'
    BY <1>0, <2>5, <2>6, PlacedStep
  <2>8. FoundInv'
    BY <1>0, <2>4, <2>5, <2>6, FoundStep
  <2>9. OwnInv'
    <3> SUFFICES ASSUME at \in {"mem_map", "trans"}, NEW b \in machine.memblocks,
                        NEW s \in free_pages'
                 PROVE  \/ \A p \in PagesIn(s) : ~InBlock(p, b)
                        \/ s.nid = b.nid /\ \A p \in PagesIn(s) : InBlock(p, b)
      BY <2>4 DEF OwnInv, PagesIn, End, InBlock
    <3>1. \A q \in free_pages :
            \/ \A p \in PagesIn(q) : ~InBlock(p, b)
            \/ q.nid = b.nid /\ \A p \in PagesIn(q) : InBlock(p, b)
      BY <1>0 DEF OwnInv
    <3>2. r \in free_pages
      BY <2>1, <2>3
    <3> QED BY <2>5, <3>1, <3>2
  <2> QED BY <2>5, <2>7, <2>8, <2>9 DEF EarlyInv
<1>2. CASE Candidates(n, nid) = {}
  <2>1. at' = "aborted" /\ UNCHANGED <<free_pages, taken>>
    BY <1>2 DEF EarlyAllocatePage
  <2>2. RangesInv' /\ Owned' = Owned
    BY <1>0, <2>1, TreeSame
  <2>3. \A x, p : Visited(x, p)'
    BY <2>1 DEF Visited
  <2>4. PlacedInv'
    BY <1>0, <2>2, <2>3, PlacedStep
  <2>5. FoundInv' /\ OwnInv'
    BY <2>1 DEF FoundInv, OwnInv
  <2> QED BY <2>2, <2>4, <2>5 DEF EarlyInv
<1> QED BY <1>1, <1>2

\* The page tables, the memory map and the translation page.
LEMMA TakingSteps ==
  ASSUME EarlyInv, MapTable \/ MemMapInit \/ TransInit
  PROVE  EarlyInv'
<1>0. ControlInv
  BY DEF EarlyInv
<1>1. /\ section_map_pages \in Nat \ {0} /\ 1 \in Nat \ {0}
      /\ MaxTables \in Nat /\ TransPages \in Nat /\ count \in Nat
  BY <1>0, EarlyAssumption DEF ControlInv
<1>2. at' \in {at, "aborted"}
  BY DEF MapTable, MemMapInit, TransInit, EarlyAllocatePage
<1>3. CASE MapTable
  <2>1. at \in {"map", "acpi"} /\ UNCHANGED <<machine, todo>> /\ count' = count + 1
        /\ count < MaxTables /\ EarlyAllocatePage(1, ANY_NID, at)
    BY <1>3 DEF MapTable
  <2>2. ControlInv'
    BY <1>0, <1>1, <1>2, <2>1 DEF ControlInv, Places
  <2> QED BY <1>1, <2>1, <2>2, AllocateStep
<1>4. CASE MemMapInit
  <2>1. at = "mem_map" /\ UNCHANGED <<machine, count>>
        /\ \E nid : EarlyAllocatePage(section_map_pages, nid, at)
    BY <1>4 DEF MemMapInit
  <2>2. ControlInv'
    BY <1>0, <1>1, <1>2, <2>1 DEF ControlInv, Places
  <2> QED BY <1>1, <2>1, <2>2, AllocateStep
<1>5. CASE TransInit
  <2>1. at = "trans" /\ UNCHANGED <<machine, todo>> /\ count' = count + 1
        /\ count < TransPages /\ EarlyAllocatePage(1, machine.my_node, at)
    BY <1>5 DEF TransInit
  <2>2. ControlInv'
    BY <1>0, <1>1, <1>2, <2>1 DEF ControlInv, Places
  <2> QED BY <1>1, <2>1, <2>2, AllocateStep
<1> QED BY <1>3, <1>4, <1>5

-----------------------------------------------------------------------------
(* numa_init *)

\* The block that is visited next: of the lowest node, and the first of it.
LEMMA FirstBlockFacts ==
  ASSUME NEW B, B # {}, \A b \in B : b.nid \in Nat /\ b.start \in Nat
  PROVE  /\ FirstBlock(B) \in B
         /\ \A c \in B : \/ FirstBlock(B).nid < c.nid
                         \/ FirstBlock(B).nid = c.nid /\ FirstBlock(B).start <= c.start
<1> DEFINE T == {b.nid : b \in B}
<1>1. T \subseteq Nat /\ T # {}
  OBVIOUS
<1>2. PICK t \in T : \A u \in T : ~ (<<u, t>> \in OpToRel(<, Nat))
  <2> HIDE DEF T
  <2> QED BY <1>1, WFMin, NatLessThanWellFounded
<1>3. \A u \in T : t <= u
  <2> HIDE DEF T
  <2> SUFFICES ASSUME NEW u \in T, ~(t <= u) PROVE FALSE
    OBVIOUS
  <2>1. <<u, t>> \in OpToRel(<, Nat)
    BY <1>1 DEF OpToRel
  <2> QED BY <1>2, <2>1
<1> DEFINE C == {b \in B : b.nid = t}
<1>4. C # {} /\ \A b \in C : b.start \in Nat
  OBVIOUS
<1>5. /\ Lowest(C) \in C
      /\ \A c \in C : Lowest(C).start <= c.start
  <2> HIDE DEF C
  <2> QED BY <1>4, LowestFacts
<1>6. \A c \in B : t < c.nid \/ (t = c.nid /\ Lowest(C).start <= c.start)
  <2> TAKE c \in B
  <2>1. t <= c.nid /\ t \in Nat /\ c.nid \in Nat
    BY <1>1, <1>3
  <2>2. t = c.nid => c \in C
    OBVIOUS
  <2> QED BY <1>5, <2>1, <2>2
<1>7. \E b \in B : \A c \in B : b.nid < c.nid \/ (b.nid = c.nid /\ b.start <= c.start)
  BY <1>5, <1>6
<1> QED BY <1>7 DEF FirstBlock

\* What early_set_nid_range makes of a range: parts of it that lie in the
\* block, and are of its node, or have nothing in common with the block.
\* Pages are dropped only from a range that reaches over both ends.
LEMMA SplitFacts ==
  ASSUME machine \in Machines, NEW r \in Ranges, NEW b \in machine.memblocks
  PROVE  LET S == SplitAt(r, b.start, b.end, b.nid) IN
         /\ S \subseteq Ranges
         /\ \A s \in S : PagesIn(s) \subseteq PagesIn(r)
         /\ \A s, t \in S : \A p \in PagesIn(s) : p \in PagesIn(t) => s = t
         /\ \A s \in S : \/ \A p \in PagesIn(s) : ~InBlock(p, b)
                         \/ s.nid = b.nid /\ \A p \in PagesIn(s) : InBlock(p, b)
         /\ (\A p \in PagesIn(r) : ~InBlock(p, b)) => S = {r}
         /\ (r.start < b.start /\ End(r) > b.end) \/ PagesIn(r) \subseteq UNION {PagesIn(s) : s \in S}
<1> DEFINE S == SplitAt(r, b.start, b.end, b.nid)
           new_end == IF End(r) < b.end THEN End(r) ELSE b.end
<1>1. /\ r.start \in Nat /\ r.npages \in Nat /\ r.nid \in Nids /\ End(r) \in Nat
      /\ r.start < End(r) /\ End(r) = r.start + r.npages
      /\ \A p : p \in PagesIn(r) <=> p \in Nat /\ r.start <= p /\ p < End(r)
  BY RangeFacts DEF End
<1>2. b.start \in Nat /\ b.end \in Nat /\ b.start < b.end /\ b.nid \in Nids /\ ANY_NID \in Nids
  BY MachineFacts DEF Nids
<1>3. ASSUME NEW from \in Nat, NEW to \in Nat, from < to, NEW nid \in Nids
      PROVE  LET q == page_range(from, to - from, nid) IN
             /\ q \in Ranges /\ q.nid = nid
             /\ \A p : p \in PagesIn(q) <=> p \in Nat /\ from <= p /\ p < to
  <2> DEFINE q == page_range(from, to - from, nid)
  <2>1. q \in Ranges /\ q.start = from /\ q.nid = nid /\ End(q) = to
    BY <1>3 DEF page_range, Ranges, End
  <2> HIDE DEF q
  <2>2. \A p : p \in PagesIn(q) <=> p \in Nat /\ from <= p /\ p < to
    BY <2>1, RangeFacts
  <2> QED BY <2>1, <2>2 DEF q
<1>4. CASE End(r) <= b.start \/ r.start >= b.end
  <2>1. S = {r}
    BY <1>4 DEF SplitAt
  <2>2. \A p \in PagesIn(r) : ~InBlock(p, b)
    BY <1>1, <1>2, <1>4 DEF InBlock
  <2> HIDE DEF S
  <2>3. PagesIn(r) \subseteq UNION {PagesIn(s) : s \in S}
    BY <2>1
  <2> QED BY <2>1, <2>2, <2>3 DEF S
<1>5. CASE ~(End(r) <= b.start \/ r.start >= b.end) /\ r.start < b.start
  <2> DEFINE u == page_range(r.start, b.start - r.start, r.nid)
             v == page_range(b.start, new_end - b.start, b.nid)
  <2>1. S = {u, v}
    BY <1>5 DEF SplitAt
  <2>2. new_end \in Nat /\ b.start < new_end /\ new_end <= b.end /\ new_end <= End(r)
        /\ (End(r) <= b.end => new_end = End(r))
    BY <1>1, <1>2, <1>5
  <2> HIDE DEF new_end
  <2>3. u \in Ranges /\ u.nid = r.nid
        /\ \A p : p \in PagesIn(u) <=> p \in Nat /\ r.start <= p /\ p < b.start
    BY <1>1, <1>2, <1>3, <1>5
  <2>4. v \in Ranges /\ v.nid = b.nid
        /\ \A p : p \in PagesIn(v) <=> p \in Nat /\ b.start <= p /\ p < new_end
    BY <1>2, <1>3, <2>2
  <2> HIDE DEF u, v, S
  <2>5. \A p \in PagesIn(u) : ~InBlock(p, b) /\ p \in PagesIn(r) /\ p \notin PagesIn(v)
    BY <1>1, <1>2, <1>5, <2>3, <2>4 DEF InBlock
  <2>6. \A p \in PagesIn(v) : InBlock(p, b) /\ p \in PagesIn(r) /\ p \notin PagesIn(u)
    BY <1>1, <1>2, <1>5, <2>2, <2>3, <2>4 DEF InBlock
  <2>7. b.start \in PagesIn(r) /\ InBlock(b.start, b)
    BY <1>1, <1>2, <1>5 DEF InBlock
  <2>8. End(r) <= b.end => \A p \in PagesIn(r) : p \in PagesIn(u) \/ p \in PagesIn(v)
    BY <1>1, <1>2, <2>2, <2>3, <2>4
  <2>9. (r.start < b.start /\ End(r) > b.end) \/ PagesIn(r) \subseteq UNION {PagesIn(s) : s \in S}
    BY <1>1, <1>2, <1>5, <2>1, <2>8
  <2>10. \A s, t \in S : \A p \in PagesIn(s) : p \in PagesIn(t) => s = t
    BY <2>1, <2>5, <2>6
  <2>11. S \subseteq Ranges /\ \A s \in S : PagesIn(s) \subseteq PagesIn(r)
    BY <2>1, <2>3, <2>4, <2>5, <2>6
  <2>12. \A s \in S : \/ \A p \in PagesIn(s) : ~InBlock(p, b)
                      \/ s.nid = b.nid /\ \A p \in PagesIn(s) : InBlock(p, b)
    BY <2>1, <2>4, <2>5, <2>6
  <2> QED BY <2>7, <2>9, <2>10, <2>11, <2>12 DEF S
<1>6. CASE ~(End(r) <= b.start \/ r.start >= b.end) /\ ~(r.start < b.start) /\ End(r) > b.end
  <2> DEFINE u == page_range(r.start, b.end - r.start, b.nid)
             v == page_range(b.end, End(r) - b.end, ANY_NID)
  <2>1. S = {u, v}
    BY <1>6 DEF SplitAt
  <2>2. r.start < b.end /\ b.start <= r.start
    BY <1>1, <1>2, <1>6
  <2>3. u \in Ranges /\ u.nid = b.nid
        /\ \A p : p \in PagesIn(u) <=> p \in Nat /\ r.start <= p /\ p < b.end
    BY <1>1, <1>2, <1>3, <2>2
  <2>4. v \in Ranges
        /\ \A p : p \in PagesIn(v) <=> p \in Nat /\ b.end <= p /\ p < End(r)
    BY <1>1, <1>2, <1>3, <1>6
  <2> HIDE DEF u, v, S
  <2>5. \A p \in PagesIn(u) : InBlock(p, b) /\ p \in PagesIn(r) /\ p \notin PagesIn(v)
    BY <1>1, <1>2, <1>6, <2>2, <2>3, <2>4 DEF InBlock
  <2>6. \A p \in PagesIn(v) : ~InBlock(p, b) /\ p \in PagesIn(r) /\ p \notin PagesIn(u)
    BY <1>1, <1>2, <1>6, <2>2, <2>3, <2>4 DEF InBlock
  <2>7. r.start \in PagesIn(r) /\ InBlock(r.start, b)
    BY <1>1, <1>2, <2>2 DEF InBlock
  <2>8. \A p \in PagesIn(r) : p \in PagesIn(u) \/ p \in PagesIn(v)
    BY <1>1, <1>2, <2>3, <2>4
  <2>9. PagesIn(r) \subseteq UNION {PagesIn(s) : s \in S}
    BY <2>1, <2>8
  <2>10. \A s, t \in S : \A p \in PagesIn(s) : p \in PagesIn(t) => s = t
    BY <2>1, <2>5, <2>6
  <2>11. S \subseteq Ranges /\ \A s \in S : PagesIn(s) \subseteq PagesIn(r)
    BY <2>1, <2>3, <2>4, <2>5, <2>6
  <2>12. \A s \in S : \/ \A p \in PagesIn(s) : ~InBlock(p, b)
                      \/ s.nid = b.nid /\ \A p \in PagesIn(s) : InBlock(p, b)
    BY <2>1, <2>3, <2>5, <2>6
  <2> QED BY <2>7, <2>9, <2>10, <2>11, <2>12 DEF S
<1>7. CASE ~(End(r) <= b.start \/ r.start >= b.end) /\ ~(r.start < b.start) /\ ~(End(r) > b.end)
  <2> DEFINE u == [r EXCEPT !.nid = b.nid]
  <2>1. S = {u}
    BY <1>7 DEF SplitAt
  <2>2. u \in Ranges /\ u.start = r.start /\ u.npages = r.npages /\ u.nid = b.nid
    BY <1>2 DEF Ranges
  <2> HIDE DEF u, S
  <2>3. PagesIn(u) = PagesIn(r)
    BY <2>2 DEF PagesIn, End
  <2>4. \A p \in PagesIn(r) : InBlock(p, b)
    BY <1>1, <1>2, <1>7 DEF InBlock
  <2>5. r.start \in PagesIn(r)
    BY <1>1
  <2>6. PagesIn(r) \subseteq UNION {PagesIn(s) : s \in S}
    BY <2>1, <2>3
  <2> QED BY <2>1, <2>2, <2>3, <2>4, <2>5, <2>6 DEF S
<1> QED BY <1>4, <1>5, <1>6, <1>7

\* early_set_nid_range for the next block.
LEMMA NumaStep ==
  ASSUME EarlyInv, NumaInit
  PROVE  EarlyInv'
<1> DEFINE b == FirstBlock(todo)
           S(r) == SplitAt(r, b.start, b.end, b.nid)
<1>0. ControlInv /\ RangesInv /\ PlacedInv /\ FoundInv /\ OwnInv /\ machine \in Machines
  BY DEF EarlyInv, ControlInv
<1>1. /\ at = "numa" /\ todo # {} /\ todo \subseteq machine.memblocks
      /\ todo' = todo \ {b} /\ UNCHANGED <<machine, at, count, taken>>
      /\ free_pages' = UNION {S(r) : r \in free_pages}
  BY <1>0 DEF NumaInit, ControlInv
<1>2. \A c \in machine.memblocks :
        c.start \in Nat /\ c.end \in Nat /\ c.start < c.end /\ c.nid \in Nat
  BY <1>0, MachineFacts
<1>3. b \in todo /\ \A c \in todo : b.nid < c.nid \/ (b.nid = c.nid /\ b.start <= c.start)
  BY <1>1, <1>2, FirstBlockFacts
<1> HIDE DEF b
<1>4. b \in machine.memblocks
  BY <1>1, <1>3
<1>5. /\ free_pages \subseteq Ranges /\ taken \subseteq Nat
      /\ \A r, s \in free_pages : \A p \in PagesIn(r) : p \in PagesIn(s) => r = s
      /\ \A r \in free_pages : \A p \in PagesIn(r) : p \notin taken
  BY <1>0 DEF RangesInv
<1>6. ASSUME NEW r \in free_pages
      PROVE  /\ S(r) \subseteq Ranges
             /\ \A s \in S(r) : PagesIn(s) \subseteq PagesIn(r)
             /\ \A s, t \in S(r) : \A p \in PagesIn(s) : p \in PagesIn(t) => s = t
             /\ \A s \in S(r) : \/ \A p \in PagesIn(s) : ~InBlock(p, b)
                                \/ s.nid = b.nid /\ \A p \in PagesIn(s) : InBlock(p, b)
             /\ (\A p \in PagesIn(r) : ~InBlock(p, b)) => S(r) = {r}
             /\ \/ r.start < b.start /\ End(r) > b.end
                \/ PagesIn(r) \subseteq UNION {PagesIn(s) : s \in S(r)}
  <2>1. r \in Ranges
    BY <1>5
  <2> QED BY <1>0, <1>4, <2>1, SplitFacts
<1> HIDE DEF S
<1>7. ASSUME NEW r \in free_pages, NEW p \in PagesIn(r)
      PROVE  /\ \E c \in machine.memblocks : InBlock(p, c)
             /\ \A c, d \in machine.memblocks : InBlock(p, c) /\ InBlock(p, d) => c = d
  <2>1. p \in FreePages
    BY <1>7, FreeFacts
  <2>2. PICK x \in machine.e820 : Holds(x, p)
    BY <1>0, <2>1 DEF PlacedInv
  <2>3. p \in Nat
    BY <2>2 DEF Holds
  <2> QED BY <1>0, <2>2, <2>3, OneBlock
<1>8. \A c \in machine.memblocks : c \notin todo =>
        \A r \in free_pages :
          \/ \A p \in PagesIn(r) : ~InBlock(p, c)
          \/ r.nid = c.nid /\ \A p \in PagesIn(r) : InBlock(p, c)
  BY <1>0, <1>1 DEF OwnInv
<1>9. \A s : s \in free_pages' <=> \E r \in free_pages : s \in S(r)
  BY <1>1
<1>10. RangesInv'
  <2>1. Ranges' = Ranges
    BY <1>1, MachineSame
  <2>2. free_pages' \subseteq Ranges' /\ taken' \subseteq Nat
    BY <1>1, <1>5, <1>6, <1>9, <2>1
  <2>3. ASSUME NEW s \in free_pages', NEW t \in free_pages', NEW p \in PagesIn(s),
               p \in PagesIn(t)
        PROVE  s = t
    <3>1. PICK r \in free_pages : s \in S(r)
      BY <1>9
    <3>2. PICK q \in free_pages : t \in S(q)
      BY <1>9
    <3>3. p \in PagesIn(r) /\ p \in PagesIn(q)
      BY <1>6, <2>3, <3>1, <3>2
    <3>4. r = q
      BY <1>5, <3>3
    <3> QED BY <1>6, <2>3, <3>1, <3>2, <3>4
  <2>4. \A s \in free_pages' : \A p \in PagesIn(s) : p \notin taken'
    BY <1>1, <1>5, <1>6, <1>9
  <2> QED BY <2>2, <2>3, <2>4 DEF RangesInv, PagesIn, End
<1>11. \A p : p \in FreePages' <=> \E s \in free_pages' : p \in PagesIn(s)
  BY DEF FreePages, PagesIn, End
<1>12. Owned' \subseteq Owned
  <2>1. \A p \in FreePages' : p \in FreePages
    BY <1>6, <1>9, <1>11, FreeFacts
  <2> QED BY <1>1, <2>1 DEF Owned
<1>13. InOrder => Owned \subseteq Owned'
  <2> SUFFICES ASSUME InOrder, NEW r \in free_pages, NEW p \in PagesIn(r)
               PROVE  p \in FreePages'
    BY <1>1, FreeFacts DEF Owned
  <2>1. CASE r.start < b.start /\ End(r) > b.end
    <3>1. /\ r.start \in Nat /\ End(r) \in Nat
          /\ \A q : q \in PagesIn(r) <=> q \in Nat /\ r.start <= q /\ q < End(r)
      BY <1>5, RangeFacts
    <3>2. r.start \in PagesIn(r) /\ b.start \in PagesIn(r) /\ InBlock(b.start, b)
      BY <1>2, <1>4, <2>1, <3>1 DEF InBlock
    <3>3. PICK c \in machine.memblocks : InBlock(r.start, c)
      BY <1>7, <3>2
    <3>4. c.start < b.start
      BY <1>2, <1>4, <2>1, <3>1, <3>3 DEF InBlock
    <3>5. c.nid <= b.nid
      BY <1>4, <3>4 DEF InOrder
    <3>6. c \notin todo
      <4>1. b.nid \in Nat /\ c.nid \in Nat /\ b.start \in Nat /\ c.start \in Nat
        BY <1>2, <1>4
      <4> QED BY <1>3, <3>4, <3>5, <4>1
    <3>7. InBlock(b.start, c)
      BY <1>8, <3>2, <3>3, <3>6
    <3>8. c = b
      BY <1>4, <1>7, <3>2, <3>7
    <3> QED BY <1>3, <3>6, <3>8
  <2>2. CASE PagesIn(r) \subseteq UNION {PagesIn(s) : s \in S(r)}
    BY <1>9, <1>11, <2>2
  <2> QED BY <1>6, <2>1, <2>2
<1>14. \A x, p : Visited(x, p)' <=> Visited(x, p)
  BY <1>1 DEF Visited
<1>15. PlacedInv'
  BY <1>0, <1>1, <1>12, <1>14, PlacedStep
<1>16. FoundInv'
  <2>1. at' \notin {"up", "aborted"} /\ at \notin {"up", "aborted"}
    BY <1>1
  <2> QED BY <1>0, <1>1, <1>13, <1>14, <2>1, FoundStep
<1>17. OwnInv'
  <2> SUFFICES ASSUME NEW c \in machine.memblocks, c = b \/ c \notin todo,
                      NEW s \in free_pages'
               PROVE  \/ \A p \in PagesIn(s) : ~InBlock(p, c)
                      \/ s.nid = c.nid /\ \A p \in PagesIn(s) : InBlock(p, c)
    BY <1>1, <1>3 DEF OwnInv, PagesIn, End, InBlock
  <2>1. PICK r \in free_pages : s \in S(r)
    BY <1>9
  <2>2. CASE c = b
    BY <1>6, <2>1, <2>2
  <2>3. CASE c # b /\ \A p \in PagesIn(r) : ~InBlock(p, c)
    BY <1>6, <2>1, <2>3
  <2>4. CASE c # b /\ r.nid = c.nid /\ \A p \in PagesIn(r) : InBlock(p, c)
    <3>1. \A p \in PagesIn(r) : ~InBlock(p, b)
      BY <1>4, <1>7, <2>4
    <3>2. s = r
      BY <1>6, <2>1, <3>1
    <3> QED BY <2>4, <3>2
  <2> QED BY <1>8, <2>2, <2>3, <2>4
<1>18. ControlInv'
  BY <1>0, <1>1 DEF ControlInv, Places
<1> QED BY <1>10, <1>15, <1>16, <1>17, <1>18 DEF EarlyInv

-----------------------------------------------------------------------------
(* The invariant and what follows from it *)

\* PageAllocator::Init leaves the tree empty; what was taken stays taken.
LEMMA ReleaseStep ==
  ASSUME EarlyInv, PageAllocatorInit
  PROVE  EarlyInv'
<1>0. ControlInv /\ RangesInv /\ PlacedInv
  BY DEF EarlyInv
<1>1. /\ at = "release" /\ at' = "up" /\ free_pages' = {}
      /\ UNCHANGED <<machine, todo, count, taken>>
  BY DEF PageAllocatorInit
<1>2. ControlInv'
  BY <1>0, <1>1 DEF ControlInv, Places
<1>3. RangesInv'
  BY <1>0, <1>1 DEF RangesInv
<1>4. \A x, p : Visited(x, p)'
  BY <1>1 DEF Visited
<1>5. Owned' \subseteq Owned
  BY <1>1 DEF Owned, FreePages
<1>6. PlacedInv'
  BY <1>0, <1>1, <1>4, <1>5, PlacedStep
<1>7. FoundInv' /\ OwnInv'
  BY <1>1 DEF FoundInv, OwnInv
<1> QED BY <1>2, <1>3, <1>6, <1>7 DEF EarlyInv

\* EarlyInv holds from the firmware's map on: in kmain's loops, while pages
\* are taken, in numa_init, and while the page allocators run.
THEOREM EarlyInvariant == BootSpec => []EarlyInv
<1>1. BootInit => EarlyInv
  <2> SUFFICES ASSUME BootInit PROVE EarlyInv
    OBVIOUS
  <2>1. /\ machine \in Machines /\ at = "low" /\ todo = machine.e820 /\ count = 0
        /\ free_pages = {} /\ taken = {}
    BY DEF BootInit, EarlyInit
  <2>2. ControlInv
    BY <2>1, EarlyAssumption DEF ControlInv, Places
  <2>3. RangesInv
    BY <2>1 DEF RangesInv
  <2>4. PlacedInv
    BY <2>1 DEF PlacedInv, FreePages
  <2>5. FoundInv
    BY <2>1 DEF FoundInv, Visited
  <2>6. OwnInv
    BY <2>1 DEF OwnInv
  <2> QED BY <2>2, <2>3, <2>4, <2>5, <2>6 DEF EarlyInv
<1>2. EarlyInv /\ [BootNext]_memVars => EarlyInv'
  <2> SUFFICES ASSUME EarlyInv, [BootNext]_memVars PROVE EarlyInv'
    OBVIOUS
  <2>1. CASE EarlyNext
    BY <2>1, FreeLowStep, FreeHighStep, TakingSteps, NumaStep, ControlSteps DEF EarlyNext
  <2>2. CASE PageAllocatorInit
    BY <2>2, ReleaseStep
  <2>3. CASE UNCHANGED earlyVars
    <3>1. UNCHANGED <<machine, at, todo, count, free_pages, taken>>
      BY <2>3 DEF earlyVars
    <3>2. ControlInv' /\ RangesInv'
      BY <3>1, TreeSame DEF EarlyInv, ControlInv
    <3>3. \A x, p : Visited(x, p)' <=> Visited(x, p)
      BY <3>1 DEF Visited, Low, Addr
    <3>4. Owned' = Owned
      BY <3>1, TreeSame
    <3>5. PlacedInv'
      BY <3>1, <3>3, <3>4, PlacedStep DEF EarlyInv
    <3>6. FoundInv'
      BY <3>1, <3>3, <3>4, FoundStep DEF EarlyInv, ControlInv
    <3>7. OwnInv'
      BY <3>1 DEF EarlyInv, OwnInv, PagesIn, End, InBlock
    <3> QED BY <3>2, <3>5, <3>6, <3>7 DEF EarlyInv
  <2> QED BY <2>1, <2>2, <2>3 DEF BootNext, memVars
<1> QED BY <1>1, <1>2, PTL DEF BootSpec

\* After numa_init every free range lies in the memory of its node, for every
\* firmware map and every set of memory blocks (early_set_nid_range).
THEOREM NodesAlwaysOwnTheirPages == BootSpec => []NodesOwnTheirPages
<1>1. EarlyInv => NodesOwnTheirPages
  <2> SUFFICES ASSUME EarlyInv, at \in {"mem_map", "trans", "release"},
                      NEW r \in free_pages, NEW p \in PagesIn(r)
               PROVE  \E b \in machine.memblocks :
                        b.nid = r.nid /\ p \in b.start .. (b.end - 1)
    BY DEF NodesOwnTheirPages
  <2>1. machine \in Machines
    BY DEF EarlyInv, ControlInv
  <2>2. PICK x \in machine.e820 : Holds(x, p)
    BY FreeFacts DEF EarlyInv, PlacedInv
  <2>3. p \in Nat
    BY <2>2 DEF Holds
  <2>4. PICK b \in machine.memblocks : InBlock(p, b)
    BY <2>1, <2>2, <2>3, OneBlock
  <2>5. b.nid = r.nid
    BY <2>4 DEF EarlyInv, OwnInv
  <2>6. p \in b.start .. (b.end - 1)
    BY <2>1, <2>3, <2>4, MachineFacts DEF InBlock
  <2> QED BY <2>5, <2>6
<1> QED BY <1>1, EarlyInvariant, PTL

\* A usable page is one that a region holds.
LEMMA UsableFacts ==
  ASSUME machine \in Machines
  PROVE  \A p : p \in Usable <=> \E x \in machine.e820 : Holds(x, p)
<1>1. ASSUME NEW p, NEW x \in machine.e820,
             p \in pfn_down(x.addr) .. pfn_down(x.addr + x.length)
      PROVE  p \in Nat
  <2>1. x.addr \in Nat /\ x.addr + x.length \in Nat
    BY MachineFacts
  <2>2. pfn_down(x.addr) \in Nat /\ pfn_down(x.addr + x.length) \in Nat
    BY <2>1, PfnFacts
  <2> QED BY <1>1, <2>2
<1>2. \A p \in Nat : p * PAGE_SIZE = Addr(p) /\ (p + 1) * PAGE_SIZE = Addr(p) + PAGE_SIZE
  BY AddrFacts DEF Addr
<1>3. \A p : p \in Usable <=>
        \E x \in machine.e820 :
          /\ p \in pfn_down(x.addr) .. pfn_down(x.addr + x.length)
          /\ machine.kend <= p * PAGE_SIZE
          /\ x.addr <= p * PAGE_SIZE
          /\ (p + 1) * PAGE_SIZE <= x.addr + x.length
  BY DEF Usable
<1>4. ASSUME NEW p \in Usable PROVE \E x \in machine.e820 : Holds(x, p)
  BY <1>1, <1>2, <1>3 DEF Holds
<1>5. ASSUME NEW p, NEW x \in machine.e820, Holds(x, p) PROVE p \in Usable
  <2>1. p \in Nat
    BY <1>5 DEF Holds
  <2>2. p \in pfn_down(x.addr) .. pfn_down(x.addr + x.length)
    BY <1>5, <2>1, HeldPages
  <2> QED BY <1>2, <1>3, <1>5, <2>1, <2>2 DEF Holds
<1> QED BY <1>4, <1>5

\* No usable page is forgotten on its way through the tree, except the last
\* one of a region that begins within a page, where nodes are numbered in the
\* order of their memory.
THEOREM NoPageEverLost == BootSpec => []NoPageLost
<1>1. EarlyInv => NoPageLost
  <2> SUFFICES ASSUME EarlyInv, at \in {"acpi", "numa", "mem_map", "trans", "release"},
                      InOrder, NEW p \in Usable, p \notin LastPages
               PROVE  p \in FreePages \cup taken
    BY DEF NoPageLost
  <2>1. machine \in Machines
    BY DEF EarlyInv, ControlInv
  <2>2. PICK x \in machine.e820 : Holds(x, p)
    BY <2>1, UsableFacts
  <2>3. p \in Nat
    BY <2>2 DEF Holds
  <2>4. p \in pfn_down(x.addr) .. pfn_down(x.addr + x.length)
    BY <2>1, <2>2, <2>3, HeldPages
  <2>5. Visited(x, p)
    BY DEF Visited
  <2> QED BY <2>2, <2>4, <2>5 DEF EarlyInv, FoundInv
<1> QED BY <1>1, EarlyInvariant, PTL

\* No page is in two free ranges, or free and given out, and none is below
\* the kernel's end or outside the usable memory of the firmware's map.
THEOREM EarlyRangesAlwaysDisjoint == BootSpec => []EarlyRangesDisjoint
<1>1. EarlyInv => EarlyRangesDisjoint
  <2> SUFFICES ASSUME EarlyInv PROVE EarlyRangesDisjoint
    OBVIOUS
  <2>1. machine \in Machines
    BY DEF EarlyInv, ControlInv
  <2>2. \A r, s \in free_pages : r # s => PagesIn(r) \cap PagesIn(s) = {}
    BY DEF EarlyInv, RangesInv
  <2>3. FreePages \cup taken \subseteq Usable
    BY <2>1, UsableFacts DEF EarlyInv, PlacedInv
  <2>4. FreePages \cap taken = {}
    BY FreeFacts DEF EarlyInv, RangesInv
  <2> QED BY <2>2, <2>3, <2>4 DEF EarlyRangesDisjoint
<1> QED BY <1>1, EarlyInvariant, PTL

-----------------------------------------------------------------------------
(* The hand-over to the page allocators *)

\* Before it they have no memory; none they have had from it was given out.
HandedOver ==
  /\ at # "up" => layout = {} /\ held = {} /\ op = [n \in Nodes |-> Idle] /\ raced = FALSE
  /\ Memory \cap taken = {}

\* The ranges release_free_pages passes on are fit for PageAllocator::Init.
LEMMA ReleasedLayout ==
  ASSUME EarlyInv, at = "release"
  PROVE  GoodLayout({[start |-> r.start, end |-> End(r), nid |-> r.nid] : r \in free_pages})
<1> DEFINE l == {[start |-> r.start, end |-> End(r), nid |-> r.nid] : r \in free_pages}
<1>1. machine \in Machines /\ free_pages \subseteq Ranges
  BY DEF EarlyInv, ControlInv, RangesInv
<1>2. ASSUME NEW r \in free_pages
      PROVE  /\ r.start \in Nat /\ End(r) \in Nat /\ r.start < End(r) /\ End(r) <= NumPages
             /\ r.nid \in Nodes
             /\ \A p : p \in PagesIn(r) <=> p \in Nat /\ r.start <= p /\ p < End(r)
  <2>1. /\ r.start \in Nat /\ End(r) \in Nat /\ r.start < End(r)
        /\ \A p : p \in PagesIn(r) <=> p \in Nat /\ r.start <= p /\ p < End(r)
    BY <1>1, RangeFacts
  <2> DEFINE p == End(r) - 1
  <2>2. p \in Nat /\ p \in PagesIn(r)
    BY <2>1
  <2> HIDE DEF p
  <2>3. PICK x \in machine.e820 : Holds(x, p)
    BY <2>2, FreeFacts DEF EarlyInv, PlacedInv
  <2>4. PICK b \in machine.memblocks : InBlock(p, b)
    BY <1>1, <2>2, <2>3, OneBlock
  <2>5. r.nid = b.nid
    BY <2>2, <2>4 DEF EarlyInv, OwnInv
  <2>6. b.nid \in Nodes /\ b.end <= NumPages /\ b.end \in Nat
    BY <1>1, MachineFacts, BootAssumption
  <2>7. End(r) <= NumPages
    BY <2>1, <2>4, <2>6, PageAssumption DEF InBlock, p
  <2>8. QED
    BY <2>1, <2>5, <2>6, <2>7
<1>3. ASSUME NEW r \in free_pages, NEW s \in free_pages, r # s
      PROVE  End(r) <= s.start \/ End(s) <= r.start
  <2>1. \A p \in PagesIn(r) : p \notin PagesIn(s)
    BY <1>3 DEF EarlyInv, RangesInv
  <2>2. CASE r.start <= s.start
    <3>1. s.start \in PagesIn(s)
      BY <1>2
    <3>2. s.start \notin PagesIn(r)
      BY <2>1, <3>1
    <3>3. QED
      BY <1>2, <2>2, <3>2
  <2>3. CASE s.start <= r.start
    <3>1. r.start \in PagesIn(r)
      BY <1>2
    <3>2. r.start \notin PagesIn(s)
      BY <2>1, <3>1
    <3>3. QED
      BY <1>2, <2>3, <3>2
  <2>4. r.start \in Nat /\ s.start \in Nat
    BY <1>2
  <2>5. QED
    BY <2>2, <2>3, <2>4
<1>4. \A y \in l : \E r \in free_pages : y.start = r.start /\ y.end = End(r) /\ y.nid = r.nid
                                         /\ y = [start |-> r.start, end |-> End(r), nid |-> r.nid]
  OBVIOUS
<1> HIDE DEF l
<1>5. \A y \in l : y.start \in Pages /\ y.end \in y.start + 1 .. NumPages /\ y.nid \in Nodes
  <2> TAKE y \in l
  <2>1. PICK r \in free_pages : y.start = r.start /\ y.end = End(r) /\ y.nid = r.nid
    BY <1>4
  <2>2. QED
    BY <1>2, <2>1, PageAssumption DEF Pages
<1>6. \A y, z \in l : y # z => y.end <= z.start \/ z.end <= y.start
  <2> TAKE y \in l, z \in l
  <2> HAVE y # z
  <2>1. PICK r \in free_pages : y.start = r.start /\ y.end = End(r) /\ y.nid = r.nid
                                /\ y = [start |-> r.start, end |-> End(r), nid |-> r.nid]
    BY <1>4
  <2>2. PICK s \in free_pages : z.start = s.start /\ z.end = End(s) /\ z.nid = s.nid
                                /\ z = [start |-> s.start, end |-> End(s), nid |-> s.nid]
    BY <1>4
  <2>3. r # s
    BY <2>1, <2>2
  <2>4. QED
    BY <1>3, <2>1, <2>2, <2>3
<1>7. QED
  BY <1>5, <1>6 DEF GoodLayout, l

\* PageAllocator::Init establishes the page allocators' invariant.
LEMMA HandOverStep ==
  ASSUME EarlyInv, HandedOver, PageAllocatorInit
  PROVE  PagesInv' /\ HandedOver'
<1> DEFINE l == {[start |-> r.start, end |-> End(r), nid |-> r.nid] : r \in free_pages}
<1>1. /\ at = "release" /\ layout' = l /\ at' = "up"
      /\ free_page_lists' = EarlyLists(layout')
      /\ usage' = EarlyUsage(layout')
      /\ order' = EarlyOrder(layout')
      /\ taken' = taken /\ held' = {} /\ op' = [n \in Nodes |-> Idle] /\ raced' = FALSE
  BY DEF PageAllocatorInit, HandedOver
<1>2. PageStart'
  <2>1. GoodLayout(layout')
    BY <1>1, ReleasedLayout
  <2>2. QED
    BY <1>1, <2>1 DEF PageStart, GoodLayout, EarlyLists, EarlyUsage, EarlyOrder, Pages
<1>3. PagesInv'
  <2>1. PageStart' => PageInv'
    BY StartInv, PTL
  <2>2. PageInv' /\ raced' \in BOOLEAN
    BY <1>1, <1>2, <2>1
  <2>3. TypeOK'
    BY <2>2 DEF PageInv, StateInv, TypeOK
  <2>4. QED
    BY <2>2, <2>3 DEF PagesInv
<1>4. Memory' \cap taken' = {}
  <2>1. Memory' = UNION {y.start .. (y.end - 1) : y \in l}
    BY <1>1 DEF Memory
  <2>2. \A q : q \in Memory' => \E r \in free_pages : q \in PagesIn(r)
    <3> SUFFICES ASSUME NEW q \in Memory' PROVE \E r \in free_pages : q \in PagesIn(r)
      OBVIOUS
    <3>1. PICK y \in l : q \in y.start .. (y.end - 1)
      BY <2>1
    <3>2. PICK r \in free_pages : y = [start |-> r.start, end |-> End(r), nid |-> r.nid]
      BY <3>1
    <3>3. QED
      BY <3>1, <3>2 DEF PagesIn
  <2>3. QED
    BY <1>1, <2>2 DEF EarlyInv, RangesInv
<1>5. QED
  BY <1>1, <1>3, <1>4 DEF HandedOver

BootInv == EarlyInv /\ PagesInv /\ HandedOver

\* BootInv holds from the firmware's map on: the early allocator's part, the
\* page allocators', and what the hand-over keeps between them.
THEOREM BootInvariant == BootSpec => []BootInv
<1>1. BootInit => PagesInv /\ HandedOver
  <2> SUFFICES ASSUME BootInit PROVE PagesInv /\ HandedOver
    OBVIOUS
  <2>1. /\ free_page_lists = [n \in Nodes |-> [k \in Orders |-> <<>>]]
        /\ usage = [p \in Pages |-> "RESERVED"] /\ order = [p \in Pages |-> 0]
        /\ held = {} /\ layout = {} /\ op = [n \in Nodes |-> Idle] /\ raced = FALSE
    BY DEF BootInit
  <2>2. Memory = {}
    BY <2>1 DEF Memory
  <2>3. \A n \in Nodes, k \in Orders : free_page_lists[n][k] = <<>>
    BY <2>1
  <2>4. \A n \in Nodes, x \in Blocks : ~Listed(n, x)
    <3> TAKE n \in Nodes, x \in Blocks
    <3>1. free_page_lists[n][x.order] = <<>>
      BY <2>3, OrderFacts
    <3>2. QED
      BY <3>1 DEF Listed, On
  <2>5. AllBlocks = {} /\ FreeBlocks = {}
    BY <2>1, <2>4 DEF AllBlocks, FreeBlocks
  <2>6. StateInv
    <3>1. <<>> \in Seq(Pages) /\ 0 \in Orders
      BY OrderFacts DEF Orders
    <3>2. QED
      BY <2>1, <2>2, <3>1, IdleFacts DEF StateInv, GoodLayout, Usages
  <2>7. PartitionInv
    BY <2>2, <2>5 DEF PartitionInv, Apart, Covered
  <2>8. PlacesInv
    BY <2>1, <2>3, <2>4 DEF PlacesInv, Once
  <2>9. MarksInv
    BY <2>1, <2>5 DEF MarksInv
  <2>10. OpInv
    BY <2>1, IdleFacts DEF OpInv, Has
  <2>11. PageInv
    BY <2>6, <2>7, <2>8, <2>9, <2>10 DEF PageInv
  <2>12. QED
    BY <2>1, <2>2, <2>11, PageInvTypes DEF PagesInv, HandedOver
<1>2. EarlyInv /\ PagesInv /\ HandedOver /\ [BootNext]_memVars => PagesInv' /\ HandedOver'
  <2> SUFFICES ASSUME EarlyInv, PagesInv, HandedOver, [BootNext]_memVars
               PROVE  PagesInv' /\ HandedOver'
    OBVIOUS
  <2>1. CASE EarlyNext /\ UNCHANGED paVars
    <3>1. PagesInv'
      BY <2>1, PageNext
    <3>2. at # "up"
      BY <2>1 DEF EarlyNext, FreeLow, MapTable, MapDone, LowDone, FreeHigh, HighDone, AcpiDone,
                  NumaInit, NumaDone, MemMapInit, MemMapDone, TransInit, TransDone
    <3>3. layout' = {} /\ held' = {} /\ op' = [n \in Nodes |-> Idle] /\ raced' = FALSE
      BY <2>1, <3>2 DEF HandedOver, paVars
    <3>4. QED
      BY <3>1, <3>3 DEF HandedOver, Memory
  <2>2. CASE PageAllocatorInit
    BY <2>2, HandOverStep
  <2>3. CASE at = "up" /\ Next /\ UNCHANGED earlyVars
    <3>1. PagesInv'
      BY <2>3, PageNext
    <3>2. at' = "up" /\ taken' = taken /\ layout' = layout
      BY <2>3 DEF earlyVars, Next, Alloc, Split, Free, Test, Erase, Push
    <3>3. QED
      BY <3>1, <3>2 DEF HandedOver, Memory
  <2>4. CASE UNCHANGED memVars
    <3>1. PagesInv'
      BY <2>4, PageNext DEF memVars
    <3>2. QED
      BY <2>4, <3>1 DEF memVars, earlyVars, paVars, HandedOver, Memory
  <2>5. QED
    BY <2>1, <2>2, <2>3, <2>4 DEF BootNext
<1>3. QED
  BY <1>1, <1>2, EarlyInvariant, PTL DEF BootSpec, BootInv

\* From the firmware's map on and until two nodes meet in a list, every page of
\* memory the nodes were given is in one block, on one list, with one caller or
\* in the hands of one operation, after each of their steps
\* (release_free_pages, Init, Alloc, Free).
THEOREM PagesAlwaysPartitioned == BootSpec => []PagesPartitioned
<1>1. BootInv => PagesPartitioned
  BY PageInvPartitions DEF BootInv, PagesInv, PagesPartitioned
<1>2. QED
  BY <1>1, BootInvariant, PTL

\* With whatever the early allocator has left, a buddy that passes Free's test
\* is on a list or has just been taken from one by another node.
THEOREM CoalescesAlwaysFreeBlocks == BootSpec => []CoalescesOnlyFreeBlocks
<1>1. BootInv => CoalescesOnlyFreeBlocks
  BY FreesWhatIsFree DEF BootInv, PagesInv, CoalescesOnlyFreeBlocks
<1>2. QED
  BY <1>1, BootInvariant, PTL

\* No page has two users, from the firmware's map to the page allocators'
\* life until two nodes meet in a list: what was given out early is in no free
\* range and in no block.
THEOREM PagesAlwaysDisjoint == BootSpec => []EarlyPagesDisjoint
<1>1. BootInv /\ EarlyRangesDisjoint => EarlyPagesDisjoint
  <2> SUFFICES ASSUME BootInv, EarlyRangesDisjoint PROVE EarlyPagesDisjoint
    OBVIOUS
  <2>1. TypeOK /\ Memory \cap taken = {}
    BY DEF BootInv, PagesInv, HandedOver
  <2>2. EarlyTypeOK
    BY RangeFacts DEF BootInv, EarlyInv, ControlInv, RangesInv, EarlyTypeOK, Ranges
  <2>3. ~raced => /\ \A t \in FreeEntries : Entry(t) \subseteq Memory
                  /\ \A b \in held : Extent(b.pfn, b.order) \subseteq Memory
    <3> SUFFICES ASSUME ~raced
                 PROVE  /\ \A t \in FreeEntries : Entry(t) \subseteq Memory
                        /\ \A b \in held : Extent(b.pfn, b.order) \subseteq Memory
      OBVIOUS
    <3>1. Memory = UNION ({Entry(t) : t \in FreeEntries}
                            \cup {Extent(b.pfn, b.order) : b \in held})
      BY PageInvPartitions DEF BootInv, PagesInv, PagesPartitioned
    <3>2. QED
      BY <3>1
  <2>4. QED
    BY <2>1, <2>2, <2>3 DEF EarlyPagesDisjoint, BootTypeOK
<1>2. QED
  BY <1>1, BootInvariant, EarlyRangesAlwaysDisjoint, PTL
=============================================================================
