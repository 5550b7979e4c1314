--------------------------- MODULE SmpStartProofs ---------------------------
(***************************************************************************)
(* The start of the other cores and the virtual memory they share, proved  *)
(* for any number of cores, pages and BARs: boot stacks and regions are    *)
(* handed out once, every core finds its own EventManager, the barrier     *)
(* holds, and no core changes what another one has mapped.                 *)
(*                                                                         *)
(* Alloc passes over a region with a fault handler only, so the region of  *)
(* a BAR counts as free and may be handed out again.  What depends on it   *)
(* is proved for machines where that cannot happen (OneSmallBar).          *)
(***************************************************************************)
EXTENDS SmpStart, TLAPS, FiniteSetTheorems, WellFoundedInduction

-----------------------------------------------------------------------------
(* The inductive invariant *)

BeforePop == {"off", "pop", "cmpxchg"}
OnBootTable == BeforePop \cup {"main"}
BeforeTables == OnBootTable \cup {"root", "trans"}
InBarrier == {"wait", "arrive", "release", "spin", "up"}
InSmpInit == {"smp_init", "ipi"}

\* What the tables of core c are, by how far it has come.
TablesOf(c) ==
  /\ at[c] \in OnBootTable => cr3[c] = None /\ pml4[c] = None
  /\ at[c] = "root" => cr3[c] = Boot /\ pml4[c] = None
  /\ at[c] = "trans" => cr3[c] = c /\ pml4[c] = Boot
  /\ at[c] \notin BeforeTables =>
       cr3[c] = c /\ pml4[c] = c /\ tree[c][TransPage] = c

\* Where core c may be, and its EventManager.
PlaceOf(c) ==
  /\ c \notin cpus => at[c] = "off"
  /\ c = Boot => at[c] \in InSmpInit \cup InBarrier
  /\ c # Boot => at[c] \notin InSmpInit
  /\ ref[c] = IF at[c] \in InBarrier \cup InSmpInit THEN c ELSE None

\* The stack of core c, and what it asks Alloc for.
StackOf(c) ==
  /\ at[c] \in BeforeTables \cup {"deref"} => stack[c] = None
  /\ at[c] \in InBarrier \cup InSmpInit => stack[c] # None
  /\ at[c] = "construct" /\ pc[c] = "out" => stack[c] # None
  /\ pc[c] # "out" => at[c] \in {"construct", "up"}
  /\ pc[c] # "out" =>
       \/ req[c] = [npages |-> STACK_NPAGES, bar |-> None] /\ pc[c] # "map"
       \/ /\ at[c] = "up" /\ c = Boot
          /\ \E b \in Bars : req[c] = [npages |-> BarPages, bar |-> b]
  /\ pc[c] = "map" =>
       /\ vaddr_[req[c].bar] \in VPages
       /\ vaddr_[req[c].bar] + BarPages <= NumVPages

\* A core that has faulted waits for a page of its stack.
FaultOf(c) ==
  fault[c] # None =>
    /\ stack[c] # None
    /\ fault[c] \in stack[c] .. (stack[c] + STACK_NPAGES - 1)
    /\ tree[c][fault[c]] = None

CoreInv == \A c \in Cores : TablesOf(c) /\ PlaceOf(c) /\ StackOf(c) /\ FaultOf(c)

\* The regions are intervals that neither overlap nor leave a gap.
Tiling ==
  /\ \A r \in regions_ : /\ r \in [begin : VPages, end : 0 .. NumVPages, handler : BOOLEAN]
                         /\ r.begin < r.end
                         /\ r.handler => r.end = r.begin + STACK_NPAGES
  /\ \A r, q \in regions_ : r # q => r.end <= q.begin \/ q.end <= r.begin
  /\ \A p \in VPages : \E r \in regions_ : p \in PagesOf(r)

StacksAreRegions ==
  \A c \in Cores : stack[c] # None =>
    Region(stack[c], stack[c] + STACK_NPAGES, TRUE) \in regions_

\* The fault handlers keep pages of their own regions, and never all of them.
HandlersKeep ==
  /\ \A p \in VPages : mappings_[p] # None =>
       \E r \in regions_ : r.handler /\ p \in PagesOf(r)
  /\ \A r \in regions_ : r.handler => \E p \in PagesOf(r) : mappings_[p] = None

RegionInv == Tiling /\ StacksAreRegions /\ HandlersKeep

\* The list of boot stacks is as long as there are cores that will pop it.
PopInv ==
  /\ at[Boot] = "smp_init" => /\ smp_stack_free = 0 /\ rsp[Boot] = 0
                              /\ \A c \in Cores \ {Boot} : at[c] = "off"
  /\ at[Boot] # "smp_init" =>
       smp_stack_free = Cardinality({c \in cpus : at[c] \in BeforePop})
  /\ \A c \in Cores : at[c] \in BeforePop => rsp[c] = 0
  /\ \A c \in Cores : rsp[c] # 0 => rsp[c] > smp_stack_free
  /\ BootStacksDistinct

Counting ==
  /\ completed_ = 0 /\ waiters_ = Cardinality({c \in cpus : at[c] = "spin"})
  /\ \A c \in cpus : at[c] \notin {"release", "up"}

Releasing ==
  /\ completed_ = 0 /\ waiters_ = 0
  /\ \E c \in cpus : at[c] = "release" /\ \A d \in cpus \ {c} : at[d] = "spin"

Done ==
  /\ completed_ = 1 /\ waiters_ = 0
  /\ \A c \in cpus : at[c] \in {"spin", "up"}

\* The barrier is used once: it counts, releases and is done.
BarrierInv == step = [c \in Cores |-> 0] /\ (Counting \/ Releasing \/ Done)

SmpInv == TypeOK /\ CoreInv /\ RegionInv /\ PopInv /\ BarrierInv

\* A machine with at most one mapped BAR, smaller than a stack: its region is
\* never handed out again.
OneSmallBar == BarPages < STACK_NPAGES /\ \A b, d \in Bars : b = d

\* The region of a BAR, and what the cores have mapped: pages that the fault
\* handlers keep, and the pages of the BAR once map() is through.
BarInv ==
  /\ \A b \in Bars : vaddr_[b] # None =>
       Region(vaddr_[b], vaddr_[b] + BarPages, FALSE) \in regions_
  /\ pc[Boot] \in {"want", "in"} /\ req[Boot].bar # None =>
       vaddr_[req[Boot].bar] = None
  /\ \A c \in Cores, p \in VPages : tree[c][p] # None =>
       \/ tree[c][p] = mappings_[p]
       \/ /\ pc[Boot] # "map"
          /\ \E b \in Bars : /\ vaddr_[b] # None
                             /\ p \in vaddr_[b] .. (vaddr_[b] + BarPages - 1)
  /\ aborted # "present"
SmallBarInv == OneSmallBar => BarInv

-----------------------------------------------------------------------------
(* Regions and page tables *)

\* A nonempty set of naturals that are at most n has a greatest element.
LEMMA Greatest ==
  ASSUME NEW n \in Nat, NEW S \in SUBSET (0 .. n), S # {}
  PROVE  \E x \in S : \A y \in S : y <= x
<1> DEFINE T == {n - x : x \in S}
<1>1. T \subseteq Nat /\ T # {}
  <2>1. \A x \in S : n - x \in Nat
    OBVIOUS
  <2>2. PICK x \in S : TRUE
    OBVIOUS
  <2>3. n - x \in T
    OBVIOUS
  <2> QED BY <2>1, <2>3
<1>2. PICK t \in T : \A u \in T : ~ (<<u, t>> \in OpToRel(<, Nat))
  <2> HIDE DEF T
  <2> QED BY <1>1, WFMin, NatLessThanWellFounded
<1>3. \A u \in T : t <= u
  <2> SUFFICES ASSUME NEW u \in T, u < t PROVE FALSE
    BY <1>1
  <2>1. <<u, t>> \in OpToRel(<, Nat)
    <3> HIDE DEF T
    <3> QED BY <1>1 DEF OpToRel
  <2> QED BY <1>2, <2>1
<1>4. PICK x \in S : t = n - x
  OBVIOUS
<1>5. \A y \in S : n - y \in T
  OBVIOUS
<1>6. \A y \in S : y <= x
  BY <1>3, <1>4, <1>5
<1> QED BY <1>6

\* The loop of Alloc ends at a region that fits, where there is one.
LEMMA LoopFinds ==
  ASSUME Tiling, NEW n \in Nat, Fits(n) # {}
  PROVE  LET r == CHOOSE x \in Fits(n) : \A y \in Fits(n) : y.begin <= x.begin
         IN  r \in Fits(n)
<1> DEFINE S == {x.begin : x \in Fits(n)}
<1>1. S \in SUBSET (0 .. NumVPages) /\ S # {}
  BY VMemAssumption DEF Tiling, Fits, VPages
<1>2. PICK b \in S : \A y \in S : y <= b
  <2> HIDE DEF S
  <2> QED BY <1>1, Greatest, VMemAssumption
<1>3. \E x \in Fits(n) : \A y \in Fits(n) : y.begin <= x.begin
  BY <1>2
<1> QED BY <1>3

\* HandlePageFault finds the region a page lies in.
LEMMA LowerBoundIs ==
  ASSUME Tiling, NEW r \in regions_, NEW p \in PagesOf(r)
  PROVE  LowerBound(p) = r
<1>1. p \in Int /\ r.begin <= p /\ p < r.end /\ r.begin \in Int /\ r.end \in Int
  BY VMemAssumption DEF Tiling, PagesOf, VPages
<1>2. \A q \in regions_ : q.begin <= p => q.begin <= r.begin
  BY <1>1, VMemAssumption DEF Tiling, VPages
<1>3. \A q \in regions_ : q.begin <= p /\ r.begin <= q.begin => q = r
  BY <1>1, VMemAssumption DEF Tiling, VPages
<1> QED BY <1>1, <1>2, <1>3 DEF LowerBound

\* Regions with a page in common are the same.
LEMMA SameRegion ==
  ASSUME Tiling, NEW r \in regions_, NEW q \in regions_,
         NEW p \in PagesOf(r), p \in PagesOf(q)
  PROVE  r = q
BY VMemAssumption DEF Tiling, PagesOf, VPages

\* Taking the last n pages of a region without a handler leaves a tiling; no
\* region with a handler goes away, and the only new one is what was taken.
LEMMA SplitTiling ==
  ASSUME Tiling, NEW r \in regions_, ~ r.handler,
         NEW n \in Nat \ {0}, n <= r.end - r.begin,
         NEW h \in BOOLEAN, h => n = STACK_NPAGES,
         regions_' = (regions_ \ {r}) \cup Remainder(r, n)
                       \cup {Region(r.end - n, r.end, h)}
  PROVE  /\ Tiling'
         /\ \A q \in regions_ : q.handler => q \in regions_'
         /\ \A q \in regions_' : q.handler =>
              q \in regions_ \/ q = Region(r.end - n, r.end, h)
<1> DEFINE new == Region(r.end - n, r.end, h)
           rest == Region(r.begin, r.end - n, FALSE)
<1>1. /\ r \in [begin : VPages, end : 0 .. NumVPages, handler : BOOLEAN]
      /\ r.begin \in Int /\ r.end \in Int /\ n \in Int
      /\ r.begin >= 0 /\ r.end <= NumVPages
  BY VMemAssumption DEF Tiling, VPages
<1>2. \A q \in Remainder(r, n) : q = rest /\ r.begin < r.end - n
  BY <1>1 DEF Remainder, Region
<1>3. r.end - n # r.begin => rest \in regions_'
  BY <1>1 DEF Remainder, Region
<1>4. /\ new.begin = r.end - n /\ new.end = r.end /\ new.handler = h
      /\ rest.begin = r.begin /\ rest.end = r.end - n /\ rest.handler = FALSE
  BY DEF Region
<1>5. \A q \in regions_' : \/ q \in regions_ /\ q # r
                           \/ q = rest /\ r.begin < r.end - n
                           \/ q = new
  BY <1>2
<1>6. /\ new \in [begin : VPages, end : 0 .. NumVPages, handler : BOOLEAN]
      /\ r.begin < r.end - n =>
           rest \in [begin : VPages, end : 0 .. NumVPages, handler : BOOLEAN]
  BY <1>1, VMemAssumption DEF VPages, Region
<1> HIDE DEF new, rest
<1>7. \A q \in regions_ : q # r => q.end <= r.begin \/ r.end <= q.begin
  BY DEF Tiling
<1>8. \A q \in regions_ : q.begin \in Int /\ q.end \in Int
  BY VMemAssumption DEF Tiling, VPages
<1>9. \A x, y \in regions_' : x # y => x.end <= y.begin \/ y.end <= x.begin
  <2> SUFFICES ASSUME NEW x \in regions_', NEW y \in regions_', x # y
               PROVE  x.end <= y.begin \/ y.end <= x.begin
    OBVIOUS
  <2>1. CASE x \in regions_ /\ x # r /\ y \in regions_ /\ y # r
    BY <2>1 DEF Tiling
  <2>2. CASE x \in regions_ /\ x # r /\ ~(y \in regions_ /\ y # r)
    BY <2>2, <1>5, <1>4, <1>7, <1>8, <1>1
  <2>3. CASE y \in regions_ /\ y # r /\ ~(x \in regions_ /\ x # r)
    BY <2>3, <1>5, <1>4, <1>7, <1>8, <1>1
  <2>4. CASE ~(y \in regions_ /\ y # r) /\ ~(x \in regions_ /\ x # r)
    BY <2>4, <1>5, <1>4, <1>1
  <2> QED BY <2>1, <2>2, <2>3, <2>4
<1>10. \A p \in VPages : \E q \in regions_' : p \in PagesOf(q)
  <2> SUFFICES ASSUME NEW p \in VPages
               PROVE  \E q \in regions_' : p \in PagesOf(q)
    OBVIOUS
  <2>1. PICK q \in regions_ : p \in PagesOf(q)
    BY DEF Tiling
  <2>2. CASE q # r
    BY <2>1, <2>2
  <2>3. CASE q = r /\ p >= r.end - n
    <3>1. p \in PagesOf(new) /\ new \in regions_'
      BY <2>1, <2>3, <1>1, <1>4 DEF PagesOf, VPages, new
    <3> QED BY <3>1
  <2>4. CASE q = r /\ p < r.end - n
    <3>1. p \in PagesOf(rest) /\ rest \in regions_'
      BY <2>1, <2>4, <1>1, <1>3, <1>4 DEF PagesOf, VPages
    <3> QED BY <3>1
  <2> QED BY <2>2, <2>3, <2>4, <1>1, VMemAssumption DEF VPages
<1>11. \A q \in regions_' :
         /\ q \in [begin : VPages, end : 0 .. NumVPages, handler : BOOLEAN]
         /\ q.begin < q.end
         /\ q.handler => q.end = q.begin + STACK_NPAGES
  BY <1>5, <1>6, <1>4, <1>1 DEF Tiling
<1>12. Tiling'
  BY <1>9, <1>10, <1>11 DEF Tiling, PagesOf
<1> QED BY <1>12, <1>5, <1>4 DEF new

\* The machine has finitely many cores, the boot core among them.
LEMMA CpuFacts ==
  ASSUME TypeOK
  PROVE  /\ cpus \subseteq Cores /\ IsFiniteSet(cpus) /\ Boot \in cpus
         /\ Cardinality(cpus) \in Nat \ {0}
<1>1. cpus \subseteq Cores /\ IsFiniteSet(cpus) /\ Boot \in cpus
  BY SmpAssumption DEF TypeOK
<1>2. Cardinality(cpus) \in Nat /\ Cardinality(cpus) # 0
  BY <1>1, FS_CardinalityType, FS_EmptySet
<1> QED BY <1>1, <1>2

\* A core on a stack has tables of its own.
LEMMA OwnTables ==
  ASSUME CoreInv, NEW c \in Cores, stack[c] # None \/ at[c] \notin BeforeTables
  PROVE  /\ at[c] \notin BeforeTables /\ cr3[c] = c /\ pml4[c] = c
         /\ tree[c][TransPage] = c
         /\ \A p : Translate(c, p) = tree[c][p]
<1>1. at[c] \notin BeforeTables
  BY DEF CoreInv, StackOf
<1>2. cr3[c] = c /\ pml4[c] = c /\ tree[c][TransPage] = c
  BY <1>1 DEF CoreInv, TablesOf
<1> QED BY <1>1, <1>2, VMemAssumption DEF Translate

\* map_memory changes only the tables of its own core, and there only pages
\* that were not mapped.
LEMMA MapMemoryOwn ==
  ASSUME TypeOK, CoreInv, NEW c \in Cores, stack[c] # None,
         NEW P \in SUBSET VPages, NEW frame \in Frames,
         MapMemory(c, P, frame)
  PROVE  /\ tree' \in [Cores -> [VPages \cup {TransPage} -> Frames \cup {None}]]
         /\ aborted' \in {aborted, "present"}
         /\ \A d \in Cores : d # c => tree'[d] = tree[d]
         /\ \A p \in VPages \cup {TransPage} :
              p \notin P \/ tree[c][p] # None => tree'[c][p] = tree[c][p]
         /\ (\A p \in P : tree[c][p] = None) =>
              aborted' = aborted /\ \A p \in P : tree'[c][p] = frame
<1>1. cr3[c] = c /\ pml4[c] = c /\ \A p : Translate(c, p) = tree[c][p]
  BY OwnTables
<1>2. tree \in [Cores -> [VPages \cup {TransPage} -> Frames \cup {None}]]
  BY DEF TypeOK, VMTypeOK
<1>3. CASE \E p \in P : tree[c][p] # None
  BY <1>1, <1>2, <1>3 DEF MapMemory
<1>4. CASE \A p \in P : tree[c][p] = None
  <2>1. /\ tree' = [tree EXCEPT ![c] = [p \in VPages \cup {TransPage} |->
                                          IF p \in P THEN frame ELSE tree[c][p]]]
        /\ aborted' = aborted
    BY <1>1, <1>2, <1>4 DEF MapMemory
  <2>2. [p \in VPages \cup {TransPage} |->
                                          IF p \in P THEN frame ELSE tree[c][p]]
          \in [VPages \cup {TransPage} -> Frames \cup {None}]
    BY <1>2
  <2> QED BY <1>2, <1>4, <2>1, <2>2
<1> QED BY <1>3, <1>4

\* What a core faults on is a page of the region of its stack.
LEMMA FaultRegion ==
  ASSUME TypeOK, CoreInv, RegionInv, NEW c \in Cores, fault[c] # None
  PROVE  LET r == Region(stack[c], stack[c] + STACK_NPAGES, TRUE)
         IN  /\ stack[c] # None /\ fault[c] \in VPages /\ tree[c][fault[c]] = None
             /\ r \in regions_ /\ fault[c] \in PagesOf(r)
             /\ LowerBound(fault[c]) = r
             /\ r.handler
<1> DEFINE r == Region(stack[c], stack[c] + STACK_NPAGES, TRUE)
<1>1. /\ stack[c] # None /\ fault[c] \in VPages /\ tree[c][fault[c]] = None
      /\ fault[c] \in stack[c] .. (stack[c] + STACK_NPAGES - 1)
  BY DEF TypeOK, VMTypeOK, CoreInv, FaultOf
<1>2. r \in regions_ /\ r.handler
  BY <1>1 DEF RegionInv, StacksAreRegions, Region
<1>3. fault[c] \in PagesOf(r)
  <2>1. r.begin = stack[c] /\ r.end = stack[c] + STACK_NPAGES
    BY DEF Region
  <2>2. stack[c] \in Int /\ STACK_NPAGES \in Int
    BY <1>1, VMemAssumption DEF TypeOK, VMTypeOK, VPages
  <2> HIDE DEF r
  <2> QED BY <1>1, <2>1, <2>2 DEF PagesOf
<1>4. LowerBound(fault[c]) = r
  BY <1>2, <1>3, LowerBoundIs DEF RegionInv
<1> QED BY <1>1, <1>2, <1>3, <1>4

\* So a fault finds its region, and the handler either maps the page or stops.
LEMMA FaultServed ==
  ASSUME TypeOK, CoreInv, RegionInv, NEW c \in Cores, HandlePageFault(c)
  PROVE  /\ mappings_[fault[c]] # None =>
              MapMemory(c, {fault[c]}, mappings_[fault[c]]) /\ mappings_' = mappings_
         /\ mappings_[fault[c]] = None =>
              \/ aborted' = "overflow" /\ UNCHANGED <<tree, mappings_>>
              \/ /\ ~ StackOverflow(LowerBound(fault[c]))
                 /\ MapMemory(c, {fault[c]}, c) /\ mappings_' = Keeps(fault[c], c)
<1> DEFINE r == Region(stack[c], stack[c] + STACK_NPAGES, TRUE)
<1>1. fault[c] # None
  BY DEF HandlePageFault
<1>2. r \in regions_ /\ fault[c] \in PagesOf(r) /\ LowerBound(fault[c]) = r /\ r.handler
  BY <1>1, FaultRegion
<1>3. fault[c] \in VPages /\ r.end \in 0 .. NumVPages /\ r.begin \in VPages
  BY <1>1, <1>2, FaultRegion DEF RegionInv, Tiling
<1> HIDE DEF r
<1>4. r.end >= fault[c] + 1
  BY <1>2, <1>3 DEF PagesOf, VPages
<1>5. ~ (r.end < fault[c] + 1)
  BY <1>3, <1>4 DEF VPages
<1> QED BY <1>2, <1>5 DEF HandlePageFault

\* The call of Alloc of core c takes the last n pages of region r: for a stack
\* the core goes on on, or for a BAR the boot core maps next.
AllocSplits(c, r, n) ==
  /\ ~ r.handler /\ n <= r.end - r.begin
  /\ n = req[c].npages /\ r.end - n \in VPages /\ r.end <= NumVPages
  /\ r.begin >= 0
  /\ regions_' = (regions_ \ {r}) \cup Remainder(r, n)
                   \cup {Region(r.end - n, r.end, req[c].bar = None)}
  /\ \/ /\ req[c].bar = None /\ n = STACK_NPAGES
        /\ stack' = [stack EXCEPT ![c] = r.end - n]
        /\ pc' = [pc EXCEPT ![c] = "out"]
        /\ req' = [req EXCEPT ![c] = None]
        /\ vaddr_' = vaddr_
     \/ /\ req[c].bar \in Bars /\ n = BarPages
        /\ c = Boot /\ at[c] = "up"
        /\ vaddr_' = [vaddr_ EXCEPT ![req[c].bar] = r.end - n]
        /\ pc' = [pc EXCEPT ![c] = "map"]
        /\ stack' = stack /\ req' = req

\* The region Alloc splits, and how many pages it takes.
LEMMA AllocFacts ==
  ASSUME TypeOK, CoreInv, RegionInv, NEW c \in Cores, AllocReturn(c)
  PROVE  \E r \in regions_, n \in Nat \ {0} : AllocSplits(c, r, n)
<1> DEFINE n == req[c].npages
           r == CHOOSE x \in Fits(n) : \A y \in Fits(n) : y.begin <= x.begin
<1>1. pc[c] = "in" /\ Fits(n) # {}
  BY DEF AllocReturn
<1>2. \/ req[c].bar = None /\ n = STACK_NPAGES
      \/ req[c].bar \in Bars /\ n = BarPages /\ c = Boot /\ at[c] = "up"
  <2>1. \/ req[c] = [npages |-> STACK_NPAGES, bar |-> None]
        \/ /\ at[c] = "up" /\ c = Boot
           /\ \E b \in Bars : req[c] = [npages |-> BarPages, bar |-> b]
    BY <1>1 DEF CoreInv, StackOf
  <2>2. CASE req[c] = [npages |-> STACK_NPAGES, bar |-> None]
    BY <2>2
  <2>3. ASSUME NEW b \in Bars, req[c] = [npages |-> BarPages, bar |-> b]
        PROVE  req[c].bar \in Bars /\ n = BarPages
    BY <2>3
  <2> QED BY <2>1, <2>2, <2>3
<1>3. n \in Nat \ {0}
  BY <1>2, VMemAssumption
<1>4. r \in Fits(n)
  BY <1>1, <1>3, LoopFinds DEF RegionInv
<1>5. /\ regions_' = (regions_ \ {r}) \cup Remainder(r, n)
                       \cup {Region(r.end - n, r.end, req[c].bar = None)}
      /\ IF req[c].bar = None
         THEN /\ stack' = [stack EXCEPT ![c] = r.end - n]
              /\ pc' = [pc EXCEPT ![c] = "out"]
              /\ req' = [req EXCEPT ![c] = None]
              /\ UNCHANGED vaddr_
         ELSE /\ vaddr_' = [vaddr_ EXCEPT ![req[c].bar] = r.end - n]
              /\ pc' = [pc EXCEPT ![c] = "map"]
              /\ UNCHANGED <<stack, req>>
  BY DEF AllocReturn
<1> HIDE DEF r, n
<1>6. /\ r \in regions_ /\ ~ r.handler /\ n <= r.end - r.begin
      /\ r.begin \in VPages /\ r.end \in 0 .. NumVPages
  BY <1>3, <1>4, VMemAssumption DEF Fits, RegionInv, Tiling, VPages
<1>7. r.end - n \in VPages /\ r.begin >= 0 /\ r.end <= NumVPages
  BY <1>3, <1>6, VMemAssumption DEF VPages
<1> USE <1>3, <1>6
<1> WITNESS r \in regions_, n \in Nat \ {0}
<1>8. n = req[c].npages
  BY DEF n
<1>9. req[c].bar \in Bars => req[c].bar # None
  BY VMemAssumption
<1> QED BY <1>2, <1>5, <1>6, <1>7, <1>8, <1>9 DEF AllocSplits

-----------------------------------------------------------------------------
(* The invariant holds at the start *)

\* When smp_init is called the boot core runs alone, on the first stack.
LEMMA InitSmpInv == Init => SmpInv
<1> SUFFICES ASSUME Init PROVE SmpInv
  OBVIOUS
<1> USE VMemAssumption, SmpAssumption
<1>0. NumVPages \in Nat /\ STACK_NPAGES \in Nat /\ FirstStack \in VPages
      /\ FirstStack > 0 /\ NumVPages - 1 \in VPages /\ FirstStack + STACK_NPAGES = NumVPages
  BY DEF FirstStack, VPages
<1>c. IsFiniteSet(cpus) /\ Boot \in cpus /\ cpus \subseteq Cores
  BY DEF Init
<1>d. Cardinality(cpus) \in Nat /\ Cardinality(cpus) # 0
  BY <1>c, FS_CardinalityType, FS_EmptySet
<1>1. TypeOK
  <2>1. VMTypeOK
    <3>1. \A r \in regions_ : r.begin \in VPages /\ r.end \in 0 .. NumVPages
                         /\ r.handler \in BOOLEAN
      <4>1. 0 \in VPages /\ FirstStack \in 0 .. NumVPages /\ NumVPages \in 0 .. NumVPages
        BY <1>0 DEF VPages
      <4>2. \A r \in regions_ : r = Region(0, FirstStack, FALSE)
                              \/ r = Region(FirstStack, NumVPages, TRUE)
        BY DEF Init, VMInit
      <4>3. /\ Region(0, FirstStack, FALSE).begin = 0
            /\ Region(0, FirstStack, FALSE).end = FirstStack
            /\ Region(0, FirstStack, FALSE).handler = FALSE
            /\ Region(FirstStack, NumVPages, TRUE).begin = FirstStack
            /\ Region(FirstStack, NumVPages, TRUE).end = NumVPages
            /\ Region(FirstStack, NumVPages, TRUE).handler = TRUE
        BY DEF Region
      <4> QED BY <1>0, <4>1, <4>2, <4>3
    <3>2. tree \in [Cores -> [VPages \cup {TransPage} -> Frames \cup {None}]]
      <4>1. Nothing \in [VPages \cup {TransPage} -> Frames \cup {None}]
        BY DEF Nothing
      <4>2. [Nothing EXCEPT ![NumVPages - 1] = Boot, ![TransPage] = Boot]
              \in [VPages \cup {TransPage} -> Frames \cup {None}]
        BY <4>1 DEF Frames
      <4> QED BY <4>1, <4>2 DEF Init, VMInit
    <3>3. mappings_ \in [VPages -> Frames \cup {None}]
      BY DEF Init, VMInit, Frames
    <3>4. stack \in [Cores -> VPages \cup {None}]
      BY <1>0 DEF Init, VMInit
    <3> QED BY <3>1, <3>2, <3>3, <3>4 DEF Init, VMInit, VMTypeOK
  <2>2. 0 \in 0 .. Cardinality(cpus) /\ 0 \in 0 .. Cardinality(cpus) - 1 /\ 0 \in 0 .. 1
    BY <1>d
  <2> QED BY <2>1, <2>2 DEF Init, TypeOK, Places
<1>2. CoreInv
  <2> SUFFICES ASSUME NEW c \in Cores
               PROVE  TablesOf(c) /\ PlaceOf(c) /\ StackOf(c) /\ FaultOf(c)
    BY DEF CoreInv
  <2>1. TablesOf(c)
    BY DEF Init, VMInit, TablesOf, OnBootTable, BeforePop, BeforeTables, Nothing, TransPage
  <2>2. PlaceOf(c)
    BY DEF Init, PlaceOf, InBarrier, InSmpInit
  <2>3. StackOf(c)
    BY <1>0 DEF Init, VMInit, StackOf, OnBootTable, BeforePop, BeforeTables, InBarrier, InSmpInit, VPages
  <2>4. FaultOf(c)
    BY DEF Init, VMInit, FaultOf
  <2> QED BY <2>1, <2>2, <2>3, <2>4
<1>3. RegionInv
  <2> DEFINE free == Region(0, FirstStack, FALSE)
             first == Region(FirstStack, NumVPages, TRUE)
  <2>1. regions_ = {free, first}
    BY DEF Init, VMInit
  <2>2. /\ free.begin = 0 /\ free.end = FirstStack /\ free.handler = FALSE
        /\ first.begin = FirstStack /\ first.end = NumVPages /\ first.handler = TRUE
        /\ free \in [begin : VPages, end : 0 .. NumVPages, handler : BOOLEAN]
        /\ first \in [begin : VPages, end : 0 .. NumVPages, handler : BOOLEAN]
    BY <1>0 DEF Region, VPages
  <2>3. StacksAreRegions
    BY <2>1, <1>0 DEF Init, VMInit, StacksAreRegions
  <2> HIDE DEF free, first
  <2>4. \A p \in VPages : p \in PagesOf(free) \/ p \in PagesOf(first)
    BY <2>2, <1>0 DEF PagesOf, VPages
  <2>5. Tiling
    BY <2>1, <2>2, <2>4, <1>0 DEF Tiling, VPages
  <2>6. HandlersKeep
    <3>1. NumVPages - 1 \in PagesOf(first) /\ FirstStack \in PagesOf(first)
      BY <2>2, <1>0 DEF PagesOf, VPages
    <3>2. mappings_[FirstStack] = None /\ \A p \in VPages : mappings_[p] # None => p = NumVPages - 1
      BY <1>0 DEF Init, VMInit, FirstStack
    <3> QED BY <3>1, <3>2, <2>1, <2>2 DEF HandlersKeep
  <2> QED BY <2>3, <2>5, <2>6 DEF RegionInv
<1>4. PopInv
  BY DEF Init, PopInv, BootStacksDistinct, BeforePop
<1>5. BarrierInv
  <2>1. {c \in cpus : at[c] = "spin"} = {}
    BY <1>c DEF Init
  <2> QED BY <2>1, <1>c, FS_EmptySet DEF Init, BarrierInv, Counting
<1> QED BY <1>1, <1>2, <1>3, <1>4, <1>5 DEF SmpInv

-----------------------------------------------------------------------------
(* Types *)

\* Every step keeps the variables in their types: the list of boot stacks is
\* popped only while it holds one, the barrier is released once.
LEMMA TypeStep == SmpInv /\ [Next]_smpVars => TypeOK'
<1> SUFFICES ASSUME SmpInv, [Next]_smpVars PROVE TypeOK'
  OBVIOUS
<1> USE VMemAssumption
<1>0. TypeOK /\ VMTypeOK /\ CoreInv /\ RegionInv /\ PopInv /\ BarrierInv
  BY DEF SmpInv, TypeOK
<1>c. cpus \subseteq Cores /\ IsFiniteSet(cpus) /\ Boot \in cpus /\ Cardinality(cpus) \in Nat \ {0}
  BY <1>0, CpuFacts
<1>1. ASSUME BootStep PROVE TypeOK'
  <2>1. ASSUME VMTypeOK' PROVE TypeOK'
    <3>1. CASE SmpInit
      BY <1>0, <1>c, <2>1, <3>1 DEF SmpInit, TypeOK, Places, Go, barrierVars
    <3>2. CASE AllSent
      BY <1>0, <1>c, <2>1, <3>2 DEF AllSent, TypeOK, Places, Go, barrierVars
    <3>3. ASSUME NEW c \in cpus, SendIpi(c) PROVE TypeOK'
      BY <1>0, <1>c, <2>1, <3>3 DEF SendIpi, TypeOK, Places, Go, barrierVars
    <3> QED BY <1>1, <3>1, <3>2, <3>3 DEF BootStep
  <2>2. UNCHANGED vmVars
    BY <1>1 DEF BootStep, SmpInit, AllSent, SendIpi
  <2> QED BY <1>0, <2>1, <2>2 DEF VMTypeOK, vmVars
<1>2. ASSUME NEW c \in cpus, StartStep(c) PROVE TypeOK'
  <2>1. CASE LoadStack(c) \/ PopStack(c)
    <3>1. VMTypeOK'
      BY <1>0, <2>1 DEF LoadStack, PopStack, VMTypeOK, vmVars
    <3>2. CASE LoadStack(c)
      BY <1>0, <1>c, <3>1, <3>2 DEF LoadStack, TypeOK, Places, Go, barrierVars
    <3>3. CASE PopStack(c)
      <4>1. Compares(c) => rax[c] - 1 \in 0 .. Cardinality(cpus)
        <5> SUFFICES ASSUME smp_stack_free = rax[c] PROVE rax[c] - 1 \in 0 .. Cardinality(cpus)
          BY DEF Compares
        <5> DEFINE W == {d \in cpus : at[d] \in BeforePop}
        <5>1. at[Boot] # "smp_init"
          BY <1>c, <3>3, <1>0 DEF PopStack, PopInv, CoreInv, PlaceOf, InSmpInit, InBarrier
        <5>2. c \in W /\ W \subseteq cpus
          BY <3>3 DEF PopStack, BeforePop
        <5>3. Cardinality(W) # 0
          BY <5>2, <1>c, FS_Subset, FS_EmptySet
        <5>4. smp_stack_free = Cardinality(W)
          BY <5>1, <1>0 DEF PopInv
        <5>5. smp_stack_free \in 0 .. Cardinality(cpus)
          BY <1>0 DEF TypeOK
        <5> HIDE DEF W
        <5> QED BY <5>3, <5>4, <5>5, <1>c
      <4> QED BY <1>0, <1>c, <3>1, <3>3, <4>1 DEF PopStack, TypeOK, Places, Go, barrierVars
    <3> QED BY <2>1, <3>2, <3>3
  <2>2. CASE EnableRuntimePageTable(c) \/ VmemApInit(c) \/ TransApInit(c)
    <3>1. cr3' \in [Cores -> Cores \cup {None}] /\ pml4' \in [Cores -> Cores \cup {None}]
      <4>1. CASE EnableRuntimePageTable(c)
        BY <4>1, <1>c, <1>0 DEF EnableRuntimePageTable, VMTypeOK
      <4>2. CASE VmemApInit(c)
        <5>1. cr3[c] = Boot
          BY <4>2, <1>c, <1>0 DEF VmemApInit, CoreInv, TablesOf
        <5> QED BY <4>2, <5>1, <1>c, <1>0 DEF VmemApInit, CopiesRoot, VMTypeOK
      <4>3. CASE TransApInit(c)
        <5>1. cr3[c] = c
          BY <4>3, <1>c, <1>0 DEF TransApInit, CoreInv, TablesOf
        <5> QED BY <4>3, <5>1, <1>c, <1>0 DEF TransApInit, ReplacesEntry, VMTypeOK
      <4> QED BY <2>2, <4>1, <4>2, <4>3
    <3>2. tree' \in [Cores -> [VPages \cup {TransPage} -> Frames \cup {None}]]
      <4>1. [Nothing EXCEPT ![TransPage] = c] \in [VPages \cup {TransPage} -> Frames \cup {None}]
        BY <1>c DEF Nothing, Frames
      <4>2. tree' = tree \/ tree' = [tree EXCEPT ![c] = [Nothing EXCEPT ![TransPage] = c]]
        BY <2>2 DEF EnableRuntimePageTable, VmemApInit, TransApInit, ReplacesEntry
      <4> QED BY <4>1, <4>2, <1>c, <1>0 DEF VMTypeOK
    <3>3. at' \in [Cores -> Places]
      BY <2>2, <1>c, <1>0 DEF EnableRuntimePageTable, VmemApInit, TransApInit, Go, TypeOK, Places
    <3>4. UNCHANGED <<regions_, mappings_, lock_, stack, pc, req, fault, vaddr_, aborted,
                      cpus, smp_stack_free, rax, rsp, ref, barrierVars>>
      BY <2>2 DEF EnableRuntimePageTable, VmemApInit, TransApInit
    <3> QED BY <1>0, <3>1, <3>2, <3>3, <3>4 DEF TypeOK, VMTypeOK, barrierVars
  <2>3. CASE EbbDeref(c) \/ Constructed(c)
    <3>1. /\ at' \in [Cores -> Places] /\ ref' \in [Cores -> Cores \cup {None}]
          /\ pc' \in [Cores -> {"out", "want", "in", "map"}]
      <4>1. CASE EbbDeref(c)
        BY <4>1, <1>c, <1>0 DEF EbbDeref, AllocCall, Go, TypeOK, VMTypeOK, Places
      <4>2. CASE Constructed(c)
        <5>1. Translate(c, TransPage) = c
          BY <4>2, <1>c, <1>0, OwnTables DEF Constructed, BeforeTables, OnBootTable, BeforePop
        <5> QED BY <4>2, <5>1, <1>c, <1>0 DEF Constructed, Go, vmVars, TypeOK, VMTypeOK, Places
      <4> QED BY <2>3, <4>1, <4>2
    <3>2. req' \in [Cores -> {None} \cup Requests]
      <4>1. [npages |-> STACK_NPAGES, bar |-> None] \in Requests
        BY DEF Requests
      <4>2. req' = req \/ req' = [req EXCEPT ![c] = [npages |-> STACK_NPAGES, bar |-> None]]
        BY <2>3 DEF EbbDeref, AllocCall, Constructed, vmVars
      <4> QED BY <4>1, <4>2, <1>c, <1>0 DEF VMTypeOK
    <3>4. UNCHANGED <<regions_, mappings_, lock_, cr3, pml4, tree, stack, fault, vaddr_, aborted,
                      cpus, smp_stack_free, rax, rsp, barrierVars>>
      BY <2>3 DEF EbbDeref, Constructed, vmVars
    <3> QED BY <1>0, <3>1, <3>2, <3>4 DEF TypeOK, VMTypeOK, barrierVars
  <2>4. CASE WaitLoad(c) \/ WaitArrive(c) \/ WaitRelease(c) \/ WaitSpin(c)
    <3>1. VMTypeOK'
      BY <1>0, <2>4 DEF WaitLoad, WaitArrive, WaitRelease, WaitSpin, VMTypeOK, vmVars
    <3>2. CASE WaitLoad(c)
      BY <1>0, <1>c, <3>1, <3>2 DEF WaitLoad, TypeOK, Places, Go
    <3>3. CASE WaitArrive(c)
      BY <1>0, <1>c, <3>1, <3>3 DEF WaitArrive, LastWaiter, TypeOK, Places, Go
    <3>4. CASE WaitRelease(c)
      <4>1. completed_ = 0
        BY <3>4, <1>0, <1>c DEF WaitRelease, BarrierInv, Counting, Releasing, Done
      <4> QED BY <1>0, <1>c, <3>1, <3>4, <4>1 DEF WaitRelease, TypeOK, Places, Go
    <3>5. CASE WaitSpin(c)
      BY <1>0, <1>c, <3>1, <3>5 DEF WaitSpin, TypeOK, Places, Go, barrierVars
    <3> QED BY <2>4, <3>2, <3>3, <3>4, <3>5
  <2> QED BY <1>2, <2>1, <2>2, <2>3, <2>4 DEF StartStep
<1>3. ASSUME VMTypeOK', UNCHANGED <<cpus, startVars>> PROVE TypeOK'
  BY <1>3, <1>0 DEF startVars, TypeOK
<1>4. ASSUME NEW c \in cpus, VMStep(c) PROVE TypeOK'
  <2> SUFFICES VMTypeOK'
    BY <1>3, <1>4 DEF VMStep
  <2>1. CASE AllocLock(c) \/ AllocAborts(c)
    BY <2>1, <1>0, <1>c, ZenonT(30) DEF AllocLock, AllocAborts, VMTypeOK
  <2>2. CASE AllocReturn(c)
    <3> USE DEF AllocSplits
    <3>1. PICK r \in regions_, n \in Nat \ {0} : AllocSplits(c, r, n)
      BY <2>2, <1>0, <1>c, AllocFacts
    <3>2. Tiling'
      BY <3>1, <1>0, SplitTiling DEF RegionInv
    <3>3. \A x \in regions_' : x.begin \in VPages /\ x.end \in 0 .. NumVPages
                               /\ x.handler \in BOOLEAN
      BY <3>2 DEF Tiling, VPages
    <3>4. /\ stack' \in [Cores -> VPages \cup {None}]
          /\ pc' \in [Cores -> {"out", "want", "in", "map"}]
          /\ vaddr_' \in [Bars -> VPages \cup {None}]
      <4>1. c \in Cores /\ "out" \in {"out", "want", "in", "map"}
            /\ "map" \in {"out", "want", "in", "map"}
        BY <1>c
      <4>2. /\ stack \in [Cores -> VPages \cup {None}]
            /\ pc \in [Cores -> {"out", "want", "in", "map"}]
            /\ vaddr_ \in [Bars -> VPages \cup {None}]
        BY <1>0 DEF VMTypeOK
      <4>3. r.end - n \in VPages
        BY <3>1
      <4>4. \/ /\ stack' = [stack EXCEPT ![c] = r.end - n]
               /\ pc' = [pc EXCEPT ![c] = "out"] /\ vaddr_' = vaddr_
            \/ /\ req[c].bar \in Bars
               /\ vaddr_' = [vaddr_ EXCEPT ![req[c].bar] = r.end - n]
               /\ pc' = [pc EXCEPT ![c] = "map"] /\ stack' = stack
        BY <3>1
      <4> QED BY ONLY <4>1, <4>2, <4>3, <4>4
    <3>5. req' \in [Cores -> {None} \cup Requests]
      BY <3>1, <1>0, <1>c DEF VMTypeOK
    <3>6. lock_' = None /\ UNCHANGED <<mappings_, cr3, pml4, tree, fault, aborted>>
      BY <2>2 DEF AllocReturn
    <3> QED BY <3>3, <3>4, <3>5, <3>6, <1>0 DEF VMTypeOK, VPages, TransPage
  <2>3. CASE MapBar(c)
    <3> DEFINE bar == req[c].bar
    <3>1. pc[c] = "map"
      BY <2>3 DEF MapBar
    <3>2. /\ bar \in Bars /\ vaddr_[bar] \in VPages /\ vaddr_[bar] + BarPages <= NumVPages
          /\ at[c] = "up" /\ stack[c] # None
      <4>1. /\ at[c] = "up" /\ c = Boot
            /\ \E b \in Bars : req[c] = [npages |-> BarPages, bar |-> b]
            /\ vaddr_[bar] \in VPages /\ vaddr_[bar] + BarPages <= NumVPages
        BY <3>1, <1>0, <1>c DEF CoreInv, StackOf
      <4>2. stack[c] # None
        BY <4>1, <1>0, <1>c DEF CoreInv, StackOf, InBarrier
      <4> QED BY <4>1, <4>2
    <3>3. vaddr_[bar] .. (vaddr_[bar] + BarPages - 1) \in SUBSET VPages
      BY <3>2 DEF VPages
    <3>4. MapMemory(c, vaddr_[bar] .. (vaddr_[bar] + BarPages - 1), bar)
      BY <2>3 DEF MapBar
    <3>5. /\ tree' \in [Cores -> [VPages \cup {TransPage} -> Frames \cup {None}]]
          /\ aborted' \in {aborted, "present"}
      <4> HIDE DEF bar
      <4> QED BY <3>2, <3>3, <3>4, <1>0, <1>c, MapMemoryOwn DEF Frames
    <3> QED BY <2>3, <3>5, <1>0, <1>c DEF MapBar, VMTypeOK
  <2>4. CASE HandlePageFault(c)
    <3>1. fault[c] # None
      BY <2>4 DEF HandlePageFault
    <3>2. stack[c] # None /\ fault[c] \in VPages /\ {fault[c]} \in SUBSET VPages
      BY <3>1, <1>0, <1>c, FaultRegion
    <3>3. /\ tree' \in [Cores -> [VPages \cup {TransPage} -> Frames \cup {None}]]
          /\ aborted' \in {"no", "space", "fault", "overflow", "present"}
          /\ mappings_' \in [VPages -> Frames \cup {None}]
      <4>1. CASE mappings_[fault[c]] # None
        <5>1. mappings_[fault[c]] \in Frames
          BY <4>1, <3>2, <1>0 DEF VMTypeOK
        <5>2. MapMemory(c, {fault[c]}, mappings_[fault[c]]) /\ mappings_' = mappings_
          BY <2>4, <4>1, <1>0, <1>c, FaultServed
        <5>3. /\ tree' \in [Cores -> [VPages \cup {TransPage} -> Frames \cup {None}]]
              /\ aborted' \in {aborted, "present"}
          BY <3>2, <5>1, <5>2, <1>0, <1>c, MapMemoryOwn
        <5> QED BY <5>2, <5>3, <1>0 DEF VMTypeOK
      <4>2. CASE mappings_[fault[c]] = None /\ aborted' = "overflow" /\ UNCHANGED <<tree, mappings_>>
        BY <4>2, <1>0 DEF VMTypeOK
      <4>3. CASE mappings_[fault[c]] = None /\ MapMemory(c, {fault[c]}, c) /\ mappings_' = Keeps(fault[c], c)
        <5>1. /\ tree' \in [Cores -> [VPages \cup {TransPage} -> Frames \cup {None}]]
              /\ aborted' \in {aborted, "present"}
          BY <3>2, <4>3, <1>0, <1>c, MapMemoryOwn DEF Frames
        <5> QED BY <3>2, <4>3, <5>1, <1>0, <1>c DEF VMTypeOK, Keeps, Frames
      <4> QED BY <2>4, <4>1, <4>2, <4>3, <1>0, <1>c, FaultServed
    <3> QED BY <2>4, <3>3, <1>0, <1>c DEF HandlePageFault, VMTypeOK
  <2> QED BY <1>4, <2>1, <2>2, <2>3, <2>4 DEF VMStep
<1>5. ASSUME NEW c \in cpus, SaveContext(c) PROVE TypeOK'
  <2>1. [npages |-> STACK_NPAGES, bar |-> None] \in Requests
    BY DEF Requests
  <2>2. VMTypeOK'
    BY <1>5, <2>1, <1>0, <1>c DEF SaveContext, AllocCall, VMTypeOK
  <2> QED BY <1>5, <2>2, <1>3 DEF SaveContext
<1>6. ASSUME NEW c \in cpus, NEW s \in VPages, SwitchStack(c, s) PROVE TypeOK'
  BY <1>6, <1>0, <1>c, <1>3 DEF SwitchStack, VMTypeOK
<1>7. ASSUME NEW c \in cpus, NEW p \in VPages, Touch(c, p), UNCHANGED <<cpus, startVars>>
      PROVE  TypeOK'
  BY <1>7, <1>0, <1>c, <1>3 DEF Touch, VMTypeOK
<1>8. ASSUME NEW b \in Bars, PciMap(b) PROVE TypeOK'
  <2>1. [npages |-> BarPages, bar |-> b] \in Requests
    BY DEF Requests
  <2>2. VMTypeOK'
    BY <1>8, <2>1, <1>0, <1>c DEF PciMap, AllocCall, VMTypeOK
  <2> QED BY <1>8, <2>2, <1>3 DEF PciMap
<1>9. CASE UNCHANGED smpVars
  <2>1. VMTypeOK'
    BY <1>9, <1>0 DEF smpVars, vmVars, VMTypeOK
  <2> QED BY <1>9, <2>1, <1>3 DEF smpVars
<1> QED BY <1>1, <1>2, <1>4, <1>5, <1>6, <1>7, <1>8, <1>9 DEF Next

-----------------------------------------------------------------------------
(* The cores *)

CoreOK(c) == TablesOf(c) /\ PlaceOf(c) /\ StackOf(c) /\ FaultOf(c)

\* What a step leaves alone of a core stays right.
LEMMA OtherCore ==
  ASSUME CoreInv, NEW d \in Cores, cpus' = cpus, at'[d] = at[d],
         cr3'[d] = cr3[d], pml4'[d] = pml4[d], tree'[d] = tree[d],
         ref'[d] = ref[d], stack'[d] = stack[d], pc'[d] = pc[d],
         req'[d] = req[d], fault'[d] = fault[d],
         pc[d] = "map" => vaddr_' = vaddr_
  PROVE  CoreOK(d)'
<1>1. TablesOf(d)'
  BY DEF CoreInv, TablesOf, TransPage
<1>2. PlaceOf(d)'
  BY DEF CoreInv, PlaceOf
<1>3. StackOf(d)'
  BY DEF CoreInv, StackOf, VPages
<1>4. FaultOf(d)'
  BY DEF CoreInv, FaultOf
<1> QED BY <1>1, <1>2, <1>3, <1>4 DEF CoreOK

\* Sets of places, written out.
LEMMA PlaceSets ==
  /\ BeforePop = {"off", "pop", "cmpxchg"}
  /\ OnBootTable = {"off", "pop", "cmpxchg", "main"}
  /\ BeforeTables = {"off", "pop", "cmpxchg", "main", "root", "trans"}
  /\ InBarrier = {"wait", "arrive", "release", "spin", "up"}
  /\ InSmpInit = {"smp_init", "ipi"}
BY DEF BeforePop, OnBootTable, BeforeTables, InBarrier, InSmpInit

\* A core that only moves on, among the places where it has its own tables
\* and its EventManager, stays right.
LEMMA MovesOn ==
  ASSUME TypeOK, CoreInv, NEW c \in cpus, NEW place,
         c = Boot \/ place \notin InSmpInit,
         at[c] \in InBarrier \cup InSmpInit, place \in InBarrier \cup InSmpInit,
         at[c] # "up", Go(c, place),
         UNCHANGED <<vmVars, cpus, ref>>
  PROVE  CoreInv'
<1> USE PlaceSets
<1>c. c \in Cores /\ at \in [Cores -> Places]
  BY CpuFacts DEF TypeOK
<1>1. at'[c] = place /\ \A d \in Cores \ {c} : at'[d] = at[d]
  BY <1>c DEF Go
<1>2. \A d \in Cores \ {c} : CoreOK(d)'
  BY <1>1, OtherCore DEF vmVars
<1>3. TablesOf(c)' /\ PlaceOf(c)'
  BY <1>c, <1>1 DEF vmVars, CoreInv, TablesOf, PlaceOf, TransPage
<1>4. StackOf(c)' /\ FaultOf(c)'
  BY <1>c, <1>1 DEF vmVars, CoreInv, StackOf, FaultOf
<1> QED BY <1>2, <1>3, <1>4 DEF CoreInv, CoreOK

\* Every step keeps what is said of the cores.
LEMMA CoreStep == SmpInv /\ [Next]_smpVars => CoreInv'
<1> SUFFICES ASSUME SmpInv, [Next]_smpVars PROVE CoreInv'
  OBVIOUS
<1> USE VMemAssumption, PlaceSets
<1>0. TypeOK /\ VMTypeOK /\ CoreInv /\ RegionInv
  BY DEF SmpInv, TypeOK
<1>c. cpus \subseteq Cores /\ Boot \in cpus
  BY <1>0, CpuFacts
<1>t. at \in [Cores -> Places] /\ ref \in [Cores -> Cores \cup {None}]
  BY <1>0 DEF TypeOK
<1>e. ASSUME NEW c \in Cores, \A d \in Cores \ {c} : CoreOK(d)',
             TablesOf(c)', PlaceOf(c)', StackOf(c)', FaultOf(c)'
      PROVE  CoreInv'
  BY <1>e DEF CoreInv, CoreOK
<1>1. ASSUME BootStep PROVE CoreInv'
  <2>1. CASE SmpInit
    BY <2>1, <1>0, <1>c, MovesOn DEF SmpInit
  <2>2. CASE AllSent
    BY <2>2, <1>0, <1>c, MovesOn DEF AllSent
  <2>3. ASSUME NEW c \in cpus, SendIpi(c) PROVE CoreInv'
    <3>1. c \in Cores /\ c # Boot
      BY <2>3, <1>c DEF SendIpi
    <3>2. at[c] = "off" /\ at'[c] = "pop" /\ \A d \in Cores \ {c} : at'[d] = at[d]
      BY <2>3, <1>t, <3>1 DEF SendIpi, Go
    <3>3. UNCHANGED <<vmVars, cpus, ref>>
      BY <2>3 DEF SendIpi
    <3>4. \A d \in Cores \ {c} : CoreOK(d)'
      BY <3>2, <3>3, <1>0, OtherCore DEF vmVars
    <3>5. TablesOf(c)' /\ PlaceOf(c)'
      BY <3>1, <3>2, <3>3, <1>0 DEF vmVars, CoreInv, TablesOf, PlaceOf
    <3>6. StackOf(c)' /\ FaultOf(c)'
      BY <3>1, <3>2, <3>3, <1>0 DEF vmVars, CoreInv, StackOf, FaultOf
    <3> QED BY <3>1, <3>4, <3>5, <3>6, <1>e
  <2> QED BY <1>1, <2>1, <2>2, <2>3 DEF BootStep
<1>2. ASSUME NEW c \in cpus, StartStep(c) PROVE CoreInv'
  <2>c. c \in Cores
    BY <1>c
  <2>1. CASE LoadStack(c) \/ PopStack(c)
    <3>1. /\ at[c] \in BeforePop /\ at'[c] \in OnBootTable \ {"off"}
          /\ \A d \in Cores \ {c} : at'[d] = at[d]
      BY <2>1, <1>t, <2>c DEF LoadStack, PopStack, Go
    <3>3. UNCHANGED <<vmVars, cpus, ref>>
      BY <2>1 DEF LoadStack, PopStack
    <3>4. \A d \in Cores \ {c} : CoreOK(d)'
      BY <3>1, <3>3, <1>0, OtherCore DEF vmVars
    <3>5. TablesOf(c)' /\ PlaceOf(c)'
      BY <2>c, <3>1, <3>3, <1>0 DEF vmVars, CoreInv, TablesOf, PlaceOf
    <3>6. StackOf(c)' /\ FaultOf(c)'
      BY <2>c, <3>1, <3>3, <1>0 DEF vmVars, CoreInv, StackOf, FaultOf
    <3> QED BY <2>c, <3>4, <3>5, <3>6, <1>e
  <2>2. CASE EnableRuntimePageTable(c)
    <3>1. at[c] = "main" /\ at'[c] = "root" /\ \A d \in Cores \ {c} : at'[d] = at[d]
      BY <2>2, <1>t, <2>c DEF EnableRuntimePageTable, Go
    <3>2. cr3'[c] = Boot /\ \A d \in Cores \ {c} : cr3'[d] = cr3[d]
      BY <2>2, <1>0, <2>c DEF EnableRuntimePageTable, VMTypeOK
    <3>3. UNCHANGED <<pml4, tree, stack, pc, req, fault, vaddr_, cpus, ref>>
      BY <2>2 DEF EnableRuntimePageTable
    <3>4. \A d \in Cores \ {c} : CoreOK(d)'
      BY <3>1, <3>2, <3>3, <1>0, OtherCore
    <3>5. TablesOf(c)' /\ PlaceOf(c)'
      BY <2>c, <3>1, <3>2, <3>3, <1>0 DEF CoreInv, TablesOf, PlaceOf
    <3>6. StackOf(c)' /\ FaultOf(c)'
      BY <2>c, <3>1, <3>3, <1>0 DEF CoreInv, StackOf, FaultOf
    <3> QED BY <2>c, <3>4, <3>5, <3>6, <1>e
  <2>3. CASE VmemApInit(c)
    <3>1. at[c] = "root" /\ at'[c] = "trans" /\ \A d \in Cores \ {c} : at'[d] = at[d]
      BY <2>3, <1>t, <2>c DEF VmemApInit, Go
    <3>b. cr3[c] = Boot /\ pml4[Boot] = Boot
      BY <3>1, <2>c, <1>c, <1>0 DEF CoreInv, TablesOf, PlaceOf
    <3>2. /\ cr3'[c] = c /\ \A d \in Cores \ {c} : cr3'[d] = cr3[d]
          /\ pml4'[c] = Boot /\ \A d \in Cores \ {c} : pml4'[d] = pml4[d]
      BY <2>3, <1>0, <2>c, <3>b DEF VmemApInit, CopiesRoot, VMTypeOK
    <3>3. UNCHANGED <<tree, stack, pc, req, fault, vaddr_, cpus, ref>>
      BY <2>3 DEF VmemApInit
    <3>4. \A d \in Cores \ {c} : CoreOK(d)'
      BY <3>1, <3>2, <3>3, <1>0, OtherCore
    <3>5. TablesOf(c)' /\ PlaceOf(c)'
      BY <2>c, <3>1, <3>2, <3>3, <1>0 DEF CoreInv, TablesOf, PlaceOf
    <3>6. StackOf(c)' /\ FaultOf(c)'
      BY <2>c, <3>1, <3>3, <1>0 DEF CoreInv, StackOf, FaultOf
    <3> QED BY <2>c, <3>4, <3>5, <3>6, <1>e
  <2>4. CASE TransApInit(c)
    <3>1. at[c] = "trans" /\ at'[c] = "deref" /\ \A d \in Cores \ {c} : at'[d] = at[d]
      BY <2>4, <1>t, <2>c DEF TransApInit, Go
    <3>b. cr3[c] = c
      BY <3>1, <2>c, <1>0 DEF CoreInv, TablesOf
    <3>2. /\ pml4'[c] = c /\ \A d \in Cores \ {c} : pml4'[d] = pml4[d]
          /\ tree'[c] = [Nothing EXCEPT ![TransPage] = c]
          /\ \A d \in Cores \ {c} : tree'[d] = tree[d]
      BY <2>4, <1>0, <2>c, <3>b DEF TransApInit, ReplacesEntry, VMTypeOK
    <3>n. tree'[c][TransPage] = c
      BY <3>2 DEF Nothing
    <3>3. UNCHANGED <<cr3, stack, pc, req, fault, vaddr_, cpus, ref>>
      BY <2>4 DEF TransApInit
    <3>4. \A d \in Cores \ {c} : CoreOK(d)'
      BY <3>1, <3>2, <3>3, <1>0, OtherCore
    <3>5. TablesOf(c)' /\ PlaceOf(c)'
      BY <2>c, <3>1, <3>2, <3>3, <3>b, <3>n, <1>0 DEF CoreInv, TablesOf, PlaceOf, TransPage
    <3>6. StackOf(c)' /\ FaultOf(c)'
      BY <2>c, <3>1, <3>3, <1>0 DEF CoreInv, StackOf, FaultOf
    <3> QED BY <2>c, <3>4, <3>5, <3>6, <1>e
  <2>5. CASE EbbDeref(c)
    <3>b. Translate(c, TransPage) = c /\ ref[c] = None /\ stack[c] = None
      BY <2>5, <2>c, <1>0, OwnTables DEF EbbDeref, CoreInv, PlaceOf, StackOf
    <3>1. at[c] = "deref" /\ at'[c] = "construct" /\ \A d \in Cores \ {c} : at'[d] = at[d]
      BY <2>5, <1>t, <2>c, <3>b DEF EbbDeref, Go
    <3>2. /\ req'[c] = [npages |-> STACK_NPAGES, bar |-> None] /\ pc'[c] = "want"
          /\ \A d \in Cores \ {c} : req'[d] = req[d] /\ pc'[d] = pc[d]
      BY <2>5, <1>0, <2>c, <3>b DEF EbbDeref, AllocCall, VMTypeOK
    <3>3. UNCHANGED <<cr3, pml4, tree, stack, fault, vaddr_, cpus, ref>>
      BY <2>5 DEF EbbDeref
    <3>4. \A d \in Cores \ {c} : CoreOK(d)'
      BY <3>1, <3>2, <3>3, <1>0, OtherCore
    <3>5. TablesOf(c)' /\ PlaceOf(c)'
      BY <2>c, <3>1, <3>3, <1>0 DEF CoreInv, TablesOf, PlaceOf, TransPage
    <3>6. StackOf(c)' /\ FaultOf(c)'
      BY <2>c, <3>1, <3>2, <3>3, <1>0 DEF CoreInv, StackOf, FaultOf
    <3> QED BY <2>c, <3>4, <3>5, <3>6, <1>e
  <2>6. CASE Constructed(c)
    <3>b. Translate(c, TransPage) = c /\ c # Boot
      BY <2>6, <2>c, <1>0, OwnTables DEF Constructed, CoreInv, PlaceOf
    <3>1. at[c] = "construct" /\ at'[c] = "wait" /\ \A d \in Cores \ {c} : at'[d] = at[d]
      BY <2>6, <1>t, <2>c DEF Constructed, Go
    <3>2. ref'[c] = c /\ \A d \in Cores \ {c} : ref'[d] = ref[d]
      BY <2>6, <1>t, <2>c, <3>b DEF Constructed
    <3>3. UNCHANGED <<vmVars, cpus>> /\ pc[c] = "out"
      BY <2>6 DEF Constructed
    <3>4. \A d \in Cores \ {c} : CoreOK(d)'
      BY <3>1, <3>2, <3>3, <1>0, OtherCore DEF vmVars
    <3>5. TablesOf(c)' /\ PlaceOf(c)'
      BY <2>c, <3>b, <3>1, <3>2, <3>3, <1>0 DEF vmVars, CoreInv, TablesOf, PlaceOf, TransPage
    <3>6. StackOf(c)' /\ FaultOf(c)'
      BY <2>c, <3>1, <3>3, <1>0 DEF vmVars, CoreInv, StackOf, FaultOf
    <3> QED BY <2>c, <3>4, <3>5, <3>6, <1>e
  <2>7. CASE WaitLoad(c)
    BY <2>7, <1>0, MovesOn DEF WaitLoad
  <2>8. CASE WaitArrive(c)
    BY <2>8, <1>0, MovesOn DEF WaitArrive
  <2>9. CASE WaitRelease(c)
    BY <2>9, <1>0, MovesOn DEF WaitRelease
  <2>10. CASE WaitSpin(c)
    BY <2>10, <1>0, MovesOn DEF WaitSpin
  <2> QED BY <1>2, <2>1, <2>2, <2>3, <2>4, <2>5, <2>6, <2>7, <2>8, <2>9, <2>10 DEF StartStep
<1>u. ASSUME UNCHANGED <<cpus, startVars>> PROVE UNCHANGED <<cpus, at, ref>>
  BY <1>u DEF startVars
<1>4. ASSUME NEW c \in cpus, VMStep(c) PROVE CoreInv'
  <2>c. c \in Cores
    BY <1>c
  <2>u. UNCHANGED <<cpus, at, ref>>
    BY <1>4, <1>u DEF VMStep
  <2>1. CASE AllocLock(c)
    <3>1. /\ pc[c] = "want" /\ pc'[c] = "in" /\ \A d \in Cores \ {c} : pc'[d] = pc[d]
          /\ UNCHANGED <<cr3, pml4, tree, stack, req, fault, vaddr_>>
      BY <2>1, <2>c, <1>0 DEF AllocLock, VMTypeOK
    <3>2. \A d \in Cores \ {c} : CoreOK(d)'
      BY <2>u, <3>1, <1>0, OtherCore
    <3>3. TablesOf(c)' /\ PlaceOf(c)' /\ FaultOf(c)'
      BY <2>c, <2>u, <3>1, <1>0 DEF CoreInv, TablesOf, PlaceOf, FaultOf, TransPage
    <3>4. StackOf(c)'
      BY <2>c, <2>u, <3>1, <1>0 DEF CoreInv, StackOf
    <3> QED BY <2>c, <3>2, <3>3, <3>4, <1>e
  <2>2. CASE AllocReturn(c)
    <3> USE DEF AllocSplits
    <3>1. PICK r \in regions_, n \in Nat \ {0} : AllocSplits(c, r, n)
      BY <2>2, <2>c, <1>0, AllocFacts
    <3>2. /\ UNCHANGED <<cr3, pml4, tree, fault>>
          /\ pc[c] = "in" /\ fault[c] = None
      BY <2>2 DEF AllocReturn, Executes
    <3>3. TablesOf(c)' /\ PlaceOf(c)'
      BY <2>c, <2>u, <3>2, <1>0 DEF CoreInv, TablesOf, PlaceOf, TransPage
    <3>4. FaultOf(c)'
      BY <3>2 DEF FaultOf
    <3>5. \A d \in Cores \ {c} : CoreOK(d)'
      <4>1. \A d \in Cores \ {c} : stack'[d] = stack[d] /\ pc'[d] = pc[d] /\ req'[d] = req[d]
        BY <2>c, <3>1, <1>0 DEF VMTypeOK
      <4>2. \A d \in Cores \ {c} : pc[d] = "map" => vaddr_' = vaddr_
        BY <2>c, <3>1, <1>0 DEF CoreInv, StackOf
      <4> QED BY <4>1, <4>2, <2>u, <3>2, <1>0, OtherCore
    <3>6. StackOf(c)'
      <4>n. r.end - n # None /\ r.end \in Int
        BY <3>1, <1>0 DEF VPages, RegionInv, Tiling
      <4>1. CASE req[c].bar = None /\ stack' = [stack EXCEPT ![c] = r.end - n]
                 /\ pc' = [pc EXCEPT ![c] = "out"]
        <5>1. stack'[c] # None /\ pc'[c] = "out"
          BY <4>1, <4>n, <2>c, <1>0 DEF VMTypeOK
        <5>2. at[c] \in {"construct", "up"}
          BY <2>c, <3>2, <1>0 DEF CoreInv, StackOf
        <5> QED BY <5>1, <5>2, <2>u DEF StackOf
      <4>2. CASE /\ req[c].bar \in Bars /\ n = BarPages
                 /\ c = Boot /\ at[c] = "up"
                 /\ vaddr_' = [vaddr_ EXCEPT ![req[c].bar] = r.end - n]
                 /\ pc' = [pc EXCEPT ![c] = "map"]
                 /\ stack' = stack /\ req' = req
        <5>1. pc'[c] = "map" /\ vaddr_'[req[c].bar] = r.end - n
          BY <4>2, <2>c, <1>0 DEF VMTypeOK
        <5>2. vaddr_'[req[c].bar] \in VPages /\ vaddr_'[req[c].bar] + BarPages <= NumVPages
          BY <5>1, <3>1, <4>2, <4>n
        <5>3. \E b \in Bars : req[c] = [npages |-> BarPages, bar |-> b]
          <6>1. req[c] # [npages |-> STACK_NPAGES, bar |-> None]
            BY <4>2
          <6> QED BY <6>1, <2>c, <3>2, <1>0 DEF CoreInv, StackOf
        <5>4. stack[c] # None
          BY <2>c, <4>2, <1>0 DEF CoreInv, StackOf
        <5> QED BY <5>1, <5>2, <5>3, <5>4, <4>2, <2>u DEF StackOf, VPages
      <4> QED BY <3>1, <4>1, <4>2
    <3> QED BY <2>c, <3>3, <3>4, <3>5, <3>6, <1>e
  <2>3. CASE AllocAborts(c)
    <3>1. UNCHANGED <<cr3, pml4, tree, stack, pc, req, fault, vaddr_>>
      BY <2>3 DEF AllocAborts
    <3> QED BY <2>u, <3>1, <1>0, OtherCore DEF CoreInv, CoreOK
  <2>4. CASE MapBar(c)
    <3> DEFINE bar == req[c].bar
               P == vaddr_[bar] .. (vaddr_[bar] + BarPages - 1)
    <3>1. pc[c] = "map" /\ MapMemory(c, P, bar) /\ fault[c] = None
      BY <2>4 DEF MapBar, Executes
    <3>2. /\ bar \in Frames /\ P \in SUBSET VPages
          /\ at[c] = "up" /\ stack[c] # None
      <4>1. /\ at[c] = "up" /\ c = Boot
            /\ \E b \in Bars : req[c] = [npages |-> BarPages, bar |-> b]
            /\ vaddr_[bar] \in VPages /\ vaddr_[bar] + BarPages <= NumVPages
        BY <3>1, <1>0, <1>c DEF CoreInv, StackOf
      <4>2. stack[c] # None
        BY <4>1, <1>0, <1>c DEF CoreInv, StackOf
      <4> QED BY <4>1, <4>2 DEF VPages, Frames
    <3>3. /\ \A d \in Cores \ {c} : tree'[d] = tree[d]
          /\ tree'[c][TransPage] = tree[c][TransPage]
      <4> HIDE DEF bar, P
      <4>1. TransPage \notin P
        BY <3>2 DEF TransPage, VPages
      <4> QED BY <2>c, <3>1, <3>2, <4>1, <1>0, MapMemoryOwn
    <3>4. /\ pc'[c] = "out" /\ \A d \in Cores \ {c} : pc'[d] = pc[d] /\ req'[d] = req[d]
          /\ UNCHANGED <<cr3, pml4, stack, fault, vaddr_>>
      BY <2>4, <2>c, <1>0 DEF MapBar, VMTypeOK
    <3>5. \A d \in Cores \ {c} : CoreOK(d)'
      BY <2>u, <3>3, <3>4, <1>0, OtherCore
    <3>6. TablesOf(c)' /\ PlaceOf(c)'
      BY <2>c, <2>u, <3>3, <3>4, <1>0 DEF CoreInv, TablesOf, PlaceOf, TransPage
    <3>7. StackOf(c)' /\ FaultOf(c)'
      BY <2>c, <2>u, <3>1, <3>2, <3>4 DEF StackOf, FaultOf
    <3> QED BY <2>c, <3>5, <3>6, <3>7, <1>e
  <2>5. CASE HandlePageFault(c)
    <3>1. /\ fault[c] # None /\ fault'[c] = None
          /\ \A d \in Cores \ {c} : fault'[d] = fault[d]
          /\ UNCHANGED <<cr3, pml4, stack, pc, req, vaddr_>>
      BY <2>5, <2>c, <1>0 DEF HandlePageFault, VMTypeOK
    <3>2. stack[c] # None /\ {fault[c]} \in SUBSET VPages
      BY <3>1, <2>c, <1>0, FaultRegion
    <3>3. /\ \A d \in Cores \ {c} : tree'[d] = tree[d]
          /\ tree'[c][TransPage] = tree[c][TransPage]
      <4>1. TransPage \notin {fault[c]}
        BY <3>2 DEF TransPage, VPages
      <4>2. \/ tree' = tree
            \/ \E f \in Frames : MapMemory(c, {fault[c]}, f)
        <5>1. mappings_[fault[c]] # None => mappings_[fault[c]] \in Frames
          BY <3>2, <1>0 DEF VMTypeOK
        <5> QED BY <2>5, <5>1, <2>c, <1>0, FaultServed DEF Frames
      <4>3. ASSUME NEW f \in Frames, MapMemory(c, {fault[c]}, f)
            PROVE  /\ \A d \in Cores \ {c} : tree'[d] = tree[d]
                   /\ tree'[c][TransPage] = tree[c][TransPage]
        <5> DEFINE P == {fault[c]}
        <5>1. P \in SUBSET VPages /\ TransPage \notin P /\ MapMemory(c, P, f)
          BY <3>2, <4>1, <4>3
        <5> HIDE DEF P
        <5>2. f \in Frames /\ stack[c] # None
          BY <3>2, <4>3
        <5>3. /\ \A d \in Cores : d # c => tree'[d] = tree[d]
              /\ \A p \in VPages \cup {TransPage} :
                   p \notin P \/ tree[c][p] # None => tree'[c][p] = tree[c][p]
          BY ONLY <2>c, <5>1, <5>2, <1>0, MapMemoryOwn
        <5> QED BY <5>1, <5>3
      <4> QED BY <4>2, <4>3
    <3>5. \A d \in Cores \ {c} : CoreOK(d)'
      BY <2>u, <3>1, <3>3, <1>0, OtherCore
    <3>6. TablesOf(c)' /\ PlaceOf(c)'
      BY <2>c, <2>u, <3>1, <3>3, <1>0 DEF CoreInv, TablesOf, PlaceOf, TransPage
    <3>7. StackOf(c)' /\ FaultOf(c)'
      BY <2>c, <2>u, <3>1, <1>0 DEF CoreInv, StackOf, FaultOf
    <3> QED BY <2>c, <3>5, <3>6, <3>7, <1>e
  <2> QED BY <1>4, <2>1, <2>2, <2>3, <2>4, <2>5 DEF VMStep
<1>5. ASSUME NEW c \in cpus, SaveContext(c) PROVE CoreInv'
  <2>c. c \in Cores
    BY <1>c
  <2>1. /\ UNCHANGED <<cpus, at, ref, cr3, pml4, tree, stack, fault, vaddr_>>
        /\ at[c] = "up" /\ pc[c] = "out" /\ pc'[c] = "want"
        /\ req'[c] = [npages |-> STACK_NPAGES, bar |-> None]
        /\ \A d \in Cores \ {c} : req'[d] = req[d] /\ pc'[d] = pc[d]
    BY <1>5, <2>c, <1>0, <1>u DEF SaveContext, AllocCall, VMTypeOK
  <2>2. \A d \in Cores \ {c} : CoreOK(d)'
    BY <2>1, <1>0, OtherCore
  <2>3. TablesOf(c)' /\ PlaceOf(c)' /\ FaultOf(c)'
    BY <2>c, <2>1, <1>0 DEF CoreInv, TablesOf, PlaceOf, FaultOf, TransPage
  <2>4. StackOf(c)'
    BY <2>c, <2>1, <1>0 DEF CoreInv, StackOf
  <2> QED BY <2>c, <2>2, <2>3, <2>4, <1>e
<1>6. ASSUME NEW c \in cpus, NEW s \in VPages, SwitchStack(c, s) PROVE CoreInv'
  <2>c. c \in Cores
    BY <1>c
  <2>1. /\ UNCHANGED <<cpus, at, ref, cr3, pml4, tree, pc, req, fault, vaddr_>>
        /\ at[c] = "up" /\ pc[c] = "out" /\ fault[c] = None /\ stack'[c] = s
        /\ \A d \in Cores \ {c} : stack'[d] = stack[d]
    BY <1>6, <2>c, <1>0, <1>u DEF SwitchStack, Executes, VMTypeOK
  <2>s. s # None
    BY DEF VPages
  <2>2. \A d \in Cores \ {c} : CoreOK(d)'
    BY <2>1, <1>0, OtherCore
  <2>3. TablesOf(c)' /\ PlaceOf(c)' /\ FaultOf(c)'
    BY <2>c, <2>1, <1>0 DEF CoreInv, TablesOf, PlaceOf, FaultOf, TransPage
  <2>4. StackOf(c)'
    BY <2>c, <2>1, <2>s, <1>0 DEF CoreInv, StackOf
  <2> QED BY <2>c, <2>2, <2>3, <2>4, <1>e
<1>7. ASSUME NEW c \in cpus, NEW p \in VPages, Touch(c, p), UNCHANGED <<cpus, startVars>>
      PROVE  CoreInv'
  <2>c. c \in Cores
    BY <1>c
  <2>1. /\ UNCHANGED <<cpus, at, ref, cr3, pml4, tree, stack, pc, req, vaddr_>>
        /\ stack[c] # None /\ p \in stack[c] .. (stack[c] + STACK_NPAGES - 1)
        /\ Translate(c, p) = None /\ fault'[c] = p
        /\ \A d \in Cores \ {c} : fault'[d] = fault[d]
    BY <1>7, <2>c, <1>0, <1>u DEF Touch, VMTypeOK
  <2>2. \A d \in Cores \ {c} : CoreOK(d)'
    BY <2>1, <1>0, OtherCore
  <2>3. TablesOf(c)' /\ PlaceOf(c)' /\ StackOf(c)'
    BY <2>c, <2>1, <1>0 DEF CoreInv, TablesOf, PlaceOf, StackOf, TransPage
  <2>4. FaultOf(c)'
    BY <2>c, <2>1, <1>0, OwnTables DEF FaultOf
  <2> QED BY <2>c, <2>2, <2>3, <2>4, <1>e
<1>8. ASSUME NEW b \in Bars, PciMap(b) PROVE CoreInv'
  <2>c. Boot \in Cores
    BY <1>c
  <2>1. /\ UNCHANGED <<cpus, at, ref, cr3, pml4, tree, stack, fault, vaddr_>>
        /\ at[Boot] = "up" /\ pc[Boot] = "out" /\ pc'[Boot] = "want"
        /\ req'[Boot] = [npages |-> BarPages, bar |-> b]
        /\ \A d \in Cores \ {Boot} : req'[d] = req[d] /\ pc'[d] = pc[d]
    BY <1>8, <2>c, <1>0, <1>u DEF PciMap, AllocCall, VMTypeOK
  <2>2. \A d \in Cores \ {Boot} : CoreOK(d)'
    BY <2>1, <1>0, OtherCore
  <2>3. TablesOf(Boot)' /\ PlaceOf(Boot)' /\ FaultOf(Boot)'
    BY <2>c, <2>1, <1>0 DEF CoreInv, TablesOf, PlaceOf, FaultOf, TransPage
  <2>4. StackOf(Boot)'
    BY <2>c, <2>1, <1>0 DEF CoreInv, StackOf
  <2> QED BY <2>c, <2>2, <2>3, <2>4, <1>e
<1>9. CASE UNCHANGED smpVars
  <2>1. UNCHANGED <<vmVars, cpus, at, ref>>
    BY <1>9, <1>u DEF smpVars
  <2> QED BY <2>1, <1>0, OtherCore DEF vmVars, CoreInv, CoreOK
<1> QED BY <1>1, <1>2, <1>4, <1>5, <1>6, <1>7, <1>8, <1>9 DEF Next

-----------------------------------------------------------------------------
(* The regions *)

\* mappings_.size() + 1 >= STACK_NPAGES is tested before a page is added, so
\* one page of the region besides it stays without memory.
LEMMA OneMoreUnbacked ==
  ASSUME TypeOK, RegionInv, NEW r \in regions_, r.handler,
         NEW p \in PagesOf(r), mappings_[p] = None, ~ StackOverflow(r)
  PROVE  \E q \in PagesOf(r) : q # p /\ mappings_[q] = None
<1> USE VMemAssumption
<1> DEFINE B == {q \in PagesOf(r) : mappings_[q] # None}
           O == PagesOf(r) \ {p}
<1>1. /\ r.begin \in Int /\ r.end \in Int /\ r.end = r.begin + STACK_NPAGES
      /\ STACK_NPAGES \in Nat /\ STACK_NPAGES >= 2
  BY DEF RegionInv, Tiling, VPages
<1>2. IsFiniteSet(PagesOf(r)) /\ Cardinality(PagesOf(r)) = STACK_NPAGES
  <2> DEFINE e == r.end - 1
  <2>1. e \in Int /\ ~ (r.begin > e) /\ e - r.begin + 1 = STACK_NPAGES
    BY <1>1
  <2> HIDE DEF e
  <2>2. IsFiniteSet(r.begin .. e) /\ Cardinality(r.begin .. e) = e - r.begin + 1
    BY <1>1, <2>1, FS_Interval
  <2> QED BY <2>1, <2>2 DEF PagesOf, e
<1>3. IsFiniteSet(O) /\ Cardinality(O) = STACK_NPAGES - 1
  BY <1>2, FS_RemoveElement
<1>4. IsFiniteSet(B) /\ Cardinality(B) \in Nat
  BY <1>2, FS_Subset, FS_CardinalityType
<1>5. Cardinality(B) + 1 < STACK_NPAGES
  BY <1>1, <1>4 DEF StackOverflow, Backed
<1>6. ASSUME O \subseteq B PROVE FALSE
  <2> HIDE DEF O, B
  <2>1. Cardinality(O) <= Cardinality(B)
    BY <1>4, <1>6, FS_Subset
  <2> QED BY <1>1, <1>3, <1>4, <1>5, <2>1
<1> QED BY <1>6

\* Every step leaves the space tiled and every stack a region of its own.
LEMMA RegionStep == SmpInv /\ [Next]_smpVars => RegionInv'
<1> SUFFICES ASSUME SmpInv, [Next]_smpVars PROVE RegionInv'
  OBVIOUS
<1> USE VMemAssumption
<1>0. TypeOK /\ VMTypeOK /\ CoreInv /\ RegionInv
  BY DEF SmpInv, TypeOK
<1>c. cpus \subseteq Cores /\ Boot \in cpus
  BY <1>0, CpuFacts
<1>u. ASSUME UNCHANGED <<regions_, mappings_, stack>> PROVE RegionInv'
  BY <1>u, <1>0 DEF RegionInv, Tiling, StacksAreRegions, HandlersKeep, VPages, PagesOf, Region
<1>v. ASSUME UNCHANGED vmVars PROVE RegionInv'
  BY <1>v, <1>u DEF vmVars
<1>1. ASSUME BootStep PROVE RegionInv'
  BY <1>1, <1>v DEF BootStep, SmpInit, AllSent, SendIpi
<1>2. ASSUME NEW c \in cpus, StartStep(c) PROVE RegionInv'
  <2>1. CASE LoadStack(c) \/ PopStack(c) \/ Constructed(c)
             \/ WaitLoad(c) \/ WaitArrive(c) \/ WaitRelease(c) \/ WaitSpin(c)
    BY <2>1, <1>v DEF LoadStack, PopStack, Constructed, WaitLoad, WaitArrive, WaitRelease, WaitSpin
  <2>2. CASE EnableRuntimePageTable(c) \/ VmemApInit(c) \/ TransApInit(c) \/ EbbDeref(c)
    BY <2>2, <1>u DEF EnableRuntimePageTable, VmemApInit, TransApInit, EbbDeref
  <2> QED BY <1>2, <2>1, <2>2 DEF StartStep
<1>4. ASSUME NEW c \in cpus, VMStep(c) PROVE RegionInv'
  <2>c. c \in Cores
    BY <1>c
  <2>1. CASE AllocLock(c) \/ AllocAborts(c) \/ MapBar(c)
    BY <2>1, <1>u DEF AllocLock, AllocAborts, MapBar
  <2>2. CASE AllocReturn(c)
    <3> USE DEF AllocSplits
    <3>1. PICK r \in regions_, n \in Nat \ {0} : AllocSplits(c, r, n)
      BY <2>2, <2>c, <1>0, AllocFacts
    <3> DEFINE new == Region(r.end - n, r.end, req[c].bar = None)
    <3>2. /\ Tiling'
          /\ \A q \in regions_ : q.handler => q \in regions_'
          /\ \A q \in regions_' : q.handler => q \in regions_ \/ q = new
      BY <3>1, <1>0, SplitTiling DEF RegionInv
    <3>m. mappings_' = mappings_
      BY <2>2 DEF AllocReturn
    <3>r. /\ r.begin \in Int /\ r.end \in Int /\ new \in regions_'
          /\ new.begin = r.end - n /\ new.end = r.end
      BY <3>1, <1>0 DEF RegionInv, Tiling, VPages, Region
    <3>3. StacksAreRegions'
      <4> SUFFICES ASSUME NEW d \in Cores, stack'[d] # None
                   PROVE  Region(stack'[d], stack'[d] + STACK_NPAGES, TRUE) \in regions_'
        BY DEF StacksAreRegions, Region
      <4>1. CASE stack'[d] = stack[d]
        <5>1. Region(stack[d], stack[d] + STACK_NPAGES, TRUE) \in regions_
          BY <4>1, <1>0 DEF RegionInv, StacksAreRegions
        <5>2. Region(stack[d], stack[d] + STACK_NPAGES, TRUE).handler
          BY DEF Region
        <5> QED BY <5>1, <5>2, <3>2, <4>1
      <4>2. CASE stack'[d] # stack[d]
        <5>1. /\ d = c /\ stack'[d] = r.end - n /\ n = STACK_NPAGES
              /\ req[c].bar = None
          BY <4>2, <2>c, <3>1, <1>0 DEF VMTypeOK
        <5>2. stack'[d] + STACK_NPAGES = r.end
          BY <5>1, <3>r
        <5> QED BY <5>1, <5>2, <3>r DEF Region
      <4> QED BY <4>1, <4>2
    <3>4. HandlersKeep'
      <4> HIDE DEF new
      <4>1. \A p \in VPages : mappings_[p] # None =>
              \E q \in regions_' : q.handler /\ p \in PagesOf(q)
        BY <3>2, <1>0 DEF RegionInv, HandlersKeep
      <4>2. \A q \in regions_' : q.handler => \E p \in PagesOf(q) : mappings_[p] = None
        <5> SUFFICES ASSUME NEW q \in regions_', q.handler
                     PROVE  \E p \in PagesOf(q) : mappings_[p] = None
          OBVIOUS
        <5>1. CASE q \in regions_
          BY <5>1, <1>0 DEF RegionInv, HandlersKeep
        <5>2. CASE q = new
          <6>1. r.end - 1 \in PagesOf(new) /\ r.end - 1 \in PagesOf(r) /\ r.end - 1 \in VPages
            BY <3>1, <3>r DEF PagesOf, VPages
          <6>2. mappings_[r.end - 1] = None
            <7> SUFFICES ASSUME mappings_[r.end - 1] # None PROVE FALSE
              OBVIOUS
            <7>1. PICK x \in regions_ : x.handler /\ r.end - 1 \in PagesOf(x)
              BY <6>1, <1>0 DEF RegionInv, HandlersKeep
            <7>2. x = r
              BY <6>1, <7>1, <1>0, SameRegion DEF RegionInv
            <7> QED BY <7>1, <7>2, <3>1
          <6> QED BY <6>1, <6>2, <5>2
        <5> QED BY <5>1, <5>2, <3>2
      <4> QED BY <4>1, <4>2, <3>m DEF HandlersKeep, VPages, PagesOf
    <3> QED BY <3>2, <3>3, <3>4 DEF RegionInv
  <2>3. CASE HandlePageFault(c)
    <3> DEFINE p == fault[c]
               r == Region(stack[c], stack[c] + STACK_NPAGES, TRUE)
    <3>1. /\ UNCHANGED <<regions_, stack>> /\ p # None
          /\ mappings_' = mappings_ \/ (/\ mappings_[p] = None /\ ~ StackOverflow(LowerBound(p))
                                        /\ mappings_' = Keeps(p, c))
      <4>1. UNCHANGED <<regions_, stack>> /\ p # None
        BY <2>3 DEF HandlePageFault
      <4> QED BY <4>1, <2>3, <2>c, <1>0, FaultServed
    <3>2. CASE mappings_' = mappings_
      BY <3>1, <3>2, <1>u
    <3>3. CASE mappings_[p] = None /\ ~ StackOverflow(LowerBound(p)) /\ mappings_' = Keeps(p, c)
      <4>1. /\ p \in VPages /\ r \in regions_ /\ p \in PagesOf(r) /\ LowerBound(p) = r
            /\ r.handler
        BY <3>1, <2>c, <1>0, FaultRegion
      <4> HIDE DEF p, r
      <4>2. PICK s \in PagesOf(r) : s # p /\ mappings_[s] = None
        BY <4>1, <3>3, <1>0, OneMoreUnbacked
      <4>3. \A x \in VPages : x # p => mappings_'[x] = mappings_[x]
        BY <3>3, <1>0 DEF Keeps, VMTypeOK
      <4>4. \A q \in regions_ : PagesOf(q) \subseteq VPages
        BY <1>0 DEF RegionInv, Tiling, PagesOf, VPages
      <4>5. \A x \in VPages : mappings_'[x] # None =>
              \E q \in regions_ : q.handler /\ x \in PagesOf(q)
        BY <4>1, <4>3, <1>0 DEF RegionInv, HandlersKeep
      <4>6. \A q \in regions_ : q.handler => \E x \in PagesOf(q) : mappings_'[x] = None
        <5> SUFFICES ASSUME NEW q \in regions_, q.handler
                     PROVE  \E x \in PagesOf(q) : mappings_'[x] = None
          OBVIOUS
        <5>1. CASE q = r
          BY <5>1, <4>2, <4>3, <4>4, <4>1
        <5>2. CASE q # r
          <6>1. PICK x \in PagesOf(q) : mappings_[x] = None
            BY <1>0 DEF RegionInv, HandlersKeep
          <6>2. x # p
            BY <5>2, <4>1, <1>0, SameRegion DEF RegionInv
          <6> QED BY <6>1, <6>2, <4>3, <4>4
        <5> QED BY <5>1, <5>2
      <4>7. HandlersKeep'
        BY <4>5, <4>6, <3>1 DEF HandlersKeep, VPages, PagesOf
      <4> QED BY <4>7, <3>1, <1>0 DEF RegionInv, Tiling, StacksAreRegions, VPages, PagesOf, Region
    <3> QED BY <3>1, <3>2, <3>3
  <2> QED BY <1>4, <2>1, <2>2, <2>3 DEF VMStep
<1>5. ASSUME NEW c \in cpus, SaveContext(c) PROVE RegionInv'
  BY <1>5, <1>u DEF SaveContext
<1>6. ASSUME NEW c \in cpus, NEW s \in VPages, SwitchStack(c, s) PROVE RegionInv'
  <2>1. /\ UNCHANGED <<regions_, mappings_>> /\ stack' = [stack EXCEPT ![c] = s]
        /\ s \in Stacks
    BY <1>6 DEF SwitchStack
  <2>2. PICK r \in regions_ : r.handler /\ r.begin = s
    BY <2>1 DEF Stacks
  <2>3. r = Region(s, s + STACK_NPAGES, TRUE)
    <3>1. /\ r \in [begin : VPages, end : 0 .. NumVPages, handler : BOOLEAN]
          /\ r.end = r.begin + STACK_NPAGES
      BY <2>2, <1>0 DEF RegionInv, Tiling
    <3> QED BY <3>1, <2>2 DEF Region
  <2>4. StacksAreRegions'
    <3> SUFFICES ASSUME NEW d \in Cores, stack'[d] # None
                 PROVE  Region(stack'[d], stack'[d] + STACK_NPAGES, TRUE) \in regions_'
      BY DEF StacksAreRegions, Region
    <3>1. stack'[d] = IF d = c THEN s ELSE stack[d]
      BY <2>1, <1>c, <1>0 DEF VMTypeOK
    <3>2. stack[d] # None => Region(stack[d], stack[d] + STACK_NPAGES, TRUE) \in regions_
      BY <1>0 DEF RegionInv, StacksAreRegions
    <3>3. CASE d = c
      <4>1. stack'[d] = s
        BY <3>1, <3>3
      <4>2. Region(stack'[d], stack'[d] + STACK_NPAGES, TRUE) = r
        BY ONLY <2>3, <4>1 DEF Region
      <4>3. r \in regions_'
        BY <2>1, <2>2
      <4> QED BY ONLY <4>2, <4>3 DEF Region
    <3>4. CASE d # c
      BY <2>1, <3>1, <3>2, <3>4 DEF Region
    <3> QED BY <3>3, <3>4
  <2> QED BY <2>1, <2>4, <1>0 DEF RegionInv, Tiling, HandlersKeep, VPages, PagesOf
<1>7. ASSUME NEW c \in cpus, NEW p \in VPages, Touch(c, p) PROVE RegionInv'
  BY <1>7, <1>u DEF Touch
<1>8. ASSUME NEW b \in Bars, PciMap(b) PROVE RegionInv'
  BY <1>8, <1>u DEF PciMap
<1>9. CASE UNCHANGED smpVars
  BY <1>9, <1>v DEF smpVars
<1> QED BY <1>1, <1>2, <1>4, <1>5, <1>6, <1>7, <1>8, <1>9 DEF Next

-----------------------------------------------------------------------------
(* The list of boot stacks *)

\* A step that leaves the list alone and takes no core across it.
LEMMA PopStays ==
  ASSUME PopInv, cpus' = cpus, smp_stack_free' = smp_stack_free, rsp' = rsp,
         Boot \in Cores, cpus \subseteq Cores,
         at'[Boot] = "smp_init" <=> at[Boot] = "smp_init",
         \A c \in Cores : at'[c] = "off" <=> at[c] = "off",
         \A c \in Cores : at'[c] \in BeforePop <=> at[c] \in BeforePop
  PROVE  PopInv'
<1>1. {c \in cpus' : at'[c] \in BeforePop} = {c \in cpus : at[c] \in BeforePop}
  OBVIOUS
<1>2. BootStacksDistinct'
  BY DEF PopInv, BootStacksDistinct
<1>3. /\ at'[Boot] = "smp_init" => /\ smp_stack_free' = 0 /\ rsp'[Boot] = 0
                                   /\ \A c \in Cores \ {Boot} : at'[c] = "off"
      /\ \A c \in Cores : at'[c] \in BeforePop => rsp'[c] = 0
      /\ \A c \in Cores : rsp'[c] # 0 => rsp'[c] > smp_stack_free'
  BY DEF PopInv
<1>4. at'[Boot] # "smp_init" =>
        smp_stack_free' = Cardinality({c \in cpus' : at'[c] \in BeforePop})
  BY <1>1 DEF PopInv
<1> QED BY <1>2, <1>3, <1>4 DEF PopInv, BeforePop

\* Every step keeps the list of boot stacks as long as it has to be.
LEMMA PopInvStep == SmpInv /\ [Next]_smpVars => PopInv'
<1> SUFFICES ASSUME SmpInv, [Next]_smpVars PROVE PopInv'
  OBVIOUS
<1> USE PlaceSets
<1>0. TypeOK /\ CoreInv /\ PopInv
  BY DEF SmpInv
<1>c. cpus \subseteq Cores /\ Boot \in cpus /\ Boot \in Cores /\ IsFiniteSet(cpus)
  BY <1>0, CpuFacts
<1>t. at \in [Cores -> Places] /\ smp_stack_free \in Int
      /\ rax \in [Cores -> Int] /\ rsp \in [Cores -> Int]
  BY <1>0 DEF TypeOK
<1>b. at[Boot] \in InSmpInit \cup InBarrier /\ \A c \in Cores \ {Boot} : at[c] \notin InSmpInit
  BY <1>0, <1>c DEF CoreInv, PlaceOf
<1>u. ASSUME NEW c \in Cores, NEW place, at[c] \notin BeforePop, place \notin BeforePop,
             at[c] # "smp_init", place # "smp_init", Go(c, place),
             UNCHANGED <<cpus, smp_stack_free, rsp>>
      PROVE  PopInv'
  <2>1. \A d \in Cores : at'[d] = IF d = c THEN place ELSE at[d]
    BY <1>u, <1>t DEF Go
  <2> QED BY <1>u, <2>1, <1>0, <1>c, PopStays
<1>v. ASSUME UNCHANGED <<cpus, startVars>> PROVE PopInv'
  BY <1>v, <1>0, <1>c, PopStays DEF startVars
<1>1. CASE SmpInit
  <2> DEFINE W == {c \in cpus : at'[c] \in BeforePop}
  <2>1. /\ at[Boot] = "smp_init" /\ smp_stack_free' = Cardinality(cpus) - 1
        /\ cpus' = cpus /\ rsp' = rsp
        /\ \A d \in Cores : at'[d] = IF d = Boot THEN "ipi" ELSE at[d]
    BY <1>1, <1>t DEF SmpInit, Go
  <2>2. W = cpus \ {Boot}
    BY <2>1, <1>0, <1>c DEF PopInv
  <2>3. Cardinality(W) = Cardinality(cpus) - 1
    BY <2>2, <1>c, FS_RemoveElement
  <2>4. \A c \in Cores : rsp[c] = 0
    <3>1. \A c \in Cores \ {Boot} : rsp[c] = 0
      BY <2>1, <1>0 DEF PopInv
    <3>2. rsp[Boot] = 0
      BY <1>0, <1>c, <2>1 DEF SmpInv, PopInv
    <3> QED BY <3>1, <3>2
  <2>5. smp_stack_free' = Cardinality({c \in cpus' : at'[c] \in BeforePop})
    BY <2>1, <2>3
  <2> HIDE DEF W
  <2>6. BootStacksDistinct'
    BY <2>1, <2>4, <1>c DEF BootStacksDistinct
  <2> QED BY <2>1, <2>4, <2>5, <2>6, <1>c DEF PopInv
<1>2. CASE AllSent
  BY <1>2, <1>u, <1>c DEF AllSent
<1>3. ASSUME NEW c \in cpus, SendIpi(c) PROVE PopInv'
  <2>1. /\ at[Boot] = "ipi" /\ at[c] = "off" /\ c \in Cores /\ c # Boot
        /\ UNCHANGED <<cpus, smp_stack_free, rsp>>
        /\ \A d \in Cores : at'[d] = IF d = c THEN "pop" ELSE at[d]
    BY <1>3, <1>t, <1>c DEF SendIpi, Go
  <2>2. {d \in cpus' : at'[d] \in BeforePop} = {d \in cpus : at[d] \in BeforePop}
    BY <2>1, <1>c
  <2>3. BootStacksDistinct'
    BY <2>1, <1>0 DEF PopInv, BootStacksDistinct
  <2>4. smp_stack_free' = Cardinality({d \in cpus' : at'[d] \in BeforePop})
    BY <2>1, <2>2, <1>0 DEF PopInv
  <2> QED BY <2>1, <2>3, <2>4, <1>0, <1>c DEF PopInv
<1>4. ASSUME NEW c \in cpus, LoadStack(c) PROVE PopInv'
  <2>1. /\ at[c] = "pop" /\ UNCHANGED <<cpus, smp_stack_free, rsp>>
        /\ \A d \in Cores : at'[d] = IF d = c THEN "cmpxchg" ELSE at[d]
    BY <1>4, <1>t, <1>c DEF LoadStack, Go
  <2> QED BY <2>1, <1>0, <1>c, PopStays
<1>5. ASSUME NEW c \in cpus, PopStack(c) PROVE PopInv'
  <2>0. at[c] = "cmpxchg" /\ c \in Cores /\ c # Boot /\ at[Boot] # "smp_init" /\ cpus' = cpus
    BY <1>5, <1>b, <1>c, <1>0 DEF PopStack, PopInv
  <2>1. CASE ~ Compares(c)
    <3>1. /\ UNCHANGED <<cpus, smp_stack_free, rsp>>
          /\ \A d \in Cores : at'[d] = IF d = c THEN "pop" ELSE at[d]
      BY <1>5, <2>1, <1>t, <1>c DEF PopStack, Go
    <3> QED BY <2>0, <3>1, <1>0, <1>c, PopStays
  <2>2. CASE Compares(c)
    <3> DEFINE W == {d \in cpus : at[d] \in BeforePop}
               V == {d \in cpus : at'[d] \in BeforePop}
    <3>1. /\ smp_stack_free' = smp_stack_free - 1
          /\ \A d \in Cores : rsp'[d] = IF d = c THEN smp_stack_free ELSE rsp[d]
          /\ \A d \in Cores : at'[d] = IF d = c THEN "main" ELSE at[d]
      BY <1>5, <2>2, <1>t, <1>c DEF PopStack, Go, Compares
    <3>2. V = W \ {c} /\ c \in W /\ IsFiniteSet(W)
      BY <2>0, <3>1, <1>c, FS_Subset
    <3>3. Cardinality(V) = Cardinality(W) - 1
      BY <3>2, FS_RemoveElement
    <3>4. smp_stack_free = Cardinality(W)
      BY <2>0, <1>0 DEF PopInv
    <3>5. smp_stack_free' = Cardinality({d \in cpus' : at'[d] \in BeforePop})
      BY <3>1, <3>3, <3>4, <2>0
    <3> HIDE DEF V, W
    <3>6. \A d \in Cores : rsp[d] # 0 => rsp[d] > smp_stack_free /\ d # c
      BY <1>0, <2>0 DEF PopInv
    <3>7. \A d \in Cores : rsp'[d] # 0 => rsp'[d] > smp_stack_free'
      BY <3>1, <3>6, <1>t
    <3>8. BootStacksDistinct'
      <4> SUFFICES ASSUME NEW x \in cpus, NEW y \in cpus, x # y, rsp'[x] # 0
                   PROVE  rsp'[x] # rsp'[y]
        BY <2>0 DEF BootStacksDistinct
      <4>1. x \in Cores /\ y \in Cores
        BY <1>c
      <4>2. CASE x # c /\ y # c
        BY <4>1, <4>2, <3>1, <1>0 DEF PopInv, BootStacksDistinct
      <4>3. CASE x = c
        BY <4>1, <4>3, <3>1, <3>6, <1>t
      <4>4. CASE y = c
        BY <4>1, <4>4, <3>1, <3>6, <1>t
      <4> QED BY <4>2, <4>3, <4>4
    <3>9. \A d \in Cores : at'[d] \in BeforePop => rsp'[d] = 0
      BY <3>1, <1>0 DEF PopInv
    <3>10. at'[Boot] # "smp_init"
      BY <2>0, <3>1, <1>c
    <3> QED BY <3>5, <3>7, <3>8, <3>9, <3>10 DEF PopInv
  <2> QED BY <2>1, <2>2
<1>6. ASSUME NEW c \in cpus, StartStep(c), ~ LoadStack(c), ~ PopStack(c) PROVE PopInv'
  <2>c. c \in Cores
    BY <1>c
  <2>1. CASE EnableRuntimePageTable(c)
    BY <2>1, <2>c, <1>u DEF EnableRuntimePageTable
  <2>2. CASE VmemApInit(c)
    BY <2>2, <2>c, <1>u DEF VmemApInit
  <2>3. CASE TransApInit(c)
    BY <2>3, <2>c, <1>u DEF TransApInit
  <2>4. CASE EbbDeref(c)
    BY <2>4, <2>c, <1>u DEF EbbDeref
  <2>5. CASE Constructed(c)
    BY <2>5, <2>c, <1>u DEF Constructed
  <2>6. CASE WaitLoad(c)
    BY <2>6, <2>c, <1>u DEF WaitLoad
  <2>7. CASE WaitArrive(c)
    BY <2>7, <2>c, <1>u DEF WaitArrive
  <2>8. CASE WaitRelease(c)
    BY <2>8, <2>c, <1>u DEF WaitRelease
  <2>9. CASE WaitSpin(c)
    BY <2>9, <2>c, <1>u DEF WaitSpin
  <2> QED BY <1>6, <2>1, <2>2, <2>3, <2>4, <2>5, <2>6, <2>7, <2>8, <2>9 DEF StartStep
<1>7. ASSUME \/ \E c \in cpus : VMStep(c) \/ SaveContext(c)
             \/ \E c \in cpus, s \in VPages : SwitchStack(c, s)
             \/ \E c \in cpus, p \in VPages : Touch(c, p) /\ UNCHANGED <<cpus, startVars>>
             \/ \E b \in Bars : PciMap(b)
      PROVE  PopInv'
  <2>1. UNCHANGED <<cpus, startVars>>
    BY <1>7 DEF VMStep, SaveContext, SwitchStack, PciMap
  <2> QED BY <2>1, <1>v
<1>8. CASE UNCHANGED smpVars
  BY <1>8, <1>v DEF smpVars
<1> QED BY <1>1, <1>2, <1>3, <1>4, <1>5, <1>6, <1>7, <1>8 DEF Next, BootStep

-----------------------------------------------------------------------------
(* The barrier *)

\* A step that changes no waiter leaves the barrier as it is.
LEMMA BarrierStays ==
  ASSUME BarrierInv, UNCHANGED <<cpus, barrierVars>>,
         \A c \in cpus : \/ at'[c] = at[c]
                         \/ at[c] \notin {"spin", "release", "up"}
                            /\ at'[c] \notin {"spin", "release", "up"}
  PROVE  BarrierInv'
<1>1. {c \in cpus' : at'[c] = "spin"} = {c \in cpus : at[c] = "spin"}
  BY DEF barrierVars
<1>2. CASE Counting
  BY <1>1, <1>2 DEF BarrierInv, Counting, barrierVars
<1>3. CASE Releasing
  BY <1>3 DEF BarrierInv, Releasing, barrierVars
<1>4. CASE Done
  BY <1>4 DEF BarrierInv, Done, barrierVars
<1> QED BY <1>2, <1>3, <1>4 DEF BarrierInv

\* Every step keeps the barrier counting, releasing or done.
LEMMA BarrierStep == SmpInv /\ [Next]_smpVars => BarrierInv'
<1> SUFFICES ASSUME SmpInv, [Next]_smpVars PROVE BarrierInv'
  OBVIOUS
<1>0. TypeOK /\ CoreInv /\ BarrierInv
  BY DEF SmpInv
<1>c. cpus \subseteq Cores /\ Boot \in cpus /\ Boot \in Cores /\ IsFiniteSet(cpus)
      /\ Cardinality(cpus) \in Nat \ {0}
  BY <1>0, CpuFacts
<1>t. at \in [Cores -> Places] /\ step = [c \in Cores |-> 0]
  BY <1>0 DEF TypeOK, BarrierInv
<1>u. ASSUME NEW c \in Cores, NEW place, at[c] \notin {"spin", "release", "up"},
             place \notin {"spin", "release", "up"}, Go(c, place),
             UNCHANGED <<cpus, barrierVars>>
      PROVE  BarrierInv'
  <2>1. \A d \in Cores : at'[d] = IF d = c THEN place ELSE at[d]
    BY <1>u, <1>t DEF Go
  <2> QED BY <1>u, <2>1, <1>0, <1>c, BarrierStays
<1>v. ASSUME UNCHANGED <<cpus, startVars>> PROVE BarrierInv'
  BY <1>v, <1>0, BarrierStays DEF startVars, barrierVars
<1>1. ASSUME BootStep PROVE BarrierInv'
  <2>1. CASE SmpInit
    BY <2>1, <1>u, <1>c DEF SmpInit
  <2>2. CASE AllSent
    BY <2>2, <1>u, <1>c DEF AllSent
  <2>3. ASSUME NEW c \in cpus, SendIpi(c) PROVE BarrierInv'
    BY <2>3, <1>u, <1>c DEF SendIpi
  <2> QED BY <1>1, <2>1, <2>2, <2>3 DEF BootStep
<1>2. ASSUME NEW c \in cpus, StartStep(c) PROVE BarrierInv'
  <2>c. c \in Cores
    BY <1>c
  <2>1. CASE EnableRuntimePageTable(c)
    BY <2>1, <2>c, <1>u DEF EnableRuntimePageTable
  <2>2. CASE VmemApInit(c)
    BY <2>2, <2>c, <1>u DEF VmemApInit
  <2>3. CASE TransApInit(c)
    BY <2>3, <2>c, <1>u DEF TransApInit
  <2>4. CASE EbbDeref(c)
    BY <2>4, <2>c, <1>u DEF EbbDeref
  <2>5. CASE Constructed(c)
    BY <2>5, <2>c, <1>u DEF Constructed
  <2>6. CASE LoadStack(c)
    BY <2>6, <2>c, <1>u DEF LoadStack
  <2>7. CASE PopStack(c)
    BY <2>7, <2>c, <1>u DEF PopStack
  <2>8. CASE WaitLoad(c)
    <3>1. /\ at[c] = "wait" /\ UNCHANGED <<cpus, waiters_, completed_>>
          /\ step' = [step EXCEPT ![c] = completed_]
          /\ \A d \in Cores : at'[d] = IF d = c THEN "arrive" ELSE at[d]
      BY <2>8, <2>c, <1>t DEF WaitLoad, Go
    <3>2. Counting
      BY <3>1, <1>0 DEF BarrierInv, Releasing, Done
    <3>3. step' = step
      BY <3>1, <3>2, <1>t DEF Counting
    <3> QED BY <3>1, <3>3, <1>0, <1>c, BarrierStays DEF barrierVars
  <2>9. CASE WaitArrive(c)
    <3> DEFINE S == {d \in cpus : at[d] = "spin"}
               T == {d \in cpus : at'[d] = "spin"}
    <3>1. at[c] = "arrive" /\ UNCHANGED <<cpus, completed_, step>>
      BY <2>9 DEF WaitArrive
    <3>2. Counting
      BY <3>1, <1>0 DEF BarrierInv, Releasing, Done
    <3>3. S \subseteq cpus \ {c} /\ IsFiniteSet(S)
      BY <3>1, <1>c, FS_Subset
    <3>4. CASE LastWaiter
      <4>1. waiters_' = 0 /\ \A d \in Cores : at'[d] = IF d = c THEN "release" ELSE at[d]
        BY <2>9, <3>4, <2>c, <1>t DEF WaitArrive, Go
      <4>2. Cardinality(S) = Cardinality(cpus) - 1
        BY <3>2, <3>4 DEF Counting, LastWaiter
      <4>3. IsFiniteSet(cpus \ {c}) /\ Cardinality(cpus \ {c}) = Cardinality(cpus) - 1
        BY <1>c, FS_RemoveElement
      <4>4. S = cpus \ {c}
        <5> HIDE DEF S
        <5> QED BY <3>3, <4>2, <4>3, FS_Subset
      <4>5. at'[c] = "release" /\ \A d \in cpus \ {c} : at'[d] = "spin"
        BY <4>1, <4>4, <1>c, <2>c
      <4>6. Releasing'
        BY <4>1, <4>5, <3>1, <3>2 DEF Releasing, Counting
      <4> QED BY <4>6, <3>1, <1>t DEF BarrierInv
    <3>5. CASE ~ LastWaiter
      <4>1. waiters_' = waiters_ + 1 /\ \A d \in Cores : at'[d] = IF d = c THEN "spin" ELSE at[d]
        BY <2>9, <3>5, <2>c, <1>t DEF WaitArrive, Go
      <4>2. T = S \cup {c} /\ c \notin S
        BY <4>1, <3>1, <1>c
      <4>3. Cardinality(T) = Cardinality(S) + 1
        BY <4>2, <3>3, FS_AddElement
      <4>4. waiters_' = Cardinality({d \in cpus' : at'[d] = "spin"})
        BY <4>1, <4>3, <3>1, <3>2 DEF Counting
      <4>5. \A d \in cpus : at'[d] \notin {"release", "up"}
        BY <4>1, <1>c, <3>2 DEF Counting
      <4>6. Counting'
        BY <4>4, <4>5, <3>1, <3>2 DEF Counting
      <4> QED BY <4>6, <3>1, <1>t DEF BarrierInv
    <3> QED BY <3>4, <3>5
  <2>10. CASE WaitRelease(c)
    <3>1. /\ at[c] = "release" /\ UNCHANGED <<cpus, waiters_, step>>
          /\ completed_' = completed_ + 1
          /\ \A d \in Cores : at'[d] = IF d = c THEN "up" ELSE at[d]
      BY <2>10, <2>c, <1>t DEF WaitRelease, Go
    <3>2. Releasing
      BY <3>1, <1>0 DEF BarrierInv, Counting, Done
    <3>3. \A d \in cpus \ {c} : at[d] = "spin"
      BY <3>1, <3>2 DEF Releasing
    <3>4. Done'
      BY <3>1, <3>2, <3>3, <1>c DEF Done, Releasing
    <3> QED BY <3>4, <3>1, <1>t DEF BarrierInv
  <2>11. CASE WaitSpin(c)
    <3>1. /\ at[c] = "spin" /\ UNCHANGED <<cpus, barrierVars>> /\ completed_ # 0
          /\ \A d \in Cores : at'[d] = IF d = c THEN "up" ELSE at[d]
      BY <2>11, <2>c, <1>t DEF WaitSpin, Go, Released
    <3>2. Done
      BY <3>1, <1>0 DEF BarrierInv, Counting, Releasing
    <3>3. Done'
      BY <3>1, <3>2, <1>c DEF Done, barrierVars
    <3> QED BY <3>1, <3>3, <1>t DEF BarrierInv, barrierVars
  <2> QED BY <1>2, <2>1, <2>2, <2>3, <2>4, <2>5, <2>6, <2>7, <2>8, <2>9, <2>10, <2>11 DEF StartStep
<1>7. ASSUME \/ \E c \in cpus : VMStep(c) \/ SaveContext(c)
             \/ \E c \in cpus, s \in VPages : SwitchStack(c, s)
             \/ \E c \in cpus, p \in VPages : Touch(c, p) /\ UNCHANGED <<cpus, startVars>>
             \/ \E b \in Bars : PciMap(b)
      PROVE  BarrierInv'
  <2>1. UNCHANGED <<cpus, startVars>>
    BY <1>7 DEF VMStep, SaveContext, SwitchStack, PciMap
  <2> QED BY <2>1, <1>v
<1>8. CASE UNCHANGED smpVars
  BY <1>8, <1>v DEF smpVars
<1> QED BY <1>1, <1>2, <1>7, <1>8 DEF Next

-----------------------------------------------------------------------------
(* What holds for every machine *)

\* The invariant of the start-up: types, cores, regions, boot stacks, barrier.
THEOREM SmpInvariant == Spec => []SmpInv
<1>1. SmpInv /\ [Next]_smpVars => SmpInv'
  BY TypeStep, CoreStep, RegionStep, PopInvStep, BarrierStep DEF SmpInv
<1> QED BY <1>1, InitSmpInv, PTL DEF Spec

\* No fault stops the kernel for want of a region or of its handler.
LEMMA NeverStray ==
  ASSUME SmpInv, [Next]_smpVars, aborted # "fault"
  PROVE  aborted' # "fault"
<1>0. TypeOK /\ CoreInv /\ RegionInv
  BY DEF SmpInv
<1>c. \A c \in cpus : c \in Cores
  BY <1>0, CpuFacts
<1>v. ASSUME aborted' = aborted PROVE aborted' # "fault"
  BY <1>v
<1>m. ASSUME NEW c \in Cores, NEW P, NEW f, MapMemory(c, P, f) PROVE aborted' # "fault"
  BY <1>m DEF MapMemory
<1>1. CASE BootStep
  BY <1>1, <1>v DEF BootStep, SmpInit, AllSent, SendIpi, vmVars
<1>2. ASSUME NEW c \in cpus, StartStep(c) PROVE aborted' # "fault"
  <2>1. CASE LoadStack(c) \/ PopStack(c) \/ Constructed(c)
             \/ WaitLoad(c) \/ WaitArrive(c) \/ WaitRelease(c) \/ WaitSpin(c)
    BY <2>1, <1>v DEF LoadStack, PopStack, Constructed, WaitLoad, WaitArrive, WaitRelease,
                      WaitSpin, vmVars
  <2>2. CASE EnableRuntimePageTable(c) \/ VmemApInit(c) \/ TransApInit(c) \/ EbbDeref(c)
    BY <2>2, <1>v DEF EnableRuntimePageTable, VmemApInit, TransApInit, EbbDeref
  <2> QED BY <1>2, <2>1, <2>2 DEF StartStep
<1>3. ASSUME NEW c \in cpus, VMStep(c) PROVE aborted' # "fault"
  <2>c. c \in Cores
    BY <1>c
  <2>1. CASE HandlePageFault(c)
    BY <2>1, <2>c, <1>0, <1>m, FaultServed
  <2>2. CASE MapBar(c)
    BY <2>2, <2>c, <1>m DEF MapBar
  <2> QED BY <1>3, <1>v, <2>1, <2>2 DEF VMStep, AllocLock, AllocAborts, AllocReturn
<1>4. CASE \/ \E c \in cpus : SaveContext(c)
           \/ \E c \in cpus, s \in VPages : SwitchStack(c, s)
           \/ \E c \in cpus, p \in VPages : Touch(c, p) /\ UNCHANGED <<cpus, startVars>>
           \/ \E b \in Bars : PciMap(b)
           \/ UNCHANGED smpVars
  BY <1>4, <1>v DEF SaveContext, SwitchStack, Touch, PciMap, smpVars, vmVars
<1> QED BY <1>1, <1>2, <1>3, <1>4 DEF Next

\* The regions tile the space and every core's stack is one of them, whatever
\* Alloc is asked for (VMemAllocator::Alloc), and every fault finds a region
\* with a handler (VMemAllocator::HandlePageFault).
THEOREM RegionsAlwaysTile == Spec => []RegionsTile
<1>1. SmpInv /\ aborted # "fault" => RegionsTile
  <2> SUFFICES ASSUME SmpInv, aborted # "fault" PROVE RegionsTile
    OBVIOUS
  <2>1. ASSUME NEW p \in VPages PROVE Cardinality({r \in regions_ : p \in PagesOf(r)}) = 1
    <3>1. PICK r \in regions_ : p \in PagesOf(r)
      BY DEF SmpInv, RegionInv, Tiling
    <3>2. \A q \in regions_ : p \in PagesOf(q) => q = r
      BY <3>1, SameRegion DEF SmpInv, RegionInv
    <3>3. {q \in regions_ : p \in PagesOf(q)} = {r}
      BY <3>1, <3>2
    <3> QED BY <3>3, FS_Singleton
  <2> QED BY <2>1 DEF SmpInv, RegionInv, StacksAreRegions, RegionsTile
<1>2. Init => aborted # "fault"
  BY DEF Init, VMInit
<1>3. SmpInv /\ aborted # "fault" /\ [Next]_smpVars => (aborted # "fault")'
  BY NeverStray
<1> QED BY <1>1, <1>2, <1>3, SmpInvariant, PTL DEF Spec

\* No two cores run on the same boot stack, however their pops overlap.
THEOREM BootStacksApart == Spec => []BootStacksDistinct
<1>1. SmpInv => BootStacksDistinct
  BY DEF SmpInv, PopInv
<1> QED BY <1>1, SmpInvariant, PTL

\* event_manager-> on a core that runs events is that core's EventManager.
THEOREM RepresentativeIsOwn == Spec => []OwnRepresentative
<1>1. SmpInv => OwnRepresentative
  <2> SUFFICES ASSUME SmpInv, NEW c \in cpus,
                      at[c] \in {"wait", "arrive", "release", "spin", "up"}
               PROVE  ref[Translate(c, TransPage)] = c
    BY DEF OwnRepresentative
  <2>1. c \in Cores
    BY CpuFacts DEF SmpInv
  <2>2. Translate(c, TransPage) = c
    BY <2>1, OwnTables, PlaceSets DEF SmpInv
  <2> QED BY <2>1, <2>2, PlaceSets DEF SmpInv, CoreInv, PlaceOf
<1> QED BY <1>1, SmpInvariant, PTL

\* No core gets past the barrier before every core has arrived on a stack of
\* its own (spin_barrier::wait).
THEOREM BarrierAlwaysHolds == Spec => []BarrierHolds
<1>1. SmpInv => BarrierHolds
  <2> SUFFICES ASSUME SmpInv PROVE BarrierHolds
    OBVIOUS
  <2>1. (\E c \in cpus : at[c] = "up") => \A c \in cpus : at[c] \in {"spin", "release", "up"}
    BY DEF SmpInv, BarrierInv, Counting, Releasing, Done
  <2>2. \A c \in cpus : at[c] \in {"spin", "release", "up"} => stack[c] # None
    BY CpuFacts, PlaceSets DEF SmpInv, CoreInv, StackOf
  <2> QED BY <2>1, <2>2 DEF SmpInv, BarrierHolds
<1> QED BY <1>1, SmpInvariant, PTL

-----------------------------------------------------------------------------
(* What is mapped *)

\* The steps that change the page tables: a core that has none yet gets its
\* own, and map_memory adds pages to those of its own core.
LEMMA TableSteps ==
  ASSUME SmpInv, [Next]_smpVars
  PROVE  \/ UNCHANGED <<cr3, pml4, tree>>
         \/ \E c \in Cores :
              /\ stack[c] = None
              /\ \A d \in Cores \ {c} : cr3'[d] = cr3[d] /\ pml4'[d] = pml4[d] /\ tree'[d] = tree[d]
              /\ tree'[c] \in {tree[c], [Nothing EXCEPT ![TransPage] = c]}
              /\ UNCHANGED <<regions_, mappings_, pc, req, vaddr_, aborted>>
         \/ \E c \in cpus : MapBar(c) /\ UNCHANGED <<cr3, pml4>>
         \/ \E c \in cpus : HandlePageFault(c) /\ UNCHANGED <<cr3, pml4>>
<1>0. TypeOK /\ VMTypeOK /\ CoreInv
  BY DEF SmpInv, TypeOK
<1>c. cpus \subseteq Cores
  BY <1>0, CpuFacts
<1>1. CASE BootStep
  BY <1>1 DEF BootStep, SmpInit, AllSent, SendIpi, vmVars
<1>2. ASSUME NEW c \in cpus, StartStep(c)
      PROVE  \/ UNCHANGED <<cr3, pml4, tree>>
             \/ /\ stack[c] = None
                /\ \A d \in Cores \ {c} : cr3'[d] = cr3[d] /\ pml4'[d] = pml4[d] /\ tree'[d] = tree[d]
                /\ tree'[c] \in {tree[c], [Nothing EXCEPT ![TransPage] = c]}
                /\ UNCHANGED <<regions_, mappings_, pc, req, vaddr_, aborted>>
  <2>c. c \in Cores
    BY <1>c
  <2>1. CASE LoadStack(c) \/ PopStack(c) \/ Constructed(c)
             \/ WaitLoad(c) \/ WaitArrive(c) \/ WaitRelease(c) \/ WaitSpin(c)
    BY <2>1 DEF LoadStack, PopStack, Constructed, WaitLoad, WaitArrive, WaitRelease, WaitSpin, vmVars
  <2>2. CASE EbbDeref(c)
    BY <2>2 DEF EbbDeref
  <2>3. CASE EnableRuntimePageTable(c) \/ VmemApInit(c) \/ TransApInit(c)
    <3>1. /\ stack[c] = None
          /\ at[c] = "trans" => cr3[c] = c
          /\ UNCHANGED <<regions_, mappings_, pc, req, vaddr_, aborted>>
      BY <2>3, <2>c, <1>0, PlaceSets
         DEF EnableRuntimePageTable, VmemApInit, TransApInit, CoreInv, StackOf, TablesOf
    <3>2. \A d \in Cores \ {c} : cr3'[d] = cr3[d] /\ pml4'[d] = pml4[d] /\ tree'[d] = tree[d]
      <4>1. CASE EnableRuntimePageTable(c)
        BY <4>1, <2>c, <1>0 DEF EnableRuntimePageTable, VMTypeOK
      <4>2. CASE VmemApInit(c)
        BY <4>2, <2>c, <1>0 DEF VmemApInit, CopiesRoot, VMTypeOK
      <4>3. CASE TransApInit(c)
        BY <4>3, <2>c, <3>1, <1>0 DEF TransApInit, ReplacesEntry, VMTypeOK
      <4> QED BY <2>3, <4>1, <4>2, <4>3
    <3>3. tree'[c] \in {tree[c], [Nothing EXCEPT ![TransPage] = c]}
      BY <2>3, <2>c, <1>0
         DEF EnableRuntimePageTable, VmemApInit, TransApInit, ReplacesEntry, VMTypeOK
    <3> QED BY <3>1, <3>2, <3>3
  <2> QED BY <1>2, <2>1, <2>2, <2>3 DEF StartStep
<1>3. ASSUME NEW c \in cpus, VMStep(c)
      PROVE  \/ UNCHANGED <<cr3, pml4, tree>>
             \/ MapBar(c) /\ UNCHANGED <<cr3, pml4>>
             \/ HandlePageFault(c) /\ UNCHANGED <<cr3, pml4>>
  BY <1>3 DEF VMStep, AllocLock, AllocReturn, AllocAborts, MapBar, HandlePageFault
<1>4. ASSUME \/ \E c \in cpus : SaveContext(c)
             \/ \E c \in cpus, s \in VPages : SwitchStack(c, s)
             \/ \E c \in cpus, p \in VPages : Touch(c, p) /\ UNCHANGED <<cpus, startVars>>
             \/ \E b \in Bars : PciMap(b)
             \/ UNCHANGED smpVars
      PROVE  UNCHANGED <<cr3, pml4, tree>>
  BY <1>4 DEF SaveContext, SwitchStack, Touch, PciMap, smpVars, vmVars
<1> QED BY <1>1, <1>2, <1>3, <1>4, <1>c DEF Next

\* The pages of the BAR a core is about to map.
LEMMA MapBarFacts ==
  ASSUME TypeOK, CoreInv, NEW c \in Cores, pc[c] = "map"
  PROVE  LET bar == req[c].bar
             P == vaddr_[bar] .. (vaddr_[bar] + BarPages - 1)
         IN  /\ c = Boot /\ bar \in Bars /\ bar \in Frames /\ P \in SUBSET VPages
             /\ stack[c] # None /\ vaddr_[bar] # None /\ vaddr_[bar] \in VPages
<1> USE VMemAssumption
<1> DEFINE bar == req[c].bar
<1>1. /\ at[c] = "up" /\ c = Boot
      /\ \E b \in Bars : req[c] = [npages |-> BarPages, bar |-> b]
      /\ vaddr_[bar] \in VPages /\ vaddr_[bar] + BarPages <= NumVPages
  BY DEF CoreInv, StackOf
<1>2. stack[c] # None
  BY <1>1, PlaceSets DEF CoreInv, StackOf
<1> QED BY <1>1, <1>2 DEF VPages, Frames

\* A fault that is served maps one page, which was not mapped: the frame the
\* handler keeps for it.
LEMMA FaultMaps ==
  ASSUME SmpInv, NEW c \in cpus, HandlePageFault(c)
  PROVE  /\ \A d \in Cores \ {c} : tree'[d] = tree[d]
         /\ \A p \in VPages \cup {TransPage} : p # fault[c] => tree'[c][p] = tree[c][p]
         /\ tree[c][fault[c]] = None /\ fault[c] \in VPages
         /\ tree'[c][fault[c]] \in {None, mappings_'[fault[c]]}
         /\ \A p \in VPages : p # fault[c] \/ mappings_[p] # None => mappings_'[p] = mappings_[p]
         /\ aborted' \in {aborted, "overflow"}
<1>0. TypeOK /\ VMTypeOK /\ CoreInv /\ RegionInv
  BY DEF SmpInv, TypeOK
<1>c. c \in Cores
  BY <1>0, CpuFacts
<1>1. fault[c] # None
  BY DEF HandlePageFault
<1>2. stack[c] # None /\ fault[c] \in VPages /\ tree[c][fault[c]] = None
  BY <1>0, <1>c, <1>1, FaultRegion
<1> DEFINE P == {fault[c]}
<1>3. ASSUME NEW f \in Frames, MapMemory(c, P, f)
      PROVE  /\ \A d \in Cores : d # c => tree'[d] = tree[d]
             /\ \A p \in VPages \cup {TransPage} : p # fault[c] => tree'[c][p] = tree[c][p]
             /\ tree'[c][fault[c]] = f /\ aborted' = aborted
  <2>1. P \in SUBSET VPages /\ \A p \in P : tree[c][p] = None
    BY <1>2
  <2>2. \A p : p \in P <=> p = fault[c]
    OBVIOUS
  <2> HIDE DEF P
  <2>3. /\ \A d \in Cores : d # c => tree'[d] = tree[d]
        /\ \A p \in VPages \cup {TransPage} :
              p \notin P \/ tree[c][p] # None => tree'[c][p] = tree[c][p]
        /\ (\A p \in P : tree[c][p] = None) =>
              aborted' = aborted /\ \A p \in P : tree'[c][p] = f
    BY ONLY <1>0, <1>c, <1>2, <1>3, <2>1, MapMemoryOwn
  <2> QED BY <2>1, <2>2, <2>3
<1>4. CASE mappings_[fault[c]] # None
  <2>1. MapMemory(c, P, mappings_[fault[c]]) /\ mappings_' = mappings_
    BY <1>4, <1>0, <1>c, FaultServed
  <2>2. mappings_[fault[c]] \in Frames
    BY <1>0, <1>2, <1>4 DEF VMTypeOK
  <2> HIDE DEF P
  <2> QED BY <1>2, <1>3, <2>1, <2>2
<1>5. CASE mappings_[fault[c]] = None /\ aborted' = "overflow" /\ UNCHANGED <<tree, mappings_>>
  BY <1>2, <1>5
<1>6. CASE mappings_[fault[c]] = None /\ MapMemory(c, P, c) /\ mappings_' = Keeps(fault[c], c)
  <2>1. /\ mappings_'[fault[c]] = c
        /\ \A p \in VPages : p # fault[c] => mappings_'[p] = mappings_[p]
    BY <1>6, <1>2, <1>0 DEF VMTypeOK, Keeps
  <2>2. c \in Frames
    BY <1>c DEF Frames
  <2>3. \A p \in VPages : p # fault[c] \/ mappings_[p] # None => mappings_'[p] = mappings_[p]
    BY <2>1, <1>6
  <2>4. MapMemory(c, P, c)
    BY <1>6
  <2> HIDE DEF P
  <2> QED BY <1>2, <1>3, <2>1, <2>2, <2>3, <2>4
<1> QED BY <1>0, <1>c, <1>4, <1>5, <1>6, FaultServed

\* No step of any core unmaps or remaps what a core on a stack has mapped.
LEMMA MappingsKept ==
  ASSUME SmpInv, [Next]_smpVars, NEW c \in Cores, stack[c] # None,
         NEW p \in VPages \cup {TransPage}, Translate(c, p) # None
  PROVE  Translate(c, p)' = Translate(c, p)
<1>0. TypeOK /\ CoreInv /\ RegionInv
  BY DEF SmpInv
<1>1. cr3[c] = c /\ pml4[c] = c /\ \A q : Translate(c, q) = tree[c][q]
  BY <1>0, OwnTables
<1>2. ASSUME cr3'[c] = c, pml4'[c] = c, tree'[c][p] = tree[c][p]
      PROVE  Translate(c, p)' = Translate(c, p)
  BY <1>1, <1>2, VMemAssumption DEF Translate
<1>3. CASE UNCHANGED <<cr3, pml4, tree>>
  BY <1>1, <1>2, <1>3
<1>4. ASSUME NEW d \in Cores, stack[d] = None,
             \A e \in Cores \ {d} : cr3'[e] = cr3[e] /\ pml4'[e] = pml4[e] /\ tree'[e] = tree[e]
      PROVE  Translate(c, p)' = Translate(c, p)
  BY <1>1, <1>2, <1>4
<1>5. ASSUME NEW d \in cpus, MapBar(d), UNCHANGED <<cr3, pml4>>
      PROVE  Translate(c, p)' = Translate(c, p)
  <2> DEFINE bar == req[d].bar
             P == vaddr_[bar] .. (vaddr_[bar] + BarPages - 1)
  <2>1. d \in Cores /\ pc[d] = "map" /\ MapMemory(d, P, bar)
    BY <1>5, <1>0, CpuFacts DEF MapBar
  <2>2. bar \in Frames /\ P \in SUBSET VPages /\ stack[d] # None
    BY <2>1, <1>0, MapBarFacts
  <2> HIDE DEF bar, P
  <2>3. /\ \A e \in Cores : e # d => tree'[e] = tree[e]
        /\ \A q \in VPages \cup {TransPage} :
              q \notin P \/ tree[d][q] # None => tree'[d][q] = tree[d][q]
    BY <2>1, <2>2, <1>0, MapMemoryOwn
  <2> QED BY <2>3, <1>1, <1>2, <1>5
<1>6. ASSUME NEW d \in cpus, HandlePageFault(d), UNCHANGED <<cr3, pml4>>
      PROVE  Translate(c, p)' = Translate(c, p)
  BY <1>6, <1>1, <1>2, FaultMaps
<1> QED BY <1>3, <1>4, <1>5, <1>6, TableSteps

\* What a core that runs events has mapped stays mapped, to the same frame,
\* whatever the cores that start beside it do to their tables.
THEOREM MappingsAlwaysStay == Spec => MappingsStay
<1>1. SmpInv /\ [Next]_smpVars =>
        [\A c \in cpus : stack[c] # None =>
           \A p \in VPages \cup {TransPage} :
             Translate(c, p) # None => Translate(c, p)' = Translate(c, p)]_smpVars
  <2> SUFFICES ASSUME SmpInv, [Next]_smpVars, NEW c \in cpus, stack[c] # None,
                      NEW p \in VPages \cup {TransPage}, Translate(c, p) # None
               PROVE  Translate(c, p)' = Translate(c, p)
    OBVIOUS
  <2>1. c \in Cores
    BY CpuFacts DEF SmpInv
  <2> QED BY <2>1, MappingsKept
<1> QED BY <1>1, SmpInvariant, PTL DEF Spec, MappingsStay

-----------------------------------------------------------------------------
(* Machines with one small BAR *)

\* At the start no BAR is mapped.
LEMMA InitBarInv == Init => BarInv
<1> SUFFICES ASSUME Init PROVE BarInv
  OBVIOUS
<1>1. \A c \in Cores, p \in VPages : tree[c][p] # None => tree[c][p] = mappings_[p]
  <2> SUFFICES ASSUME NEW c \in Cores, NEW p \in VPages, tree[c][p] # None
               PROVE  tree[c][p] = mappings_[p]
    OBVIOUS
  <2>1. NumVPages \in Nat /\ p # TransPage
    BY VMemAssumption DEF VPages, TransPage
  <2>2. Nothing[p] = None
    BY DEF Nothing
  <2>3. c = Boot
    BY <2>2 DEF Init, VMInit
  <2>4. tree[c][p] = IF p = NumVPages - 1 THEN Boot ELSE None
    BY <2>1, <2>2, <2>3 DEF Init, VMInit, Nothing
  <2> QED BY <2>4 DEF Init, VMInit
<1> QED BY <1>1, VMemAssumption DEF Init, VMInit, BarInv

\* Every step keeps the region of the BAR and its pages to the BAR.
LEMMA BarInvStep ==
  ASSUME OneSmallBar, SmpInv, BarInv, [Next]_smpVars
  PROVE  BarInv'
<1> USE VMemAssumption
<1>0. TypeOK /\ VMTypeOK /\ CoreInv /\ RegionInv
  BY DEF SmpInv, TypeOK
<1>c. cpus \subseteq Cores /\ Boot \in Cores
  BY <1>0, CpuFacts
<1> DEFINE BarRegions == \A b \in Bars : vaddr_[b] # None =>
                           Region(vaddr_[b], vaddr_[b] + BarPages, FALSE) \in regions_
           Asked == pc[Boot] \in {"want", "in"} /\ req[Boot].bar # None =>
                      vaddr_[req[Boot].bar] = None
           BarPage(p) == \E b \in Bars : /\ vaddr_[b] # None
                                         /\ p \in vaddr_[b] .. (vaddr_[b] + BarPages - 1)
           Pages == \A c \in Cores, p \in VPages : tree[c][p] # None =>
                      tree[c][p] = mappings_[p] \/ (pc[Boot] # "map" /\ BarPage(p))
<1>1. BarRegions /\ Asked /\ Pages /\ aborted # "present"
  BY DEF BarInv
<1>2. ASSUME BarRegions', Asked', Pages', aborted' # "present" PROVE BarInv'
  BY <1>2 DEF BarInv, VPages
<1>u. ASSUME UNCHANGED <<regions_, mappings_, tree, vaddr_>>, aborted' # "present", Asked',
             pc'[Boot] = "map" => pc[Boot] = "map"
      PROVE  BarInv'
  <2>1. BarRegions'
    BY <1>u, <1>1 DEF Region
  <2>2. Pages'
    BY <1>u, <1>1 DEF VPages
  <2> QED BY <1>2, <1>u, <2>1, <2>2
<1>v. ASSUME UNCHANGED vmVars PROVE BarInv'
  <2>1. Asked'
    BY <1>v, <1>1 DEF vmVars
  <2> QED BY <2>1, <1>v, <1>u, <1>1 DEF vmVars
<1>3. ASSUME BootStep PROVE BarInv'
  BY <1>3, <1>v DEF BootStep, SmpInit, AllSent, SendIpi
<1>4. ASSUME NEW c \in cpus, StartStep(c) PROVE BarInv'
  <2>c. c \in Cores
    BY <1>c
  <2>1. CASE LoadStack(c) \/ PopStack(c) \/ Constructed(c)
             \/ WaitLoad(c) \/ WaitArrive(c) \/ WaitRelease(c) \/ WaitSpin(c)
    BY <2>1, <1>v DEF LoadStack, PopStack, Constructed, WaitLoad, WaitArrive, WaitRelease, WaitSpin
  <2>2. CASE EbbDeref(c)
    <3>1. c # Boot
      BY <2>2, <2>c, <1>0, PlaceSets DEF EbbDeref, CoreInv, PlaceOf
    <3>2. pc'[Boot] = pc[Boot] /\ req'[Boot] = req[Boot]
      BY <2>2, <3>1, <1>c, <1>0 DEF EbbDeref, AllocCall, VMTypeOK
    <3>3. UNCHANGED <<regions_, mappings_, tree, vaddr_, aborted>>
      BY <2>2 DEF EbbDeref
    <3>4. Asked'
      BY <3>2, <3>3, <1>1
    <3> QED BY <3>2, <3>3, <3>4, <1>1, <1>u
  <2>3. CASE EnableRuntimePageTable(c) \/ VmemApInit(c) \/ TransApInit(c)
    <3>1. UNCHANGED <<regions_, mappings_, pc, req, vaddr_, aborted>>
      BY <2>3 DEF EnableRuntimePageTable, VmemApInit, TransApInit
    <3>2. tree' = tree \/ tree' = [tree EXCEPT ![c] = [Nothing EXCEPT ![TransPage] = c]]
      BY <2>3 DEF EnableRuntimePageTable, VmemApInit, TransApInit, ReplacesEntry
    <3>3. \A d \in Cores, p \in VPages : tree'[d][p] # None => tree'[d][p] = tree[d][p]
      <4> SUFFICES ASSUME NEW d \in Cores, NEW p \in VPages, tree'[d][p] # None
                   PROVE  tree'[d][p] = tree[d][p]
        OBVIOUS
      <4>1. p # TransPage
        BY DEF VPages, TransPage
      <4>2. [Nothing EXCEPT ![TransPage] = c][p] = None
        BY <4>1 DEF Nothing
      <4> QED BY <4>2, <3>2, <2>c, <1>0 DEF VMTypeOK
    <3>4. Pages'
      BY <3>1, <3>3, <1>1 DEF VPages
    <3>5. BarRegions' /\ Asked'
      BY <3>1, <1>1 DEF Region
    <3> QED BY <3>1, <3>4, <3>5, <1>1, <1>2
  <2> QED BY <1>4, <2>1, <2>2, <2>3 DEF StartStep
<1>5. ASSUME NEW c \in cpus, VMStep(c) PROVE BarInv'
  <2>c. c \in Cores
    BY <1>c
  <2>1. CASE AllocLock(c)
    <3>1. UNCHANGED <<regions_, mappings_, tree, vaddr_, req, aborted>>
      BY <2>1 DEF AllocLock
    <3>2. pc[c] = "want" /\ \A d \in Cores : pc'[d] = IF d = c THEN "in" ELSE pc[d]
      BY <2>1, <2>c, <1>0 DEF AllocLock, VMTypeOK
    <3>3. Asked'
      BY <3>1, <3>2, <1>1, <1>c
    <3> QED BY <3>1, <3>2, <3>3, <1>1, <1>u, <1>c
  <2>2. CASE AllocAborts(c)
    <3>1. UNCHANGED <<regions_, mappings_, tree, vaddr_, pc, req>> /\ aborted' = "space"
      BY <2>2 DEF AllocAborts
    <3>2. Asked'
      BY <3>1, <1>1
    <3> QED BY <3>1, <3>2, <1>u
  <2>3. CASE AllocReturn(c)
    <3> USE DEF AllocSplits
    <3>1. PICK r \in regions_, n \in Nat \ {0} : AllocSplits(c, r, n)
      BY <2>3, <2>c, <1>0, AllocFacts
    <3>2. UNCHANGED <<mappings_, tree, aborted>> /\ pc[c] = "in"
      BY <2>3 DEF AllocReturn
    <3>3. CASE /\ req[c].bar = None /\ n = STACK_NPAGES
               /\ pc' = [pc EXCEPT ![c] = "out"]
               /\ req' = [req EXCEPT ![c] = None]
               /\ vaddr_' = vaddr_
      <4>1. \A d \in Cores : pc'[d] = IF d = c THEN "out" ELSE pc[d]
        BY <3>3, <2>c, <1>0 DEF VMTypeOK
      <4>2. \A d \in Cores : req'[d] = IF d = c THEN None ELSE req[d]
        BY <3>3, <2>c, <1>0 DEF VMTypeOK
      <4>3. Asked'
        BY <4>1, <4>2, <3>3, <1>1, <1>c
      <4>4. Pages'
        BY <4>1, <3>2, <3>3, <1>1, <1>c DEF VPages
      <4>5. BarRegions'
        <5> SUFFICES ASSUME NEW b \in Bars, vaddr_[b] # None
                     PROVE  Region(vaddr_[b], vaddr_[b] + BarPages, FALSE) \in regions_'
          BY <3>3 DEF Region
        <5> DEFINE q == Region(vaddr_[b], vaddr_[b] + BarPages, FALSE)
        <5>1. q \in regions_ /\ q.begin = vaddr_[b] /\ q.end = vaddr_[b] + BarPages
          BY <1>1 DEF Region
        <5>2. vaddr_[b] \in Int /\ r.end \in Int /\ r.begin \in Int
          BY <1>0 DEF VMTypeOK, VPages, RegionInv, Tiling
        <5>3. q # r
          <6> HIDE DEF q
          <6> QED BY <5>1, <5>2, <3>1, <3>3 DEF OneSmallBar
        <5> QED BY <5>1, <5>3, <3>1
      <4> QED BY <4>3, <4>4, <4>5, <3>2, <1>1, <1>2
    <3>4. CASE /\ req[c].bar \in Bars /\ n = BarPages
               /\ c = Boot
               /\ vaddr_' = [vaddr_ EXCEPT ![req[c].bar] = r.end - n]
               /\ pc' = [pc EXCEPT ![c] = "map"]
               /\ req' = req
      <4> DEFINE bar == req[Boot].bar
      <4>1. pc'[Boot] = "map" /\ bar \in Bars /\ vaddr_[bar] = None
        BY <3>2, <3>4, <1>1, <1>c, <1>0 DEF VMTypeOK
      <4>2. \A b \in Bars : b = bar
        BY <4>1 DEF OneSmallBar
      <4>3. Asked'
        BY <4>1
      <4>4. Pages'
        <5>1. \A c_ \in Cores, p \in VPages : tree[c_][p] # None => tree[c_][p] = mappings_[p]
          BY <1>1, <4>1, <4>2
        <5> QED BY <5>1, <3>2 DEF VPages
      <4>5. BarRegions'
        <5>1. r.end \in Int
          BY <1>0 DEF VPages, RegionInv, Tiling
        <5>2. vaddr_'[bar] = r.end - n /\ vaddr_'[bar] + BarPages = r.end
          BY <5>1, <3>4, <4>1, <1>0 DEF VMTypeOK
        <5>3. (req[c].bar = None) = FALSE
          BY <3>4
        <5>4. Region(r.end - n, r.end, FALSE) \in regions_'
          BY <5>3, <3>1
        <5> SUFFICES ASSUME NEW b \in Bars
                     PROVE  Region(vaddr_'[b], vaddr_'[b] + BarPages, FALSE) \in regions_'
          BY DEF Region
        <5>5. b = bar
          BY <4>2
        <5> QED BY <5>2, <5>4, <5>5 DEF Region
      <4> QED BY <4>3, <4>4, <4>5, <3>2, <1>1, <1>2
    <3> QED BY <3>1, <3>3, <3>4
  <2>4. CASE MapBar(c)
    <3> DEFINE bar == req[c].bar
               P == vaddr_[bar] .. (vaddr_[bar] + BarPages - 1)
    <3>1. pc[c] = "map" /\ MapMemory(c, P, bar)
      BY <2>4 DEF MapBar
    <3>2. /\ c = Boot /\ bar \in Bars /\ bar \in Frames /\ P \in SUBSET VPages
          /\ stack[c] # None /\ vaddr_[bar] # None /\ vaddr_[bar] \in VPages
      BY <3>1, <2>c, <1>0, MapBarFacts
    <3>3. ASSUME NEW p \in P PROVE tree[c][p] = None
      <4> SUFFICES ASSUME tree[c][p] # None PROVE FALSE
        OBVIOUS
      <4>1. p \in VPages
        BY <3>2
      <4>2. tree[c][p] = mappings_[p]
        BY <4>1, <2>c, <3>1, <3>2, <1>1
      <4>3. PICK r \in regions_ : r.handler /\ p \in PagesOf(r)
        BY <4>1, <4>2, <1>0 DEF RegionInv, HandlersKeep
      <4> DEFINE q == Region(vaddr_[bar], vaddr_[bar] + BarPages, FALSE)
      <4>4. /\ q \in regions_ /\ q.handler = FALSE
            /\ q.begin = vaddr_[bar] /\ q.end = vaddr_[bar] + BarPages
        BY <1>1, <3>2 DEF Region
      <4>5. p \in PagesOf(q)
        <5> HIDE DEF q
        <5>1. p \in vaddr_[bar] .. (vaddr_[bar] + BarPages - 1)
          OBVIOUS
        <5> QED BY <4>4, <5>1, <3>2 DEF PagesOf, VPages
      <4>6. q = r
        <5> HIDE DEF q
        <5> QED BY <4>3, <4>4, <4>5, <1>0, SameRegion DEF RegionInv
      <4> QED BY <4>3, <4>4, <4>6
    <3>4. /\ UNCHANGED <<regions_, mappings_, vaddr_>>
          /\ pc'[Boot] = "out"
      BY <2>4, <2>c, <3>2, <1>0 DEF MapBar, VMTypeOK
    <3>p. \A p \in P : BarPage(p)
      BY <3>2
    <3> HIDE DEF bar, P
    <3>5. /\ \A d \in Cores : d # c => tree'[d] = tree[d]
          /\ \A p \in VPages \cup {TransPage} :
               p \notin P \/ tree[c][p] # None => tree'[c][p] = tree[c][p]
          /\ aborted' = aborted
      <4>1. /\ \A d \in Cores : d # c => tree'[d] = tree[d]
            /\ \A p \in VPages \cup {TransPage} :
                 p \notin P \/ tree[c][p] # None => tree'[c][p] = tree[c][p]
            /\ (\A p \in P : tree[c][p] = None) =>
                 aborted' = aborted /\ \A p \in P : tree'[c][p] = bar
        BY ONLY <3>1, <3>2, <2>c, <1>0, MapMemoryOwn
      <4> QED BY <4>1, <3>3
    <3>6. BarRegions' /\ Asked'
      BY <3>4, <1>1 DEF Region
    <3>7. Pages'
      <4> SUFFICES ASSUME NEW d \in Cores, NEW p \in VPages, tree'[d][p] # None
                   PROVE  tree'[d][p] = mappings_[p] \/ BarPage(p)
        BY <3>4 DEF VPages
      <4>1. CASE d = c /\ p \in P
        BY <4>1, <3>p
      <4>2. CASE ~(d = c /\ p \in P)
        <5>1. tree'[d][p] = tree[d][p]
          BY <4>2, <3>5
        <5> QED BY <5>1, <1>1
      <4> QED BY <4>1, <4>2
    <3> QED BY <3>5, <3>6, <3>7, <1>1, <1>2
  <2>5. CASE HandlePageFault(c)
    <3>1. UNCHANGED <<regions_, vaddr_, pc, req>>
      BY <2>5 DEF HandlePageFault
    <3>2. /\ \A d \in Cores \ {c} : tree'[d] = tree[d]
          /\ \A p \in VPages \cup {TransPage} : p # fault[c] => tree'[c][p] = tree[c][p]
          /\ tree[c][fault[c]] = None /\ fault[c] \in VPages
          /\ tree'[c][fault[c]] \in {None, mappings_'[fault[c]]}
          /\ \A p \in VPages : p # fault[c] \/ mappings_[p] # None => mappings_'[p] = mappings_[p]
          /\ aborted' \in {aborted, "overflow"}
      BY <2>5, FaultMaps
    <3>3. BarRegions' /\ Asked'
      BY <3>1, <1>1 DEF Region
    <3>4. Pages'
      <4> SUFFICES ASSUME NEW d \in Cores, NEW p \in VPages, tree'[d][p] # None
                   PROVE  tree'[d][p] = mappings_'[p] \/ (pc[Boot] # "map" /\ BarPage(p))
        BY <3>1 DEF VPages
      <4>1. CASE d = c /\ p = fault[c]
        BY <4>1, <3>2
      <4>2. CASE ~(d = c /\ p = fault[c])
        <5>1. tree'[d][p] = tree[d][p]
          BY <4>2, <3>2
        <5>2. tree[d][p] = mappings_[p] \/ (pc[Boot] # "map" /\ BarPage(p))
          BY <5>1, <1>1
        <5> QED BY <5>1, <5>2, <3>2
      <4> QED BY <4>1, <4>2
    <3> QED BY <3>2, <3>3, <3>4, <1>1, <1>2
  <2> QED BY <1>5, <2>1, <2>2, <2>3, <2>4, <2>5 DEF VMStep
<1>6. ASSUME NEW c \in cpus, SaveContext(c) PROVE BarInv'
  <2>c. c \in Cores
    BY <1>c
  <2>1. UNCHANGED <<regions_, mappings_, tree, vaddr_, aborted>>
    BY <1>6 DEF SaveContext
  <2>2. /\ \A d \in Cores : pc'[d] = IF d = c THEN "want" ELSE pc[d]
        /\ req'[c].bar = None /\ \A d \in Cores \ {c} : req'[d] = req[d]
    BY <1>6, <2>c, <1>0 DEF SaveContext, AllocCall, VMTypeOK
  <2>3. Asked'
    BY <2>1, <2>2, <1>1, <1>c
  <2> QED BY <2>1, <2>2, <2>3, <1>1, <1>c, <1>u
<1>7. ASSUME NEW c \in cpus, NEW s \in VPages, SwitchStack(c, s) PROVE BarInv'
  <2>1. UNCHANGED <<regions_, mappings_, tree, vaddr_, aborted, pc, req>>
    BY <1>7 DEF SwitchStack
  <2>2. Asked'
    BY <2>1, <1>1
  <2> QED BY <2>1, <2>2, <1>1, <1>u
<1>8. ASSUME NEW c \in cpus, NEW p \in VPages, Touch(c, p) PROVE BarInv'
  <2>1. UNCHANGED <<regions_, mappings_, tree, vaddr_, aborted, pc, req>>
    BY <1>8 DEF Touch
  <2>2. Asked'
    BY <2>1, <1>1
  <2> QED BY <2>1, <2>2, <1>1, <1>u
<1>9. ASSUME NEW b \in Bars, PciMap(b) PROVE BarInv'
  <2>1. UNCHANGED <<regions_, mappings_, tree, vaddr_, aborted>> /\ vaddr_[b] = None
    BY <1>9 DEF PciMap
  <2>2. pc'[Boot] = "want" /\ req'[Boot].bar = b
    BY <1>9, <1>c, <1>0 DEF PciMap, AllocCall, VMTypeOK
  <2>3. Asked'
    BY <2>1, <2>2
  <2> QED BY <2>1, <2>2, <2>3, <1>1, <1>u
<1>10. CASE UNCHANGED smpVars
  BY <1>10, <1>v DEF smpVars
<1> HIDE DEF BarRegions, Asked, Pages
<1> QED BY <1>3, <1>4, <1>5, <1>6, <1>7, <1>8, <1>9, <1>10 DEF Next

\* With one small BAR its region is never handed out again.
LEMMA SmallBarInvariant == Spec => []SmallBarInv
<1>1. Init => SmallBarInv
  BY InitBarInv DEF SmallBarInv
<1>2. SmpInv /\ SmallBarInv /\ [Next]_smpVars => SmallBarInv'
  BY BarInvStep DEF SmallBarInv, OneSmallBar
<1> QED BY <1>1, <1>2, SmpInvariant, PTL DEF Spec

\* A page of a stack is the same memory on every core that has it mapped, and
\* every stack keeps a page that is never mapped, on machines where the space
\* of a BAR cannot become a stack.
THEOREM StackPagesAlwaysAgree == Spec => [](OneSmallBar => StackPagesAgree)
<1>1. SmpInv /\ SmallBarInv => (OneSmallBar => StackPagesAgree)
  <2> SUFFICES ASSUME SmpInv, BarInv, NEW r \in regions_, r.handler
               PROVE  /\ \A c \in Cores, p \in PagesOf(r) :
                           stack[c] # None => Translate(c, p) \in {None, mappings_[p]}
                      /\ \E p \in PagesOf(r) : mappings_[p] = None
    BY DEF SmallBarInv, StackPagesAgree
  <2>0. TypeOK /\ CoreInv /\ RegionInv
    BY DEF SmpInv
  <2>1. \E p \in PagesOf(r) : mappings_[p] = None
    BY <2>0 DEF RegionInv, HandlersKeep
  <2>2. ASSUME NEW c \in Cores, NEW p \in PagesOf(r), stack[c] # None, Translate(c, p) # None
        PROVE  Translate(c, p) = mappings_[p]
    <3>1. Translate(c, p) = tree[c][p]
      BY <2>0, <2>2, OwnTables
    <3>2. p \in VPages
      BY <2>0, VMemAssumption DEF RegionInv, Tiling, PagesOf, VPages
    <3> SUFFICES ASSUME NEW b \in Bars, vaddr_[b] # None,
                        p \in vaddr_[b] .. (vaddr_[b] + BarPages - 1)
                 PROVE  FALSE
      BY <2>2, <3>1, <3>2 DEF BarInv
    <3> DEFINE q == Region(vaddr_[b], vaddr_[b] + BarPages, FALSE)
    <3>3. /\ q \in regions_ /\ q.handler = FALSE
          /\ q.begin = vaddr_[b] /\ q.end = vaddr_[b] + BarPages
      BY DEF BarInv, Region
    <3>4. vaddr_[b] \in Int /\ BarPages \in Int
      BY <2>0, VMemAssumption DEF TypeOK, VMTypeOK, VPages
    <3> HIDE DEF q
    <3>5. p \in PagesOf(q)
      BY <3>3, <3>4 DEF PagesOf
    <3>6. q = r
      BY <3>3, <3>5, <2>0, SameRegion DEF RegionInv
    <3> QED BY <3>3, <3>6
  <2> QED BY <2>1, <2>2
<1> QED BY <1>1, SmpInvariant, SmallBarInvariant, PTL

=============================================================================
