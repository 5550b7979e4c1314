--------------------------- MODULE VMemAllocator ---------------------------
(***************************************************************************)
(* Virtual memory: the regions VMemAllocator hands out, the page tables of *)
(* the cores, and the page faults that back the event stacks               *)
(* (src/sys/vmem_allocator.cpp, vmem.cpp, vmem.hpp, the                    *)
(* event_stack_fault_handler of event_manager.cpp, pci_bar::map).          *)
(*                                                                         *)
(* The allocator's space lies right below the page of the translation      *)
(* table, in the same entry of the top-level page table.  Cores have       *)
(* top-level tables of their own; what is below an entry is shared by the  *)
(* tables that have the same entry.  A stack page is backed when it is     *)
(* first touched, and is mapped on every other core the stack moves to by  *)
(* a fault on that core.                                                   *)
(*                                                                         *)
(* A frame that backs a page is named by the core whose fault got it from  *)
(* the page allocator, or by the device whose registers it holds.  The     *)
(* lock is visible where another step can come in between: in Alloc, whose *)
(* caller may touch a new page of its own stack.                           *)
(***************************************************************************)
EXTENDS Integers, FiniteSets

CONSTANTS
  Cores, Boot,    \* Boot is the core that runs kmain
  NumVPages,      \* pages of the space: 0 .. NumVPages - 1
  STACK_NPAGES,   \* 2048 in the code
  Bars,           \* the memory BARs that get mapped
  BarPages,       \* pages of each of them
  None

ASSUME VMemAssumption ==
  /\ Boot \in Cores /\ None \notin Cores \cup Bars \cup (0 .. NumVPages)
  /\ NumVPages \in Nat /\ STACK_NPAGES \in 2 .. NumVPages - 1
  /\ BarPages \in Nat \ {0}

VPages == 0 .. NumVPages - 1
TransPage == NumVPages           \* LOCAL_TRANS_VMEM_START
Frames == Cores \cup Bars

VARIABLES
  regions_,       \* the map of regions: a set of [begin, end, handler]
  mappings_,      \* [VPages -> the frame the fault handler keeps for it]
  lock_,          \* who holds lock_
  cr3,            \* [Cores -> whose top-level table it uses; None: boot.S's]
  pml4,           \* [Cores -> the table below the entry of the space]
  tree,           \* [Cores -> the pages mapped by that table]
  stack,          \* [Cores -> first page of the stack it runs on, or None]
  pc,             \* [Cores -> "out", "want", "in" Alloc, "map": in map()]
  req,            \* [Cores -> None or what Alloc is asked for]
  fault,          \* [Cores -> the page it has faulted on, or None]
  vaddr_,         \* [Bars -> the page it was given, or None]
  aborted         \* "no", or why the kernel has stopped

vmVars == <<regions_, mappings_, lock_, cr3, pml4, tree, stack, pc, req,
            fault, vaddr_, aborted>>

Region(b, e, h) == [begin |-> b, end |-> e, handler |-> h]
PagesOf(r) == r.begin .. (r.end - 1)

Requests == [npages : Nat, bar : Bars \cup {None}]

VMTypeOK ==
  /\ \A r \in regions_ : r.begin \in VPages /\ r.end \in 0 .. NumVPages
                         /\ r.handler \in BOOLEAN
  /\ mappings_ \in [VPages -> Frames \cup {None}]
  /\ lock_ \in Cores \cup {None}
  /\ cr3 \in [Cores -> Cores \cup {None}]
  /\ pml4 \in [Cores -> Cores \cup {None}]
  /\ tree \in [Cores -> [VPages \cup {TransPage} -> Frames \cup {None}]]
  /\ stack \in [Cores -> VPages \cup {None}]
  /\ pc \in [Cores -> {"out", "want", "in", "map"}]
  /\ req \in [Cores -> {None} \cup Requests]
  /\ fault \in [Cores -> VPages \cup {None}]
  /\ vaddr_ \in [Bars -> VPages \cup {None}]
  /\ aborted \in {"no", "space", "fault", "overflow", "present"}

FirstStack == NumVPages - STACK_NPAGES
Nothing == [p \in VPages \cup {TransPage} |-> None]

\* When smp_init is called: the boot core runs its first event, on the first
\* stack, and has its translation page.
VMInit ==
  /\ regions_ = {Region(0, FirstStack, FALSE),
                 Region(FirstStack, NumVPages, TRUE)}
  /\ mappings_ = [p \in VPages |-> IF p = NumVPages - 1 THEN Boot ELSE None]
  /\ lock_ = None
  /\ cr3 = [c \in Cores |-> IF c = Boot THEN Boot ELSE None]
  /\ pml4 = [c \in Cores |-> IF c = Boot THEN Boot ELSE None]
  /\ tree = [c \in Cores |->
               IF c = Boot THEN [Nothing EXCEPT ![NumVPages - 1] = Boot,
                                                ![TransPage] = Boot]
                           ELSE Nothing]
  /\ stack = [c \in Cores |-> IF c = Boot THEN FirstStack ELSE None]
  /\ pc = [c \in Cores |-> "out"]
  /\ req = [c \in Cores |-> None]
  /\ fault = [c \in Cores |-> None]
  /\ vaddr_ = [b \in Bars |-> None]
  /\ aborted = "no"

\* The core executes: it is not held up by a fault and the kernel is alive.
Executes(c) == aborted = "no" /\ fault[c] = None

-----------------------------------------------------------------------------
(* Page tables *)

\* The frame core c finds at page p, or None: the access faults.
Translate(c, p) ==
  IF cr3[c] = None \/ pml4[cr3[c]] = None THEN None ELSE tree[pml4[cr3[c]]][p]

\* map_memory of the pages P: traverse_page_table from the core's cr3 down.
\* It asserts that none of them is present.
MapMemory(c, P, frame) ==
  IF \E p \in P : Translate(c, p) # None
  THEN aborted' = "present" /\ UNCHANGED tree
  ELSE /\ tree' = [tree EXCEPT ![pml4[cr3[c]]] =
                     [p \in DOMAIN @ |-> IF p \in P THEN frame ELSE @[p]]]
       /\ UNCHANGED aborted

-----------------------------------------------------------------------------
(* Alloc *)

\* A core calls Alloc: for a stack, with a fault handler, or for a BAR.
AllocCall(c, request) ==
  /\ req' = [req EXCEPT ![c] = request]
  /\ pc' = [pc EXCEPT ![c] = "want"]

AllocLock(c) ==
  /\ Executes(c)
  /\ pc[c] = "want"
  /\ lock_ = None
  /\ lock_' = c
  /\ pc' = [pc EXCEPT ![c] = "in"]
  /\ UNCHANGED <<regions_, mappings_, cr3, pml4, tree, stack, req, fault,
                 vaddr_, aborted>>

\* The regions the loop does not pass over.
Fits(n) == {r \in regions_ : ~r.handler /\ r.end - r.begin >= n}

\* An Alloc that forgets end -= npages.
RemainderWhole(r, n) == IF r.end - n = r.begin THEN {} ELSE {r}

\* What remains of a region from whose end n pages are taken.
Remainder(r, n) ==
  IF r.end - n = r.begin THEN {} ELSE {Region(r.begin, r.end - n, r.handler)}

\* The loop over regions_, from the highest one down.  A stack becomes the
\* one the core runs on (the constructor of EventManager and SaveContext).
AllocReturn(c) ==
  /\ Executes(c)
  /\ pc[c] = "in"
  /\ LET n == req[c].npages
         bar == req[c].bar
         r == CHOOSE x \in Fits(n) : \A y \in Fits(n) : y.begin <= x.begin
     IN /\ Fits(n) # {}
        /\ regions_' = (regions_ \ {r}) \cup Remainder(r, n)
                         \cup {Region(r.end - n, r.end, bar = None)}
        /\ IF bar = None
           THEN /\ stack' = [stack EXCEPT ![c] = r.end - n]
                /\ pc' = [pc EXCEPT ![c] = "out"]
                /\ req' = [req EXCEPT ![c] = None]
                /\ UNCHANGED vaddr_
           ELSE /\ vaddr_' = [vaddr_ EXCEPT ![bar] = r.end - n]
                /\ pc' = [pc EXCEPT ![c] = "map"]
                /\ UNCHANGED <<stack, req>>
  /\ lock_' = None
  /\ UNCHANGED <<mappings_, cr3, pml4, tree, fault, aborted>>

\* No region is large enough: kabort.
AllocAborts(c) ==
  /\ Executes(c)
  /\ pc[c] = "in"
  /\ Fits(req[c].npages) = {}
  /\ aborted' = "space"
  /\ UNCHANGED <<regions_, mappings_, lock_, cr3, pml4, tree, stack, pc, req,
                 fault, vaddr_>>

\* The rest of pci_bar::map.
MapBar(c) ==
  /\ Executes(c)
  /\ pc[c] = "map"
  /\ LET bar == req[c].bar IN
     MapMemory(c, vaddr_[bar] .. (vaddr_[bar] + BarPages - 1), bar)
  /\ pc' = [pc EXCEPT ![c] = "out"]
  /\ req' = [req EXCEPT ![c] = None]
  /\ UNCHANGED <<regions_, mappings_, lock_, cr3, pml4, stack, fault, vaddr_>>

-----------------------------------------------------------------------------
(* Page faults *)

\* The stack of core c grows into page p, or is used at p for the first time
\* since it came to this core.
Touch(c, p) ==
  /\ Executes(c)
  /\ stack[c] # None
  /\ p \in stack[c] .. (stack[c] + STACK_NPAGES - 1)
  /\ p # stack[c] + STACK_NPAGES - 1 => mappings_[p + 1] # None
  /\ Translate(c, p) = None
  /\ fault' = [fault EXCEPT ![c] = p]
  /\ UNCHANGED <<regions_, mappings_, lock_, cr3, pml4, tree, stack, pc, req,
                 vaddr_, aborted>>

\* regions_.lower_bound: the region with the highest begin up to p.
LowerBound(p) ==
  CHOOSE r \in regions_ :
    /\ r.begin <= p
    /\ \A q \in regions_ : q.begin <= p => q.begin <= r.begin

\* How many pages of region r its handler keeps.
Backed(r) == Cardinality({p \in PagesOf(r) : mappings_[p] # None})

\* mappings_.size() + 1 >= STACK_NPAGES: one page is never backed.
StackOverflow(r) == Backed(r) + 1 >= STACK_NPAGES

\* A handler that does not remember the page it maps.
KeepsNothing(p, frame) == mappings_

\* mappings_[page] = backing_page
Keeps(p, frame) == [mappings_ EXCEPT ![p] = frame]

\* HandlePageFault and handle_fault: the lock is taken and released.  Where
\* this core itself holds it, it waits for ever.  An access outside the
\* regions, or to one without a handler, stops the kernel.
HandlePageFault(c) ==
  /\ aborted = "no"
  /\ fault[c] # None
  /\ lock_ = None
  /\ LET p == fault[c]
         r == LowerBound(p)
     IN IF r.end < p + 1 \/ ~r.handler
        THEN aborted' = "fault" /\ UNCHANGED <<tree, mappings_>>
        ELSE IF mappings_[p] # None
        THEN MapMemory(c, {p}, mappings_[p]) /\ UNCHANGED mappings_
        ELSE IF StackOverflow(r)
        THEN aborted' = "overflow" /\ UNCHANGED <<tree, mappings_>>
        ELSE MapMemory(c, {p}, c) /\ mappings_' = Keeps(p, c)
  /\ fault' = [fault EXCEPT ![c] = None]
  /\ UNCHANGED <<regions_, lock_, cr3, pml4, stack, pc, req, vaddr_>>

-----------------------------------------------------------------------------
(* Properties *)

\* The regions tile the space, and every core's stack is one of them: Alloc
\* never hands out a page of a stack again, and every fault finds a region.
RegionsTile ==
  /\ \A p \in VPages : Cardinality({r \in regions_ : p \in PagesOf(r)}) = 1
  /\ \A c \in Cores : stack[c] # None =>
       Region(stack[c], stack[c] + STACK_NPAGES, TRUE) \in regions_
  /\ aborted # "fault"

\* A page of a stack is the same memory on every core that has it mapped:
\* the fault handler's "else" gives a core the stack moved to the frame the
\* first core's fault allocated (event_manager.cpp:60-69).  And each stack
\* keeps a page that is never mapped: overflowing it faults before it reaches
\* the neighbouring region (event_manager.cpp:62).
StackPagesAgree ==
  \A r \in regions_ : r.handler =>
    /\ \A c \in Cores, p \in PagesOf(r) :
         stack[c] # None => Translate(c, p) \in {None, mappings_[p]}
    /\ \E p \in PagesOf(r) : mappings_[p] = None
=============================================================================
