------------------------------ MODULE SlabRoot ------------------------------
(***************************************************************************)
(* The roots of the slab allocators (SlabAllocatorRoot, slab_init and the  *)
(* sizes in src/sys/slab_allocator.cpp) and the general purpose allocator  *)
(* over them (src/sys/general_purpose_allocator.hpp).                      *)
(*                                                                         *)
(* A root keeps the numbers of one size of object, an allocator for every  *)
(* cpu and one for every node.  The allocators are themselves objects of   *)
(* three roots set up by slab_init.  A cpu constructs its own allocator in *)
(* its own slot; a node's is constructed by whichever cpu of another node  *)
(* first asks for its memory, and several may ask at once.  What the       *)
(* allocators do with their objects is the module SlabAllocator.           *)
(***************************************************************************)
EXTENDS Naturals, Sequences, FiniteSetsExt

CONSTANTS
  Cpus, Nodes,
  NodeOf,      \* [Cpus -> Nodes]   my_node()
  Boot,        \* the cpu that runs slab_init and Init
  SizeOf,      \* sizeof: [{"root", "node", "cpu", "rep"} -> Nat]
  AlignOf,     \* alignof, of the same
  Classes,     \* the general purpose sizes, from the smallest
  ClassRoots,  \* the names of their roots, in the same order
  UserRoots,   \* the names of roots made by SlabAllocator::Construct
  UserSizes,   \* the sizes asked for there
  GpSizes,     \* the sizes asked for of the general purpose allocator
  Blocks,      \* memory for SlabAllocatorNode objects
  Static,      \* a node allocator of slab_init's, never deleted
  None

Meta == {"root", "node", "cpu"}
Kinds == Meta \cup {"rep"}
Roots == Kinds \cup Range(ClassRoots) \cup UserRoots

ASSUME RootAssumption ==
  /\ Boot \in Cpus /\ NodeOf \in [Cpus -> Nodes]
  /\ Classes \in Seq(Nat) /\ ClassRoots \in Seq(Range(ClassRoots))
  /\ UserSizes \subseteq Nat /\ GpSizes \subseteq Nat
  /\ \A s \in UserSizes : \E i \in 0 .. 62 : s < 2 ^ i   \* and can be rounded up
  /\ SizeOf \in [Kinds -> Nat \ {0}] /\ AlignOf \in [Kinds -> {8, 16, 32, 64}]
  /\ SizeOf["node"] <= SizeOf["cpu"]
  /\ Len(Classes) = Len(ClassRoots)
  /\ \A i \in 2 .. Len(Classes) : Classes[i - 1] < Classes[i]

\* Different roots have different names, and None and Static are no others.
ASSUME NameAssumption ==
  /\ \A i, j \in DOMAIN ClassRoots : ClassRoots[i] = ClassRoots[j] => i = j
  /\ Range(ClassRoots) \cap Kinds = {}
  /\ UserRoots \cap (Kinds \cup Range(ClassRoots)) = {}
  /\ None \notin Roots \cup Nodes \cup Blocks \cup {Static}
  /\ None \notin [root_ : Roots, nid_ : Nodes]
  /\ Static \notin Blocks

-----------------------------------------------------------------------------
(* The numbers of a root *)

PAGE_SHIFT == 12
PAGE_SIZE == 2 ^ PAGE_SHIFT
MAX_ORDER == 11
WordSize == 8

\* The index of the highest bit set of a word of 64.
fls(word) == CHOOSE i \in 0 .. 63 : 2 ^ i <= word /\ word < 2 ^ (i + 1)

align_up(val, alignment) == ((val + alignment - 1) \div alignment) * alignment

SlabSize(order) == PAGE_SIZE * 2 ^ order

\* A slab_order (below) that starts one order late for a power of two.
slab_orderLate(size, max_order, frac) ==
  LET first == IF fls(size) < PAGE_SHIFT THEN 0 ELSE fls(size) - PAGE_SHIFT + 1
      fits == {o \in first .. max_order :
                 (SlabSize(o) % size) * frac <= SlabSize(o)}
  IN IF fits # {} THEN Min(fits) ELSE Max({first, max_order + 1})

\* The first order, from the one a single object needs, at which no more than
\* the given fraction is wasted.
slab_order(size, max_order, frac) ==
  LET first == IF fls(size - 1) < PAGE_SHIFT THEN 0
               ELSE fls(size - 1) - PAGE_SHIFT + 1
      fits == {o \in first .. max_order :
                 (SlabSize(o) % size) * frac <= SlabSize(o)}
  IN IF fits # {} THEN Min(fits) ELSE Max({first, max_order + 1})

calculate_order(size) ==
  IF slab_order(size, 1, 4) <= 1
  THEN slab_order(size, 1, 4)
  ELSE slab_order(size, MAX_ORDER, 0)

calculate_freebatch(size) ==
  Max({(4 * PAGE_SIZE) \div size, Min({256, (64 * PAGE_SIZE) \div size})})

\* The constructor.  asked is what it was given, for the properties.
SlabAllocatorRoot(size_in, align_in) ==
  LET align == align_up(Max({align_in, WordSize}), WordSize)
      size == align_up(Max({size_in, WordSize}), align)
  IN [asked |-> size_in, align |-> align, size |-> size,
      order |-> calculate_order(size),
      free_batch |-> calculate_freebatch(size),
      hiwater |-> calculate_freebatch(size) * 4]

\* The roots that can be constructed.
RootValues ==
  {SlabAllocatorRoot(SizeOf[k], AlignOf[k]) : k \in Kinds} \cup
  {SlabAllocatorRoot(s, 0) : s \in Range(Classes) \cup UserSizes}

ASSUME NoneIsNoRoot == None \notin RootValues

TooBig(root) == root.order > MAX_ORDER   \* kbugon in calculate_order

num_objects_per_slab(root) == SlabSize(root.order) \div root.size

\* What is constructed while booting is not too big: the largest class of
\* gp_type has 8 MB (general_purpose_allocator.hpp:128), a block of MAX_ORDER.
ASSUME BootRootsFit ==
  \A s \in {SizeOf[k] : k \in Kinds} \cup Range(Classes) : s <= SlabSize(MAX_ORDER)

-----------------------------------------------------------------------------
VARIABLES
  boot,            \* how far the boot cpu is
  roots,           \* [Roots -> SlabAllocatorRoot or None]
  cpu_allocators,  \* [Roots -> [Cpus -> the root_ of the SlabAllocator, or None]]
  node_allocators, \* [Roots -> [Nodes -> Blocks, Static or None]]
  block,           \* [Blocks -> the SlabAllocatorNode [root_, nid_] in it, or None]
  reps,            \* [Cpus -> the roots behind allocators_, or None]
  call,            \* [Cpus -> the Alloc in progress]
  got,             \* [Cpus -> the objects its last operation allocated: what
                   \*          was needed, and the root_ of the allocator]
  lost             \* whether a compare_exchange_strong has failed; for the
                   \* properties

rootVars == <<boot, roots, cpu_allocators, node_allocators, block, reps, call,
              got, lost>>

Idle == [at |-> "idle", root |-> None, nid |-> None, need |-> 0,
         allocator |-> None, new_allocator |-> None]

Init ==
  /\ boot = "slab_init"
  /\ roots = [r \in Roots |-> None]
  /\ cpu_allocators = [r \in Roots |-> [c \in Cpus |-> None]]
  /\ node_allocators = [r \in Roots |-> [n \in Nodes |-> None]]
  /\ block = [b \in Blocks |-> None]
  /\ reps = [c \in Cpus |-> None]
  /\ call = [c \in Cpus |-> Idle]
  /\ got = [c \in Cpus |-> {}]
  /\ lost = FALSE

\* An object of root's, from the cpu's own allocator.
FromCpu(c, root, need) == [need |-> need, root_ |-> cpu_allocators[root][c]]

\* slab_init with the cpu allocators of roots under the root of allocators.
MetaRootMixed(m) == IF m = "root" THEN "cpu" ELSE m

\* The root_ of a meta root's cpu allocators: the ones of slab_node_allocator
\* are constructed with slab_cpu_allocator.
MetaRoot(m) == IF m = "node" THEN "cpu" ELSE m

slab_init ==
  /\ boot = "slab_init"
  /\ roots' = [r \in Roots |-> IF r \in Meta
                 THEN SlabAllocatorRoot(SizeOf[r], AlignOf[r]) ELSE None]
  /\ cpu_allocators' = [r \in Roots |-> [c \in Cpus |->
                          IF r \in Meta THEN MetaRoot(r) ELSE None]]
  /\ node_allocators' = [r \in Roots |-> [n \in Nodes |->
                           IF r \in Meta THEN Static ELSE None]]
  /\ boot' = "gp_init"
  /\ UNCHANGED <<block, reps, call, got, lost>>

-----------------------------------------------------------------------------
(* The general purpose allocator *)

\* Init: the root of the representatives, then one for each size.
GpInit ==
  /\ boot = "gp_init"
  /\ roots' = [r \in Roots |->
       IF r = "rep" THEN SlabAllocatorRoot(SizeOf["rep"], AlignOf["rep"])
       ELSE IF \E i \in DOMAIN Classes : ClassRoots[i] = r
       THEN SlabAllocatorRoot(Classes[CHOOSE i \in DOMAIN Classes : ClassRoots[i] = r], 0)
       ELSE roots[r]]
  /\ got' = [got EXCEPT ![Boot] = {FromCpu(Boot, "root", SizeOf["root"])}]
  /\ boot' = "up"
  /\ UNCHANGED <<cpu_allocators, node_allocators, block, reps, call, lost>>

Ready(c) == boot = "up" /\ call[c].at = "idle"

\* get_cpu_allocator for each of the roots rs: what is missing is constructed,
\* in memory from the cpu's allocator of SlabAllocators.
GetCpuAllocators(c, rs) ==
  cpu_allocators' = [r \in Roots |->
    IF r \in rs /\ cpu_allocators[r][c] = None
    THEN [cpu_allocators[r] EXCEPT ![c] = r] ELSE cpu_allocators[r]]

Constructed(c, rs) ==
  {FromCpu(c, "cpu", SizeOf["cpu"]) : r \in {q \in rs : cpu_allocators[q][c] = None}}

\* HandleFault: the first use on a cpu constructs its representative, which
\* takes the cpu's allocator of each size.
GpHandleFault(c) ==
  /\ Ready(c) /\ reps[c] = None
  /\ LET rs == {"rep"} \cup Range(ClassRoots) IN
     /\ GetCpuAllocators(c, rs)
     /\ got' = [got EXCEPT ![c] = Constructed(c, rs) \cup
                                  {[need |-> SizeOf["rep"], root_ |-> "rep"]}]
  /\ reps' = [reps EXCEPT ![c] = ClassRoots]
  /\ UNCHANGED <<boot, roots, node_allocators, block, call, lost>>

\* operator new throws bad_alloc, with no memory for the representative: the
\* next use starts again.
GpHandleFaultFails(c) ==
  /\ Ready(c) /\ reps[c] = None
  /\ GetCpuAllocators(c, {"rep"})
  /\ got' = [got EXCEPT ![c] = Constructed(c, {"rep"})]
  /\ UNCHANGED <<boot, roots, node_allocators, block, reps, call, lost>>

\* The constructor throws it, at an allocator that is missing; the ones before
\* stay.  operator delete, which is to take the representative's memory back,
\* is UNIMPLEMENTED: kabort.
GpConstructorThrows(c) ==
  /\ Ready(c) /\ reps[c] = None
  /\ \E i \in 0 .. Len(ClassRoots) :
       LET rs == {"rep"} \cup Range(SubSeq(ClassRoots, 1, i)) IN
       /\ \E r \in Range(ClassRoots) \ rs : cpu_allocators[r][c] = None
       /\ GetCpuAllocators(c, rs)
       /\ got' = [got EXCEPT ![c] = Constructed(c, rs)]
  /\ call' = [call EXCEPT ![c].at = "aborted"]
  /\ UNCHANGED <<boot, roots, node_allocators, block, reps, lost>>

\* The first class that is large enough, 0 if there is none.
indexer(size) ==
  LET enough == {i \in DOMAIN Classes : size <= Classes[i]}
  IN IF enough = {} THEN 0 ELSE Min(enough)

\* SlabAllocator::Alloc(nid) of the cpu's allocator under root: an object of
\* its own cache, or a look for the allocator of the other node.
Alloc(c, root, nid, need) ==
  IF nid = NodeOf[c]
  THEN /\ got' = [got EXCEPT ![c] = {FromCpu(c, root, need)}]
       /\ UNCHANGED call
  ELSE /\ call' = [call EXCEPT ![c] = [Idle EXCEPT !.at = "load",
                     !.root = cpu_allocators[root][c], !.nid = nid, !.need = need]]
       /\ UNCHANGED got

GpAlloc(c) ==
  /\ Ready(c) /\ reps[c] # None
  /\ \E size \in GpSizes, nid \in Nodes :
       IF indexer(size) = 0
       THEN /\ call' = [call EXCEPT ![c].at = "aborted"]   \* kbugon
            /\ UNCHANGED got
       ELSE Alloc(c, reps[c][indexer(size)], nid, size)
  /\ UNCHANGED <<boot, roots, cpu_allocators, node_allocators, block, reps, lost>>

\* Free finds the root by the page of the object, and frees it with this
\* cpu's allocator under that root, constructed if need be.
GpFree(c) ==
  /\ Ready(c)
  /\ \E d \in Cpus : \E o \in got[d] :
       /\ o.root_ \in Range(ClassRoots)
       /\ GetCpuAllocators(c, {o.root_})
       /\ got' = [got EXCEPT ![d] = @ \ {o}]
  /\ UNCHANGED <<boot, roots, node_allocators, block, reps, call, lost>>

-----------------------------------------------------------------------------
(* Allocators of a single size *)

\* SlabAllocator::Construct: the root, under a new id in local_id_map.
Construct(c, id, size) ==
  /\ Ready(c) /\ roots[id] = None
  /\ LET root == SlabAllocatorRoot(size, 0) IN
     IF TooBig(root)
     THEN /\ call' = [call EXCEPT ![c].at = "aborted"]
          /\ UNCHANGED <<roots, got>>
     ELSE /\ roots' = [roots EXCEPT ![id] = root]
          /\ got' = [got EXCEPT ![c] = {FromCpu(c, "root", SizeOf["root"])}]
          /\ UNCHANGED call
  /\ UNCHANGED <<boot, cpu_allocators, node_allocators, block, reps, lost>>

\* The first use of the id on a cpu.
HandleFault(c, id) ==
  /\ Ready(c) /\ roots[id] # None /\ cpu_allocators[id][c] = None
  /\ GetCpuAllocators(c, {id})
  /\ got' = [got EXCEPT ![c] = Constructed(c, {id})]
  /\ UNCHANGED <<boot, roots, node_allocators, block, reps, call, lost>>

UserAlloc(c, id) ==
  /\ Ready(c) /\ cpu_allocators[id][c] # None
  /\ \E nid \in Nodes : Alloc(c, id, nid, roots[id].asked)
  /\ UNCHANGED <<boot, roots, cpu_allocators, node_allocators, block, reps, lost>>

-----------------------------------------------------------------------------
(* get_node_allocator *)

GoOn(c, at, allocator, new_allocator) ==
  call' = [call EXCEPT ![c].at = at, ![c].allocator = allocator,
                       ![c].new_allocator = new_allocator]

\* auto allocator = node_allocators[index].load();
LoadNodeAllocator(c) ==
  /\ call[c].at = "load"
  /\ LET allocator == node_allocators[call[c].root][call[c].nid] IN
     GoOn(c, IF allocator = None THEN "new" ELSE "use", allocator, None)
  /\ UNCHANGED <<boot, roots, cpu_allocators, node_allocators, block, reps, got, lost>>

\* new (nid) SlabAllocatorNode(*this, nid): the cpu is on another node, so the
\* memory is from slab_node_allocator's allocator of the node.
NewNodeAllocator(c) ==
  /\ call[c].at = "new"
  /\ \E b \in Blocks :
       /\ block[b] = None
       /\ block' = [block EXCEPT ![b] = [root_ |-> call[c].root, nid_ |-> call[c].nid]]
       /\ GoOn(c, "cas", None, b)
  /\ got' = [got EXCEPT ![c] = {[need |-> SizeOf["node"], root_ |-> "node"]}]
  /\ UNCHANGED <<boot, roots, cpu_allocators, node_allocators, reps, lost>>

\* std::bad_alloc
NewNodeAllocatorFails(c) ==
  /\ call[c].at = "new"
  /\ call' = [call EXCEPT ![c] = Idle]
  /\ UNCHANGED <<boot, roots, cpu_allocators, node_allocators, block, reps, got, lost>>

\* A plain store of the new allocator.
StoreNodeAllocator(c) ==
  /\ node_allocators' = [node_allocators EXCEPT
                           ![call[c].root][call[c].nid] = call[c].new_allocator]
  /\ GoOn(c, "use", call[c].new_allocator, None)
  /\ UNCHANGED <<block, lost>>

\* compare_exchange_strong(allocator, new_allocator).  When it fails it has
\* put what it found into allocator: that is what is deleted, and then used.
ExchangeNodeAllocator(c) ==
  LET found == node_allocators[call[c].root][call[c].nid] IN
  IF found = None
  THEN StoreNodeAllocator(c)
  ELSE /\ block' = [block EXCEPT ![found] = None]
       /\ GoOn(c, "use", found, None)
       /\ lost' = TRUE
       /\ UNCHANGED node_allocators

InstallNodeAllocator(c) ==
  /\ call[c].at = "cas"
  /\ ExchangeNodeAllocator(c)
  /\ UNCHANGED <<boot, roots, cpu_allocators, reps, got>>

\* return node_allocator.Alloc().  With a deleted allocator anything can
\* happen.
AllocFromNode(c) ==
  /\ call[c].at = "use"
  /\ IF block[call[c].allocator] = None
     THEN /\ call' = [call EXCEPT ![c].at = "undefined"]
          /\ UNCHANGED got
     ELSE /\ call' = [call EXCEPT ![c] = Idle]
          /\ got' = [got EXCEPT ![c] = {[need |-> call[c].need,
                                         root_ |-> block[call[c].allocator].root_]}]
  /\ UNCHANGED <<boot, roots, cpu_allocators, node_allocators, block, reps, lost>>

-----------------------------------------------------------------------------
Next ==
  \/ slab_init
  \/ GpInit
  \/ \E c \in Cpus :
       \/ GpHandleFault(c)
       \/ GpHandleFaultFails(c)
       \/ GpConstructorThrows(c)
       \/ GpAlloc(c)
       \/ GpFree(c)
       \/ \E id \in UserRoots :
            \/ \E size \in UserSizes : Construct(c, id, size)
            \/ HandleFault(c, id)
            \/ UserAlloc(c, id)
       \/ LoadNodeAllocator(c)
       \/ NewNodeAllocator(c)
       \/ NewNodeAllocatorFails(c)
       \/ InstallNodeAllocator(c)
       \/ AllocFromNode(c)

Spec == Init /\ [][Next]_rootVars

-----------------------------------------------------------------------------
(* Properties *)

\* The cpus that ask for the memory of one node of one root all use the one
\* allocator in the root's slot, and, as long as no compare-and-swap was lost
\* (slab_allocator.cpp:477), it was constructed for that root and node, is not
\* deleted, and no constructed allocator is forgotten.
NodeAllocatorsSound ==
  /\ \A c \in Cpus : call[c].at = "use" =>
       call[c].allocator = node_allocators[call[c].root][call[c].nid]
  /\ ~lost =>
       /\ \A r \in Roots \ Meta, n \in Nodes : node_allocators[r][n] # None =>
            block[node_allocators[r][n]] = [root_ |-> r, nid_ |-> n]
       /\ \A b \in Blocks : block[b] # None =>
            \/ node_allocators[block[b].root_][block[b].nid_] = b
            \/ \E c \in Cpus : call[c].at = "cas" /\ call[c].new_allocator = b

\* Whatever is allocated (an object for a caller, or a root, an allocator or a
\* representative the allocators need themselves) comes from a root whose
\* objects are large enough, although slab_node_allocator's cpu allocators
\* work with the numbers of slab_cpu_allocator (slab_allocator.cpp:103).
ObjectsLargeEnough ==
  ~lost => \A c \in Cpus : \A o \in got[c] :
    /\ roots[o.root_] # None
    /\ o.need <= roots[o.root_].size

\* What slab_order and calculate_order search for, said without a search: the
\* least order that holds an object, or the next one if that is at most 1, it
\* wastes no more than a quarter and the least one would.
LeastOrder(size) == Min({o \in 0 .. MAX_ORDER : size <= SlabSize(o)})
WastesLittle(size, o) == 4 * (SlabSize(o) % size) <= SlabSize(o)

ReferenceOrder(size) ==
  IF LeastOrder(size) = 0 /\ ~WastesLittle(size, 0) /\ WastesLittle(size, 1)
  THEN 1 ELSE LeastOrder(size)

\* Every root that exists has objects as large and as aligned as asked for,
\* the order the reference gives, at least one object in a slab, and a batch
\* that moves at most 64 pages at once.  The batch, and the watermark with it,
\* is 0 exactly for objects above 64 pages, which are then never flushed
\* (slab_allocator.cpp:45).
ConstantsFit(root) ==
  /\ root.asked <= root.size /\ root.size < root.asked + root.align + WordSize
  /\ root.size % root.align = 0
  /\ root.order = ReferenceOrder(root.size)
  /\ num_objects_per_slab(root) >= 1
  /\ root.free_batch * root.size <= 64 * PAGE_SIZE
  /\ root.free_batch = 0 <=> root.size > 64 * PAGE_SIZE
  /\ root.hiwater = 4 * root.free_batch

RootConstantsFit == \A r \in Roots : roots[r] # None => ConstantsFit(roots[r])
=============================================================================
