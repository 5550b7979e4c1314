--------------------------- MODULE SlabAllocator ---------------------------
(***************************************************************************)
(* The slab allocator for one size of object                               *)
(* (src/sys/slab_allocator.cpp, slab_allocator.hpp, slab_object.hpp).      *)
(*                                                                         *)
(* Each cpu has a SlabAllocator with a SlabCache only that cpu touches;    *)
(* each NUMA node has a SlabAllocatorNode, whose cache serves the cpus of  *)
(* other nodes under a lock.  A cache owns slabs, and keeps the objects    *)
(* freed last in object_list_.  An object whose slab belongs to another    *)
(* cache goes home by way of the freeing cpu's remote_list_, which is      *)
(* flushed, under a lock, to the owner's remote_.list, which the owner     *)
(* claims when remote_check tells it to.                                   *)
(*                                                                         *)
(* Only remote_.list, remote_check and the node caches are shared, so the  *)
(* code between two accesses to them is one step.  Lists are sets: which   *)
(* of its objects a list gives out first is left open.                     *)
(***************************************************************************)
EXTENDS Naturals, FiniteSets, Sequences

CONSTANTS
  Cpus,            \* cpus; a cpu also stands for its own SlabCache
  Nodes,           \* NUMA nodes; a node also stands for its node cache
  NodeOf,          \* [Cpus -> Nodes]      my_node()
  Slabs,           \* blocks page_allocator->Alloc(order, nid) can return
  NidOf,           \* [Slabs -> Nodes]     page::nid
  num_objects,     \* num_objects_per_slab()
  free_batch,      \* calculate_freebatch(size): 0 for objects above 64 pages
  hiwater,         \* 4 * free_batch in the code
  CpuSeq, NodeSeq, \* the cpus and the nodes by index
  None             \* a null pointer

ASSUME SlabAssumption ==
  /\ num_objects \in Nat \ {0}
  /\ free_batch \in Nat
  /\ hiwater \in Nat /\ hiwater >= free_batch
  /\ NodeOf \in [Cpus -> Nodes]
  /\ IsFiniteSet(Slabs) /\ NidOf \in [Slabs -> Nodes]
  /\ CpuSeq \in Seq(Cpus) /\ \A c \in Cpus : \E i \in DOMAIN CpuSeq : CpuSeq[i] = c
  /\ NodeSeq \in Seq(Nodes) /\ \A n \in Nodes : \E i \in DOMAIN NodeSeq : NodeSeq[i] = n
  /\ Cpus \cap Nodes = {}
  /\ None \notin Cpus \cup Nodes

Caches == Cpus \cup Nodes
Objects == Slabs \X (1 .. num_objects)
SlabOf(o) == o[1]
ObjectsOf(s) == {o \in Objects : SlabOf(o) = s}

VARIABLES
  object_list_,        \* [Caches -> SUBSET Objects]
  partial_page_list_,  \* [Caches -> SUBSET Slabs]
  remote_,             \* [Caches -> SUBSET Objects]   remote_.list
  remote_check,        \* [Caches -> BOOLEAN]
  remote_list_,        \* [Cpus -> SUBSET Objects]
  remote_cache_,       \* [Cpus -> Caches or None]
  cache,               \* slab_data.cache: [Slabs -> Caches or None]
  used,                \* slab_data.used
  list,                \* slab_data.list: [Slabs -> SUBSET Objects]
  held,                \* the objects the callers have
  pc,                  \* where each cpu is
  target,              \* the cache the operation in progress works on
  left,                \* how many objects FlushFreeList may still free
  stage                \* how far the root's destructor is; 0: in use

slabVars == <<object_list_, partial_page_list_, remote_, remote_check,
              remote_list_, remote_cache_, cache, used, list, held, pc,
              target, left, stage>>

\* "alloc": at retry in SlabCache::Alloc; "trim": in the while after
\* ClaimRemoteFreeList; "flushTrim", "flushFree": in FlushFreeList, called
\* from there or from SlabCache::Free; "claim", "drain": in the destructor of
\* the root, at ClaimRemoteFreeList and in FlushFreeListAll.
Locations == {"idle", "alloc", "trim", "flushTrim", "flushFree", "claim",
              "drain", "destroyed"}

\* size_t(-1), the amount of FlushFreeListAll: more than there is.
FlushAll == Cardinality(Objects) + 1

\* The caches the loops of the destructor visit: twice the cpus', then the
\* nodes'.
DrainOrder == CpuSeq \o CpuSeq \o NodeSeq

TypeOK ==
  /\ object_list_ \in [Caches -> SUBSET Objects]
  /\ partial_page_list_ \in [Caches -> SUBSET Slabs]
  /\ remote_ \in [Caches -> SUBSET Objects]
  /\ remote_check \in [Caches -> BOOLEAN]
  /\ remote_list_ \in [Cpus -> SUBSET Objects]
  /\ remote_cache_ \in [Cpus -> Caches \cup {None}]
  /\ cache \in [Slabs -> Caches \cup {None}]
  /\ used \in [Slabs -> 0 .. num_objects]
  /\ list \in [Slabs -> SUBSET Objects]
  /\ held \subseteq Objects
  /\ pc \in [Cpus -> Locations]
  /\ target \in [Cpus -> Caches \cup {None}]
  /\ left \in [Cpus -> 0 .. (free_batch + FlushAll)]
  /\ stage \in 0 .. Len(DrainOrder)

Init ==
  /\ object_list_ = [k \in Caches |-> {}]
  /\ partial_page_list_ = [k \in Caches |-> {}]
  /\ remote_ = [k \in Caches |-> {}]
  /\ remote_check = [k \in Caches |-> FALSE]
  /\ remote_list_ = [c \in Cpus |-> {}]
  /\ remote_cache_ = [c \in Cpus |-> None]
  /\ cache = [s \in Slabs |-> None]
  /\ used = [s \in Slabs |-> 0]
  /\ list = [s \in Slabs |-> {}]
  /\ held = {}
  /\ pc = [c \in Cpus |-> "idle"]
  /\ target = [c \in Cpus |-> None]
  /\ left = [c \in Cpus |-> 0]
  /\ stage = 0

-----------------------------------------------------------------------------
(* SlabAllocator::Alloc, SlabAllocatorNode::Alloc, SlabCache::Alloc *)

\* A node's cache is worked on under SlabAllocatorNode::lock_, which is held
\* until Alloc returns.
Locked(k) == k \in Nodes /\ \E c \in Cpus : target[c] = k

\* Alloc(nid): the cpu's own cache for its own node, else the node's.
Alloc(c, nid) ==
  LET k == IF nid = NodeOf[c] THEN c ELSE nid IN
  /\ stage = 0 /\ pc[c] = "idle"
  /\ ~Locked(k)
  /\ pc' = [pc EXCEPT ![c] = "alloc"]
  /\ target' = [target EXCEPT ![c] = k]
  /\ UNCHANGED <<object_list_, partial_page_list_, remote_, remote_check,
                 remote_list_, remote_cache_, cache, used, list, held, left, stage>>

\* The caller gets o, and the lock of a node cache is released.
AllocReturns(c, o) ==
  /\ held' = held \cup {o}
  /\ pc' = [pc EXCEPT ![c] = "idle"]
  /\ target' = [target EXCEPT ![c] = None]

\* object_list_ has an object.
AllocFromList(c) ==
  /\ pc[c] = "alloc"
  /\ \E o \in object_list_[target[c]] :
       /\ object_list_' = [object_list_ EXCEPT ![target[c]] = @ \ {o}]
       /\ AllocReturns(c, o)
  /\ UNCHANGED <<partial_page_list_, remote_, remote_check, remote_list_,
                 remote_cache_, cache, used, list, left, stage>>

\* ClaimRemoteFreeList swaps the lists, or splices the remote one into an
\* object_list_ that is not empty.
ClaimRemoteFreeList(k) ==
  /\ object_list_' = [object_list_ EXCEPT ![k] = @ \cup remote_[k]]
  /\ remote_' = [remote_ EXCEPT ![k] = {}]

\* object_list_ is empty and remote_check is set.
AllocClaim(c) ==
  /\ pc[c] = "alloc"
  /\ object_list_[target[c]] = {}
  /\ remote_check[target[c]]
  /\ ClaimRemoteFreeList(target[c])
  /\ pc' = [pc EXCEPT ![c] = "trim"]
  /\ UNCHANGED <<partial_page_list_, remote_check, remote_list_,
                 remote_cache_, cache, used, list, held, target, left, stage>>

\* while (object_list_.size() > hiwater) FlushFreeList(free_batch); retry
Trim(c) ==
  /\ pc[c] = "trim"
  /\ IF Cardinality(object_list_[target[c]]) > hiwater
     THEN /\ pc' = [pc EXCEPT ![c] = "flushTrim"]
          /\ left' = [left EXCEPT ![c] = free_batch]
     ELSE /\ pc' = [pc EXCEPT ![c] = "alloc"]
          /\ UNCHANGED left
  /\ UNCHANGED <<object_list_, partial_page_list_, remote_, remote_check,
                 remote_list_, remote_cache_, cache, used, list, held, target, stage>>

\* SlabCache::Alloc gets past the lists.
ListsDry(c) ==
  /\ pc[c] = "alloc"
  /\ object_list_[target[c]] = {}
  /\ ~remote_check[target[c]]

\* A slab leaves the partial list one object late.
LastObjectLate(s) == used[s] = num_objects

\* used + 1 == num_objects_per_slab()
LastObject(s) == used[s] + 1 = num_objects

\* An object of a partial page.
AllocFromPartial(c) ==
  LET k == target[c] IN
  /\ ListsDry(c)
  /\ \E s \in partial_page_list_[k] : \E o \in list[s] :
       /\ partial_page_list_' =
            [partial_page_list_ EXCEPT ![k] = IF LastObject(s) THEN @ \ {s} ELSE @]
       /\ used' = [used EXCEPT ![s] = @ + 1]
       /\ list' = [list EXCEPT ![s] = @ \ {o}]
       /\ AllocReturns(c, o)
  /\ UNCHANGED <<object_list_, remote_, remote_check, remote_list_,
                 remote_cache_, cache, left, stage>>

\* cache_.Alloc returned nullptr: a new slab, then cache_.Alloc once more.
\* The page allocator may return a block of any node: Free on another node
\* leaves it on that node's lists (see PageAllocator).
AddSlab(c) ==
  LET k == target[c] IN
  /\ ListsDry(c)
  /\ partial_page_list_[k] = {}
  /\ \E s \in Slabs :
       /\ cache[s] = None
       /\ cache' = [cache EXCEPT ![s] = k]
       /\ used' = [used EXCEPT ![s] = 0]
       /\ list' = [list EXCEPT ![s] = ObjectsOf(s)]
       /\ partial_page_list_' = [partial_page_list_ EXCEPT ![k] = @ \cup {s}]
  /\ UNCHANGED <<object_list_, remote_, remote_check, remote_list_,
                 remote_cache_, held, pc, target, left, stage>>

\* NO_PFN: Alloc returns nullptr.
AllocFails(c) ==
  /\ ListsDry(c)
  /\ partial_page_list_[target[c]] = {}
  /\ \A s \in Slabs : cache[s] # None
  /\ pc' = [pc EXCEPT ![c] = "idle"]
  /\ target' = [target EXCEPT ![c] = None]
  /\ UNCHANGED <<object_list_, partial_page_list_, remote_, remote_check,
                 remote_list_, remote_cache_, cache, used, list, held, left, stage>>

-----------------------------------------------------------------------------
(* FreeRemote *)

\* A watermark that has to be passed, not reached.
CrossesLate(k, O) ==
  /\ Cardinality(remote_[k]) < free_batch
  /\ Cardinality(remote_[k] \cup O) > free_batch

\* FlushRemoteList moves objects O to the remote list of cache k, and sets
\* remote_check when that list crosses the watermark.
Crosses(k, O) ==
  /\ Cardinality(remote_[k]) < free_batch
  /\ Cardinality(remote_[k] \cup O) >= free_batch

\* A FreeRemote that does not flush when the owner changes.
OwnerChangesIgnored(c, o) == FALSE

\* page_slab_data.cache != remote_cache_, and there is a cache to flush to.
OwnerChanges(c, o) ==
  remote_cache_[c] # None /\ cache[SlabOf(o)] # remote_cache_[c]

\* What is sent to cache k when cpu c frees o remotely: the batch of the
\* former owner if the owner changes, the batch of this one if it is full.
Batch(c, o) ==
  IF OwnerChanges(c, o) THEN {o} ELSE remote_list_[c] \cup {o}

Sent(c, o, k) ==
  CASE OwnerChanges(c, o) /\ k = remote_cache_[c] -> remote_list_[c]
    [] k = cache[SlabOf(o)] /\ Cardinality(Batch(c, o)) > free_batch -> Batch(c, o)
    [] OTHER -> {}

FreeRemote(c, o) ==
  /\ remote_' = [k \in Caches |-> remote_[k] \cup Sent(c, o, k)]
  /\ remote_check' = [k \in Caches |->
       remote_check[k] \/ (Sent(c, o, k) # {} /\ Crosses(k, Sent(c, o, k)))]
  /\ remote_list_' = [remote_list_ EXCEPT ![c] =
       IF Cardinality(Batch(c, o)) > free_batch THEN {} ELSE Batch(c, o)]
  /\ remote_cache_' = [remote_cache_ EXCEPT ![c] = cache[SlabOf(o)]]

-----------------------------------------------------------------------------
(* Free and FlushFreeList *)

\* An object of the cpu's node goes to its object_list_, whatever cache owns
\* it; more than hiwater of them are flushed.
FreeLocal(c) ==
  /\ stage = 0 /\ pc[c] = "idle"
  /\ \E o \in held :
       /\ NidOf[SlabOf(o)] = NodeOf[c]
       /\ held' = held \ {o}
       /\ object_list_' = [object_list_ EXCEPT ![c] = @ \cup {o}]
  /\ IF Cardinality(object_list_'[c]) > hiwater
     THEN /\ pc' = [pc EXCEPT ![c] = "flushFree"]
          /\ target' = [target EXCEPT ![c] = c]
          /\ left' = [left EXCEPT ![c] = free_batch]
     ELSE UNCHANGED <<pc, target, left>>
  /\ UNCHANGED <<partial_page_list_, remote_, remote_check, remote_list_,
                 remote_cache_, cache, used, list, stage>>

\* An object of another node is freed remotely.
FreeOther(c) ==
  /\ stage = 0 /\ pc[c] = "idle"
  /\ \E o \in held :
       /\ NidOf[SlabOf(o)] # NodeOf[c]
       /\ held' = held \ {o}
       /\ FreeRemote(c, o)
  /\ UNCHANGED <<object_list_, partial_page_list_, cache, used, list, pc,
                 target, left, stage>>

InFlush(c) == pc[c] \in {"flushTrim", "flushFree", "drain"}

\* FlushFreeList frees the slab when one object is still out.
SlabEmptyEarly(s) == used[s] <= 2

\* --used == 0
SlabEmpty(s) == used[s] = 1

\* One turn of FlushFreeList: an object of this cache's own slab goes back to
\* the slab, which is freed once it has all its objects and is a partial
\* page as soon as it has one ...
FlushHome(c) ==
  LET k == target[c] IN
  /\ InFlush(c) /\ left[c] > 0
  /\ \E o \in object_list_[k] :
       LET s == SlabOf(o) IN
       /\ cache[s] = k
       /\ object_list_' = [object_list_ EXCEPT ![k] = @ \ {o}]
       /\ used' = [used EXCEPT ![s] = @ - 1]
       /\ IF SlabEmpty(s)
          THEN /\ partial_page_list_' = [partial_page_list_ EXCEPT ![k] = @ \ {s}]
               /\ cache' = [cache EXCEPT ![s] = None]
               /\ list' = [list EXCEPT ![s] = {}]
          ELSE /\ list' = [list EXCEPT ![s] = @ \cup {o}]
               /\ partial_page_list_' = [partial_page_list_ EXCEPT ![k] =
                    IF used[s] = num_objects THEN @ \cup {s} ELSE @]
               /\ UNCHANGED cache
  /\ left' = [left EXCEPT ![c] = @ - 1]
  /\ UNCHANGED <<remote_, remote_check, remote_list_, remote_cache_, held, pc,
                 target, stage>>

\* ... and one of another cache's slab is freed remotely by this cpu.
FlushForeign(c) ==
  LET k == target[c] IN
  /\ InFlush(c) /\ left[c] > 0
  /\ \E o \in object_list_[k] :
       /\ cache[SlabOf(o)] # k
       /\ object_list_' = [object_list_ EXCEPT ![k] = @ \ {o}]
       /\ FreeRemote(c, o)
  /\ left' = [left EXCEPT ![c] = @ - 1]
  /\ UNCHANGED <<partial_page_list_, cache, used, list, held, pc, target, stage>>

\* A FlushFreeList that ends only when the list is empty and the batch is
\* used up.
FlushReturnsBoth(c) ==
  /\ pc[c] \in {"flushTrim", "flushFree"}
  /\ left[c] = 0 /\ object_list_[target[c]] = {}
  /\ pc' = [pc EXCEPT ![c] = IF @ = "flushFree" THEN "idle" ELSE "trim"]
  /\ target' = [target EXCEPT ![c] = IF pc[c] = "flushFree" THEN None ELSE @]
  /\ UNCHANGED <<object_list_, partial_page_list_, remote_, remote_check,
                 remote_list_, remote_cache_, cache, used, list, held, left, stage>>

\* FlushFreeList returns, to Free or to the while of SlabCache::Alloc.
FlushReturns(c) ==
  /\ pc[c] \in {"flushTrim", "flushFree"}
  /\ left[c] = 0 \/ object_list_[target[c]] = {}
  /\ IF pc[c] = "flushFree"
     THEN /\ pc' = [pc EXCEPT ![c] = "idle"]
          /\ target' = [target EXCEPT ![c] = None]
     ELSE /\ pc' = [pc EXCEPT ![c] = "trim"]
          /\ UNCHANGED target
  /\ UNCHANGED <<object_list_, partial_page_list_, remote_, remote_check,
                 remote_list_, remote_cache_, cache, used, list, held, left, stage>>

-----------------------------------------------------------------------------
(* ~SlabAllocatorRoot, run by cpu c once nobody uses the allocator any more *)

Destroy(c) ==
  /\ stage = 0
  /\ \A d \in Cpus : pc[d] = "idle"
  /\ stage' = 1
  /\ pc' = [pc EXCEPT ![c] = "drain"]
  /\ target' = [target EXCEPT ![c] = DrainOrder[1]]
  /\ left' = [left EXCEPT ![c] = FlushAll]
  /\ UNCHANGED <<object_list_, partial_page_list_, remote_, remote_check,
                 remote_list_, remote_cache_, cache, used, list, held>>

\* A destructor whose first loop does not send the remote lists home.
FlushRemoteListSkipped(t) == UNCHANGED <<remote_, remote_check, remote_list_>>

\* FlushRemoteList of cpu t; nothing without a remote_cache_.
FlushRemoteList(t) ==
  LET k == remote_cache_[t] IN
  IF k = None
  THEN UNCHANGED <<remote_, remote_check, remote_list_>>
  ELSE /\ remote_' = [remote_ EXCEPT ![k] = @ \cup remote_list_[t]]
       /\ remote_check' = [remote_check EXCEPT ![k] = @ \/ Crosses(k, remote_list_[t])]
       /\ remote_list_' = [remote_list_ EXCEPT ![t] = {}]

\* FlushFreeListAll is done with one cache; in the first loop the cpu's
\* FlushRemoteList follows.  On to the next cache, which in the other loops
\* claims its remote list first.
DrainStageEnds(c) ==
  /\ pc[c] = "drain"
  /\ object_list_[target[c]] = {}
  /\ IF stage <= Len(CpuSeq)
     THEN FlushRemoteList(target[c])
     ELSE UNCHANGED <<remote_, remote_check, remote_list_>>
  /\ IF stage = Len(DrainOrder)
     THEN /\ pc' = [pc EXCEPT ![c] = "destroyed"]
          /\ target' = [target EXCEPT ![c] = None]
          /\ UNCHANGED <<left, stage>>
     ELSE /\ pc' = [pc EXCEPT ![c] = IF stage < Len(CpuSeq) THEN "drain" ELSE "claim"]
          /\ target' = [target EXCEPT ![c] = DrainOrder[stage + 1]]
          /\ left' = [left EXCEPT ![c] = FlushAll]
          /\ stage' = stage + 1
  /\ UNCHANGED <<object_list_, partial_page_list_, remote_cache_, cache, used,
                 list, held>>

DrainClaim(c) ==
  /\ pc[c] = "claim"
  /\ ClaimRemoteFreeList(target[c])
  /\ pc' = [pc EXCEPT ![c] = "drain"]
  /\ UNCHANGED <<partial_page_list_, remote_check, remote_list_,
                 remote_cache_, cache, used, list, held, target, left, stage>>

-----------------------------------------------------------------------------

\* The steps of an operation once it has been called.
OperationStep(c) ==
  \/ AllocFromList(c)
  \/ AllocClaim(c)
  \/ Trim(c)
  \/ AllocFromPartial(c)
  \/ AddSlab(c)
  \/ AllocFails(c)
  \/ FlushHome(c)
  \/ FlushForeign(c)
  \/ FlushReturns(c)
  \/ DrainStageEnds(c)
  \/ DrainClaim(c)

Next ==
  \E c \in Cpus :
    \/ \E nid \in Nodes : Alloc(c, nid)
    \/ FreeLocal(c)
    \/ FreeOther(c)
    \/ Destroy(c)
    \/ OperationStep(c)

Spec == Init /\ [][Next]_slabVars

\* Every cpu goes on executing.
FairSpec == Spec /\ \A c \in Cpus : WF_slabVars(OperationStep(c))

-----------------------------------------------------------------------------
(* Properties *)

\* Where an object is: with a caller, in its slab, or on one of the lists.
Places(o) ==
  {<<"held", o>> : x \in held \cap {o}}
    \cup {<<"slab", s>> : s \in {s \in Slabs : o \in list[s]}}
    \cup {<<"object_list_", k>> : k \in {k \in Caches : o \in object_list_[k]}}
    \cup {<<"remote_", k>> : k \in {k \in Caches : o \in remote_[k]}}
    \cup {<<"remote_list_", c>> : c \in {c \in Cpus : o \in remote_list_[c]}}

\* An object of a slab in use is in exactly one place; a slab given back to
\* the page allocator has none of its objects anywhere.  So no object is
\* handed out twice or lost on its way home through FlushFreeList,
\* FreeRemote, FlushRemoteList and ClaimRemoteFreeList, and no slab is freed
\* under a caller.
ObjectsPartitioned ==
  /\ TypeOK
  /\ \A o \in Objects :
       Cardinality(Places(o)) = IF cache[SlabOf(o)] = None THEN 0 ELSE 1

\* slab_data.used counts the objects that are out of the slab, and a cache's
\* partial list holds exactly its slabs that have an object left: what the
\* two kasserts of SlabCache::Alloc need (used below the number of objects,
\* list not empty), and the erase of FlushFreeList (the page is on the list).
SlabAccounting ==
  /\ \A s \in Slabs :
       cache[s] # None => used[s] + Cardinality(list[s]) = num_objects
  /\ \A k \in Caches :
       partial_page_list_[k] = {s \in Slabs : cache[s] = k /\ list[s] # {}}

\* Objects are only ever sent home: all of a cpu's remote_list_ belongs to
\* its remote_cache_, and all of a cache's remote list to that cache.
RemoteObjectsGoHome ==
  /\ \A c \in Cpus : \A o \in remote_list_[c] : cache[SlabOf(o)] = remote_cache_[c]
  /\ \A k \in Caches : \A o \in remote_[k] : cache[SlabOf(o)] = k

\* The owner of a remote list that has reached the watermark will look at it:
\* of the objects it does not look for there are fewer than a batch.  Flushes
\* of several cpus and claims come in any order, and the check is set only by
\* the flush that crosses (FlushRemoteList, ClaimRemoteFreeList).  Of objects
\* above 64 pages, whose batch is 0, no flush crosses and none is looked for.
WatermarkSetsCheck ==
  free_batch > 0 =>
    \A k \in Caches : Cardinality(remote_[k]) >= free_batch => remote_check[k]

\* When the destructor of the root is done, the lists whose emptiness
\* ~SlabCache asserts are empty, and every slab is back with the page
\* allocator, unless a caller still has an object of it.  There are two more
\* ways to lose a slab.  FlushFreeList sends foreign objects away over the
\* remote_list_ of the cpu that runs the destructor, which the first loop has
\* flushed already unless that cpu is the last one.  And a slab nothing was
\* ever allocated from is not given back: remote objects came in between its
\* AddSlab and the second cache_.Alloc.
DestructorDrains ==
  \A c \in Cpus : pc[c] = "destroyed" =>
    /\ \A k \in Caches : object_list_[k] = {} /\ remote_[k] = {}
    /\ \A s \in Slabs : cache[s] # None =>
         \/ ObjectsOf(s) \cap held # {}
         \/ used[s] = 0
         \/ c # CpuSeq[Len(CpuSeq)] /\ ObjectsOf(s) \cap remote_list_[c] # {}

\* A call of Free that has to flush returns.
FlushingFreeReturns ==
  \A c \in Cpus : pc[c] = "flushFree" ~> pc[c] = "idle"

\* SlabCache::Alloc, having found nothing in either list, goes on to the
\* partial pages and to a new slab (the comment at slab_allocator.cpp:144):
\* it returns, with an object or with nullptr.
AllocReturnsAtLast ==
  \A c \in Cpus : pc[c] = "alloc" ~> pc[c] = "idle"
=============================================================================
